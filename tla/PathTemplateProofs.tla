------------------------- MODULE PathTemplateProofs -------------------------
(***************************************************************************)
(* Which claims share a path under the default template and under the one  *)
(* of the README's examples, and what that means for their data.           *)
(***************************************************************************)
EXTENDS LiveDataProofs, PathTemplate

\* The name a StatefulSet s gives the claim of its template c and replica i.
GeneratedName(c, s, i) == <<c>> \o s \o <<i>>

\* Parsing a generated name gives back the set and the replica it was made
\* from (ParseStatefulSetPVC), however many hyphens the set's name has.
THEOREM GeneratedNameParsed ==
  ASSUME NEW c \in Segments, NEW s \in ClaimNames, NEW i \in Numerals
  PROVE  /\ Generated(GeneratedName(c, s, i))
         /\ OwnerOf(GeneratedName(c, s, i)) = s
         /\ IndexOf(GeneratedName(c, s, i)) = i
<1> DEFINE name == GeneratedName(c, s, i)
<1> USE SegmentAssumption DEF SegmentAssumption
<1>1. s \in Seq(Segments) /\ Len(s) \in Nat /\ Len(s) >= 1
  BY DEF ClaimNames
<1>2. name \in Seq(Segments) /\ Len(name) = Len(s) + 2
  BY <1>1 DEF GeneratedName
<1>3. name[Len(name)] = i
  BY <1>1, <1>2 DEF GeneratedName
<1>4. Generated(name) /\ IndexOf(name) = i
  BY <1>1, <1>2, <1>3 DEF Generated, IndexOf
<1>5. /\ Prefix(name) \in Seq(Segments) /\ Len(Prefix(name)) = Len(s) + 1
      /\ \A k \in 1..(Len(s) + 1) : Prefix(name)[k] = name[k]
  BY <1>1, <1>2 DEF Prefix
<1>6. /\ Tail(Prefix(name)) \in Seq(Segments) /\ Len(Tail(Prefix(name))) = Len(s)
      /\ \A k \in 1..Len(s) : Tail(Prefix(name))[k] = name[k + 1]
  BY <1>1, <1>5
<1>7. \A k \in 1..Len(s) : name[k + 1] = s[k]
  BY <1>1, <1>2 DEF GeneratedName
<1>8. Tail(Prefix(name)) = s
  BY <1>1, <1>6, <1>7
<1>9. OwnerOf(name) = s
  BY <1>1, <1>4, <1>5, <1>8 DEF OwnerOf
<1>10. QED
  BY <1>4, <1>9

\* The example template drops the claim template's name: two claim templates
\* of one StatefulSet evaluate to one path for every replica.
THEOREM ExamplePathShared ==
  ASSUME NEW ns, NEW c \in Segments, NEW d \in Segments, NEW s \in ClaimNames,
         NEW i \in Numerals
  PROVE  ExamplePath(ns, GeneratedName(c, s, i)) = ExamplePath(ns, GeneratedName(d, s, i))
BY GeneratedNameParsed DEF ExamplePath

\* It also puts a replica's volume below that of a claim with the set's name.
THEOREM ExamplePathNested ==
  ASSUME NEW ns, NEW c \in Segments, NEW s \in ClaimNames, NEW i \in Numerals,
         ~Generated(s)
  PROVE  LiesBelow(ExamplePath(ns, GeneratedName(c, s, i)), ExamplePath(ns, s))
<1>1. /\ ExamplePath(ns, GeneratedName(c, s, i)) = <<ns, s, <<i>>>>
      /\ ExamplePath(ns, s) = <<ns, s>>
  BY GeneratedNameParsed DEF ExamplePath
<1>2. QED
  BY <1>1 DEF LiesBelow

\* The default template gives every claim a path of its own, and none below
\* another's.
THEOREM DefaultPathDedicated ==
  ASSUME NEW ns1, NEW ns2, NEW a, NEW b, <<ns1, a>> # <<ns2, b>>
  PROVE  /\ DefaultPath(ns1, a) # DefaultPath(ns2, b)
         /\ ~LiesBelow(DefaultPath(ns1, a), DefaultPath(ns2, b))
BY DEF DefaultPath, LiesBelow

\* The example template does so among the claims of StatefulSets that all have
\* the same single claim template.
THEOREM ExamplePathDedicated ==
  ASSUME NEW ns1, NEW ns2, NEW c \in Segments,
         NEW s \in ClaimNames, NEW i \in Numerals,
         NEW t \in ClaimNames, NEW j \in Numerals,
         <<ns1, s, i>> # <<ns2, t, j>>
  PROVE  /\ ExamplePath(ns1, GeneratedName(c, s, i)) # ExamplePath(ns2, GeneratedName(c, t, j))
         /\ ~LiesBelow(ExamplePath(ns1, GeneratedName(c, s, i)),
                       ExamplePath(ns2, GeneratedName(c, t, j)))
<1>1. /\ ExamplePath(ns1, GeneratedName(c, s, i)) = <<ns1, s, <<i>>>>
      /\ ExamplePath(ns2, GeneratedName(c, t, j)) = <<ns2, t, <<j>>>>
  BY GeneratedNameParsed DEF ExamplePath
<1>2. QED
  BY <1>1 DEF LiesBelow

-----------------------------------------------------------------------------
(* The provisioner with either template, in one namespace.                 *)

\* What lies below what, and claims whose names are never used twice.
PathsNest == Below = {pq \in Paths \X Paths : LiesBelow(pq[2], pq[1])}
NamesUsedOnce == \A u, v \in Uids : u # v => NameOf[u] # NameOf[v]

\* With the default template the data written for a claim is kept for as long
\* as the claim exists, unless a name is used again (see the run reuse).
THEOREM DefaultTemplateKeepsData ==
  ASSUME NEW ns, PathsNest, NamesUsedOnce,
         PathOf = [u \in Uids |-> DefaultPath(ns, NameOf[u])]
  PROVE  Spec => LiveDataKept
<1>1. DedicatedPaths
  <2> SUFFICES ASSUME NEW u \in Uids, NEW v \in Uids, u # v
               PROVE  PathOf[u] # PathOf[v] /\ ~LiesBelow(PathOf[v], PathOf[u])
    BY DEF DedicatedPaths, PathsNest
  <2>1. <<ns, NameOf[u]>> # <<ns, NameOf[v]>>
    BY DEF NamesUsedOnce
  <2>2. QED
    BY <2>1, DefaultPathDedicated
<1>2. QED
  BY <1>1, LiveDataKeptHolds

\* With the example template that needs more: every claim is a replica's, and
\* all the sets have one and the same claim template (runs two_claims, nested).
THEOREM ExampleTemplateKeepsData ==
  ASSUME NEW ns, PathsNest, NamesUsedOnce,
         PathOf = [u \in Uids |-> ExamplePath(ns, NameOf[u])],
         NEW c \in Segments,
         \A u \in Uids : \E s \in ClaimNames, i \in Numerals :
             NameOf[u] = GeneratedName(c, s, i)
  PROVE  Spec => LiveDataKept
<1>1. DedicatedPaths
  <2> SUFFICES ASSUME NEW u \in Uids, NEW v \in Uids, u # v
               PROVE  PathOf[u] # PathOf[v] /\ ~LiesBelow(PathOf[v], PathOf[u])
    BY DEF DedicatedPaths, PathsNest
  <2>1. PICK s \in ClaimNames, i \in Numerals : NameOf[u] = GeneratedName(c, s, i)
    OBVIOUS
  <2>2. PICK t \in ClaimNames, j \in Numerals : NameOf[v] = GeneratedName(c, t, j)
    OBVIOUS
  <2>3. <<ns, s, i>> # <<ns, t, j>>
    BY <2>1, <2>2 DEF NamesUsedOnce
  <2>4. QED
    BY <2>1, <2>2, <2>3, ExamplePathDedicated
<1>2. QED
  BY <1>1, LiveDataKeptHolds
=============================================================================
