--------------------------- MODULE BackendProofs ---------------------------
(***************************************************************************)
(* What the drivers' commands can do to the filesystems: how far each one  *)
(* reaches, and that they keep the types.                                  *)
(***************************************************************************)
EXTENDS Backend, TLAPS

\* Emptying takes away volumes of S on n and nothing else.
LEMMA EmptiedReach ==
  ASSUME BackendTypeOK, NEW n \in Nodes, NEW S, NEW m \in Nodes, NEW q \in Paths
  PROVE  /\ Emptied(n, S)[m][q] = IF m = n /\ q \in S THEN NoVol ELSE vol[m][q]
         /\ Emptied(n, S) \in [Nodes -> [Paths -> Owners \cup {NoVol}]]
BY DEF Emptied, BackendTypeOK

\* Filling puts x at p, makes what is missing above p, and changes no other path.
LEMMA FilledReach ==
  ASSUME BackendTypeOK, NEW n \in Nodes, NEW p \in Paths,
         NEW x \in Owners \cup {NoVol}, NEW m \in Nodes, NEW q \in Paths
  PROVE  /\ Filled(n, p, x)[m][q] =
              IF m # n THEN vol[m][q]
              ELSE IF q = p THEN x
              ELSE IF q \in Above(p) /\ vol[n][q] = NoVol THEN Foreign
              ELSE vol[n][q]
         /\ Filled(n, p, x) \in [Nodes -> [Paths -> Owners \cup {NoVol}]]
<1> Foreign \in Owners
  BY DEF Owners
<1>1. QED
  BY DEF Filled, BackendTypeOK

\* The commands of Create and Delete.
CreateStep(kind, n, p, u) ==
    \/ CreateSucceeds(kind, n, p, u)
    \/ CreateRefused(kind, n, p)
    \/ CreateFails(kind, n, p, u)

DeleteStep(kind, n, p) ==
    \/ PreserveSucceeds(kind, n, p) \/ PreserveFails(kind, n, p)
    \/ DestroySucceeds(kind, n, p) \/ DestroyRefused(kind, n, p)
    \/ DestroyFails(kind, n, p)

\* Create changes nothing, or fills a path that was empty.
LEMMA CreateReach ==
  ASSUME NEW kind, NEW n, NEW p, NEW u, CreateStep(kind, n, p, u)
  PROVE  /\ kept' = kept
         /\ \/ vol' = vol
            \/ ~Present(n, p) /\ vol' \in {Filled(n, p, NoVol), Filled(n, p, u)}
BY DEF CreateStep, CreateSucceeds, CreateRefused, CreateFails, backendVars

\* Delete changes nothing, or empties paths at and below the one it is given.
LEMMA DeleteReach ==
  ASSUME NEW kind, NEW n, NEW p, DeleteStep(kind, n, p)
  PROVE  \/ vol' = vol
         \/ \E S \in SUBSET Within(p) : vol' = Emptied(n, S)
<1>1. Within(p) \in SUBSET Within(p)
  OBVIOUS
<1>2. QED
  BY <1>1 DEF DeleteStep, PreserveSucceeds, PreserveFails, DestroySucceeds,
     DestroyRefused, DestroyFails, backendVars

LEMMA KeptType ==
  ASSUME BackendTypeOK, NEW kind, NEW n \in Nodes, NEW p \in Paths,
         DeleteStep(kind, n, p)
  PROVE  kept' \subseteq Owners
<1>1. {vol[n][q] : q \in Within(p)} \ {NoVol} \subseteq Owners
  BY DEF BackendTypeOK, Within
<1>2. vol[n][p] # NoVol => vol[n][p] \in Owners
  BY DEF BackendTypeOK
<1>3. ASSUME PreserveSucceeds(kind, n, p) PROVE kept' \subseteq Owners
  BY <1>1, <1>2, <1>3 DEF PreserveSucceeds, Present, BackendTypeOK
<1>4. QED
  BY <1>3 DEF DeleteStep, PreserveFails, DestroySucceeds, DestroyRefused,
     DestroyFails, backendVars, BackendTypeOK

\* The commands keep the types.
LEMMA CreateType ==
  ASSUME BackendTypeOK, NEW kind, NEW n \in Nodes, NEW p \in Paths, NEW u \in Uids,
         CreateStep(kind, n, p, u)
  PROVE  BackendTypeOK'
<1>1. u \in Owners \cup {NoVol} /\ NoVol \in Owners \cup {NoVol}
  BY DEF Owners
<1>2. kept' = kept /\ (vol' = vol \/ vol' \in {Filled(n, p, NoVol), Filled(n, p, u)})
  BY CreateReach
<1>3. /\ Filled(n, p, NoVol) \in [Nodes -> [Paths -> Owners \cup {NoVol}]]
      /\ Filled(n, p, u) \in [Nodes -> [Paths -> Owners \cup {NoVol}]]
  BY <1>1, FilledReach
<1>4. vol' \in [Nodes -> [Paths -> Owners \cup {NoVol}]]
  BY <1>2, <1>3 DEF BackendTypeOK
<1>5. kept' \subseteq Owners
  BY <1>2 DEF BackendTypeOK
<1>6. QED
  BY <1>4, <1>5 DEF BackendTypeOK

LEMMA DeleteType ==
  ASSUME BackendTypeOK, NEW kind, NEW n \in Nodes, NEW p \in Paths,
         DeleteStep(kind, n, p)
  PROVE  BackendTypeOK'
<1>1. vol' \in [Nodes -> [Paths -> Owners \cup {NoVol}]]
  <2>1. CASE vol' = vol
    BY <2>1 DEF BackendTypeOK
  <2>2. ASSUME NEW S, vol' = Emptied(n, S)
        PROVE  vol' \in [Nodes -> [Paths -> Owners \cup {NoVol}]]
    BY <2>2, EmptiedReach
  <2>3. QED
    BY <2>1, <2>2, DeleteReach
<1>2. QED
  BY <1>1, KeptType DEF BackendTypeOK
=============================================================================
