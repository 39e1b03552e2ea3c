---------------------------- MODULE PathTemplate ----------------------------
(***************************************************************************)
(* Where a claim's volume is put: the template context and the two         *)
(* templates the project ships, pkg/controller/templater.go.               *)
(*                                                                         *)
(* A claim's name is the sequence of what its hyphens separate: the claim  *)
(* "data-redis-0" is <<"data", "redis", "0">>.  Names with two hyphens in  *)
(* a row are left out.  A path is a sequence of elements, each a name or   *)
(* a part of one; no such element holds a "/" or is "..", so trimming and  *)
(* path.Clean leave it alone.                                              *)
(***************************************************************************)
EXTENDS Naturals, Sequences

CONSTANTS
    Segments,     \* what may stand between the hyphens of a name
    Numerals      \* the segments strconv.Atoi accepts

ASSUME SegmentAssumption == Numerals \subseteq Segments

\* Every name a claim can have.
ClaimNames == Seq(Segments) \ {<<>>}

-----------------------------------------------------------------------------

\* ParseStatefulSetPVC takes a name for one that a StatefulSet generated.
Generated(name) == Len(name) >= 2 /\ name[Len(name)] \in Numerals

\* The name without its index.
Prefix(name) == SubSeq(name, 1, Len(name) - 1)

\* ".Index"; only for a generated name.
IndexOf(name) == name[Len(name)]

\* ".Owner": the prefix without the claim template's name, if it has a second
\* part, for a generated name; any other name is its own owner.
OwnerOf(name) ==
    IF ~Generated(name) THEN name
    ELSE IF Len(Prefix(name)) = 1 THEN Prefix(name) ELSE Tail(Prefix(name))

\* {{ .Namespace }}/{{ .PVC }}, the template of a class that names none.
DefaultPath(ns, name) == <<ns, name>>

\* {{ .Namespace }}/{{ if .Index }}{{ .Owner }}/{{ .Index }}{{ else }}{{ .PVC
\* }}{{ end }}, the template of the README and of the example classes.
ExamplePath(ns, name) ==
    IF Generated(name) THEN <<ns, OwnerOf(name), <<IndexOf(name)>>>>
    ELSE <<ns, name>>

\* A path lies below another.
LiesBelow(q, p) == Len(p) < Len(q) /\ \A i \in 1..Len(p) : p[i] = q[i]
=============================================================================
