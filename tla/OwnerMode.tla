----------------------------- MODULE OwnerMode -----------------------------
(***************************************************************************)
(* How the declared owner and mode are put on a volume's files:            *)
(* ReconcileOwnerModeAtPath of pkg/driver/owner_mode.go.                   *)
(*                                                                         *)
(* The files of a volume are numbered in the order in which WalkDir visits *)
(* them, the mount point first.  A file's owner and its group are treated  *)
(* alike, so one number stands for both.                                   *)
(***************************************************************************)
EXTENDS Integers

CONSTANTS
    Size,         \* how many files a volume has, its mount point included
    Links,        \* those of them that are symbolic links
    Width,        \* 2^32, the range of a file's UID
    Modes,        \* the permission bits
    NoOwner,      \* no owner declared
    NoMode        \* no mode declared

Files == 1..Size
Root == 1
OwnerIds == 0..(Width - 1)
Trees == [Files -> [owner : OwnerIds, mode : Modes]]

ASSUME OwnerModeAssumption ==
    /\ Size \in Nat \ {0}
    /\ Links \subseteq Files \ {Root}
    /\ Width \in Nat \ {0}
    /\ NoOwner \notin Int
    /\ NoMode \notin Modes

\* What is declared: any 64-bit number, negative ones included, and a mode.
Declarations ==
    [owner : Int \cup {NoOwner}, mode : Modes \cup {NoMode}, recursive : BOOLEAN]

-----------------------------------------------------------------------------
(* Faulty variants, not part of the specification.                         *)

\* The entries the walk reports include the links.
TargetsLinksToo(d) ==
    IF d.owner = NoOwner /\ d.mode = NoMode THEN {}
    ELSE IF d.recursive THEN Files ELSE {Root}

\* The last file is not walked.
TargetsButLast(d) ==
    IF d.owner = NoOwner /\ d.mode = NoMode THEN {}
    ELSE IF d.recursive THEN (1..(Size - 1)) \ Links ELSE {Root}

\* A file's owner is compared with the declared number as it stands.
OwnerDiffersUntruncated(d, f) == d.owner # NoOwner /\ f.owner # d.owner

-----------------------------------------------------------------------------

\* The files that are looked at: links are neither changed nor followed.
Targets(d) ==
    IF d.owner = NoOwner /\ d.mode = NoMode THEN {}
    ELSE IF d.recursive THEN Files \ Links ELSE {Root}

\* What a file's owner and mode are compared with and found different from.
OwnerDiffers(d, f) == d.owner # NoOwner /\ f.owner # d.owner % Width
ModeDiffers(d, f) == d.mode # NoMode /\ f.mode # d.mode

\* Fault: the number is not cut to the width of a UID.
ChownUntruncated(d, f) ==
    IF OwnerDiffers(d, f) /\ d.owner % Width # Width - 1
    THEN [f EXCEPT !.owner = d.owner] ELSE f

\* chown, to which the largest number means "leave it as it is", and chmod.
Chown(d, f) ==
    IF OwnerDiffers(d, f) /\ d.owner % Width # Width - 1
    THEN [f EXCEPT !.owner = d.owner % Width] ELSE f
Chmod(d, f) ==
    IF ModeDiffers(d, f) THEN [f EXCEPT !.mode = d.mode] ELSE f

\* The files that would be, or were, reported as changed.
Changes(d, t) == {e \in Targets(d) : OwnerDiffers(d, t[e]) \/ ModeDiffers(d, t[e])}

\* The tree once the walk has dealt with the files before k.
Walked(d, t, k) ==
    [e \in Files |-> IF e \in Targets(d) /\ e < k THEN Chmod(d, Chown(d, t[e])) ELSE t[e]]

Reconciled(d, t) == Walked(d, t, Size + 1)

\* The trees a walk that fails can leave: some file could not be looked at or
\* chowned, or it was chowned and could not be chmodded.
Interrupted(d, t) ==
    {Walked(d, t, k) : k \in Files} \cup
    {[Walked(d, t, k) EXCEPT ![k] = Chown(d, t[k])] : k \in Targets(d)}

\* A declared owner that chown takes for "leave it as it is" is never in place.
Attainable(d) == d.owner # NoOwner => d.owner % Width # Width - 1
=============================================================================
