-------------------------- MODULE OwnerModeProofs --------------------------
(***************************************************************************)
(* Whatever number is declared and wherever the walk stops: links stay as  *)
(* they are, files keep the shape of files, and a walk that goes through   *)
(* leaves nothing to change - unless the owner is the number chown takes   *)
(* for "leave it as it is".                                                *)
(***************************************************************************)
EXTENDS OwnerMode, TLAPS

FileStates == [owner : OwnerIds, mode : Modes]

\* A declared number is cut to the width of a UID.
LEMMA NumberFits ==
  ASSUME NEW i \in Int
  PROVE  i % Width \in OwnerIds
BY OwnerModeAssumption DEF OwnerModeAssumption, OwnerIds

LEMMA FileType ==
  ASSUME NEW d \in Declarations, NEW f \in FileStates
  PROVE  Chown(d, f) \in FileStates /\ Chmod(d, f) \in FileStates
<1>1. d.owner # NoOwner => d.owner % Width \in OwnerIds
  BY NumberFits DEF Declarations
<1>2. d.mode # NoMode => d.mode \in Modes
  BY DEF Declarations
<1>3. Chown(d, f) \in FileStates
  BY <1>1 DEF Chown, OwnerDiffers, FileStates
<1>4. Chmod(d, f) \in FileStates
  BY <1>2 DEF Chmod, ModeDiffers, FileStates
<1>5. QED
  BY <1>3, <1>4

LEMMA WalkedType ==
  ASSUME NEW d \in Declarations, NEW t \in Trees, NEW k
  PROVE  Walked(d, t, k) \in Trees
<1>1. \A e \in Files : t[e] \in FileStates
  BY DEF Trees, FileStates
<1>2. \A e \in Files : Chmod(d, Chown(d, t[e])) \in FileStates
  BY <1>1, FileType
<1>3. QED
  BY <1>1, <1>2 DEF Walked, Trees, FileStates

\* A walk that succeeds or fails leaves files.
LEMMA OutcomeType ==
  ASSUME NEW d \in Declarations, NEW t \in Trees,
         NEW r \in Interrupted(d, t) \cup {Reconciled(d, t)}
  PROVE  r \in Trees
<1>1. CASE \E k : r = Walked(d, t, k)
  BY <1>1, WalkedType
<1>2. ASSUME NEW k \in Targets(d), r = [Walked(d, t, k) EXCEPT ![k] = Chown(d, t[k])]
      PROVE  r \in Trees
  <2>1. k \in Files
    BY OwnerModeAssumption DEF Targets, OwnerModeAssumption, Root, Files
  <2>2. t[k] \in FileStates
    BY <2>1 DEF Trees, FileStates
  <2>3. Walked(d, t, k) \in Trees /\ Chown(d, t[k]) \in FileStates
    BY <2>2, WalkedType, FileType
  <2>4. QED
    BY <1>2, <2>3 DEF Trees, FileStates
<1>3. QED
  BY <1>1, <1>2 DEF Interrupted, Reconciled

\* No walk touches a link (ReconcileOwnerModeAtPath: "Symlinks are skipped and
\* never followed"), wherever it stops.
THEOREM LinksKept ==
  ASSUME NEW d \in Declarations, NEW t \in Trees, NEW e \in Links,
         NEW r \in Interrupted(d, t) \cup {Reconciled(d, t)}
  PROVE  r[e] = t[e]
<1>1. e \in Files /\ e \notin Targets(d)
  BY OwnerModeAssumption DEF Targets, OwnerModeAssumption
<1>2. \A k : Walked(d, t, k)[e] = t[e]
  BY <1>1 DEF Walked
<1>3. ASSUME NEW k \in Targets(d), r = [Walked(d, t, k) EXCEPT ![k] = Chown(d, t[k])]
      PROVE  r[e] = t[e]
  <2>1. Walked(d, t, k) \in Trees
    BY WalkedType
  <2>2. QED
    BY <1>1, <1>2, <1>3, <2>1 DEF Trees
<1>4. QED
  BY <1>2, <1>3 DEF Interrupted, Reconciled

\* A walk that goes through leaves nothing to be changed by the next one: what
\* it writes is what the next one compares with, although the number declared
\* has more bits than a UID.
THEOREM WalkConverges ==
  ASSUME NEW d \in Declarations, NEW t \in Trees, Attainable(d)
  PROVE  Changes(d, Reconciled(d, t)) = {}
<1> SUFFICES ASSUME NEW e \in Targets(d)
             PROVE  LET f == Reconciled(d, t)[e] IN ~OwnerDiffers(d, f) /\ ~ModeDiffers(d, f)
  BY DEF Changes
<1>1. e \in Files /\ e < Size + 1
  BY OwnerModeAssumption DEF Targets, OwnerModeAssumption, Root, Files
<1>2. Reconciled(d, t)[e] = Chmod(d, Chown(d, t[e])) /\ t[e] \in FileStates
  BY <1>1 DEF Reconciled, Walked, Trees, FileStates
<1>3. ~OwnerDiffers(d, Chown(d, t[e])) /\ Chown(d, t[e]) \in FileStates
  BY <1>2, FileType DEF Chown, OwnerDiffers, Attainable, FileStates
<1>4. ~OwnerDiffers(d, Chmod(d, Chown(d, t[e])))
  BY <1>3 DEF Chmod, OwnerDiffers, FileStates
<1>5. ~ModeDiffers(d, Chmod(d, Chown(d, t[e])))
  BY <1>3 DEF Chmod, ModeDiffers, FileStates
<1>6. QED
  BY <1>2, <1>4, <1>5

\* And a walk that finds nothing to change would change nothing.
THEOREM NoChangesNoEffect ==
  ASSUME NEW d \in Declarations, NEW t \in Trees, Changes(d, t) = {}
  PROVE  Reconciled(d, t) = t
<1>1. \A e \in Targets(d) : ~OwnerDiffers(d, t[e]) /\ ~ModeDiffers(d, t[e])
  BY DEF Changes
<1>2. \A e \in Targets(d) : Chmod(d, Chown(d, t[e])) = t[e]
  BY <1>1 DEF Chmod, Chown
<1>3. QED
  BY <1>2 DEF Reconciled, Walked, Trees
=============================================================================
