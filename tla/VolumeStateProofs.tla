------------------------- MODULE VolumeStateProofs -------------------------
(***************************************************************************)
(* What holds of live reconciling, for any number of workers, files,       *)
(* properties, edits, failures, restarts and absences of the mount path.   *)
(*                                                                         *)
(* The argument: the in-progress guard lets one pass at a time near the    *)
(* volume (OnePass), so what a clean pass has found in place is still in   *)
(* place when it reports (FoundOK); and a pass applies only what a claim   *)
(* it has read, or its class, authorised (GrantOK).  While nothing         *)
(* disturbs, every copy of the claim differs from it at most in the        *)
(* annotation, a copy that still shows a used one finds everything in      *)
(* place, and so none is used twice (OneShotOK).                           *)
(***************************************************************************)
EXTENDS VolumeState, WorkQueueProofs, OwnerModeProofs

Pcs == {"idle", "start", "ok", "err"} \cup Underway

\* One pass at a time, and the guard is set while there is one.
OnePass ==
    /\ \A w \in Workers : pc[w] \in Underway => inProgress
    /\ \A w1, w2 \in Workers : pc[w1] \in Underway /\ pc[w2] \in Underway => w1 = w2

\* Nobody has seen an annotation that was never given, and until one is given
\* only a class that applies by itself changes the volume.
GrantOK ==
    grants = 0 =>
        /\ want.apply = 0 /\ seen.apply = 0
        /\ \A w \in Workers : pass[w].claim.apply = 0
        /\ ~autoApply => /\ quota = NoQuota /\ tree = FirstTree
                         /\ props = IF driver = "zfs" THEN FirstProps ELSE {}

\* What a clean pass without changes has found so far.
QuotaFound(w) ==
    IF driver = "zfs" THEN quota = Conf(w).quota ELSE Conf(w).quota = NoQuota
OwnerFound(w) == pass[w].skipped \/ OwnershipInPlace(Conf(w).files)
PropsFound(w) == IF driver = "zfs" THEN props = Desired(w) ELSE Desired(w) = {}

FoundOK ==
    \A w \in Workers : pass[w].clean /\ ~pass[w].changes =>
        /\ pc[w] \in {"owner", "props", "report"} => QuotaFound(w)
        /\ pc[w] \in {"props", "report"} => OwnerFound(w)
        /\ pc[w] = "report" => PropsFound(w)

\* What has never gone missing is there.
PresentOK == absences = 0 => present

StateInv ==
    /\ StateTypeOK /\ OnePass /\ GrantOK /\ FoundOK
    /\ LinksUntouched /\ PresentOK

\* Nobody has edited the claim, nothing has failed, the volume has always been
\* there, and the owner can be had.
Undisturbed ==
    edits = 0 /\ faults = 0 /\ absences = 0 /\ Attainable(want.conf.files)

\* What applying can do for the declaration has been done; a directory has only
\* owners and modes.
QuotaSettled == driver = "zfs" => quota = want.conf.quota
OwnerSettled == Changes(want.conf.files, tree) = {}
PropsSettled == driver = "zfs" => Base \cup want.conf.props \subseteq props
Settled == QuotaSettled /\ OwnerSettled /\ PropsSettled

\* A copy of the claim that differs from the API's at most in the annotation.
SameClaim(c) == c.conf = want.conf /\ ~c.dry

Unused == \A g \in 1..MaxGrants : used[g] = 0

\* A pass that applies leaves behind it what is settled, and it has found changes
\* only if none before it has applied any.
PassOK(w) ==
    pc[w] \in Underway =>
        /\ SameClaim(pass[w].claim) /\ pass[w].class
        /\ Applies(w) =>
            /\ pc[w] \in {"owner", "props", "report"} => QuotaSettled
            /\ pc[w] \in {"props", "report"} => OwnerSettled
            /\ pc[w] = "report" => PropsSettled
            /\ pc[w] # "patch" /\ pass[w].changes => Unused

UsedOK == \A g \in 1..MaxGrants : used[g] # 0 => used[g] = 1 /\ Settled

OneShotOK ==
    Undisturbed =>
        /\ ~want.dry /\ SameClaim(seen)
        /\ \A w \in Workers : PassOK(w)
        /\ UsedOK

-----------------------------------------------------------------------------
(* The types.                                                              *)

LEMMA IdleType == Confs # {} => Idle \in Passes
BY VolumeStateAssumption DEF VolumeStateAssumption, Idle, Passes, Wants

LEMMA StateInit == Init => StateInv
<1> SUFFICES ASSUME Init PROVE StateInv
  OBVIOUS
<1>1. QueueTypeOK
  BY QueueAssumption, VolumeStateAssumption
     DEF QueueAssumption, VolumeStateAssumption, QueueTypeOK, Init
<1>2. /\ want \in [conf : Confs, apply : {0}, dry : {FALSE}] /\ seen = want
      /\ want.conf \in Confs /\ want.apply = 0
  BY DEF Init
<1>3. Idle \in Passes
  BY <1>2, IdleType
<1>4. MaxEdits \in Nat /\ MaxGrants \in Nat /\ MaxFaults \in Nat /\ MaxRestarts \in Nat
      /\ MaxAbsences \in Nat
  BY VolumeStateAssumption DEF VolumeStateAssumption
<1>5. want \in Wants /\ seen \in Wants
  <2>1. PICK c \in Confs : want = [conf |-> c, apply |-> 0, dry |-> FALSE]
    BY <1>2
  <2>2. 0 \in 0..MaxGrants
    BY <1>4
  <2>3. QED
    BY <1>2, <2>1, <2>2 DEF Wants
<1>6. props \in SUBSET Props /\ tree \in Trees
  BY VolumeStateAssumption DEF VolumeStateAssumption, Init
<1>7. StateTypeOK
  <2>1. pc \in [Workers -> Pcs] /\ pass \in [Workers -> Passes]
    BY <1>3 DEF Init, Pcs
  <2>2. /\ grants \in 0..MaxGrants /\ used \in [1..MaxGrants -> 0..2]
        /\ edits \in 0..MaxEdits /\ faults \in 0..MaxFaults
        /\ absences \in 0..MaxAbsences /\ restarts \in 0..MaxRestarts
    BY <1>4 DEF Init
  <2>3. /\ driver \in Drivers /\ autoApply \in BOOLEAN /\ pvSeen \in BOOLEAN
        /\ inProgress \in BOOLEAN /\ quota \in Quotas \cup {NoQuota}
        /\ present \in BOOLEAN
    BY DEF Init
  <2>4. QED
    BY <1>1, <1>5, <1>6, <2>1, <2>2, <2>3 DEF StateTypeOK, Pcs
<1>8. OnePass /\ FoundOK
  BY DEF OnePass, FoundOK, Underway, Init
<1>9. GrantOK
  BY <1>2 DEF GrantOK, Idle, Init
<1>10. LinksUntouched /\ PresentOK
  BY DEF LinksUntouched, PresentOK, Init
<1>11. QED
  BY <1>7, <1>8, <1>9, <1>10 DEF StateInv

\* It goes on, having looked at something or not.
GoesOn(w, s, changed, worked) ==
    \/ Continue(w, s, changed, worked)
    \/ ~changed /\ worked /\ PassOver(w, s)

\* A pass that goes on has the claim it read, and remembers what it found.
LEMMA GoesOnStep ==
  ASSUME StateTypeOK, NEW w \in Workers, NEW s \in Underway,
         NEW c \in BOOLEAN, NEW k \in BOOLEAN, GoesOn(w, s, c, k)
  PROVE  /\ pc' = [pc EXCEPT ![w] = s] /\ pc' \in [Workers -> Pcs]
         /\ pass' \in [Workers -> Passes] /\ inProgress' = inProgress
         /\ pass'[w].claim = pass[w].claim /\ pass'[w].class = pass[w].class
         /\ pass'[w].clean => pass[w].clean /\ k
         /\ pass'[w].changes <=> pass[w].changes \/ c
         /\ pass[w].skipped => pass'[w].skipped
         /\ PassOver(w, s) => pass'[w].skipped
         /\ \A x \in Workers \ {w} : pass'[x] = pass[x]
<1>1. pc \in [Workers -> Pcs] /\ pass \in [Workers -> Passes] /\ pass[w] \in Passes
  BY DEF StateTypeOK, Pcs
<1>2. PICK p \in Passes :
         /\ pass' = [pass EXCEPT ![w] = p]
         /\ p.claim = pass[w].claim /\ p.class = pass[w].class
         /\ p.clean => pass[w].clean /\ k
         /\ p.changes <=> pass[w].changes \/ c
         /\ pass[w].skipped => p.skipped
  <2>1. CASE Continue(w, s, c, k)
    <3> DEFINE p == [pass[w] EXCEPT !.changes = @ \/ c, !.clean = @ /\ k]
    <3>1. (pass[w].changes \/ c) \in BOOLEAN /\ (pass[w].clean /\ k) \in BOOLEAN
      OBVIOUS
    <3>2. /\ p \in Passes /\ p.claim = pass[w].claim /\ p.class = pass[w].class
          /\ p.clean = (pass[w].clean /\ k) /\ p.changes = (pass[w].changes \/ c)
          /\ p.skipped = pass[w].skipped
      BY <1>1, <3>1 DEF Passes
    <3>3. pass' = [pass EXCEPT ![w] = p]
      BY <2>1 DEF Continue
    <3>4. QED
      BY <3>2, <3>3
  <2>2. CASE ~c /\ k /\ PassOver(w, s)
    <3> DEFINE p == [pass[w] EXCEPT !.skipped = TRUE]
    <3>1. /\ p \in Passes /\ p.claim = pass[w].claim /\ p.class = pass[w].class
          /\ p.clean = pass[w].clean /\ p.changes = pass[w].changes /\ p.skipped
      BY <1>1 DEF Passes
    <3>2. pass' = [pass EXCEPT ![w] = p]
      BY <2>2 DEF PassOver
    <3>3. QED
      BY <2>2, <3>1, <3>2
  <2>3. QED
    BY <2>1, <2>2 DEF GoesOn
<1>3. pass'[w] = p
  BY <1>1, <1>2
<1>4. pass' \in [Workers -> Passes] /\ \A x \in Workers \ {w} : pass'[x] = pass[x]
  BY <1>1, <1>2
<1>5. PassOver(w, s) => pass'[w].skipped
  BY <1>1 DEF PassOver, Passes
<1>6. pc' = [pc EXCEPT ![w] = s] /\ pc' \in [Workers -> Pcs] /\ inProgress' = inProgress
  BY <1>1 DEF GoesOn, Continue, PassOver, Pcs
<1>7. QED
  BY <1>2, <1>3, <1>4, <1>5, <1>6

LEMMA ReturnStep ==
  ASSUME StateTypeOK, NEW w \in Workers, NEW s \in {"ok", "err"}, Return(w, s)
  PROVE  /\ pc' = [pc EXCEPT ![w] = s] /\ pc' \in [Workers -> Pcs]
         /\ pass' = [pass EXCEPT ![w] = Idle] /\ pass' \in [Workers -> Passes]
         /\ inProgress' = FALSE
<1>1. pc \in [Workers -> Pcs] /\ pass \in [Workers -> Passes] /\ Idle \in Passes
  BY IdleType DEF StateTypeOK, Pcs, Wants
<1>2. QED
  BY <1>1 DEF Return, Pcs

-----------------------------------------------------------------------------
(* A worker's step.                                                        *)

\* A pass begins, goes on or returns; or the reconcile never enters one.
LEMMA StepKinds ==
  ASSUME StateTypeOK, NEW w \in Workers, Reconcile(w)
  PROVE  \/ Skip(w)
         \/ Begin(w)
         \/ /\ pc[w] \in Underway
            /\ \E s \in Underway, c, k \in BOOLEAN : GoesOn(w, s, c, k)
         \/ /\ pc[w] \in Underway
            /\ \E s \in {"ok", "err"} : Return(w, s)
<1> USE DEF Underway, GoesOn
<1>1. CASE QuotaStep(w)
  <2>1. \/ Continue(w, "owner", quota # Conf(w).quota, TRUE)
        \/ Continue(w, "owner", FALSE, Conf(w).quota = NoQuota)
        \/ Continue(w, "owner", FALSE, FALSE)
    BY <1>1 DEF QuotaStep
  <2>2. (quota # Conf(w).quota) \in BOOLEAN /\ (Conf(w).quota = NoQuota) \in BOOLEAN
    OBVIOUS
  <2>3. QED
    BY <1>1, <2>1, <2>2 DEF QuotaStep
<1>2. CASE OwnerStep(w)
  <2>1. \/ Continue(w, "props", Changes(Conf(w).files, tree) # {}, TRUE)
        \/ PassOver(w, "props")
        \/ Continue(w, "props", FALSE, FALSE)
    BY <1>2 DEF OwnerStep
  <2>2. (Changes(Conf(w).files, tree) # {}) \in BOOLEAN
    OBVIOUS
  <2>3. QED
    BY <1>2, <2>1, <2>2 DEF OwnerStep
<1>3. CASE PropsStep(w)
  <2>1. \/ Continue(w, "report", Missing(w) \cup Extra(w) # {}, TRUE)
        \/ Continue(w, "report", FALSE, FALSE)
        \/ Continue(w, "report", FALSE, Desired(w) = {})
    BY <1>3 DEF PropsStep
  <2>2. (Missing(w) \cup Extra(w) # {}) \in BOOLEAN /\ (Desired(w) = {}) \in BOOLEAN
    OBVIOUS
  <2>3. QED
    BY <1>3, <2>1, <2>2 DEF PropsStep
<1>4. CASE Report(w)
  <2>1. Continue(w, "patch", FALSE, TRUE) \/ Return(w, "ok")
    BY <1>4 DEF Report
  <2>2. QED
    BY <1>4, <2>1 DEF Report
<1>5. CASE RejectQuota(w) \/ Patch(w) \/ PatchFails(w)
  BY <1>5 DEF RejectQuota, Patch, PatchFails
<1>6. QED
  BY <1>1, <1>2, <1>3, <1>4, <1>5 DEF Reconcile

\* What a step makes of the worker's place and of the guard.
LEMMA PassStep ==
  ASSUME StateTypeOK, OnePass, NEW w \in Workers, Reconcile(w)
  PROVE  /\ pc' \in [Workers -> Pcs] /\ pass' \in [Workers -> Passes]
         /\ inProgress' \in BOOLEAN
         /\ OnePass'
         /\ \A x \in Workers \ {w} : pc'[x] = pc[x] /\ pass'[x] = pass[x]
<1>0. /\ pc \in [Workers -> Pcs] /\ pass \in [Workers -> Passes]
      /\ inProgress \in BOOLEAN /\ seen \in Wants
  BY DEF StateTypeOK, Pcs
<1>1. CASE Skip(w)
  <2>1. pc' = [pc EXCEPT ![w] = "ok"] /\ pass' = pass /\ inProgress' = inProgress
    BY <1>1 DEF Skip
  <2>2. QED
    BY <1>0, <2>1 DEF OnePass, Underway, Pcs
<1>2. CASE Begin(w)
  <2>1. PICK class \in BOOLEAN :
           pass' = [pass EXCEPT ![w] =
               [claim |-> seen, class |-> class, changes |-> FALSE, clean |-> class,
             skipped |-> FALSE]]
    BY <1>2 DEF Begin
  <2>2. [claim |-> seen, class |-> class, changes |-> FALSE, clean |-> class,
             skipped |-> FALSE] \in Passes
    BY <1>0 DEF Passes
  <2>3. pass' \in [Workers -> Passes] /\ \A x \in Workers \ {w} : pass'[x] = pass[x]
    BY <1>0, <2>1, <2>2
  <2>4. pc' = [pc EXCEPT ![w] = "quota"] /\ ~inProgress /\ inProgress' = TRUE
    BY <1>2 DEF Begin
  <2>5. \A x \in Workers : pc[x] \notin Underway
    BY <2>4 DEF OnePass
  <2>6. OnePass' /\ pc' \in [Workers -> Pcs]
    BY <1>0, <2>4, <2>5 DEF OnePass, Pcs, Underway
  <2>7. QED
    BY <1>0, <2>3, <2>4, <2>6
<1>3. ASSUME NEW s \in Underway, NEW c \in BOOLEAN, NEW k \in BOOLEAN,
             GoesOn(w, s, c, k), pc[w] \in Underway
      PROVE  /\ pc' \in [Workers -> Pcs] /\ pass' \in [Workers -> Passes]
             /\ inProgress' \in BOOLEAN
             /\ OnePass'
             /\ \A x \in Workers \ {w} : pc'[x] = pc[x] /\ pass'[x] = pass[x]
  <2>1. /\ pc' = [pc EXCEPT ![w] = s] /\ pc' \in [Workers -> Pcs]
        /\ pass' \in [Workers -> Passes] /\ inProgress' = inProgress
        /\ \A x \in Workers \ {w} : pass'[x] = pass[x]
    BY <1>3, GoesOnStep
  <2>2. \A x \in Workers : pc'[x] \in Underway => pc[x] \in Underway
    BY <1>0, <1>3, <2>1
  <2>3. OnePass'
    BY <2>1, <2>2 DEF OnePass
  <2>4. QED
    BY <1>0, <2>1, <2>3
<1>4. ASSUME NEW s \in {"ok", "err"}, Return(w, s), pc[w] \in Underway
      PROVE  /\ pc' \in [Workers -> Pcs] /\ pass' \in [Workers -> Passes]
             /\ inProgress' \in BOOLEAN
             /\ OnePass'
             /\ \A x \in Workers \ {w} : pc'[x] = pc[x] /\ pass'[x] = pass[x]
  <2>1. /\ pc' = [pc EXCEPT ![w] = s] /\ pc' \in [Workers -> Pcs]
        /\ pass' = [pass EXCEPT ![w] = Idle] /\ pass' \in [Workers -> Passes]
        /\ inProgress' = FALSE
    BY <1>4, ReturnStep
  <2>2. \A x \in Workers : pc'[x] \notin Underway
    BY <1>0, <1>4, <2>1 DEF OnePass, Underway
  <2>3. QED
    BY <1>0, <2>1, <2>2 DEF OnePass
<1>5. QED
  BY <1>1, <1>2, <1>3, <1>4, StepKinds

LEMMA ConfType ==
  ASSUME StateTypeOK, NEW w \in Workers
  PROVE  /\ pass[w] \in Passes /\ pass[w].claim \in Wants
         /\ Conf(w).quota \in Quotas \cup {NoQuota, BadQuota}
         /\ Conf(w).files \in Declarations
         /\ Conf(w).props \in SUBSET Props /\ Desired(w) \in SUBSET Props
<1>1. pass[w] \in Passes /\ pass[w].claim \in Wants
  BY DEF StateTypeOK, Passes
<1>2. Conf(w) \in Declared
  BY <1>1, VolumeStateAssumption DEF VolumeStateAssumption, Wants, Conf
<1>3. QED
  BY <1>1, <1>2, VolumeStateAssumption DEF VolumeStateAssumption, Declared, Desired

\* The volume is changed by a pass that applies, and by one step at a time.
LEMMA VolumeStep ==
  ASSUME StateTypeOK, NEW w \in Workers, Reconcile(w)
  PROVE  \/ UNCHANGED volumeVars
         \/ /\ pc[w] = "quota" /\ Applies(w) /\ driver = "zfs"
            /\ quota' = Conf(w).quota /\ quota' # BadQuota /\ UNCHANGED <<props, tree>>
         \/ /\ pc[w] = "owner" /\ Applies(w)
            /\ tree' \in Interrupted(Conf(w).files, tree) \cup {Reconciled(Conf(w).files, tree)}
            /\ UNCHANGED <<quota, props>>
         \/ /\ pc[w] = "props" /\ Applies(w) /\ driver = "zfs"
            /\ props' \in SUBSET (props \cup Desired(w)) /\ UNCHANGED <<quota, tree>>
<1>1. CASE QuotaStep(w)
  <2>1. \/ quota' = quota
        \/ driver = "zfs" /\ Applies(w) /\ quota' = Conf(w).quota
    BY <1>1 DEF QuotaStep
  <2>2. QED
    BY <1>1, <2>1 DEF QuotaStep, volumeVars
<1>2. CASE OwnerStep(w)
  <2>1. \/ tree' = tree
        \/ /\ Applies(w)
           /\ tree' \in Interrupted(Conf(w).files, tree)
                \cup {Reconciled(Conf(w).files, tree)}
    BY <1>2 DEF OwnerStep
  <2>2. QED
    BY <1>2, <2>1 DEF OwnerStep, volumeVars
<1>3. CASE PropsStep(w)
  BY <1>3 DEF PropsStep, Missing, volumeVars
<1>4. CASE \/ Skip(w) \/ Begin(w) \/ RejectQuota(w) \/ Report(w) \/ Patch(w)
           \/ PatchFails(w)
  BY <1>4 DEF Skip, Begin, RejectQuota, Report, Patch, PatchFails, volumeVars
<1>5. QED
  BY <1>1, <1>2, <1>3, <1>4 DEF Reconcile

LEMMA VolumeType ==
  ASSUME StateTypeOK, NEW w \in Workers, Reconcile(w)
  PROVE  /\ quota' \in Quotas \cup {NoQuota}
         /\ props' \in SUBSET Props /\ tree' \in Trees
<1>1. /\ quota \in Quotas \cup {NoQuota} /\ props \in SUBSET Props /\ tree \in Trees
      /\ Conf(w).quota \in Quotas \cup {NoQuota, BadQuota}
      /\ Conf(w).files \in Declarations /\ Desired(w) \in SUBSET Props
  BY ConfType DEF StateTypeOK
<1>2. \A r \in Interrupted(Conf(w).files, tree) \cup {Reconciled(Conf(w).files, tree)} :
         r \in Trees
  BY <1>1, OutcomeType
<1>3. QED
  BY <1>1, <1>2, VolumeStep DEF volumeVars

LEMMA ReconcileLinks ==
  ASSUME StateTypeOK, LinksUntouched, NEW w \in Workers, Reconcile(w)
  PROVE  LinksUntouched'
<1> SUFFICES ASSUME NEW e \in Links PROVE tree'[e] = tree[e]
  BY DEF LinksUntouched
<1>1. tree \in Trees /\ Conf(w).files \in Declarations
  BY ConfType DEF StateTypeOK
<1>2. \A r \in Interrupted(Conf(w).files, tree) \cup {Reconciled(Conf(w).files, tree)} :
         r[e] = tree[e]
  BY <1>1, LinksKept
<1>3. QED
  BY <1>2, VolumeStep DEF volumeVars

\* The rest of what a step changes: the annotation and the record of uses.
LEMMA OtherType ==
  ASSUME StateTypeOK, NEW w \in Workers, Reconcile(w)
  PROVE  /\ want' \in Wants /\ want'.apply \in {want.apply, 0}
         /\ used' \in [1..MaxGrants -> 0..2]
         /\ faults' \in 0..MaxFaults
         /\ UNCHANGED <<queueVars, hostVars, cacheVars, fixedVars, grants, edits, restarts>>
<1>0. /\ want \in Wants /\ used \in [1..MaxGrants -> 0..2] /\ faults \in 0..MaxFaults
      /\ MaxFaults \in Nat /\ MaxGrants \in Nat
  BY VolumeStateAssumption DEF StateTypeOK, VolumeStateAssumption
<1>1. faults' \in 0..MaxFaults
  <2>1. Fault \/ faults' = faults
    BY DEF Reconcile, Skip, Begin, RejectQuota, QuotaStep, OwnerStep, PropsStep,
       Report, Patch, PatchFails
  <2>2. QED
    BY <1>0, <2>1 DEF Fault
<1>2. want' \in Wants /\ want'.apply \in {want.apply, 0}
  <2>1. want' = want \/ want' = [want EXCEPT !.apply = 0]
    BY DEF Reconcile, Patch
  <2>2. QED
    BY <1>0, <2>1 DEF Wants
<1>3. used' \in [1..MaxGrants -> 0..2]
  <2>1. CASE Report(w)
    <3>1. \/ used' = used
          \/ \E g \in {0, 1, 2} :
                used' = [used EXCEPT ![pass[w].claim.apply] = g]
      BY <2>1 DEF Report
    <3>2. QED
      BY <1>0, <3>1
  <2>2. CASE \/ Skip(w) \/ Begin(w) \/ RejectQuota(w) \/ QuotaStep(w) \/ OwnerStep(w)
             \/ PropsStep(w) \/ Patch(w) \/ PatchFails(w)
    BY <1>0, <2>2 DEF Skip, Begin, RejectQuota, QuotaStep, OwnerStep, PropsStep,
       Patch, PatchFails
  <2>3. QED
    BY <2>1, <2>2 DEF Reconcile
<1>4. UNCHANGED <<queueVars, hostVars, cacheVars, fixedVars, grants, edits, restarts>>
  BY DEF Reconcile
<1>5. QED
  BY <1>1, <1>2, <1>3, <1>4

LEMMA ReconcileType ==
  ASSUME StateTypeOK, OnePass, NEW w \in Workers, Reconcile(w)
  PROVE  StateTypeOK'
<1>1. UNCHANGED <<dirty, delayed, failures, holding, seen, pvSeen, driver, autoApply,
                  present, absences, grants, edits, restarts>>
  BY OtherType DEF queueVars, hostVars, cacheVars, fixedVars
<1>2. QueueTypeOK'
  BY <1>1 DEF StateTypeOK, QueueTypeOK
<1>3. /\ want' \in Wants /\ used' \in [1..MaxGrants -> 0..2] /\ faults' \in 0..MaxFaults
  BY OtherType
<1>4. /\ pc' \in [Workers -> Pcs] /\ pass' \in [Workers -> Passes]
      /\ inProgress' \in BOOLEAN
  BY PassStep
<1>5. QED
  BY <1>1, <1>2, <1>3, <1>4, VolumeType DEF StateTypeOK, Pcs

\* Without the annotation and without autoApply a pass applies nothing.
LEMMA ReconcileGrant ==
  ASSUME StateTypeOK, GrantOK, NEW w \in Workers, Reconcile(w)
  PROVE  GrantOK'
<1> SUFFICES ASSUME grants' = 0 PROVE GrantOK'
  BY DEF GrantOK
<1>0. /\ want'.apply \in {want.apply, 0}
      /\ UNCHANGED <<seen, pvSeen, driver, autoApply, grants>>
  BY OtherType DEF cacheVars, fixedVars
<1>1. /\ want.apply = 0 /\ seen.apply = 0
      /\ \A x \in Workers : pass[x].claim.apply = 0
      /\ ~autoApply => /\ quota = NoQuota /\ tree = FirstTree
                       /\ props = IF driver = "zfs" THEN FirstProps ELSE {}
  BY <1>0 DEF GrantOK
<1>2. \A x \in Workers : pass'[x].claim.apply = 0
  <2>0. pass \in [Workers -> Passes]
    BY DEF StateTypeOK
  <2>1. CASE Skip(w)
    BY <1>1, <2>1 DEF Skip
  <2>2. CASE Begin(w)
    <3>1. PICK class \in BOOLEAN :
             pass' = [pass EXCEPT ![w] =
                 [claim |-> seen, class |-> class, changes |-> FALSE, clean |-> class,
             skipped |-> FALSE]]
      BY <2>2 DEF Begin
    <3>2. pass'[w].claim = seen /\ \A x \in Workers \ {w} : pass'[x] = pass[x]
      BY <2>0, <3>1
    <3>3. QED
      BY <1>1, <3>2
  <2>3. ASSUME NEW s \in Underway, NEW c \in BOOLEAN, NEW k \in BOOLEAN, GoesOn(w, s, c, k)
        PROVE  \A x \in Workers : pass'[x].claim.apply = 0
    BY <1>1, <2>3, GoesOnStep
  <2>4. ASSUME NEW s \in {"ok", "err"}, Return(w, s)
        PROVE  \A x \in Workers : pass'[x].claim.apply = 0
    <3>1. pass' = [pass EXCEPT ![w] = Idle]
      BY <2>4, ReturnStep
    <3>2. Idle.claim.apply = 0
      BY DEF Idle
    <3>3. QED
      BY <1>1, <2>0, <3>1, <3>2
  <2>5. QED
    BY <2>1, <2>2, <2>3, <2>4, StepKinds
<1>3. ~autoApply => UNCHANGED volumeVars
  BY <1>1, VolumeStep DEF Applies
<1>4. QED
  BY <1>0, <1>1, <1>2, <1>3 DEF GrantOK, volumeVars

-----------------------------------------------------------------------------
(* What a pass finds in place stays there until it reports.                *)

\* A walk that reports nothing has looked at every file the declaration is about.
LEMMA NothingToOwn ==
  ASSUME NEW d, Changes(d, tree) = {}
  PROVE  OwnershipInPlace(d)
<1>1. \A e \in Targets(d) : ~OwnerDiffers(d, tree[e]) /\ ~ModeDiffers(d, tree[e])
  BY DEF Changes
<1>2. ASSUME NEW e \in Files, e = Root \/ (d.recursive /\ e \notin Links),
             d.owner # NoOwner \/ d.mode # NoMode
      PROVE  e \in Targets(d)
  BY <1>2, OwnerModeAssumption DEF Targets, OwnerModeAssumption
<1>3. QED
  BY <1>1, <1>2 DEF OwnershipInPlace, OwnerDiffers, ModeDiffers

LEMMA ReconcileFound ==
  ASSUME StateTypeOK, OnePass, FoundOK, NEW w \in Workers, Reconcile(w)
  PROVE  FoundOK'
<1> USE DEF Underway
<1>0. driver' = driver /\ pass \in [Workers -> Passes] /\ tree \in Trees
  BY OtherType DEF fixedVars, StateTypeOK
<1>1. ASSUME NEW x \in Workers, x # w, pc[x] \in Underway
      PROVE  UNCHANGED volumeVars /\ pc'[x] = pc[x] /\ pass'[x] = pass[x]
  <2>1. pc[w] \notin Underway
    BY <1>1 DEF OnePass
  <2>2. QED
    BY <1>1, <2>1, VolumeStep, PassStep
<1>2. ASSUME NEW x \in Workers, x # w, pass'[x].clean, ~pass'[x].changes
      PROVE  /\ pc'[x] \in {"owner", "props", "report"} => QuotaFound(x)'
             /\ pc'[x] \in {"props", "report"} => OwnerFound(x)'
             /\ pc'[x] = "report" => PropsFound(x)'
  <2>1. pc'[x] = pc[x] /\ pass'[x] = pass[x]
    BY <1>2, PassStep
  <2>2. CASE pc[x] \in Underway
    <3>1. /\ quota' = quota /\ props' = props /\ tree' = tree
          /\ pc[x] \in {"owner", "props", "report"} => QuotaFound(x)
          /\ pc[x] \in {"props", "report"} => OwnerFound(x)
          /\ pc[x] = "report" => PropsFound(x)
      BY <1>1, <1>2, <2>1, <2>2 DEF FoundOK, volumeVars
    <3>2. Conf(x)' = Conf(x) /\ Desired(x)' = Desired(x)
      BY <2>1 DEF Conf, Desired
    <3>3. QED
      BY <1>0, <2>1, <3>1, <3>2 DEF QuotaFound, OwnerFound, PropsFound, OwnershipInPlace
  <2>3. CASE pc[x] \notin Underway
    BY <2>1, <2>3
  <2>4. QED
    BY <2>2, <2>3
<1>3. ASSUME pass'[w].clean, ~pass'[w].changes, pc'[w] \in {"owner", "props", "report"}
      PROVE  /\ QuotaFound(w)'
             /\ pc'[w] \in {"props", "report"} => OwnerFound(w)'
             /\ pc'[w] = "report" => PropsFound(w)'
  <2>1. ASSUME NEW s \in Underway, NEW c \in BOOLEAN, NEW k \in BOOLEAN, GoesOn(w, s, c, k)
        PROVE  /\ k /\ ~c /\ pass[w].clean /\ ~pass[w].changes /\ pc'[w] = s
               /\ Conf(w)' = Conf(w) /\ Desired(w)' = Desired(w)
               /\ pass[w].skipped => pass'[w].skipped
               /\ PassOver(w, s) => pass'[w].skipped
    <3>1. /\ pc' = [pc EXCEPT ![w] = s] /\ pc \in [Workers -> Pcs]
          /\ pass'[w].claim = pass[w].claim /\ pass'[w].class = pass[w].class
          /\ k /\ ~c /\ pass[w].clean /\ ~pass[w].changes
          /\ pass[w].skipped => pass'[w].skipped
          /\ PassOver(w, s) => pass'[w].skipped
      BY <1>3, <2>1, GoesOnStep DEF StateTypeOK, Pcs
    <3>2. QED
      BY <3>1 DEF Conf, Desired, Pcs
  <2>2. CASE QuotaStep(w)
    <3>1. CASE driver = "zfs" /\ Continue(w, "owner", quota # Conf(w).quota, TRUE)
      <4>1. quota = Conf(w).quota /\ Conf(w)' = Conf(w) /\ pc'[w] = "owner"
        BY <2>1, <3>1 DEF GoesOn
      <4>2. quota' = quota
        BY <2>2, <4>1 DEF QuotaStep
      <4>3. QED
        BY <1>0, <3>1, <4>1, <4>2 DEF QuotaFound
    <3>2. CASE driver = "dir" /\ Continue(w, "owner", FALSE, Conf(w).quota = NoQuota)
      <4>1. Conf(w).quota = NoQuota /\ Conf(w)' = Conf(w) /\ pc'[w] = "owner"
        BY <2>1, <3>2 DEF GoesOn
      <4>2. QED
        BY <1>0, <3>2, <4>1 DEF QuotaFound
    <3>3. CASE Continue(w, "owner", FALSE, FALSE)
      BY <2>1, <3>3 DEF GoesOn
    <3>4. QED
      BY <2>2, <3>1, <3>2, <3>3 DEF QuotaStep
  <2>3. CASE OwnerStep(w)
    <3>1. CASE /\ Continue(w, "props", Changes(Conf(w).files, tree) # {}, TRUE)
               /\ tree' = IF Applies(w) THEN Reconciled(Conf(w).files, tree) ELSE tree
      <4>1. /\ Changes(Conf(w).files, tree) = {} /\ pass[w].clean /\ ~pass[w].changes
            /\ Conf(w)' = Conf(w) /\ pc'[w] = "props"
        BY <2>1, <3>1 DEF GoesOn
      <4>2. QuotaFound(w) /\ quota' = quota
        BY <2>3, <4>1 DEF OwnerStep, FoundOK
      <4>3. Reconciled(Conf(w).files, tree) = tree
        BY <1>0, <4>1, ConfType, NoChangesNoEffect
      <4>4. tree' = tree
        BY <3>1, <4>3
      <4>5. OwnershipInPlace(Conf(w).files)
        BY <4>1, NothingToOwn
      <4>6. QED
        BY <1>0, <4>1, <4>2, <4>4, <4>5 DEF QuotaFound, OwnerFound, OwnershipInPlace
    <3>2. CASE PassOver(w, "props") /\ tree' = tree
      <4>1. /\ pass[w].clean /\ ~pass[w].changes /\ pass'[w].skipped
            /\ Conf(w)' = Conf(w) /\ pc'[w] = "props"
        BY <2>1, <3>2 DEF GoesOn
      <4>2. QuotaFound(w) /\ quota' = quota
        BY <2>3, <4>1 DEF OwnerStep, FoundOK
      <4>3. QED
        BY <1>0, <4>1, <4>2 DEF QuotaFound, OwnerFound
    <3>3. CASE Continue(w, "props", FALSE, FALSE)
      BY <2>1, <3>3 DEF GoesOn
    <3>4. QED
      BY <2>3, <3>1, <3>2, <3>3 DEF OwnerStep
  <2>4. CASE PropsStep(w)
    <3>1. /\ tree' = tree /\ quota' = quota /\ pc[w] = "props"
      BY <2>4 DEF PropsStep
    <3>2. ASSUME pass[w].clean, ~pass[w].changes, Conf(w)' = Conf(w),
                 pass[w].skipped => pass'[w].skipped
          PROVE  QuotaFound(w)' /\ OwnerFound(w)'
      BY <1>0, <3>1, <3>2 DEF FoundOK, QuotaFound, OwnerFound, OwnershipInPlace
    <3>3. CASE /\ driver = "zfs" /\ Continue(w, "report", Missing(w) \cup Extra(w) # {}, TRUE)
               /\ props' = IF Applies(w) THEN props \cup Missing(w) ELSE props
      <4>1. /\ Missing(w) \cup Extra(w) = {} /\ pass[w].clean /\ ~pass[w].changes
            /\ Conf(w)' = Conf(w) /\ Desired(w)' = Desired(w) /\ pc'[w] = "report"
            /\ pass[w].skipped => pass'[w].skipped
        BY <2>1, <3>3 DEF GoesOn
      <4>2. props = Desired(w) /\ props' = props
        BY <3>3, <4>1 DEF Missing, Extra
      <4>3. QED
        BY <1>0, <3>2, <3>3, <4>1, <4>2 DEF PropsFound
    <3>4. CASE driver = "dir" /\ Continue(w, "report", FALSE, Desired(w) = {})
      <4>1. /\ Desired(w) = {} /\ pass[w].clean /\ ~pass[w].changes
            /\ Conf(w)' = Conf(w) /\ Desired(w)' = Desired(w) /\ pc'[w] = "report"
            /\ pass[w].skipped => pass'[w].skipped
        BY <2>1, <3>4 DEF GoesOn
      <4>2. QED
        BY <1>0, <3>2, <3>4, <4>1 DEF PropsFound
    <3>5. CASE Continue(w, "report", FALSE, FALSE)
      BY <2>1, <3>5 DEF GoesOn
    <3>6. QED
      BY <2>4, <3>3, <3>4, <3>5 DEF PropsStep
  <2>5. ASSUME \/ Skip(w) \/ Begin(w) \/ RejectQuota(w) \/ Report(w) \/ Patch(w)
               \/ PatchFails(w)
        PROVE  FALSE
    <3>1. \E s \in {"ok", "err", "quota", "patch"} : pc' = [pc EXCEPT ![w] = s]
      BY <2>5 DEF Skip, Begin, RejectQuota, Report, Patch, PatchFails, Return, Continue
    <3>2. QED
      BY <1>3, <3>1 DEF StateTypeOK
  <2>6. QED
    BY <2>2, <2>3, <2>4, <2>5 DEF Reconcile
<1>4. QED
  BY <1>2, <1>3 DEF FoundOK

-----------------------------------------------------------------------------
(* The queue, the caches, the process and the users.                       *)

\* A step in which no pass moves and the volume stays as it is.
LEMMA AsideStep ==
  ASSUME OnePass, GrantOK, FoundOK, LinksUntouched,
         UNCHANGED <<volumeVars, fixedVars, pass, inProgress>>,
         \A w \in Workers : pc'[w] \in Underway => pc'[w] = pc[w],
         grants' = 0 => grants = 0 /\ want'.apply = 0 /\ seen'.apply = 0
  PROVE  OnePass' /\ GrantOK' /\ FoundOK' /\ LinksUntouched'
<1>0. UNCHANGED <<quota, props, tree, driver, autoApply, pass, inProgress>>
  BY DEF volumeVars, fixedVars
<1>1. OnePass'
  BY <1>0 DEF OnePass
<1>2. GrantOK'
  BY <1>0 DEF GrantOK
<1>3. FoundOK'
  <2> SUFFICES ASSUME NEW w \in Workers, pass[w].clean, ~pass[w].changes
               PROVE  /\ pc'[w] \in {"owner", "props", "report"} => QuotaFound(w)'
                      /\ pc'[w] \in {"props", "report"} => OwnerFound(w)'
                      /\ pc'[w] = "report" => PropsFound(w)'
    BY <1>0 DEF FoundOK
  <2>1. /\ QuotaFound(w)' <=> QuotaFound(w)
        /\ OwnerFound(w)' <=> OwnerFound(w)
        /\ PropsFound(w)' <=> PropsFound(w)
    BY <1>0 DEF QuotaFound, OwnerFound, PropsFound, OwnershipInPlace, Conf, Desired
  <2>2. QED
    BY <2>1 DEF FoundOK, Underway
<1>4. LinksUntouched'
  BY <1>0 DEF LinksUntouched
<1>5. QED
  BY <1>1, <1>2, <1>3, <1>4

LEMMA InsideInv ==
  ASSUME StateInv, Inside
  PROVE  StateInv'
<1>0. /\ StateTypeOK /\ OnePass /\ GrantOK /\ FoundOK /\ LinksUntouched
      /\ pc \in [Workers -> Pcs] /\ QueueTypeOK /\ Claim \in Items
      /\ UNCHANGED <<volumeVars, hostVars, claimVars, fixedVars, pass, inProgress, used,
                     faults, restarts>>
      /\ PresentOK
  BY VolumeStateAssumption DEF StateInv, StateTypeOK, Pcs, Inside, VolumeStateAssumption
<1>1. UNCHANGED <<quota, props, tree, present, absences, want, grants, edits, driver,
                  autoApply>>
  BY <1>0 DEF volumeVars, hostVars, claimVars, fixedVars
<1>2. QueueTypeOK'
  <2>1. QueueNext \/ UNCHANGED queueVars
    BY <1>0 DEF Inside, TakeClaim, ReturnClaim, RetryClaim, DeliverClaim, DeliverVolume,
       Resync, QueueNext
  <2>2. QED
    BY <1>0, <2>1, QueueStepType
<1>3. /\ pc' \in [Workers -> Pcs]
      /\ \A w \in Workers : pc'[w] \in Underway => pc'[w] = pc[w]
  <2>1. \/ pc' = pc
        \/ \E w \in Workers, s \in {"start", "idle"} : pc' = [pc EXCEPT ![w] = s]
    BY DEF Inside, TakeClaim, ReturnClaim, RetryClaim, DeliverClaim, DeliverVolume, Resync
  <2>2. QED
    BY <1>0, <2>1 DEF Pcs, Underway
<1>4. seen' \in {seen, want} /\ pvSeen' \in {pvSeen, TRUE}
  BY DEF Inside, TakeClaim, ReturnClaim, RetryClaim, DeliverClaim, DeliverVolume, Resync,
     cacheVars
<1>5. StateTypeOK'
  BY <1>0, <1>1, <1>2, <1>3, <1>4 DEF StateTypeOK, Pcs
<1>6. grants' = 0 => grants = 0 /\ want'.apply = 0 /\ seen'.apply = 0
  BY <1>0, <1>1, <1>4 DEF GrantOK
<1>7. PresentOK'
  BY <1>0, <1>1 DEF PresentOK
<1>8. QED
  BY <1>0, <1>3, <1>5, <1>6, <1>7, AsideStep DEF StateInv

LEMMA RestartInv ==
  ASSUME StateInv, Restart
  PROVE  StateInv'
<1>0. /\ StateTypeOK /\ GrantOK /\ LinksUntouched /\ PresentOK /\ Idle \in Passes
      /\ QueueTypeOK
  BY IdleType DEF StateInv, StateTypeOK, Wants
<1>1. /\ UNCHANGED <<quota, props, tree, present, absences, want, grants, edits, driver,
                     autoApply, used, faults>>
      /\ seen' = want /\ pvSeen' = TRUE /\ inProgress' = FALSE
      /\ pc' = [w \in Workers |-> "idle"] /\ pass' = [w \in Workers |-> Idle]
  BY DEF Restart, volumeVars, hostVars, claimVars, fixedVars
<1>2. QueueTypeOK'
  BY <1>0, QueueAssumption DEF Restart, Reset, QueueTypeOK, QueueAssumption
<1>3. restarts' \in 0..MaxRestarts
  BY <1>0, VolumeStateAssumption DEF Restart, StateTypeOK, VolumeStateAssumption
<1>4. pc' \in [Workers -> Pcs] /\ pass' \in [Workers -> Passes]
  BY <1>0, <1>1 DEF Pcs
<1>5. StateTypeOK'
  BY <1>0, <1>1, <1>2, <1>3, <1>4 DEF StateTypeOK, Pcs
<1>6. OnePass' /\ FoundOK'
  BY <1>1 DEF OnePass, FoundOK, Underway
<1>7. GrantOK' /\ LinksUntouched' /\ PresentOK'
  BY <1>0, <1>1 DEF GrantOK, LinksUntouched, PresentOK, Idle
<1>8. QED
  BY <1>5, <1>6, <1>7 DEF StateInv

LEMMA UserInv ==
  ASSUME StateInv, User
  PROVE  StateInv'
<1>0. /\ StateTypeOK /\ OnePass /\ GrantOK /\ FoundOK /\ LinksUntouched /\ PresentOK
      /\ want \in Wants /\ grants \in 0..MaxGrants /\ edits \in 0..MaxEdits
      /\ MaxGrants \in Nat /\ MaxEdits \in Nat
  BY VolumeStateAssumption DEF StateInv, StateTypeOK, VolumeStateAssumption
<1>1. /\ UNCHANGED <<volumeVars, fixedVars, pass, inProgress>>
      /\ UNCHANGED <<dirty, delayed, failures, holding, quota, props, tree, present, absences,
                     seen, pvSeen, pc, pass, inProgress, used, driver, autoApply, faults,
                     restarts>>
  BY DEF User, queueVars, volumeVars, hostVars, cacheVars, passVars, fixedVars
<1>2. /\ want' \in Wants /\ grants' \in 0..MaxGrants /\ edits' \in 0..MaxEdits
      /\ grants' = 0 => grants = 0 /\ want'.apply = want.apply
  <2>1. CASE Edit
    <3>1. edits' \in 0..MaxEdits /\ grants' = grants
      BY <1>0, <2>1 DEF Edit
    <3>2. CASE \E c \in Confs : want' = [want EXCEPT !.conf = c]
      BY <1>0, <3>1, <3>2 DEF Wants
    <3>3. CASE want' = [want EXCEPT !.dry = ~@]
      <4>1. PICK b \in BOOLEAN : b = ~want.dry
        OBVIOUS
      <4>2. want' = [want EXCEPT !.dry = b]
        BY <3>3, <4>1
      <4>3. QED
        BY <1>0, <3>1, <4>2 DEF Wants
    <3>4. QED
      BY <2>1, <3>2, <3>3 DEF Edit
  <2>2. CASE Grant
    <3>1. /\ grants' = grants + 1 /\ grants' \in 0..MaxGrants /\ grants' # 0
          /\ edits' = edits /\ want' = [want EXCEPT !.apply = grants']
      BY <1>0, <2>2 DEF Grant
    <3>2. QED
      BY <1>0, <3>1 DEF Wants
  <2>3. QED
    BY <2>1, <2>2 DEF User
<1>3. StateTypeOK'
  BY <1>0, <1>1, <1>2 DEF StateTypeOK, QueueTypeOK
<1>4. grants' = 0 => grants = 0 /\ want'.apply = 0 /\ seen'.apply = 0
  BY <1>0, <1>1, <1>2 DEF GrantOK
<1>5. PresentOK'
  BY <1>0, <1>1 DEF PresentOK
<1>6. QED
  BY <1>0, <1>1, <1>3, <1>4, <1>5, AsideStep DEF StateInv

LEMMA HostInv ==
  ASSUME StateInv, Host
  PROVE  StateInv'
<1>0. /\ StateTypeOK /\ present \in BOOLEAN /\ absences \in 0..MaxAbsences
      /\ MaxAbsences \in Nat /\ PresentOK
  BY VolumeStateAssumption DEF StateInv, StateTypeOK, VolumeStateAssumption
<1>1. /\ UNCHANGED <<volumeVars, fixedVars, pass, inProgress>>
      /\ UNCHANGED <<dirty, delayed, failures, holding, quota, props, tree, want, seen, pvSeen,
                     pc, used, grants, edits, driver, autoApply, faults, restarts>>
  BY DEF Host, queueVars, volumeVars, claimVars, cacheVars, passVars, fixedVars
<1>2. /\ present' \in BOOLEAN /\ absences' \in 0..MaxAbsences /\ PresentOK'
  <2>1. CASE Vanish
    <3>1. present' = FALSE /\ absences' \in 0..MaxAbsences /\ absences' # 0
      BY <1>0, <2>1 DEF Vanish
    <3>2. QED
      BY <3>1 DEF PresentOK
  <2>2. CASE Reappear
    <3>1. present' = TRUE /\ absences' = absences
      BY <2>2 DEF Reappear
    <3>2. QED
      BY <1>0, <3>1 DEF PresentOK
  <2>3. QED
    BY <2>1, <2>2 DEF Host
<1>3. StateTypeOK'
  BY <1>0, <1>1, <1>2 DEF StateTypeOK, QueueTypeOK
<1>4. QED
  BY <1>1, <1>2, <1>3, AsideStep DEF StateInv, GrantOK

LEMMA StateInvariant == Spec => []StateInv
<1>1. Init => StateInv
  BY StateInit
<1>2. StateInv /\ [Next]_vars => StateInv'
  <2> SUFFICES ASSUME StateInv, [Next]_vars PROVE StateInv'
    OBVIOUS
  <2>1. ASSUME NEW w \in Workers, Reconcile(w) PROVE StateInv'
    <3>1. PresentOK'
      BY <2>1, OtherType DEF StateInv, PresentOK, hostVars
    <3>2. QED
      BY <2>1, <3>1, ReconcileType, PassStep, ReconcileGrant, ReconcileFound, ReconcileLinks
         DEF StateInv
  <2>2. ASSUME Inside PROVE StateInv'
    BY <2>2, InsideInv
  <2>3. ASSUME Restart PROVE StateInv'
    BY <2>3, RestartInv
  <2>4. ASSUME User PROVE StateInv'
    BY <2>4, UserInv
  <2>5. ASSUME Host PROVE StateInv'
    BY <2>5, HostInv
  <2>6. ASSUME UNCHANGED vars PROVE StateInv'
    <3>1. /\ UNCHANGED <<volumeVars, fixedVars, pass, inProgress>>
          /\ UNCHANGED <<dirty, delayed, failures, holding, quota, props, tree, want, seen,
                         pvSeen, pc, used, grants, edits, driver, autoApply, present,
                         absences, faults, restarts>>
      BY <2>6 DEF vars, queueVars, volumeVars, hostVars, claimVars, cacheVars, passVars,
         fixedVars
    <3>2. StateTypeOK'
      BY <3>1 DEF StateInv, StateTypeOK, QueueTypeOK
    <3>3. QED
      BY <3>1, <3>2, AsideStep DEF StateInv, GrantOK, PresentOK
  <2>7. QED
    BY <2>1, <2>2, <2>3, <2>4, <2>5, <2>6 DEF Next
<1>3. QED
  BY <1>1, <1>2, PTL DEF Spec

-----------------------------------------------------------------------------
(* One authorisation, one pass that applies.                               *)

\* An undisturbed step comes from an undisturbed state and leaves the
\* declaration as it is.
LEMMA StillUndisturbed ==
  ASSUME StateTypeOK, [Next]_vars, Undisturbed'
  PROVE  Undisturbed /\ want'.conf = want.conf /\ want'.dry = want.dry /\ faults' = faults
<1>0. /\ edits \in Nat /\ faults \in Nat /\ absences \in Nat /\ want \in Wants
      /\ edits' = 0 /\ faults' = 0 /\ absences' = 0
  BY VolumeStateAssumption DEF StateTypeOK, VolumeStateAssumption, Undisturbed
<1>1. CASE \E w \in Workers : Reconcile(w)
  <2>1. PICK w \in Workers : Reconcile(w)
    BY <1>1
  <2>2. Fault \/ faults' = faults
    BY <2>1 DEF Reconcile, Skip, Begin, RejectQuota, QuotaStep, OwnerStep, PropsStep,
       Report, Patch, PatchFails
  <2>3. want' = want \/ want' = [want EXCEPT !.apply = 0]
    BY <2>1 DEF Reconcile, Patch
  <2>4. edits' = edits /\ absences' = absences
    BY <2>1 DEF Reconcile, hostVars
  <2>5. QED
    BY <1>0, <2>2, <2>3, <2>4 DEF Fault, Undisturbed, Wants
<1>2. CASE Inside \/ Restart \/ UNCHANGED vars
  BY <1>2 DEF Inside, Restart, vars, claimVars, hostVars, Undisturbed
<1>3. CASE User
  <2>1. ~Edit
    BY <1>0 DEF Edit
  <2>2. /\ want' = [want EXCEPT !.apply = grants'] /\ edits' = edits /\ faults' = faults
        /\ absences' = absences
    BY <1>3, <2>1 DEF User, Grant, hostVars
  <2>3. QED
    BY <1>0, <2>2 DEF Wants, Undisturbed
<1>4. CASE Host
  BY <1>0, <1>4 DEF Host, Vanish, Reappear, claimVars, Undisturbed
<1>5. QED
  BY <1>1, <1>2, <1>3, <1>4 DEF Next

\* What a step of the pass does to the volume when nothing fails and it is there.
LEMMA CleanVolumeStep ==
  ASSUME StateTypeOK, NEW w \in Workers, Reconcile(w), faults' = faults, present
  PROVE  /\ pc[w] # "quota" => quota' = quota
         /\ pc[w] # "owner" => tree' = tree
         /\ pc[w] # "props" => props' = props
         /\ quota' \in {quota, Conf(w).quota}
         /\ tree' \in {tree, Reconciled(Conf(w).files, tree)}
         /\ props \subseteq props'
         /\ pc[w] = "quota" /\ driver = "zfs" /\ Applies(w) /\ pc'[w] \in Underway =>
                quota' = Conf(w).quota
         /\ pc[w] = "owner" /\ Applies(w) => tree' = Reconciled(Conf(w).files, tree)
         /\ pc[w] = "props" /\ driver = "zfs" /\ Applies(w) => Desired(w) \subseteq props'
<1>0. ~Fault /\ pc \in [Workers -> Pcs]
  BY VolumeStateAssumption DEF Fault, StateTypeOK, VolumeStateAssumption, Pcs
<1>1. CASE QuotaStep(w)
  BY <1>0, <1>1 DEF QuotaStep
<1>2. CASE OwnerStep(w)
  BY <1>0, <1>2 DEF OwnerStep
<1>3. CASE PropsStep(w)
  <2>1. /\ quota' = quota /\ tree' = tree /\ pc[w] = "props"
        /\ driver \in {"zfs", "dir"}
    BY <1>3 DEF PropsStep
  <2>2. /\ props' = props \/ props' = props \cup Missing(w)
        /\ driver = "zfs" /\ Applies(w) => props' = props \cup Missing(w)
    BY <1>0, <1>3 DEF PropsStep
  <2>3. QED
    BY <2>1, <2>2 DEF Missing
<1>4. CASE Skip(w) \/ Begin(w) \/ Report(w) \/ Patch(w) \/ PatchFails(w)
  BY <1>4 DEF Skip, Begin, Report, Patch, PatchFails, volumeVars
<1>5. CASE RejectQuota(w)
  BY <1>0, <1>5 DEF RejectQuota, Return, Underway, volumeVars
<1>6. QED
  BY <1>1, <1>2, <1>3, <1>4, <1>5 DEF Reconcile

\* What has been settled is not unsettled by a pass for the same claim.
LEMMA SettledKept ==
  ASSUME StateTypeOK, PresentOK, NEW w \in Workers, Reconcile(w), Undisturbed, Undisturbed',
         PassOK(w)
  PROVE  /\ QuotaSettled => QuotaSettled'
         /\ OwnerSettled => OwnerSettled'
         /\ PropsSettled => PropsSettled'
<1>0. /\ want'.conf = want.conf /\ faults' = faults /\ driver' = driver
      /\ tree \in Trees /\ Conf(w).files \in Declarations /\ present
  BY StillUndisturbed, OtherType, ConfType
     DEF Next, fixedVars, StateTypeOK, PresentOK, Undisturbed
<1>1. pc[w] \in Underway => Conf(w) = want.conf
  BY DEF PassOK, SameClaim, Conf
<1>2. QuotaSettled => QuotaSettled'
  BY <1>0, <1>1, CleanVolumeStep DEF QuotaSettled, Underway
<1>3. OwnerSettled => OwnerSettled'
  <2>1. CASE tree' = tree
    BY <1>0, <2>1 DEF OwnerSettled
  <2>2. CASE tree' # tree
    <3>1. tree' = Reconciled(want.conf.files, tree) /\ want.conf.files \in Declarations
      BY <1>0, <1>1, <2>2, CleanVolumeStep DEF Underway
    <3>2. Changes(want.conf.files, tree) = {} => tree' = tree
      BY <1>0, <3>1, NoChangesNoEffect
    <3>3. QED
      BY <2>2, <3>2 DEF OwnerSettled
  <2>3. QED
    BY <2>1, <2>2
<1>4. PropsSettled => PropsSettled'
  BY <1>0, CleanVolumeStep DEF PropsSettled
<1>5. QED
  BY <1>2, <1>3, <1>4

\* A pass of another worker is not touched: two are never underway.
LEMMA OtherPass ==
  ASSUME StateTypeOK, OnePass, OneShotOK, NEW w \in Workers, Reconcile(w), Undisturbed',
         NEW x \in Workers \ {w}
  PROVE  PassOK(x)'
<1>0. /\ Undisturbed /\ want'.conf = want.conf /\ PassOK(x)
      /\ UNCHANGED <<driver, autoApply>>
  BY StillUndisturbed, OtherType DEF OneShotOK, Next, fixedVars
<1>1. pc'[x] = pc[x] /\ pass'[x] = pass[x]
  BY PassStep
<1>2. CASE pc[x] \in Underway
  <2>1. pc[w] \notin Underway
    BY <1>2 DEF OnePass
  <2>2. UNCHANGED <<quota, props, tree>>
    BY <2>1, VolumeStep DEF volumeVars, Underway
  <2>3. used' = used
    BY <2>1 DEF Reconcile, Skip, Begin, RejectQuota, QuotaStep, OwnerStep, PropsStep,
       Report, Patch, PatchFails, Underway
  <2>4. Applies(x)' <=> Applies(x)
    BY <1>0, <1>1 DEF Applies
  <2>5. QED
    BY <1>0, <1>1, <2>2, <2>3, <2>4
       DEF PassOK, SameClaim, QuotaSettled, OwnerSettled, PropsSettled, Unused
<1>3. CASE pc[x] \notin Underway
  BY <1>1, <1>3 DEF PassOK
<1>4. QED
  BY <1>2, <1>3

\* The pass itself.
LEMMA OwnPass ==
  ASSUME StateInv, OneShotOK, NEW w \in Workers, Reconcile(w), Undisturbed'
  PROVE  PassOK(w)'
<1> SUFFICES ASSUME pc'[w] \in Underway PROVE PassOK(w)'
  BY DEF PassOK
<1>1. /\ StateTypeOK /\ Undisturbed /\ want'.conf = want.conf
      /\ UNCHANGED <<driver, autoApply>> /\ faults' = faults /\ ~Fault
      /\ SameClaim(seen) /\ PassOK(w) /\ UsedOK
      /\ pc \in [Workers -> Pcs] /\ pass \in [Workers -> Passes]
      /\ used \in [1..MaxGrants -> 0..2] /\ driver \in Reconcilers /\ tree \in Trees
      /\ present /\ PresentOK
  <2>1. StateTypeOK /\ Undisturbed /\ want'.conf = want.conf /\ faults' = faults
    BY StillUndisturbed DEF StateInv, Next
  <2>2. ~Fault
    BY <2>1, VolumeStateAssumption DEF Fault, StateTypeOK, VolumeStateAssumption
  <2>3. QED
    BY <2>1, <2>2, OtherType, VolumeStateAssumption
       DEF StateInv, OneShotOK, fixedVars, StateTypeOK, Pcs, PresentOK, Undisturbed,
           VolumeStateAssumption
<1>2. ~Settled => Unused
  BY <1>1 DEF UsedOK, Unused
<1>3. CASE Begin(w)
  <2>1. pass' = [pass EXCEPT ![w] =
            [claim |-> seen, class |-> TRUE, changes |-> FALSE, clean |-> TRUE,
             skipped |-> FALSE]]
    BY <1>1, <1>3 DEF Begin
  <2>2. pc'[w] = "quota"
    BY <1>1, <1>3 DEF Begin
  <2>3. pass'[w].claim = seen /\ pass'[w].class /\ ~pass'[w].changes
    BY <1>1, <2>1
  <2>4. QED
    BY <1>1, <2>2, <2>3 DEF PassOK, SameClaim
<1>4. ASSUME NEW s \in Underway, NEW c \in BOOLEAN, NEW k \in BOOLEAN, GoesOn(w, s, c, k),
             pc[w] \in Underway
      PROVE  /\ pc'[w] = s /\ (Applies(w)' <=> Applies(w))
             /\ SameClaim(pass[w].claim)' /\ pass'[w].class
             /\ pass'[w].changes <=> pass[w].changes \/ c
             /\ Conf(w) = want.conf /\ Conf(w).files \in Declarations
  <2>1. /\ pc' = [pc EXCEPT ![w] = s]
        /\ pass'[w].claim = pass[w].claim /\ pass'[w].class = pass[w].class
        /\ pass'[w].changes <=> pass[w].changes \/ c
    BY <1>1, <1>4, GoesOnStep
  <2>2. SameClaim(pass[w].claim) /\ pass[w].class
    BY <1>1, <1>4 DEF PassOK
  <2>3. QED
    BY <1>1, <2>1, <2>2, ConfType DEF Applies, SameClaim, Conf
<1>5. CASE QuotaStep(w)
  <2>1. PICK c \in BOOLEAN, k \in BOOLEAN :
          /\ Continue(w, "owner", c, k)
          /\ c => driver = "zfs" /\ quota # Conf(w).quota
    BY <1>1, <1>5 DEF QuotaStep
  <2>2. /\ pc'[w] = "owner" /\ (Applies(w)' <=> Applies(w))
        /\ SameClaim(pass[w].claim)' /\ pass'[w].class
        /\ pass'[w].changes <=> pass[w].changes \/ c
        /\ Conf(w) = want.conf /\ pc[w] = "quota"
    BY <1>4, <1>5, <2>1 DEF QuotaStep, Underway, GoesOn
  <2>3. Applies(w) => QuotaSettled'
    BY <1>1, <2>2, CleanVolumeStep DEF QuotaSettled, Underway
  <2>4. Applies(w) /\ pass'[w].changes => Unused
    BY <1>1, <1>2, <2>1, <2>2 DEF PassOK, Underway, Settled, QuotaSettled
  <2>5. used' = used
    BY <1>5 DEF QuotaStep
  <2>6. QED
    BY <2>2, <2>3, <2>4, <2>5 DEF PassOK, Unused
<1>6. CASE OwnerStep(w)
  <2>1. PICK c \in BOOLEAN, k \in BOOLEAN :
          /\ Continue(w, "props", c, k)
          /\ c => Changes(Conf(w).files, tree) # {}
    BY <1>1, <1>6 DEF OwnerStep
  <2>2. /\ pc'[w] = "props" /\ (Applies(w)' <=> Applies(w))
        /\ SameClaim(pass[w].claim)' /\ pass'[w].class
        /\ pass'[w].changes <=> pass[w].changes \/ c
        /\ Conf(w) = want.conf /\ want.conf.files \in Declarations /\ pc[w] = "owner"
    BY <1>4, <1>6, <2>1 DEF OwnerStep, Underway, GoesOn
  <2>3. Applies(w) => OwnerSettled'
    <3>1. Applies(w) => tree' = Reconciled(want.conf.files, tree)
      BY <1>1, <2>2, CleanVolumeStep
    <3>2. Changes(want.conf.files, Reconciled(want.conf.files, tree)) = {}
      BY <1>1, <2>2, WalkConverges DEF Undisturbed
    <3>3. QED
      BY <1>1, <3>1, <3>2 DEF OwnerSettled
  <2>4. Applies(w) => QuotaSettled'
    BY <1>1, <2>2, SettledKept DEF PassOK, Underway
  <2>5. Applies(w) /\ pass'[w].changes => Unused
    BY <1>1, <1>2, <2>1, <2>2 DEF PassOK, Underway, Settled, OwnerSettled
  <2>6. used' = used
    BY <1>6 DEF OwnerStep
  <2>7. QED
    BY <2>2, <2>3, <2>4, <2>5, <2>6 DEF PassOK, Unused
<1>7. CASE PropsStep(w)
  <2>1. PICK c \in BOOLEAN, k \in BOOLEAN :
          /\ Continue(w, "report", c, k)
          /\ c /\ Applies(w) => driver = "zfs" /\ Missing(w) # {}
    <3>1. \/ /\ Continue(w, "report", Missing(w) \cup Extra(w) # {}, TRUE)
             /\ driver = "zfs" /\ (Applies(w) => Extra(w) = {})
          \/ \E k \in BOOLEAN : Continue(w, "report", FALSE, k)
      <4>1. (Desired(w) = {}) \in BOOLEAN
        OBVIOUS
      <4>2. QED
        BY <1>1, <1>7, <4>1 DEF PropsStep
    <3>2. (Missing(w) \cup Extra(w) # {}) \in BOOLEAN
      OBVIOUS
    <3>3. QED
      BY <3>1, <3>2
  <2>2. /\ pc'[w] = "report" /\ (Applies(w)' <=> Applies(w))
        /\ SameClaim(pass[w].claim)' /\ pass'[w].class
        /\ pass'[w].changes <=> pass[w].changes \/ c
        /\ Conf(w) = want.conf /\ pc[w] = "props"
    BY <1>4, <1>7, <2>1 DEF PropsStep, Underway, GoesOn
  <2>3. Desired(w) = Base \cup want.conf.props
    BY <1>1, <2>2 DEF PassOK, Underway, Desired
  <2>4. Applies(w) => PropsSettled'
    BY <1>1, <2>2, <2>3, CleanVolumeStep DEF PropsSettled
  <2>5. Applies(w) => QuotaSettled' /\ OwnerSettled'
    BY <1>1, <2>2, SettledKept DEF PassOK, Underway
  <2>6. Applies(w) /\ pass'[w].changes => Unused
    BY <1>1, <1>2, <2>1, <2>2, <2>3
       DEF PassOK, Underway, Settled, PropsSettled, Missing
  <2>7. used' = used
    BY <1>7 DEF PropsStep
  <2>8. QED
    BY <2>2, <2>4, <2>5, <2>6, <2>7 DEF PassOK, Unused
<1>8. CASE Report(w)
  <2>1. Continue(w, "patch", FALSE, TRUE) /\ pc[w] \in Underway
    BY <1>1, <1>8 DEF Report, Return, Underway
  <2>2. pc'[w] = "patch" /\ SameClaim(pass[w].claim)' /\ pass'[w].class
    BY <1>4, <2>1 DEF Underway, GoesOn
  <2>3. QED
    BY <2>2 DEF PassOK
<1>9. CASE Skip(w) \/ RejectQuota(w) \/ Patch(w) \/ PatchFails(w)
  BY <1>1, <1>9 DEF Skip, RejectQuota, Patch, PatchFails, Return, Underway
<1>10. QED
  BY <1>3, <1>5, <1>6, <1>7, <1>8, <1>9 DEF Reconcile

\* What a pass records: it applied something under the annotation, for the first
\* time, and left nothing to apply.
LEMMA UseStep ==
  ASSUME StateInv, OneShotOK, NEW w \in Workers, Reconcile(w), Undisturbed'
  PROVE  UsedOK'
<1>1. /\ StateTypeOK /\ PresentOK /\ Undisturbed /\ PassOK(w) /\ UsedOK
      /\ used \in [1..MaxGrants -> 0..2]
  BY StillUndisturbed DEF StateInv, Next, OneShotOK, StateTypeOK
<1>2. Settled => Settled'
  BY <1>1, SettledKept DEF Settled
<1>3. CASE used' = used
  BY <1>1, <1>2, <1>3 DEF UsedOK
<1>4. CASE used' # used
  <2>1. /\ Report(w) /\ pc[w] = "report" /\ pass[w].changes /\ Applies(w)
        /\ used' = [used EXCEPT ![pass[w].claim.apply] = IF @ = 0 THEN 1 ELSE 2]
    BY <1>4 DEF Reconcile, Skip, Begin, RejectQuota, QuotaStep, OwnerStep, PropsStep,
       Report, Patch, PatchFails
  <2>2. Unused /\ Settled
    BY <1>1, <2>1 DEF PassOK, Underway, Settled
  <2>3. \A g \in 1..MaxGrants : used'[g] \in {0, 1}
    BY <1>1, <2>1, <2>2 DEF Unused
  <2>4. QED
    BY <1>2, <2>2, <2>3 DEF UsedOK
<1>5. QED
  BY <1>3, <1>4

\* A step in which no pass moves.
LEMMA AsideOneShot ==
  ASSUME OneShotOK, Undisturbed, want'.conf = want.conf, want'.dry = want.dry,
         UNCHANGED <<quota, props, tree, used, driver, autoApply>>,
         seen' \in {seen, want, want'},
         \A w \in Workers :
            pc'[w] \in Underway => pc'[w] = pc[w] /\ pass'[w] = pass[w]
  PROVE  OneShotOK'
<1>1. ~want.dry /\ SameClaim(seen) /\ (\A w \in Workers : PassOK(w)) /\ UsedOK
  BY DEF OneShotOK
<1>2. SameClaim(seen)'
  BY <1>1 DEF SameClaim
<1>3. /\ (QuotaSettled' <=> QuotaSettled) /\ (OwnerSettled' <=> OwnerSettled)
      /\ (PropsSettled' <=> PropsSettled) /\ (Settled' <=> Settled)
      /\ (Unused' <=> Unused)
  <2>1. QuotaSettled' <=> QuotaSettled
    BY DEF QuotaSettled
  <2>2. OwnerSettled' <=> OwnerSettled
    BY DEF OwnerSettled
  <2>3. PropsSettled' <=> PropsSettled
    BY DEF PropsSettled
  <2>4. QED
    BY <2>1, <2>2, <2>3 DEF Settled, Unused
<1>4. UsedOK'
  BY <1>1, <1>3 DEF UsedOK
<1>5. ASSUME NEW w \in Workers PROVE PassOK(w)'
  <2> SUFFICES ASSUME pc'[w] \in Underway PROVE PassOK(w)'
    BY DEF PassOK
  <2>1. /\ pc'[w] = pc[w] /\ pass'[w] = pass[w]
        /\ Applies(w)' <=> Applies(w)
    BY DEF Applies
  <2>2. QED
    BY <1>1, <1>3, <2>1 DEF PassOK, SameClaim
<1>6. QED
  BY <1>1, <1>2, <1>4, <1>5 DEF OneShotOK

LEMMA OneShotStep ==
  ASSUME StateInv, OneShotOK, [Next]_vars
  PROVE  OneShotOK'
<1> SUFFICES ASSUME Undisturbed' PROVE OneShotOK'
  BY DEF OneShotOK
<1>1. /\ StateTypeOK /\ Undisturbed /\ want'.conf = want.conf /\ want'.dry = want.dry
      /\ pc \in [Workers -> Pcs]
  BY StillUndisturbed DEF StateInv, StateTypeOK, Pcs
<1>2. ASSUME NEW w \in Workers, Reconcile(w) PROVE OneShotOK'
  <2>1. \A x \in Workers : PassOK(x)'
    BY <1>1, <1>2, OwnPass, OtherPass DEF StateInv
  <2>2. seen' = seen
    BY <1>2 DEF Reconcile, cacheVars
  <2>3. UsedOK'
    BY <1>2, UseStep
  <2>4. QED
    BY <1>1, <2>1, <2>2, <2>3 DEF OneShotOK, SameClaim
<1>3. ASSUME Inside PROVE OneShotOK'
  <2>1. seen' \in {seen, want}
    BY <1>3 DEF Inside, TakeClaim, ReturnClaim, RetryClaim, DeliverClaim, DeliverVolume,
       Resync, cacheVars
  <2>2. \/ pc' = pc
        \/ \E w \in Workers, s \in {"start", "idle"} : pc' = [pc EXCEPT ![w] = s]
    BY <1>3 DEF Inside, TakeClaim, ReturnClaim, RetryClaim, DeliverClaim, DeliverVolume, Resync
  <2>3. \A w \in Workers : pc'[w] \in Underway => pc'[w] = pc[w] /\ pass'[w] = pass[w]
    BY <1>1, <1>3, <2>2 DEF Inside, Underway, Pcs
  <2>4. UNCHANGED <<quota, props, tree, used, driver, autoApply>>
    BY <1>3 DEF Inside, volumeVars, fixedVars
  <2>5. QED
    BY <1>1, <2>1, <2>3, <2>4, AsideOneShot
<1>4. ASSUME Restart PROVE OneShotOK'
  <2>1. UNCHANGED <<quota, props, tree, used, driver, autoApply>> /\ seen' = want
    BY <1>4 DEF Restart, volumeVars, fixedVars
  <2>2. \A w \in Workers : pc'[w] \notin Underway
    BY <1>4 DEF Restart, Underway
  <2>3. QED
    BY <1>1, <2>1, <2>2, AsideOneShot
<1>5. ASSUME User \/ Host \/ UNCHANGED vars PROVE OneShotOK'
  <2>1. UNCHANGED <<quota, props, tree, used, driver, autoApply, seen, pc, pass>>
    BY <1>5 DEF User, Host, vars, volumeVars, cacheVars, passVars, fixedVars
  <2>2. QED
    BY <1>1, <2>1, AsideOneShot
<1>6. QED
  BY <1>2, <1>3, <1>4, <1>5 DEF Next

LEMMA OneShotInvariant == Spec => []OneShotOK
<1>1. Init => OneShotOK
  <2> SUFFICES ASSUME Init PROVE OneShotOK
    OBVIOUS
  <2>1. ~want.dry /\ SameClaim(seen)
    BY DEF Init, SameClaim
  <2>2. \A w \in Workers : PassOK(w)
    BY DEF Init, PassOK, Underway
  <2>3. UsedOK
    BY DEF Init, UsedOK
  <2>4. QED
    BY <2>1, <2>2, <2>3 DEF OneShotOK
<1>2. StateInv /\ OneShotOK /\ [Next]_vars => OneShotOK'
  BY OneShotStep
<1>3. QED
  BY <1>1, <1>2, StateInvariant, PTL DEF Spec

-----------------------------------------------------------------------------

\* Every variable stays within its type; for the files this says that what chown
\* is given fits a UID, whatever number was declared.
THEOREM StateTypeCorrect == Spec => []StateTypeOK
BY StateInvariant, PTL DEF StateInv

\* The event VolumeUpToDate of a pass all of whose steps worked is true when it
\* is emitted, although quota, owner and properties were read one after another
\* and other workers, users and restarts came in between; but of a pass that
\* skipped the walk, for want of a mount path, only quota and properties are.
THEOREM UpToDateWhenCleanHolds == Spec => []UpToDateWhenClean
<1>1. StateInv => UpToDateWhenClean
  BY DEF StateInv, FoundOK, UpToDateWhenClean, QuotaFound, OwnerFound, PropsFound,
     SettingsInPlace
<1>2. QED
  BY <1>1, StateInvariant, PTL

\* A volume whose class does not apply by itself and whose claim was never given
\* the apply annotation is as it was created (plan-only by default).
THEOREM NothingUnauthorisedHolds == Spec => []NothingUnauthorised
<1>1. StateInv => NothingUnauthorised
  BY DEF StateInv, GrantOK, NothingUnauthorised
<1>2. QED
  BY <1>1, StateInvariant, PTL

\* No pass ever changes the owner or the mode of a symbolic link.
THEOREM LinksUntouchedHolds == Spec => []LinksUntouched
BY StateInvariant, PTL DEF StateInv

\* However often passes run, requeue, restart and overtake the cache, one giving of
\* the apply annotation lets one pass apply changes, unless the claim was edited, a
\* command or call failed, the mount path went missing, or an owner is declared that
\* cannot be had.
THEOREM OneShotUndisturbedHolds == Spec => []OneShotUndisturbed
<1>1. StateInv /\ OneShotOK => OneShotUndisturbed
  <2> SUFFICES ASSUME StateInv, OneShotOK, NEW g \in 1..MaxGrants, used[g] > 1
               PROVE  \/ edits > 0 \/ faults > 0 \/ absences > 0
                      \/ ~Attainable(want.conf.files)
    BY DEF OneShotUndisturbed
  <2>1. ~Undisturbed
    <3>1. used[g] # 0 /\ used[g] # 1
      BY VolumeStateAssumption DEF StateInv, StateTypeOK, VolumeStateAssumption
    <3>2. QED
      BY <3>1 DEF OneShotOK, UsedOK
  <2>2. QED
    BY <2>1, VolumeStateAssumption DEF Undisturbed, StateInv, StateTypeOK, VolumeStateAssumption
<1>2. QED
  BY <1>1, StateInvariant, OneShotInvariant, PTL
=============================================================================
