---------------------------- MODULE VolumeState ----------------------------
(***************************************************************************)
(* Live reconcile of a bound claim's volume: reconcileVolumeState in       *)
(* pkg/controller/controller.go with the Reconcile methods of the ZFS and  *)
(* the directory driver (Btrfs has none and is skipped).                   *)
(*                                                                         *)
(* Users declare a quota, an owner and mode, and properties on the claim.  *)
(* A pass compares them with the volume and, when the change is authorised *)
(* - by the class's autoApply or by a one-shot annotation on the claim -   *)
(* applies them in three steps, any of which may fail on its own.  The     *)
(* claim comes from an informer cache that lags behind the API.  A user    *)
(* edits the declaration and gives or takes back the annotations at any    *)
(* time.  The volume's mount path can be missing on the host for a while:  *)
(* to the code that is no error.                                           *)
(*                                                                         *)
(* One claim and its volume; the queue is that of WorkQueue.  A quota is a *)
(* value, a property is set or not: which value it has is left out.        *)
(***************************************************************************)
EXTENDS WorkQueue, OwnerMode

CONSTANTS
    Claim,        \* the claim's key in the queue
    Drivers,      \* the drivers its volume may be of
    Quotas,       \* the quotas that can be declared
    NoQuota,      \* no quota is wanted, or none is set
    BadQuota,     \* the quota annotation does not parse
    Props,        \* the reconcilable properties
    Base,         \* those the StorageClass sets
    Confs,        \* what users may declare
    FirstTree,    \* the volume's files at first
    FirstProps,   \* the properties set on the volume at first
    MaxEdits,     \* bound: how often users edit the declaration
    MaxGrants,    \* bound: how often they give the apply annotation
    MaxFaults,    \* bound: how many commands and API calls fail
    MaxAbsences,  \* bound: how often the mount path goes missing
    MaxRestarts   \* bound: how many times the process restarts

Reconcilers == {"zfs", "dir"}
Declared == [quota : Quotas \cup {NoQuota, BadQuota}, files : Declarations,
             props : SUBSET Props]

ASSUME VolumeStateAssumption ==
    /\ Items = {Claim}
    /\ Drivers \subseteq Reconcilers
    /\ NoQuota \notin Quotas
    /\ BadQuota \notin Quotas \cup {NoQuota}
    /\ Base \subseteq Props
    /\ FirstProps \subseteq Props
    /\ FirstTree \in Trees
    /\ Confs \subseteq Declared
    /\ {MaxEdits, MaxGrants, MaxFaults, MaxAbsences, MaxRestarts} \subseteq Nat

VARIABLES
    driver,       \* the volume's driver
    autoApply,    \* does its class apply changes by itself?
    want,         \* API: the claim's declaration and annotations
    seen,         \* what the informer cache holds of them
    pvSeen,       \* does the cache hold the volume object?
    quota,        \* the volume's quota,
    props,        \* the properties set on it
    tree,         \* and its files
    present,      \* is there anything at its mount path on this host?
    pc,           \* where each worker is in its pass
    pass,         \* what the pass has read and found so far
    inProgress,   \* Controller.inProgress for the claim's state
    grants,       \* how often apply was given
    used,         \* for each time, how many passes it let apply something,
                  \* where 2 stands for any more
    edits, faults, absences, restarts

volumeVars == <<quota, props, tree>>
hostVars == <<present, absences>>
claimVars == <<want, grants, edits>>
cacheVars == <<seen, pvSeen>>
passVars == <<pc, pass, inProgress, used>>
fixedVars == <<driver, autoApply>>
vars == <<queueVars, volumeVars, hostVars, claimVars, cacheVars, passVars, fixedVars,
          faults, restarts>>

-----------------------------------------------------------------------------

\* The claim: apply is 0 without the annotation, else which giving of it this is.
Wants == [conf : Confs, apply : 0..MaxGrants, dry : BOOLEAN]

\* A pass: the claim it read, whether it could read the StorageClass, whether it
\* has changes to report, whether all its steps have worked, and whether it has
\* passed over owner and mode because nothing was at the mount path.
Passes == [claim : Wants, class : BOOLEAN, changes : BOOLEAN, clean : BOOLEAN,
           skipped : BOOLEAN]
Idle == [claim |-> [conf |-> CHOOSE c \in Confs : TRUE, apply |-> 0, dry |-> FALSE],
         class |-> FALSE, changes |-> FALSE, clean |-> FALSE, skipped |-> FALSE]

Underway == {"quota", "owner", "props", "report", "patch"}

StateTypeOK ==
    /\ QueueTypeOK
    /\ driver \in Drivers /\ autoApply \in BOOLEAN
    /\ want \in Wants /\ seen \in Wants /\ pvSeen \in BOOLEAN
    /\ quota \in Quotas \cup {NoQuota}
    /\ props \in SUBSET Props
    /\ tree \in Trees /\ present \in BOOLEAN
    /\ pc \in [Workers -> {"idle", "start", "ok", "err"} \cup Underway]
    /\ pass \in [Workers -> Passes]
    /\ inProgress \in BOOLEAN
    /\ grants \in 0..MaxGrants
    /\ used \in [1..MaxGrants -> 0..2]
    /\ edits \in 0..MaxEdits /\ faults \in 0..MaxFaults
    /\ absences \in 0..MaxAbsences /\ restarts \in 0..MaxRestarts

\* The claim has just been bound, which queued it.
Init ==
    /\ dirty = Items
    /\ delayed = {}
    /\ failures = [i \in Items |-> 0]
    /\ holding = [w \in Workers |-> NoItem]
    /\ driver \in Drivers
    /\ autoApply \in BOOLEAN
    /\ want \in [conf : Confs, apply : {0}, dry : {FALSE}]
    /\ seen = want
    /\ pvSeen = FALSE
    /\ quota = NoQuota
    /\ props = IF driver = "zfs" THEN FirstProps ELSE {}
    /\ tree = FirstTree
    /\ present = TRUE
    /\ pc = [w \in Workers |-> "idle"]
    /\ pass = [w \in Workers |-> Idle]
    /\ inProgress = FALSE
    /\ grants = 0
    /\ used = [g \in 1..MaxGrants |-> 0]
    /\ edits = 0 /\ faults = 0 /\ absences = 0 /\ restarts = 0

-----------------------------------------------------------------------------
(* A pass.                                                                 *)

Conf(w) == pass[w].claim.conf
Fault == faults < MaxFaults /\ faults' = faults + 1

\* Faulty variants, not part of the specification: an operator defined just
\* before the one it is named after is what a bug could make of that one.

\* Fault: what is not forbidden is applied.
AppliesUnlessDry(w) == ~pass[w].claim.dry

\* The policy: plan only, unless the class or the claim says otherwise.
Applies(w) ==
    /\ \/ autoApply /\ pass[w].class
       \/ pass[w].claim.apply # 0
    /\ ~pass[w].claim.dry

\* The pass goes on, with more to report or not; or it returns, and the deferred
\* function gives the guard back.
Continue(w, s, changed, worked) ==
    /\ pc' = [pc EXCEPT ![w] = s]
    /\ pass' = [pass EXCEPT ![w].changes = @ \/ changed, ![w].clean = @ /\ worked]
    /\ UNCHANGED inProgress

\* It goes on without having looked at owner and mode, which is no failure.
PassOver(w, s) ==
    /\ pc' = [pc EXCEPT ![w] = s]
    /\ pass' = [pass EXCEPT ![w].skipped = TRUE]
    /\ UNCHANGED inProgress

\* Fault: an error returns before the deferred function is set up.
ReturnKeepsGuard(w, s) ==
    /\ pc' = [pc EXCEPT ![w] = s]
    /\ pass' = [pass EXCEPT ![w] = Idle]
    /\ inProgress' = (s = "err")

Return(w, s) ==
    /\ pc' = [pc EXCEPT ![w] = s]
    /\ pass' = [pass EXCEPT ![w] = Idle]
    /\ inProgress' = FALSE

\* Bound, but its volume is not in the cache, or a pass is in progress: the
\* reconcile returns without an error, and what asked for it is lost.
Skip(w) ==
    /\ pc[w] = "start" /\ (~pvSeen \/ inProgress)
    /\ pc' = [pc EXCEPT ![w] = "ok"]
    /\ UNCHANGED <<volumeVars, pass, inProgress, used, faults>>

\* The cached claim is taken and the StorageClass read from the API; a class
\* that cannot be read is treated like one without parameters.
Begin(w) ==
    /\ pc[w] = "start" /\ pvSeen /\ ~inProgress
    /\ \E class \in BOOLEAN :
          /\ pass' = [pass EXCEPT ![w] =
                [claim |-> seen, class |-> class, changes |-> FALSE, clean |-> class,
                 skipped |-> FALSE]]
          /\ IF class THEN UNCHANGED faults ELSE Fault
    /\ pc' = [pc EXCEPT ![w] = "quota"]
    /\ inProgress' = TRUE
    /\ UNCHANGED <<volumeVars, used>>

\* resolveQuota fails: the pass ends before anything else is looked at.
RejectQuota(w) ==
    /\ pc[w] = "quota" /\ Conf(w).quota = BadQuota
    /\ Return(w, "err")
    /\ UNCHANGED <<volumeVars, used, faults>>

\* A directory has no quota to set: ReconcileQuota fails if one is declared.  A
\* "zfs set" that fails may have set it.
QuotaStep(w) ==
    /\ pc[w] = "quota" /\ Conf(w).quota # BadQuota
    /\ \/ /\ driver = "zfs"
          /\ Continue(w, "owner", quota # Conf(w).quota, TRUE)
          /\ quota' = IF Applies(w) THEN Conf(w).quota ELSE quota
          /\ UNCHANGED faults
       \/ /\ driver = "dir"
          /\ Continue(w, "owner", FALSE, Conf(w).quota = NoQuota)
          /\ UNCHANGED <<quota, faults>>
       \/ /\ driver = "zfs" /\ Fault
          /\ Continue(w, "owner", FALSE, FALSE)
          /\ quota' \in {quota} \cup (IF Applies(w) THEN {Conf(w).quota} ELSE {})
    /\ UNCHANGED <<props, tree, used>>

\* An error in the walk drops what it had changed.  When there is something to
\* look at and nothing at the mount path, the walk is skipped without an error.
OwnerStep(w) ==
    /\ pc[w] = "owner"
    /\ \/ /\ present \/ Targets(Conf(w).files) = {}
          /\ Continue(w, "props", Changes(Conf(w).files, tree) # {}, TRUE)
          /\ tree' = IF Applies(w) THEN Reconciled(Conf(w).files, tree) ELSE tree
          /\ UNCHANGED faults
       \/ /\ ~present /\ Targets(Conf(w).files) # {}
          /\ PassOver(w, "props")
          /\ UNCHANGED <<tree, faults>>
       \/ /\ present /\ Targets(Conf(w).files) # {} /\ Fault
          /\ Continue(w, "props", FALSE, FALSE)
          /\ IF Applies(w) THEN tree' \in Interrupted(Conf(w).files, tree) \cup {tree}
             ELSE UNCHANGED tree
    /\ UNCHANGED <<quota, props, used>>

\* The properties the class and the claim declare together.
Desired(w) == (IF pass[w].class THEN Base ELSE {}) \cup Conf(w).props
Missing(w) == Desired(w) \ props
Extra(w) == props \ Desired(w)

\* Missing properties are set, in any order, then those set locally and no longer
\* declared are to be reset: "zfs inherit" is called with dataset and property
\* exchanged, so it fails whenever it is really run.
PropsStep(w) ==
    /\ pc[w] = "props"
    /\ \/ /\ driver = "zfs" /\ (Applies(w) => Extra(w) = {})
          /\ Continue(w, "report", Missing(w) \cup Extra(w) # {}, TRUE)
          /\ props' = IF Applies(w) THEN props \cup Missing(w) ELSE props
          /\ UNCHANGED faults
       \/ /\ driver = "zfs" /\ Applies(w) /\ Extra(w) # {}
          /\ Continue(w, "report", FALSE, FALSE)
          /\ props' = props \cup Missing(w)
          /\ UNCHANGED faults
       \/ /\ driver = "zfs" /\ Fault
          /\ Continue(w, "report", FALSE, FALSE)
          /\ IF Applies(w) THEN \E S \in SUBSET Missing(w) : props' = props \cup S
             ELSE UNCHANGED props
       \/ /\ driver = "dir"
          /\ Continue(w, "report", FALSE, Desired(w) = {})
          /\ UNCHANGED <<props, faults>>
    /\ UNCHANGED <<quota, tree, used>>

\* Fault: the annotation is only removed when something was applied.
ReportConsumesUse(w) ==
    LET p == pass[w] IN
    /\ pc[w] = "report"
    /\ used' = IF p.changes /\ Applies(w) /\ p.claim.apply # 0
               THEN [used EXCEPT ![p.claim.apply] = IF @ = 0 THEN 1 ELSE 2] ELSE used
    /\ IF p.claim.apply # 0 /\ p.changes /\ Applies(w)
       THEN Continue(w, "patch", FALSE, TRUE) ELSE Return(w, "ok")
    /\ UNCHANGED <<volumeVars, faults>>

\* The event (VolumeUpToDate, VolumeDryRun or VolumeUpdated), and whether the
\* one-shot annotation has to be removed.
Report(w) ==
    LET p == pass[w] IN
    /\ pc[w] = "report"
    /\ used' = IF p.changes /\ Applies(w) /\ p.claim.apply # 0
               THEN [used EXCEPT ![p.claim.apply] = IF @ = 0 THEN 1 ELSE 2] ELSE used
    /\ IF p.claim.apply # 0 /\ (p.changes => Applies(w))
       THEN Continue(w, "patch", FALSE, TRUE) ELSE Return(w, "ok")
    /\ UNCHANGED <<volumeVars, faults>>

\* The annotation is removed, whatever it has come to authorise meanwhile.
Patch(w) ==
    /\ pc[w] = "patch"
    /\ want' = [want EXCEPT !.apply = 0]
    /\ \/ Return(w, "ok") /\ UNCHANGED faults
       \/ Return(w, "err") /\ Fault
    /\ UNCHANGED <<volumeVars, used>>

PatchFails(w) ==
    /\ pc[w] = "patch" /\ Fault
    /\ Return(w, "err")
    /\ UNCHANGED <<volumeVars, used>>

Reconcile(w) ==
    /\ \/ /\ \/ Skip(w) \/ Begin(w) \/ RejectQuota(w)
             \/ QuotaStep(w) \/ OwnerStep(w) \/ PropsStep(w)
             \/ Report(w) \/ PatchFails(w)
          /\ UNCHANGED want
       \/ Patch(w)
    /\ UNCHANGED <<queueVars, hostVars, cacheVars, fixedVars, grants, edits, restarts>>

-----------------------------------------------------------------------------
(* The queue, the caches, the process and the users.                       *)

TakeClaim(w) ==
    /\ pc[w] = "idle" /\ Get(w, Claim)
    /\ pc' = [pc EXCEPT ![w] = "start"]
    /\ UNCHANGED cacheVars

ReturnClaim(w) ==
    /\ \/ pc[w] = "ok" /\ FinishOk(w)
       \/ pc[w] = "err" /\ (FinishRetry(w) \/ FinishGiveUp(w))
    /\ pc' = [pc EXCEPT ![w] = "idle"]
    /\ UNCHANGED cacheVars

RetryClaim == Expire(Claim) /\ UNCHANGED <<pc, cacheVars>>

\* An event queues the claim; one of its volume object does not.
DeliverClaim ==
    /\ seen # want
    /\ seen' = want
    /\ Add({Claim})
    /\ UNCHANGED <<pc, pvSeen>>

DeliverVolume ==
    /\ ~pvSeen
    /\ pvSeen' = TRUE
    /\ UNCHANGED <<queueVars, pc, seen>>

Resync == Claim \notin dirty /\ Add({Claim}) /\ UNCHANGED <<pc, cacheVars>>

Inside ==
    /\ \/ \E w \in Workers : TakeClaim(w) \/ ReturnClaim(w)
       \/ RetryClaim \/ DeliverClaim \/ DeliverVolume \/ Resync
    /\ UNCHANGED <<volumeVars, hostVars, claimVars, fixedVars, pass, inProgress, used,
                   faults, restarts>>

\* Whatever a pass was doing, it is gone.
Restart ==
    /\ restarts < MaxRestarts /\ restarts' = restarts + 1
    /\ seen' = want /\ pvSeen' = TRUE
    /\ pc' = [w \in Workers |-> "idle"]
    /\ pass' = [w \in Workers |-> Idle]
    /\ inProgress' = FALSE
    /\ Reset(Items, Workers, Items)
    /\ UNCHANGED <<volumeVars, hostVars, claimVars, fixedVars, used, faults>>

\* An edit changes the declaration or asks for a plan only, or no longer.
Edit ==
    /\ edits < MaxEdits /\ edits' = edits + 1
    /\ \/ \E c \in Confs \ {want.conf} : want' = [want EXCEPT !.conf = c]
       \/ want' = [want EXCEPT !.dry = ~@]
    /\ UNCHANGED grants

Grant ==
    /\ grants < MaxGrants /\ grants' = grants + 1
    /\ want.apply = 0
    /\ want' = [want EXCEPT !.apply = grants']
    /\ UNCHANGED edits

User ==
    /\ Edit \/ Grant
    /\ UNCHANGED <<queueVars, volumeVars, hostVars, cacheVars, passVars, fixedVars,
                   faults, restarts>>

\* The mount path goes missing - unmounted, not imported, moved away - and comes
\* back with the files it had.
Vanish ==
    /\ present /\ absences < MaxAbsences
    /\ present' = FALSE /\ absences' = absences + 1

Reappear ==
    /\ ~present
    /\ present' = TRUE /\ UNCHANGED absences

Host ==
    /\ Vanish \/ Reappear
    /\ UNCHANGED <<queueVars, volumeVars, claimVars, cacheVars, passVars, fixedVars,
                   faults, restarts>>

Next ==
    \/ \E w \in Workers : Reconcile(w)
    \/ Inside
    \/ Restart
    \/ User
    \/ Host

Spec == Init /\ [][Next]_vars

\* Passes go on, the queue is FIFO, timers fire, watches deliver and resyncs
\* recur.  Nothing obliges users, hosts, failures or restarts.
Around == <<volumeVars, hostVars, claimVars, fixedVars, pass, inProgress, used,
            faults, restarts>>

Fairness ==
    /\ \A w \in Workers :
          /\ WF_vars(Reconcile(w) \/ (ReturnClaim(w) /\ UNCHANGED Around))
          /\ SF_vars(TakeClaim(w) /\ UNCHANGED Around)
    /\ WF_vars(RetryClaim /\ UNCHANGED Around)
    /\ WF_vars(DeliverClaim /\ UNCHANGED Around)
    /\ WF_vars(DeliverVolume /\ UNCHANGED Around)
    /\ WF_vars(Resync /\ UNCHANGED Around)

FairSpec == Spec /\ Fairness

-----------------------------------------------------------------------------
(* Safety.                                                                 *)

\* What is declared is in place, told from the volume alone.
OwnershipInPlace(d) ==
    \A e \in Files :
        e = Root \/ (d.recursive /\ e \notin Links) =>
            /\ d.owner # NoOwner => tree[e].owner = d.owner % Width
            /\ d.mode # NoMode => tree[e].mode = d.mode

SettingsInPlace(conf, desired) ==
    IF driver = "zfs" THEN quota = conf.quota /\ props = desired
    ELSE conf.quota = NoQuota /\ desired = {}

\* The event "No pending changes: dataset matches the desired configuration" is
\* true of a pass all of whose steps have worked, but for the owner and mode of a
\* volume that was not there to be looked at.
UpToDateWhenClean ==
    \A w \in Workers :
        pc[w] = "report" /\ pass[w].clean /\ ~pass[w].changes =>
            /\ SettingsInPlace(Conf(w), Desired(w))
            /\ pass[w].skipped \/ OwnershipInPlace(Conf(w).files)

\* It is true of every pass.
UpToDateIsTrue ==
    \A w \in Workers :
        pc[w] = "report" /\ ~pass[w].changes =>
            SettingsInPlace(Conf(w), Desired(w)) /\ OwnershipInPlace(Conf(w).files)

\* Changes are never applied blindly: unless the class applies by itself or the
\* annotation was given at some time, the volume is as it was created.
NothingUnauthorised ==
    ~autoApply /\ grants = 0 =>
        /\ quota = NoQuota /\ tree = FirstTree
        /\ props = IF driver = "zfs" THEN FirstProps ELSE {}

\* The walk leaves symbolic links alone.
LinksUntouched == \A e \in Links : tree[e] = FirstTree[e]

\* One giving of the annotation lets no second pass apply anything.
OneShot == \A g \in 1..MaxGrants : used[g] <= 1

\* It does not while the declaration stays the same, nothing fails and the mount
\* path does not go missing.
OneShotUndisturbed ==
    (\E g \in 1..MaxGrants : used[g] > 1) =>
        edits > 0 \/ faults > 0 \/ absences > 0 \/ ~Attainable(want.conf.files)

-----------------------------------------------------------------------------
(* Liveness.                                                               *)

\* What can be applied of a declaration has been: on a directory only owner and
\* mode, and on ZFS all but the resetting of properties.
Applied(conf) ==
    /\ OwnershipInPlace(conf.files)
    /\ driver = "zfs" => quota = conf.quota /\ Base \cup conf.props \subseteq props

\* With autoApply a valid declaration that stays is applied in the end, although
\* steps fail, the volume object may be seen late, the process may restart and
\* passes skip a volume that is not there: when it is back, no event says so.
EventuallyApplied ==
    \A c \in {x \in Confs : x.quota # BadQuota /\ Attainable(x.files)} :
        autoApply /\ want.conf = c /\ ~want.dry /\ present ~>
            want.conf # c \/ want.dry \/ ~present \/ Applied(c)

\* The one-shot annotation does not linger: it is removed in the end unless the
\* claim asks for a plan only or its quota is invalid.
GrantSettled ==
    want.apply # 0 ~> want.apply = 0 \/ want.dry \/ want.conf.quota = BadQuota
=============================================================================
