---------------------------- MODULE Provisioner ----------------------------
(***************************************************************************)
(* The provisioner: on every node a process whose workers reconcile        *)
(* claims (PVCs) into volumes and released volumes (PVs) into nothing.     *)
(* pkg/controller/controller.go, over the queue of WorkQueue and the       *)
(* filesystems of Backend.                                                 *)
(*                                                                         *)
(* A reconcile is several steps - look at the informer caches, ask the     *)
(* filesystem, run a command, write to the API - and between any two of    *)
(* them anything else may happen: another worker's or node's step, a user, *)
(* Kubernetes, a cache catching up, a crash.                               *)
(*                                                                         *)
(* Kubernetes is modelled as far as the controller can see it: the API     *)
(* server's objects, the binder that binds and releases volumes, the       *)
(* scheduler that selects a node, and informer caches that lag behind the  *)
(* API by any amount.  When a cache catches up it jumps to the newest      *)
(* version of one object; it can be made to see an older version by        *)
(* catching up earlier.                                                    *)
(***************************************************************************)
EXTENDS WorkQueue, Backend

CONSTANTS
    Names,        \* the names of claims (namespace/name)
    Classes,      \* the StorageClasses of this provisioner
    NodeOf,       \* the node on which each worker runs
    NameOf,       \* the name under which each claim is created
    ClassOf,      \* the StorageClass each claim names
    PathOf,       \* the path a claim's template or annotation evaluates to
    DriverOf,     \* parameters.driver of a class
    NodeParam,    \* parameters.node of a class, or NoNode
    Waits,        \* the classes that bind WaitForFirstConsumer
    Deletes,      \* the classes whose reclaim policy is Delete
    Adopt,        \* the claims annotated adopt-existing
    Rejected,     \* the claims reconcileClaim refuses before asking the driver
    Occupied,     \* the <<node, path>> pairs where a volume already exists
    Resyncs,      \* do the informers resync?
    Annotates,    \* do administrators annotate volumes?
    MaxFaults,    \* bound: how many commands and API calls fail
    MaxRestarts,  \* bound: how many times a process restarts
    NoUid,        \* no claim
    NoNode        \* no node

Keys == Names \cup Uids

ASSUME ProvisionerAssumption ==
    /\ Items = Nodes \X Keys
    /\ Names \cap Uids = {}
    /\ NoUid \notin Uids
    /\ NoNode \notin Nodes
    /\ NodeOf \in [Workers -> Nodes]
    /\ NameOf \in [Uids -> Names]
    /\ ClassOf \in [Uids -> Classes]
    /\ PathOf \in [Uids -> Paths]
    /\ DriverOf \in [Classes -> Kinds]
    /\ NodeParam \in [Classes -> Nodes \cup {NoNode}]
    /\ Waits \subseteq Classes
    /\ Deletes \subseteq Classes
    /\ Adopt \subseteq Uids
    /\ Rejected \subseteq Uids
    /\ Occupied \subseteq Nodes \X Paths
    /\ Resyncs \in BOOLEAN
    /\ Annotates \in BOOLEAN
    /\ MaxFaults \in Nat
    /\ MaxRestarts \in Nat

VARIABLES
    claim,        \* API: the claim under each name
    pv,           \* API: the volume object of each claim (pvc-<uid>)
    class,        \* API: the StorageClasses that exist
    unborn,       \* the claims not created yet (a UID is never used twice)
    cClaim,       \* what each node's informer cache holds of these
    cPv,
    cClass,
    pc,           \* where each worker is in its reconcile
    job,          \* what it read when it started
    inProgress,   \* Controller.inProgress of each node
    faults,       \* failures so far
    restarts      \* restarts so far

apiVars == <<claim, pv, class, unborn>>
cacheVars == <<cClaim, cPv, cClass>>
workVars == <<pc, job, inProgress>>
budgetVars == <<faults, restarts>>
vars == <<queueVars, backendVars, apiVars, cacheVars, workVars, budgetVars>>

-----------------------------------------------------------------------------
(* The objects, as far as the controller reads them.                       *)

NoClaim == [uid |-> NoUid, phase |-> "absent", sel |-> NoNode]
Claims == [uid : Uids, phase : {"Pending", "Bound"}, sel : Nodes \cup {NoNode}]

NoPv == [phase |-> "absent", node |-> NoNode, snap |-> FALSE]
Pvs == [phase : {"Available", "Bound", "Released"}, node : Nodes, snap : BOOLEAN]

NoJob == [uid |-> NoUid, snap |-> FALSE]

Provisioning == {"exists", "make", "publish"}
Deleting == {"dexists", "preserve", "destroy", "unpublish"}
Returned == {"ok", "err"}

Steps == {"idle", "start"} \cup Provisioning \cup Deleting \cup Returned

ApiTypeOK ==
    /\ claim \in [Names -> Claims \cup {NoClaim}]
    /\ pv \in [Uids -> Pvs \cup {NoPv}]
    /\ class \subseteq Classes
    /\ unborn \subseteq Uids

CacheTypeOK ==
    /\ cClaim \in [Nodes -> [Names -> Claims \cup {NoClaim}]]
    /\ cPv \in [Nodes -> [Uids -> Pvs \cup {NoPv}]]
    /\ cClass \in [Nodes -> SUBSET Classes]

WorkTypeOK ==
    /\ pc \in [Workers -> Steps]
    /\ job \in [Workers -> [uid : Uids \cup {NoUid}, snap : BOOLEAN]]
    /\ inProgress \in [Nodes -> SUBSET Keys]

BudgetTypeOK ==
    /\ faults \in 0..MaxFaults
    /\ restarts \in 0..MaxRestarts

TypeOK ==
    /\ QueueTypeOK
    /\ BackendTypeOK
    /\ ApiTypeOK
    /\ CacheTypeOK
    /\ WorkTypeOK
    /\ BudgetTypeOK

\* A claim that exists in the API, and one that existed and is gone.
Alive(u) == claim[NameOf[u]].uid = u
Dead(u) == u \notin unborn /\ ~Alive(u)

Init ==
    /\ QueueInit
    /\ vol = [n \in Nodes |-> [p \in Paths |->
                 IF <<n, p>> \in Occupied THEN Foreign ELSE NoVol]]
    /\ kept = {}
    /\ claim = [nm \in Names |-> NoClaim]
    /\ pv = [u \in Uids |-> NoPv]
    /\ class = {}
    /\ unborn = Uids
    /\ cClaim = [n \in Nodes |-> claim]
    /\ cPv = [n \in Nodes |-> pv]
    /\ cClass = [n \in Nodes |-> class]
    /\ pc = [w \in Workers |-> "idle"]
    /\ job = [w \in Workers |-> NoJob]
    /\ inProgress = [n \in Nodes |-> {}]
    /\ faults = 0
    /\ restarts = 0

-----------------------------------------------------------------------------
(* A worker's reconcile.  Every action below is one step of it.            *)

Node(w) == NodeOf[w]
Key(w) == holding[w][2]
Path(w) == PathOf[job[w].uid]
Driver(w) == DriverOf[ClassOf[job[w].uid]]

\* A command or an API call fails; how often is bounded.
Fault == faults < MaxFaults /\ faults' = faults + 1

\* The step before the in-progress guard is taken, or while it is held.
Goto(w, s) ==
    /\ pc' = [pc EXCEPT ![w] = s]
    /\ UNCHANGED <<job, inProgress>>

\* The guard is taken and the rest of the reconcile works with what was read.
Enter(w, j, s) ==
    /\ pc' = [pc EXCEPT ![w] = s]
    /\ job' = [job EXCEPT ![w] = j]
    /\ inProgress' = [inProgress EXCEPT ![Node(w)] = @ \cup {Key(w)}]

\* Faulty variants, not part of the specification: an operator defined just
\* before the one it is named after is what a bug could make of that one.

\* Fault: an error returns before the deferred function is set up.
ProceedKeepsGuard(w, s) ==
    IF s \in Returned
    THEN /\ pc' = [pc EXCEPT ![w] = s]
         /\ job' = [job EXCEPT ![w] = NoJob]
         /\ inProgress' = IF s = "err" THEN inProgress
                          ELSE [inProgress EXCEPT ![Node(w)] = @ \ {Key(w)}]
    ELSE Goto(w, s)

\* The reconcile goes on to s, or returns s and the deferred function gives the
\* guard back.
Proceed(w, s) ==
    IF s \in Returned
    THEN /\ pc' = [pc EXCEPT ![w] = s]
         /\ job' = [job EXCEPT ![w] = NoJob]
         /\ inProgress' = [inProgress EXCEPT ![Node(w)] = @ \ {Key(w)}]
    ELSE Goto(w, s)

\* Fault: a class that waits for the scheduler is not told apart.
TargetedImmediately(n, v) ==
    v.sel \in {n, NoNode}

\* isNodeTargeted: the scheduler's choice, else the class's node, else whoever
\* asks unless the class waits for the scheduler.
Targeted(n, v) ==
    \/ v.sel = n
    \/ v.sel = NoNode /\ NodeParam[ClassOf[v.uid]] = n
    \/ /\ v.sel = NoNode /\ NodeParam[ClassOf[v.uid]] = NoNode
       /\ ClassOf[v.uid] \notin Waits

\* Does the node, from what its caches hold, have a claim to provision under a
\* name?  (processPVC, and reconcileClaim up to the check for an existing PV)
ToProvision(n, nm) ==
    LET v == cClaim[n][nm] IN
    /\ v.phase = "Pending"
    /\ ClassOf[v.uid] \in cClass[n]
    /\ Targeted(n, v)
    /\ nm \notin inProgress[n]
    /\ cPv[n][v.uid] = NoPv

\* isPVOnThisNode: the node affinity of the cached volume names this node.
PvOnNode(n, u) == cPv[n][u].node = n

\* Faults: the volume's phase, or its node, is not looked at.
ToDeleteUnreleased(n, u) ==
    /\ cPv[n][u] # NoPv
    /\ ClassOf[u] \in Deletes
    /\ PvOnNode(n, u)
    /\ u \notin inProgress[n]

ToDeleteAnywhere(n, u) ==
    /\ cPv[n][u].phase = "Released"
    /\ ClassOf[u] \in Deletes
    /\ u \notin inProgress[n]

\* Does it have to delete a claim's volume?  (processPV)
ToDelete(n, u) ==
    /\ cPv[n][u].phase = "Released"
    /\ ClassOf[u] \in Deletes
    /\ PvOnNode(n, u)
    /\ u \notin inProgress[n]

\* Faults: a failed check counts as an existing volume to adopt; a volume that
\* is gone already counts as a failed deletion.
AfterCreateCheckTrusting(u, answer) ==
    IF answer = "no" THEN "make"
    ELSE IF u \in Adopt THEN "publish" ELSE "err"

AfterDeleteCheckStrict(snap, answer) ==
    IF answer # "yes" THEN "err"
    ELSE IF snap THEN "preserve" ELSE "destroy"

\* What Create and Delete do next after their check for existence.
AfterCreateCheck(u, answer) ==
    IF answer = "no" THEN "make"
    ELSE IF answer = "yes" /\ u \in Adopt THEN "publish" ELSE "err"

AfterDeleteCheck(snap, answer) ==
    IF answer = "no" THEN "unpublish"
    ELSE IF answer = "error" THEN "err"
    ELSE IF snap THEN "preserve" ELSE "destroy"

\* Fault: the object has no node affinity.
NewPvUnpinned(n) == [phase |-> "Available", node |-> NoNode, snap |-> FALSE]

\* The volume object BuildPersistentVolume makes for a claim.
NewPv(n) == [phase |-> "Available", node |-> n, snap |-> FALSE]

-----------------------------------------------------------------------------

\* Nothing to do for this node: the reconcile returns without an error.
IgnoreItem(w) ==
    /\ pc[w] = "start"
    /\ Key(w) \in Names => ~ToProvision(Node(w), Key(w))
    /\ Key(w) \in Uids => ~ToDelete(Node(w), Key(w))
    /\ Goto(w, "ok")
    /\ UNCHANGED <<backendVars, apiVars, faults>>

\* The driver is not registered, the claim wants a block volume or a quota the
\* driver lacks, the path template or the quota does not evaluate.
RejectClaim(w) ==
    /\ pc[w] = "start"
    /\ Key(w) \in Names /\ ToProvision(Node(w), Key(w))
    /\ cClaim[Node(w)][Key(w)].uid \in Rejected
    /\ Goto(w, "err")
    /\ UNCHANGED <<backendVars, apiVars, faults>>

\* The Secret with the encryption key or its location cannot be read.
SecretFails(w) ==
    /\ pc[w] = "start"
    /\ Key(w) \in Names /\ ToProvision(Node(w), Key(w))
    /\ cClaim[Node(w)][Key(w)].uid \notin Rejected
    /\ Fault
    /\ Goto(w, "err")
    /\ UNCHANGED <<backendVars, apiVars>>

BeginProvision(w) ==
    /\ pc[w] = "start"
    /\ Key(w) \in Names /\ ToProvision(Node(w), Key(w))
    /\ cClaim[Node(w)][Key(w)].uid \notin Rejected
    /\ Enter(w, [uid |-> cClaim[Node(w)][Key(w)].uid, snap |-> FALSE], "exists")
    /\ UNCHANGED <<backendVars, apiVars, faults>>

\* The driver's Create: its check for existence ...
CheckBeforeCreate(w) ==
    /\ pc[w] = "exists"
    /\ \/ /\ Proceed(w, AfterCreateCheck(job[w].uid, ExistsAnswer(Node(w), Path(w))))
          /\ UNCHANGED faults
       \/ /\ Proceed(w, AfterCreateCheck(job[w].uid, ExistsFailedAnswer(Driver(w))))
          /\ Fault
    /\ UNCHANGED <<backendVars, apiVars>>

\* ... and its create command, which may find that this is no longer so.
MakeVolume(w) ==
    /\ pc[w] = "make"
    /\ \/ /\ CreateSucceeds(Driver(w), Node(w), Path(w), job[w].uid)
          /\ Proceed(w, "publish")
          /\ UNCHANGED faults
       \/ /\ CreateRefused(Driver(w), Node(w), Path(w))
          /\ Proceed(w, "err")
          /\ UNCHANGED faults
       \/ /\ CreateFails(Driver(w), Node(w), Path(w), job[w].uid)
          /\ Proceed(w, "err")
          /\ Fault
    /\ UNCHANGED apiVars

\* The volume object is created in the API.
Publish(w) ==
    /\ pc[w] = "publish"
    /\ pv[job[w].uid] = NoPv
    /\ pv' = [pv EXCEPT ![job[w].uid] = NewPv(Node(w))]
    /\ \/ Proceed(w, "ok") /\ UNCHANGED faults
       \/ Proceed(w, "err") /\ Fault
    /\ UNCHANGED <<backendVars, claim, class, unborn>>

\* It exists already: fine if the cache knows it, as belonging to this claim.
PublishConflict(w) ==
    /\ pc[w] = "publish"
    /\ pv[job[w].uid] # NoPv
    /\ Proceed(w, IF cPv[Node(w)][job[w].uid] = NoPv THEN "err" ELSE "ok")
    /\ UNCHANGED <<backendVars, apiVars, faults>>

\* The object cannot be built (no mount path) or the API refuses it.
PublishFails(w) ==
    /\ pc[w] = "publish"
    /\ Proceed(w, "err")
    /\ Fault
    /\ UNCHANGED <<backendVars, apiVars>>

BeginDelete(w) ==
    /\ pc[w] = "start"
    /\ Key(w) \in Uids /\ ToDelete(Node(w), Key(w))
    /\ Enter(w, [uid |-> Key(w), snap |-> cPv[Node(w)][Key(w)].snap], "dexists")
    /\ UNCHANGED <<backendVars, apiVars, faults>>

\* The driver's Delete: its check for existence ...
CheckBeforeDelete(w) ==
    /\ pc[w] = "dexists"
    /\ \/ /\ Proceed(w, AfterDeleteCheck(job[w].snap, ExistsAnswer(Node(w), Path(w))))
          /\ UNCHANGED faults
       \/ /\ Proceed(w, AfterDeleteCheck(job[w].snap, ExistsFailedAnswer(Driver(w))))
          /\ Fault
    /\ UNCHANGED <<backendVars, apiVars>>

\* ... the rename or snapshot that preserves the data, after which only Btrfs
\* goes on to destroy; whatever makes it fail, the data is destroyed ...
PreserveVolume(w) ==
    /\ pc[w] = "preserve"
    /\ \/ /\ PreserveSucceeds(Driver(w), Node(w), Path(w))
          /\ Proceed(w, IF Driver(w) = "btrfs" THEN "destroy" ELSE "unpublish")
          /\ UNCHANGED faults
       \/ /\ PreserveFails(Driver(w), Node(w), Path(w))
          /\ Proceed(w, "destroy")
          /\ IF Present(Node(w), Path(w)) THEN Fault ELSE UNCHANGED faults
    /\ UNCHANGED apiVars

\* ... and the destroy command.
DestroyVolume(w) ==
    /\ pc[w] = "destroy"
    /\ \/ /\ DestroySucceeds(Driver(w), Node(w), Path(w))
          /\ Proceed(w, "unpublish")
          /\ UNCHANGED faults
       \/ /\ DestroyRefused(Driver(w), Node(w), Path(w))
          /\ Proceed(w, "err")
          /\ UNCHANGED faults
       \/ /\ DestroyFails(Driver(w), Node(w), Path(w))
          /\ Proceed(w, "err")
          /\ Fault
    /\ UNCHANGED apiVars

\* The volume object is deleted from the API; one that is gone already is fine.
Unpublish(w) ==
    /\ pc[w] = "unpublish"
    /\ pv' = [pv EXCEPT ![job[w].uid] = NoPv]
    /\ \/ Proceed(w, "ok") /\ UNCHANGED faults
       \/ Proceed(w, "err") /\ Fault
    /\ UNCHANGED <<backendVars, claim, class, unborn>>

UnpublishFails(w) ==
    /\ pc[w] = "unpublish"
    /\ Proceed(w, "err")
    /\ Fault
    /\ UNCHANGED <<backendVars, apiVars>>

Reconcile(w) ==
    /\ \/ IgnoreItem(w) \/ RejectClaim(w) \/ SecretFails(w) \/ BeginProvision(w)
       \/ CheckBeforeCreate(w) \/ MakeVolume(w)
       \/ Publish(w) \/ PublishConflict(w) \/ PublishFails(w)
       \/ BeginDelete(w) \/ CheckBeforeDelete(w)
       \/ PreserveVolume(w) \/ DestroyVolume(w)
       \/ Unpublish(w) \/ UnpublishFails(w)
    /\ UNCHANGED <<queueVars, cacheVars, restarts>>

-----------------------------------------------------------------------------
(* The queue of each node, and what is put into it.                        *)

TakeItem(w, i) ==
    /\ pc[w] = "idle"
    /\ i[1] = Node(w)
    /\ Get(w, i)
    /\ Goto(w, "start")

ReturnItem(w) ==
    /\ \/ pc[w] = "ok" /\ FinishOk(w)
       \/ pc[w] = "err" /\ (FinishRetry(w) \/ FinishGiveUp(w))
    /\ Goto(w, "idle")

Expires(i) == Expire(i) /\ UNCHANGED workVars

Queueing ==
    /\ \/ \E w \in Workers, i \in Items : TakeItem(w, i)
       \/ \E w \in Workers : ReturnItem(w)
       \/ \E i \in Items : Expires(i)
    /\ UNCHANGED <<backendVars, apiVars, cacheVars, budgetVars>>

\* The informers' caches catch up with the API: onPVCAdd and onPVAdd queue the
\* object (there is no handler for deletions) ...
DeliverClaim(n, nm) ==
    /\ cClaim[n][nm] # claim[nm]
    /\ cClaim' = [cClaim EXCEPT ![n][nm] = claim[nm]]
    /\ Add(IF claim[nm] = NoClaim THEN {} ELSE {<<n, nm>>})
    /\ UNCHANGED <<cPv, cClass>>

DeliverVolume(n, u) ==
    /\ cPv[n][u] # pv[u]
    /\ cPv' = [cPv EXCEPT ![n][u] = pv[u]]
    /\ Add(IF pv[u] = NoPv THEN {} ELSE {<<n, u>>})
    /\ UNCHANGED <<cClaim, cClass>>

ClaimsOf(n, c) ==
    {nm \in Names : cClaim[n][nm] # NoClaim /\ ClassOf[cClaim[n][nm].uid] = c}

\* Fault: StorageClass events queue nothing.
DeliverClassQuietly(n, c) ==
    /\ c \in class \ cClass[n]
    /\ cClass' = [cClass EXCEPT ![n] = @ \cup {c}]
    /\ UNCHANGED <<queueVars, cClaim, cPv>>

\* ... and onStorageClassAdd the cached claims of the class.
DeliverClass(n, c) ==
    /\ c \in class \ cClass[n]
    /\ cClass' = [cClass EXCEPT ![n] = @ \cup {c}]
    /\ Add({<<n, nm>> : nm \in ClaimsOf(n, c)})
    /\ UNCHANGED <<cClaim, cPv>>

\* A resync calls the handlers again for what the cache holds.
Cached(n, k) ==
    \/ k \in Names /\ cClaim[n][k] # NoClaim
    \/ k \in Uids /\ cPv[n][k] # NoPv

Resync(n, k) ==
    /\ Resyncs
    /\ Cached(n, k)
    /\ <<n, k>> \notin dirty
    /\ Add({<<n, k>>})
    /\ UNCHANGED cacheVars

Informing ==
    /\ \/ \E n \in Nodes, nm \in Names : DeliverClaim(n, nm)
       \/ \E n \in Nodes, u \in Uids : DeliverVolume(n, u)
       \/ \E n \in Nodes, c \in Classes : DeliverClass(n, c)
       \/ \E n \in Nodes, k \in Keys : Resync(n, k)
    /\ UNCHANGED <<backendVars, apiVars, workVars, budgetVars>>

\* The process of a node dies, whatever its workers were doing, and starts
\* again: caches filled from the API, everything in them queued (Run).
Restart(n) ==
    /\ restarts < MaxRestarts
    /\ restarts' = restarts + 1
    /\ cClaim' = [cClaim EXCEPT ![n] = claim]
    /\ cPv' = [cPv EXCEPT ![n] = pv]
    /\ cClass' = [cClass EXCEPT ![n] = class]
    /\ pc' = [w \in Workers |-> IF Node(w) = n THEN "idle" ELSE pc[w]]
    /\ job' = [w \in Workers |-> IF Node(w) = n THEN NoJob ELSE job[w]]
    /\ inProgress' = [inProgress EXCEPT ![n] = {}]
    /\ Reset({n} \X Keys, {w \in Workers : Node(w) = n},
             {<<n, nm>> : nm \in {x \in Names : claim[x] # NoClaim}} \cup
             {<<n, u>> : u \in {x \in Uids : pv[x] # NoPv}})
    /\ UNCHANGED <<backendVars, apiVars, faults>>

-----------------------------------------------------------------------------
(* Users and Kubernetes.                                                   *)

CreateClass(c) ==
    /\ class' = class \cup {c}
    /\ UNCHANGED <<claim, pv, unborn>>

CreateClaim(u) ==
    /\ u \in unborn /\ claim[NameOf[u]] = NoClaim
    /\ unborn' = unborn \ {u}
    /\ claim' = [claim EXCEPT ![NameOf[u]] =
                    [uid |-> u, phase |-> "Pending", sel |-> NoNode]]
    /\ UNCHANGED <<pv, class>>

DeleteClaim(u) ==
    /\ Alive(u)
    /\ claim' = [claim EXCEPT ![NameOf[u]] = NoClaim]
    /\ UNCHANGED <<pv, class, unborn>>

\* The scheduler places a pod of the claim and annotates the claim.
SelectNode(u, n) ==
    /\ Alive(u) /\ claim[NameOf[u]].phase = "Pending"
    /\ claim[NameOf[u]].sel = NoNode
    /\ ClassOf[u] \in class \cap Waits
    /\ claim' = [claim EXCEPT ![NameOf[u]].sel = n]
    /\ UNCHANGED <<pv, class, unborn>>

\* The binder binds a volume to the claim it was made for, and releases the
\* volume when that claim is gone.
Bind(u) ==
    /\ Alive(u) /\ claim[NameOf[u]].phase = "Pending"
    /\ pv[u].phase = "Available"
    /\ claim' = [claim EXCEPT ![NameOf[u]].phase = "Bound"]
    /\ pv' = [pv EXCEPT ![u].phase = "Bound"]
    /\ UNCHANGED <<class, unborn>>

Release(u) ==
    /\ ~Alive(u)
    /\ pv[u].phase \in {"Available", "Bound"}
    /\ pv' = [pv EXCEPT ![u].phase = "Released"]
    /\ UNCHANGED <<claim, class, unborn>>

\* An administrator asks for a snapshot before the volume is deleted.  Asked for
\* once it is Released, it would depend on the version the deletion reads: that
\* is left out.
AnnotateVolume(u) ==
    /\ Annotates
    /\ pv[u].phase \in {"Available", "Bound"}
    /\ pv' = [pv EXCEPT ![u].snap = TRUE]
    /\ UNCHANGED <<claim, class, unborn>>

Environment ==
    /\ \/ \E c \in Classes : CreateClass(c)
       \/ \E u \in Uids : CreateClaim(u) \/ DeleteClaim(u)
       \/ \E u \in Uids : Bind(u) \/ Release(u) \/ AnnotateVolume(u)
       \/ \E u \in Uids, n \in Nodes : SelectNode(u, n)
    /\ UNCHANGED <<queueVars, backendVars, cacheVars, workVars, budgetVars>>

Next ==
    \/ \E w \in Workers : Reconcile(w)
    \/ Queueing
    \/ Informing
    \/ \E n \in Nodes : Restart(n)
    \/ Environment

Spec == Init /\ [][Next]_vars

-----------------------------------------------------------------------------
(* Fairness.  Every call of a reconcile returns and every worker goes on;  *)
(* the queue is FIFO; timers fire; watches deliver; resyncs recur; the     *)
(* binder and the scheduler do their work.  Nothing obliges users,         *)
(* failures or restarts.                                                   *)

Rest == <<backendVars, apiVars, cacheVars, budgetVars>>
Outside == <<backendVars, apiVars, workVars, budgetVars>>
Inside == <<queueVars, backendVars, cacheVars, workVars, budgetVars>>

Fairness ==
    /\ \A w \in Workers :
          WF_vars(Reconcile(w) \/ (ReturnItem(w) /\ UNCHANGED Rest))
    /\ \A i \in Items :
          /\ SF_vars((\E w \in Workers : TakeItem(w, i)) /\ UNCHANGED Rest)
          /\ WF_vars(Expires(i) /\ UNCHANGED Rest)
    /\ \A n \in Nodes :
          /\ \A nm \in Names : WF_vars(DeliverClaim(n, nm) /\ UNCHANGED Outside)
          /\ \A u \in Uids : WF_vars(DeliverVolume(n, u) /\ UNCHANGED Outside)
          /\ \A c \in Classes : WF_vars(DeliverClass(n, c) /\ UNCHANGED Outside)
          /\ \A k \in Keys : WF_vars(Resync(n, k) /\ UNCHANGED Outside)
    /\ \A u \in Uids :
          /\ WF_vars(Bind(u) /\ UNCHANGED Inside)
          /\ WF_vars(Release(u) /\ UNCHANGED Inside)
          /\ WF_vars((\E n \in Nodes : SelectNode(u, n)) /\ UNCHANGED Inside)

FairSpec == Spec /\ Fairness

-----------------------------------------------------------------------------
(* Safety.                                                                 *)

\* The in-progress guard of reconcileClaim and reconcileVolumeDelete never
\* turns a reconcile away: it would return without error, and the event that
\* asked for it would be lost.
GuardNeverRefuses ==
    \A w \in Workers : pc[w] = "start" => Key(w) \notin inProgress[Node(w)]

\* The volume object of a claim that still exists points at storage that is
\* there: it is published only after the storage exists, and no retry, stale
\* reconcile or restart destroys the storage under it.
LiveClaimBacked ==
    \A u \in Uids : Alive(u) /\ pv[u] # NoPv => Present(pv[u].node, PathOf[u])

\* The data written for a claim stays where it is for as long as the claim
\* exists.
LiveDataKept ==
    [][\A u \in Uids, n \in Nodes :
          Alive(u) /\ vol[n][PathOf[u]] = u => vol'[n][PathOf[u]] = u]_vars

\* Nor is its volume object removed: a reconcile deletes only what its cache
\* calls Released, which no volume is while its claim exists.
LiveObjectKept ==
    [][\A u \in Uids : Alive(u) /\ pv[u] # NoPv => pv'[u] # NoPv]_vars

\* When the object of a released volume goes away, so has its storage: nothing
\* else would ever remove it.
RemovedVolumeIsGone ==
    [][\A u \in Uids :
          pv[u] # NoPv /\ pv'[u] = NoPv =>
              vol'[pv[u].node][PathOf[u]] \notin {u, Foreign}]_vars

\* A claim that does not ask to adopt is never given a volume that holds
\* somebody else's data.
NoSilentAdoption ==
    [][\A u \in Uids \ Adopt :
          pv[u] = NoPv /\ pv'[u] # NoPv =>
              vol[pv'[u].node][PathOf[u]] = u]_vars

\* No two nodes make a volume for the same claim.
SingleHome ==
    \A u \in Uids, n1, n2 \in Nodes :
        vol[n1][PathOf[u]] = u /\ vol[n2][PathOf[u]] = u => n1 = n2

\* What is waiting, backing off or with a worker.
InHand(i) == i \in dirty \cup delayed \cup Processing

\* A node's caches call for a claim to be provisioned, or for a volume to be
\* deleted, by a driver that nothing but a failure can stop.
DueClaim(n, u) ==
    LET v == cClaim[n][NameOf[u]] IN
    /\ v.uid = u /\ v.phase = "Pending" /\ Alive(u) /\ pv[u] = NoPv
    /\ ClassOf[u] \in cClass[n] /\ Targeted(n, v)
    /\ u \in Adopt \ Rejected /\ DriverOf[ClassOf[u]] # "btrfs"

DueVolume(n, u) ==
    /\ cPv[n][u].phase = "Released" /\ PvOnNode(n, u) /\ pv[u] # NoPv
    /\ ClassOf[u] \in Deletes /\ DriverOf[ClassOf[u]] = "dir"

\* While nothing has failed, no work is forgotten: events that come in any order
\* and while their object is being reconciled, the reconciles that do nothing,
\* and restarts leave whatever is due in the queue or with a worker.
ClaimsInHand ==
    faults = 0 => \A n \in Nodes, u \in Uids : DueClaim(n, u) => InHand(<<n, NameOf[u]>>)

VolumesInHand ==
    faults = 0 => \A n \in Nodes, u \in Uids : DueVolume(n, u) => InHand(<<n, u>>)

\* While nothing fails, the data of a volume that was annotated for it is
\* preserved before it is destroyed.
SnapshotHonoured ==
    [][\A u \in Uids :
          LET before == vol[pv[u].node][PathOf[u]] IN
          /\ faults' = 0
          /\ pv[u].phase = "Released" /\ pv[u].snap /\ before # NoVol
          /\ vol'[pv[u].node][PathOf[u]] # before
          => before \in kept']_vars

-----------------------------------------------------------------------------
(* Liveness.                                                               *)

Wanted(u) == Alive(u) /\ u \notin Rejected /\ ClassOf[u] \in class
Served(u) == ~Alive(u) \/ claim[NameOf[u]].phase = "Bound"

\* Its path holds data it is not to have.
Obstructed(u) ==
    u \notin Adopt /\ \E n \in Nodes : vol[n][PathOf[u]] \notin {u, NoVol}

\* Btrfs is to make it where a parent is missing, which it never makes itself.
Parentless(u) ==
    /\ DriverOf[ClassOf[u]] = "btrfs"
    /\ \E n \in Nodes : \E p \in Above(PathOf[u]) : ~Present(n, p)

\* Once a claim and its class exist, the claim gets bound, is deleted, finds
\* another's data at its path, or no place for a Btrfs subvolume.
EventuallyProvisioned ==
    \A u \in Uids : Wanted(u) ~> Served(u) \/ Obstructed(u) \/ Parentless(u)

\* A released volume of a class that deletes is eventually removed.
EventuallyRemoved ==
    \A u \in Uids :
        pv[u].phase = "Released" /\ ClassOf[u] \in Deletes ~> pv[u] = NoPv
=============================================================================
