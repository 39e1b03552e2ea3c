----------------------- MODULE VolumeRefinementProofs -----------------------
(***************************************************************************)
(* Deletions, with any number of workers on a node and any driver, where   *)
(* every class has one target (OneTarget).                                 *)
(*                                                                         *)
(* The README says of two workers that one can publish a volume, or make   *)
(* its storage, again behind the other that deletes it.  The theorems here *)
(* say that nothing else goes wrong.  As long as no provisioning of a      *)
(* claim is still under way while its volume is deleted (Apart):           *)
(*   - no deletion that is due is missing from the queue while nothing     *)
(*     fails (VolumesInHand);                                              *)
(*   - a volume whose data is to be preserved is preserved, unless         *)
(*     something fails (SnapshotHonoured);                                 *)
(*   - if besides no failed check for existence is taken for "gone"        *)
(*     (NeverBlind), nothing is left behind (RemovedVolumeIsGone) and the  *)
(*     promise of VolumeLifecycle is kept on every node (LifecycleKept).   *)
(* All but the first are about claims with a path of their own             *)
(* (DedicatedPaths).  Only a claim that is gone can be provisioned and     *)
(* deleted at once (OverlapOnlyOfTheGone); one worker on each node never   *)
(* does both (OneWorkerApart), and directories are never taken for gone    *)
(* (DirectoriesNeverBlind).                                                *)
(*                                                                         *)
(* The argument: whatever touches a claim's volume is tied to one node,    *)
(* where the queue lets one worker provision it and one delete it          *)
(* (KeyInvariant), so that without an overlap one worker does it all       *)
(* (Sole).  That node's cache can then only be wrong about a Released      *)
(* volume in that it is gone altogether (CacheInv).  Then storage is never *)
(* missing under an object unless its node knows that the volume is        *)
(* Released, and then no provisioning begins (Order).                      *)
(***************************************************************************)
EXTENDS VolumeRefinement, LiveDataProofs

\* A provisioning of a claim is still under way while a worker deletes its volume.
Overlap(u) ==
    \E w, x \in Workers :
        /\ pc[w] \in Provisioning /\ pc[x] \in Deleting
        /\ job[w].uid = u /\ job[x].uid = u

Apart == \A u \in Uids : ~Overlap(u)

\* Delete's check for existence says "gone" of a volume that is there: it failed,
\* and the ZFS or Btrfs driver takes that for an answer.
BlindCheck ==
    \E w \in Workers :
        /\ pc[w] = "dexists" /\ pc'[w] = "unpublish"
        /\ Present(NodeOf[w], PathOf[job[w].uid])

NeverBlind == [][~BlindCheck]_vars

\* No two workers work for the same claim, whatever they do for it.
Sole ==
    \A w, x \in Workers :
        pc[w] \in Busy /\ pc[x] \in Busy /\ job[w].uid = job[x].uid => w = x

\* Who provisions a claim holds its name, and who deletes it its volume object.
KeyOK ==
    \A w \in Workers :
        /\ pc[w] \in Provisioning => holding[w] = <<NodeOf[w], NameOf[job[w].uid]>>
        /\ pc[w] \in Deleting => holding[w] = <<NodeOf[w], job[w].uid>>

\* A claim's volume is tied to one node.
TiedOK == \A u \in Uids, m, n \in Nodes : Tied(u, m) /\ Tied(u, n) => m = n

\* The storage of a claim, and whether a node's cache calls its volume Released.
Has(n, u) == Present(n, PathOf[u])
SeenReleased(n, u) == cPv[n][u].phase = "Released" /\ PvOnNode(n, u)

\* What a worker read about a Released volume is true for as long as it is there.
CacheTrue ==
    \A n \in Nodes, u \in Uids : SeenReleased(n, u) => pv[u] \in {cPv[n][u], NoPv}

\* Nobody provisions a volume that its node still takes for Released.
NoRevival ==
    \A w \in Workers : pc[w] \in Provisioning =>
        ~(SeenReleased(NodeOf[w], job[w].uid) /\ pv[job[w].uid] = NoPv)

DeletesTrue ==
    \A w \in Workers : pc[w] \in Deleting =>
        \/ pv[job[w].uid] = NoPv
        \/ SeenReleased(NodeOf[w], job[w].uid) /\ pv[job[w].uid].snap = job[w].snap

CacheInv == CacheTrue /\ NoRevival /\ DeletesTrue

\* What is about to be destroyed although it is to be preserved has been preserved.
PreservedFirst ==
    \A w \in Workers : faults = 0 /\ pc[w] = "destroy" /\ job[w].snap =>
        vol[NodeOf[w]][PathOf[job[w].uid]] \in kept \cup {NoVol}

\* Storage and object come and go in order.
J1 == \A w \in Workers : pc[w] \in Deleting /\ pv[job[w].uid] = NoPv =>
          ~Has(NodeOf[w], job[w].uid)
J2 == \A w \in Workers : pc[w] = "unpublish" => ~Has(NodeOf[w], job[w].uid)
J3 == \A n \in Nodes, u \in Uids : SeenReleased(n, u) /\ pv[u] = NoPv => ~Has(n, u)
J4 == \A u \in Uids : pv[u] # NoPv /\ ~Has(pv[u].node, u) =>
          SeenReleased(pv[u].node, u)
J5 == \A w \in Workers : pc[w] \in Provisioning /\ pv[job[w].uid] # NoPv =>
          Has(NodeOf[w], job[w].uid)
J6 == \A w \in Workers : pc[w] = "publish" => Has(NodeOf[w], job[w].uid)

Order == J1 /\ J2 /\ J3 /\ J4 /\ J5 /\ J6

USE DEF Node, Key, Path, Driver

-----------------------------------------------------------------------------
(* One node for a claim, and one worker.                                   *)

LEMMA TiedInvariant == OneTarget => (Spec => []TiedOK)
<1>1. HomeInv => TiedOK
  BY DEF HomeInv, HomeOK, Marked, TiedOK
<1>2. QED
  BY <1>1, HomeInduction, PTL

LEMMA ReconcileKey ==
  ASSUME Inv, HomeInv, KeyOK, NEW w \in Workers, Reconcile(w)
  PROVE  KeyOK'
<1>0. /\ WorkOK /\ NamedOK /\ CacheTypeOK /\ NodeOf[w] \in Nodes
      /\ holding' = holding /\ WorkOK'
  BY NextInv, ProvisionerAssumption
     DEF Inv, TypeOK, HomeInv, Reconcile, queueVars, Next, ProvisionerAssumption
<1>1. ASSUME NEW x \in Workers, pc'[x] \in Busy, x # w
      PROVE  pc'[x] = pc[x] /\ job'[x] = job[x]
  BY <1>1, ReconcileFrame
<1>2. ASSUME pc'[w] \in Busy
      PROVE  /\ pc'[w] \in Provisioning => holding[w] = <<NodeOf[w], NameOf[job'[w].uid]>>
             /\ pc'[w] \in Deleting => holding[w] = <<NodeOf[w], job'[w].uid>>
  <2>1. CASE /\ pc[w] \in Busy /\ job'[w] = job[w]
             /\ pc'[w] \in Deleting => pc[w] \in Deleting
             /\ pc'[w] \in Provisioning => pc[w] \in Provisioning
    BY <2>1 DEF KeyOK
  <2>2. ASSUME pc[w] = "start"
        PROVE  holding[w] = <<NodeOf[w], holding[w][2]>>
    BY <1>0, <2>2, QueueAssumption, ProvisionerAssumption
       DEF WorkOK, ProvisionerAssumption
  <2>3. CASE /\ pc[w] = "start" /\ pc'[w] = "exists" /\ holding[w][2] \in Names
             /\ job'[w].uid = cClaim[NodeOf[w]][holding[w][2]].uid
    <3>1. job'[w].uid \in Uids
      BY <1>0, <1>2 DEF WorkOK
    <3>2. cClaim[NodeOf[w]][holding[w][2]] # NoClaim
      BY <2>3, <3>1, ProvisionerAssumption DEF NoClaim, ProvisionerAssumption
    <3>3. NameOf[job'[w].uid] = holding[w][2]
      BY <1>0, <2>3, <3>2 DEF NamedOK
    <3>4. QED
      BY <2>2, <2>3, <3>3 DEF Deleting
  <2>4. CASE /\ pc[w] = "start" /\ pc'[w] = "dexists" /\ job'[w].uid = holding[w][2]
    BY <2>2, <2>4 DEF Provisioning
  <2>5. QED
    BY <1>2, <2>1, <2>3, <2>4, ReconcileJob
<1>3. QED
  BY <1>0, <1>1, <1>2 DEF KeyOK, Busy

\* No other step makes a busy worker hold something else.
LEMMA QuietKey ==
  ASSUME Inv, KeyOK, Others
  PROVE  KeyOK'
<1>0. WorkTypeOK /\ WorkOK /\ QueueTypeOK /\ Quiet
  BY QuietSteps DEF Inv, TypeOK
<1>1. ASSUME NEW x \in Workers, pc'[x] \in Busy
      PROVE  holding'[x] = holding[x]
  <2>1. ASSUME NEW w \in Workers, NEW i \in Items, TakeItem(w, i)
        PROVE  holding'[x] = holding[x]
    <3>1. x # w
      BY <1>0, <1>1, <2>1 DEF TakeItem, Goto, WorkTypeOK, Busy, Provisioning, Deleting
    <3>2. QED
      BY <1>0, <2>1, <3>1 DEF TakeItem, Get, QueueTypeOK
  <2>2. ASSUME NEW w \in Workers, ReturnItem(w)
        PROVE  holding'[x] = holding[x]
    <3>1. x # w
      BY <1>0, <1>1, <2>2 DEF ReturnItem, Goto, WorkTypeOK, Busy, Provisioning, Deleting
    <3>2. QED
      BY <1>0, <2>2, <3>1
         DEF ReturnItem, FinishOk, FinishRetry, FinishGiveUp, QueueTypeOK
  <2>3. ASSUME NEW i \in Items, Expires(i)
        PROVE  holding'[x] = holding[x]
    BY <2>3 DEF Expires, Expire
  <2>4. CASE Informing
    <3>1. PICK T \in SUBSET Items : Add(T)
      BY <2>4, InformingAdds
    <3>2. QED
      BY <3>1 DEF Add
  <2>5. ASSUME NEW n \in Nodes, Restart(n)
        PROVE  holding'[x] = holding[x]
    <3>1. NodeOf[x] # n
      BY <1>1, <2>5 DEF Restart, Busy, Provisioning, Deleting
    <3>2. QED
      BY <2>5, <3>1 DEF Restart, Reset
  <2>6. CASE Environment \/ UNCHANGED vars
    BY <2>6 DEF Environment, vars, queueVars
  <2>7. QED
    BY <2>1, <2>2, <2>3, <2>4, <2>5, <2>6 DEF Others, Queueing
<1>2. QED
  BY <1>0, <1>1 DEF KeyOK, Busy, Quiet

LEMMA KeyInvariant == OneTarget => (Spec => []KeyOK)
<1> SUFFICES ASSUME OneTarget PROVE Spec => []KeyOK
  OBVIOUS
<1>1. Init => KeyOK
  BY DEF Init, KeyOK, Provisioning, Deleting
<1>2. Inv /\ HomeInv /\ KeyOK /\ [Next]_vars => KeyOK'
  BY ReconcileKey, QuietKey DEF Next, Others
<1>3. QED
  BY <1>1, <1>2, HomeInduction, PTL DEF Spec

\* Who works for a claim is on one node, and there the queue keeps all others from
\* its name and from its volume: only an overlap makes them two.
LEMMA SoleInvariant == OneTarget => (Spec /\ []Apart => []Sole)
<1> SUFFICES ASSUME OneTarget PROVE Spec /\ []Apart => []Sole
  OBVIOUS
<1>1. Inv /\ Exclusion /\ TiedOK /\ KeyOK /\ Apart => Sole
  <2> SUFFICES ASSUME Inv, Exclusion, TiedOK, KeyOK, Apart,
                      NEW w \in Workers, NEW x \in Workers,
                      pc[w] \in Busy, pc[x] \in Busy, job[w].uid = job[x].uid
               PROVE  w = x
    BY DEF Sole
  <2>1. job[w].uid \in Uids /\ NodeOf[w] \in Nodes /\ NodeOf[x] \in Nodes
    BY ProvisionerAssumption DEF Inv, WorkOK, ProvisionerAssumption
  <2>2. NodeOf[w] = NodeOf[x]
    BY <2>1 DEF TiedOK, Tied
  <2>3. \/ pc[w] \in Provisioning /\ pc[x] \in Provisioning
        \/ pc[w] \in Deleting /\ pc[x] \in Deleting
    BY <2>1 DEF Apart, Overlap, Busy
  <2>4. holding[w] = holding[x]
    BY <2>2, <2>3 DEF KeyOK
  <2>5. holding[w] \in Items
    BY DEF Inv, WorkOK, Busy, Provisioning, Deleting
  <2>6. QED
    BY <2>4, <2>5 DEF Exclusion
<1>2. QED
  BY <1>1, GuardInvariant, TiedInvariant, KeyInvariant, PTL

\* A claim whose volume is deleted while it is still being provisioned no longer
\* exists: processPV looks only at what is Released.
THEOREM OverlapOnlyOfTheGone == Spec => [](\A u \in Uids : Overlap(u) => ~Alive(u))
<1>1. LifeInv => \A u \in Uids : Overlap(u) => ~Alive(u)
  BY DEF LifeInv, DoomedOK, Overlap, Dead
<1>2. QED
  BY <1>1, LifeInvariant, PTL

\* With one worker on each node (--workers 1) no provisioning overlaps a deletion.
THEOREM OneWorkerApart ==
    OneTarget /\ (\A w, x \in Workers : NodeOf[w] = NodeOf[x] => w = x)
        => (Spec => []Apart)
<1> SUFFICES ASSUME OneTarget, \A w, x \in Workers : NodeOf[w] = NodeOf[x] => w = x
             PROVE  Spec => []Apart
  OBVIOUS
<1>1. TiedOK => Apart
  <2> SUFFICES ASSUME TiedOK, NEW u \in Uids,
                      NEW w \in Workers, NEW x \in Workers,
                      pc[w] \in Provisioning, pc[x] \in Deleting,
                      job[w].uid = u, job[x].uid = u
               PROVE  FALSE
    BY DEF Apart, Overlap
  <2>1. NodeOf[w] = NodeOf[x]
    BY ProvisionerAssumption DEF TiedOK, Tied, Busy, ProvisionerAssumption
  <2>2. w = x
    BY <2>1
  <2>3. QED
    BY <2>2 DEF Provisioning, Deleting
<1>2. QED
  BY <1>1, TiedInvariant, PTL

\* A step of one worker leaves what another works for alone.
LEMMA OtherWorker ==
  ASSUME Inv, Sole, NEW w \in Workers, Reconcile(w),
         NEW x \in Workers \ {w}, pc'[x] \in Busy
  PROVE  /\ pc'[x] = pc[x] /\ job'[x] = job[x] /\ job[x].uid \in Uids
         /\ pv'[job[x].uid] = pv[job[x].uid]
<1>1. pc'[x] = pc[x] /\ job'[x] = job[x] /\ job[x].uid \in Uids
  BY ReconcileFrame DEF Inv, WorkOK
<1>2. ASSUME pv'[job[x].uid] # pv[job[x].uid]
      PROVE  FALSE
  <2>1. job[w].uid = job[x].uid /\ pc[w] \in Busy
    BY <1>1, <1>2, ObjectEffect DEF Busy, Provisioning, Deleting
  <2>2. QED
    BY <1>1, <2>1 DEF Sole
<1>3. QED
  BY <1>1, <1>2

\* How a worker came to where it is in its reconcile.
LEMMA OwnStep ==
  ASSUME Inv, NEW w \in Workers, Reconcile(w), pc'[w] \in Busy
  PROVE  /\ job'[w].uid \in Uids /\ pv'[job'[w].uid] = pv[job'[w].uid]
         /\ \/ /\ pc[w] \in Busy /\ job'[w] = job[w]
               /\ pc'[w] \in Deleting => pc[w] \in Deleting
               /\ pc'[w] \in Provisioning => pc[w] \in Provisioning
            \/ /\ pc[w] = "start" /\ pc'[w] = "exists"
               /\ cPv[NodeOf[w]][job'[w].uid] = NoPv
            \/ /\ pc[w] = "start" /\ pc'[w] = "dexists"
               /\ SeenReleased(NodeOf[w], job'[w].uid)
               /\ job'[w].snap = cPv[NodeOf[w]][job'[w].uid].snap
<1>1. job'[w].uid \in Uids
  BY NextInv DEF Next, Inv, WorkOK
<1>2. pv'[job'[w].uid] = pv[job'[w].uid]
  BY <1>1, ObjectEffect DEF Returned, Busy, Provisioning, Deleting
<1>3. QED
  BY <1>1, <1>2, ReconcileJob DEF SeenReleased, PvOnNode

-----------------------------------------------------------------------------
(* What a node's cache says of a Released volume.                          *)

LEMMA ReconcileCache ==
  ASSUME Inv, TiedOK, Sole, CacheInv, NEW w \in Workers, Reconcile(w)
  PROVE  CacheInv'
<1> USE DEF SeenReleased, PvOnNode
<1>0. cPv' = cPv /\ NodeOf[w] \in Nodes
  BY ReconcileFrame, ProvisionerAssumption DEF ProvisionerAssumption
<1>1. CacheTrue'
  <2> SUFFICES ASSUME NEW n \in Nodes, NEW u \in Uids, SeenReleased(n, u), pv'[u] # pv[u]
               PROVE  pv'[u] = NoPv
    BY <1>0 DEF CacheInv, CacheTrue
  <2>1. CASE pc[w] = "publish" /\ u = job[w].uid /\ pv[u] = NoPv
    <3>1. Tied(u, n) /\ Tied(u, NodeOf[w])
      BY <2>1 DEF Tied, Busy, Provisioning
    <3>2. n = NodeOf[w]
      BY <1>0, <3>1 DEF TiedOK
    <3>3. QED
      BY <2>1, <3>2 DEF CacheInv, NoRevival, Provisioning
  <2>2. QED
    BY <2>1, ObjectEffect
<1>2. ASSUME NEW x \in Workers, pc'[x] \in Provisioning,
             SeenReleased(NodeOf[x], job'[x].uid), pv'[job'[x].uid] = NoPv
      PROVE  FALSE
  <2>1. CASE x = w
    BY <1>2, <2>1, OwnStep DEF CacheInv, NoRevival, Busy, Provisioning, Deleting, NoPv
  <2>2. CASE x # w
    BY <1>2, <2>2, OtherWorker DEF CacheInv, NoRevival, Busy
  <2>3. QED
    BY <2>1, <2>2
<1>3. ASSUME NEW x \in Workers, pc'[x] \in Deleting, pv'[job'[x].uid] # NoPv
      PROVE  /\ SeenReleased(NodeOf[x], job'[x].uid)
             /\ pv'[job'[x].uid].snap = job'[x].snap
  <2>1. CASE x = w
    BY <1>0, <1>3, <2>1, OwnStep
       DEF CacheInv, CacheTrue, DeletesTrue, Busy, Provisioning, Deleting
  <2>2. CASE x # w
    BY <1>3, <2>2, OtherWorker DEF CacheInv, DeletesTrue, Busy
  <2>3. QED
    BY <2>1, <2>2
<1>4. NoRevival' /\ DeletesTrue'
  BY <1>0, <1>2, <1>3 DEF NoRevival, DeletesTrue
<1>5. QED
  BY <1>1, <1>4 DEF CacheInv

LEMMA QuietCache ==
  ASSUME Inv, CacheInv, Quiet
  PROVE  CacheInv'
<1> USE DEF SeenReleased, PvOnNode, Quiet
<1>1. CacheTrue'
  BY DEF CacheInv, CacheTrue
<1>2. ASSUME NEW x \in Workers, pc'[x] \in Busy
      PROVE  /\ pc[x] = pc'[x] /\ job'[x] = job[x]
             /\ job[x].uid \in Uids /\ NodeOf[x] \in Nodes
  BY <1>2, ProvisionerAssumption DEF Inv, WorkOK, ProvisionerAssumption
<1>3. ASSUME NEW x \in Workers, pc'[x] \in Provisioning,
             SeenReleased(NodeOf[x], job[x].uid)', pv'[job[x].uid] = NoPv
      PROVE  FALSE
  <2>1. pc[x] \in Provisioning /\ job'[x] = job[x]
        /\ job[x].uid \in Uids /\ NodeOf[x] \in Nodes
    BY <1>2, <1>3 DEF Busy
  <2>2. pv[job[x].uid] = NoPv
    BY <1>3, <2>1
  <2>3. SeenReleased(NodeOf[x], job[x].uid)
    BY <1>3, <2>1, <2>2 DEF NoPv
  <2>4. QED
    BY <2>1, <2>2, <2>3 DEF CacheInv, NoRevival
<1>4. ASSUME NEW x \in Workers, pc'[x] \in Deleting, pv'[job[x].uid] # NoPv
      PROVE  /\ SeenReleased(NodeOf[x], job[x].uid)'
             /\ pv'[job[x].uid].snap = job[x].snap
  <2>1. pc[x] \in Deleting /\ job'[x] = job[x]
        /\ job[x].uid \in Uids /\ NodeOf[x] \in Nodes
    BY <1>2, <1>4 DEF Busy
  <2>2. pv[job[x].uid] # NoPv
    BY <1>4, <2>1
  <2>3. SeenReleased(NodeOf[x], job[x].uid) /\ pv[job[x].uid].snap = job[x].snap
    BY <2>1, <2>2 DEF CacheInv, DeletesTrue
  <2>4. pv[job[x].uid] = cPv[NodeOf[x]][job[x].uid]
    BY <2>1, <2>2, <2>3 DEF CacheInv, CacheTrue
  <2>5. pv'[job[x].uid] = pv[job[x].uid]
    BY <2>1, <2>3, <2>4
  <2>6. QED
    BY <2>1, <2>3, <2>4, <2>5
<1>5. NoRevival' /\ DeletesTrue'
  BY <1>2, <1>3, <1>4 DEF NoRevival, DeletesTrue, Busy
<1>6. QED
  BY <1>1, <1>5 DEF CacheInv

LEMMA CacheInvariant == OneTarget => (Spec /\ []Apart => []CacheInv)
<1> SUFFICES ASSUME OneTarget PROVE Spec /\ []Apart => []CacheInv
  OBVIOUS
<1>1. Init => CacheInv
  BY DEF Init, CacheInv, CacheTrue, NoRevival, DeletesTrue, SeenReleased, NoPv,
     Deleting, Provisioning
<1>2. Inv /\ TiedOK /\ Sole /\ CacheInv /\ [Next]_vars => CacheInv'
  BY ReconcileCache, QuietSteps, QuietCache DEF Next, Others
<1>3. QED
  BY <1>1, <1>2, LifeInvariant, TiedInvariant, SoleInvariant, PTL DEF Spec

-----------------------------------------------------------------------------
(* No deletion is forgotten.                                               *)

VolumesHeld ==
    faults = 0 => \A n \in Nodes, u \in Uids :
        DueVolume(n, u) => Held(<<n, u>>, Deleting, u)

\* A reconcile that was told to delete a due volume goes on until it has.
LEMMA DeletionGoesOn ==
  ASSUME Inv, Exclusion, GuardOK, NEW w \in Workers, Reconcile(w), faults' = 0,
         NEW n \in Nodes, NEW u \in Uids, DueVolume(n, u), pv'[u] # NoPv,
         holding[w] = <<n, u>>,
         pc[w] = "start" \/ (pc[w] \in Deleting /\ job[w].uid = u)
  PROVE  pc'[w] \in Deleting /\ job'[w].uid = u
<1> USE DEF Deleting
<1>0. /\ WorkTypeOK /\ WorkOK /\ BudgetTypeOK /\ ApiTypeOK
      /\ u \notin Names /\ NodeOf[w] = n /\ holding[w][2] = u
  BY ProvisionerAssumption DEF ProvisionerAssumption, Inv, TypeOK, WorkOK
<1>1. ~Fault
  BY <1>0 DEF Fault, BudgetTypeOK
<1>2. ASSUME NEW s \in Deleting, Proceed(w, s)
      PROVE  pc'[w] = s /\ job'[w] = job[w]
  BY <1>0, <1>2 DEF Proceed, Goto, Returned, WorkTypeOK
<1>3. CASE pc[w] = "start"
  <2>1. u \notin inProgress[n]
    BY <1>0, <1>3, GuardFree DEF GuardNeverRefuses
  <2>2. ToDelete(n, u)
    BY <2>1 DEF DueVolume, ToDelete
  <2>3. BeginDelete(w)
    BY <1>0, <1>3, <2>2 DEF Reconcile, IgnoreItem, RejectClaim, SecretFails,
       BeginProvision, CheckBeforeCreate, MakeVolume, Publish, PublishConflict,
       PublishFails, CheckBeforeDelete, PreserveVolume, DestroyVolume, Unpublish,
       UnpublishFails
  <2>4. Enter(w, [uid |-> u, snap |-> cPv[n][u].snap], "dexists")
    BY <1>0, <2>3 DEF BeginDelete
  <2>5. QED
    BY <1>0, <2>4 DEF Enter, WorkTypeOK
<1>4. CASE pc[w] = "dexists"
  <2>1. CheckBeforeDelete(w)
    BY <1>4 DEF Reconcile, IgnoreItem, RejectClaim, SecretFails, BeginProvision,
       CheckBeforeCreate, MakeVolume, Publish, PublishConflict, PublishFails,
       BeginDelete, PreserveVolume, DestroyVolume, Unpublish, UnpublishFails
  <2> DEFINE s == AfterDeleteCheck(job[w].snap, ExistsAnswer(NodeOf[w], PathOf[u]))
  <2>2. Proceed(w, s)
    BY <1>1, <1>4, <2>1 DEF CheckBeforeDelete
  <2>3. s \in Deleting
    BY DEF AfterDeleteCheck, ExistsAnswer
  <2>4. QED
    BY <1>2, <1>4, <2>2, <2>3
<1>5. CASE pc[w] = "preserve"
  <2>1. PreserveVolume(w)
    BY <1>5 DEF Reconcile, IgnoreItem, RejectClaim, SecretFails, BeginProvision,
       CheckBeforeCreate, MakeVolume, Publish, PublishConflict, PublishFails,
       BeginDelete, CheckBeforeDelete, DestroyVolume, Unpublish, UnpublishFails
  <2>2. Proceed(w, "destroy") \/ Proceed(w, "unpublish")
    BY <2>1 DEF PreserveVolume
  <2>3. QED
    BY <1>2, <1>5, <2>2
<1>6. CASE pc[w] = "destroy"
  <2>1. DestroyVolume(w)
    BY <1>6 DEF Reconcile, IgnoreItem, RejectClaim, SecretFails, BeginProvision,
       CheckBeforeCreate, MakeVolume, Publish, PublishConflict, PublishFails,
       BeginDelete, CheckBeforeDelete, PreserveVolume, Unpublish, UnpublishFails
  <2>2. Proceed(w, "unpublish")
    BY <1>1, <1>6, <2>1 DEF DestroyVolume, DestroyRefused, Holds, DueVolume
  <2>3. QED
    BY <1>2, <1>6, <2>2
<1>7. pc[w] # "unpublish"
  <2> SUFFICES ASSUME pc[w] = "unpublish" PROVE FALSE
    OBVIOUS
  <2>1. Unpublish(w)
    BY <1>1 DEF Reconcile, IgnoreItem, RejectClaim, SecretFails, BeginProvision,
       CheckBeforeCreate, MakeVolume, Publish, PublishConflict, PublishFails,
       BeginDelete, CheckBeforeDelete, PreserveVolume, DestroyVolume, UnpublishFails
  <2>2. QED
    BY <1>0, <2>1 DEF Unpublish, ApiTypeOK
<1>8. QED
  BY <1>3, <1>4, <1>5, <1>6, <1>7

LEMMA ReconcileVolumesHeld ==
  ASSUME Inv, Exclusion, GuardOK, TiedOK, CacheInv, VolumesHeld,
         NEW w \in Workers, Reconcile(w)
  PROVE  VolumesHeld'
<1> SUFFICES ASSUME faults' = 0, NEW n \in Nodes, NEW u \in Uids, DueVolume(n, u)'
             PROVE  Held(<<n, u>>, Deleting, u)'
  BY DEF VolumesHeld
<1>0. /\ UNCHANGED <<queueVars, cPv>> /\ pv'[u] # NoPv /\ SeenReleased(n, u)
      /\ \A x \in Workers \ {w} : pc'[x] = pc[x] /\ job'[x] = job[x]
  BY ReconcileFrame DEF Reconcile, DueVolume, SeenReleased, PvOnNode
<1>1. faults = 0
  BY DEF Reconcile, IgnoreItem, RejectClaim, SecretFails, BeginProvision,
     CheckBeforeCreate, MakeVolume, Publish, PublishConflict, PublishFails,
     BeginDelete, CheckBeforeDelete, PreserveVolume, DestroyVolume, Unpublish,
     UnpublishFails, Fault, Inv, TypeOK, BudgetTypeOK
<1>2. pv[u] # NoPv
  <2> SUFFICES ASSUME pv[u] = NoPv PROVE FALSE
    OBVIOUS
  <2>1. pc[w] = "publish" /\ u = job[w].uid
    BY <1>0, ObjectEffect
  <2>2. Tied(u, n) /\ Tied(u, NodeOf[w]) /\ NodeOf[w] \in Nodes
    BY <1>0, <2>1, ProvisionerAssumption
       DEF Tied, Busy, Provisioning, SeenReleased, PvOnNode, ProvisionerAssumption
  <2>3. n = NodeOf[w]
    BY <2>2 DEF TiedOK
  <2>4. QED
    BY <1>0, <2>1, <2>3 DEF CacheInv, NoRevival, Provisioning
<1>3. DueVolume(n, u)
  BY <1>0, <1>2 DEF DueVolume, PvOnNode
<1>4. Held(<<n, u>>, Deleting, u)
  BY <1>1, <1>3 DEF VolumesHeld
<1>5. CASE /\ holding[w] = <<n, u>>
           /\ pc[w] = "start" \/ (pc[w] \in Deleting /\ job[w].uid = u)
  <2>1. pc'[w] \in Deleting /\ job'[w].uid = u
    BY <1>0, <1>3, <1>5, DeletionGoesOn
  <2>2. QED
    BY <1>0, <1>5, <2>1 DEF Held, queueVars
<1>6. CASE ~(/\ holding[w] = <<n, u>>
             /\ pc[w] = "start" \/ (pc[w] \in Deleting /\ job[w].uid = u))
  BY <1>0, <1>4, <1>6 DEF Held, queueVars
<1>7. QED
  BY <1>5, <1>6

LEMMA QuietVolumesHeld ==
  ASSUME Inv, VolumesHeld, Others
  PROVE  VolumesHeld'
<1> SUFFICES ASSUME faults' = 0, NEW n \in Nodes, NEW u \in Uids, DueVolume(n, u)'
             PROVE  Held(<<n, u>>, Deleting, u)'
  BY DEF VolumesHeld
<1>0. Quiet /\ <<n, u>> \in Items /\ cPv'[n][u] # NoPv /\ pv'[u] # NoPv
  BY QuietSteps, ProvisionerAssumption DEF ProvisionerAssumption, Keys, DueVolume, NoPv
<1>1. CASE cPv'[n][u] # cPv[n][u] \/ Restart(n)
  BY <1>0, <1>1, NewsQueued DEF Held
<1>2. CASE cPv'[n][u] = cPv[n][u] /\ ~Restart(n)
  <2>1. DueVolume(n, u) /\ faults = 0
    BY <1>0, <1>2 DEF DueVolume, PvOnNode, Quiet
  <2>2. QED
    BY <1>0, <1>2, <2>1, HeldKept DEF VolumesHeld
<1>3. QED
  BY <1>1, <1>2

\* While nothing has failed, no released volume is forgotten either: whatever
\* restarts, and whatever is delivered late or while the volume is reconciled, a
\* directory that a node has to delete is in its queue or with one of its workers
\* (onPVAdd, processPV, processNextWorkItem), unless a worker publishes the volume
\* again behind its deletion.
THEOREM VolumesInHandHolds == OneTarget => (Spec /\ []Apart => []VolumesInHand)
<1> SUFFICES ASSUME OneTarget PROVE Spec /\ []Apart => []VolumesInHand
  OBVIOUS
<1>1. Init => VolumesHeld
  BY ProvisionerAssumption DEF ProvisionerAssumption, Init, VolumesHeld, DueVolume, NoPv
<1>2. Inv /\ Exclusion /\ GuardOK /\ TiedOK /\ CacheInv /\ VolumesHeld /\ [Next]_vars
         => VolumesHeld'
  BY ReconcileVolumesHeld, QuietVolumesHeld DEF Next, Others
<1>3. VolumesHeld => VolumesInHand
  <2> SUFFICES ASSUME VolumesHeld, faults = 0, NEW n \in Nodes, NEW u \in Uids,
                      DueVolume(n, u)
               PROVE  InHand(<<n, u>>)
    BY DEF VolumesInHand
  <2>1. <<n, u>> \in Items
    BY ProvisionerAssumption DEF ProvisionerAssumption, Keys
  <2>2. QED
    BY <2>1 DEF VolumesHeld, Held, InHand, Processing
<1>4. QED
  BY <1>1, <1>2, <1>3, GuardInvariant, TiedInvariant, CacheInvariant, PTL DEF Spec

-----------------------------------------------------------------------------
(* Preserved before it is destroyed.                                       *)

\* A worker's step changes the storage of its own node only, and gives up nothing
\* that was preserved and no failure that was counted.
LEMMA LocalStep ==
  ASSUME Inv, NEW w \in Workers, Reconcile(w)
  PROVE  /\ \A n \in Nodes \ {NodeOf[w]}, p \in Paths : vol'[n][p] = vol[n][p]
         /\ kept \subseteq kept'
         /\ faults' = 0 => faults = 0 /\ ~Fault
<1> DEFINE u == job[w].uid
           q == PathOf[u]
           kind == DriverOf[ClassOf[u]]
           Local == \A n \in Nodes \ {NodeOf[w]}, p \in Paths : vol'[n][p] = vol[n][p]
<1>0. BackendTypeOK /\ WorkOK /\ faults \in Nat /\ NodeOf[w] \in Nodes
  BY ProvisionerAssumption DEF Inv, TypeOK, BudgetTypeOK, ProvisionerAssumption
<1>1. faults' = 0 => faults = 0 /\ ~Fault
  <2>1. Fault \/ UNCHANGED faults
    BY DEF Reconcile, IgnoreItem, RejectClaim, SecretFails, BeginProvision,
       CheckBeforeCreate, MakeVolume, Publish, PublishConflict, PublishFails,
       BeginDelete, CheckBeforeDelete, PreserveVolume, DestroyVolume, Unpublish,
       UnpublishFails
  <2>2. QED
    BY <1>0, <2>1 DEF Fault
<1>2. CASE MakeVolume(w)
  <2>1. u \in Uids /\ q \in Paths
    BY <1>0, <1>2, ProvisionerAssumption
       DEF MakeVolume, WorkOK, Busy, Provisioning, ProvisionerAssumption
  <2>2. CreateStep(kind, NodeOf[w], q, u)
    BY <1>2 DEF MakeVolume, CreateStep
  <2>3. kept' = kept /\ (vol' = vol \/ vol' \in {Filled(NodeOf[w], q, NoVol), Filled(NodeOf[w], q, u)})
    BY <2>2, CreateReach
  <2>4. CASE vol' = vol
    BY <1>1, <2>3, <2>4
  <2>5. CASE vol' # vol
    <3>1. PICK x \in Owners \cup {NoVol} : vol' = Filled(NodeOf[w], q, x)
      BY <2>1, <2>3, <2>5 DEF Owners
    <3>2. Local
      BY <1>0, <2>1, <3>1, FilledReach
    <3>3. QED
      BY <1>1, <2>3, <3>2
  <2>6. QED
    BY <2>4, <2>5
<1>3. CASE PreserveVolume(w) \/ DestroyVolume(w)
  <2>1. u \in Uids /\ q \in Paths
    BY <1>0, <1>3, ProvisionerAssumption
       DEF PreserveVolume, DestroyVolume, WorkOK, Busy, Deleting, ProvisionerAssumption
  <2>2. DeleteStep(kind, NodeOf[w], q)
    BY <1>3 DEF PreserveVolume, DestroyVolume, DeleteStep
  <2>3. Local
    BY <1>0, <2>1, <2>2, DeleteReach, EmptiedReach
  <2>4. kept \subseteq kept'
    BY <2>2 DEF DeleteStep, PreserveSucceeds, PreserveFails, DestroySucceeds,
       DestroyRefused, DestroyFails, backendVars
  <2>5. QED
    BY <1>1, <2>3, <2>4
<1>4. CASE \/ IgnoreItem(w) \/ RejectClaim(w) \/ SecretFails(w) \/ BeginProvision(w)
           \/ CheckBeforeCreate(w) \/ Publish(w) \/ PublishConflict(w)
           \/ PublishFails(w) \/ BeginDelete(w) \/ CheckBeforeDelete(w)
           \/ Unpublish(w) \/ UnpublishFails(w)
  BY <1>1, <1>4 DEF IgnoreItem, RejectClaim, SecretFails, BeginProvision,
     CheckBeforeCreate, Publish, PublishConflict, PublishFails, BeginDelete,
     CheckBeforeDelete, Unpublish, UnpublishFails, backendVars
<1>5. QED
  BY <1>2, <1>3, <1>4 DEF Reconcile

\* What a worker's step does to the storage of a claim: nothing, or it makes or
\* takes away, on its own node, that of the claim it works for.
LEMMA StorageEffect ==
  ASSUME DedicatedPaths, Inv, NEW w \in Workers, Reconcile(w),
         NEW u \in Uids, NEW m \in Nodes, Has(m, u)' # Has(m, u)
  PROVE  /\ m = NodeOf[w] /\ u = job[w].uid
         /\ \/ pc[w] = "make" /\ ~Has(m, u) /\ Has(m, u)'
            \/ pc[w] \in {"preserve", "destroy"} /\ Has(m, u) /\ ~Has(m, u)'
<1> DEFINE n == NodeOf[w]
           v == job[w].uid
           q == PathOf[v]
           Before == vol[n][PathOf[u]] # NoVol
           After == vol'[n][PathOf[u]] # NoVol
<1> USE ProvisionerAssumption DEF ProvisionerAssumption, Has, Present
<1>0. BackendTypeOK /\ WorkOK /\ n \in Nodes /\ PathOf[u] \in Paths
  BY DEF Inv, TypeOK
<1>1. m = n
  BY <1>0, LocalStep
<1>2. Before # After
  BY <1>1
<1> SUFFICES /\ u = v
             /\ \/ pc[w] = "make" /\ ~Before /\ After
                \/ pc[w] \in {"preserve", "destroy"} /\ Before /\ ~After
  BY <1>1
<1>3. CASE MakeVolume(w)
  <2>1. v \in Uids /\ q \in Paths /\ pc[w] = "make"
    BY <1>0, <1>3 DEF MakeVolume, WorkOK, Busy, Provisioning
  <2>2. CreateStep(DriverOf[ClassOf[v]], n, q, v)
    BY <1>3 DEF MakeVolume, CreateStep
  <2>3. vol[n][q] = NoVol /\ vol' \in {Filled(n, q, NoVol), Filled(n, q, v)}
    BY <1>2, <2>2, CreateReach DEF Present
  <2>4. PICK x \in Owners \cup {NoVol} : vol' = Filled(n, q, x)
    BY <2>1, <2>3 DEF Owners
  <2>5. vol'[n][PathOf[u]] =
            IF PathOf[u] = q THEN x
            ELSE IF PathOf[u] \in Above(q) /\ vol[n][PathOf[u]] = NoVol THEN Foreign
            ELSE vol[n][PathOf[u]]
    BY <1>0, <2>1, <2>4, FilledReach
  <2>6. u # v => PathOf[u] # q /\ PathOf[u] \notin Above(q)
    BY <1>0, <2>1 DEF DedicatedPaths, Above
  <2>7. u = v
    BY <1>2, <2>5, <2>6
  <2>8. QED
    BY <1>2, <2>1, <2>3, <2>7
<1>4. CASE PreserveVolume(w) \/ DestroyVolume(w)
  <2>1. v \in Uids /\ q \in Paths /\ pc[w] \in {"preserve", "destroy"}
    BY <1>0, <1>4 DEF PreserveVolume, DestroyVolume, WorkOK, Busy, Deleting
  <2>2. DeleteStep(DriverOf[ClassOf[v]], n, q)
    BY <1>4 DEF PreserveVolume, DestroyVolume, DeleteStep
  <2>3. PICK S \in SUBSET Within(q) : vol' = Emptied(n, S)
    BY <1>2, <2>2, DeleteReach
  <2>4. vol'[n][PathOf[u]] = IF PathOf[u] \in S THEN NoVol ELSE vol[n][PathOf[u]]
    BY <1>0, <2>3, EmptiedReach
  <2>5. PathOf[u] \in S /\ Before /\ ~After
    BY <1>2, <2>4
  <2>6. u = v
    BY <1>0, <2>1, <2>5 DEF DedicatedPaths, Within
  <2>7. QED
    BY <2>1, <2>5, <2>6
<1>5. CASE \/ IgnoreItem(w) \/ RejectClaim(w) \/ SecretFails(w) \/ BeginProvision(w)
           \/ CheckBeforeCreate(w) \/ Publish(w) \/ PublishConflict(w)
           \/ PublishFails(w) \/ BeginDelete(w) \/ CheckBeforeDelete(w)
           \/ Unpublish(w) \/ UnpublishFails(w)
  <2>1. vol' = vol
    BY <1>5 DEF IgnoreItem, RejectClaim, SecretFails, BeginProvision,
       CheckBeforeCreate, Publish, PublishConflict, PublishFails, BeginDelete,
       CheckBeforeDelete, Unpublish, UnpublishFails, backendVars
  <2>2. QED
    BY <1>2, <2>1
<1>6. QED
  BY <1>3, <1>4, <1>5 DEF Reconcile

\* A worker that is to preserve goes on to destroy only what has been preserved,
\* or after a failure.
LEMMA DestroysPreserved ==
  ASSUME Inv, NEW w \in Workers, Reconcile(w), pc'[w] = "destroy",
         faults' = 0, job'[w].snap
  PROVE  /\ job'[w] = job[w]
         /\ vol'[NodeOf[w]][PathOf[job[w].uid]] \in kept' \cup {NoVol}
<1> DEFINE n == NodeOf[w]
           q == PathOf[job[w].uid]
           kind == DriverOf[ClassOf[job[w].uid]]
<1>0. WorkTypeOK /\ ~Fault
  BY LocalStep DEF Inv, TypeOK
<1>1. ASSUME NEW s, Proceed(w, s)
      PROVE  s = "destroy" /\ job'[w] = job[w]
  BY <1>0, <1>1 DEF Proceed, Goto, Returned, WorkTypeOK
<1>2. CASE CheckBeforeDelete(w)
  <2>1. PICK a : Proceed(w, AfterDeleteCheck(job[w].snap, a))
    BY <1>2 DEF CheckBeforeDelete
  <2>2. AfterDeleteCheck(job[w].snap, a) = "destroy" /\ job[w].snap
    BY <1>1, <2>1
  <2>3. QED
    BY <2>2 DEF AfterDeleteCheck
<1>3. CASE PreserveVolume(w)
  <2>1. job'[w] = job[w]
    BY <1>1, <1>3 DEF PreserveVolume
  <2>2. CASE PreserveSucceeds(kind, n, q) /\ kind = "btrfs"
    BY <2>1, <2>2 DEF PreserveSucceeds
  <2>3. CASE PreserveFails(kind, n, q) /\ ~Present(n, q)
    BY <2>1, <2>3 DEF PreserveFails, PreserveSucceeds, Present, backendVars
  <2>4. QED
    BY <1>0, <1>1, <1>3, <2>2, <2>3 DEF PreserveVolume
<1>4. CASE IgnoreItem(w) \/ RejectClaim(w) \/ SecretFails(w) \/ BeginProvision(w) \/ BeginDelete(w)
  BY <1>0, <1>4 DEF IgnoreItem, RejectClaim, SecretFails, BeginProvision,
     BeginDelete, Goto, Enter, WorkTypeOK
<1>5. CASE \/ CheckBeforeCreate(w) \/ MakeVolume(w) \/ Publish(w) \/ PublishConflict(w)
           \/ PublishFails(w) \/ DestroyVolume(w) \/ Unpublish(w) \/ UnpublishFails(w)
  <2>1. PICK s : Proceed(w, s) /\ s # "destroy"
    BY <1>5, CheckTypes DEF CheckBeforeCreate, MakeVolume, Publish, PublishConflict,
       PublishFails, DestroyVolume, Unpublish, UnpublishFails
  <2>2. QED
    BY <1>1, <2>1
<1>6. QED
  BY <1>2, <1>3, <1>4, <1>5 DEF Reconcile

LEMMA PreservedInvariant ==
    OneTarget /\ DedicatedPaths => (Spec /\ []Apart => []PreservedFirst)
<1> SUFFICES ASSUME OneTarget, DedicatedPaths PROVE Spec /\ []Apart => []PreservedFirst
  OBVIOUS
<1>1. Init => PreservedFirst
  BY DEF Init, PreservedFirst
<1>2. Inv /\ Sole /\ PreservedFirst /\ [Next]_vars => PreservedFirst'
  <2> SUFFICES ASSUME Inv, Sole, PreservedFirst, [Next]_vars, NEW x \in Workers,
                      faults' = 0, pc'[x] = "destroy", job'[x].snap
               PROVE  vol'[NodeOf[x]][PathOf[job'[x].uid]] \in kept' \cup {NoVol}
    BY DEF PreservedFirst
  <2>1. ASSUME NEW w \in Workers, Reconcile(w)
        PROVE  vol'[NodeOf[x]][PathOf[job'[x].uid]] \in kept' \cup {NoVol}
    <3>1. CASE x = w
      BY <2>1, <3>1, DestroysPreserved
    <3>2. CASE x # w
      <4>1. pc[x] = "destroy" /\ job'[x] = job[x] /\ job[x].uid \in Uids
        BY <2>1, <3>2, ReconcileFrame DEF Inv, WorkOK, Busy, Deleting
      <4> DEFINE m == NodeOf[x]
                 q == PathOf[job[x].uid]
      <4>2. m \in Nodes /\ q \in Paths
        BY <4>1, ProvisionerAssumption DEF ProvisionerAssumption
      <4>3. ~(pc[w] \in Busy /\ job[w].uid = job[x].uid)
        BY <3>2, <4>1 DEF Sole, Busy, Deleting
      <4>4. Has(m, job[x].uid)' = Has(m, job[x].uid)
        BY <2>1, <4>1, <4>2, <4>3, StorageEffect DEF Busy, Provisioning, Deleting
      <4>5. vol'[m][q] = vol[m][q]
        <5>1. CASE vol[m][q] = NoVol
          BY <4>1, <4>4, <5>1 DEF Has, Present
        <5>2. CASE vol[m][q] # NoVol
          <6> SUFFICES ASSUME vol'[m][q] # vol[m][q] PROVE FALSE
            OBVIOUS
          <6>1. /\ job[w].uid \in Uids /\ pc[w] \in Deleting
                /\ q \in Within(PathOf[job[w].uid])
            BY <2>1, <4>2, <5>2, ReconcileStorage
          <6>2. job[w].uid = job[x].uid
            BY <4>1, <6>1 DEF DedicatedPaths, Within
          <6>3. QED
            BY <4>3, <6>1, <6>2 DEF Busy
        <5>3. QED
          BY <5>1, <5>2
      <4>6. QED
        BY <2>1, <4>1, <4>5, LocalStep DEF PreservedFirst
    <3>3. QED
      BY <3>1, <3>2
  <2>2. CASE Others
    BY <2>2, QuietSteps DEF Quiet, PreservedFirst, Busy, Deleting
  <2>3. QED
    BY <2>1, <2>2 DEF Next, Others
<1>3. QED
  BY <1>1, <1>2, LifeInvariant, SoleInvariant, PTL DEF Spec

\* While nothing fails, the data of a Released volume that was annotated for it is
\* preserved before it is destroyed, with any driver and any number of workers,
\* although the annotation is read from a cache (reconcileVolumeDelete passes what
\* its lister holds to Delete), unless a worker makes the volume again behind its
\* deletion.
THEOREM SnapshotHonouredHolds ==
    OneTarget /\ DedicatedPaths => (Spec /\ []Apart => SnapshotHonoured)
<1> SUFFICES ASSUME OneTarget, DedicatedPaths PROVE Spec /\ []Apart => SnapshotHonoured
  OBVIOUS
<1> DEFINE Honoured == \A u \in Uids :
               LET before == vol[pv[u].node][PathOf[u]] IN
               /\ faults' = 0
               /\ pv[u].phase = "Released" /\ pv[u].snap /\ before # NoVol
               /\ vol'[pv[u].node][PathOf[u]] # before
               => before \in kept'
<1>1. Inv /\ CacheInv /\ PreservedFirst /\ [Next]_vars => [Honoured]_vars
  <2> SUFFICES ASSUME Inv, CacheInv, PreservedFirst, [Next]_vars, NEW u \in Uids,
                      NEW n, n = pv[u].node, NEW p, p = PathOf[u],
                      faults' = 0, pv[u].phase = "Released", pv[u].snap,
                      vol[n][p] # NoVol, vol'[n][p] # vol[n][p]
               PROVE  vol[n][p] \in kept'
    OBVIOUS
  <2>0. n \in Nodes /\ p \in Paths /\ pv[u] # NoPv
    BY ProvisionerAssumption
       DEF Inv, TypeOK, ApiTypeOK, Pvs, NoPv, ProvisionerAssumption
  <2>1. ~Others
    BY QuietSteps DEF Quiet
  <2>2. PICK w \in Workers : Reconcile(w)
    BY <2>1 DEF Next, Others
  <2>3. n = NodeOf[w] /\ faults = 0 /\ ~Fault /\ kept \subseteq kept'
    BY <2>0, <2>2, LocalStep
  <2>4. pc[w] \in Deleting /\ job[w].uid = u
    <3>1. /\ job[w].uid \in Uids /\ pc[w] \in Deleting
          /\ p \in Within(PathOf[job[w].uid])
      BY <2>0, <2>2, ReconcileStorage
    <3>2. QED
      BY <3>1 DEF DedicatedPaths, Within
  <2>5. job[w].snap
    BY <2>0, <2>4 DEF CacheInv, DeletesTrue
  <2>6. CASE PreserveVolume(w)
    <3>1. PreserveSucceeds(DriverOf[ClassOf[u]], n, p)
      BY <2>3, <2>4, <2>6 DEF PreserveVolume, Present
    <3>2. QED
      BY <2>0, <3>1 DEF PreserveSucceeds, Within
  <2>7. CASE DestroyVolume(w)
    BY <2>3, <2>4, <2>5, <2>7 DEF DestroyVolume, PreservedFirst
  <2>8. CASE \/ CheckBeforeDelete(w) \/ Unpublish(w) \/ UnpublishFails(w)
    BY <2>8 DEF CheckBeforeDelete, Unpublish, UnpublishFails, backendVars
  <2>9. QED
    BY <2>2, <2>4, <2>6, <2>7, <2>8 DEF Reconcile, Deleting, IgnoreItem, RejectClaim,
       SecretFails, BeginProvision, CheckBeforeCreate, MakeVolume, Publish,
       PublishConflict, PublishFails, BeginDelete
<1>2. Spec /\ []Apart => [][Honoured]_vars
  BY <1>1, LifeInvariant, CacheInvariant, PreservedInvariant, PTL DEF Spec
<1>3. QED
  BY <1>2 DEF SnapshotHonoured

-----------------------------------------------------------------------------
(* Storage and object come and go in order.                                *)

USE DEF Has, Present, SeenReleased, PvOnNode

\* A worker goes on to remove the object only once the storage is gone, or after a
\* check that failed.
LEMMA GoneBeforeUnpublish ==
  ASSUME ~BlindCheck, Inv, NEW w \in Workers, Reconcile(w), pc'[w] = "unpublish"
  PROVE  job'[w] = job[w] /\ ~Present(NodeOf[w], PathOf[job[w].uid])'
<1> DEFINE n == NodeOf[w]
           q == PathOf[job[w].uid]
           kind == DriverOf[ClassOf[job[w].uid]]
<1> USE DEF Busy, Provisioning, Deleting
<1>0. WorkTypeOK /\ WorkOK /\ BackendTypeOK
  BY DEF Inv, TypeOK
<1>1. ASSUME NEW s, Proceed(w, s)
      PROVE  s = "unpublish" /\ job'[w] = job[w]
  BY <1>0, <1>1 DEF Proceed, Goto, Returned, WorkTypeOK
<1>2. ASSUME pc[w] \in Deleting
      PROVE  n \in Nodes /\ q \in Paths /\ q \in Within(q)
  BY <1>0, <1>2, ProvisionerAssumption DEF ProvisionerAssumption, WorkOK, Within
<1>3. CASE CheckBeforeDelete(w)
  <2>1. PICK a : Proceed(w, AfterDeleteCheck(job[w].snap, a))
    BY <1>3 DEF CheckBeforeDelete
  <2>2. job'[w] = job[w]
    BY <1>1, <2>1
  <2>3. pc[w] = "dexists" /\ vol' = vol
    BY <1>3 DEF CheckBeforeDelete, backendVars
  <2>4. ~Present(n, q)
    BY <2>3 DEF BlindCheck
  <2>5. QED
    BY <2>2, <2>3, <2>4 DEF Present
<1>4. CASE PreserveVolume(w) \/ DestroyVolume(w)
  <2>2. /\ job'[w] = job[w]
        /\ n \in Nodes /\ q \in Paths /\ q \in Within(q)
    BY <1>1, <1>2, <1>4 DEF PreserveVolume, DestroyVolume
  <2>3. vol' = Emptied(n, Within(q))
    BY <1>1, <1>4 DEF PreserveVolume, DestroyVolume, PreserveSucceeds, DestroySucceeds
  <2>4. vol'[n][q] = NoVol
    BY <1>0, <2>2, <2>3, EmptiedReach
  <2>5. QED
    BY <2>2, <2>4 DEF Present
<1>5. CASE IgnoreItem(w) \/ RejectClaim(w) \/ SecretFails(w) \/ BeginProvision(w) \/ BeginDelete(w)
  BY <1>0, <1>5 DEF IgnoreItem, RejectClaim, SecretFails, BeginProvision,
     BeginDelete, Goto, Enter, WorkTypeOK
<1>6. CASE \/ Publish(w) \/ PublishConflict(w) \/ PublishFails(w)
           \/ CheckBeforeCreate(w) \/ MakeVolume(w) \/ Unpublish(w) \/ UnpublishFails(w)
  <2>1. PICK s : Proceed(w, s) /\ s # "unpublish"
    BY <1>6, CheckTypes DEF Publish, PublishConflict, PublishFails, CheckBeforeCreate,
       MakeVolume, Unpublish, UnpublishFails
  <2>2. QED
    BY <1>1, <2>1
<1>7. QED
  BY <1>3, <1>4, <1>5, <1>6 DEF Reconcile

-----------------------------------------------------------------------------

\* The worker that moves keeps the order where it works.
LEMMA OwnOrder ==
  ASSUME DedicatedPaths, Inv, TiedOK', CacheInv, Order, NEW w \in Workers, Reconcile(w),
         pc'[w] \in Busy, NEW u, u = job'[w].uid, NEW n, n = NodeOf[w]
  PROVE  /\ pc'[w] \in Deleting /\ pv'[u] = NoPv => ~Has(n, u)'
         /\ pc'[w] \in Provisioning /\ pv'[u] # NoPv => Has(n, u)'
<1> USE DEF Busy, Provisioning, Deleting
<1>0. /\ DedicatedPaths /\ J1 /\ J3 /\ J4 /\ J5
      /\ u \in Uids /\ n \in Nodes /\ pv'[u] = pv[u]
  BY OwnStep, ProvisionerAssumption DEF Order, ProvisionerAssumption
<1>1. Has(n, u)' # Has(n, u) =>
          \/ pc[w] = "make" /\ Has(n, u)'
          \/ pc[w] \in {"preserve", "destroy"} /\ ~Has(n, u)'
  BY <1>0, StorageEffect
<1>2. CASE pc[w] \in Busy /\ job'[w] = job[w]
  <2>1. /\ pc'[w] \in Deleting => pc[w] \in Deleting
        /\ pc'[w] \in Provisioning => pc[w] \in Provisioning
    BY <1>2, OwnStep
  <2>2. /\ pc[w] \in Deleting /\ pv[u] = NoPv => ~Has(n, u)
        /\ pc[w] \in Provisioning /\ pv[u] # NoPv => Has(n, u)
    BY <1>0, <1>2 DEF J1, J5
  <2>3. QED
    BY <1>0, <1>1, <2>1, <2>2
<1>3. CASE pc[w] = "start" /\ pc'[w] = "exists" /\ cPv[n][u] = NoPv
  <2>1. ASSUME pv[u] # NoPv
        PROVE  Has(n, u)
    <3>1. pv[u].node \in Nodes
      BY <1>0, <2>1 DEF Inv, TypeOK, ApiTypeOK, Pvs
    <3>2. ~SeenReleased(n, u)
      BY <1>3 DEF NoPv
    <3>3. Tied(u, n)' /\ Tied(u, pv[u].node)'
      BY <1>0, <1>3 DEF Tied
    <3>4. pv[u].node = n
      BY <1>0, <3>1, <3>3 DEF TiedOK
    <3>5. QED
      BY <1>0, <2>1, <3>2, <3>4 DEF J4
  <2>2. QED
    BY <1>0, <1>1, <1>3, <2>1
<1>4. CASE pc[w] = "start" /\ pc'[w] = "dexists" /\ SeenReleased(n, u)
  BY <1>0, <1>1, <1>4 DEF J3
<1>5. QED
  BY <1>2, <1>3, <1>4, OwnStep

LEMMA ReconcileOrder ==
  ASSUME DedicatedPaths, ~BlindCheck, Inv, TiedOK, TiedOK', Sole, CacheInv, Order,
         NEW w \in Workers, Reconcile(w)
  PROVE  Order'
<1> USE DEF Busy, Provisioning, Deleting
<1>0. /\ DedicatedPaths /\ cPv' = cPv /\ NodeOf[w] \in Nodes
      /\ J1 /\ J2 /\ J3 /\ J4 /\ J5 /\ J6
  BY ReconcileFrame, ProvisionerAssumption DEF Order, ProvisionerAssumption
<1>1. ASSUME NEW x \in Workers \ {w}, pc'[x] \in Busy
      PROVE  /\ pc'[x] = pc[x] /\ job'[x] = job[x]
             /\ pv'[job[x].uid] = pv[job[x].uid]
             /\ Has(NodeOf[x], job[x].uid)' = Has(NodeOf[x], job[x].uid)
  <2>1. /\ pc'[x] = pc[x] /\ job'[x] = job[x] /\ job[x].uid \in Uids
        /\ pv'[job[x].uid] = pv[job[x].uid]
    BY <1>0, <1>1, OtherWorker
  <2>2. NodeOf[x] \in Nodes /\ ~(pc[w] \in Busy /\ job[w].uid = job[x].uid)
    BY <1>1, <2>1, ProvisionerAssumption DEF Sole, ProvisionerAssumption
  <2>3. QED
    BY <1>0, <2>1, <2>2, StorageEffect
<1>2. ASSUME NEW x \in Workers, pc'[x] \in Busy
      PROVE  /\ pc'[x] \in Deleting /\ pv'[job'[x].uid] = NoPv =>
                    ~Has(NodeOf[x], job[x].uid)'
             /\ pc'[x] \in Provisioning /\ pv'[job'[x].uid] # NoPv =>
                    Has(NodeOf[x], job[x].uid)'
  <2>1. CASE x = w
    BY <1>2, <2>1, OwnOrder
  <2>2. CASE x # w
    BY <1>0, <1>1, <1>2, <2>2 DEF J1, J5
  <2>3. QED
    BY <2>1, <2>2
<1>3. J1' /\ J5'
  BY <1>2 DEF J1, J5
<1>4. J2'
  BY <1>0, <1>1, GoneBeforeUnpublish DEF J2
<1>5. J3'
  <2> SUFFICES ASSUME NEW m \in Nodes, NEW u \in Uids, SeenReleased(m, u), pv'[u] = NoPv
               PROVE  ~Has(m, u)'
    BY <1>0 DEF J3
  <2>1. CASE pv[u] = NoPv
    BY <1>0, <2>1, StorageEffect DEF J3, CacheInv, NoRevival
  <2>2. CASE pv[u] # NoPv
    <3>1. u = job[w].uid /\ vol' = vol /\ pc[w] = "unpublish"
      BY <2>2, ObjectEffect DEF NewPv, NoPv
    <3>2. Tied(u, m) /\ Tied(u, NodeOf[w])
      BY <3>1 DEF Tied
    <3>3. m = NodeOf[w]
      BY <1>0, <3>2 DEF TiedOK
    <3>4. QED
      BY <1>0, <3>1, <3>3 DEF J2
  <2>3. QED
    BY <2>1, <2>2
<1>6. J4'
  <2> SUFFICES ASSUME NEW u \in Uids, pv'[u] # NoPv, NEW m, m = pv'[u].node, ~Has(m, u)'
               PROVE  SeenReleased(m, u)
    BY <1>0 DEF J4
  <2>1. CASE pv'[u] = pv[u]
    <3>1. m \in Nodes
      BY <2>1 DEF Inv, TypeOK, ApiTypeOK, Pvs, NoPv
    <3>2. CASE Has(m, u)
      <4>1. m = NodeOf[w] /\ u = job[w].uid /\ pc[w] \in Deleting
        BY <1>0, <3>1, <3>2, StorageEffect
      <4>2. QED
        BY <2>1, <4>1 DEF CacheInv, DeletesTrue
    <3>3. CASE ~Has(m, u)
      BY <1>0, <2>1, <3>3 DEF J4
    <3>4. QED
      BY <3>2, <3>3
  <2>2. CASE pv'[u] # pv[u]
    <3>1. u = job[w].uid /\ vol' = vol /\ pc[w] = "publish" /\ pv'[u] = NewPv(NodeOf[w])
      BY <2>2, ObjectEffect
    <3>2. QED
      BY <1>0, <3>1 DEF J6, NewPv
  <2>3. QED
    BY <2>1, <2>2
<1>7. J6'
  <2> SUFFICES ASSUME NEW x \in Workers, pc'[x] = "publish"
               PROVE  Has(NodeOf[x], job[x].uid)'
    BY DEF J6
  <2>1. CASE x = w
    BY <2>1, ReconcilePublish
  <2>2. CASE x # w
    BY <1>0, <1>1, <2>2 DEF J6
  <2>3. QED
    BY <2>1, <2>2
<1>8. QED
  BY <1>3, <1>4, <1>5, <1>6, <1>7 DEF Order

LEMMA QuietOrder ==
  ASSUME Inv, CacheInv, Order, Quiet
  PROVE  Order'
<1> USE DEF Busy, Provisioning, Deleting, Quiet
<1>0. J1 /\ J2 /\ J3 /\ J4 /\ J5 /\ J6
  BY DEF Order
<1>1. ASSUME NEW x \in Workers, pc'[x] \in Busy
      PROVE  /\ pc'[x] = pc[x] /\ job'[x] = job[x] /\ job[x].uid \in Uids
             /\ pv'[job[x].uid] = NoPv <=> pv[job[x].uid] = NoPv
  <2>1. pc'[x] = pc[x] /\ job'[x] = job[x] /\ job[x].uid \in Uids
    BY <1>1 DEF Inv, WorkOK
  <2>2. QED
    BY <2>1
<1>2. J1' /\ J5'
  BY <1>0, <1>1 DEF J1, J5
<1>3. J2' /\ J6'
  BY <1>0, <1>1 DEF J2, J6
<1>4. J3'
  <2> SUFFICES ASSUME NEW n \in Nodes, NEW u \in Uids, SeenReleased(n, u)', pv'[u] = NoPv
               PROVE  ~Has(n, u)
    BY DEF J3
  <2>1. pv[u] = NoPv
    OBVIOUS
  <2>2. SeenReleased(n, u)
    BY <2>1 DEF NoPv
  <2>3. QED
    BY <1>0, <2>1, <2>2 DEF J3
<1>5. J4'
  <2> SUFFICES ASSUME NEW u \in Uids, pv'[u] # NoPv, NEW n, n = pv'[u].node, ~Has(n, u)
               PROVE  SeenReleased(n, u)'
    BY DEF J4
  <2>1. pv[u] # NoPv /\ pv[u].node = n
    OBVIOUS
  <2>2. n \in Nodes
    BY <2>1 DEF Inv, TypeOK, ApiTypeOK, Pvs, NoPv
  <2>3. SeenReleased(n, u)
    BY <1>0, <2>1 DEF J4
  <2>4. pv[u] = cPv[n][u]
    BY <2>1, <2>2, <2>3 DEF CacheInv, CacheTrue
  <2>5. QED
    BY <2>2, <2>3, <2>4
<1>6. QED
  BY <1>2, <1>3, <1>4, <1>5 DEF Order

LEMMA OrderInvariant ==
    OneTarget /\ DedicatedPaths =>
        (Spec /\ []Apart /\ NeverBlind => [](Inv /\ TiedOK /\ CacheInv /\ Order))
<1> SUFFICES ASSUME OneTarget, DedicatedPaths
             PROVE  Spec /\ []Apart /\ NeverBlind => [](Inv /\ TiedOK /\ CacheInv /\ Order)
  OBVIOUS
<1>1. Init => Order
  BY DEF Init, Order, J1, J2, J3, J4, J5, J6, NoPv, Deleting, Provisioning
<1>2. /\ Inv /\ TiedOK /\ TiedOK' /\ Sole /\ CacheInv /\ Order
      /\ [Next]_vars /\ [~BlindCheck]_vars
      => Order'
  <2> SUFFICES ASSUME Inv, TiedOK, TiedOK', Sole, CacheInv, Order,
                      [Next]_vars, [~BlindCheck]_vars
               PROVE  Order'
    OBVIOUS
  <2>1. ~BlindCheck
    BY DEF BlindCheck, vars, workVars
  <2>2. ASSUME NEW w \in Workers, Reconcile(w) PROVE Order'
    BY <2>1, <2>2, ReconcileOrder
  <2>3. CASE Others
    BY <2>3, QuietSteps, QuietOrder
  <2>4. QED
    BY <2>2, <2>3 DEF Next, Others
<1>3. QED
  BY <1>1, <1>2, LifeInvariant, TiedInvariant, SoleInvariant, CacheInvariant, PTL
     DEF Spec, NeverBlind

\* Nothing is left behind: when the object of a volume goes, its storage has gone
\* (processPV deletes the object last), with any driver and any number of workers,
\* whatever fails and whoever restarts, unless a worker makes the volume again
\* behind its deletion or a failed check calls it gone.
THEOREM RemovedVolumeIsGoneHolds ==
    OneTarget /\ DedicatedPaths =>
        (Spec /\ []Apart /\ NeverBlind => RemovedVolumeIsGone)
<1> SUFFICES ASSUME OneTarget, DedicatedPaths
             PROVE  Spec /\ []Apart /\ NeverBlind => RemovedVolumeIsGone
  OBVIOUS
<1> DEFINE Gone == \A u \in Uids :
                      pv[u] # NoPv /\ pv'[u] = NoPv =>
                          vol'[pv[u].node][PathOf[u]] \notin {u, Foreign}
<1>1. Inv /\ TiedOK /\ Order /\ [Next]_vars => [Gone]_vars
  <2> SUFFICES ASSUME Inv, TiedOK, Order, [Next]_vars,
                      NEW u \in Uids, pv[u] # NoPv, pv'[u] = NoPv
               PROVE  vol'[pv[u].node][PathOf[u]] \notin {u, Foreign}
    OBVIOUS
  <2>1. ~Others
    BY QuietSteps DEF Quiet
  <2>2. PICK w \in Workers : Reconcile(w)
    BY <2>1 DEF Next, Others
  <2>3. u = job[w].uid /\ vol' = vol /\ pc[w] = "unpublish"
    BY <2>2, ObjectEffect DEF NewPv, NoPv
  <2>4. pv[u].node \in Nodes /\ NodeOf[w] \in Nodes
    BY ProvisionerAssumption DEF Inv, TypeOK, ApiTypeOK, Pvs, NoPv, ProvisionerAssumption
  <2>5. Tied(u, pv[u].node) /\ Tied(u, NodeOf[w])
    BY <2>3 DEF Tied, Busy, Deleting
  <2>6. pv[u].node = NodeOf[w]
    BY <2>4, <2>5 DEF TiedOK
  <2>7. vol'[pv[u].node][PathOf[u]] = NoVol
    BY <2>3, <2>6 DEF Order, J2
  <2>8. QED
    BY <2>7, BackendAssumption DEF BackendAssumption, Owners
<1>2. Spec /\ []Apart /\ NeverBlind => [][Gone]_vars
  BY <1>1, OrderInvariant, PTL DEF Spec
<1>3. QED
  BY <1>2 DEF RemovedVolumeIsGone

\* The directory driver reports a failed check as an error (os.Stat), so that it
\* never takes a volume that is there for gone.
THEOREM DirectoriesNeverBlind ==
    (\A c \in Classes : DriverOf[c] = "dir") => (Spec => NeverBlind)
<1> SUFFICES ASSUME \A c \in Classes : DriverOf[c] = "dir" PROVE Spec => NeverBlind
  OBVIOUS
<1>1. Inv /\ [Next]_vars => [~BlindCheck]_vars
  <2> SUFFICES ASSUME Inv, [Next]_vars, NEW w \in Workers,
                      pc[w] = "dexists", pc'[w] = "unpublish",
                      Present(NodeOf[w], PathOf[job[w].uid])
               PROVE  FALSE
    BY DEF BlindCheck
  <2>1. Reconcile(w)
    BY ReconcileFrame, QuietSteps DEF Next, Others, Quiet, Busy, Deleting
  <2>2. CheckBeforeDelete(w)
    BY <2>1 DEF Reconcile, IgnoreItem, RejectClaim, SecretFails, BeginProvision,
       CheckBeforeCreate, MakeVolume, Publish, PublishConflict, PublishFails,
       BeginDelete, PreserveVolume, DestroyVolume, Unpublish, UnpublishFails
  <2>3. DriverOf[ClassOf[job[w].uid]] = "dir"
    BY ProvisionerAssumption
       DEF ProvisionerAssumption, Inv, WorkOK, Busy, Deleting
  <2>4. PICK a \in {"yes", "error"} : Proceed(w, AfterDeleteCheck(job[w].snap, a))
    BY <2>2, <2>3 DEF CheckBeforeDelete, ExistsAnswer, ExistsFailedAnswer
  <2>5. AfterDeleteCheck(job[w].snap, a) # "unpublish"
    BY DEF AfterDeleteCheck
  <2>6. QED
    BY <2>4, <2>5 DEF Proceed, Goto, Inv, TypeOK, WorkTypeOK
<1>2. QED
  BY <1>1, LifeInvariant, PTL DEF Spec, NeverBlind

-----------------------------------------------------------------------------
(* The refinement.                                                         *)

\* What an observer sees of a claim on a node.
Seen(n, u) == IF pv[u].node = n THEN pv[u].phase ELSE "absent"

\* What the steps of the provisioner do at the one place they change, if any.
Elsewhere(n, u) ==
    \A m \in Nodes, v \in Uids : <<m, v>> # <<n, u>> =>
        Seen(m, v)' = Seen(m, v) /\ Has(m, v)' = Has(m, v)

StorageTurn(n, u) ==
    /\ Elsewhere(n, u) /\ Seen(n, u)' = Seen(n, u)
    /\ \/ Seen(n, u) = "absent" /\ ~Has(n, u) /\ Has(n, u)'
       \/ Seen(n, u) = "Released" /\ Has(n, u) /\ ~Has(n, u)'

ObjectTurn(n, u) ==
    /\ Elsewhere(n, u) /\ Has(n, u)' = Has(n, u)
    /\ \/ Seen(n, u) = "absent" /\ Seen(n, u)' = "Available" /\ Has(n, u)
       \/ Seen(n, u) = "Available" /\ Seen(n, u)' = "Bound"
       \/ Seen(n, u) \in {"Available", "Bound"} /\ Seen(n, u)' = "Released"
       \/ Seen(n, u) = "Released" /\ Seen(n, u)' = "absent" /\ ~Has(n, u)

Unseen == \A n \in Nodes, u \in Uids : Seen(n, u)' = Seen(n, u) /\ Has(n, u)' = Has(n, u)

USE DEF Seen

\* A worker publishes over storage, withdraws without it, makes storage where there
\* is no object and takes it away under a Released one.
LEMMA ReconcileTurns ==
  ASSUME DedicatedPaths, Inv, TiedOK, CacheInv, Order, NEW w \in Workers, Reconcile(w)
  PROVE  Unseen \/ \E n \in Nodes, u \in Uids : StorageTurn(n, u) \/ ObjectTurn(n, u)
<1> SUFFICES ASSUME NEW n, n = NodeOf[w], NEW u, u = job[w].uid
             PROVE  Unseen \/ \E m \in Nodes, v \in Uids : StorageTurn(m, v) \/ ObjectTurn(m, v)
  OBVIOUS
<1>0. /\ DedicatedPaths /\ n \in Nodes /\ n # NoNode
      /\ J1 /\ J2 /\ J5 /\ J6 /\ CacheTrue /\ DeletesTrue
      /\ pv \in [Uids -> Pvs \cup {NoPv}] /\ \A m \in Nodes : m # NoNode
  BY ProvisionerAssumption
     DEF Order, CacheInv, Inv, TypeOK, ApiTypeOK, ProvisionerAssumption
<1>1. ASSUME NEW m \in Nodes, NEW v \in Uids, <<m, v>> # <<n, u>>,
             pv[v] # NoPv => pv[v].node = n \/ v # u,
             pv'[v] # NoPv => pv'[v].node = n \/ v # u
      PROVE  Seen(m, v)' = Seen(m, v) /\ Has(m, v)' = Has(m, v)
  <2>1. Has(m, v)' = Has(m, v)
    BY <1>0, <1>1, StorageEffect
  <2>2. CASE pv'[v] = pv[v]
    BY <2>1, <2>2
  <2>3. CASE pv'[v] # pv[v]
    <3>1. v = u
      BY <2>3, ObjectEffect
    <3>2. m # n
      BY <1>1, <3>1
    <3>3. pv[v].node # m /\ pv'[v].node # m
      BY <1>0, <1>1, <3>1, <3>2 DEF NoPv
    <3>4. QED
      BY <2>1, <3>3
  <2>4. QED
    BY <2>2, <2>3
<1>2. ASSUME NEW v \in Uids, pv'[v] # pv[v]
      PROVE  v = u /\ ObjectTurn(n, u)
  <2>1. /\ v = u /\ vol' = vol
        /\ \/ pc[w] = "publish" /\ pv[u] = NoPv /\ pv'[u] = NewPv(n)
           \/ pc[w] = "unpublish" /\ pv[u] # NoPv /\ pv'[u] = NoPv
    BY <1>2, ObjectEffect
  <2>2. CASE pc[w] = "publish" /\ pv[u] = NoPv /\ pv'[u] = NewPv(n)
    <3>1. Seen(n, u) = "absent" /\ Seen(n, u)' = "Available" /\ pv'[u].node = n
      BY <1>0, <2>2 DEF NoPv, NewPv
    <3>2. Has(n, u) /\ Has(n, u)' = Has(n, u)
      BY <1>0, <2>1, <2>2 DEF J6
    <3>3. Elsewhere(n, u)
      BY <1>1, <2>1, <2>2, <3>1 DEF Elsewhere
    <3>4. QED
      BY <2>1, <3>1, <3>2, <3>3 DEF ObjectTurn
  <2>3. CASE pc[w] = "unpublish" /\ pv[u] # NoPv /\ pv'[u] = NoPv
    <3>1. pv[u] = cPv[n][u] /\ SeenReleased(n, u)
      BY <1>0, <2>1, <2>3 DEF CacheTrue, DeletesTrue, Deleting
    <3>2. Seen(n, u) = "Released" /\ pv[u].node = n
      BY <3>1
    <3>3. Seen(n, u)' = "absent"
      BY <1>0, <2>3 DEF NoPv
    <3>4. ~Has(n, u) /\ Has(n, u)' = Has(n, u)
      BY <1>0, <2>1, <2>3 DEF J2
    <3>5. Elsewhere(n, u)
      BY <1>1, <2>1, <2>3, <3>2 DEF Elsewhere
    <3>6. QED
      BY <2>1, <3>2, <3>3, <3>4, <3>5 DEF ObjectTurn
  <2>4. QED
    BY <2>1, <2>2, <2>3
<1>3. ASSUME NEW m \in Nodes, NEW v \in Uids, Has(m, v)' # Has(m, v)
      PROVE  m = n /\ v = u /\ StorageTurn(n, u)
  <2>1. /\ m = n /\ v = u
        /\ \/ pc[w] = "make" /\ ~Has(n, u) /\ Has(n, u)'
           \/ pc[w] \in {"preserve", "destroy"} /\ Has(n, u) /\ ~Has(n, u)'
    BY <1>0, <1>3, StorageEffect
  <2>2. pv' = pv
    <3>1. \A x \in Uids : pv'[x] = pv[x]
      BY <2>1, ObjectEffect
    <3>2. pv' \in [Uids -> Pvs \cup {NoPv}]
      BY NextInv DEF Next, Inv, TypeOK, ApiTypeOK
    <3>3. QED
      BY <1>0, <3>1, <3>2
  <2>3. Elsewhere(n, u) /\ Seen(n, u)' = Seen(n, u)
    BY <1>0, <2>1, <2>2, StorageEffect DEF Elsewhere
  <2>4. CASE pc[w] = "make"
    <3>1. pv[u] = NoPv
      BY <1>0, <2>1, <2>4 DEF J5, Provisioning
    <3>2. Seen(n, u) = "absent"
      BY <1>0, <3>1 DEF NoPv
    <3>3. QED
      BY <2>1, <2>3, <2>4, <3>2 DEF StorageTurn
  <2>5. CASE pc[w] \in {"preserve", "destroy"}
    <3>1. pv[u] # NoPv
      BY <1>0, <2>1, <2>5 DEF J1, Deleting
    <3>2. pv[u] = cPv[n][u] /\ SeenReleased(n, u)
      BY <1>0, <2>1, <2>5, <3>1 DEF CacheTrue, DeletesTrue, Deleting
    <3>3. QED
      BY <2>1, <2>3, <2>5, <3>2 DEF StorageTurn
  <2>6. QED
    BY <2>1, <2>4, <2>5
<1>4. CASE Unseen
  BY <1>4
<1>5. CASE ~Unseen
  <2>1. PICK m \in Nodes, v \in Uids : pv'[v] # pv[v] \/ Has(m, v)' # Has(m, v)
    BY <1>5 DEF Unseen
  <2>2. u \in Uids /\ (StorageTurn(n, u) \/ ObjectTurn(n, u))
    BY <1>2, <1>3, <2>1
  <2>3. QED
    BY <1>0, <2>2
<1>6. QED
  BY <1>4, <1>5

\* Kubernetes binds and releases, and an annotation is not seen.
LEMMA EnvironmentTurns ==
  ASSUME Inv, Environment
  PROVE  Unseen \/ \E n \in Nodes, u \in Uids : ObjectTurn(n, u)
<1>0. /\ pv \in [Uids -> Pvs \cup {NoPv}] /\ vol' = vol
      /\ \A m \in Nodes, v \in Uids : Has(m, v)' = Has(m, v)
  BY DEF Inv, TypeOK, ApiTypeOK, Environment, backendVars
<1>1. ASSUME NEW u \in Uids, Bind(u) \/ Release(u) \/ AnnotateVolume(u)
      PROVE  Unseen \/ \E n \in Nodes : ObjectTurn(n, u)
  <2> SUFFICES ASSUME NEW n, n = pv[u].node
               PROVE  Unseen \/ \E m \in Nodes : ObjectTurn(m, u)
    OBVIOUS
  <2>1. /\ n \in Nodes /\ pv'[u].node = n
        /\ \A v \in Uids \ {u} : pv'[v] = pv[v]
        /\ \/ pv[u].phase = "Available" /\ pv'[u].phase = "Bound"
           \/ pv[u].phase \in {"Available", "Bound"} /\ pv'[u].phase = "Released"
           \/ pv'[u].phase = pv[u].phase
    BY <1>0, <1>1 DEF Bind, Release, AnnotateVolume, Pvs, NoPv
  <2>2. Elsewhere(n, u)
    BY <1>0, <2>1 DEF Elsewhere
  <2>3. CASE pv'[u].phase = pv[u].phase
    BY <1>0, <2>1, <2>3 DEF Unseen
  <2>4. CASE \/ pv[u].phase = "Available" /\ pv'[u].phase = "Bound"
             \/ pv[u].phase \in {"Available", "Bound"} /\ pv'[u].phase = "Released"
    BY <1>0, <2>1, <2>2, <2>4 DEF ObjectTurn
  <2>5. QED
    BY <2>1, <2>3, <2>4
<1>2. CASE pv' = pv
  BY <1>0, <1>2 DEF Unseen
<1>3. QED
  BY <1>1, <1>2 DEF Environment, CreateClass, CreateClaim, DeleteClaim, SelectNode

\* On every node, the storage of a volume is made before its object is published
\* and is gone before its object is removed (processPVC and processPV), whatever
\* fails, restarts or is read from a stale cache: with any driver and any number of
\* workers the provisioner implements VolumeLifecycle, but for the two ways to miss
\* it that the hypotheses name.
THEOREM LifecycleKept ==
    OneTarget /\ DedicatedPaths => (Spec /\ []Apart /\ NeverBlind => Lifecycle)
<1> SUFFICES ASSUME OneTarget, DedicatedPaths
             PROVE  Spec /\ []Apart /\ NeverBlind => Lifecycle
  OBVIOUS
<1> USE DEF Objects, Stored, Places
<1>1. Init => Promised!Init
  <2> SUFFICES ASSUME Init PROVE Promised!Init
    OBVIOUS
  <2>1. \A n \in Nodes, u \in Uids : pv[u].node # n
    BY ProvisionerAssumption DEF Init, NoPv, ProvisionerAssumption
  <2>2. QED
    BY <2>1 DEF Promised!Init
<1>2. Inv /\ TiedOK /\ CacheInv /\ Order /\ [Next]_vars => [Promised!Next]_(Promised!vars)
  <2> SUFFICES ASSUME Inv, TiedOK, CacheInv, Order, [Next]_vars
               PROVE  [Promised!Next]_(Promised!vars)
    OBVIOUS
  <2>1. ASSUME NEW n \in Nodes, NEW u \in Uids, Elsewhere(n, u)
        PROVE  /\ Objects' = [Objects EXCEPT ![<<n, u>>] = Seen(n, u)']
               /\ Has(n, u)' = Has(n, u) => Stored' = Stored
               /\ Has(n, u)' => Stored' = Stored \cup {<<n, u>>}
               /\ ~Has(n, u)' => Stored' = Stored \ {<<n, u>>}
    <3>0. \A x \in Places : x = <<x[1], x[2]>> /\ x[1] \in Nodes /\ x[2] \in Uids
      OBVIOUS
    <3>1. Objects' = [Objects EXCEPT ![<<n, u>>] = Seen(n, u)']
      <4>1. \A x \in Places :
                Seen(x[1], x[2])' = IF x = <<n, u>> THEN Seen(n, u)' ELSE Seen(x[1], x[2])
        BY <2>1, <3>0 DEF Elsewhere
      <4>2. /\ Objects = [x \in Places |-> Seen(x[1], x[2])]
            /\ Objects' = [x \in Places |-> Seen(x[1], x[2])']
        OBVIOUS
      <4> HIDE DEF Objects, Seen, Places
      <4>3. QED
        BY <4>1, <4>2
    <3>2. \A x \in Places : x # <<n, u>> => (x \in Stored' <=> x \in Stored)
      BY <2>1 DEF Elsewhere
    <3>3. /\ <<n, u>> \in Places /\ Stored \subseteq Places /\ Stored' \subseteq Places
          /\ <<n, u>> \in Stored <=> Has(n, u)
          /\ <<n, u>> \in Stored' <=> Has(n, u)'
      OBVIOUS
    <3> HIDE DEF Objects, Stored, Places, Has
    <3>4. Has(n, u)' = Has(n, u) => Stored' = Stored
      BY <3>2, <3>3
    <3>5. /\ Has(n, u)' => Stored' = Stored \cup {<<n, u>>}
          /\ ~Has(n, u)' => Stored' = Stored \ {<<n, u>>}
      BY <3>2, <3>3
    <3>6. QED
      BY <3>1, <3>4, <3>5
  <2>2. CASE Unseen
    <3>1. Objects' = Objects /\ Stored' = Stored
      BY <2>2 DEF Unseen
    <3>2. QED
      BY <3>1 DEF Promised!vars
  <2>3. ASSUME NEW n \in Nodes, NEW u \in Uids, ObjectTurn(n, u)
        PROVE  Promised!Next
    <3>1. /\ Objects' = [Objects EXCEPT ![<<n, u>>] = Seen(n, u)'] /\ Stored' = Stored
          /\ Objects[<<n, u>>] = Seen(n, u) /\ (<<n, u>> \in Stored <=> Has(n, u))
      BY <2>1, <2>3 DEF ObjectTurn
    <3>2. \/ Promised!Publish(<<n, u>>) \/ Promised!Bind(<<n, u>>)
          \/ Promised!Release(<<n, u>>) \/ Promised!Withdraw(<<n, u>>)
      BY <2>3, <3>1 DEF ObjectTurn, Promised!Publish, Promised!Bind,
         Promised!Release, Promised!Withdraw, Promised!Turn
    <3>3. QED
      BY <3>2 DEF Promised!Next
  <2>4. ASSUME NEW n \in Nodes, NEW u \in Uids, StorageTurn(n, u)
        PROVE  Promised!Next
    <3>1. /\ Objects' = Objects
          /\ Objects[<<n, u>>] = Seen(n, u) /\ (<<n, u>> \in Stored <=> Has(n, u))
          /\ Has(n, u)' => Stored' = Stored \cup {<<n, u>>}
          /\ ~Has(n, u)' => Stored' = Stored \ {<<n, u>>}
      <4>1. Elsewhere(n, u) /\ Seen(n, u)' = Seen(n, u)
        BY <2>4 DEF StorageTurn
      <4>2. Objects[<<n, u>>] = Seen(n, u) /\ (<<n, u>> \in Stored <=> Has(n, u))
        OBVIOUS
      <4> HIDE DEF Objects, Stored, Seen, Has
      <4>3. Objects' = [Objects EXCEPT ![<<n, u>>] = Objects[<<n, u>>]]
        BY <2>1, <4>1, <4>2
      <4>4. Objects' = Objects
        BY <4>3 DEF Objects
      <4>5. QED
        BY <2>1, <4>1, <4>2, <4>4
    <3>2. Promised!Prepare(<<n, u>>) \/ Promised!Clear(<<n, u>>)
      BY <2>4, <3>1 DEF StorageTurn, Promised!Prepare, Promised!Clear
    <3>3. QED
      BY <3>2 DEF Promised!Next
  <2>5. ASSUME NEW w \in Workers, Reconcile(w)
        PROVE  [Promised!Next]_(Promised!vars)
    BY <2>2, <2>3, <2>4, <2>5, ReconcileTurns
  <2>6. CASE Environment
    BY <2>2, <2>3, <2>6, EnvironmentTurns
  <2>7. CASE Queueing \/ Informing \/ (\E n \in Nodes : Restart(n)) \/ UNCHANGED vars
    <3>1. pv' = pv /\ vol' = vol
      BY <2>7 DEF Queueing, Informing, Restart, vars, apiVars, backendVars
    <3>2. QED
      BY <2>2, <3>1 DEF Unseen
  <2>8. QED
    BY <2>5, <2>6, <2>7 DEF Next
<1>3. QED
  BY <1>1, <1>2, OrderInvariant, PTL DEF Spec, Lifecycle, Promised!Spec
=============================================================================
