--------------------------- MODULE LiveDataProofs ---------------------------
(***************************************************************************)
(* The storage of a claim survives for as long as the claim does, provided *)
(* that no two claims evaluate to the same path, or to one below the       *)
(* other's (DedicatedPaths).  The runs reuse and nested show that both     *)
(* parts of the proviso are needed.                                        *)
(*                                                                         *)
(* The argument: only a claim that is gone for good is ever deleted.  Its  *)
(* volume is Released, in the API or in a cache that may be arbitrarily    *)
(* old, only after it was gone, and a claim that is gone never comes back. *)
(* So whatever is destroyed lies at the path of a dead claim.  The objects *)
(* of live claims are safe without the proviso (LiveObjectKept).           *)
(*                                                                         *)
(* No claim is given somebody else's data (NoSilentAdoption) where its     *)
(* path is its own or the create command refuses what exists.              *)
(*                                                                         *)
(* While nothing fails, no claim that is due is missing from the queue     *)
(* (ClaimsInHand): each order of events ends with one that queues it.      *)
(*                                                                         *)
(* And no claim gets storage on two nodes, provided that every class       *)
(* either names its node or waits for the scheduler (OneTarget).           *)
(***************************************************************************)
EXTENDS ProvisionerProofs

DedicatedPaths ==
    \A u, v \in Uids :
        u # v => PathOf[u] # PathOf[v] /\ <<PathOf[u], PathOf[v]>> \notin Below

\* Only claims that were created are known to anybody.
BornOK ==
    /\ \A nm \in Names : claim[nm] # NoClaim =>
          NameOf[claim[nm].uid] = nm /\ claim[nm].uid \notin unborn
    /\ \A n \in Nodes, nm \in Names : cClaim[n][nm].uid \notin unborn
    /\ \A w \in Workers : pc[w] \in Busy => job[w].uid \notin unborn
    /\ \A u \in Uids : pv[u] # NoPv => u \notin unborn

\* Only claims that are gone are released or deleted.
DoomedOK ==
    /\ \A u \in Uids : pv[u].phase = "Released" => Dead(u)
    /\ \A n \in Nodes, u \in Uids : cPv[n][u].phase = "Released" => Dead(u)
    /\ \A w \in Workers : pc[w] \in Deleting => Dead(job[w].uid)

\* What is published, or about to be, has its storage unless the claim is gone.
BackedOK ==
    /\ \A w \in Workers : pc[w] = "publish" =>
          Dead(job[w].uid) \/ Present(NodeOf[w], PathOf[job[w].uid])
    /\ \A u \in Uids : pv[u] # NoPv =>
          Dead(u) \/ Present(pv[u].node, PathOf[u])

LifeInv == BornOK /\ DoomedOK

USE DEF Node, Key, Path, Driver

-----------------------------------------------------------------------------

LEMMA LifeInit == Init => LifeInv /\ BackedOK
<1> SUFFICES ASSUME Init PROVE LifeInv /\ BackedOK
  OBVIOUS
<1> USE ProvisionerAssumption DEF ProvisionerAssumption, Init, QueueInit
<1>1. BornOK
  BY DEF BornOK, Busy, Provisioning, Deleting, NoClaim, NoPv
<1>2. DoomedOK
  BY DEF DoomedOK, Deleting, NoPv
<1>3. BackedOK
  BY DEF BackedOK
<1>4. QED
  BY <1>1, <1>2, <1>3 DEF LifeInv

\* A claim that is gone stays gone: its UID is never used again.
LEMMA DeadStays ==
  ASSUME Inv, BornOK, [Next]_vars, NEW u \in Uids, Dead(u)
  PROVE  Dead(u)'
<1> USE ProvisionerAssumption DEF ProvisionerAssumption, Dead, Alive
<1>1. CASE UNCHANGED <<claim, unborn>>
  BY <1>1
<1>2. CASE Environment
  <2>1. ASSUME NEW v \in Uids, CreateClaim(v)
        PROVE  Dead(u)'
    BY <2>1 DEF CreateClaim, Inv, TypeOK, ApiTypeOK
  <2>2. ASSUME NEW v \in Uids, DeleteClaim(v)
        PROVE  Dead(u)'
    BY <2>2 DEF DeleteClaim, Inv, TypeOK, ApiTypeOK, NoClaim
  <2>3. ASSUME NEW v \in Uids, NEW n \in Nodes, SelectNode(v, n)
        PROVE  Dead(u)'
    BY <2>3 DEF SelectNode, Inv, TypeOK, ApiTypeOK, Claims, NoClaim
  <2>4. ASSUME NEW v \in Uids, Bind(v)
        PROVE  Dead(u)'
    BY <2>4 DEF Bind, Inv, TypeOK, ApiTypeOK, Claims, NoClaim
  <2>5. ASSUME NEW c \in Classes, CreateClass(c)
        PROVE  Dead(u)'
    BY <2>5 DEF CreateClass
  <2>6. ASSUME NEW v \in Uids, Release(v) \/ AnnotateVolume(v)
        PROVE  Dead(u)'
    BY <2>6 DEF Release, AnnotateVolume
  <2>7. QED
    BY <1>2, <2>1, <2>2, <2>3, <2>4, <2>5, <2>6 DEF Environment
<1>3. ASSUME NEW w \in Workers, Reconcile(w)
      PROVE  UNCHANGED <<claim, unborn>>
  BY <1>3 DEF Reconcile, IgnoreItem, RejectClaim, SecretFails, BeginProvision,
     CheckBeforeCreate, MakeVolume, Publish, PublishConflict, PublishFails,
     BeginDelete, CheckBeforeDelete, PreserveVolume, DestroyVolume, Unpublish,
     UnpublishFails, apiVars
<1>4. CASE Queueing \/ Informing \/ (\E n \in Nodes : Restart(n)) \/ UNCHANGED vars
  BY <1>1, <1>4 DEF Queueing, Informing, Restart, vars, apiVars
<1>5. QED
  BY <1>1, <1>2, <1>3, <1>4 DEF Next

\* What a worker's step does to the storage: it leaves it alone, fills an empty
\* path, or, deleting a claim's volume, empties paths at and below that claim's.
LEMMA ReconcileStorage ==
  ASSUME Inv, NEW w \in Workers, Reconcile(w),
         NEW n \in Nodes, NEW p \in Paths, vol'[n][p] # vol[n][p], vol[n][p] # NoVol
  PROVE  /\ job[w].uid \in Uids /\ pc[w] \in Deleting
         /\ p \in Within(PathOf[job[w].uid])
<1> DEFINE q == PathOf[job[w].uid]
<1>0. BackendTypeOK /\ WorkOK
  BY DEF Inv, TypeOK
<1>1. CASE MakeVolume(w)
  <2>1. job[w].uid \in Uids
    BY <1>0, <1>1 DEF MakeVolume, WorkOK, Busy, Provisioning
  <2>2. NodeOf[w] \in Nodes /\ q \in Paths
    BY <2>1, ProvisionerAssumption DEF ProvisionerAssumption
  <2>3. CreateStep(DriverOf[ClassOf[job[w].uid]], NodeOf[w], q, job[w].uid)
    BY <1>1 DEF MakeVolume, CreateStep
  <2>4. /\ ~Present(NodeOf[w], q)
        /\ vol' \in {Filled(NodeOf[w], q, NoVol), Filled(NodeOf[w], q, job[w].uid)}
    BY <2>3, CreateReach
  <2>5. PICK x \in Owners \cup {NoVol} : vol' = Filled(NodeOf[w], q, x)
    BY <2>1, <2>4 DEF Owners
  <2>6. QED
    BY <1>0, <2>2, <2>4, <2>5, FilledReach DEF Present
<1>2. CASE PreserveVolume(w) \/ DestroyVolume(w)
  <2>1. job[w].uid \in Uids /\ pc[w] \in Deleting
    BY <1>0, <1>2 DEF PreserveVolume, DestroyVolume, WorkOK, Busy, Deleting
  <2>2. NodeOf[w] \in Nodes /\ q \in Paths
    BY <2>1, ProvisionerAssumption DEF ProvisionerAssumption
  <2>3. DeleteStep(DriverOf[ClassOf[job[w].uid]], NodeOf[w], q)
    BY <1>2 DEF PreserveVolume, DestroyVolume, DeleteStep
  <2>4. PICK S \in SUBSET Within(q) : vol' = Emptied(NodeOf[w], S)
    BY <2>3, DeleteReach
  <2>5. p \in S
    BY <1>0, <2>2, <2>4, EmptiedReach
  <2>6. QED
    BY <2>1, <2>5
<1>3. CASE \/ IgnoreItem(w) \/ RejectClaim(w) \/ SecretFails(w) \/ BeginProvision(w)
           \/ CheckBeforeCreate(w) \/ Publish(w) \/ PublishConflict(w)
           \/ PublishFails(w) \/ BeginDelete(w) \/ CheckBeforeDelete(w)
           \/ Unpublish(w) \/ UnpublishFails(w)
  BY <1>3 DEF IgnoreItem, RejectClaim, SecretFails, BeginProvision,
     CheckBeforeCreate, Publish, PublishConflict, PublishFails, BeginDelete,
     CheckBeforeDelete, Unpublish, UnpublishFails, backendVars
<1>4. QED
  BY <1>1, <1>2, <1>3 DEF Reconcile

\* So the storage at the path of a claim that is not gone is never taken away
\* and never overwritten.
LEMMA StorageStays ==
  ASSUME DedicatedPaths, Inv, DoomedOK, [Next]_vars,
         NEW u \in Uids, ~Dead(u), NEW n \in Nodes, Present(n, PathOf[u])
  PROVE  vol'[n][PathOf[u]] = vol[n][PathOf[u]]
<1> USE ProvisionerAssumption DEF ProvisionerAssumption
<1>1. ASSUME NEW w \in Workers, Reconcile(w), vol'[n][PathOf[u]] # vol[n][PathOf[u]]
      PROVE  FALSE
  <2>1. /\ PathOf[u] \in Within(PathOf[job[w].uid])
        /\ job[w].uid \in Uids /\ pc[w] \in Deleting
    BY <1>1, ReconcileStorage DEF Present
  <2>2. job[w].uid = u
    BY <2>1 DEF DedicatedPaths, Within
  <2>3. QED
    BY <2>1, <2>2 DEF DoomedOK
<1>2. CASE Queueing \/ Informing \/ Environment \/ UNCHANGED vars
  BY <1>2 DEF Queueing, Informing, Environment, vars, backendVars
<1>3. ASSUME NEW m \in Nodes, Restart(m)
      PROVE  vol'[n][PathOf[u]] = vol[n][PathOf[u]]
  BY <1>3 DEF Restart, backendVars
<1>4. QED
  BY <1>1, <1>2, <1>3 DEF Next

-----------------------------------------------------------------------------
(* A worker's step.                                                        *)

\* A worker's step moves that worker alone and leaves the claims alone.
LEMMA ReconcileFrame ==
  ASSUME Inv, NEW w \in Workers, Reconcile(w)
  PROVE  /\ UNCHANGED <<cClaim, cPv, claim, unborn>>
         /\ \A x \in Workers \ {w} : pc'[x] = pc[x] /\ job'[x] = job[x]
<1>0. WorkTypeOK
  BY DEF Inv, TypeOK
<1>1. ASSUME NEW s, Proceed(w, s)
      PROVE  \A x \in Workers \ {w} : pc'[x] = pc[x] /\ job'[x] = job[x]
  BY <1>0, <1>1 DEF Proceed, Goto, WorkTypeOK
<1>2. ASSUME NEW s, Goto(w, s)
      PROVE  \A x \in Workers \ {w} : pc'[x] = pc[x] /\ job'[x] = job[x]
  BY <1>0, <1>2 DEF Goto, WorkTypeOK
<1>3. ASSUME NEW j, NEW s, Enter(w, j, s)
      PROVE  \A x \in Workers \ {w} : pc'[x] = pc[x] /\ job'[x] = job[x]
  BY <1>0, <1>3 DEF Enter, WorkTypeOK
<1>4. \/ \E s : Proceed(w, s) \/ Goto(w, s)
      \/ \E j, s : Enter(w, j, s)
  BY DEF Reconcile, IgnoreItem, RejectClaim, SecretFails, BeginProvision,
     CheckBeforeCreate, MakeVolume, Publish, PublishConflict, PublishFails,
     BeginDelete, CheckBeforeDelete, PreserveVolume, DestroyVolume, Unpublish,
     UnpublishFails
<1>5. UNCHANGED <<cClaim, cPv, claim, unborn>>
  BY DEF Reconcile, IgnoreItem, RejectClaim, SecretFails, BeginProvision,
     CheckBeforeCreate, MakeVolume, Publish, PublishConflict, PublishFails,
     BeginDelete, CheckBeforeDelete, PreserveVolume, DestroyVolume, Unpublish,
     UnpublishFails, apiVars, cacheVars
<1>6. QED
  BY <1>1, <1>2, <1>3, <1>4, <1>5

\* How a worker's step can make it busy, and what it then works for.
LEMMA ReconcileJob ==
  ASSUME Inv, NEW w \in Workers, Reconcile(w), pc'[w] \in Busy
  PROVE  \/ /\ pc[w] \in Busy /\ job'[w] = job[w]
            /\ pc'[w] \in Deleting => pc[w] \in Deleting
            /\ pc'[w] \in Provisioning => pc[w] \in Provisioning
         \/ /\ pc[w] = "start" /\ pc'[w] = "exists" /\ holding[w][2] \in Names
            /\ job'[w].uid = cClaim[NodeOf[w]][holding[w][2]].uid
            /\ cPv[NodeOf[w]][job'[w].uid] = NoPv
         \/ /\ pc[w] = "start" /\ pc'[w] = "dexists" /\ holding[w][2] \in Uids
            /\ job'[w].uid = holding[w][2] /\ ClassOf[job'[w].uid] \in Deletes
            /\ cPv[NodeOf[w]][job'[w].uid].phase = "Released"
            /\ cPv[NodeOf[w]][job'[w].uid].node = NodeOf[w]
            /\ job'[w].snap = cPv[NodeOf[w]][job'[w].uid].snap
<1>0. WorkTypeOK
  BY DEF Inv, TypeOK
<1> USE DEF Busy, Provisioning, Deleting
<1>1. ASSUME NEW s, Proceed(w, s)
      PROVE  pc'[w] = s /\ job'[w] = job[w]
  BY <1>0, <1>1 DEF Proceed, Goto, Returned, WorkTypeOK
<1>2. CASE IgnoreItem(w) \/ RejectClaim(w) \/ SecretFails(w)
  BY <1>0, <1>2 DEF IgnoreItem, RejectClaim, SecretFails, Goto, WorkTypeOK
<1>3. CASE BeginProvision(w)
  <2> DEFINE j == [uid |-> cClaim[NodeOf[w]][holding[w][2]].uid, snap |-> FALSE]
  <2>1. /\ pc[w] = "start" /\ Enter(w, j, "exists") /\ holding[w][2] \in Names
        /\ cPv[NodeOf[w]][j.uid] = NoPv
    BY <1>3 DEF BeginProvision, ToProvision
  <2>2. pc'[w] = "exists" /\ job'[w] = j
    BY <1>0, <2>1 DEF Enter, WorkTypeOK
  <2>3. QED
    BY <2>1, <2>2
<1>4. CASE BeginDelete(w)
  <2> DEFINE j == [uid |-> holding[w][2], snap |-> cPv[NodeOf[w]][holding[w][2]].snap]
  <2>1. /\ pc[w] = "start" /\ Enter(w, j, "dexists") /\ holding[w][2] \in Uids
        /\ ToDelete(NodeOf[w], j.uid)
    BY <1>4 DEF BeginDelete
  <2>2. pc'[w] = "dexists" /\ job'[w] = j
    BY <1>0, <2>1 DEF Enter, WorkTypeOK
  <2>3. QED
    BY <2>1, <2>2 DEF ToDelete, PvOnNode
<1>5. CASE CheckBeforeCreate(w) \/ MakeVolume(w) \/ Publish(w) \/ PublishConflict(w) \/ PublishFails(w)
  <2>1. PICK s : Proceed(w, s) /\ s \notin Deleting
    BY <1>5, CheckTypes DEF CheckBeforeCreate, MakeVolume, Publish, PublishConflict,
       PublishFails
  <2>2. pc[w] \in Provisioning
    BY <1>5 DEF CheckBeforeCreate, MakeVolume, Publish, PublishConflict, PublishFails
  <2>3. QED
    BY <1>1, <2>1, <2>2
<1>6. CASE \/ CheckBeforeDelete(w) \/ PreserveVolume(w) \/ DestroyVolume(w)
           \/ Unpublish(w) \/ UnpublishFails(w)
  <2>1. PICK s : Proceed(w, s) /\ s \notin Provisioning
    BY <1>6, CheckTypes DEF CheckBeforeDelete, PreserveVolume, DestroyVolume,
       Unpublish, UnpublishFails
  <2>2. pc[w] \in Deleting
    BY <1>6 DEF CheckBeforeDelete, PreserveVolume, DestroyVolume, Unpublish,
       UnpublishFails
  <2>3. QED
    BY <1>1, <2>1, <2>2
<1>7. QED
  BY <1>2, <1>3, <1>4, <1>5, <1>6 DEF Reconcile

\* A worker goes on to publish only with the storage before it: that which it
\* made, or which it may adopt.
LEMMA ReconcilePublish ==
  ASSUME Inv, NEW w \in Workers, Reconcile(w), pc'[w] = "publish"
  PROVE  /\ job'[w] = job[w]
         /\ Present(NodeOf[w], PathOf[job[w].uid])'
         /\ \/ job[w].uid \in Adopt
            \/ CreateSucceeds(DriverOf[ClassOf[job[w].uid]], NodeOf[w],
                              PathOf[job[w].uid], job[w].uid)
<1>0. /\ WorkTypeOK /\ WorkOK /\ BackendTypeOK
  BY DEF Inv, TypeOK
<1> USE DEF Busy, Provisioning, Deleting
<1>1. ASSUME NEW s, Proceed(w, s)
      PROVE  s = "publish" /\ job'[w] = job[w]
  BY <1>0, <1>1 DEF Proceed, Goto, Returned, WorkTypeOK
<1>2. CASE CheckBeforeCreate(w)
  <2>1. PICK a \in {ExistsAnswer(NodeOf[w], PathOf[job[w].uid]),
                    ExistsFailedAnswer(DriverOf[ClassOf[job[w].uid]])} :
           Proceed(w, AfterCreateCheck(job[w].uid, a))
    BY <1>2 DEF CheckBeforeCreate
  <2>2. AfterCreateCheck(job[w].uid, a) = "publish" /\ job'[w] = job[w]
    BY <1>1, <2>1
  <2>3. a = "yes" /\ job[w].uid \in Adopt
    BY <2>2 DEF AfterCreateCheck
  <2>4. Present(NodeOf[w], PathOf[job[w].uid])
    BY <2>1, <2>3 DEF ExistsAnswer, ExistsFailedAnswer
  <2>5. vol' = vol
    BY <1>2 DEF CheckBeforeCreate, backendVars
  <2>6. QED
    BY <2>2, <2>3, <2>4, <2>5 DEF Present
<1>3. CASE MakeVolume(w)
  <2>1. CreateSucceeds(DriverOf[ClassOf[job[w].uid]], NodeOf[w], PathOf[job[w].uid], job[w].uid)
    BY <1>1, <1>3 DEF MakeVolume
  <2>2. job'[w] = job[w] /\ job[w].uid \in Uids
    BY <1>0, <1>1, <1>3 DEF MakeVolume, WorkOK
  <2>3. job[w].uid # NoVol /\ NodeOf[w] \in Nodes /\ PathOf[job[w].uid] \in Paths
    BY <2>2, BackendAssumption, ProvisionerAssumption
       DEF BackendAssumption, ProvisionerAssumption, Owners
  <2>4. vol'[NodeOf[w]][PathOf[job[w].uid]] # NoVol
    <3>1. job[w].uid \in Owners \cup {NoVol}
      BY <2>2 DEF Owners
    <3>2. QED
      BY <1>0, <2>1, <2>3, <3>1, FilledReach DEF CreateSucceeds, Present
  <2>5. QED
    BY <2>1, <2>2, <2>4 DEF Present
<1>4. CASE IgnoreItem(w) \/ RejectClaim(w) \/ SecretFails(w) \/ BeginProvision(w) \/ BeginDelete(w)
  BY <1>0, <1>4 DEF IgnoreItem, RejectClaim, SecretFails, BeginProvision,
     BeginDelete, Goto, Enter, WorkTypeOK
<1>5. CASE \/ Publish(w) \/ PublishConflict(w) \/ PublishFails(w)
           \/ CheckBeforeDelete(w) \/ PreserveVolume(w) \/ DestroyVolume(w)
           \/ Unpublish(w) \/ UnpublishFails(w)
  <2>1. PICK s : Proceed(w, s) /\ s # "publish"
    BY <1>5, CheckTypes DEF Publish, PublishConflict, PublishFails, CheckBeforeDelete,
       PreserveVolume, DestroyVolume, Unpublish, UnpublishFails
  <2>2. QED
    BY <1>1, <2>1
<1>6. QED
  BY <1>2, <1>3, <1>4, <1>5 DEF Reconcile

\* What a worker's step does to the volume objects: it publishes or removes that
\* of the claim it works for.
LEMMA ObjectEffect ==
  ASSUME Inv, NEW w \in Workers, Reconcile(w), NEW u \in Uids, pv'[u] # pv[u]
  PROVE  /\ u = job[w].uid /\ vol' = vol /\ pc'[w] \in Returned
         /\ \/ pc[w] = "publish" /\ pv[u] = NoPv /\ pv'[u] = NewPv(NodeOf[w])
            \/ pc[w] = "unpublish" /\ pv'[u] = NoPv
<1>0. WorkTypeOK /\ pv \in [Uids -> Pvs \cup {NoPv}]
  BY DEF Inv, TypeOK, ApiTypeOK
<1>1. ASSUME NEW s \in Returned, Proceed(w, s)
      PROVE  pc'[w] \in Returned
  BY <1>0, <1>1 DEF Proceed, WorkTypeOK
<1>2. CASE Publish(w) \/ Unpublish(w)
  <2>1. Proceed(w, "ok") \/ Proceed(w, "err")
    BY <1>2 DEF Publish, Unpublish
  <2>2. pc'[w] \in Returned
    BY <1>1, <2>1 DEF Returned
  <2>3. QED
    BY <1>0, <1>2, <2>2 DEF Publish, Unpublish, backendVars
<1>3. CASE \/ IgnoreItem(w) \/ RejectClaim(w) \/ SecretFails(w) \/ BeginProvision(w)
           \/ CheckBeforeCreate(w) \/ MakeVolume(w) \/ PublishConflict(w)
           \/ PublishFails(w) \/ BeginDelete(w) \/ CheckBeforeDelete(w)
           \/ PreserveVolume(w) \/ DestroyVolume(w) \/ UnpublishFails(w)
  BY <1>3 DEF IgnoreItem, RejectClaim, SecretFails, BeginProvision,
     CheckBeforeCreate, MakeVolume, PublishConflict, PublishFails, BeginDelete,
     CheckBeforeDelete, PreserveVolume, DestroyVolume, UnpublishFails, apiVars
<1>4. QED
  BY <1>2, <1>3 DEF Reconcile

LEMMA ReconcileBorn ==
  ASSUME Inv, LifeInv, NEW w \in Workers, Reconcile(w)
  PROVE  BornOK'
<1>0. BornOK /\ DoomedOK /\ WorkOK /\ UNCHANGED <<cClaim, cPv, claim, unborn>>
  BY ReconcileFrame DEF LifeInv, Inv
<1>1. ASSUME NEW x \in Workers, pc'[x] \in Busy
      PROVE  job'[x].uid \notin unborn
  <2>1. CASE x # w
    BY <1>0, <1>1, <2>1, ReconcileFrame DEF BornOK
  <2>2. CASE x = w
    <3>1. NodeOf[w] \in Nodes
      BY ProvisionerAssumption DEF ProvisionerAssumption
    <3>2. QED
      BY <1>0, <1>1, <2>2, <3>1, ReconcileJob DEF BornOK, DoomedOK, Dead
  <2>3. QED
    BY <2>1, <2>2
<1>2. ASSUME NEW u \in Uids, pv'[u] # NoPv
      PROVE  u \notin unborn
  BY <1>0, <1>2, ObjectEffect DEF BornOK, Busy, Provisioning
<1>3. QED
  BY <1>0, <1>1, <1>2 DEF BornOK

LEMMA ReconcileDoomed ==
  ASSUME Inv, LifeInv, NEW w \in Workers, Reconcile(w)
  PROVE  DoomedOK'
<1>0. BornOK /\ DoomedOK /\ WorkOK /\ UNCHANGED <<cClaim, cPv, claim, unborn>>
  BY ReconcileFrame DEF LifeInv, Inv
<1>1. \A u : Dead(u)' <=> Dead(u)
  BY <1>0 DEF Dead, Alive
<1>2. ASSUME NEW x \in Workers, pc'[x] \in Deleting
      PROVE  Dead(job'[x].uid)
  <2>1. CASE x # w
    BY <1>0, <1>2, <2>1, ReconcileFrame DEF DoomedOK
  <2>2. CASE x = w
    <3>1. NodeOf[w] \in Nodes
      BY ProvisionerAssumption DEF ProvisionerAssumption
    <3>2. QED
      BY <1>0, <1>2, <2>2, <3>1, ReconcileJob DEF DoomedOK, Busy, Deleting
  <2>3. QED
    BY <2>1, <2>2
<1>3. ASSUME NEW u \in Uids, pv'[u].phase = "Released"
      PROVE  Dead(u)
  <2>1. NewPv(NodeOf[w]).phase = "Available" /\ NoPv.phase = "absent"
    BY DEF NewPv, NoPv
  <2>2. pv'[u] = pv[u]
    BY <1>3, <2>1, ObjectEffect
  <2>3. QED
    BY <1>0, <1>3, <2>2 DEF DoomedOK
<1>4. QED
  BY <1>0, <1>1, <1>2, <1>3 DEF DoomedOK, Dead, Alive

LEMMA ReconcileBacked ==
  ASSUME DedicatedPaths, Inv, LifeInv, BackedOK, NEW w \in Workers, Reconcile(w)
  PROVE  BackedOK'
<1>0. /\ BornOK /\ DoomedOK /\ BackedOK /\ WorkOK /\ ApiTypeOK
      /\ UNCHANGED <<claim, unborn>> /\ [Next]_vars
  BY ReconcileFrame DEF LifeInv, Inv, TypeOK, Next
<1>1. ASSUME NEW u \in Uids, NEW n \in Nodes, Dead(u) \/ Present(n, PathOf[u])
      PROVE  (Dead(u) \/ Present(n, PathOf[u]))'
  <2>1. CASE Dead(u)
    BY <1>0, <2>1, DeadStays
  <2>2. CASE ~Dead(u)
    BY <1>0, <1>1, <2>2, StorageStays DEF Present
  <2>3. QED
    BY <2>1, <2>2
<1>2. \A x \in Workers : NodeOf[x] \in Nodes
  BY ProvisionerAssumption DEF ProvisionerAssumption
<1>3. ASSUME NEW x \in Workers, pc'[x] = "publish"
      PROVE  (Dead(job[x].uid) \/ Present(NodeOf[x], PathOf[job[x].uid]))'
  <2>1. CASE x # w
    <3>1. /\ job'[x] = job[x] /\ pc[x] = "publish" /\ job[x].uid \in Uids
      BY <1>0, <1>3, <2>1, ReconcileFrame DEF WorkOK, Busy, Provisioning
    <3>2. Dead(job[x].uid) \/ Present(NodeOf[x], PathOf[job[x].uid])
      BY <1>0, <3>1 DEF BackedOK
    <3>3. QED
      BY <1>1, <1>2, <3>1, <3>2 DEF Dead, Alive, Present
  <2>2. CASE x = w
    BY <1>3, <2>2, ReconcilePublish
  <2>3. QED
    BY <2>1, <2>2
<1>4. ASSUME NEW u \in Uids, pv'[u] # NoPv
      PROVE  (Dead(u) \/ Present(pv[u].node, PathOf[u]))'
  <2>1. CASE pv'[u] = pv[u]
    <3>1. pv[u].node \in Nodes /\ (Dead(u) \/ Present(pv[u].node, PathOf[u]))
      BY <1>0, <1>4, <2>1 DEF BackedOK, ApiTypeOK, Pvs
    <3>2. QED
      BY <1>1, <2>1, <3>1 DEF Dead, Alive, Present
  <2>2. CASE pv'[u] # pv[u]
    <3>0. pc[w] = "publish" /\ u = job[w].uid /\ pv'[u] = NewPv(NodeOf[w])
      BY <1>4, <2>2, ObjectEffect
    <3>1. pc[w] = "publish" /\ u = job[w].uid /\ pv'[u].node = NodeOf[w]
      BY <3>0 DEF NewPv
    <3>2. Dead(u) \/ Present(NodeOf[w], PathOf[u])
      BY <1>0, <3>1 DEF BackedOK
    <3>3. QED
      BY <1>1, <1>2, <3>1, <3>2 DEF Dead, Alive, Present
  <2>3. QED
    BY <2>1, <2>2
<1>5. QED
  BY <1>3, <1>4 DEF BackedOK, Dead, Alive, Present

-----------------------------------------------------------------------------
(* Every other step leaves the storage alone, makes no worker busy, makes  *)
(* and removes no object, changes none that is Released, and caches only   *)
(* what the API holds.                                                     *)

Quiet ==
    /\ vol' = vol /\ kept' = kept /\ faults' = faults
    /\ \A x \in Workers : pc'[x] \in Busy => pc'[x] = pc[x] /\ job'[x] = job[x]
    /\ \A u \in Uids : pv'[u] # pv[u] =>
          /\ pv[u] # NoPv /\ pv'[u] # NoPv
          /\ pv[u].phase # "Released" /\ pv'[u].node = pv[u].node
    /\ \A n \in Nodes, u \in Uids : cPv'[n][u] \in {cPv[n][u], pv[u]}
    /\ \A n \in Nodes, nm \in Names : cClaim'[n][nm] \in {cClaim[n][nm], claim[nm]}

Others ==
    \/ Queueing \/ Informing \/ (\E n \in Nodes : Restart(n)) \/ Environment
    \/ UNCHANGED vars

LEMMA QuietSteps == ASSUME Inv, Others PROVE Quiet
<1> USE DEF Busy, Provisioning, Deleting
<1>0. WorkTypeOK /\ CacheTypeOK /\ ApiTypeOK
  BY DEF Inv, TypeOK
<1>1. CASE Queueing
  <2>1. ASSUME NEW w \in Workers, NEW s \in {"start", "idle"}, Goto(w, s)
        PROVE  \A x \in Workers : pc'[x] \in Busy => pc'[x] = pc[x] /\ job'[x] = job[x]
    BY <1>0, <2>1 DEF Goto, WorkTypeOK
  <2>2. \/ \E w \in Workers, s \in {"start", "idle"} : Goto(w, s)
        \/ UNCHANGED workVars
    BY <1>1 DEF Queueing, TakeItem, ReturnItem, Expires
  <2>3. \A x \in Workers : pc'[x] \in Busy => pc'[x] = pc[x] /\ job'[x] = job[x]
    BY <2>1, <2>2 DEF workVars
  <2>4. QED
    BY <1>1, <2>3 DEF Queueing, Quiet, backendVars, apiVars, cacheVars, budgetVars
<1>2. CASE Informing
  <2>1. \A n \in Nodes, u \in Uids : cPv'[n][u] \in {cPv[n][u], pv[u]}
    <3>1. \/ \E m \in Nodes, v \in Uids : cPv' = [cPv EXCEPT ![m][v] = pv[v]]
          \/ cPv' = cPv
      BY <1>2 DEF Informing, DeliverClaim, DeliverVolume, DeliverClass, Resync, cacheVars
    <3>2. QED
      BY <1>0, <3>1 DEF CacheTypeOK
  <2>2. \A n \in Nodes, nm \in Names : cClaim'[n][nm] \in {cClaim[n][nm], claim[nm]}
    <3>1. \/ \E m \in Nodes, x \in Names : cClaim' = [cClaim EXCEPT ![m][x] = claim[x]]
          \/ cClaim' = cClaim
      BY <1>2 DEF Informing, DeliverClaim, DeliverVolume, DeliverClass, Resync, cacheVars
    <3>2. QED
      BY <1>0, <3>1 DEF CacheTypeOK
  <2>3. QED
    BY <1>2, <2>1, <2>2 DEF Informing, Quiet, backendVars, apiVars, workVars, budgetVars
<1>3. ASSUME NEW n \in Nodes, Restart(n)
      PROVE  Quiet
  <2>1. \A m \in Nodes, u \in Uids : cPv'[m][u] \in {cPv[m][u], pv[u]}
    BY <1>0, <1>3 DEF Restart, CacheTypeOK
  <2>2. \A m \in Nodes, nm \in Names : cClaim'[m][nm] \in {cClaim[m][nm], claim[nm]}
    BY <1>0, <1>3 DEF Restart, CacheTypeOK
  <2>3. \A x \in Workers : pc'[x] \in Busy => pc'[x] = pc[x] /\ job'[x] = job[x]
    BY <1>3 DEF Restart
  <2>4. QED
    BY <1>3, <2>1, <2>2, <2>3 DEF Restart, Quiet, backendVars, apiVars
<1>4. CASE Environment
  <2>1. ASSUME NEW v \in Uids, Bind(v) \/ Release(v) \/ AnnotateVolume(v),
               NEW u \in Uids, pv'[u] # pv[u]
        PROVE  /\ pv[u] # NoPv /\ pv'[u] # NoPv
               /\ pv[u].phase # "Released" /\ pv'[u].node = pv[u].node
    BY <1>0, <2>1 DEF Bind, Release, AnnotateVolume, ApiTypeOK, Pvs, NoPv
  <2>2. \/ pv' = pv
        \/ \E v \in Uids : Bind(v) \/ Release(v) \/ AnnotateVolume(v)
    BY <1>4 DEF Environment, CreateClass, CreateClaim, DeleteClaim, SelectNode
  <2>3. QED
    BY <1>4, <2>1, <2>2 DEF Environment, Quiet, backendVars, cacheVars, workVars,
       budgetVars
<1>5. CASE UNCHANGED vars
  BY <1>5 DEF vars, Quiet, backendVars, apiVars, cacheVars, workVars, budgetVars
<1>6. QED
  BY <1>1, <1>2, <1>3, <1>4, <1>5 DEF Others

\* A quiet step keeps the invariant if it names, ages and releases claims rightly.
LEMMA QuietLife ==
  ASSUME Inv, LifeInv, [Next]_vars, Quiet,
         \A u \in Uids : pv'[u].phase = "Released" => Dead(u)',
         unborn' \subseteq unborn,
         \A nm \in Names : claim'[nm] # NoClaim =>
             NameOf[claim'[nm].uid] = nm /\ claim'[nm].uid \notin unborn'
  PROVE  LifeInv'
<1> USE DEF Quiet
<1>0. BornOK /\ DoomedOK /\ ApiTypeOK /\ CacheTypeOK /\ WorkTypeOK /\ WorkOK
  BY DEF LifeInv, Inv, TypeOK
<1>1. ASSUME NEW u \in Uids, Dead(u)
      PROVE  Dead(u)'
  BY <1>0, <1>1, DeadStays
<1>2. BornOK'
  <2>1. \A n \in Nodes, nm \in Names : cClaim'[n][nm].uid \notin unborn'
    <3>1. ASSUME NEW nm \in Names PROVE claim[nm].uid \notin unborn
      <4>1. CASE claim[nm] = NoClaim
        BY <1>0, <4>1, ProvisionerAssumption DEF ProvisionerAssumption, ApiTypeOK, NoClaim
      <4>2. QED
        BY <1>0, <4>1 DEF BornOK
    <3>2. QED
      BY <1>0, <3>1 DEF BornOK
  <2>2. \A x \in Workers : pc'[x] \in Busy => job'[x].uid \notin unborn'
    BY <1>0 DEF BornOK
  <2>3. \A u \in Uids : pv'[u] # NoPv => u \notin unborn'
    BY <1>0 DEF BornOK
  <2>4. QED
    BY <2>1, <2>2, <2>3 DEF BornOK
<1>3. DoomedOK'
  <2>1. \A n \in Nodes, u \in Uids : cPv'[n][u].phase = "Released" => Dead(u)'
    BY <1>0, <1>1 DEF DoomedOK
  <2>2. ASSUME NEW x \in Workers, pc'[x] \in Deleting
        PROVE  Dead(job[x].uid)'
    <3>1. pc[x] \in Deleting /\ job'[x] = job[x] /\ job[x].uid \in Uids
      BY <1>0, <2>2 DEF Busy, WorkOK
    <3>2. Dead(job[x].uid)
      BY <1>0, <3>1 DEF DoomedOK
    <3>3. QED
      BY <1>1, <3>1, <3>2 DEF Dead, Alive
  <2>3. QED
    BY <2>1, <2>2 DEF DoomedOK, Busy, Dead, Alive
<1>4. QED
  BY <1>2, <1>3 DEF LifeInv

\* Nor does a quiet step take storage away.
LEMMA QuietBacked ==
  ASSUME Inv, LifeInv, BackedOK, [Next]_vars, Quiet
  PROVE  BackedOK'
<1> USE DEF Quiet
<1>0. BornOK /\ WorkOK
  BY DEF LifeInv, Inv
<1>1. ASSUME NEW u \in Uids, NEW n, Dead(u) \/ Present(n, PathOf[u])
      PROVE  (Dead(u) \/ Present(n, PathOf[u]))'
  BY <1>0, <1>1, DeadStays DEF Present
<1>2. ASSUME NEW x \in Workers, pc'[x] = "publish"
      PROVE  (Dead(job[x].uid) \/ Present(NodeOf[x], PathOf[job[x].uid]))'
  <2>1. pc[x] = "publish" /\ job'[x] = job[x] /\ job[x].uid \in Uids
    BY <1>0, <1>2 DEF Busy, Provisioning, WorkOK
  <2>2. Dead(job[x].uid) \/ Present(NodeOf[x], PathOf[job[x].uid])
    BY <2>1 DEF BackedOK
  <2>3. QED
    BY <1>1, <2>1, <2>2 DEF Dead, Alive, Present
<1>3. ASSUME NEW u \in Uids, pv'[u] # NoPv
      PROVE  (Dead(u) \/ Present(pv[u].node, PathOf[u]))'
  <2>1. /\ pv[u] # NoPv /\ pv'[u].node = pv[u].node
        /\ Dead(u) \/ Present(pv[u].node, PathOf[u])
    BY <1>3 DEF BackedOK
  <2>2. QED
    BY <1>1, <2>1 DEF Dead, Alive, Present
<1>4. QED
  BY <1>2, <1>3 DEF BackedOK, Dead, Alive, Present, Busy, Provisioning

LEMMA EnvironmentLife ==
  ASSUME Inv, LifeInv, Environment
  PROVE  LifeInv'
<1> USE ProvisionerAssumption DEF ProvisionerAssumption
<1>0. /\ ApiTypeOK /\ BornOK /\ DoomedOK /\ [Next]_vars
      /\ UNCHANGED <<cClaim, cPv, pc, job>>
  BY DEF Inv, TypeOK, LifeInv, Next, Environment, cacheVars, workVars
<1> DEFINE Claimed == /\ unborn' \subseteq unborn
                      /\ \A nm \in Names : claim'[nm] # NoClaim =>
                            NameOf[claim'[nm].uid] = nm /\ claim'[nm].uid \notin unborn'
           Made == \A u \in Uids : pv'[u].phase = "Released" => Dead(u)'
<1>1. ASSUME UNCHANGED <<claim, unborn>>
      PROVE  Claimed /\ \A u \in Uids : Dead(u)' <=> Dead(u)
  BY <1>0, <1>1 DEF BornOK, Dead, Alive
<1>2. ASSUME UNCHANGED pv PROVE Made
  <2>1. \A u \in Uids : Dead(u) => Dead(u)'
    BY <1>0, DeadStays
  <2>2. QED
    BY <1>0, <1>2, <2>1 DEF DoomedOK
<1>3. ASSUME NEW c \in Classes, CreateClass(c) PROVE Claimed /\ Made
  BY <1>1, <1>2, <1>3 DEF CreateClass
<1>4. ASSUME NEW u \in Uids, CreateClaim(u) PROVE Claimed /\ Made
  <2>1. Claimed
    BY <1>0, <1>4 DEF CreateClaim, ApiTypeOK, BornOK
  <2>2. QED
    BY <1>2, <1>4, <2>1 DEF CreateClaim
<1>5. ASSUME NEW u \in Uids, DeleteClaim(u) PROVE Claimed /\ Made
  <2>1. Claimed
    BY <1>0, <1>5 DEF DeleteClaim, ApiTypeOK, BornOK
  <2>2. QED
    BY <1>2, <1>5, <2>1 DEF DeleteClaim
<1>6. ASSUME NEW u \in Uids, NEW n \in Nodes, SelectNode(u, n) PROVE Claimed /\ Made
  <2>1. claim[NameOf[u]] # NoClaim
    BY <1>6 DEF SelectNode, Alive, NoClaim
  <2>2. Claimed
    BY <1>0, <1>6, <2>1 DEF SelectNode, ApiTypeOK, BornOK, Claims
  <2>3. QED
    BY <1>2, <1>6, <2>2 DEF SelectNode
<1>7. ASSUME NEW u \in Uids, Bind(u) PROVE Claimed /\ Made
  <2>1. claim[NameOf[u]] # NoClaim /\ pv[u] # NoPv
    BY <1>7 DEF Bind, Alive, NoClaim, NoPv
  <2>2. Claimed
    BY <1>0, <1>7, <2>1 DEF Bind, ApiTypeOK, BornOK, Claims
  <2>3. \A v \in Uids : Dead(v) => Dead(v)'
    BY <1>0, DeadStays
  <2>4. Made
    BY <1>0, <1>7, <2>1, <2>3 DEF Bind, ApiTypeOK, DoomedOK, Pvs
  <2>5. QED
    BY <2>2, <2>4
<1>8. ASSUME NEW u \in Uids, Release(u) \/ AnnotateVolume(u) PROVE Claimed /\ Made
  <2>1. UNCHANGED <<claim, unborn>> /\ pv[u] # NoPv /\ u \notin unborn
    BY <1>0, <1>8 DEF Release, AnnotateVolume, NoPv, BornOK
  <2>2. Claimed /\ \A v \in Uids : Dead(v)' <=> Dead(v)
    BY <1>1, <2>1
  <2>3. pv'[u].phase = "Released" => Dead(u)
    BY <1>0, <1>8, <2>1 DEF Release, AnnotateVolume, ApiTypeOK, Pvs, Dead
  <2>4. \A v \in Uids \ {u} : pv'[v] = pv[v]
    BY <1>0, <1>8 DEF Release, AnnotateVolume, ApiTypeOK
  <2>5. Made
    BY <1>0, <2>1, <2>2, <2>3, <2>4 DEF DoomedOK
  <2>6. QED
    BY <2>2, <2>5
<1>9. Claimed /\ Made
  BY <1>3, <1>4, <1>5, <1>6, <1>7, <1>8 DEF Environment
<1>10. QED
  BY <1>0, <1>9, QuietSteps, QuietLife DEF Others

-----------------------------------------------------------------------------

LEMMA LifeInvariant == Spec => [](Inv /\ LifeInv)
<1>1. Init => Inv /\ LifeInv
  BY InitInv, LifeInit
<1>2. Inv /\ LifeInv /\ [Next]_vars => (Inv /\ LifeInv)'
  <2> SUFFICES ASSUME Inv, LifeInv, [Next]_vars PROVE Inv' /\ LifeInv'
    OBVIOUS
  <2>1. Inv'
    BY NextInv
  <2>2. ASSUME NEW w \in Workers, Reconcile(w) PROVE LifeInv'
    BY <2>2, ReconcileBorn, ReconcileDoomed DEF LifeInv
  <2>3. ASSUME Queueing \/ Informing \/ (\E n \in Nodes : Restart(n)) \/ UNCHANGED vars
        PROVE  LifeInv'
    <3>1. UNCHANGED <<claim, pv, unborn>>
      BY <2>3 DEF Queueing, Informing, Restart, vars, apiVars
    <3>2. \A u \in Uids : pv'[u].phase = "Released" => Dead(u)'
      BY <3>1 DEF LifeInv, DoomedOK, Dead, Alive
    <3>3. QED
      BY <2>3, <3>1, <3>2, QuietSteps, QuietLife DEF Others, LifeInv, BornOK
  <2>4. ASSUME Environment PROVE LifeInv'
    BY <2>4, EnvironmentLife
  <2>5. QED
    BY <2>1, <2>2, <2>3, <2>4 DEF Next
<1>3. QED
  BY <1>1, <1>2, PTL DEF Spec

LEMMA BackedInvariant == DedicatedPaths => (Spec => []BackedOK)
<1> SUFFICES ASSUME DedicatedPaths PROVE Spec => []BackedOK
  OBVIOUS
<1>1. Init => BackedOK
  BY LifeInit
<1>2. Inv /\ LifeInv /\ BackedOK /\ [Next]_vars => BackedOK'
  <2> SUFFICES ASSUME Inv, LifeInv, BackedOK, [Next]_vars PROVE BackedOK'
    OBVIOUS
  <2>1. ASSUME NEW w \in Workers, Reconcile(w) PROVE BackedOK'
    BY <2>1, ReconcileBacked
  <2>2. CASE Others
    BY <2>2, QuietSteps, QuietBacked
  <2>3. QED
    BY <2>1, <2>2 DEF Next, Others
<1>3. QED
  BY <1>1, <1>2, LifeInvariant, PTL DEF Spec

\* A published volume of a claim that still exists points at existing storage,
\* whatever fails or restarts and however stale the caches are, when no two
\* claims share a path (Create before publish, Delete only of Released volumes).
THEOREM LiveClaimBackedHolds == DedicatedPaths => (Spec => []LiveClaimBacked)
<1> SUFFICES ASSUME DedicatedPaths PROVE Spec => []LiveClaimBacked
  OBVIOUS
<1>1. BackedOK => LiveClaimBacked
  BY DEF BackedOK, LiveClaimBacked, Dead
<1>2. QED
  BY <1>1, BackedInvariant, PTL

\* And the data written for a claim stays where it is until the claim is gone:
\* no Create overwrites it and no Delete reaches it.
THEOREM LiveDataKeptHolds == DedicatedPaths => (Spec => LiveDataKept)
<1> SUFFICES ASSUME DedicatedPaths PROVE Spec => LiveDataKept
  OBVIOUS
<1> DEFINE Kept == \A u \in Uids, n \in Nodes :
          Alive(u) /\ vol[n][PathOf[u]] = u => vol'[n][PathOf[u]] = u
<1>1. Inv /\ LifeInv /\ [Next]_vars => [Kept]_vars
  <2> SUFFICES ASSUME Inv, LifeInv, [Next]_vars,
                      NEW u \in Uids, NEW n \in Nodes,
                      Alive(u), vol[n][PathOf[u]] = u
               PROVE  vol'[n][PathOf[u]] = u
    OBVIOUS
  <2>1. u # NoVol
    BY BackendAssumption DEF BackendAssumption, Owners
  <2>2. Present(n, PathOf[u]) /\ ~Dead(u)
    BY <2>1 DEF Present, Dead
  <2>3. QED
    BY <2>2, StorageStays DEF LifeInv
<1>2. Spec => [][Kept]_vars
  BY <1>1, LifeInvariant, PTL DEF Spec
<1>3. QED
  BY <1>2 DEF LiveDataKept

\* Without any proviso: the object of a claim that still exists is never removed.
\* Only what a cache, however old, calls Released is deleted, and the binder
\* releases a volume only once its claim is gone for good (processPV).
THEOREM LiveObjectKeptHolds == Spec => LiveObjectKept
<1> DEFINE Kept == \A u \in Uids : Alive(u) /\ pv[u] # NoPv => pv'[u] # NoPv
<1>1. Inv /\ LifeInv /\ [Next]_vars => [Kept]_vars
  <2> SUFFICES ASSUME Inv, LifeInv, [Next]_vars, NEW u \in Uids,
                      Alive(u), pv[u] # NoPv, pv'[u] = NoPv
               PROVE  FALSE
    OBVIOUS
  <2>1. ASSUME NEW w \in Workers, Reconcile(w)
        PROVE  FALSE
    <3>1. pc[w] = "unpublish" /\ u = job[w].uid
      BY <2>1, ObjectEffect
    <3>2. Dead(u)
      BY <3>1 DEF LifeInv, DoomedOK, Deleting
    <3>3. QED
      BY <3>2 DEF Dead
  <2>2. QED
    BY <2>1, QuietSteps DEF Next, Others, Quiet
<1>2. Spec => [][Kept]_vars
  BY <1>1, LifeInvariant, PTL DEF Spec
<1>3. QED
  BY <1>2 DEF LiveObjectKept

-----------------------------------------------------------------------------
(* No work is forgotten.  An item that is waiting, backing off or with a   *)
(* worker that has not asked the caches yet, or that works for the claim   *)
(* in question, is as good as done unless something fails.  What the       *)
(* caches learn is queued; what a worker is told to do it does not return  *)
(* from before it is done; and the caches know no volume that is gone, so  *)
(* that none of them makes a worker pass over a claim without one.         *)

Held(i, S, u) ==
    \/ i \in dirty \cup delayed
    \/ \E w \in Workers :
          /\ holding[w] = i
          /\ pc[w] = "start" \/ (pc[w] \in S /\ job[w].uid = u)

\* A volume that a cache holds is there, or its claim is gone.
CachedOK == \A n \in Nodes, u \in Uids : cPv[n][u] # NoPv => pv[u] # NoPv \/ Dead(u)

ClaimsHeld ==
    faults = 0 => \A n \in Nodes, u \in Uids :
        DueClaim(n, u) => Held(<<n, NameOf[u]>>, Provisioning, u)

\* Until its node restarts, an item stays in hand through every step but its own.
LEMMA HeldKept ==
  ASSUME Inv, Others, NEW i \in Items, ~Restart(i[1]),
         NEW u, NEW S \in {Provisioning, Deleting}, Held(i, S, u)
  PROVE  Held(i, S, u)'
<1> USE DEF Held, Provisioning, Deleting
<1>0. WorkTypeOK /\ WorkOK /\ QueueTypeOK
  BY DEF Inv, TypeOK
<1>1. ASSUME NEW w \in Workers, NEW j \in Items, TakeItem(w, j)
      PROVE  Held(i, S, u)'
  <2>1. /\ dirty \ {j} \subseteq dirty' /\ delayed' = delayed /\ pc[w] = "idle"
        /\ holding'[w] = j /\ pc'[w] = "start"
        /\ \A x \in Workers \ {w} : holding'[x] = holding[x] /\ pc'[x] = pc[x] /\ job'[x] = job[x]
    BY <1>0, <1>1 DEF TakeItem, Get, Goto, WorkTypeOK, QueueTypeOK
  <2>2. CASE i \in delayed \/ i \in dirty \ {j}
    BY <2>1, <2>2
  <2>3. CASE i = j
    <3>1. holding'[w] = i /\ pc'[w] = "start"
      BY <2>1, <2>3
    <3>2. QED
      BY <3>1
  <2>4. CASE \E x \in Workers : holding[x] = i /\ (pc[x] = "start" \/ (pc[x] \in S /\ job[x].uid = u))
    BY <2>1, <2>4
  <2>5. QED
    BY <2>2, <2>3, <2>4
<1>2. ASSUME NEW w \in Workers, ReturnItem(w)
      PROVE  Held(i, S, u)'
  <2>1. /\ dirty' = dirty /\ delayed \subseteq delayed' /\ pc[w] \in {"ok", "err"}
        /\ holding' = [holding EXCEPT ![w] = NoItem] /\ Goto(w, "idle")
    BY <1>2 DEF ReturnItem, FinishOk, FinishRetry, FinishGiveUp
  <2>2. \A x \in Workers \ {w} : holding'[x] = holding[x] /\ pc'[x] = pc[x] /\ job'[x] = job[x]
    BY <1>0, <2>1 DEF Goto, WorkTypeOK, QueueTypeOK
  <2>3. QED
    BY <2>1, <2>2
<1>3. ASSUME NEW j \in Items, Expires(j)
      PROVE  Held(i, S, u)'
  BY <1>3 DEF Expires, Expire, workVars
<1>4. CASE Informing
  <2>1. PICK T \in SUBSET Items : Add(T)
    BY <1>4, InformingAdds
  <2>2. QED
    BY <1>4, <2>1 DEF Informing, Add, workVars
<1>5. ASSUME NEW n \in Nodes, Restart(n)
      PROVE  Held(i, S, u)'
  <2>1. n # i[1] /\ i \notin {n} \X Keys
    BY <1>5, ProvisionerAssumption DEF ProvisionerAssumption
  <2>2. /\ dirty \ ({n} \X Keys) \subseteq dirty' /\ delayed \ ({n} \X Keys) \subseteq delayed'
        /\ \A x \in Workers : NodeOf[x] # n =>
              holding'[x] = holding[x] /\ pc'[x] = pc[x] /\ job'[x] = job[x]
    BY <1>5 DEF Restart, Reset
  <2>3. \A x \in Workers : holding[x] = i => NodeOf[x] # n
    BY <1>0, <2>1, QueueAssumption DEF WorkOK, QueueAssumption
  <2>4. QED
    BY <2>1, <2>2, <2>3
<1>6. CASE Environment \/ UNCHANGED vars
  BY <1>6 DEF Environment, vars, queueVars, workVars
<1>7. QED
  BY <1>1, <1>2, <1>3, <1>4, <1>5, <1>6 DEF Others, Queueing

\* Whatever a node's caches learn is queued there, and so is, when it restarts,
\* all that exists.
LEMMA NewsQueued ==
  ASSUME Inv, Others, NEW n \in Nodes
  PROVE  /\ \A nm \in Names :
               /\ cClaim'[n][nm] # NoClaim
               /\ \/ cClaim'[n][nm] # cClaim[n][nm] \/ Restart(n)
                  \/ ClassOf[cClaim'[n][nm].uid] \in cClass'[n] \ cClass[n]
               => <<n, nm>> \in dirty'
         /\ \A u \in Uids :
               cPv'[n][u] # NoPv /\ (cPv'[n][u] # cPv[n][u] \/ Restart(n)) =>
                  <<n, u>> \in dirty'
<1> DEFINE Queued ==
             /\ \A nm \in Names :
                   /\ cClaim'[n][nm] # NoClaim
                   /\ \/ cClaim'[n][nm] # cClaim[n][nm]
                      \/ ClassOf[cClaim'[n][nm].uid] \in cClass'[n] \ cClass[n]
                   => <<n, nm>> \in dirty'
             /\ \A u \in Uids :
                   cPv'[n][u] # NoPv /\ cPv'[n][u] # cPv[n][u] => <<n, u>> \in dirty'
<1>0. CacheTypeOK
  BY DEF Inv, TypeOK
<1>1. CASE Restart(n)
  <2>1. /\ cClaim'[n] = claim /\ cPv'[n] = pv
        /\ \A nm \in Names : claim[nm] # NoClaim => <<n, nm>> \in dirty'
        /\ \A u \in Uids : pv[u] # NoPv => <<n, u>> \in dirty'
    BY <1>0, <1>1 DEF Restart, Reset, CacheTypeOK
  <2>2. QED
    BY <2>1
<1>2. ASSUME NEW m \in Nodes, m # n, Restart(m)
      PROVE  UNCHANGED <<cClaim[n], cPv[n], cClass[n]>>
  BY <1>0, <1>2 DEF Restart, CacheTypeOK
<1>3. ASSUME NEW m \in Nodes, NEW x \in Names, DeliverClaim(m, x)
      PROVE  Queued
  <2>1. /\ \A nm \in Names : cClaim'[n][nm] # cClaim[n][nm] => n = m /\ nm = x
        /\ cClaim'[m][x] = claim[x] /\ UNCHANGED <<cPv, cClass>>
        /\ claim[x] # NoClaim => <<m, x>> \in dirty'
    BY <1>0, <1>3 DEF DeliverClaim, CacheTypeOK, Add
  <2>2. QED
    BY <2>1
<1>4. ASSUME NEW m \in Nodes, NEW v \in Uids, DeliverVolume(m, v)
      PROVE  Queued
  <2>1. /\ \A u \in Uids : cPv'[n][u] # cPv[n][u] => n = m /\ u = v
        /\ cPv'[m][v] = pv[v] /\ UNCHANGED <<cClaim, cClass>>
        /\ pv[v] # NoPv => <<m, v>> \in dirty'
    BY <1>0, <1>4 DEF DeliverVolume, CacheTypeOK, Add
  <2>2. QED
    BY <2>1
<1>5. ASSUME NEW m \in Nodes, NEW c \in Classes, DeliverClass(m, c)
      PROVE  Queued
  <2>1. /\ \A d \in cClass'[n] \ cClass[n] : n = m /\ d = c
        /\ UNCHANGED <<cClaim, cPv>>
        /\ \A nm \in ClaimsOf(m, c) : <<m, nm>> \in dirty'
    BY <1>0, <1>5 DEF DeliverClass, CacheTypeOK, Add
  <2>2. QED
    BY <2>1 DEF ClaimsOf
<1>6. ASSUME UNCHANGED cacheVars
      PROVE  Queued
  BY <1>6 DEF cacheVars
<1>7. Restart(n) \/ Queued
  <2>1. ASSUME NEW m \in Nodes, NEW k \in Keys, Resync(m, k)
        PROVE  Queued
    BY <1>6, <2>1 DEF Resync
  <2>2. CASE Informing
    BY <1>3, <1>4, <1>5, <2>1, <2>2 DEF Informing
  <2>3. CASE Queueing \/ Environment \/ UNCHANGED vars
    BY <1>6, <2>3 DEF Queueing, Environment, vars
  <2>4. CASE \E m \in Nodes : Restart(m)
    BY <1>2, <2>4
  <2>5. QED
    BY <2>2, <2>3, <2>4 DEF Others
<1>8. QED
  BY <1>1, <1>7

LEMMA NextCached ==
  ASSUME Inv, LifeInv, CachedOK, [Next]_vars
  PROVE  CachedOK'
<1> SUFFICES ASSUME NEW n \in Nodes, NEW u \in Uids, cPv'[n][u] # NoPv, pv'[u] = NoPv
             PROVE  Dead(u)'
  BY DEF CachedOK
<1>1. ASSUME NEW w \in Workers, Reconcile(w)
      PROVE  Dead(u)
  <2>1. CASE pv[u] = NoPv
    BY <1>1, <2>1, ReconcileFrame DEF CachedOK
  <2>2. CASE pv[u] # NoPv
    <3>1. pc[w] = "unpublish" /\ u = job[w].uid
      BY <1>1, <2>2, ObjectEffect
    <3>2. QED
      BY <3>1 DEF LifeInv, DoomedOK, Deleting
  <2>3. QED
    BY <2>1, <2>2
<1>2. ASSUME Others
      PROVE  Dead(u)
  BY <1>2, QuietSteps DEF Quiet, CachedOK
<1>3. Dead(u)
  BY <1>1, <1>2 DEF Next, Others
<1>4. QED
  BY <1>3, DeadStays DEF LifeInv

\* A reconcile that was told to provision a due claim goes on until it has.
LEMMA ProvisionGoesOn ==
  ASSUME Inv, Exclusion, GuardOK, CachedOK, NEW w \in Workers, Reconcile(w), faults' = 0,
         NEW n \in Nodes, NEW u \in Uids, DueClaim(n, u), pv'[u] = NoPv,
         holding[w] = <<n, NameOf[u]>>,
         pc[w] = "start" \/ (pc[w] \in Provisioning /\ job[w].uid = u)
  PROVE  pc'[w] \in Provisioning /\ job'[w].uid = u
<1> USE DEF Provisioning
<1>0. /\ WorkTypeOK /\ WorkOK /\ BudgetTypeOK /\ CacheTypeOK
      /\ NameOf[u] \in Names /\ NameOf[u] \notin Uids
      /\ NodeOf[w] = n
  BY ProvisionerAssumption DEF ProvisionerAssumption, Inv, TypeOK, WorkOK
<1>1. ~Fault
  BY <1>0 DEF Fault, BudgetTypeOK
<1>2. ASSUME NEW s \in Provisioning, Proceed(w, s)
      PROVE  pc'[w] = s /\ job'[w] = job[w]
  BY <1>0, <1>2 DEF Proceed, Goto, Returned, WorkTypeOK
<1>3. CASE pc[w] = "start"
  <2>1. NameOf[u] \notin inProgress[n]
    BY <1>0, <1>3, GuardFree DEF GuardNeverRefuses
  <2>2. cPv[n][u] = NoPv
    BY DEF DueClaim, CachedOK, Dead
  <2>3. ToProvision(n, NameOf[u]) /\ cClaim[n][NameOf[u]].uid = u /\ u \notin Rejected
    BY <2>1, <2>2 DEF DueClaim, ToProvision
  <2>4. BeginProvision(w)
    BY <1>0, <1>1, <1>3, <2>3 DEF Reconcile, IgnoreItem, RejectClaim, SecretFails,
       CheckBeforeCreate, MakeVolume, Publish, PublishConflict, PublishFails, BeginDelete,
       CheckBeforeDelete, PreserveVolume, DestroyVolume, Unpublish, UnpublishFails
  <2>5. Enter(w, [uid |-> u, snap |-> FALSE], "exists")
    <3>1. holding[w][2] = NameOf[u]
      OBVIOUS
    <3>2. QED
      BY <1>0, <2>3, <2>4, <3>1 DEF BeginProvision
  <2>6. QED
    BY <1>0, <2>5 DEF Enter, WorkTypeOK
<1>4. CASE pc[w] = "exists"
  <2>1. CheckBeforeCreate(w)
    BY <1>4 DEF Reconcile, IgnoreItem, RejectClaim, SecretFails, BeginProvision,
       MakeVolume, Publish, PublishConflict, PublishFails, BeginDelete,
       CheckBeforeDelete, PreserveVolume, DestroyVolume, Unpublish, UnpublishFails
  <2>2. Proceed(w, AfterCreateCheck(u, ExistsAnswer(NodeOf[w], PathOf[u])))
    BY <1>1, <1>4, <2>1 DEF CheckBeforeCreate
  <2>3. AfterCreateCheck(u, ExistsAnswer(NodeOf[w], PathOf[u])) \in {"make", "publish"}
    BY DEF DueClaim, AfterCreateCheck, ExistsAnswer
  <2>4. QED
    BY <1>2, <1>4, <2>2, <2>3
<1>5. CASE pc[w] = "make"
  <2>1. MakeVolume(w)
    BY <1>5 DEF Reconcile, IgnoreItem, RejectClaim, SecretFails, BeginProvision,
       CheckBeforeCreate, Publish, PublishConflict, PublishFails, BeginDelete,
       CheckBeforeDelete, PreserveVolume, DestroyVolume, Unpublish, UnpublishFails
  <2>2. Proceed(w, "publish")
    BY <1>1, <1>5, <2>1 DEF MakeVolume, CreateRefused, DueClaim
  <2>3. QED
    BY <1>2, <1>5, <2>2
<1>6. pc[w] # "publish"
  <2> SUFFICES ASSUME pc[w] = "publish" PROVE FALSE
    OBVIOUS
  <2>1. Publish(w)
    BY <1>1 DEF DueClaim, Reconcile, IgnoreItem, RejectClaim, SecretFails, BeginProvision,
       CheckBeforeCreate, MakeVolume, PublishConflict, PublishFails, BeginDelete,
       CheckBeforeDelete, PreserveVolume, DestroyVolume, Unpublish, UnpublishFails
  <2>2. pv'[u] = NewPv(NodeOf[w])
    BY <2>1 DEF Publish, Inv, TypeOK, ApiTypeOK
  <2>3. QED
    BY <2>2 DEF NewPv, NoPv
<1>7. QED
  BY <1>3, <1>4, <1>5, <1>6

LEMMA ReconcileClaimsHeld ==
  ASSUME Inv, Exclusion, GuardOK, LifeInv, CachedOK, ClaimsHeld, NEW w \in Workers, Reconcile(w)
  PROVE  ClaimsHeld'
<1> SUFFICES ASSUME faults' = 0, NEW n \in Nodes, NEW u \in Uids, DueClaim(n, u)'
             PROVE  Held(<<n, NameOf[u]>>, Provisioning, u)'
  BY DEF ClaimsHeld
<1>0. /\ UNCHANGED <<queueVars, cClaim, cPv, cClass, claim, unborn>>
      /\ \A x \in Workers \ {w} : pc'[x] = pc[x] /\ job'[x] = job[x]
  BY ReconcileFrame DEF Reconcile, cacheVars
<1>1. faults = 0
  BY DEF Reconcile, IgnoreItem, RejectClaim, SecretFails, BeginProvision,
     CheckBeforeCreate, MakeVolume, Publish, PublishConflict, PublishFails,
     BeginDelete, CheckBeforeDelete, PreserveVolume, DestroyVolume, Unpublish,
     UnpublishFails, Fault, Inv, TypeOK, BudgetTypeOK
<1>2. pv'[u] = NoPv /\ Alive(u)
  BY <1>0 DEF DueClaim, Alive
<1>3. pv[u] = NoPv
  <2> SUFFICES ASSUME pv[u] # NoPv PROVE FALSE
    OBVIOUS
  <2>1. pc[w] = "unpublish" /\ u = job[w].uid
    BY <1>2, ObjectEffect
  <2>2. QED
    BY <1>2, <2>1 DEF LifeInv, DoomedOK, Deleting, Dead
<1>4. DueClaim(n, u)
  BY <1>0, <1>2, <1>3 DEF DueClaim, Targeted
<1>5. Held(<<n, NameOf[u]>>, Provisioning, u)
  BY <1>1, <1>4 DEF ClaimsHeld
<1>6. CASE /\ holding[w] = <<n, NameOf[u]>>
           /\ pc[w] = "start" \/ (pc[w] \in Provisioning /\ job[w].uid = u)
  <2>1. pc'[w] \in Provisioning /\ job'[w].uid = u
    BY <1>2, <1>4, <1>6, ProvisionGoesOn
  <2>2. QED
    BY <1>0, <1>6, <2>1 DEF Held, queueVars
<1>7. CASE ~(/\ holding[w] = <<n, NameOf[u]>>
             /\ pc[w] = "start" \/ (pc[w] \in Provisioning /\ job[w].uid = u))
  BY <1>0, <1>5, <1>7 DEF Held, queueVars
<1>8. QED
  BY <1>6, <1>7

LEMMA QuietClaimsHeld ==
  ASSUME Inv, LifeInv, ClaimsHeld, [Next]_vars, Others
  PROVE  ClaimsHeld'
<1> SUFFICES ASSUME faults' = 0, NEW n \in Nodes, NEW u \in Uids, DueClaim(n, u)'
             PROVE  Held(<<n, NameOf[u]>>, Provisioning, u)'
  BY DEF ClaimsHeld
<1> DEFINE nm == NameOf[u]
<1>0. Quiet /\ nm \in Names /\ <<n, nm>> \in Items
  BY QuietSteps, ProvisionerAssumption DEF ProvisionerAssumption, Keys
<1>1. /\ cClaim'[n][nm].uid = u /\ Alive(u)' /\ pv'[u] = NoPv
      /\ ClassOf[u] \in cClass'[n] /\ cClaim'[n][nm] # NoClaim
  BY DEF DueClaim, NoClaim
<1>2. CASE \/ cClaim'[n][nm] # cClaim[n][nm] \/ Restart(n)
           \/ ClassOf[u] \notin cClass[n]
  BY <1>0, <1>1, <1>2, NewsQueued DEF Held
<1>3. CASE cClaim'[n][nm] = cClaim[n][nm] /\ ~Restart(n) /\ ClassOf[u] \in cClass[n]
  <2>1. u \notin unborn
    BY <1>0, <1>1, <1>3 DEF LifeInv, BornOK
  <2>2. Alive(u)
    <3>1. ~Dead(u)
      BY <1>1, DeadStays DEF LifeInv, Dead
    <3>2. QED
      BY <2>1, <3>1 DEF Dead
  <2>3. pv[u] = NoPv
    BY <1>0, <1>1 DEF Quiet
  <2>4. DueClaim(n, u) /\ faults = 0
    BY <1>0, <1>3, <2>2, <2>3 DEF DueClaim, Targeted, Quiet
  <2>5. QED
    BY <1>0, <1>3, <2>4, HeldKept DEF ClaimsHeld
<1>4. QED
  BY <1>2, <1>3

LEMMA ClaimsHeldInvariant == Spec => [](CachedOK /\ ClaimsHeld)
<1>1. Init => CachedOK /\ ClaimsHeld
  <2>1. Init => \A n \in Nodes, u \in Uids : cPv[n][u] = NoPv /\ ~DueClaim(n, u)
    BY ProvisionerAssumption DEF ProvisionerAssumption, Init, DueClaim, NoClaim
  <2>2. QED
    BY <2>1 DEF CachedOK, ClaimsHeld
<1>2. Inv /\ Exclusion /\ GuardOK /\ LifeInv /\ CachedOK /\ ClaimsHeld /\ [Next]_vars
         => (CachedOK /\ ClaimsHeld)'
  <2> SUFFICES ASSUME Inv, Exclusion, GuardOK, LifeInv, CachedOK, ClaimsHeld, [Next]_vars
               PROVE  (CachedOK /\ ClaimsHeld)'
    OBVIOUS
  <2>1. CASE Others
    BY <2>1, NextCached, QuietClaimsHeld
  <2>2. CASE \E w \in Workers : Reconcile(w)
    BY <2>2, NextCached, ReconcileClaimsHeld
  <2>3. QED
    BY <2>1, <2>2 DEF Next, Others
<1>3. QED
  BY <1>1, <1>2, GuardInvariant, LifeInvariant, PTL DEF Spec

\* While nothing has failed, no event for a claim is lost: in whatever order its
\* class, its node and it itself become known, and whatever restarts, a claim that
\* a node has to provision is in its queue or with one of its workers (onPVCAdd,
\* onStorageClassAdd, processNextWorkItem).
THEOREM ClaimsInHandHolds == Spec => []ClaimsInHand
<1>1. ClaimsHeld => ClaimsInHand
  <2> SUFFICES ASSUME ClaimsHeld, faults = 0, NEW n \in Nodes, NEW u \in Uids, DueClaim(n, u)
               PROVE  InHand(<<n, NameOf[u]>>)
    BY DEF ClaimsInHand
  <2>1. <<n, NameOf[u]>> \in Items
    BY ProvisionerAssumption DEF ProvisionerAssumption, Keys
  <2>2. QED
    BY <2>1 DEF ClaimsHeld, Held, InHand, Processing
<1>2. QED
  BY <1>1, ClaimsHeldInvariant, PTL

-----------------------------------------------------------------------------
(* No claim is handed somebody else's data.  On Btrfs the create command   *)
(* refuses an existing target; with the other drivers the path must be     *)
(* nobody else's.  What was made may then be taken away before it is       *)
(* published, and made again by another: so a claim must not be deleted    *)
(* under it either, neither its own (its class retains) nor one above it.  *)

\* Nothing was at the claim's path before, and no other claim makes anything there.
Fresh(u) ==
    /\ \A n \in Nodes : <<n, PathOf[u]>> \notin Occupied
    /\ \A v \in Uids \ {u} : PathOf[v] # PathOf[u] /\ <<PathOf[u], PathOf[v]>> \notin Below

Guarded(u) == DriverOf[ClassOf[u]] = "btrfs" \/ Fresh(u)

\* No deletion reaches the claim's path.
Retained(u) ==
    \A v \in Uids : ClassOf[v] \in Deletes => PathOf[u] \notin Within(PathOf[v])

DeletesOK == \A w \in Workers : pc[w] \in Deleting => ClassOf[job[w].uid] \in Deletes

FreshOK ==
    \A u \in Uids : Fresh(u) => \A n \in Nodes : vol[n][PathOf[u]] \in {u, NoVol}

\* A guarded claim is published with its own data, unless a deletion can reach it;
\* and that reaches a claim's dedicated path only when the claim is gone.
MadeOK ==
    \A w \in Workers, u \in Uids :
        pc[w] = "publish" /\ job[w].uid = u /\ u \notin Adopt /\ Guarded(u) =>
            \/ vol[NodeOf[w]][PathOf[u]] = u
            \/ ~Retained(u) /\ (DedicatedPaths => Dead(u))

MadeInv == DeletesOK /\ FreshOK /\ MadeOK

LEMMA MadeInit == Init => MadeInv
<1> SUFFICES ASSUME Init PROVE MadeInv
  OBVIOUS
<1> USE ProvisionerAssumption DEF ProvisionerAssumption, Init
<1>1. DeletesOK /\ MadeOK
  BY DEF DeletesOK, MadeOK, Deleting
<1>2. FreshOK
  BY DEF FreshOK, Fresh
<1>3. QED
  BY <1>1, <1>2 DEF MadeInv

\* What is at a fresh path is its claim's or nothing.
LEMMA ReconcileFresh ==
  ASSUME Inv, FreshOK, NEW w \in Workers, Reconcile(w)
  PROVE  FreshOK'
<1> DEFINE v == job[w].uid
           q == PathOf[v]
<1> SUFFICES ASSUME NEW u \in Uids, Fresh(u), NEW n \in Nodes
             PROVE  vol'[n][PathOf[u]] \in {u, NoVol}
  BY DEF FreshOK, Fresh
<1>0. BackendTypeOK /\ WorkOK /\ PathOf[u] \in Paths /\ vol[n][PathOf[u]] \in {u, NoVol}
  BY ProvisionerAssumption DEF Inv, TypeOK, ProvisionerAssumption, FreshOK
<1>1. CASE MakeVolume(w)
  <2>1. v \in Uids /\ NodeOf[w] \in Nodes /\ q \in Paths
    BY <1>0, <1>1, ProvisionerAssumption
       DEF MakeVolume, WorkOK, Busy, Provisioning, ProvisionerAssumption
  <2>2. CreateStep(DriverOf[ClassOf[v]], NodeOf[w], q, v)
    BY <1>1 DEF MakeVolume, CreateStep
  <2>3. CASE vol' = vol
    BY <1>0, <2>3
  <2>4. ASSUME NEW x \in {NoVol, v}, vol' = Filled(NodeOf[w], q, x)
        PROVE  vol'[n][PathOf[u]] \in {u, NoVol}
    <3>1. x \in Owners \cup {NoVol}
      BY <2>1, <2>4 DEF Owners
    <3>2. v # u => PathOf[u] # q /\ PathOf[u] \notin Above(q)
      BY <2>1 DEF Fresh, Above
    <3>3. QED
      BY <1>0, <2>1, <2>4, <3>1, <3>2, FilledReach
  <2>5. QED
    BY <2>2, <2>3, <2>4, CreateReach
<1>2. CASE PreserveVolume(w) \/ DestroyVolume(w)
  <2>1. v \in Uids /\ NodeOf[w] \in Nodes /\ q \in Paths
    BY <1>0, <1>2, ProvisionerAssumption
       DEF PreserveVolume, DestroyVolume, WorkOK, Busy, Deleting, ProvisionerAssumption
  <2>2. DeleteStep(DriverOf[ClassOf[v]], NodeOf[w], q)
    BY <1>2 DEF PreserveVolume, DestroyVolume, DeleteStep
  <2>3. CASE vol' = vol
    BY <1>0, <2>3
  <2>4. ASSUME NEW S, vol' = Emptied(NodeOf[w], S)
        PROVE  vol'[n][PathOf[u]] \in {u, NoVol}
    BY <1>0, <2>1, <2>4, EmptiedReach
  <2>5. QED
    BY <2>2, <2>3, <2>4, DeleteReach
<1>3. CASE \/ IgnoreItem(w) \/ RejectClaim(w) \/ SecretFails(w) \/ BeginProvision(w)
           \/ CheckBeforeCreate(w) \/ Publish(w) \/ PublishConflict(w)
           \/ PublishFails(w) \/ BeginDelete(w) \/ CheckBeforeDelete(w)
           \/ Unpublish(w) \/ UnpublishFails(w)
  BY <1>0, <1>3 DEF IgnoreItem, RejectClaim, SecretFails, BeginProvision,
     CheckBeforeCreate, Publish, PublishConflict, PublishFails, BeginDelete,
     CheckBeforeDelete, Unpublish, UnpublishFails, backendVars
<1>4. QED
  BY <1>1, <1>2, <1>3 DEF Reconcile

\* A guarded claim's worker goes on to publish with that claim's data before it.
LEMMA ReconcileMakes ==
  ASSUME Inv, FreshOK, NEW w \in Workers, Reconcile(w), pc'[w] = "publish",
         job[w].uid \notin Adopt, Guarded(job[w].uid)
  PROVE  vol'[NodeOf[w]][PathOf[job[w].uid]] = job[w].uid
<1> DEFINE u == job[w].uid
           n == NodeOf[w]
           q == PathOf[u]
<1>1. CreateSucceeds(DriverOf[ClassOf[u]], n, q, u)
  BY ReconcilePublish
<1>2. pc[w] \in Busy
  BY ReconcileJob DEF Busy, Provisioning, Deleting
<1>3. u \in Uids /\ n \in Nodes /\ q \in Paths /\ BackendTypeOK /\ u \in Owners \cup {NoVol}
  BY <1>2, ProvisionerAssumption DEF Inv, TypeOK, WorkOK, ProvisionerAssumption, Owners
<1>4. CASE Present(n, q)
  <2>1. DriverOf[ClassOf[u]] # "btrfs" /\ vol' = vol
    BY <1>1, <1>4 DEF CreateSucceeds
  <2>2. vol[n][q] \in {u, NoVol}
    BY <1>3, <2>1 DEF Guarded, FreshOK
  <2>3. QED
    BY <1>4, <2>1, <2>2 DEF Present
<1>5. CASE ~Present(n, q)
  <2>1. vol' = Filled(n, q, u)
    BY <1>1, <1>5 DEF CreateSucceeds
  <2>2. QED
    BY <1>3, <2>1, FilledReach
<1>6. QED
  BY <1>4, <1>5

LEMMA ReconcileMade ==
  ASSUME Inv, LifeInv, MadeInv, NEW w \in Workers, Reconcile(w)
  PROVE  MadeInv'
<1>0. /\ DeletesOK /\ FreshOK /\ MadeOK /\ DoomedOK /\ WorkOK /\ NodeOf[w] \in Nodes
      /\ UNCHANGED <<cClaim, cPv, claim, unborn>>
      /\ \A x \in Workers \ {w} : pc'[x] = pc[x] /\ job'[x] = job[x]
  BY ReconcileFrame, ProvisionerAssumption
     DEF MadeInv, LifeInv, Inv, ProvisionerAssumption
<1>1. FreshOK'
  BY <1>0, ReconcileFresh
<1>2. DeletesOK'
  <2>1. pc'[w] \in Deleting => ClassOf[job'[w].uid] \in Deletes
    BY <1>0, ReconcileJob DEF DeletesOK, Busy, Provisioning, Deleting
  <2>2. QED
    BY <1>0, <2>1 DEF DeletesOK
<1>3. ASSUME NEW x \in Workers, NEW u \in Uids, pc'[x] = "publish",
             job'[x].uid = u, u \notin Adopt, Guarded(u)
      PROVE  \/ vol'[NodeOf[x]][PathOf[u]] = u
             \/ ~Retained(u) /\ (DedicatedPaths => Dead(u))
  <2>1. CASE x = w
    BY <1>0, <1>3, <2>1, ReconcilePublish, ReconcileMakes
  <2>2. CASE x # w
    <3>1. /\ pc[x] = "publish" /\ job[x].uid = u
          /\ NodeOf[x] \in Nodes /\ PathOf[u] \in Paths
      BY <1>0, <1>3, <2>2, ProvisionerAssumption DEF ProvisionerAssumption
    <3>2. CASE vol[NodeOf[x]][PathOf[u]] # u
      BY <1>0, <1>3, <3>1, <3>2 DEF MadeOK
    <3>3. CASE vol[NodeOf[x]][PathOf[u]] = u /\ vol'[NodeOf[x]][PathOf[u]] # u
      <4>1. u # NoVol
        BY <3>1, BackendAssumption DEF BackendAssumption, Owners
      <4>2. /\ job[w].uid \in Uids /\ pc[w] \in Deleting
            /\ PathOf[u] \in Within(PathOf[job[w].uid])
        BY <3>1, <3>3, <4>1, ReconcileStorage
      <4>3. ~Retained(u)
        BY <1>0, <4>2 DEF Retained, DeletesOK
      <4>4. DedicatedPaths => u = job[w].uid
        BY <3>1, <4>2 DEF DedicatedPaths, Within
      <4>5. QED
        BY <1>0, <4>2, <4>3, <4>4 DEF DoomedOK
    <3>4. QED
      BY <3>2, <3>3
  <2>3. QED
    BY <2>1, <2>2
<1>4. MadeOK'
  BY <1>0, <1>3 DEF MadeOK, Guarded, Fresh, Retained, DedicatedPaths, Within, Dead, Alive
<1>5. QED
  BY <1>1, <1>2, <1>4 DEF MadeInv

LEMMA QuietMade ==
  ASSUME Inv, LifeInv, MadeInv, [Next]_vars, Quiet
  PROVE  MadeInv'
<1> USE DEF Quiet, Busy, Provisioning, Deleting
<1>1. FreshOK' /\ DeletesOK'
  BY DEF MadeInv, FreshOK, Fresh, DeletesOK
<1>2. ASSUME NEW x \in Workers, NEW u \in Uids, pc'[x] = "publish",
             job'[x].uid = u, u \notin Adopt, Guarded(u)
      PROVE  \/ vol'[NodeOf[x]][PathOf[u]] = u
             \/ ~Retained(u) /\ (DedicatedPaths => Dead(u)')
  <2>1. pc[x] = "publish" /\ job[x].uid = u
    BY <1>2
  <2>2. Dead(u) => Dead(u)'
    BY DeadStays DEF LifeInv
  <2>3. QED
    BY <1>2, <2>1, <2>2 DEF MadeInv, MadeOK
<1>3. MadeOK'
  BY <1>2 DEF MadeOK, Guarded, Fresh, Retained, DedicatedPaths, Within, Dead, Alive
<1>4. QED
  BY <1>1, <1>3 DEF MadeInv

LEMMA MadeInvariant == Spec => []MadeInv
<1>1. Init => MadeInv
  BY MadeInit
<1>2. Inv /\ LifeInv /\ MadeInv /\ [Next]_vars => MadeInv'
  <2> SUFFICES ASSUME Inv, LifeInv, MadeInv, [Next]_vars PROVE MadeInv'
    OBVIOUS
  <2>1. ASSUME NEW w \in Workers, Reconcile(w) PROVE MadeInv'
    BY <2>1, ReconcileMade
  <2>2. CASE Others
    BY <2>2, QuietSteps, QuietMade
  <2>3. QED
    BY <2>1, <2>2 DEF Next, Others
<1>3. QED
  BY <1>1, <1>2, LifeInvariant, PTL DEF Spec

\* An object appears only for what its worker has before it.
LEMMA PublishesMade ==
  ASSUME Inv, MadeInv, [Next]_vars, NEW u \in Uids \ Adopt, Guarded(u),
         pv[u] = NoPv, pv'[u] # NoPv
  PROVE  \/ vol[pv'[u].node][PathOf[u]] = u
         \/ ~Retained(u) /\ (DedicatedPaths => Dead(u))
<1>1. ASSUME NEW w \in Workers, Reconcile(w)
      PROVE  \/ vol[pv'[u].node][PathOf[u]] = u
             \/ ~Retained(u) /\ (DedicatedPaths => Dead(u))
  <2>1. u = job[w].uid /\ pc[w] = "publish" /\ pv'[u] = NewPv(NodeOf[w])
    BY <1>1, ObjectEffect
  <2>2. pv'[u].node = NodeOf[w]
    BY <2>1 DEF NewPv
  <2>3. QED
    BY <2>1, <2>2 DEF MadeInv, MadeOK
<1>2. QED
  BY <1>1, QuietSteps DEF Next, Others, Quiet

\* No claim that does not ask to adopt is handed somebody else's data, whatever
\* fails, restarts or interleaves, if the create command refuses what is there or
\* the path is the claim's own, and no class that deletes can reach it (Create's
\* check for existence and its command are two steps).
THEOREM NoSilentAdoptionHolds ==
    (\A u \in Uids \ Adopt : Guarded(u) /\ Retained(u)) => (Spec => NoSilentAdoption)
<1> SUFFICES ASSUME \A u \in Uids \ Adopt : Guarded(u) /\ Retained(u)
             PROVE  Spec => NoSilentAdoption
  OBVIOUS
<1> DEFINE Own == \A u \in Uids \ Adopt : pv[u] = NoPv /\ pv'[u] # NoPv =>
                     vol[pv'[u].node][PathOf[u]] = u
<1>1. Inv /\ MadeInv /\ [Next]_vars => [Own]_vars
  BY PublishesMade
<1>2. Spec => [][Own]_vars
  BY <1>1, LifeInvariant, MadeInvariant, PTL DEF Spec
<1>3. QED
  BY <1>2 DEF NoSilentAdoption

\* With classes that delete, the same holds of every claim that still exists when
\* its volume is published, if no two claims share a path or lie below one another.
NoLiveAdoption ==
    [][\A u \in Uids \ Adopt :
          Alive(u) /\ pv[u] = NoPv /\ pv'[u] # NoPv =>
              vol[pv'[u].node][PathOf[u]] = u]_vars

THEOREM NoLiveAdoptionHolds ==
    DedicatedPaths /\ (\A u \in Uids \ Adopt : Guarded(u)) => (Spec => NoLiveAdoption)
<1> SUFFICES ASSUME DedicatedPaths, \A u \in Uids \ Adopt : Guarded(u)
             PROVE  Spec => NoLiveAdoption
  OBVIOUS
<1> DEFINE Own == \A u \in Uids \ Adopt : Alive(u) /\ pv[u] = NoPv /\ pv'[u] # NoPv =>
                     vol[pv'[u].node][PathOf[u]] = u
<1>1. Inv /\ MadeInv /\ [Next]_vars => [Own]_vars
  BY PublishesMade DEF Dead
<1>2. Spec => [][Own]_vars
  BY <1>1, LifeInvariant, MadeInvariant, PTL DEF Spec
<1>3. QED
  BY <1>2 DEF NoLiveAdoption

-----------------------------------------------------------------------------
(* No claim gets storage on two nodes, provided every class names a node   *)
(* or waits for the scheduler, and not both (OneTarget).  The argument:    *)
(* whatever ties a claim to a node - the scheduler's choice in the API or  *)
(* in a cache, a worker on its way, the storage, the object and its cached *)
(* copies - names the same one, and there is nothing of the kind before    *)
(* the scheduler has chosen.                                               *)

OneTarget == \A c \in Classes : NodeParam[c] = NoNode <=> c \in Waits

\* What ties a claim's volume to a node: a worker there, the object, a cached one.
Tied(u, n) ==
    \/ \E w \in Workers : NodeOf[w] = n /\ pc[w] \in Busy /\ job[w].uid = u
    \/ pv[u].node = n
    \/ \E m \in Nodes : cPv[m][u].node = n

Marked(u, n) ==
    \/ vol[n][PathOf[u]] = u
    \/ Tied(u, n)
    \/ claim[NameOf[u]].uid = u /\ claim[NameOf[u]].sel = n
    \/ \E m \in Nodes : cClaim[m][NameOf[u]].uid = u /\ cClaim[m][NameOf[u]].sel = n

Undecided(u) == Alive(u) /\ claim[NameOf[u]].sel = NoNode

HomeOK ==
    \A u \in Uids :
        IF ClassOf[u] \in Waits
        THEN /\ \A n1, n2 \in Nodes : Marked(u, n1) /\ Marked(u, n2) => n1 = n2
             /\ u \in unborn \/ Undecided(u) => \A n \in Nodes : ~Marked(u, n)
        ELSE \A n \in Nodes : Marked(u, n) => n = NodeParam[ClassOf[u]]

\* The API and every cache hold a claim under its own name, once it was created.
NamedOK ==
    /\ \A nm \in Names : claim[nm] # NoClaim =>
          NameOf[claim[nm].uid] = nm /\ claim[nm].uid \notin unborn
    /\ \A m \in Nodes, nm \in Names :
          cClaim[m][nm] # NoClaim => NameOf[cClaim[m][nm].uid] = nm

HomeInv == HomeOK /\ NamedOK

LEMMA HomeInit == Init => HomeInv
<1> SUFFICES ASSUME Init PROVE HomeInv
  OBVIOUS
<1> USE ProvisionerAssumption DEF ProvisionerAssumption, Init, QueueInit
<1>1. ASSUME NEW u \in Uids, NEW n \in Nodes
      PROVE  ~Marked(u, n)
  <2>1. vol[n][PathOf[u]] \in {Foreign, NoVol}
    OBVIOUS
  <2>2. u # Foreign /\ u # NoVol
    BY BackendAssumption DEF BackendAssumption, Owners
  <2>3. QED
    BY <2>1, <2>2 DEF Marked, Tied, Busy, Provisioning, Deleting, NoClaim, NoPv
<1>2. NamedOK
  BY DEF NamedOK
<1>3. QED
  BY <1>1, <1>2 DEF HomeInv, HomeOK

\* A worker's step ties a claim to a further node only by beginning to provision.
LEMMA ReconcileTied ==
  ASSUME Inv, NEW w \in Workers, Reconcile(w), NEW u \in Uids, NEW n \in Nodes,
         Tied(u, n)', ~Tied(u, n)
  PROVE  /\ n = NodeOf[w] /\ pc'[w] = "exists" /\ job'[w].uid = u
         /\ u = cClaim[NodeOf[w]][holding[w][2]].uid
<1>0. /\ UNCHANGED cPv /\ NodeOf[w] \in Nodes
      /\ \A x \in Workers \ {w} : pc'[x] = pc[x] /\ job'[x] = job[x]
  BY ReconcileFrame, ProvisionerAssumption DEF ProvisionerAssumption
<1>1. pv'[u].node # n
  <2>1. ASSUME pv'[u] # pv[u], pv'[u].node = n
        PROVE  FALSE
    <3>1. /\ u = job[w].uid
          /\ \/ pc[w] = "publish" /\ pv'[u] = NewPv(NodeOf[w])
             \/ pv'[u] = NoPv
      BY <2>1, ObjectEffect
    <3>2. pc[w] = "publish" /\ n = NodeOf[w]
      BY <2>1, <3>1, ProvisionerAssumption DEF NewPv, NoPv, ProvisionerAssumption
    <3>3. QED
      BY <3>1, <3>2 DEF Tied, Busy, Provisioning
  <2>2. QED
    BY <2>1 DEF Tied
<1>2. NodeOf[w] = n /\ pc'[w] \in Busy /\ job'[w].uid = u
  BY <1>0, <1>1 DEF Tied
<1>3. CASE pc[w] \in Busy /\ job'[w] = job[w]
  BY <1>2, <1>3 DEF Tied
<1>4. CASE cPv[NodeOf[w]][job'[w].uid].node = NodeOf[w]
  BY <1>0, <1>2, <1>4 DEF Tied
<1>5. QED
  BY <1>2, <1>3, <1>4, ReconcileJob

\* A quiet step ties nothing.
LEMMA QuietTied ==
  ASSUME Quiet, NEW u \in Uids, NEW n \in Nodes, Tied(u, n)'
  PROVE  Tied(u, n)
BY DEF Quiet, Tied

\* A step that ties no claim to a further node keeps the invariant.
LEMMA MarksKept ==
  ASSUME HomeInv, NEW u \in Uids,
         \A n \in Nodes : Marked(u, n)' => Marked(u, n),
         (u \in unborn \/ Undecided(u))' => u \in unborn \/ Undecided(u)
  PROVE  IF ClassOf[u] \in Waits
         THEN /\ \A n1, n2 \in Nodes : Marked(u, n1)' /\ Marked(u, n2)' => n1 = n2
              /\ (u \in unborn \/ Undecided(u))' => \A n \in Nodes : ~Marked(u, n)'
         ELSE \A n \in Nodes : Marked(u, n)' => n = NodeParam[ClassOf[u]]
BY DEF HomeInv, HomeOK

\* A worker writes a claim's data only where it is already working for it.
LEMMA ReconcileData ==
  ASSUME Inv, NEW w \in Workers, Reconcile(w), NEW u \in Uids, NEW n \in Nodes,
         vol'[n][PathOf[u]] = u, vol[n][PathOf[u]] # u
  PROVE  NodeOf[w] = n /\ pc[w] = "make" /\ job[w].uid = u
<1> DEFINE v == job[w].uid
           q == PathOf[v]
<1>0. BackendTypeOK /\ WorkOK /\ PathOf[u] \in Paths /\ u # NoVol /\ u # Foreign
  BY ProvisionerAssumption, BackendAssumption
     DEF Inv, TypeOK, ProvisionerAssumption, BackendAssumption, Owners
<1>1. CASE MakeVolume(w)
  <2>1. v \in Uids /\ pc[w] = "make"
    BY <1>0, <1>1 DEF MakeVolume, WorkOK, Busy, Provisioning
  <2>2. NodeOf[w] \in Nodes /\ q \in Paths
    BY <2>1, ProvisionerAssumption DEF ProvisionerAssumption
  <2>3. CreateStep(DriverOf[ClassOf[v]], NodeOf[w], q, v)
    BY <1>1 DEF MakeVolume, CreateStep
  <2>4. PICK x \in {NoVol, v} : vol' = Filled(NodeOf[w], q, x)
    BY <2>3, CreateReach
  <2>5. x \in Owners \cup {NoVol}
    BY <2>1, <2>4 DEF Owners
  <2>6. QED
    BY <1>0, <2>1, <2>2, <2>4, <2>5, FilledReach
<1>2. CASE PreserveVolume(w) \/ DestroyVolume(w)
  <2>1. v \in Uids
    BY <1>0, <1>2 DEF PreserveVolume, DestroyVolume, WorkOK, Busy, Deleting
  <2>2. NodeOf[w] \in Nodes /\ q \in Paths
    BY <2>1, ProvisionerAssumption DEF ProvisionerAssumption
  <2>3. DeleteStep(DriverOf[ClassOf[v]], NodeOf[w], q)
    BY <1>2 DEF PreserveVolume, DestroyVolume, DeleteStep
  <2>4. PICK S \in SUBSET Within(q) : vol' = Emptied(NodeOf[w], S)
    BY <2>3, DeleteReach
  <2>5. QED
    BY <1>0, <2>2, <2>4, EmptiedReach
<1>3. CASE \/ IgnoreItem(w) \/ RejectClaim(w) \/ SecretFails(w) \/ BeginProvision(w)
           \/ CheckBeforeCreate(w) \/ Publish(w) \/ PublishConflict(w)
           \/ PublishFails(w) \/ BeginDelete(w) \/ CheckBeforeDelete(w)
           \/ Unpublish(w) \/ UnpublishFails(w)
  BY <1>3 DEF IgnoreItem, RejectClaim, SecretFails, BeginProvision,
     CheckBeforeCreate, Publish, PublishConflict, PublishFails, BeginDelete,
     CheckBeforeDelete, Unpublish, UnpublishFails, backendVars
<1>4. QED
  BY <1>1, <1>2, <1>3 DEF Reconcile

\* A worker begins to provision only for a claim that targets its node.
LEMMA BeginTargeted ==
  ASSUME Inv, NEW w \in Workers, Reconcile(w), pc'[w] = "exists"
  PROVE  LET v == cClaim[NodeOf[w]][holding[w][2]] IN
         /\ holding[w][2] \in Names /\ v.phase = "Pending" /\ Targeted(NodeOf[w], v)
<1>0. WorkTypeOK
  BY DEF Inv, TypeOK
<1>1. ASSUME NEW s, Proceed(w, s)
      PROVE  pc'[w] = s
  BY <1>0, <1>1 DEF Proceed, Goto, WorkTypeOK
<1>2. CASE BeginProvision(w)
  BY <1>2 DEF BeginProvision, ToProvision
<1>3. CASE IgnoreItem(w) \/ RejectClaim(w) \/ SecretFails(w) \/ BeginDelete(w)
  BY <1>0, <1>3 DEF IgnoreItem, RejectClaim, SecretFails, BeginDelete, Goto, Enter,
     WorkTypeOK
<1>4. CASE \/ CheckBeforeCreate(w) \/ MakeVolume(w) \/ Publish(w) \/ PublishConflict(w)
           \/ PublishFails(w) \/ CheckBeforeDelete(w) \/ PreserveVolume(w)
           \/ DestroyVolume(w) \/ Unpublish(w) \/ UnpublishFails(w)
  <2>1. PICK s : Proceed(w, s) /\ s # "exists"
    BY <1>4, CheckTypes DEF CheckBeforeCreate, MakeVolume, Publish, PublishConflict,
       PublishFails, CheckBeforeDelete, PreserveVolume, DestroyVolume, Unpublish,
       UnpublishFails
  <2>2. QED
    BY <1>1, <2>1
<1>5. QED
  BY <1>2, <1>3, <1>4 DEF Reconcile

LEMMA ReconcileHome ==
  ASSUME OneTarget, Inv, HomeInv, NEW w \in Workers, Reconcile(w)
  PROVE  HomeInv'
<1>0. /\ WorkOK /\ HomeOK /\ NamedOK /\ CacheTypeOK /\ NodeOf[w] \in Nodes
      /\ UNCHANGED <<cClaim, cPv, claim, unborn>>
      /\ \A x \in Workers \ {w} : pc'[x] = pc[x] /\ job'[x] = job[x]
  BY ReconcileFrame, ProvisionerAssumption
     DEF HomeInv, Inv, TypeOK, ProvisionerAssumption
<1>1. ASSUME NEW u \in Uids, pc'[w] = "exists", job'[w].uid = u,
             job'[w].uid = cClaim[NodeOf[w]][holding[w][2]].uid
      PROVE  IF ClassOf[u] \in Waits THEN Marked(u, NodeOf[w])
             ELSE Marked(u, NodeOf[w]) \/ NodeOf[w] = NodeParam[ClassOf[u]]
  <2> DEFINE v == cClaim[NodeOf[w]][holding[w][2]]
  <2>1. holding[w][2] \in Names /\ v.phase = "Pending" /\ Targeted(NodeOf[w], v)
    BY <1>1, BeginTargeted
  <2>2. v # NoClaim /\ NameOf[u] = holding[w][2]
    BY <1>0, <1>1, <2>1 DEF NamedOK, NoClaim
  <2>3. v.sel = NodeOf[w] => Marked(u, NodeOf[w])
    BY <1>0, <1>1, <2>2 DEF Marked
  <2>4. ClassOf[u] \in Classes /\ NodeOf[w] # NoNode
    BY <1>0, ProvisionerAssumption DEF ProvisionerAssumption
  <2>5. QED
    BY <1>1, <2>1, <2>3, <2>4 DEF Targeted, OneTarget
<1>2. ASSUME NEW u \in Uids, NEW n \in Nodes, Marked(u, n)'
      PROVE  \/ Marked(u, n)
             \/ ClassOf[u] \notin Waits /\ n = NodeParam[ClassOf[u]]
  <2>1. CASE vol'[n][PathOf[u]] = u
    BY <2>1, ReconcileData DEF Marked, Tied, Busy, Provisioning
  <2>2. CASE Tied(u, n)'
    BY <1>1, <2>2, ReconcileTied DEF Marked
  <2>3. QED
    BY <1>0, <1>2, <2>1, <2>2 DEF Marked
<1>3. ASSUME NEW u \in Uids, (u \in unborn \/ Undecided(u))'
      PROVE  u \in unborn \/ Undecided(u)
  BY <1>0, <1>3 DEF Undecided, Alive
<1>4. HomeOK'
  BY <1>0, <1>2, <1>3 DEF HomeOK
<1>5. NamedOK'
  BY <1>0 DEF NamedOK
<1>6. QED
  BY <1>4, <1>5 DEF HomeInv

\* A quiet step that leaves the claims alone ties nothing to a node.
LEMMA QuietHome ==
  ASSUME HomeInv, Quiet, UNCHANGED <<claim, unborn>>
  PROVE  HomeInv'
<1> USE DEF Quiet, Busy
<1>1. ASSUME NEW u \in Uids, NEW n \in Nodes, Marked(u, n)'
      PROVE  Marked(u, n)
  <2>1. NameOf[u] \in Names
    BY ProvisionerAssumption DEF ProvisionerAssumption
  <2>2. QED
    BY <1>1, <2>1, QuietTied DEF Marked
<1>2. ASSUME NEW u \in Uids, (u \in unborn \/ Undecided(u))'
      PROVE  u \in unborn \/ Undecided(u)
  BY <1>2 DEF Undecided, Alive
<1>3. HomeOK'
  BY <1>1, <1>2, MarksKept DEF HomeOK
<1>4. NamedOK'
  BY DEF NamedOK, HomeInv
<1>5. QED
  BY <1>3, <1>4 DEF HomeInv

LEMMA EnvironmentHome ==
  ASSUME Inv, HomeInv, Environment
  PROVE  HomeInv'
<1> USE ProvisionerAssumption DEF ProvisionerAssumption
<1>0. /\ ApiTypeOK /\ HomeOK /\ NamedOK
      /\ UNCHANGED <<vol, cClaim>>
      /\ \A u \in Uids, n \in Nodes : Tied(u, n)' => Tied(u, n)
  BY QuietSteps, QuietTied
     DEF Others, HomeInv, Inv, TypeOK, Environment, backendVars, cacheVars
<1> DEFINE Settled(u) == /\ \A n \in Nodes : Marked(u, n)' => Marked(u, n)
                         /\ (u \in unborn \/ Undecided(u))' => u \in unborn \/ Undecided(u)
           Named == \A nm \in Names : claim'[nm] # NoClaim =>
                       NameOf[claim'[nm].uid] = nm /\ claim'[nm].uid \notin unborn'
<1>1. ASSUME NEW u \in Uids, UNCHANGED unborn,
             \/ claim'[NameOf[u]] = claim[NameOf[u]]
             \/ claim'[NameOf[u]].uid # u
      PROVE  Settled(u)
  BY <1>0, <1>1 DEF Marked, Undecided, Alive
<1>2. ASSUME UNCHANGED <<claim, unborn>>
      PROVE  Named /\ \A u \in Uids : Settled(u)
  BY <1>0, <1>1, <1>2 DEF NamedOK
<1>3. ASSUME NEW v \in Uids, CreateClaim(v)
      PROVE  Named /\ \A u \in Uids : Settled(u)
  <2>1. Named
    BY <1>0, <1>3 DEF CreateClaim, ApiTypeOK, NamedOK
  <2>2. ASSUME NEW u \in Uids PROVE Settled(u)
    <3>1. \/ claim'[NameOf[u]] = claim[NameOf[u]]
          \/ /\ claim'[NameOf[u]].uid = v
             /\ claim'[NameOf[u]].sel = NoNode
      BY <1>0, <1>3 DEF CreateClaim, ApiTypeOK
    <3>2. \A n \in Nodes : Marked(u, n)' => Marked(u, n)
      BY <1>0, <3>1 DEF Marked
    <3>3. (u \in unborn \/ Undecided(u))' => u \in unborn \/ Undecided(u)
      BY <1>0, <1>3, <3>1 DEF CreateClaim, Undecided, Alive
    <3>4. QED
      BY <3>2, <3>3
  <2>3. QED
    BY <2>1, <2>2
<1>4. ASSUME NEW v \in Uids, DeleteClaim(v)
      PROVE  Named /\ \A u \in Uids : Settled(u)
  <2>1. Named
    BY <1>0, <1>4 DEF DeleteClaim, ApiTypeOK, NamedOK
  <2>2. ASSUME NEW u \in Uids PROVE Settled(u)
    BY <1>0, <1>1, <1>4 DEF DeleteClaim, ApiTypeOK, NoClaim
  <2>3. QED
    BY <2>1, <2>2
<1>5. ASSUME NEW v \in Uids, Bind(v)
      PROVE  Named /\ \A u \in Uids : Settled(u)
  <2>1. /\ claim[NameOf[v]].uid = v /\ claim[NameOf[v]] \in Claims
        /\ claim' = [claim EXCEPT ![NameOf[v]].phase = "Bound"] /\ UNCHANGED unborn
    BY <1>0, <1>5 DEF Bind, Alive, ApiTypeOK, NoClaim
  <2>2. \A nm \in Names : claim'[nm] # NoClaim => claim[nm] # NoClaim
                          /\ claim'[nm].uid = claim[nm].uid
    BY <1>0, <2>1 DEF ApiTypeOK, Claims, NoClaim
  <2>3. \A nm \in Names : claim'[nm].uid = claim[nm].uid /\ claim'[nm].sel = claim[nm].sel
    BY <1>0, <2>1 DEF ApiTypeOK, Claims
  <2>4. ASSUME NEW u \in Uids PROVE Settled(u)
    BY <1>0, <2>1, <2>3 DEF Marked, Undecided, Alive
  <2>5. QED
    BY <1>0, <2>1, <2>2, <2>4 DEF NamedOK
<1>6. ASSUME NEW v \in Uids, NEW n \in Nodes, SelectNode(v, n)
      PROVE  HomeInv'
  <2>1. /\ claim[NameOf[v]].uid = v /\ claim[NameOf[v]] \in Claims
        /\ claim' = [claim EXCEPT ![NameOf[v]].sel = n] /\ UNCHANGED unborn
        /\ Undecided(v) /\ ClassOf[v] \in Waits
    BY <1>0, <1>6 DEF SelectNode, Alive, Undecided, ApiTypeOK, NoClaim
  <2>2. \A nm \in Names : /\ claim'[nm].uid = claim[nm].uid
                          /\ claim'[nm] # NoClaim => claim[nm] # NoClaim
    BY <1>0, <2>1 DEF ApiTypeOK, Claims, NoClaim
  <2>3. ASSUME NEW u \in Uids, u # v PROVE Settled(u)
    BY <1>0, <1>1, <2>1, <2>3 DEF ApiTypeOK, Claims
  <2>4. \A m \in Nodes : ~Marked(v, m)
    BY <1>0, <2>1 DEF HomeOK
  <2>5. claim'[NameOf[v]].uid = v /\ claim'[NameOf[v]].sel = n
    BY <1>0, <2>1 DEF ApiTypeOK, Claims
  <2>6. ASSUME NEW m \in Nodes, Marked(v, m)' PROVE m = n
    BY <1>0, <2>4, <2>5, <2>6 DEF Marked
  <2>7. v \notin unborn' /\ ~Undecided(v)'
    <3>1. v \notin unborn'
      BY <1>0, <2>1 DEF NamedOK, NoClaim
    <3>2. QED
      BY <2>5, <3>1 DEF Undecided
  <2>8. HomeOK'
    BY <1>0, <2>1, <2>3, <2>6, <2>7, MarksKept DEF HomeOK, HomeInv
  <2>9. NamedOK'
    BY <1>0, <2>1, <2>2 DEF NamedOK
  <2>10. QED
    BY <2>8, <2>9 DEF HomeInv
<1>7. CASE \E u \in Uids, n \in Nodes : SelectNode(u, n)
  BY <1>6, <1>7
<1>8. CASE ~\E u \in Uids, n \in Nodes : SelectNode(u, n)
  <2>1. Named /\ \A u \in Uids : Settled(u)
    BY <1>2, <1>3, <1>4, <1>5, <1>8
       DEF Environment, CreateClass, Release, AnnotateVolume
  <2>2. HomeOK'
    BY <2>1, MarksKept DEF HomeOK
  <2>3. NamedOK'
    BY <1>0, <2>1 DEF NamedOK
  <2>4. QED
    BY <2>2, <2>3 DEF HomeInv
<1>9. QED
  BY <1>7, <1>8

LEMMA HomeInduction == OneTarget => (Spec => [](Inv /\ HomeInv))
<1> SUFFICES ASSUME OneTarget PROVE Spec => [](Inv /\ HomeInv)
  OBVIOUS
<1>1. Init => Inv /\ HomeInv
  BY InitInv, HomeInit
<1>2. Inv /\ HomeInv /\ [Next]_vars => (Inv /\ HomeInv)'
  <2> SUFFICES ASSUME Inv, HomeInv, [Next]_vars PROVE Inv' /\ HomeInv'
    OBVIOUS
  <2>1. Inv'
    BY NextInv
  <2>2. ASSUME NEW w \in Workers, Reconcile(w) PROVE HomeInv'
    BY <2>2, ReconcileHome
  <2>3. ASSUME Environment PROVE HomeInv'
    BY <2>3, EnvironmentHome
  <2>4. ASSUME Queueing \/ Informing \/ (\E n \in Nodes : Restart(n)) \/ UNCHANGED vars
        PROVE  HomeInv'
    <3>1. UNCHANGED <<claim, unborn>>
      BY <2>4 DEF Queueing, Informing, Restart, vars, apiVars
    <3>2. QED
      BY <2>4, <3>1, QuietSteps, QuietHome DEF Others
  <2>5. QED
    BY <2>1, <2>2, <2>3, <2>4 DEF Next
<1>3. QED
  BY <1>1, <1>2, PTL DEF Spec

\* No two nodes make a volume for the same claim, however stale their caches are
\* and whatever restarts, when every class either names its node or waits for the
\* scheduler (isNodeTargeted).
THEOREM SingleHomeHolds == OneTarget => (Spec => []SingleHome)
<1> SUFFICES ASSUME OneTarget PROVE Spec => []SingleHome
  OBVIOUS
<1>1. HomeInv => SingleHome
  BY DEF HomeInv, HomeOK, SingleHome, Marked
<1>2. QED
  BY <1>1, HomeInduction, PTL

=============================================================================
