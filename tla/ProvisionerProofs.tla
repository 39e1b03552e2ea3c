------------------------- MODULE ProvisionerProofs -------------------------
(***************************************************************************)
(* What the provisioner guarantees for any number of nodes, workers,       *)
(* claims, classes, failures and restarts.                                 *)
(***************************************************************************)
EXTENDS Provisioner, WorkQueueProofs, BackendProofs

\* A worker inside the driver or writing to the API holds its guard.
Busy == Provisioning \cup Deleting

\* A worker that is not idle holds an item of its node, and one that is busy
\* works for a claim.
WorkOK ==
    \A w \in Workers :
        /\ pc[w] = "idle" <=> holding[w] = NoItem
        /\ pc[w] # "idle" => holding[w] \in Items /\ holding[w][1] = NodeOf[w]
        /\ pc[w] \in Busy => job[w].uid \in Uids

\* A key is in progress only while the worker that entered it is busy.
GuardOK ==
    \A n \in Nodes : \A k \in inProgress[n] :
        \E w \in Workers : holding[w] = <<n, k>> /\ pc[w] \in Busy

Inv == TypeOK /\ WorkOK

USE DEF Node, Key, Path, Driver

-----------------------------------------------------------------------------

LEMMA InitInv == Init => Inv /\ Exclusion /\ GuardOK
<1> SUFFICES ASSUME Init PROVE Inv /\ Exclusion /\ GuardOK
  OBVIOUS
<1> USE QueueAssumption, BackendAssumption, ProvisionerAssumption
     DEF QueueAssumption, BackendAssumption, ProvisionerAssumption, Init, QueueInit
<1>1. QueueTypeOK /\ BackendTypeOK
  BY DEF QueueTypeOK, BackendTypeOK, Owners
<1>2. ApiTypeOK /\ CacheTypeOK
  BY DEF ApiTypeOK, CacheTypeOK
<1>3. WorkTypeOK /\ BudgetTypeOK
  BY DEF WorkTypeOK, BudgetTypeOK, Steps, Keys, NoJob
<1>4. WorkOK /\ GuardOK /\ Exclusion
  BY DEF WorkOK, GuardOK, Exclusion, Busy, Provisioning, Deleting
<1>5. QED
  BY <1>1, <1>2, <1>3, <1>4 DEF Inv, TypeOK

\* A step of a busy worker.
LEMMA ProceedType ==
  ASSUME Inv, NEW w \in Workers, pc[w] \in Busy,
         NEW s \in Busy \cup Returned, Proceed(w, s), UNCHANGED holding
  PROVE  WorkTypeOK' /\ WorkOK'
<1> USE ProvisionerAssumption DEF ProvisionerAssumption, Inv, TypeOK, Proceed, Goto
<1>1. WorkTypeOK'
  <2>1. NoJob \in [uid : Uids \cup {NoUid}, snap : BOOLEAN]
    BY DEF NoJob
  <2>2. s \in Steps
    BY DEF Steps, Busy
  <2>3. CASE s \in Returned
    <3>1. pc' = [pc EXCEPT ![w] = s] /\ job' = [job EXCEPT ![w] = NoJob]
      BY <2>3
    <3>2. inProgress' = [inProgress EXCEPT ![NodeOf[w]] = @ \ {holding[w][2]}]
      BY <2>3
    <3>3. pc' \in [Workers -> Steps] /\ job' \in [Workers -> [uid : Uids \cup {NoUid}, snap : BOOLEAN]]
      BY <2>1, <2>2, <3>1 DEF WorkTypeOK
    <3>4. inProgress' \in [Nodes -> SUBSET Keys]
      BY <3>2 DEF WorkTypeOK
    <3>5. QED
      BY <3>3, <3>4 DEF WorkTypeOK
  <2>4. CASE s \notin Returned
    BY <2>2, <2>4 DEF WorkTypeOK
  <2>5. QED
    BY <2>3, <2>4
<1>2. WorkOK'
  BY DEF WorkTypeOK, WorkOK, Steps, Busy, Returned, Provisioning, Deleting
<1>3. QED
  BY <1>1, <1>2

\* A return before the guard is taken.
LEMMA GotoType ==
  ASSUME Inv, NEW w \in Workers, pc[w] # "idle",
         NEW s \in Returned, Goto(w, s), UNCHANGED holding
  PROVE  WorkTypeOK' /\ WorkOK'
  BY DEF Inv, TypeOK, WorkOK, Goto, WorkTypeOK, Steps, Busy, Returned, Provisioning, Deleting

\* A worker takes its guard.
LEMMA EnterType ==
  ASSUME Inv, NEW w \in Workers, pc[w] # "idle", Key(w) \in Keys,
         NEW s \in Busy, NEW j, j \in [uid : Uids, snap : BOOLEAN],
         Enter(w, j, s), UNCHANGED holding
  PROVE  WorkTypeOK' /\ WorkOK'
<1> USE ProvisionerAssumption DEF ProvisionerAssumption, Inv, TypeOK, Enter
<1>1. WorkTypeOK'
  BY DEF WorkTypeOK, Steps, Busy
<1>2. WorkOK'
  BY DEF WorkTypeOK, WorkOK, Steps, Busy, Returned, Provisioning, Deleting
<1>3. QED
  BY <1>1, <1>2

LEMMA FaultType ==
  ASSUME BudgetTypeOK, UNCHANGED restarts, Fault \/ UNCHANGED faults
  PROVE  BudgetTypeOK'
  BY ProvisionerAssumption DEF ProvisionerAssumption, BudgetTypeOK, Fault

\* The positions between which the two checks choose.
LEMMA CheckTypes ==
  ASSUME NEW u, NEW snap, NEW kind, NEW n, NEW p, NEW a,
         a \in {ExistsAnswer(n, p), ExistsFailedAnswer(kind)}
  PROVE  /\ AfterCreateCheck(u, a) \in {"make", "publish", "err"}
         /\ AfterDeleteCheck(snap, a) \in {"unpublish", "preserve", "destroy", "err"}
  BY DEF ExistsAnswer, ExistsFailedAnswer, AfterCreateCheck, AfterDeleteCheck

LEMMA ReconcileInv ==
  ASSUME Inv, NEW w \in Workers, Reconcile(w)
  PROVE  Inv'
<1> USE DEF Returned
<1> DEFINE Work == WorkTypeOK' /\ WorkOK'
           Store == BackendTypeOK' /\ ApiTypeOK'
<1>0. /\ UNCHANGED <<queueVars, cacheVars, restarts>>
      /\ UNCHANGED holding
      /\ TypeOK /\ WorkOK /\ BackendTypeOK /\ ApiTypeOK /\ WorkTypeOK /\ CacheTypeOK
      /\ pc[w] # "idle" => NodeOf[w] \in Nodes /\ holding[w][2] \in Keys
  BY ProvisionerAssumption DEF ProvisionerAssumption, Reconcile, Inv, TypeOK, queueVars, WorkOK
<1>1. Fault \/ UNCHANGED faults
  BY DEF Reconcile, IgnoreItem, RejectClaim, SecretFails, BeginProvision,
     CheckBeforeCreate, MakeVolume, Publish, PublishConflict, PublishFails,
     BeginDelete, CheckBeforeDelete, PreserveVolume, DestroyVolume, Unpublish,
     UnpublishFails
<1>2. ASSUME IgnoreItem(w) \/ RejectClaim(w) \/ SecretFails(w) PROVE Work /\ Store
  <2>1. Work
    BY <1>0, <1>2, GotoType DEF IgnoreItem, RejectClaim, SecretFails, Returned
  <2>2. Store
    BY <1>0, <1>2 DEF IgnoreItem, RejectClaim, SecretFails, backendVars,
       apiVars, BackendTypeOK, ApiTypeOK
  <2>3. QED
    BY <2>1, <2>2
<1>3. ASSUME BeginProvision(w) PROVE Work /\ Store
  <2> DEFINE u == cClaim[NodeOf[w]][holding[w][2]].uid
  <2>1. u \in Uids /\ pc[w] # "idle" /\ holding[w][2] \in Keys
    BY <1>0, <1>3 DEF BeginProvision, ToProvision, CacheTypeOK, Claims, NoClaim, Keys
  <2>2. Enter(w, [uid |-> u, snap |-> FALSE], "exists")
    BY <1>3 DEF BeginProvision
  <2>3. Work
    BY <1>0, <2>1, <2>2, EnterType DEF Busy, Provisioning
  <2>4. Store
    BY <1>0, <1>3 DEF BeginProvision, backendVars, apiVars, BackendTypeOK, ApiTypeOK
  <2>5. QED
    BY <2>3, <2>4
<1>4. ASSUME CheckBeforeCreate(w) PROVE Work /\ Store
  <2>1. PICK s \in {"make", "publish", "err"} : Proceed(w, s)
    BY <1>4, CheckTypes DEF CheckBeforeCreate
  <2>2. Work
    BY <1>0, <1>4, <2>1, ProceedType DEF CheckBeforeCreate, Busy, Provisioning, Returned
  <2>3. Store
    BY <1>0, <1>4 DEF CheckBeforeCreate, backendVars, apiVars, BackendTypeOK, ApiTypeOK
  <2>4. QED
    BY <2>2, <2>3
<1>5. ASSUME MakeVolume(w) PROVE Work /\ Store
  <2>1. PICK s \in {"publish", "err"} : Proceed(w, s)
    BY <1>5 DEF MakeVolume
  <2>2. Work
    BY <1>0, <1>5, <2>1, ProceedType DEF MakeVolume, Busy, Provisioning, Returned
  <2>3. job[w].uid \in Uids
    BY <1>0, <1>5 DEF MakeVolume, WorkOK, Busy, Provisioning
  <2>4. BackendTypeOK'
    BY <1>0, <1>5, <2>3, CreateType, ProvisionerAssumption
       DEF MakeVolume, CreateStep, ProvisionerAssumption
  <2>5. ApiTypeOK'
    BY <1>0, <1>5 DEF MakeVolume, apiVars, ApiTypeOK
  <2>6. QED
    BY <2>2, <2>4, <2>5
<1>6. ASSUME Publish(w) PROVE Work /\ Store
  <2>1. PICK s \in {"ok", "err"} : Proceed(w, s)
    BY <1>6 DEF Publish
  <2>2. Work
    BY <1>0, <1>6, <2>1, ProceedType DEF Publish, Busy, Provisioning, Returned
  <2>3. NewPv(NodeOf[w]) \in Pvs
    BY <1>0, <1>6 DEF NewPv, Pvs, Publish
  <2>4. Store
    BY <1>0, <1>6, <2>3 DEF Publish, backendVars, BackendTypeOK, ApiTypeOK
  <2>5. QED
    BY <2>2, <2>4
<1>7. ASSUME PublishConflict(w) \/ PublishFails(w) \/ UnpublishFails(w)
      PROVE  Work /\ Store
  <2>1. PICK s \in {"ok", "err"} : Proceed(w, s)
    BY <1>7 DEF PublishConflict, PublishFails, UnpublishFails
  <2>2. Work
    BY <1>0, <1>7, <2>1, ProceedType DEF PublishConflict, PublishFails,
       UnpublishFails, Busy, Provisioning, Deleting, Returned
  <2>3. Store
    BY <1>0, <1>7 DEF PublishConflict, PublishFails, UnpublishFails,
       backendVars, apiVars, BackendTypeOK, ApiTypeOK
  <2>4. QED
    BY <2>2, <2>3
<1>8. ASSUME BeginDelete(w) PROVE Work /\ Store
  <2> DEFINE j == [uid |-> holding[w][2], snap |-> cPv[NodeOf[w]][holding[w][2]].snap]
  <2>1. j \in [uid : Uids, snap : BOOLEAN] /\ pc[w] # "idle"
    BY <1>0, <1>8 DEF BeginDelete, ToDelete, CacheTypeOK, Pvs, NoPv
  <2>2. Enter(w, j, "dexists")
    BY <1>8 DEF BeginDelete
  <2>3. Work
    BY <1>0, <2>1, <2>2, EnterType DEF Busy, Deleting
  <2>4. Store
    BY <1>0, <1>8 DEF BeginDelete, backendVars, apiVars, BackendTypeOK, ApiTypeOK
  <2>5. QED
    BY <2>3, <2>4
<1>9. ASSUME CheckBeforeDelete(w) PROVE Work /\ Store
  <2>1. PICK s \in {"unpublish", "preserve", "destroy", "err"} : Proceed(w, s)
    BY <1>9, CheckTypes DEF CheckBeforeDelete
  <2>2. Work
    BY <1>0, <1>9, <2>1, ProceedType DEF CheckBeforeDelete, Busy, Deleting, Returned
  <2>3. Store
    BY <1>0, <1>9 DEF CheckBeforeDelete, backendVars, apiVars, BackendTypeOK, ApiTypeOK
  <2>4. QED
    BY <2>2, <2>3
<1>10. ASSUME PreserveVolume(w) PROVE Work /\ Store
  <2>1. PICK s \in {"destroy", "unpublish"} : Proceed(w, s)
    BY <1>10 DEF PreserveVolume
  <2>2. Work
    BY <1>0, <1>10, <2>1, ProceedType DEF PreserveVolume, Busy, Deleting
  <2>3. NodeOf[w] \in Nodes /\ Path(w) \in Paths
    BY <1>0, <1>10, ProvisionerAssumption
       DEF ProvisionerAssumption, PreserveVolume, WorkOK, Busy, Deleting
  <2>4. BackendTypeOK'
    BY <1>0, <1>10, <2>3, DeleteType DEF PreserveVolume, DeleteStep
  <2>5. ApiTypeOK'
    BY <1>0, <1>10 DEF PreserveVolume, apiVars, ApiTypeOK
  <2>6. QED
    BY <2>2, <2>4, <2>5
<1>11. ASSUME DestroyVolume(w) PROVE Work /\ Store
  <2>1. PICK s \in {"unpublish", "err"} : Proceed(w, s)
    BY <1>11 DEF DestroyVolume
  <2>2. Work
    BY <1>0, <1>11, <2>1, ProceedType DEF DestroyVolume, Busy, Deleting, Returned
  <2>3. BackendTypeOK'
    BY <1>0, <1>11, DeleteType, ProvisionerAssumption
       DEF DestroyVolume, DeleteStep, ProvisionerAssumption, WorkOK, Busy, Deleting
  <2>4. ApiTypeOK'
    BY <1>0, <1>11 DEF DestroyVolume, apiVars, ApiTypeOK
  <2>5. QED
    BY <2>2, <2>3, <2>4
<1>12. ASSUME Unpublish(w) PROVE Work /\ Store
  <2>1. PICK s \in {"ok", "err"} : Proceed(w, s)
    BY <1>12 DEF Unpublish
  <2>2. Work
    BY <1>0, <1>12, <2>1, ProceedType DEF Unpublish, Busy, Deleting, Returned
  <2>3. Store
    BY <1>0, <1>12 DEF Unpublish, backendVars, BackendTypeOK, ApiTypeOK
  <2>4. QED
    BY <2>2, <2>3
<1>13. Work /\ Store
  BY <1>2, <1>3, <1>4, <1>5, <1>6, <1>7, <1>8, <1>9, <1>10, <1>11, <1>12 DEF Reconcile
<1>14. QueueTypeOK' /\ CacheTypeOK' /\ BudgetTypeOK'
  BY <1>0, <1>1, FaultType DEF queueVars, cacheVars, QueueTypeOK, CacheTypeOK, TypeOK
<1>15. QED
  BY <1>13, <1>14 DEF Inv, TypeOK

\* The queue's own steps.
LEMMA QueueingInv ==
  ASSUME Inv, Queueing
  PROVE  Inv'
<1> USE QueueAssumption, ProvisionerAssumption
    DEF QueueAssumption, ProvisionerAssumption
<1>0. /\ UNCHANGED <<backendVars, apiVars, cacheVars, budgetVars>>
      /\ TypeOK /\ WorkOK /\ QueueTypeOK /\ WorkTypeOK
  BY DEF Queueing, Inv, TypeOK
<1>1. ASSUME NEW w \in Workers, NEW i \in Items, TakeItem(w, i)
      PROVE  QueueNext /\ WorkTypeOK' /\ WorkOK'
  <2>1. QueueNext
    BY <1>1 DEF TakeItem, QueueNext
  <2>2. WorkTypeOK'
    BY <1>0, <1>1 DEF TakeItem, Goto, WorkTypeOK, Steps
  <2>3. WorkOK'
    BY <1>0, <1>1 DEF TakeItem, Goto, Get, WorkTypeOK, WorkOK, QueueTypeOK,
       Busy, Provisioning, Deleting
  <2>4. QED
    BY <2>1, <2>2, <2>3
<1>2. ASSUME NEW w \in Workers, ReturnItem(w)
      PROVE  QueueNext /\ WorkTypeOK' /\ WorkOK'
  <2>1. QueueNext
    BY <1>2 DEF ReturnItem, QueueNext
  <2>2. WorkTypeOK'
    BY <1>0, <1>2 DEF ReturnItem, Goto, WorkTypeOK, Steps
  <2>3. holding' = [holding EXCEPT ![w] = NoItem]
    BY <1>2 DEF ReturnItem, FinishOk, FinishRetry, FinishGiveUp
  <2>4. WorkOK'
    BY <1>0, <1>2, <2>3 DEF ReturnItem, Goto, WorkTypeOK, WorkOK, QueueTypeOK,
       Busy, Provisioning, Deleting
  <2>5. QED
    BY <2>1, <2>2, <2>4
<1>3. ASSUME NEW i \in Items, Expires(i)
      PROVE  QueueNext /\ WorkTypeOK' /\ WorkOK'
  BY <1>0, <1>3 DEF Expires, Expire, QueueNext, workVars, WorkTypeOK, WorkOK
<1>4. QueueNext /\ WorkTypeOK' /\ WorkOK'
  BY <1>1, <1>2, <1>3 DEF Queueing
<1>5. QueueTypeOK'
  BY <1>0, <1>4, QueueStepType
<1>6. BackendTypeOK' /\ ApiTypeOK' /\ CacheTypeOK' /\ BudgetTypeOK'
  BY <1>0 DEF TypeOK, backendVars, apiVars, cacheVars, budgetVars,
     BackendTypeOK, ApiTypeOK, CacheTypeOK, BudgetTypeOK
<1>7. QED
  BY <1>4, <1>5, <1>6 DEF Inv, TypeOK

\* Whatever an informer delivers, the queue gets items of its node.
LEMMA InformingAdds ==
  ASSUME Inv, Informing
  PROVE  /\ \E S \in SUBSET Items : Add(S)
         /\ CacheTypeOK'
<1> USE ProvisionerAssumption DEF ProvisionerAssumption, Keys
<1>0. ApiTypeOK /\ CacheTypeOK
  BY DEF Inv, TypeOK
<1>1. ASSUME NEW n \in Nodes, NEW nm \in Names, DeliverClaim(n, nm)
      PROVE  (\E S \in SUBSET Items : Add(S)) /\ CacheTypeOK'
  <2>1. (IF claim[nm] = NoClaim THEN {} ELSE {<<n, nm>>}) \in SUBSET Items
    OBVIOUS
  <2>2. CacheTypeOK'
    BY <1>0, <1>1 DEF DeliverClaim, ApiTypeOK, CacheTypeOK
  <2>3. QED
    BY <1>1, <2>1, <2>2 DEF DeliverClaim
<1>2. ASSUME NEW n \in Nodes, NEW u \in Uids, DeliverVolume(n, u)
      PROVE  (\E S \in SUBSET Items : Add(S)) /\ CacheTypeOK'
  <2>1. (IF pv[u] = NoPv THEN {} ELSE {<<n, u>>}) \in SUBSET Items
    OBVIOUS
  <2>2. CacheTypeOK'
    BY <1>0, <1>2 DEF DeliverVolume, ApiTypeOK, CacheTypeOK
  <2>3. QED
    BY <1>2, <2>1, <2>2 DEF DeliverVolume
<1>3. ASSUME NEW n \in Nodes, NEW c \in Classes, DeliverClass(n, c)
      PROVE  (\E S \in SUBSET Items : Add(S)) /\ CacheTypeOK'
  <2>1. {<<n, nm>> : nm \in ClaimsOf(n, c)} \in SUBSET Items
    BY DEF ClaimsOf
  <2>2. CacheTypeOK'
    BY <1>0, <1>3 DEF DeliverClass, ApiTypeOK, CacheTypeOK
  <2>3. QED
    BY <1>3, <2>1, <2>2 DEF DeliverClass
<1>4. ASSUME NEW n \in Nodes, NEW k \in Keys, Resync(n, k)
      PROVE  (\E S \in SUBSET Items : Add(S)) /\ CacheTypeOK'
  <2>1. {<<n, k>>} \in SUBSET Items
    OBVIOUS
  <2>2. CacheTypeOK'
    BY <1>0, <1>4 DEF Resync, cacheVars, CacheTypeOK
  <2>3. QED
    BY <1>4, <2>1, <2>2 DEF Resync
<1>5. QED
  BY <1>1, <1>2, <1>3, <1>4 DEF Informing

LEMMA InformingInv ==
  ASSUME Inv, Informing
  PROVE  Inv'
<1>1. PICK S \in SUBSET Items : Add(S)
  BY InformingAdds
<1>2. UNCHANGED <<backendVars, apiVars, workVars, budgetVars>>
  BY DEF Informing
<1>3. QueueTypeOK' /\ WorkOK' /\ WorkTypeOK'
  BY <1>1, <1>2 DEF Inv, TypeOK, QueueTypeOK, Add, WorkOK, WorkTypeOK, workVars
<1>4. BackendTypeOK' /\ ApiTypeOK' /\ BudgetTypeOK'
  BY <1>2 DEF Inv, TypeOK, backendVars, apiVars, budgetVars, BackendTypeOK,
     ApiTypeOK, BudgetTypeOK
<1>5. QED
  BY <1>3, <1>4, InformingAdds DEF Inv, TypeOK

\* A restart forgets what the node's workers held, and nothing else's.
LEMMA RestartInv ==
  ASSUME Inv, NEW n \in Nodes, Restart(n)
  PROVE  Inv'
<1> USE QueueAssumption, ProvisionerAssumption
    DEF QueueAssumption, ProvisionerAssumption, Keys
<1>0. TypeOK /\ WorkOK
  BY DEF Inv
<1> DEFINE Dying == {w \in Workers : NodeOf[w] = n}
           Fresh == {<<n, nm>> : nm \in {x \in Names : claim[x] # NoClaim}} \cup
                    {<<n, u>> : u \in {x \in Uids : pv[x] # NoPv}}
<1>1. Reset({n} \X Keys, Dying, Fresh)
  BY DEF Restart
<1>2. Fresh \subseteq Items
  OBVIOUS
<1>3. holding' = [w \in Workers |-> IF w \in Dying THEN NoItem ELSE holding[w]]
  BY <1>1 DEF Reset
<1> HIDE DEF Fresh
<1>4. QueueTypeOK'
  BY <1>0, <1>1, <1>2 DEF TypeOK, QueueTypeOK, Reset
<1>5. WorkTypeOK'
  BY <1>0 DEF Restart, TypeOK, WorkTypeOK, Steps, NoJob
<1>6. WorkOK'
  BY <1>0, <1>3 DEF Restart, WorkOK, Busy, Provisioning, Deleting
<1>7. CacheTypeOK'
  BY <1>0 DEF Restart, TypeOK, ApiTypeOK, CacheTypeOK
<1>8. BackendTypeOK' /\ ApiTypeOK' /\ BudgetTypeOK'
  BY <1>0 DEF Restart, TypeOK, backendVars, apiVars, BackendTypeOK, ApiTypeOK,
     BudgetTypeOK
<1>9. QED
  BY <1>4, <1>5, <1>6, <1>7, <1>8 DEF Inv, TypeOK

LEMMA EnvironmentInv ==
  ASSUME Inv, Environment
  PROVE  Inv'
<1> USE ProvisionerAssumption DEF ProvisionerAssumption
<1>0. /\ ApiTypeOK
      /\ UNCHANGED <<queueVars, backendVars, cacheVars, workVars, budgetVars>>
  BY DEF Inv, TypeOK, Environment
<1>1. ASSUME NEW c \in Classes, CreateClass(c)
      PROVE  ApiTypeOK'
  BY <1>0, <1>1 DEF CreateClass, ApiTypeOK
<1>2. ASSUME NEW u \in Uids, CreateClaim(u) \/ DeleteClaim(u)
      PROVE  ApiTypeOK'
  BY <1>0, <1>2 DEF CreateClaim, DeleteClaim, ApiTypeOK, Claims
<1>3. ASSUME NEW u \in Uids, Bind(u)
      PROVE  ApiTypeOK'
  <2>1. claim[NameOf[u]] \in Claims /\ pv[u] \in Pvs
    BY <1>0, <1>3 DEF Bind, Alive, ApiTypeOK, NoClaim, NoPv
  <2>2. /\ [claim[NameOf[u]] EXCEPT !.phase = "Bound"] \in Claims
        /\ [pv[u] EXCEPT !.phase = "Bound"] \in Pvs
    BY <2>1 DEF Claims, Pvs
  <2>3. QED
    BY <1>0, <1>3, <2>2 DEF Bind, ApiTypeOK
<1>4. ASSUME NEW u \in Uids, Release(u) \/ AnnotateVolume(u)
      PROVE  ApiTypeOK'
  <2>1. pv[u] \in Pvs
    BY <1>0, <1>4 DEF Release, AnnotateVolume, ApiTypeOK, NoPv
  <2>2. /\ [pv[u] EXCEPT !.phase = "Released"] \in Pvs
        /\ [pv[u] EXCEPT !.snap = TRUE] \in Pvs
    BY <2>1 DEF Pvs
  <2>3. pv' \in [Uids -> Pvs \cup {NoPv}]
    <3>1. CASE Release(u)
      BY <1>0, <2>2, <3>1 DEF Release, ApiTypeOK
    <3>2. CASE AnnotateVolume(u)
      BY <1>0, <2>2, <3>2 DEF AnnotateVolume, ApiTypeOK
    <3>3. QED
      BY <1>4, <3>1, <3>2
  <2>4. QED
    BY <1>0, <1>4, <2>3 DEF Release, AnnotateVolume, ApiTypeOK
<1>5. ASSUME NEW u \in Uids, NEW n \in Nodes, SelectNode(u, n)
      PROVE  ApiTypeOK'
  <2>1. claim[NameOf[u]] \in Claims
    BY <1>0, <1>5 DEF SelectNode, Alive, ApiTypeOK, NoClaim
  <2>2. [claim[NameOf[u]] EXCEPT !.sel = n] \in Claims
    BY <2>1 DEF Claims
  <2>3. QED
    BY <1>0, <1>5, <2>2 DEF SelectNode, ApiTypeOK
<1>6. ApiTypeOK'
  BY <1>1, <1>2, <1>3, <1>4, <1>5 DEF Environment
<1>7. QueueTypeOK' /\ BackendTypeOK' /\ CacheTypeOK'
  BY <1>0 DEF Inv, TypeOK, queueVars, backendVars, cacheVars, QueueTypeOK,
     BackendTypeOK, CacheTypeOK
<1>8. WorkTypeOK' /\ WorkOK' /\ BudgetTypeOK'
  BY <1>0 DEF Inv, TypeOK, queueVars, workVars, budgetVars, WorkTypeOK, WorkOK,
     BudgetTypeOK
<1>9. QED
  BY <1>6, <1>7, <1>8 DEF Inv, TypeOK

LEMMA StutterInv ==
  ASSUME Inv, UNCHANGED vars
  PROVE  Inv'
  BY DEF Inv, vars, queueVars, backendVars, apiVars, cacheVars, workVars,
     budgetVars, TypeOK, QueueTypeOK, BackendTypeOK, ApiTypeOK, CacheTypeOK,
     WorkTypeOK, BudgetTypeOK, WorkOK

LEMMA NextInv ==
  ASSUME Inv, [Next]_vars
  PROVE  Inv'
  BY ReconcileInv, QueueingInv, InformingInv, RestartInv, EnvironmentInv,
     StutterInv DEF Next

-----------------------------------------------------------------------------

\* A step that leaves alone what the workers hold and where they are.
LEMMA GuardUnchanged ==
  ASSUME GuardOK, UNCHANGED <<holding, pc, inProgress>>
  PROVE  GuardOK'
  BY DEF GuardOK

\* A worker's step enters its own key, keeps it, or gives it back on its way
\* out; the other workers' keys are other keys.
LEMMA ReconcileGuard ==
  ASSUME Inv, Exclusion, GuardOK, NEW w \in Workers, Reconcile(w)
  PROVE  GuardOK'
<1> USE ProvisionerAssumption DEF ProvisionerAssumption
<1>0. /\ WorkTypeOK /\ WorkOK
      /\ UNCHANGED holding
      /\ pc[w] # "idle" => holding[w] = <<NodeOf[w], holding[w][2]>>
  BY DEF Reconcile, Inv, TypeOK, WorkOK, queueVars
<1>1. ASSUME NEW s \in Returned, Goto(w, s), pc[w] = "start"
      PROVE  GuardOK'
  BY <1>0, <1>1 DEF Goto, GuardOK, WorkTypeOK, Busy, Provisioning, Deleting
<1>2. ASSUME NEW j, NEW s \in Busy, Enter(w, j, s), pc[w] = "start"
      PROVE  GuardOK'
  <2>1. pc' = [pc EXCEPT ![w] = s] /\ pc'[w] \in Busy
    BY <1>0, <1>2 DEF Enter, WorkTypeOK
  <2>2. ASSUME NEW n \in Nodes, NEW k \in inProgress'[n]
        PROVE  \E x \in Workers : holding'[x] = <<n, k>> /\ pc'[x] \in Busy
    <3>1. CASE k \in inProgress[n]
      <4>1. PICK x \in Workers : holding[x] = <<n, k>> /\ pc[x] \in Busy
        BY <3>1 DEF GuardOK
      <4>2. pc'[x] \in Busy
        BY <1>0, <2>1, <4>1 DEF WorkTypeOK
      <4>3. QED
        BY <1>0, <4>1, <4>2
    <3>2. CASE k \notin inProgress[n]
      <4>1. n = NodeOf[w] /\ k = holding[w][2]
        BY <1>0, <1>2, <2>2, <3>2 DEF Enter, WorkTypeOK
      <4>2. QED
        BY <1>0, <1>2, <2>1, <4>1
    <3>3. QED
      BY <3>1, <3>2
  <2>3. QED
    BY <2>2 DEF GuardOK
<1>3. ASSUME NEW s \in Busy \cup Returned, Proceed(w, s), pc[w] \in Busy
      PROVE  GuardOK'
  <2>1. CASE s \in Returned
    <3>1. ASSUME NEW n \in Nodes, NEW k \in inProgress'[n]
          PROVE  \E x \in Workers : holding'[x] = <<n, k>> /\ pc'[x] \in Busy
      <4>1. /\ k \in inProgress[n]
            /\ n = NodeOf[w] => k # holding[w][2]
        BY <1>0, <1>3, <2>1, <3>1 DEF Proceed, WorkTypeOK
      <4>2. PICK x \in Workers : holding[x] = <<n, k>> /\ pc[x] \in Busy
        BY <4>1 DEF GuardOK
      <4>3. x # w
        BY <1>0, <4>1, <4>2 DEF Busy, Provisioning, Deleting
      <4>4. pc'[x] = pc[x]
        BY <1>0, <1>3, <2>1, <4>3 DEF Proceed, WorkTypeOK
      <4>5. QED
        BY <1>0, <4>2, <4>4
    <3>2. QED
      BY <3>1 DEF GuardOK
  <2>2. CASE s \notin Returned
    <3>1. pc' = [pc EXCEPT ![w] = s] /\ UNCHANGED inProgress /\ s \in Busy
      BY <1>3, <2>2 DEF Proceed, Goto
    <3>2. QED
      BY <1>0, <3>1 DEF GuardOK, WorkTypeOK
  <2>3. QED
    BY <2>1, <2>2
<1>4. CASE IgnoreItem(w) \/ RejectClaim(w) \/ SecretFails(w)
  BY <1>1, <1>4 DEF IgnoreItem, RejectClaim, SecretFails, Returned
<1>5. CASE BeginProvision(w) \/ BeginDelete(w)
  BY <1>2, <1>5 DEF BeginProvision, BeginDelete, Busy, Provisioning, Deleting
<1>6. CASE CheckBeforeCreate(w) \/ CheckBeforeDelete(w)
  <2>1. PICK s \in Busy \cup Returned : Proceed(w, s)
    BY <1>6, CheckTypes DEF CheckBeforeCreate, CheckBeforeDelete, Busy,
       Provisioning, Deleting, Returned
  <2>2. QED
    BY <1>3, <1>6, <2>1 DEF CheckBeforeCreate, CheckBeforeDelete, Busy,
       Provisioning, Deleting
<1>7. CASE MakeVolume(w) \/ Publish(w) \/ PublishConflict(w) \/ PublishFails(w)
  <2>1. PICK s \in Busy \cup Returned : Proceed(w, s)
    BY <1>7 DEF MakeVolume, Publish, PublishConflict, PublishFails, Busy,
       Provisioning, Returned
  <2>2. QED
    BY <1>3, <1>7, <2>1 DEF MakeVolume, Publish, PublishConflict, PublishFails,
       Busy, Provisioning
<1>8. CASE \/ PreserveVolume(w) \/ DestroyVolume(w)
           \/ Unpublish(w) \/ UnpublishFails(w)
  <2>1. PICK s \in Busy \cup Returned : Proceed(w, s)
    BY <1>8 DEF PreserveVolume, DestroyVolume, Unpublish, UnpublishFails, Busy,
       Deleting, Returned
  <2>2. QED
    BY <1>3, <1>8, <2>1 DEF PreserveVolume, DestroyVolume, Unpublish,
       UnpublishFails, Busy, Deleting
<1>9. QED
  BY <1>4, <1>5, <1>6, <1>7, <1>8 DEF Reconcile

\* No worker takes what another holds, and a busy worker takes and returns
\* nothing.
LEMMA QueueingGuard ==
  ASSUME Inv, Exclusion, GuardOK, Queueing
  PROVE  Exclusion' /\ GuardOK'
<1>0. WorkTypeOK /\ WorkOK /\ QueueTypeOK
  BY DEF Inv, TypeOK
<1>1. ASSUME NEW w \in Workers, NEW i \in Items, TakeItem(w, i)
      PROVE  QueueNext /\ GuardOK'
  <2>1. QueueNext
    BY <1>1 DEF TakeItem, QueueNext
  <2>2. /\ UNCHANGED inProgress
        /\ \A x \in Workers : pc[x] \in Busy => pc'[x] = pc[x] /\ holding'[x] = holding[x]
    BY <1>0, <1>1 DEF TakeItem, Get, Goto, WorkTypeOK, QueueTypeOK, Busy,
       Provisioning, Deleting
  <2>3. QED
    BY <2>1, <2>2 DEF GuardOK
<1>2. ASSUME NEW w \in Workers, ReturnItem(w)
      PROVE  QueueNext /\ GuardOK'
  <2>1. QueueNext
    BY <1>2 DEF ReturnItem, QueueNext
  <2>2. holding' = [holding EXCEPT ![w] = NoItem] /\ pc[w] \in {"ok", "err"}
    BY <1>2 DEF ReturnItem, FinishOk, FinishRetry, FinishGiveUp
  <2>3. /\ UNCHANGED inProgress
        /\ \A x \in Workers : pc[x] \in Busy => pc'[x] = pc[x] /\ holding'[x] = holding[x]
    BY <1>0, <1>2, <2>2 DEF ReturnItem, Goto, WorkTypeOK, QueueTypeOK, Busy,
       Provisioning, Deleting
  <2>4. QED
    BY <2>1, <2>3 DEF GuardOK
<1>3. ASSUME NEW i \in Items, Expires(i)
      PROVE  QueueNext /\ GuardOK'
  BY <1>3, GuardUnchanged DEF Expires, Expire, QueueNext, workVars
<1>4. QueueNext /\ GuardOK'
  BY <1>1, <1>2, <1>3 DEF Queueing
<1>5. QED
  BY <1>0, <1>4, QueueStepExclusion

\* A restart takes the items from the node's workers together with its guard.
LEMMA RestartGuard ==
  ASSUME Inv, Exclusion, GuardOK, NEW n \in Nodes, Restart(n)
  PROVE  Exclusion' /\ GuardOK'
<1> USE QueueAssumption, ProvisionerAssumption
    DEF QueueAssumption, ProvisionerAssumption
<1>0. /\ WorkTypeOK /\ WorkOK /\ QueueTypeOK
      /\ holding' = [w \in Workers |-> IF NodeOf[w] = n THEN NoItem ELSE holding[w]]
      /\ pc' = [w \in Workers |-> IF NodeOf[w] = n THEN "idle" ELSE pc[w]]
      /\ inProgress' = [inProgress EXCEPT ![n] = {}]
  BY DEF Inv, TypeOK, Restart, Reset
<1>1. Exclusion'
  BY <1>0 DEF Exclusion
<1>2. ASSUME NEW m \in Nodes, NEW k \in inProgress'[m]
      PROVE  \E x \in Workers : holding'[x] = <<m, k>> /\ pc'[x] \in Busy
  <2>1. m # n /\ k \in inProgress[m]
    BY <1>0, <1>2 DEF WorkTypeOK
  <2>2. PICK x \in Workers : holding[x] = <<m, k>> /\ pc[x] \in Busy
    BY <2>1 DEF GuardOK
  <2>3. NodeOf[x] = m
    BY <1>0, <2>2 DEF WorkOK, Busy, Provisioning, Deleting
  <2>4. QED
    BY <1>0, <2>1, <2>2, <2>3
<1>3. QED
  BY <1>1, <1>2 DEF GuardOK

LEMMA NextGuard ==
  ASSUME Inv, Exclusion, GuardOK, [Next]_vars
  PROVE  Exclusion' /\ GuardOK'
<1>1. ASSUME NEW w \in Workers, Reconcile(w)
      PROVE  Exclusion' /\ GuardOK'
  BY <1>1, ReconcileGuard DEF Reconcile, queueVars, Exclusion
<1>2. CASE Queueing
  BY <1>2, QueueingGuard
<1>3. CASE Informing
  <2>1. UNCHANGED <<holding, pc, inProgress>>
    BY <1>3, InformingAdds DEF Informing, workVars, Add
  <2>2. QED
    BY <2>1, GuardUnchanged DEF Exclusion
<1>4. ASSUME NEW n \in Nodes, Restart(n)
      PROVE  Exclusion' /\ GuardOK'
  BY <1>4, RestartGuard
<1>5. CASE Environment \/ UNCHANGED vars
  <2>1. UNCHANGED <<holding, pc, inProgress>>
    BY <1>5 DEF Environment, vars, queueVars, workVars
  <2>2. QED
    BY <2>1, GuardUnchanged DEF Exclusion
<1>6. QED
  BY <1>1, <1>2, <1>3, <1>4, <1>5 DEF Next

LEMMA GuardInvariant == Spec => [](Inv /\ Exclusion /\ GuardOK)
<1>1. Inv /\ Exclusion /\ GuardOK /\ [Next]_vars => (Inv /\ Exclusion /\ GuardOK)'
  BY NextInv, NextGuard
<1>2. QED
  BY <1>1, InitInv, PTL DEF Spec

\* The guard of what a worker starts with is free: only the worker that holds an
\* item can have entered it.
LEMMA GuardFree == Inv /\ Exclusion /\ GuardOK => GuardNeverRefuses
<1> SUFFICES ASSUME Inv, Exclusion, GuardOK, NEW w \in Workers, pc[w] = "start",
                    holding[w][2] \in inProgress[NodeOf[w]]
             PROVE  FALSE
  BY DEF GuardNeverRefuses
<1> USE ProvisionerAssumption DEF ProvisionerAssumption
<1>1. holding[w] \in Items /\ holding[w] = <<NodeOf[w], holding[w][2]>>
  BY DEF Inv, WorkOK
<1>2. PICK x \in Workers : holding[x] = holding[w] /\ pc[x] \in Busy
  <2>1. NodeOf[w] \in Nodes
    OBVIOUS
  <2>2. \E x \in Workers : /\ holding[x] = <<NodeOf[w], holding[w][2]>>
                          /\ pc[x] \in Busy
    BY <2>1 DEF GuardOK
  <2>3. QED
    BY <1>1, <2>2
<1>3. x = w
  BY <1>1, <1>2 DEF Exclusion
<1>4. QED
  BY <1>2, <1>3 DEF Busy, Provisioning, Deleting

\* A failure is forgotten only with the item's node, and then nobody holds it.
LEMMA NextRetried ==
  ASSUME Inv, Exclusion, FailureIsRetried, [Next]_vars
  PROVE  FailureIsRetried'
<1>0. TypeOK /\ WorkOK /\ QueueTypeOK
  BY DEF Inv, TypeOK
<1>1. CASE UNCHANGED queueVars
  BY <1>1 DEF queueVars, FailureIsRetried, Processing
<1>2. CASE Queueing
  <2>1. QueueNext
    BY <1>2 DEF Queueing, TakeItem, ReturnItem, Expires, QueueNext
  <2>2. QED
    BY <1>0, <2>1, QueueStepRetried
<1>3. CASE Informing
  <2>1. PICK S \in SUBSET Items : Add(S)
    BY <1>3, InformingAdds
  <2>2. QED
    BY <2>1 DEF Add, FailureIsRetried, Processing
<1>4. ASSUME NEW n \in Nodes, Restart(n)
      PROVE  FailureIsRetried'
  <2>1. \E Fresh : Reset({n} \X Keys, {w \in Workers : NodeOf[w] = n}, Fresh)
    BY <1>4 DEF Restart
  <2>2. /\ delayed \ ({n} \X Keys) \subseteq delayed'
        /\ dirty \ ({n} \X Keys) \subseteq dirty'
        /\ failures' = [i \in Items |-> IF i \in {n} \X Keys THEN 0 ELSE failures[i]]
        /\ holding' = [w \in Workers |-> IF NodeOf[w] = n THEN NoItem ELSE holding[w]]
    BY <2>1 DEF Reset
  <2> SUFFICES ASSUME NEW i \in Items, failures'[i] > 0
               PROVE  i \in delayed' \cup dirty' \cup Processing'
    BY DEF FailureIsRetried
  <2>3. i \notin {n} \X Keys /\ failures[i] > 0
    BY <2>2
  <2>4. CASE i \in delayed \cup dirty
    BY <2>2, <2>3, <2>4
  <2>5. CASE i \in Processing
    <3>1. PICK w \in Workers : holding[w] = i
      BY <2>5 DEF Processing
    <3>2. i # NoItem /\ i[2] \in Keys /\ i = <<i[1], i[2]>>
      BY QueueAssumption, ProvisionerAssumption DEF QueueAssumption, ProvisionerAssumption
    <3>3. i[1] # n
      BY <2>3, <3>2
    <3>4. NodeOf[w] = i[1]
      BY <1>0, <3>1, <3>2 DEF WorkOK
    <3>5. holding'[w] = i
      BY <2>2, <3>1, <3>3, <3>4
    <3>6. QED
      BY <3>5 DEF Processing
  <2>6. QED
    BY <2>3, <2>4, <2>5 DEF FailureIsRetried
<1>5. QED
  BY <1>1, <1>2, <1>3, <1>4 DEF Next, Reconcile, Environment, vars

LEMMA RetriedInvariant == Spec => []FailureIsRetried
<1>1. Init => FailureIsRetried
  BY QueueInitInv DEF Init, QueueInv
<1>2. Inv /\ Exclusion /\ FailureIsRetried /\ [Next]_vars => FailureIsRetried'
  BY NextRetried
<1>3. QED
  BY <1>1, <1>2, GuardInvariant, PTL DEF Spec

-----------------------------------------------------------------------------

\* Every variable keeps its type.
THEOREM TypeCorrect == Spec => []TypeOK
<1>1. Inv => TypeOK
  BY DEF Inv
<1>2. QED
  BY <1>1, GuardInvariant, PTL

\* No two workers of a node reconcile the same object at once, and this holds
\* across restarts of the node's process.
THEOREM OneWorkerPerObject == Spec => []Exclusion
  BY GuardInvariant, PTL

\* An object whose reconcile failed, and was not given up, is on its way back to a
\* worker: no step of another node, event or restart takes its retry away.
THEOREM FailedReconcileIsRetried == Spec => []FailureIsRetried
BY RetriedInvariant

\* The in-progress map of the controller refuses nothing, because the queue
\* keeps a second worker from the object before the map is asked.
THEOREM GuardNeverRefusesHolds == Spec => []GuardNeverRefuses
BY GuardFree, GuardInvariant, PTL
=============================================================================
