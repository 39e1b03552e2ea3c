----------------------------- MODULE WorkQueue -----------------------------
(***************************************************************************)
(* The event-driven work queue of the controller and the worker loop that  *)
(* drains it: Controller.queue, worker and processNextWorkItem in          *)
(* pkg/controller/controller.go.                                           *)
(*                                                                         *)
(* The queue itself is client-go's TypedRateLimitingInterface.  What the   *)
(* controller relies on is: an item is kept at most once (dirty); an item  *)
(* a worker holds is never handed to a second worker; an item added while  *)
(* it is held becomes available again when the holder calls Done; and      *)
(* AddRateLimited counts the failure now and adds the item later           *)
(* (delayed).  The FIFO order appears only as fairness, the length of the  *)
(* back-off not at all.                                                    *)
(***************************************************************************)
EXTENDS Naturals

CONSTANTS
    Workers,      \* the reconcile workers (ControllerOptions.Workers)
    Items,        \* what can be enqueued (reconcileKey)
    NoItem,       \* a worker that holds nothing
    MaxRetries    \* maxRetries: failures in a row before an item is dropped

ASSUME QueueAssumption ==
    /\ NoItem \notin Items
    /\ MaxRetries \in Nat

VARIABLES
    dirty,        \* items waiting to be reconciled
    delayed,      \* items AddRateLimited will add when their back-off ends
    failures,     \* NumRequeues: failures of an item since its last Forget
    holding       \* the item each worker is reconciling, or NoItem

queueVars == <<dirty, delayed, failures, holding>>

QueueTypeOK ==
    /\ dirty \subseteq Items
    /\ delayed \subseteq Items
    /\ failures \in [Items -> 0..MaxRetries]
    /\ holding \in [Workers -> Items \cup {NoItem}]

QueueInit ==
    /\ dirty = {}
    /\ delayed = {}
    /\ failures = [i \in Items |-> 0]
    /\ holding = [w \in Workers |-> NoItem]

-----------------------------------------------------------------------------
(* Faulty variants of the operations below, none of them part of the       *)
(* specification: each one shows that some property can be violated.       *)

\* Get does not look at what the other workers hold.
GetHeldToo(w, i) ==
    /\ holding[w] = NoItem
    /\ i \in dirty
    /\ dirty' = dirty \ {i}
    /\ holding' = [holding EXCEPT ![w] = i]
    /\ UNCHANGED <<delayed, failures>>

\* The number of retries is not looked at.
FinishRetryUnbounded(w) ==
    /\ holding[w] \in Items
    /\ failures' = [failures EXCEPT ![holding[w]] = @ + 1]
    /\ delayed' = delayed \cup {holding[w]}
    /\ holding' = [holding EXCEPT ![w] = NoItem]
    /\ UNCHANGED dirty

\* The failure is counted but the item is not added again.
FinishRetryNoAdd(w) ==
    /\ holding[w] \in Items
    /\ failures[holding[w]] < MaxRetries
    /\ failures' = [failures EXCEPT ![holding[w]] = @ + 1]
    /\ holding' = [holding EXCEPT ![w] = NoItem]
    /\ UNCHANGED <<dirty, delayed>>

\* Done clears the mark of an event that arrived meanwhile.
FinishOkClears(w) ==
    /\ holding[w] \in Items
    /\ failures' = [failures EXCEPT ![holding[w]] = 0]
    /\ holding' = [holding EXCEPT ![w] = NoItem]
    /\ dirty' = dirty \ {holding[w]}
    /\ UNCHANGED delayed

\* Success does not Forget the earlier failures.
FinishOkNoForget(w) ==
    /\ holding[w] \in Items
    /\ holding' = [holding EXCEPT ![w] = NoItem]
    /\ UNCHANGED <<dirty, delayed, failures>>

-----------------------------------------------------------------------------

\* The items some worker has taken and not yet given back.
Processing == {i \in Items : \E w \in Workers : holding[w] = i}

\* queue.Add for every item of S: an item already waiting is not duplicated.
Add(S) ==
    /\ dirty' = dirty \cup S
    /\ UNCHANGED <<delayed, failures, holding>>

\* queue.Get: a free worker takes a waiting item nobody else is processing.
Get(w, i) ==
    /\ holding[w] = NoItem
    /\ i \in dirty \ Processing
    /\ dirty' = dirty \ {i}
    /\ holding' = [holding EXCEPT ![w] = i]
    /\ UNCHANGED <<delayed, failures>>

\* reconcile returned nil: Forget, then the deferred Done.
FinishOk(w) ==
    /\ holding[w] \in Items
    /\ failures' = [failures EXCEPT ![holding[w]] = 0]
    /\ holding' = [holding EXCEPT ![w] = NoItem]
    /\ UNCHANGED <<dirty, delayed>>

\* reconcile returned an error and retries are left: AddRateLimited, Done.
FinishRetry(w) ==
    /\ holding[w] \in Items
    /\ failures[holding[w]] < MaxRetries
    /\ failures' = [failures EXCEPT ![holding[w]] = @ + 1]
    /\ delayed' = delayed \cup {holding[w]}
    /\ holding' = [holding EXCEPT ![w] = NoItem]
    /\ UNCHANGED dirty

\* reconcile returned an error for the last time: give up, Forget, Done.
FinishGiveUp(w) ==
    /\ holding[w] \in Items
    /\ failures[holding[w]] >= MaxRetries
    /\ failures' = [failures EXCEPT ![holding[w]] = 0]
    /\ holding' = [holding EXCEPT ![w] = NoItem]
    /\ UNCHANGED <<dirty, delayed>>

\* The back-off of a delayed item ends and the queue adds it again.
Expire(i) ==
    /\ i \in delayed
    /\ delayed' = delayed \ {i}
    /\ dirty' = dirty \cup {i}
    /\ UNCHANGED <<failures, holding>>

\* The process restarts: of the items in Lost and the workers in Dead nothing
\* survives, and the informers' first list adds the items in Fresh.
Reset(Lost, Dead, Fresh) ==
    /\ dirty' = (dirty \ Lost) \cup Fresh
    /\ delayed' = delayed \ Lost
    /\ failures' = [i \in Items |-> IF i \in Lost THEN 0 ELSE failures[i]]
    /\ holding' = [w \in Workers |-> IF w \in Dead THEN NoItem ELSE holding[w]]

-----------------------------------------------------------------------------
(* The worker loop on its own: any event may add any item, and a reconcile *)
(* may succeed or fail.                                                    *)

QueueNext ==
    \/ \E i \in Items : Add({i})
    \/ \E w \in Workers, i \in Items : Get(w, i)
    \/ \E w \in Workers : FinishOk(w)
    \/ \E w \in Workers : FinishRetry(w)
    \/ \E w \in Workers : FinishGiveUp(w)
    \/ \E i \in Items : Expire(i)

QueueSpec == QueueInit /\ [][QueueNext]_queueVars

\* Every reconcile returns; the back-off timer fires; and the queue is FIFO,
\* so a worker that comes free again and again gets to every waiting item.
QueueFairness ==
    /\ \A w \in Workers :
          WF_queueVars(FinishOk(w) \/ FinishRetry(w) \/ FinishGiveUp(w))
    /\ \A i \in Items : WF_queueVars(Expire(i))
    /\ \A i \in Items : SF_queueVars(\E w \in Workers : Get(w, i))

FairQueueSpec == QueueSpec /\ QueueFairness

-----------------------------------------------------------------------------

\* No two workers reconcile the same object at the same time.
Exclusion ==
    \A w1, w2 \in Workers :
        holding[w1] = holding[w2] /\ holding[w1] \in Items => w1 = w2

\* An object whose last reconcile failed and was not given up is still on its
\* way back to a worker: backing off, waiting, or being reconciled.
FailureIsRetried ==
    \A i \in Items : failures[i] > 0 => i \in delayed \cup dirty \cup Processing

\* The mark an event leaves is consumed only by a worker that starts a new
\* reconcile of the object, so an event that arrives while the object is being
\* reconciled (processNextWorkItem's deferred Done) is never absorbed by it.
EventNeverAbsorbed ==
    [][\A i \in dirty : i \notin dirty' =>
          \E w \in Workers : holding[w] = NoItem /\ holding'[w] = i]_queueVars

\* Every event is eventually followed by a reconcile of its object that began
\* after it: one that was already running does not count.
EventuallyReconciled == \A i \in Items : i \in dirty ~> i \in Processing \ dirty

\* A failing object is eventually reconciled without error or given up: it is
\* never left with failures counted and nobody going to look at it.
RetriesEnd == \A i \in Items : failures[i] > 0 ~> failures[i] = 0
=============================================================================
