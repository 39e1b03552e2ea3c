-------------------------- MODULE WorkQueueProofs --------------------------
(***************************************************************************)
(* What the worker loop guarantees, for any number of workers, objects and *)
(* retries.                                                                *)
(***************************************************************************)
EXTENDS WorkQueue, TLAPS

-----------------------------------------------------------------------------
(* The invariant is the conjunction of what the runs check; each part is   *)
(* preserved with no more than the type invariant.                         *)

QueueInv ==
    /\ QueueTypeOK
    /\ Exclusion
    /\ FailureIsRetried

\* Nothing is held and nothing has failed in a fresh queue.
LEMMA QueueInitInv == QueueInit => QueueInv
  BY QueueAssumption DEF QueueAssumption, QueueInit, QueueInv, QueueTypeOK,
     Exclusion, FailureIsRetried

\* Each operation keeps the types.
LEMMA QueueStepType ==
  ASSUME QueueTypeOK, [QueueNext]_queueVars
  PROVE  QueueTypeOK'
<1> USE QueueAssumption DEF QueueAssumption, QueueTypeOK
<1>1. CASE \E i \in Items : Add({i})
  BY <1>1 DEF Add
<1>2. CASE \E w \in Workers, i \in Items : Get(w, i)
  BY <1>2 DEF Get
<1>3. CASE \E w \in Workers : FinishOk(w)
  BY <1>3 DEF FinishOk
<1>4. CASE \E w \in Workers : FinishRetry(w)
  BY <1>4 DEF FinishRetry
<1>5. CASE \E w \in Workers : FinishGiveUp(w)
  BY <1>5 DEF FinishGiveUp
<1>6. CASE \E i \in Items : Expire(i)
  BY <1>6 DEF Expire
<1>7. CASE UNCHANGED queueVars
  BY <1>7 DEF queueVars
<1>8. QED
  BY <1>1, <1>2, <1>3, <1>4, <1>5, <1>6, <1>7 DEF QueueNext

\* Only Get puts an item into a worker's hands, and not one another worker has.
LEMMA QueueStepExclusion ==
  ASSUME QueueTypeOK, Exclusion, [QueueNext]_queueVars
  PROVE  Exclusion'
<1> USE QueueAssumption DEF QueueAssumption, QueueTypeOK, Exclusion
<1>1. CASE \E w \in Workers, i \in Items : Get(w, i)
  BY <1>1 DEF Get, Processing
<1>2. CASE \E w \in Workers : FinishOk(w) \/ FinishRetry(w) \/ FinishGiveUp(w)
  BY <1>2 DEF FinishOk, FinishRetry, FinishGiveUp
<1>3. CASE \/ \E i \in Items : Add({i}) \/ Expire(i)
           \/ UNCHANGED queueVars
  BY <1>3 DEF Add, Expire, queueVars
<1>4. QED
  BY <1>1, <1>2, <1>3 DEF QueueNext

\* A failure is counted in the step that makes the item wait for its retry, and
\* the item leaves the queue only into a worker's hands.
LEMMA QueueStepRetried ==
  ASSUME QueueTypeOK, Exclusion, FailureIsRetried, [QueueNext]_queueVars
  PROVE  FailureIsRetried'
<1> USE QueueAssumption DEF QueueAssumption, QueueTypeOK, Exclusion,
        FailureIsRetried, Processing
<1>1. CASE \E w \in Workers, i \in Items : Get(w, i)
  BY <1>1 DEF Get
<1>2. ASSUME NEW w \in Workers, FinishOk(w)
      PROVE  FailureIsRetried'
  BY <1>2 DEF FinishOk
<1>3. ASSUME NEW w \in Workers, FinishRetry(w)
      PROVE  FailureIsRetried'
  BY <1>3 DEF FinishRetry
<1>4. ASSUME NEW w \in Workers, FinishGiveUp(w)
      PROVE  FailureIsRetried'
  BY <1>4 DEF FinishGiveUp
<1>5. CASE \/ \E i \in Items : Add({i}) \/ Expire(i)
           \/ UNCHANGED queueVars
  BY <1>5 DEF Add, Expire, queueVars
<1>6. QED
  BY <1>1, <1>2, <1>3, <1>4, <1>5 DEF QueueNext

LEMMA QueueInvariant == QueueSpec => []QueueInv
<1>1. QueueInit => QueueInv
  BY QueueInitInv
<1>2. QueueInv /\ [QueueNext]_queueVars => QueueInv'
  BY QueueStepType, QueueStepExclusion, QueueStepRetried DEF QueueInv
<1>3. QED
  BY <1>1, <1>2, PTL DEF QueueSpec

-----------------------------------------------------------------------------

\* The queue's state keeps its types, and no item is counted as failed more
\* often than maxRetries allows (processNextWorkItem).
THEOREM QueueTypeCorrect == QueueSpec => []QueueTypeOK
<1>1. QueueInv => QueueTypeOK
  BY DEF QueueInv
<1>2. QED
  BY <1>1, QueueInvariant, PTL

\* However many workers run, no two of them reconcile the same object at once.
THEOREM ExclusionHolds == QueueSpec => []Exclusion
<1>1. QueueInv => Exclusion
  BY DEF QueueInv
<1>2. QED
  BY <1>1, QueueInvariant, PTL

\* An object whose last reconcile failed, and was not given up, is on its way
\* back to a worker.
THEOREM FailureIsRetriedHolds == QueueSpec => []FailureIsRetried
<1>1. QueueInv => FailureIsRetried
  BY DEF QueueInv
<1>2. QED
  BY <1>1, QueueInvariant, PTL

\* No reconcile that is already running absorbs the event of a later change.
THEOREM EventNeverAbsorbedHolds == QueueSpec => EventNeverAbsorbed
<1> DEFINE Kept == \A i \in dirty : i \notin dirty' =>
                      \E w \in Workers : holding[w] = NoItem /\ holding'[w] = i
<1>1. QueueTypeOK /\ [QueueNext]_queueVars => [Kept]_queueVars
  BY DEF QueueTypeOK, QueueNext, queueVars, Add, Get, FinishOk, FinishRetry,
     FinishGiveUp, Expire
<1>2. QED
  BY <1>1, QueueTypeCorrect, PTL DEF QueueSpec, EventNeverAbsorbed
=============================================================================
