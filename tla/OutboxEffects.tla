---------------------------- MODULE OutboxEffects ----------------------------
(***************************************************************************)
(* Proof that the outbox never completes an event whose handler had no     *)
(* effect, and never has an effect of an event that was not committed;     *)
(* that Outbox implements Delivery, and that settled events stay settled.  *)
(***************************************************************************)
EXTENDS OutboxProofs

-----------------------------------------------------------------------------
(* The inductive invariant.                                                *)

(* Rows and effects exist only of committed events; completion and cleanup *)
(* leave only rows of events that had their effect.                        *)
RowOK(e) ==
  /\ (tx[e] = "committed") <=> (status[e] # "none")
  /\ applied[e] => status[e] # "none"
  /\ status[e] \in {"processed", "gone"} => applied[e]

RowsOK == \A e \in Events : RowOK(e)

(* What a worker claimed, and what a handler works on, is in the table.    *)
ClaimsExist ==
  /\ \A w \in Workers : \A i \in 1 .. Len(events[w]) : status[events[w][i].id] # "none"
  /\ \A z \in zombies : status[z[2]] # "none"

(* A worker that is about to record success has seen the effect.           *)
VerdictOK ==
  \A w \in Workers : pc[w] = "record" /\ verdict[w] = "ok" => applied[Current(w).id]

EffectOK == RowsOK /\ ClaimsExist /\ VerdictOK

-----------------------------------------------------------------------------
(* What a step that leaves a part alone preserves.                         *)

(* A step that neither settles a row nor has an effect.                     *)
LEMMA RowsKept ==
  ASSUME RowsOK, UNCHANGED <<tx, status, applied>>
  PROVE  RowsOK'
BY DEF RowsOK, RowOK

(* Batches are forgotten, rows are never taken back.                       *)
LEMMA ClaimsKept ==
  ASSUME TypeOK, ClaimsExist,
         \A w \in Workers : events'[w] \in {events[w], <<>>},
         \A e \in Events : status[e] # "none" => status'[e] # "none",
         zombies' \subseteq zombies
  PROVE  ClaimsExist'
<1>1. ASSUME NEW w \in Workers, NEW i \in 1 .. Len(events'[w])
      PROVE  status'[events'[w][i].id] # "none"
  <2>1. events[w] \in Seq([id : Events, attempts : Nat])
    BY DEF TypeOK, BatchTypes
  <2>2. events'[w] = events[w]
    BY <1>1, EmptySequence
  <2>3. events[w][i] \in [id : Events, attempts : Nat]
    BY <1>1, <2>1, <2>2, ElementOfSequence
  <2> QED
    BY <1>1, <2>2, <2>3 DEF ClaimsExist
<1>2. ASSUME NEW z \in zombies' PROVE status'[z[2]] # "none"
  BY <1>2 DEF ClaimsExist, TypeOK, ConsumerTypes
<1> QED
  BY <1>1, <1>2 DEF ClaimsExist

(* Nobody comes to record success, and no effect is undone.                *)
LEMMA VerdictsKept ==
  ASSUME TypeOK, PhaseOK, VerdictOK,
         \A e \in Events : applied[e] => applied'[e],
         \A w \in Workers : pc'[w] = "record" /\ verdict'[w] = "ok" =>
            /\ pc[w] = "record" /\ verdict[w] = "ok"
            /\ events'[w] = events[w] /\ next'[w] = next[w]
  PROVE  VerdictOK'
<1> SUFFICES ASSUME NEW w \in Workers, pc'[w] = "record" /\ verdict'[w] = "ok"
             PROVE  applied'[events'[w][next'[w]].id]
  BY DEF VerdictOK, Current
<1>1. pc[w] = "record" /\ verdict[w] = "ok" /\ events'[w] = events[w] /\ next'[w] = next[w]
  OBVIOUS
<1>2. Current(w).id \in Events
  BY <1>1, CurrentType DEF TypeOK, PhaseOK
<1> QED
  BY <1>1, <1>2 DEF VerdictOK, Current

-----------------------------------------------------------------------------
(* Each kind of step.                                                      *)

(* There are no rows and no effects at first.                               *)
LEMMA EffectInit == Init => EffectOK
BY EmptySequence DEF Init, EffectOK, RowsOK, RowOK, ClaimsExist, VerdictOK

(* Producers: a row comes with its commit.                                 *)
LEMMA EffectProduce ==
  ASSUME TypeOK, PhaseOK, EffectOK, Produce
  PROVE  EffectOK'
<1> PICK e \in Events : Enqueue(e) \/ Commit(e) \/ Rollback(e) \/ EnqueueAutocommit(e)
  BY DEF Produce
<1>1. UNCHANGED <<workerVars, consumerVars>>
  BY DEF Enqueue, Commit, Rollback, EnqueueAutocommit
<1>2. RowsOK'
  BY <1>1 DEF TypeOK, RowTypes, EffectOK, RowsOK, RowOK, consumerVars,
              Enqueue, Commit, Rollback, EnqueueAutocommit
<1>3. \A f \in Events : status[f] # "none" => status'[f] # "none"
  BY DEF TypeOK, RowTypes, Enqueue, Commit, Rollback, EnqueueAutocommit
<1>4. ClaimsExist'
  BY <1>1, <1>3, ClaimsKept DEF EffectOK, workerVars, claimVars, consumerVars
<1>5. VerdictOK'
  BY <1>1, VerdictsKept DEF EffectOK, workerVars, claimVars, deliverVars, consumerVars
<1> QED
  BY <1>2, <1>4, <1>5 DEF EffectOK

(* The outcome of a delivery settles a row only after its effect.          *)
LEMMA EffectRecordOutcome ==
  ASSUME TypeOK, PhaseOK, EffectOK, NEW w \in Workers, pc[w] = "record", RecordOutcome(w),
         UNCHANGED applied
  PROVE  /\ RowsOK'
         /\ \A e \in Events : status[e] # "none" => status'[e] # "none"
<1>1. Current(w).id \in Events
  BY CurrentType DEF TypeOK, PhaseOK
<1>2. CASE verdict[w] = "ok"
  <2>1. Complete(w, Current(w).id) /\ applied[Current(w).id]
    BY <1>2 DEF RecordOutcome, EffectOK, VerdictOK
  <2> QED
    BY <1>1, <2>1 DEF Complete, Holds, Pending, rowVars, EffectOK, RowsOK, RowOK, TypeOK, RowTypes
<1>3. CASE verdict[w] # "ok"
  <2>1. PICK d : Fail(w, Current(w).id, d, verdict[w], DecideFailure(w))
    BY <1>3 DEF RecordOutcome
  <2>2. \/ UNCHANGED <<tx, status>>
        \/ /\ UNCHANGED tx
           /\ Pending(Current(w).id)
           /\ \/ status' = [status EXCEPT ![Current(w).id] = "dead"]
              \/ status' = [status EXCEPT ![Current(w).id] = "pending"]
    BY <2>1 DEF Fail, Holds, rowVars
  <2> QED
    BY <1>1, <2>2 DEF Pending, EffectOK, RowsOK, RowOK, TypeOK, RowTypes
<1> QED
  BY <1>2, <1>3

(* Worker steps that settle nothing and have no effect.                    *)
LEMMA EffectQuiet ==
  ASSUME TypeOK, PhaseOK, EffectOK, NEW w \in Workers,
         \/ Poll(w) \/ NothingToClaim(w) \/ SendClaim(w) \/ ClaimReply(w) \/ StartNext(w)
         \/ SkipUnhandled(w) \/ GiveBack(w) \/ StopDelivering(w) \/ ReleaseRest(w)
         \/ Stop(w) \/ Crash(w) \/ HousekeepingFails(w) \/ ClaimFails(w)
         \/ QueryFails(w) \/ ReleaseRestFails(w) \/ Start(w)
         \/ \E t \in Topics : Register(w, t) \/ Unregister(w, t)
  PROVE  EffectOK'
<1> USE DEF Poll, NothingToClaim, SendClaim, ClaimReply, StartNext, SkipUnhandled, GiveBack,
        StopDelivering, ReleaseRest, Stop, Crash, HousekeepingFails, ClaimFails, QueryFails,
        ReleaseRestFails, Start, Register, Unregister
<1>1. UNCHANGED <<tx, status, applied>> /\ zombies' \subseteq zombies
  BY DEF Release, rowVars, consumerVars
<1>2. \A v \in Workers : events'[v] \in {events[v], <<>>}
  BY DEF EndBatch, ForgetBatch, claimVars, TypeOK, BatchTypes
<1>3. \A v \in Workers : pc'[v] = "record" /\ verdict'[v] = "ok" =>
        /\ pc[v] = "record" /\ verdict[v] = "ok"
        /\ events'[v] = events[v] /\ next'[v] = next[v]
  <2>1. ASSUME NEW v \in Workers, v # w
        PROVE  pc'[v] = pc[v] /\ verdict'[v] = verdict[v] /\ events'[v] = events[v] /\ next'[v] = next[v]
    BY <2>1 DEF Goto, EndBatch, ForgetBatch, claimVars, deliverVars,
                TypeOK, ProcessTypes, BatchTypes, DeliveryTypes
  <2>2. pc'[w] # "record" \/ (UNCHANGED claimVars /\ pc'[w] = pc[w] /\ UNCHANGED verdict)
    BY DEF Goto, EndBatch, claimVars, deliverVars, TypeOK, ProcessTypes
  <2> QED
    BY <2>1, <2>2 DEF claimVars
<1>4. RowsOK'
  BY <1>1, RowsKept DEF EffectOK
<1>5. ClaimsExist'
  BY <1>1, <1>2, ClaimsKept DEF EffectOK
<1>6. VerdictOK'
  BY <1>1, <1>3, VerdictsKept DEF EffectOK
<1> QED
  BY <1>4, <1>5, <1>6 DEF EffectOK

(* Housekeeping settles rows, and deletes settled ones.                    *)
LEMMA EffectHousekeeping ==
  ASSUME TypeOK, PhaseOK, EffectOK, NEW w \in Workers, Cleanup(w) \/ DeadLetterUnhandled(w)
  PROVE  EffectOK'
<1>1. UNCHANGED <<tx, applied, zombies, events, next, verdict>>
  BY DEF Cleanup, DeadLetterUnhandled, claimVars, deliverVars, consumerVars
<1>2. \A e \in Events : <<status[e], status'[e]>> \in
        {<<"processed", "gone">>, <<"pending", "dead">>} \/ status'[e] = status[e]
  <2>1. CASE Cleanup(w)
    <3>1. PICK C \in SUBSET Expired : status' = [e \in Events |-> IF e \in C THEN "gone" ELSE status[e]]
      BY <2>1 DEF Cleanup, Chunk
    <3> QED
      BY <3>1 DEF Expired
  <2>2. CASE DeadLetterUnhandled(w)
    <3>1. PICK C \in SUBSET Unhandled(w) : status' = [e \in Events |-> IF e \in C THEN "dead" ELSE status[e]]
      BY <2>2 DEF DeadLetterUnhandled, Chunk
    <3> QED
      BY <3>1 DEF Unhandled, Pending
  <2> QED
    BY <2>1, <2>2
<1>3. \A v \in Workers : pc'[v] = "record" => pc[v] = "record"
  BY DEF Cleanup, DeadLetterUnhandled, Goto, TypeOK, ProcessTypes
<1>4. RowsOK'
  BY <1>1, <1>2 DEF EffectOK, RowsOK, RowOK
<1>5. ClaimsExist'
  BY <1>1, <1>2, ClaimsKept DEF EffectOK
<1>6. VerdictOK'
  BY <1>1, <1>3, VerdictsKept DEF EffectOK
<1> QED
  BY <1>4, <1>5, <1>6 DEF EffectOK

(* A claim takes rows of the table.                                        *)
LEMMA EffectClaim ==
  ASSUME TypeOK, PhaseOK, EffectOK, NEW w \in Workers, Claim(w)
  PROVE  EffectOK'
<1>1. UNCHANGED <<tx, status, applied, zombies, next, verdict>>
  BY DEF Claim, deliverVars, consumerVars
<1>2. PICK s \in ClaimBatches(w) : ClaimEffect(w, s)
  BY DEF Claim
<1> DEFINE b == [i \in DOMAIN s |-> [id |-> s[i], attempts |-> attempts[s[i]] + 1]]
<1>3. events' = [events EXCEPT ![w] = b]
  BY <1>2 DEF ClaimEffect
<1>4. DOMAIN s = 1 .. Len(s) /\ Len(s) \in Nat /\ \A i \in 1 .. Len(s) : s[i] \in Due(w)
  BY ClaimBatchType, ElementOfSequence, LengthOfSequence
<1>5. b \in [1 .. Len(s) -> [id : Events, attempts : Nat]]
  BY <1>4 DEF Due, TypeOK, RowTypes
<1>6. Len(b) = Len(s) /\ \A i \in 1 .. Len(s) : b[i].id = s[i]
  BY <1>4, <1>5, FunctionIsSequence
<1> HIDE DEF b
<1>7. ClaimsExist'
  <2>1. ASSUME NEW v \in Workers, NEW i \in 1 .. Len(events'[v])
        PROVE  status'[events'[v][i].id] # "none"
    <3>1. CASE v = w
      BY <1>1, <1>3, <1>4, <1>6, <2>1, <3>1 DEF Due, Pending, TypeOK, BatchTypes
    <3>2. CASE v # w
      BY <1>1, <1>3, <2>1, <3>2 DEF EffectOK, ClaimsExist, TypeOK, BatchTypes
    <3> QED
      BY <3>1, <3>2
  <2> QED
    BY <1>1, <2>1 DEF EffectOK, ClaimsExist
<1>8. VerdictOK'
  <2>1. \A v \in Workers : pc'[v] = "record" => pc[v] = "record" /\ v # w
    BY DEF Claim, Goto, TypeOK, ProcessTypes
  <2>2. \A v \in Workers : v # w => events'[v] = events[v]
    BY <1>3 DEF TypeOK, BatchTypes
  <2> QED
    BY <1>1, <2>1, <2>2, VerdictsKept DEF EffectOK
<1>9. RowsOK'
  BY <1>1, RowsKept DEF EffectOK
<1> QED
  BY <1>7, <1>8, <1>9 DEF EffectOK

(* The event in hand has a row.                                            *)
LEMMA CurrentExists ==
  ASSUME TypeOK, PhaseOK, EffectOK, NEW w \in Workers, pc[w] \in {"handle", "record"}
  PROVE  Current(w).id \in Events /\ status[Current(w).id] # "none"
<1>1. next[w] \in 1 .. Len(events[w]) /\ Current(w).id \in Events
  BY CurrentType DEF TypeOK, PhaseOK
<1> QED
  BY <1>1 DEF EffectOK, ClaimsExist, Current

(* Handlers, and the end of one that outlived its timeout.                 *)
LEMMA EffectHandlers ==
  ASSUME TypeOK, PhaseOK, EffectOK, NEW w \in Workers,
         HandlerSucceeds(w) \/ HandlerThrows(w) \/ HandlerTimesOut(w)
  PROVE  EffectOK'
<1> DEFINE e == Current(w).id
<1>1. e \in Events /\ status[e] # "none"
  BY CurrentExists DEF HandlerSucceeds, HandlerThrows, HandlerTimesOut
<1>2. UNCHANGED <<tx, status, events, next>>
  BY DEF HandlerSucceeds, HandlerThrows, HandlerTimesOut, rowVars, claimVars
<1>3. applied' = applied \/ applied' = [applied EXCEPT ![e] = TRUE]
  BY DEF HandlerSucceeds, HandlerThrows, HandlerTimesOut, consumerVars
<1>4. zombies' \subseteq zombies \cup {<<w, e>>}
  BY DEF HandlerSucceeds, HandlerThrows, HandlerTimesOut, consumerVars
<1>5. \A v \in Workers : v # w => pc'[v] = pc[v] /\ verdict'[v] = verdict[v]
  BY DEF HandlerSucceeds, HandlerThrows, HandlerTimesOut, Goto, TypeOK, ProcessTypes, DeliveryTypes
<1>6. verdict'[w] = "ok" => applied'[e]
  BY <1>1 DEF HandlerSucceeds, HandlerThrows, HandlerTimesOut, TypeOK, DeliveryTypes, ConsumerTypes
<1>7. RowsOK'
  BY <1>1, <1>2, <1>3 DEF EffectOK, RowsOK, RowOK, TypeOK, ConsumerTypes
<1>8. ClaimsExist'
  BY <1>1, <1>2, <1>4 DEF EffectOK, ClaimsExist
<1>9. VerdictOK'
  <2> SUFFICES ASSUME NEW v \in Workers, pc'[v] = "record", verdict'[v] = "ok"
               PROVE  applied'[Current(v).id]
    BY <1>2 DEF VerdictOK, Current
  <2>1. CASE v = w
    BY <1>6, <2>1
  <2>2. CASE v # w
    BY <1>3, <1>5, <2>2, CurrentExists DEF EffectOK, VerdictOK, TypeOK, ConsumerTypes
  <2> QED
    BY <2>1, <2>2
<1> QED
  BY <1>7, <1>8, <1>9 DEF EffectOK

(* A handler that outlived its timeout has its effect on an event that exists.*)
LEMMA EffectZombie ==
  ASSUME TypeOK, PhaseOK, EffectOK, NEW z \in zombies, ZombieEnds(z)
  PROVE  EffectOK'
<1>1. z[2] \in Events /\ status[z[2]] # "none"
  BY DEF TypeOK, ConsumerTypes, EffectOK, ClaimsExist
<1>2. UNCHANGED <<tx, status, events, next, pc, verdict>> /\ zombies' \subseteq zombies
  BY DEF ZombieEnds, rowVars, workerVars, claimVars, deliverVars
<1>3. PICK done \in BOOLEAN : applied' = [applied EXCEPT ![z[2]] = @ \/ done]
  BY DEF ZombieEnds
<1>4. \A e \in Events : applied[e] => applied'[e]
  BY <1>3 DEF TypeOK, ConsumerTypes
<1>5. \A e \in Events : applied'[e] => applied[e] \/ e = z[2]
  BY <1>3 DEF TypeOK, ConsumerTypes
<1>6. RowsOK'
  BY <1>1, <1>2, <1>4, <1>5 DEF EffectOK, RowsOK, RowOK
<1>7. ClaimsExist'
  BY <1>2, ClaimsKept DEF EffectOK
<1>8. VerdictOK'
  BY <1>2, <1>4, VerdictsKept DEF EffectOK
<1> QED
  BY <1>6, <1>7, <1>8 DEF EffectOK

(* Recording the outcome, whether the worker learns of it or not.          *)
LEMMA EffectRecord ==
  ASSUME TypeOK, PhaseOK, EffectOK, NEW w \in Workers, Record(w) \/ RecordReplyLost(w)
  PROVE  EffectOK'
<1>1. UNCHANGED <<events, next, verdict, applied, zombies>>
  BY DEF Record, RecordReplyLost, claimVars, consumerVars
<1>2. \A v \in Workers : pc'[v] = "record" => pc[v] = "record"
  BY DEF Record, RecordReplyLost, Goto, TypeOK, ProcessTypes
<1>3. RowsOK' /\ \A e \in Events : status[e] # "none" => status'[e] # "none"
  BY <1>1, EffectRecordOutcome DEF Record, RecordReplyLost
<1>4. ClaimsExist'
  BY <1>1, <1>3, ClaimsKept DEF EffectOK
<1>5. VerdictOK'
  BY <1>1, <1>2, VerdictsKept DEF EffectOK
<1> QED
  BY <1>3, <1>4, <1>5 DEF EffectOK

(* Time changes neither rows' states nor effects; a handler may run into its timeout.*)
LEMMA EffectTick ==
  ASSUME TypeOK, PhaseOK, EffectOK, Tick
  PROVE  EffectOK'
<1>1. UNCHANGED <<tx, status, applied, zombies, events, next, verdict>>
  BY DEF Tick, consumerVars
<1>2. \A v \in Workers : pc'[v] = "record" => pc[v] = "record"
  BY DEF Tick, TypeOK, ProcessTypes
<1>3. RowsOK' /\ ClaimsExist' /\ VerdictOK'
  BY <1>1, <1>2, RowsKept, ClaimsKept, VerdictsKept DEF EffectOK
<1> QED
  BY <1>3 DEF EffectOK

(* Every step keeps the invariant of rows and effects.                      *)
LEMMA EffectNext == TypeOK /\ PhaseOK /\ EffectOK /\ [Next]_vars => EffectOK'
<1> SUFFICES ASSUME TypeOK, PhaseOK, EffectOK, [Next]_vars PROVE EffectOK'
  OBVIOUS
<1>1. CASE Produce
  BY <1>1, EffectProduce
<1>2. CASE Tick
  BY <1>2, EffectTick
<1>3. ASSUME NEW z \in zombies, ZombieEnds(z) PROVE EffectOK'
  BY <1>3, EffectZombie
<1>4. ASSUME NEW w \in Workers, WorkerStep(w) PROVE EffectOK'
  BY <1>4, EffectQuiet, EffectHousekeeping, EffectClaim, EffectHandlers, EffectRecord DEF WorkerStep
<1>5. ASSUME NEW w \in Workers, FaultStep(w) PROVE EffectOK'
  BY <1>5, EffectQuiet, EffectRecord DEF FaultStep
<1>6. ASSUME NEW w \in Workers,
             Start(w) \/ HandlerSucceeds(w) \/ HandlerThrows(w) \/ \E t \in Topics : Register(w, t)
      PROVE  EffectOK'
  BY <1>6, EffectQuiet, EffectHandlers
<1>7. CASE UNCHANGED vars
  BY <1>7, RowsKept, ClaimsKept, VerdictsKept
     DEF EffectOK, vars, rowVars, workerVars, claimVars, deliverVars, consumerVars
<1> QED
  BY <1>1, <1>2, <1>3, <1>4, <1>5, <1>6, <1>7 DEF Next

(* The invariant holds in every reachable state.                           *)
LEMMA EffectCorrect == Spec => [](TypeOK /\ PhaseOK /\ EffectOK)
<1>1. Init => TypeOK /\ PhaseOK /\ EffectOK
  BY TypeInit, PhaseInit, EffectInit
<1>2. (TypeOK /\ PhaseOK /\ EffectOK) /\ [Next]_vars => (TypeOK /\ PhaseOK /\ EffectOK)'
  BY TypeNext, PhaseNext, EffectNext
<1> QED
  BY <1>1, <1>2, PTL DEF Spec

(* At least once (_deliver records "ok" only after its handler returned,   *)
(* COMPLETE_SQL only on a pending row): an event is processed, or deleted  *)
(* by the retention, only after a handler had its effect - whichever       *)
(* worker claimed it, however often its lease changed hands.               *)
THEOREM ProcessedImpliesApplied == Spec => []ProcessedWasApplied
<1>1. TypeOK /\ PhaseOK /\ EffectOK => ProcessedWasApplied
  BY DEF EffectOK, RowsOK, RowOK, ProcessedWasApplied
<1> QED
  BY <1>1, EffectCorrect, PTL

(* Transactional enqueue (Outbox.enqueue on the caller's client): no       *)
(* handler, not even one that outlived its timeout, has an effect for an   *)
(* event whose business transaction is open or was rolled back.            *)
THEOREM AppliedImpliesCommitted == Spec => []OnlyCommittedIsApplied
<1>1. TypeOK /\ PhaseOK /\ EffectOK => OnlyCommittedIsApplied
  BY DEF EffectOK, RowsOK, RowOK, OnlyCommittedIsApplied
<1> QED
  BY <1>1, EffectCorrect, PTL

-----------------------------------------------------------------------------
(* The refinement, and what becomes of settled events.                     *)

(* The kinds of change a row goes through.                                 *)

Quiet       == UNCHANGED <<status, applied>>
Promised    == Contract!Next \/ Quiet

(* Attempts are counted, or given back, only while the row is pending.     *)
CountsPending == \A e \in Events : attempts'[e] # attempts[e] => status[e] = "pending"

Settled(e)  == status[e] \in {"processed", "dead", "gone"}
StaysSettled ==
  \A e \in Events : Settled(e) =>
    /\ attempts'[e] = attempts[e]
    /\ \/ status'[e] = status[e]
       \/ status[e] = "processed" /\ status'[e] = "gone"

-----------------------------------------------------------------------------
(* A step of Delivery keeps what is settled, if it counts only pending rows *)

(* So it leaves settled events as they are.                                 *)
LEMMA PromisedKeepsSettled ==
  ASSUME TypeOK, Promised, CountsPending
  PROVE  StaysSettled
<1>1. CASE \E e \in Events : Contract!Publish(e) \/ Contract!Apply(e) \/ Contract!Complete(e)
  BY <1>1 DEF Contract!Publish, Contract!Apply, Contract!Complete, CountsPending, StaysSettled,
              Settled, TypeOK, RowTypes
<1>2. CASE \E S \in SUBSET Events : Contract!Bury(S) \/ Contract!Forget(S)
  BY <1>2 DEF Contract!Bury, Contract!Forget, CountsPending, StaysSettled, Settled
<1>3. CASE Quiet
  BY <1>3 DEF Quiet, CountsPending, StaysSettled, Settled
<1> QED
  BY <1>1, <1>2, <1>3 DEF Promised, Contract!Next

-----------------------------------------------------------------------------
(* Every step is a step of Delivery, or changes nothing it sees.           *)

(* A commit publishes; an open or failed transaction is not seen.           *)
LEMMA PromisedProduce ==
  ASSUME TypeOK, PhaseOK, EffectOK, Produce
  PROVE  Promised /\ CountsPending
<1> PICK e \in Events : Enqueue(e) \/ Commit(e) \/ Rollback(e) \/ EnqueueAutocommit(e)
  BY DEF Produce
<1>1. UNCHANGED <<attempts, applied>>
  BY DEF Enqueue, Commit, Rollback, EnqueueAutocommit, consumerVars
<1>2. CASE Enqueue(e) \/ Rollback(e)
  BY <1>1, <1>2 DEF Enqueue, Rollback, Promised, Quiet, CountsPending
<1>3. CASE Commit(e) \/ EnqueueAutocommit(e)
  <2>1. status[e] = "none"
    BY <1>3 DEF Commit, EnqueueAutocommit, EffectOK, RowsOK, RowOK
  <2>2. Contract!Publish(e)
    BY <1>1, <1>3, <2>1 DEF Commit, EnqueueAutocommit, Contract!Publish
  <2> QED
    BY <1>1, <2>2 DEF Promised, Contract!Next, CountsPending
<1> QED
  BY <1>1, <1>2, <1>3 DEF CountsPending

(* Retention forgets, the sweep of unhandled events buries.                 *)
LEMMA PromisedHousekeeping ==
  ASSUME TypeOK, PhaseOK, EffectOK, NEW w \in Workers, Cleanup(w) \/ DeadLetterUnhandled(w)
  PROVE  Promised /\ CountsPending
<1>1. UNCHANGED <<attempts, applied>>
  BY DEF Cleanup, DeadLetterUnhandled, consumerVars
<1>2. CASE Cleanup(w)
  <2>1. PICK C \in SUBSET Expired : status' = [e \in Events |-> IF e \in C THEN "gone" ELSE status[e]]
    BY <1>2 DEF Cleanup, Chunk
  <2>2. C \in SUBSET Events /\ Contract!Forget(C)
    BY <1>1, <2>1 DEF Expired, Contract!Forget
  <2> QED
    BY <1>1, <2>2 DEF Promised, Contract!Next, CountsPending
<1>3. CASE DeadLetterUnhandled(w)
  <2>1. PICK C \in SUBSET Unhandled(w) : status' = [e \in Events |-> IF e \in C THEN "dead" ELSE status[e]]
    BY <1>3 DEF DeadLetterUnhandled, Chunk
  <2>2. C \in SUBSET Events /\ Contract!Bury(C)
    BY <1>1, <2>1 DEF Unhandled, Pending, Contract!Bury
  <2> QED
    BY <1>1, <2>2 DEF Promised, Contract!Next, CountsPending
<1> QED
  BY <1>1, <1>2, <1>3 DEF CountsPending

(* The effect of a handler, timely or late, is an Apply.                    *)
LEMMA PromisedEffects ==
  ASSUME TypeOK, PhaseOK, EffectOK,
         \/ \E w \in Workers : HandlerSucceeds(w)
         \/ \E z \in zombies : ZombieEnds(z)
  PROVE  Promised /\ CountsPending
<1>1. UNCHANGED <<status, attempts>>
  BY DEF HandlerSucceeds, ZombieEnds, rowVars
<1>2. ASSUME NEW w \in Workers, HandlerSucceeds(w) PROVE Promised
  <2>1. Current(w).id \in Events /\ status[Current(w).id] # "none"
    BY <1>2, CurrentExists DEF HandlerSucceeds
  <2>2. Contract!Apply(Current(w).id)
    BY <1>1, <1>2, <2>1 DEF HandlerSucceeds, Contract!Apply
  <2> QED
    BY <2>1, <2>2 DEF Promised, Contract!Next
<1>3. ASSUME NEW z \in zombies, ZombieEnds(z) PROVE Promised
  <2>1. z[2] \in Events /\ status[z[2]] # "none"
    BY DEF TypeOK, ConsumerTypes, EffectOK, ClaimsExist
  <2>2. PICK done \in BOOLEAN : applied' = [applied EXCEPT ![z[2]] = @ \/ done]
    BY <1>3 DEF ZombieEnds
  <2>3. CASE done
    <3>1. Contract!Apply(z[2])
      BY <1>1, <2>1, <2>2, <2>3 DEF Contract!Apply, TypeOK, ConsumerTypes
    <3> QED
      BY <2>1, <3>1 DEF Promised, Contract!Next
  <2>4. CASE ~ done
    BY <1>1, <2>1, <2>2, <2>4 DEF Promised, Quiet, TypeOK, ConsumerTypes
  <2> QED
    BY <2>3, <2>4
<1> QED
  BY <1>1, <1>2, <1>3 DEF CountsPending

(* Recording completes an applied event, buries one, or changes nothing.   *)
LEMMA PromisedRecord ==
  ASSUME TypeOK, PhaseOK, EffectOK, NEW w \in Workers, Record(w) \/ RecordReplyLost(w)
  PROVE  Promised /\ CountsPending
<1> DEFINE e == Current(w).id
<1>1. pc[w] = "record" /\ RecordOutcome(w) /\ UNCHANGED applied
  BY DEF Record, RecordReplyLost, consumerVars
<1>2. e \in Events
  BY <1>1, CurrentExists
<1>3. CASE verdict[w] = "ok"
  <2>1. Complete(w, e) /\ applied[e]
    BY <1>1, <1>3 DEF RecordOutcome, EffectOK, VerdictOK
  <2>2. Contract!Complete(e) \/ Quiet
    BY <1>1, <2>1 DEF Complete, Holds, Pending, rowVars, Contract!Complete, Quiet
  <2>3. UNCHANGED attempts
    BY <2>1 DEF Complete, rowVars
  <2> QED
    BY <1>2, <2>2, <2>3 DEF Promised, Contract!Next, CountsPending
<1>4. CASE verdict[w] # "ok"
  <2>1. PICK d : Fail(w, e, d, verdict[w], DecideFailure(w))
    BY <1>1, <1>4 DEF RecordOutcome
  <2>2. UNCHANGED attempts
    BY <2>1 DEF Fail, rowVars
  <2>3. CASE Holds(w, e) /\ DecideFailure(w)
    <3>1. Contract!Bury({e})
      BY <1>1, <2>1, <2>3 DEF Fail, Holds, Pending, Contract!Bury, TypeOK, RowTypes
    <3> QED
      BY <1>2, <2>2, <3>1 DEF Promised, Contract!Next, CountsPending
  <2>4. CASE ~ (Holds(w, e) /\ DecideFailure(w))
    <3>1. UNCHANGED status
      BY <2>1, <2>4 DEF Fail, Holds, Pending, rowVars, TypeOK, RowTypes
    <3> QED
      BY <1>1, <2>2, <3>1 DEF Promised, Quiet, CountsPending
  <2> QED
    BY <2>3, <2>4
<1> QED
  BY <1>3, <1>4

(* Claims count an attempt of due rows, releases give one back.            *)
LEMMA PromisedCounts ==
  ASSUME TypeOK, PhaseOK, NEW w \in Workers, Claim(w) \/ GiveBack(w) \/ ReleaseRest(w)
  PROVE  Promised /\ CountsPending
<1>1. Quiet
  BY DEF Claim, GiveBack, ReleaseRest, Release, consumerVars, Quiet
<1>2. CASE Claim(w)
  <2>1. PICK s \in ClaimBatches(w) : ClaimEffect(w, s)
    BY <1>2 DEF Claim
  <2>2. \A e \in Events : attempts'[e] # attempts[e] => e \in Members(s)
    BY <2>1 DEF ClaimEffect
  <2> QED
    BY <1>1, <2>2, ClaimBatchType DEF Promised, CountsPending, Due, Pending
<1>3. CASE GiveBack(w) \/ ReleaseRest(w)
  <2>1. PICK S : Release(w, S)
    BY <1>3 DEF GiveBack, ReleaseRest
  <2> QED
    BY <1>1, <2>1 DEF Release, Holds, Pending, Promised, CountsPending
<1> QED
  BY <1>2, <1>3

(* Steps of workers and processes that Delivery does not see.               *)
LEMMA PromisedQuiet ==
  ASSUME TypeOK, NEW w \in Workers,
         \/ Poll(w) \/ NothingToClaim(w) \/ SendClaim(w) \/ ClaimReply(w) \/ StartNext(w)
         \/ SkipUnhandled(w) \/ StopDelivering(w) \/ HandlerThrows(w) \/ HandlerTimesOut(w)
         \/ Stop(w) \/ Crash(w) \/ HousekeepingFails(w) \/ ClaimFails(w)
         \/ QueryFails(w) \/ ReleaseRestFails(w) \/ Start(w)
         \/ \E t \in Topics : Register(w, t) \/ Unregister(w, t)
  PROVE  Promised /\ CountsPending
<1>1. UNCHANGED <<status, applied, attempts>>
  BY DEF Poll, NothingToClaim, SendClaim, ClaimReply, StartNext, SkipUnhandled, StopDelivering,
         HandlerThrows, HandlerTimesOut, Stop, Crash, HousekeepingFails, ClaimFails, QueryFails,
         ReleaseRestFails, Start, Register, Unregister, rowVars, consumerVars
<1> QED
  BY <1>1 DEF Promised, Quiet, CountsPending

(* Every step of the outbox.                                                *)
LEMMA PromisedNext ==
  ASSUME TypeOK, PhaseOK, EffectOK, [Next]_vars
  PROVE  Promised /\ CountsPending
<1>1. CASE Produce
  BY <1>1, PromisedProduce
<1>2. CASE Tick \/ UNCHANGED vars
  BY <1>2 DEF Tick, vars, rowVars, consumerVars, Promised, Quiet, CountsPending
<1>3. ASSUME NEW z \in zombies, ZombieEnds(z) PROVE Promised /\ CountsPending
  BY <1>3, PromisedEffects
<1>4. ASSUME NEW w \in Workers, WorkerStep(w) PROVE Promised /\ CountsPending
  BY <1>4, PromisedQuiet, PromisedHousekeeping, PromisedRecord, PromisedCounts DEF WorkerStep
<1>5. ASSUME NEW w \in Workers, FaultStep(w) PROVE Promised /\ CountsPending
  BY <1>5, PromisedQuiet, PromisedRecord DEF FaultStep
<1>6. ASSUME NEW w \in Workers,
             Start(w) \/ HandlerSucceeds(w) \/ HandlerThrows(w) \/ \E t \in Topics : Register(w, t)
      PROVE  Promised /\ CountsPending
  BY <1>6, PromisedQuiet, PromisedEffects
<1> QED
  BY <1>1, <1>2, <1>3, <1>4, <1>5, <1>6 DEF Next

-----------------------------------------------------------------------------
(* Refinement: with status and applied for the variables of Delivery,      *)
(* every behaviour of producers, workers, clock and faults is a behaviour  *)
(* of at-least-once delivery (the promise of lib/outbox/Outbox.js).        *)
THEOREM OutboxImplementsDelivery == Spec => ImplementsDelivery
<1>1. Init => Contract!Init
  BY DEF Init, Contract!Init
<1>2. (TypeOK /\ PhaseOK /\ EffectOK) /\ [Next]_vars => [Contract!Next]_<<status, applied>>
  BY PromisedNext DEF Promised, Quiet
<1> QED
  BY <1>1, <1>2, EffectCorrect, PTL DEF Spec, ImplementsDelivery, Contract!Spec

(* COMPLETE_SQL, FAIL_SQL and RELEASE_SQL act on a pending row only: a late *)
(* worker neither reopens nor settles again, nor recounts, what is settled. *)
THEOREM SettledStaysSettled == Spec => SettledForever
<1>1. (TypeOK /\ PhaseOK /\ EffectOK) /\ [Next]_vars =>
        [\A e \in Events : status[e] \in {"processed", "dead", "gone"} =>
            /\ attempts'[e] = attempts[e]
            /\ \/ status'[e] = status[e]
               \/ status[e] = "processed" /\ status'[e] = "gone"]_vars
  BY PromisedNext, PromisedKeepsSettled DEF StaysSettled, Settled
<1> QED
  BY <1>1, EffectCorrect, PTL DEF Spec, SettledForever
=============================================================================
