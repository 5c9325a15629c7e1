---------------------------- MODULE OutboxLeases ----------------------------
(***************************************************************************)
(* Proof that a delivery runs within its lease, that no two workers        *)
(* deliver one event at a time, that every start of a handler stays        *)
(* counted, and that dead letters have a reason.                           *)
(***************************************************************************)
EXTENDS OutboxEffects

-----------------------------------------------------------------------------
(* The inductive invariant.                                                *)

Batch(w) == 1 .. Len(events[w])
Id(w, i) == events[w][i].id

(* The claims a worker has not settled, and those it has not started.      *)
InHand(w)  == {i \in Batch(w) : i > next[w] \/ (i = next[w] /\ pc[w] \in {"giveback", "handle", "record"})}
Waiting(w) == {i \in Batch(w) : i > next[w] \/ (i = next[w] /\ pc[w] = "giveback")}

DistinctBatches == \A w \in Workers : \A i, j \in Batch(w) : Id(w, i) = Id(w, j) => i = j
DistinctTokens  == \A v, w \in Workers : v # w /\ token[v] = token[w] => token[v] = NoToken

(* As long as the worker's own deadline has not passed, its claim is its   *)
(* own in the database and runs out no sooner; a row it holds has the      *)
(* attempts it was told.                                                   *)
ClaimOK(w, i) ==
  /\ leaseLeft[w] > 0 => Holds(w, Id(w, i)) /\ availableIn[Id(w, i)] >= leaseLeft[w]
  /\ Holds(w, Id(w, i)) => attempts[Id(w, i)] = events[w][i].attempts

(* A claim that is held and not started is not counted as a start yet.     *)
WaitOK(w, i) == Holds(w, Id(w, i)) => starts[Id(w, i)] + 1 <= attempts[Id(w, i)]

ClaimsOK(w) == (\A i \in InHand(w) : ClaimOK(w, i)) /\ (\A i \in Waiting(w) : WaitOK(w, i))

(* The lease left covers the rest of the delivery and of the margin.       *)
TimeOK(w) ==
  /\ pc[w] = "handle" => leaseLeft[w] >= (SettleMargin - late[w]) + (HandlerTimeout - spent[w])
  /\ pc[w] = "record" => leaseLeft[w] >= SettleMargin - late[w]

LeaseOK ==
  /\ DistinctBatches /\ DistinctTokens
  /\ \A w \in Workers : ClaimsOK(w) /\ TimeOK(w)
  /\ EveryStartIsCounted

Basics == TypeOK /\ PhaseOK /\ EffectOK

-----------------------------------------------------------------------------
(* What a step of one worker leaves of the claims of the others.           *)

SameWorker(v) ==
  /\ pc'[v] = pc[v] /\ events'[v] = events[v] /\ next'[v] = next[v] /\ token'[v] = token[v]
  /\ leaseLeft'[v] = leaseLeft[v] /\ spent'[v] = spent[v] /\ late'[v] = late[v]

SameRow(e) ==
  /\ status'[e] = status[e] /\ availableIn'[e] = availableIn[e]
  /\ attempts'[e] = attempts[e] /\ claimToken'[e] = claimToken[e]

(* The statements of w touch rows w holds, rows that are not pending and   *)
(* rows without a running lease, and leave them to w or to nobody.         *)
TouchedBy(w, e) ==
  /\ Holds(w, e) \/ ~ Pending(e) \/ availableIn[e] <= 0
  /\ status'[e] = "pending" => claimToken'[e] \in {NoToken, token[w]}

(* The events of a batch.                                                  *)
LEMMA BatchType ==
  ASSUME TypeOK, NEW w \in Workers
  PROVE  /\ Len(events[w]) \in Nat /\ next[w] \in Nat
         /\ \A i \in Batch(w) : Id(w, i) \in Events /\ events[w][i].attempts \in Nat
<1>1. events[w] \in Seq([id : Events, attempts : Nat]) /\ next[w] \in Nat
  BY DEF TypeOK, BatchTypes
<1>2. Len(events[w]) \in Nat
  BY <1>1, LengthOfSequence
<1>3. \A i \in Batch(w) : events[w][i] \in [id : Events, attempts : Nat]
  BY <1>1, ElementOfSequence DEF Batch
<1> QED
  BY <1>1, <1>2, <1>3 DEF Id

(* A worker that has a batch has a token.                                  *)
LEMMA BatchHasToken ==
  ASSUME Basics, NEW w \in Workers, NEW i \in Batch(w)
  PROVE  token[w] # NoToken
<1>1. events[w] # <<>>
  BY EmptySequence DEF Batch
<1> QED
  BY <1>1 DEF Basics, PhaseOK

(* A worker without a batch has no claims.                                  *)
LEMMA NoClaims ==
  ASSUME NEW w \in Workers, events[w] = <<>>
  PROVE  ClaimsOK(w) /\ InHand(w) = {} /\ Waiting(w) = {} /\ Batch(w) = {}
<1>1. Batch(w) = {}
  BY EmptySequence DEF Batch
<1> QED
  BY <1>1 DEF ClaimsOK, InHand, Waiting

(* A worker keeps the claims whose rows are left alone; it may lose a row  *)
(* only after its own deadline.                                            *)
LEMMA KeepClaims ==
  ASSUME Basics, NEW v \in Workers, ClaimsOK(v),
         events'[v] = events[v], token'[v] = token[v], leaseLeft'[v] = leaseLeft[v],
         InHand(v)' \subseteq InHand(v), Waiting(v)' \subseteq Waiting(v),
         \A i \in InHand(v)' :
           SameRow(Id(v, i)) \/ (~ leaseLeft[v] > 0 /\ ~ Holds(v, Id(v, i))'),
         \A i \in Waiting(v)' :
           starts'[Id(v, i)] = starts[Id(v, i)] \/ ~ Holds(v, Id(v, i))'
  PROVE  ClaimsOK(v)'
<1>1. ASSUME NEW i \in InHand(v)' PROVE ClaimOK(v, i)'
  <2>1. ClaimOK(v, i) /\ Id(v, i)' = Id(v, i)
    BY <1>1 DEF ClaimsOK, Id
  <2>2. CASE SameRow(Id(v, i))
    BY <2>1, <2>2 DEF ClaimOK, SameRow, Holds, Pending, Id
  <2>3. CASE ~ leaseLeft[v] > 0 /\ ~ Holds(v, Id(v, i))'
    BY <2>1, <2>3 DEF ClaimOK, Holds, Pending, Id
  <2> QED
    BY <1>1, <2>2, <2>3
<1>2. ASSUME NEW i \in Waiting(v)' PROVE WaitOK(v, i)'
  <2>1. WaitOK(v, i) /\ Id(v, i)' = Id(v, i) /\ i \in InHand(v)'
    BY <1>2 DEF ClaimsOK, Id, Waiting, InHand
  <2>2. CASE Holds(v, Id(v, i))'
    BY <1>2, <2>1, <2>2 DEF WaitOK, SameRow, Holds, Pending, Id
  <2>3. CASE ~ Holds(v, Id(v, i))'
    BY <2>1, <2>3 DEF WaitOK, Holds, Pending, Id
  <2> QED
    BY <2>2, <2>3
<1> QED
  BY <1>1, <1>2 DEF ClaimsOK

(* What a step of w does to the claims of another worker.                  *)
LEMMA OthersKeep ==
  ASSUME Basics, LeaseOK, NEW w \in Workers, NEW v \in Workers, v # w,
         SameWorker(v),
         \A e \in Events : SameRow(e) \/ TouchedBy(w, e),
         \A e \in Events : starts'[e] = starts[e] \/ (Holds(w, e) /\ SameRow(e))
  PROVE  ClaimsOK(v)' /\ TimeOK(v)'
<1>1. InHand(v)' = InHand(v) /\ Waiting(v)' = Waiting(v)
  BY DEF SameWorker, InHand, Waiting, Batch
<1>2. ASSUME NEW i \in InHand(v)
      PROVE  SameRow(Id(v, i)) \/ (~ leaseLeft[v] > 0 /\ ~ Holds(v, Id(v, i))')
  <2>1. i \in Batch(v) /\ Id(v, i) \in Events /\ Id(v, i)' = Id(v, i) /\ token[v] # NoToken
    BY BatchType, BatchHasToken DEF InHand, Basics, SameWorker, Id
  <2>2. SUFFICES ASSUME TouchedBy(w, Id(v, i))
                 PROVE  ~ leaseLeft[v] > 0 /\ ~ Holds(v, Id(v, i))'
    BY <2>1
  <2>3. token[v] # token[w]
    BY <2>1 DEF LeaseOK, DistinctTokens
  <2>4. ~ leaseLeft[v] > 0
    <3>1. leaseLeft[v] \in Nat /\ availableIn[Id(v, i)] \in Int
      BY <2>1, OutboxAssumption DEF Basics, TypeOK, BatchTypes, RowTypes, Oldest, Longest
    <3>2. leaseLeft[v] > 0 => Holds(v, Id(v, i)) /\ availableIn[Id(v, i)] >= leaseLeft[v]
      BY <1>2 DEF LeaseOK, ClaimsOK, ClaimOK
    <3> QED
      BY <2>2, <2>3, <3>1, <3>2 DEF TouchedBy, Holds
  <2>5. ~ Holds(v, Id(v, i))'
    BY <2>1, <2>2, <2>3 DEF TouchedBy, Holds, Pending, SameWorker
  <2> QED
    BY <2>4, <2>5
<1>3. ASSUME NEW i \in Waiting(v)
      PROVE  starts'[Id(v, i)] = starts[Id(v, i)] \/ ~ Holds(v, Id(v, i))'
  <2>1. i \in Batch(v) /\ Id(v, i) \in Events /\ Id(v, i)' = Id(v, i) /\ token[v] # NoToken
    BY BatchType, BatchHasToken DEF Waiting, Basics, SameWorker, Id
  <2>2. token[v] # token[w]
    BY <2>1 DEF LeaseOK, DistinctTokens
  <2> QED
    BY <2>1, <2>2 DEF Holds, SameRow, SameWorker
<1>4. ClaimsOK(v)'
  BY <1>1, <1>2, <1>3, KeepClaims DEF LeaseOK, SameWorker
<1>5. TimeOK(v)'
  BY DEF LeaseOK, TimeOK, SameWorker
<1> QED
  BY <1>4, <1>5

(* Batches stay distinct when they are kept or forgotten, and tokens when  *)
(* they are kept, dropped or fresh.                                        *)
LEMMA KeepDistinct ==
  ASSUME TypeOK, DistinctBatches, DistinctTokens, NEW w \in Workers,
         \A v \in Workers : events'[v] = events[v] \/ events'[v] = <<>>,
         \A v \in Workers : v # w => token'[v] = token[v],
         token'[w] \in {token[w], NoToken} \/ \A v \in Workers : token[v] # token'[w]
  PROVE  DistinctBatches' /\ DistinctTokens'
<1>1. DistinctTokens'
  BY DEF DistinctTokens
<1>2. ASSUME NEW v \in Workers PROVE \A i, j \in Batch(v)' : Id(v, i)' = Id(v, j)' => i = j
  <2>1. CASE events'[v] = events[v]
    BY <2>1 DEF DistinctBatches, Batch, Id
  <2>2. CASE events'[v] = <<>>
    BY <2>2, EmptySequence DEF Batch
  <2> QED
    BY <2>1, <2>2
<1> QED
  BY <1>1, <1>2 DEF DistinctBatches

(* The invariant after a step of one worker.                               *)
LEMMA WorkerKeeps ==
  ASSUME Basics, LeaseOK, NEW w \in Workers,
         \A v \in Workers : v # w => SameWorker(v),
         \A e \in Events : SameRow(e) \/ TouchedBy(w, e),
         \A e \in Events : starts'[e] = starts[e] \/ (Holds(w, e) /\ SameRow(e)),
         DistinctBatches', DistinctTokens', ClaimsOK(w)', TimeOK(w)', EveryStartIsCounted'
  PROVE  LeaseOK'
<1>1. ASSUME NEW v \in Workers PROVE ClaimsOK(v)' /\ TimeOK(v)'
  BY OthersKeep
<1> QED
  BY <1>1 DEF LeaseOK

-----------------------------------------------------------------------------
(* Steps of one worker.                                                    *)

(* The steps in which a worker keeps its batch and touches no row.         *)
LEMMA LeaseMoves ==
  ASSUME Basics, LeaseOK, NEW w \in Workers,
         \/ Poll(w) \/ ClaimReply(w) \/ SkipUnhandled(w) \/ HandlerSucceeds(w)
         \/ HandlerThrows(w) \/ HandlerTimesOut(w) \/ StopDelivering(w) \/ HousekeepingFails(w)
         \/ QueryFails(w) \/ Stop(w) \/ Start(w)
         \/ \E t \in Topics : Register(w, t) \/ Unregister(w, t)
  PROVE  LeaseOK'
<1> USE DEF Poll, ClaimReply, SkipUnhandled, HandlerSucceeds, HandlerThrows, HandlerTimesOut,
            StopDelivering, HousekeepingFails, QueryFails, Stop, Start, Register, Unregister
<1>1. UNCHANGED <<status, availableIn, attempts, claimToken, starts>>
  BY DEF rowVars, consumerVars
<1>2. UNCHANGED <<events, token, leaseLeft, spent, late>>
  BY DEF claimVars, deliverVars
<1>3. \A v \in Workers : v # w => SameWorker(v)
  BY <1>2 DEF SameWorker, Goto, claimVars, Basics, TypeOK, ProcessTypes, BatchTypes
<1>4. InHand(w)' \subseteq InHand(w) /\ Waiting(w)' \subseteq Waiting(w)
  <2>1. CASE Poll(w) \/ HousekeepingFails(w) \/ Start(w)
    <3>1. events[w] = <<>> /\ events'[w] = <<>>
      BY <1>2, <2>1 DEF Basics, PhaseOK, BatchPhases
    <3> QED
      BY <3>1, EmptySequence DEF InHand, Waiting, Batch
  <2>2. CASE SkipUnhandled(w)
    <3>1. next[w] \in Nat /\ next'[w] = next[w] + 1 /\ Batch(w) \subseteq Nat
      BY <2>2, BatchType DEF Basics, TypeOK, BatchTypes, Batch
    <3> QED
      BY <1>2, <2>2, <3>1 DEF InHand, Waiting, Batch, Goto, Basics, TypeOK, ProcessTypes
  <2>3. CASE ClaimReply(w) \/ HandlerSucceeds(w) \/ HandlerThrows(w) \/ HandlerTimesOut(w)
             \/ StopDelivering(w) \/ QueryFails(w)
    BY <1>2, <2>3 DEF InHand, Waiting, Batch, Goto, claimVars, Basics, TypeOK, ProcessTypes
  <2>4. CASE Stop(w) \/ \E t \in Topics : Register(w, t) \/ Unregister(w, t)
    <3>1. pc'[w] = pc[w] \/ events[w] = <<>>
      BY <2>4 DEF Basics, PhaseOK, BatchPhases, TypeOK, ProcessTypes
    <3> QED
      BY <1>2, <2>4, <3>1, EmptySequence DEF InHand, Waiting, Batch, claimVars
  <2> QED
    BY <2>1, <2>2, <2>3, <2>4
<1>5. ClaimsOK(w)'
  BY <1>1, <1>2, <1>4, KeepClaims DEF LeaseOK, SameRow
<1>6. TimeOK(w)'
  <2>1. /\ leaseLeft[w] \in Int /\ late[w] \in 0 .. SettleMargin /\ spent[w] \in 0 .. HandlerTimeout
        /\ SettleMargin \in Int /\ HandlerTimeout \in Int
    BY OutboxAssumption DEF Basics, TypeOK, BatchTypes, DeliveryTypes
  <2>2. CASE pc'[w] = "record" /\ pc[w] = "handle"
    BY <1>2, <2>1, <2>2 DEF LeaseOK, TimeOK
  <2>3. CASE pc'[w] = pc[w]
    BY <1>2, <2>3 DEF LeaseOK, TimeOK
  <2>4. CASE pc'[w] \notin {"handle", "record"}
    BY <2>4 DEF TimeOK
  <2>5. \/ pc'[w] = "record" /\ pc[w] = "handle"
        \/ pc'[w] = pc[w]
        \/ pc'[w] \notin {"handle", "record"}
    BY DEF Goto, Basics, TypeOK, ProcessTypes
  <2> QED
    BY <2>2, <2>3, <2>4, <2>5
<1>7. DistinctBatches' /\ DistinctTokens'
  BY <1>2, KeepDistinct DEF LeaseOK, Basics
<1>8. EveryStartIsCounted'
  BY <1>1 DEF LeaseOK, EveryStartIsCounted
<1> QED
  BY <1>1, <1>3, <1>5, <1>6, <1>7, <1>8, WorkerKeeps DEF SameRow

(* Starting a handler uses the start its claim has counted.                *)
LEMMA LeaseStart ==
  ASSUME Basics, LeaseOK, NEW w \in Workers, StartNext(w)
  PROVE  LeaseOK'
<1> DEFINE c == next[w] + 1
           e == Id(w, c)
<1>1. /\ c \in Batch(w) /\ c \in InHand(w) /\ c \in Waiting(w) /\ e \in Events
      /\ next[w] \in Nat /\ Batch(w) \subseteq Nat
  BY BatchType, NextEventType DEF StartNext, Basics, TypeOK, InHand, Waiting, Batch, Id
<1>2. leaseLeft[w] >= HandlerTimeout + SettleMargin /\ leaseLeft[w] > 0
  BY OutboxAssumption DEF StartNext, Continues, CanStartNext, Basics, TypeOK, BatchTypes
<1>3. Holds(w, e) /\ starts[e] + 1 <= attempts[e]
  BY <1>1, <1>2 DEF LeaseOK, ClaimsOK, ClaimOK, WaitOK
<1>4. UNCHANGED <<status, availableIn, attempts, claimToken, events, token, leaseLeft>>
  BY DEF StartNext, rowVars
<1>5. starts' = [starts EXCEPT ![e] = @ + 1]
  BY DEF StartNext, Id
<1>6. /\ pc'[w] = "handle" /\ next'[w] = c /\ spent'[w] = 0 /\ late'[w] = 0
      /\ \A v \in Workers : v # w => SameWorker(v)
  BY <1>4 DEF StartNext, SameWorker, Goto, Basics, TypeOK, ProcessTypes, BatchTypes, DeliveryTypes
<1>7. InHand(w)' \subseteq InHand(w) /\ Waiting(w)' \subseteq Waiting(w) \ {c}
  BY <1>1, <1>4, <1>6 DEF InHand, Waiting, Batch
<1>8. \A f \in Events : f # e => starts'[f] = starts[f]
  BY <1>5 DEF Basics, TypeOK, ConsumerTypes
<1>9. \A i \in Waiting(w)' : starts'[Id(w, i)] = starts[Id(w, i)]
  <2>1. \A i \in Waiting(w)' : i \in Batch(w) /\ Id(w, i) \in Events /\ Id(w, i) # e
    BY <1>1, <1>7, BatchType DEF Waiting, LeaseOK, DistinctBatches, Basics
  <2> HIDE DEF e
  <2> QED
    BY <1>8, <2>1
<1>10. ClaimsOK(w)'
  BY <1>4, <1>7, <1>9, KeepClaims DEF LeaseOK, SameRow
<1>11. TimeOK(w)'
  BY <1>2, <1>4, <1>6, OutboxAssumption DEF TimeOK
<1>12. EveryStartIsCounted'
  BY <1>3, <1>4, <1>5, <1>8 DEF LeaseOK, EveryStartIsCounted, Basics, TypeOK, ConsumerTypes
<1>13. DistinctBatches' /\ DistinctTokens'
  BY <1>4, KeepDistinct DEF LeaseOK, Basics
<1>14. \A f \in Events : SameRow(f) /\ (starts'[f] = starts[f] \/ Holds(w, f))
  BY <1>3, <1>4, <1>8 DEF SameRow
<1> QED
  BY <1>6, <1>10, <1>11, <1>12, <1>13, <1>14, WorkerKeeps

(* The steps that end a batch, and those that begin a claim.               *)
LEMMA LeaseEnds ==
  ASSUME Basics, LeaseOK, NEW w \in Workers,
         NothingToClaim(w) \/ ClaimFails(w) \/ ReleaseRestFails(w) \/ Crash(w)
  PROVE  LeaseOK'
<1>1. UNCHANGED <<status, availableIn, attempts, claimToken, starts>>
  BY DEF NothingToClaim, ClaimFails, ReleaseRestFails, Crash, rowVars, consumerVars
<1>2. ForgetBatch(w) /\ \E p \in {"down", "idle", "sleep"} : Goto(w, p)
  BY DEF NothingToClaim, ClaimFails, ReleaseRestFails, Crash, EndBatch
<1>3. /\ events'[w] = <<>> /\ token'[w] = NoToken /\ pc'[w] \in {"down", "idle", "sleep"}
      /\ \A v \in Workers : v # w => SameWorker(v)
  BY <1>2 DEF SameWorker, Goto, ForgetBatch, Basics, TypeOK, ProcessTypes, BatchTypes, DeliveryTypes
<1>4. ClaimsOK(w)'
  BY <1>3, EmptySequence DEF ClaimsOK, InHand, Waiting, Batch
<1>5. TimeOK(w)'
  BY <1>3 DEF TimeOK
<1>6. DistinctBatches' /\ DistinctTokens'
  BY <1>3, KeepDistinct DEF LeaseOK, Basics, SameWorker
<1>7. EveryStartIsCounted'
  BY <1>1 DEF LeaseOK, EveryStartIsCounted
<1> QED
  BY <1>1, <1>3, <1>4, <1>5, <1>6, <1>7, WorkerKeeps DEF SameRow

(* A worker that sends a claim draws a token nobody uses.                   *)
LEMMA LeaseSendClaim ==
  ASSUME Basics, LeaseOK, NEW w \in Workers, SendClaim(w)
  PROVE  LeaseOK'
<1>1. PICK t \in Tokens \ TokensInUse : token' = [token EXCEPT ![w] = t]
  BY DEF SendClaim
<1>2. UNCHANGED <<status, availableIn, attempts, claimToken, starts, events>>
  BY DEF SendClaim, rowVars, consumerVars
<1>3. /\ events[w] = <<>> /\ events'[w] = <<>> /\ pc'[w] = "sent"
      /\ \A v \in Workers : v # w => SameWorker(v)
  BY <1>1 DEF SendClaim, SameWorker, Goto, Basics, PhaseOK, BatchPhases, TypeOK, ProcessTypes,
              BatchTypes, DeliveryTypes, deliverVars
<1>4. ClaimsOK(w)'
  BY <1>3, EmptySequence DEF ClaimsOK, InHand, Waiting, Batch
<1>5. \A v \in Workers : token[v] # token'[w]
  BY <1>1 DEF TokensInUse, Members, Basics, TypeOK, BatchTypes
<1>6. DistinctBatches' /\ DistinctTokens'
  BY <1>2, <1>3, <1>5, KeepDistinct DEF LeaseOK, Basics, SameWorker
<1>7. TimeOK(w)'
  BY <1>3 DEF TimeOK
<1>8. EveryStartIsCounted'
  BY <1>2 DEF LeaseOK, EveryStartIsCounted
<1> QED
  BY <1>2, <1>3, <1>4, <1>6, <1>7, <1>8, WorkerKeeps DEF SameRow

(* Housekeeping touches no row whose lease is running.                     *)
LEMMA LeaseHousekeeping ==
  ASSUME Basics, LeaseOK, NEW w \in Workers, Cleanup(w) \/ DeadLetterUnhandled(w)
  PROVE  LeaseOK'
<1>1. UNCHANGED <<availableIn, attempts, starts, events, token, leaseLeft, next, spent, late>>
  BY DEF Cleanup, DeadLetterUnhandled, claimVars, deliverVars, consumerVars
<1>2. \A v \in Workers : v # w => SameWorker(v)
  BY <1>1 DEF Cleanup, DeadLetterUnhandled, SameWorker, Goto, Basics, TypeOK, ProcessTypes
<1>3. events[w] = <<>> /\ events'[w] = <<>> /\ pc'[w] \notin {"handle", "record"}
  BY <1>1 DEF Cleanup, DeadLetterUnhandled, Goto, Basics, PhaseOK, BatchPhases, TypeOK, ProcessTypes
<1>4. ASSUME NEW e \in Events PROVE SameRow(e) \/ TouchedBy(w, e)
  <2>1. CASE Cleanup(w)
    <3>1. PICK C \in SUBSET Expired : status' = [f \in Events |-> IF f \in C THEN "gone" ELSE status[f]]
      BY <2>1 DEF Cleanup, Chunk
    <3>2. UNCHANGED claimToken
      BY <2>1 DEF Cleanup
    <3> QED
      BY <1>1, <3>1, <3>2 DEF Expired, SameRow, TouchedBy, Pending
  <2>2. CASE DeadLetterUnhandled(w)
    <3>1. PICK C \in SUBSET Unhandled(w) :
            /\ status' = [f \in Events |-> IF f \in C THEN "dead" ELSE status[f]]
            /\ claimToken' = [f \in Events |-> IF f \in C THEN NoToken ELSE claimToken[f]]
      BY <2>2 DEF DeadLetterUnhandled, Chunk
    <3>2. e \in C => availableIn[e] <= 0
      BY <3>1, OutboxAssumption DEF Unhandled, Basics, TypeOK, RowTypes, Oldest, Longest
    <3> QED
      BY <1>1, <3>1, <3>2 DEF SameRow, TouchedBy
  <2> QED
    BY <2>1, <2>2
<1>5. ClaimsOK(w)' /\ TimeOK(w)'
  BY <1>3, EmptySequence DEF ClaimsOK, InHand, Waiting, Batch, TimeOK
<1>6. DistinctBatches' /\ DistinctTokens'
  BY <1>1, KeepDistinct DEF LeaseOK, Basics
<1>7. EveryStartIsCounted'
  BY <1>1 DEF LeaseOK, EveryStartIsCounted
<1> QED
  BY <1>1, <1>2, <1>4, <1>5, <1>6, <1>7, WorkerKeeps

(* A claim leases due rows: whoever held one of them is past its deadline. *)
LEMMA LeaseClaim ==
  ASSUME Basics, LeaseOK, NEW w \in Workers, Claim(w)
  PROVE  LeaseOK'
<1>1. PICK s \in ClaimBatches(w) : ClaimEffect(w, s)
  BY DEF Claim
<1>2. UNCHANGED <<status, starts, token, leaseLeft, next, spent, late>>
  BY DEF Claim, deliverVars, consumerVars
<1> DEFINE b == [i \in DOMAIN s |-> [id |-> s[i], attempts |-> attempts[s[i]] + 1]]
<1>3. /\ DOMAIN s = 1 .. Len(s) /\ Len(s) \in Nat
      /\ \A i \in 1 .. Len(s) : s[i] \in Due(w) /\ s[i] \in Events /\ s[i] \in Members(s)
      /\ \A i, j \in 1 .. Len(s) : i # j => s[i] # s[j]
      /\ Members(s) \subseteq Due(w)
  <2>1. s \in Seq(Due(w)) /\ DOMAIN s = 1 .. Len(s) /\ Members(s) \subseteq Due(w)
        /\ \A i, j \in 1 .. Len(s) : i # j => s[i] # s[j]
    BY ClaimBatchType
  <2> QED
    BY <2>1, ElementOfSequence, LengthOfSequence DEF Due, Members
<1>4. b \in [1 .. Len(s) -> [id : Events, attempts : Nat]]
  BY <1>3 DEF Basics, TypeOK, RowTypes
<1>5. Len(b) = Len(s) /\ \A i \in 1 .. Len(s) : b[i].id = s[i] /\ b[i].attempts = attempts[s[i]] + 1
  BY <1>3, <1>4, FunctionIsSequence
<1>6. events' = [events EXCEPT ![w] = b]
  BY <1>1 DEF ClaimEffect
<1> HIDE DEF b
<1>7. events'[w] = b /\ pc'[w] = "reply" /\ \A v \in Workers : v # w => SameWorker(v)
  BY <1>2, <1>6 DEF Claim, SameWorker, Goto, Basics, TypeOK, ProcessTypes, BatchTypes
<1>8. /\ \A e \in Members(s) : /\ e \in Events /\ status[e] = "pending" /\ availableIn[e] <= 0
                               /\ attempts'[e] = attempts[e] + 1
                               /\ availableIn'[e] = Lease /\ claimToken'[e] = token[w]
      /\ \A e \in Events \ Members(s) : SameRow(e)
  BY <1>1, <1>2, <1>3 DEF ClaimEffect, Due, Pending, SameRow
<1>9. \A e \in Events : SameRow(e) \/ TouchedBy(w, e)
  BY <1>8 DEF TouchedBy
<1>10. ClaimsOK(w)'
  <2>1. ASSUME NEW i \in Batch(w)' PROVE ClaimOK(w, i)' /\ WaitOK(w, i)'
    <3>1. i \in 1 .. Len(s) /\ Id(w, i)' = s[i] /\ events'[w][i].attempts = attempts[s[i]] + 1
      BY <1>5, <1>7, <2>1 DEF Batch, Id
    <3>2. /\ status'[s[i]] = "pending" /\ claimToken'[s[i]] = token'[w]
          /\ availableIn'[s[i]] >= leaseLeft'[w] /\ attempts'[s[i]] = attempts[s[i]] + 1
      BY <1>2, <1>3, <1>8, <3>1, OutboxAssumption DEF Basics, TypeOK, BatchTypes
    <3>3. starts'[s[i]] <= attempts[s[i]] /\ starts'[s[i]] \in Nat /\ attempts[s[i]] \in Nat
      BY <1>2, <1>3, <3>1 DEF LeaseOK, EveryStartIsCounted, Basics, TypeOK, RowTypes, ConsumerTypes
    <3> QED
      BY <3>1, <3>2, <3>3 DEF ClaimOK, WaitOK, Holds, Pending
  <2> QED
    BY <2>1 DEF ClaimsOK, InHand, Waiting
<1>11. TimeOK(w)'
  BY <1>7 DEF TimeOK
<1>12. DistinctBatches' /\ DistinctTokens'
  <2>1. ASSUME NEW v \in Workers PROVE \A i, j \in Batch(v)' : Id(v, i)' = Id(v, j)' => i = j
    <3>1. CASE v = w
      BY <1>3, <1>5, <1>7, <3>1 DEF Batch, Id
    <3>2. CASE v # w
      BY <1>7, <3>2 DEF LeaseOK, DistinctBatches, SameWorker, Batch, Id
    <3> QED
      BY <3>1, <3>2
  <2> QED
    BY <1>2, <2>1 DEF LeaseOK, DistinctBatches, DistinctTokens
<1>13. EveryStartIsCounted'
  BY <1>2, <1>8 DEF LeaseOK, EveryStartIsCounted, Basics, TypeOK, RowTypes, ConsumerTypes, SameRow
<1> QED
  BY <1>2, <1>7, <1>9, <1>10, <1>11, <1>12, <1>13, WorkerKeeps

(* Releasing claims that wait for their start.                             *)
LEMMA ReleaseWaiting ==
  ASSUME Basics, LeaseOK, NEW w \in Workers, NEW S, Release(w, S), UNCHANGED starts,
         \A e \in S : \E i \in Waiting(w) : Id(w, i) = e
  PROVE  /\ \A e \in Events : SameRow(e) \/ TouchedBy(w, e)
         /\ \A e \in Events \ S : SameRow(e)
         /\ EveryStartIsCounted'
<1>1. \A e \in Events : SameRow(e) \/ TouchedBy(w, e)
  BY DEF Release, SameRow, TouchedBy
<1>2. \A e \in Events \ S : SameRow(e)
  BY DEF Release, SameRow
<1>3. ASSUME NEW e \in Events PROVE starts'[e] <= attempts'[e]
  <2>1. starts[e] \in Nat /\ attempts[e] \in Nat /\ starts[e] <= attempts[e]
    BY DEF LeaseOK, EveryStartIsCounted, Basics, TypeOK, RowTypes, ConsumerTypes
  <2>2. CASE e \in S /\ Holds(w, e)
    <3>1. starts[e] + 1 <= attempts[e]
      BY <2>2 DEF LeaseOK, ClaimsOK, WaitOK
    <3>2. attempts'[e] = attempts[e] - 1
      BY <2>1, <2>2, <3>1 DEF Release
    <3> QED
      BY <2>1, <3>1, <3>2
  <2>3. CASE ~ (e \in S /\ Holds(w, e))
    BY <2>1, <2>3 DEF Release
  <2> QED
    BY <2>2, <2>3
<1> QED
  BY <1>1, <1>2, <1>3 DEF EveryStartIsCounted

(* A settled or returned event leaves the rest of the batch as it is.      *)
LEMMA RestOfBatch ==
  ASSUME Basics, LeaseOK, NEW w \in Workers, pc[w] \in {"giveback", "record"},
         pc'[w] \in {"next", "rest"}, UNCHANGED <<events, next, token, leaseLeft, starts>>,
         \A e \in Events : e # Current(w).id => SameRow(e)
  PROVE  ClaimsOK(w)'
<1>1. next[w] \in Batch(w) /\ Current(w) = events[w][next[w]]
  BY CurrentType DEF Basics, TypeOK, PhaseOK, Batch, Current
<1>2. /\ InHand(w)' \subseteq InHand(w) /\ Waiting(w)' \subseteq Waiting(w)
      /\ \A i \in InHand(w)' : i \in Batch(w) /\ i > next[w]
  BY DEF InHand, Waiting, Batch
<1>3. ASSUME NEW i \in InHand(w)' PROVE SameRow(Id(w, i))
  <2>1. i \in Batch(w) /\ i # next[w] /\ Id(w, i) \in Events
    BY <1>2, BatchType DEF Basics
  <2>2. Id(w, i) # Current(w).id
    BY <1>1, <2>1 DEF LeaseOK, DistinctBatches, Id
  <2> QED
    BY <2>1, <2>2
<1> QED
  BY <1>2, <1>3, KeepClaims DEF LeaseOK

(* Giving one event back touches a row of which no handler was started.     *)
LEMMA LeaseGiveBack ==
  ASSUME Basics, LeaseOK, NEW w \in Workers, GiveBack(w)
  PROVE  LeaseOK'
<1>1. next[w] \in Waiting(w) /\ Id(w, next[w]) = Current(w).id
  BY CurrentType DEF GiveBack, Basics, TypeOK, PhaseOK, Waiting, Batch, Id, Current
<1>2. /\ UNCHANGED <<events, next, token, leaseLeft, spent, late, starts>>
      /\ pc[w] = "giveback" /\ pc'[w] = "next" /\ \A v \in Workers : v # w => pc'[v] = pc[v]
  BY DEF GiveBack, claimVars, deliverVars, consumerVars, Goto, Basics, TypeOK, ProcessTypes
<1>3. /\ \A e \in Events : SameRow(e) \/ TouchedBy(w, e)
      /\ \A e \in Events \ {Current(w).id} : SameRow(e)
      /\ EveryStartIsCounted'
  BY <1>1, <1>2, ReleaseWaiting DEF GiveBack
<1>4. ClaimsOK(w)'
  BY <1>2, <1>3, RestOfBatch
<1>5. TimeOK(w)' /\ DistinctBatches' /\ DistinctTokens'
  BY <1>2, KeepDistinct DEF TimeOK, LeaseOK, Basics
<1> QED
  BY <1>2, <1>3, <1>4, <1>5, WorkerKeeps DEF SameWorker

(* Giving back the rest of a batch, which the worker forgets.               *)
LEMMA LeaseReleaseRest ==
  ASSUME Basics, LeaseOK, NEW w \in Workers, ReleaseRest(w)
  PROVE  LeaseOK'
<1>1. \A e \in Unstarted(w) : \E i \in Waiting(w) : Id(w, i) = e
  BY BatchType DEF Unstarted, Waiting, Batch, Id, Basics
<1>2. UNCHANGED starts /\ ForgetBatch(w) /\ \E p \in {"down", "idle", "sleep"} : Goto(w, p)
  BY DEF ReleaseRest, EndBatch, consumerVars
<1>3. /\ events'[w] = <<>> /\ token'[w] = NoToken /\ pc'[w] \in {"down", "idle", "sleep"}
      /\ \A v \in Workers : v # w => SameWorker(v)
  BY <1>2 DEF SameWorker, Goto, ForgetBatch, Basics, TypeOK, ProcessTypes, BatchTypes, DeliveryTypes
<1>4. (\A e \in Events : SameRow(e) \/ TouchedBy(w, e)) /\ EveryStartIsCounted'
  BY <1>1, <1>2, ReleaseWaiting DEF ReleaseRest
<1>5. ClaimsOK(w)' /\ TimeOK(w)'
  BY <1>3, EmptySequence DEF ClaimsOK, InHand, Waiting, Batch, TimeOK
<1>6. DistinctBatches' /\ DistinctTokens'
  BY <1>3, KeepDistinct DEF LeaseOK, Basics, SameWorker
<1> QED
  BY <1>2, <1>3, <1>4, <1>5, <1>6, WorkerKeeps

(* Recording touches the event in hand, if its worker still holds it.      *)
LEMMA LeaseRecord ==
  ASSUME Basics, LeaseOK, NEW w \in Workers, Record(w) \/ RecordReplyLost(w)
  PROVE  LeaseOK'
<1> DEFINE e == Current(w).id
<1>1. /\ UNCHANGED <<events, next, token, leaseLeft, spent, late, starts>>
      /\ pc[w] = "record" /\ pc'[w] \in {"next", "rest"}
      /\ \A v \in Workers : v # w => pc'[v] = pc[v]
  BY DEF Record, RecordReplyLost, claimVars, consumerVars, Goto, Basics, TypeOK, ProcessTypes
<1>2. /\ UNCHANGED attempts
      /\ \A f \in Events : f # e => SameRow(f)
      /\ SameRow(e) \/ (Holds(w, e) /\ claimToken'[e] = NoToken)
  <2>1. e \in Events /\ RecordOutcome(w)
    BY <1>1, CurrentExists DEF Record, RecordReplyLost, Basics
  <2>2. CASE Complete(w, e)
    BY <2>1, <2>2 DEF Complete, SameRow, rowVars, Basics, TypeOK, RowTypes
  <2>3. ASSUME NEW d, Fail(w, e, d, verdict[w], DecideFailure(w))
        PROVE  /\ UNCHANGED attempts
               /\ \A f \in Events : f # e => SameRow(f)
               /\ SameRow(e) \/ (Holds(w, e) /\ claimToken'[e] = NoToken)
    BY <2>1, <2>3 DEF Fail, SameRow, rowVars, Basics, TypeOK, RowTypes
  <2> QED
    BY <2>1, <2>2, <2>3 DEF RecordOutcome
<1>3. \A f \in Events : SameRow(f) \/ TouchedBy(w, f)
  BY <1>2 DEF TouchedBy
<1>4. ClaimsOK(w)'
  BY <1>1, <1>2, RestOfBatch
<1>5. TimeOK(w)' /\ DistinctBatches' /\ DistinctTokens'
  BY <1>1, KeepDistinct DEF TimeOK, LeaseOK, Basics
<1>6. EveryStartIsCounted'
  BY <1>1, <1>2 DEF LeaseOK, EveryStartIsCounted
<1> QED
  BY <1>1, <1>3, <1>4, <1>5, <1>6, WorkerKeeps DEF SameWorker

-----------------------------------------------------------------------------
(* Steps of the others.                                                    *)

(* A step that changes rows nobody claimed, and no worker.                 *)
LEMMA LeaseUnclaimed ==
  ASSUME Basics, LeaseOK,
         UNCHANGED <<pc, events, next, token, leaseLeft, spent, late, starts, attempts>>,
         \A e \in Events : status[e] # "none" => SameRow(e)
  PROVE  LeaseOK'
<1>1. ASSUME NEW v \in Workers PROVE ClaimsOK(v)'
  <2>1. InHand(v)' = InHand(v) /\ Waiting(v)' = Waiting(v)
    BY DEF InHand, Waiting, Batch
  <2>2. \A i \in InHand(v) : SameRow(Id(v, i))
    BY BatchType DEF InHand, Basics, EffectOK, ClaimsExist, Batch, Id
  <2> QED
    BY <2>1, <2>2, KeepClaims DEF LeaseOK
<1>2. \A v \in Workers : TimeOK(v)'
  BY DEF LeaseOK, TimeOK
<1>3. DistinctBatches' /\ DistinctTokens' /\ EveryStartIsCounted'
  BY DEF LeaseOK, DistinctBatches, DistinctTokens, Batch, Id, EveryStartIsCounted
<1> QED
  BY <1>1, <1>2, <1>3 DEF LeaseOK

(* Producers write rows nobody has claimed.                                 *)
LEMMA LeaseProduce ==
  ASSUME Basics, LeaseOK, Produce
  PROVE  LeaseOK'
<1> PICK e \in Events : Enqueue(e) \/ Commit(e) \/ Rollback(e) \/ EnqueueAutocommit(e)
  BY DEF Produce
<1>1. status[e] = "none"
  BY DEF Enqueue, Commit, Rollback, EnqueueAutocommit, Basics, EffectOK, RowsOK, RowOK
<1>2. \A f \in Events : f # e => SameRow(f)
  BY DEF Enqueue, Commit, Rollback, EnqueueAutocommit, SameRow, Basics, TypeOK, RowTypes
<1>3. UNCHANGED <<pc, events, next, token, leaseLeft, spent, late, starts, attempts>>
  BY DEF Enqueue, Commit, Rollback, EnqueueAutocommit, workerVars, claimVars, deliverVars, consumerVars
<1> QED
  BY <1>1, <1>2, <1>3, LeaseUnclaimed

(* Lease and deadline run out together; the margin is used up by stalls.   *)
LEMMA LeaseTick ==
  ASSUME Basics, LeaseOK, Tick
  PROVE  LeaseOK'
<1>1. UNCHANGED <<status, attempts, claimToken, starts, events, token, next>>
  BY DEF Tick, consumerVars
<1>2. ASSUME NEW w \in Workers PROVE ClaimsOK(w)'
  <2>1. InHand(w)' = InHand(w) /\ Waiting(w)' = Waiting(w)
    BY <1>1 DEF Tick, InHand, Waiting, Batch, Basics, TypeOK, ProcessTypes
  <2>2. ASSUME NEW i \in InHand(w) PROVE ClaimOK(w, i)'
    <3>1. Id(w, i) \in Events /\ Id(w, i)' = Id(w, i) /\ ClaimOK(w, i)
      BY <1>1, BatchType DEF InHand, Basics, Id, LeaseOK, ClaimsOK
    <3>2. Holds(w, Id(w, i))' = Holds(w, Id(w, i))
      BY <1>1, <3>1 DEF Holds, Pending
    <3>3. leaseLeft'[w] > 0 => availableIn'[Id(w, i)] >= leaseLeft'[w]
      <4>1. /\ leaseLeft[w] \in Int /\ availableIn[Id(w, i)] \in Int /\ Oldest \in Int /\ Oldest < 0
        BY <3>1, OutboxAssumption DEF Basics, TypeOK, BatchTypes, RowTypes, Oldest, Longest
      <4>2. leaseLeft'[w] = IF leaseLeft[w] > 0 THEN leaseLeft[w] - 1 ELSE 0
        BY DEF Tick
      <4>3. availableIn'[Id(w, i)] \in {availableIn[Id(w, i)], availableIn[Id(w, i)] - 1}
        BY <3>1 DEF Tick
      <4> QED
        BY <3>1, <4>1, <4>2, <4>3 DEF ClaimOK
    <3>4. leaseLeft'[w] > 0 => leaseLeft[w] > 0
      BY DEF Tick
    <3> QED
      BY <1>1, <3>1, <3>2, <3>3, <3>4 DEF ClaimOK
  <2>3. ASSUME NEW i \in Waiting(w) PROVE WaitOK(w, i)'
    BY <1>1, <2>3 DEF LeaseOK, ClaimsOK, WaitOK, Holds, Pending, Id
  <2> QED
    BY <2>1, <2>2, <2>3 DEF ClaimsOK
<1>3. ASSUME NEW w \in Workers PROVE TimeOK(w)'
  <2>1. /\ leaseLeft[w] \in Nat /\ late[w] \in 0 .. SettleMargin /\ spent[w] \in 0 .. HandlerTimeout
        /\ SettleMargin \in Nat /\ HandlerTimeout \in Nat
    BY OutboxAssumption DEF Basics, TypeOK, BatchTypes, DeliveryTypes
  <2>2. leaseLeft'[w] = IF leaseLeft[w] > 0 THEN leaseLeft[w] - 1 ELSE 0
    BY DEF Tick
  <2>3. CASE pc[w] = "handle" /\ spent[w] < HandlerTimeout
    <3>1. spent'[w] = spent[w] + 1 /\ late'[w] = late[w] /\ pc'[w] = "handle"
      BY <2>1, <2>3 DEF Tick, Prompt, Basics, TypeOK, ProcessTypes
    <3> QED
      BY <2>1, <2>2, <2>3, <3>1 DEF LeaseOK, TimeOK
  <2>4. CASE pc[w] = "record" \/ (pc[w] = "handle" /\ ~ spent[w] < HandlerTimeout)
    <3>1. /\ spent'[w] = spent[w] /\ pc'[w] = pc[w]
          /\ late'[w] = IF late[w] < SettleMargin THEN late[w] + 1 ELSE late[w]
      BY <2>1, <2>4 DEF Tick, Prompt, Delivering, Basics, TypeOK, ProcessTypes
    <3> QED
      BY <2>1, <2>2, <2>4, <3>1 DEF LeaseOK, TimeOK
  <2>5. CASE pc[w] \notin {"handle", "record"}
    BY <2>5 DEF Tick, TimeOK
  <2> QED
    BY <2>3, <2>4, <2>5
<1>4. DistinctBatches' /\ DistinctTokens' /\ EveryStartIsCounted'
  BY <1>1 DEF LeaseOK, DistinctBatches, DistinctTokens, Batch, Id, EveryStartIsCounted
<1> QED
  BY <1>2, <1>3, <1>4 DEF LeaseOK

(* Nothing is claimed at first.                                             *)
LEMMA LeaseInit == Init => LeaseOK
<1> SUFFICES ASSUME Init PROVE LeaseOK
  OBVIOUS
<1>1. \A w \in Workers : events[w] = <<>>
  BY DEF Init
<1>2. \A w \in Workers : Batch(w) = {} /\ ClaimsOK(w)
  BY <1>1, NoClaims
<1>3. DistinctBatches /\ DistinctTokens
  BY <1>2 DEF Init, DistinctBatches, DistinctTokens
<1>4. (\A w \in Workers : TimeOK(w)) /\ EveryStartIsCounted
  BY DEF Init, TimeOK, EveryStartIsCounted
<1> QED
  BY <1>2, <1>3, <1>4 DEF LeaseOK

(* Every step keeps the invariant of the leases.                            *)
LEMMA LeaseNext == Basics /\ LeaseOK /\ [Next]_vars => LeaseOK'
<1> SUFFICES ASSUME Basics, LeaseOK, [Next]_vars PROVE LeaseOK'
  OBVIOUS
<1>1. CASE Produce
  BY <1>1, LeaseProduce
<1>2. CASE Tick
  BY <1>2, LeaseTick
<1>3. CASE UNCHANGED vars \/ \E z \in zombies : ZombieEnds(z)
  BY <1>3, LeaseUnclaimed DEF ZombieEnds, vars, rowVars, workerVars, claimVars, deliverVars,
                              consumerVars, SameRow
<1>4. ASSUME NEW w \in Workers, WorkerStep(w) PROVE LeaseOK'
  BY <1>4, LeaseMoves, LeaseStart, LeaseEnds, LeaseSendClaim, LeaseHousekeeping, LeaseClaim,
     LeaseGiveBack, LeaseReleaseRest, LeaseRecord DEF WorkerStep
<1>5. ASSUME NEW w \in Workers, FaultStep(w) PROVE LeaseOK'
  BY <1>5, LeaseMoves, LeaseEnds, LeaseRecord DEF FaultStep
<1>6. ASSUME NEW w \in Workers,
             Start(w) \/ HandlerSucceeds(w) \/ HandlerThrows(w) \/ \E t \in Topics : Register(w, t)
      PROVE  LeaseOK'
  BY <1>6, LeaseMoves
<1> QED
  BY <1>1, <1>2, <1>3, <1>4, <1>5, <1>6 DEF Next

(* The invariant holds in every reachable state.                           *)
LEMMA LeaseCorrect == Spec => [](Basics /\ LeaseOK)
<1>1. Init => Basics /\ LeaseOK
  BY TypeInit, PhaseInit, EffectInit, LeaseInit DEF Basics
<1>2. (Basics /\ LeaseOK) /\ [Next]_vars => (Basics /\ LeaseOK)'
  BY TypeNext, PhaseNext, EffectNext, LeaseNext DEF Basics
<1> QED
  BY <1>1, <1>2, PTL DEF Spec

-----------------------------------------------------------------------------
(* The theorems.                                                           *)

(* A delivery that has not used up its margin holds its row.               *)
LEMMA DeliveryHolds ==
  ASSUME Basics, LeaseOK, NEW w \in Workers, Delivering(w), late[w] < SettleMargin
  PROVE  Holds(w, Current(w).id)
<1>1. next[w] \in InHand(w) /\ Id(w, next[w]) = Current(w).id
  BY CurrentType DEF Delivering, Basics, TypeOK, PhaseOK, InHand, Batch, Id, Current
<1>2. leaseLeft[w] > 0
  BY OutboxAssumption DEF Delivering, LeaseOK, TimeOK, Basics, TypeOK, BatchTypes, DeliveryTypes
<1> QED
  BY <1>1, <1>2 DEF LeaseOK, ClaimsOK, ClaimOK

(* canStartNext (OutboxWorker.js) refuses to start an event unless timeout *)
(* and settle margin fit into the lease, so the row still carries its      *)
(* worker's token when the outcome is recorded - for every lease, timeout, *)
(* margin, batch size and number of workers.                               *)
THEOREM LeaseCoversDelivery == Spec => []LeaseOutlivesDelivery
<1>1. Basics /\ LeaseOK => LeaseOutlivesDelivery
  BY DeliveryHolds DEF LeaseOutlivesDelivery
<1> QED
  BY <1>1, LeaseCorrect, PTL

(* "While a lease is valid no two workers handle the same event"           *)
(* (OutboxWorker.js): a row has one token, and tokens are distinct.        *)
THEOREM OneDeliveryAtATime == Spec => []OneDelivery
<1>1. Basics /\ LeaseOK => OneDelivery
  <2> SUFFICES ASSUME Basics, LeaseOK, NEW v \in Workers, NEW w \in Workers, v # w,
                      Delivering(v), Delivering(w),
                      late[v] < SettleMargin, late[w] < SettleMargin,
                      Current(v).id = Current(w).id
               PROVE  FALSE
    BY DEF OneDelivery
  <2>1. Holds(v, Current(v).id) /\ Holds(w, Current(v).id)
    BY DeliveryHolds
  <2>2. token[v] # NoToken
    BY DEF Delivering, Basics, PhaseOK, BatchPhases
  <2> QED
    BY <2>1, <2>2 DEF Holds, LeaseOK, DistinctTokens
<1> QED
  BY <1>1, LeaseCorrect, PTL

(* RELEASE_SQL lowers attempts only for claims whose handler was never     *)
(* started, whatever happened to the lease in between.                     *)
THEOREM StartsAreCounted == Spec => []EveryStartIsCounted
<1>1. Basics /\ LeaseOK => EveryStartIsCounted
  BY DEF LeaseOK
<1> QED
  BY <1>1, LeaseCorrect, PTL

-----------------------------------------------------------------------------
(* Dead letters.                                                           *)

(* The inductive invariant.                                                *)

(* Effects, and deliveries that may still have one, are of started events; *)
(* a delivery that is over has a verdict.                                  *)
StartedOK ==
  /\ \A w \in Workers : pc[w] \in {"handle", "record"} => starts[Current(w).id] # 0
  /\ \A w \in Workers : pc[w] = "record" => verdict[w] # "none"
  /\ \A z \in zombies : starts[z[2]] # 0
  /\ \A e \in Events : applied[e] => starts[e] # 0

DeadOK == StartedOK /\ DeadForAReason

Sound == Basics /\ LeaseOK

-----------------------------------------------------------------------------
(* What a step that leaves a part alone preserves.                         *)

(* A step that starts nothing and takes up no event keeps StartedOK.        *)
LEMMA StartedKept ==
  ASSUME Sound, StartedOK,
         UNCHANGED <<starts, applied>>, zombies' \subseteq zombies,
         \A w \in Workers : pc'[w] \in {"handle", "record"} =>
            pc'[w] = pc[w] /\ events'[w] = events[w] /\ next'[w] = next[w] /\ verdict'[w] = verdict[w]
  PROVE  StartedOK'
BY DEF StartedOK, Current

(* A step that buries nothing and leaves the dead letters alone.            *)
LEMMA DeadKept ==
  ASSUME DeadForAReason,
         \A e \in Events : status'[e] = "dead" =>
            /\ status[e] = "dead" /\ lastError'[e] = lastError[e] /\ attempts'[e] = attempts[e]
            /\ starts'[e] = starts[e] /\ applied'[e] = applied[e]
  PROVE  DeadForAReason'
BY DEF DeadForAReason

-----------------------------------------------------------------------------
(* Each kind of step.                                                      *)

(* There are no dead letters at first.                                      *)
LEMMA DeadInit == Init => DeadOK
BY DEF Init, DeadOK, StartedOK, DeadForAReason

(* Worker steps that settle nothing and start no handler.                   *)
LEMMA DeadQuiet ==
  ASSUME Sound, DeadOK, NEW w \in Workers,
         \/ Poll(w) \/ NothingToClaim(w) \/ SendClaim(w) \/ ClaimReply(w)
         \/ SkipUnhandled(w) \/ StopDelivering(w)
         \/ Stop(w) \/ Crash(w) \/ HousekeepingFails(w) \/ ClaimFails(w)
         \/ QueryFails(w) \/ ReleaseRestFails(w) \/ Start(w)
         \/ \E t \in Topics : Register(w, t) \/ Unregister(w, t)
  PROVE  DeadOK'
<1> USE DEF Poll, NothingToClaim, SendClaim, ClaimReply, SkipUnhandled, StopDelivering, Stop,
        Crash, HousekeepingFails, ClaimFails, QueryFails, ReleaseRestFails, Start, Register, Unregister
<1>1. UNCHANGED <<status, lastError, attempts, starts, applied>> /\ zombies' \subseteq zombies
  BY DEF rowVars, consumerVars
<1>2. \A v \in Workers : pc'[v] \in {"handle", "record"} =>
        pc'[v] = pc[v] /\ events'[v] = events[v] /\ next'[v] = next[v] /\ verdict'[v] = verdict[v]
  <2>1. \A v \in Workers : v # w =>
          pc'[v] = pc[v] /\ events'[v] = events[v] /\ next'[v] = next[v] /\ verdict'[v] = verdict[v]
    BY DEF Goto, EndBatch, ForgetBatch, claimVars, deliverVars,
           Sound, Basics, TypeOK, ProcessTypes, BatchTypes, DeliveryTypes
  <2>2. \/ pc'[w] \notin {"handle", "record"}
        \/ pc'[w] = pc[w] /\ UNCHANGED <<claimVars, verdict>>
    BY DEF Goto, EndBatch, claimVars, deliverVars, Sound, Basics, TypeOK, ProcessTypes
  <2> QED
    BY <2>1, <2>2 DEF claimVars
<1>3. StartedOK'
  BY <1>1, <1>2, StartedKept DEF DeadOK
<1>4. DeadForAReason'
  BY <1>1, DeadKept DEF DeadOK
<1> QED
  BY <1>3, <1>4 DEF DeadOK

(* Producers and the clock.                                                *)
LEMMA DeadOthers ==
  ASSUME Sound, DeadOK, Produce \/ Tick \/ UNCHANGED vars
  PROVE  DeadOK'
<1> USE DEF Enqueue, Commit, Rollback, EnqueueAutocommit, Tick, vars, rowVars, workerVars,
        claimVars, deliverVars, consumerVars
<1>1. UNCHANGED <<lastError, attempts, starts, applied, zombies, events, next, verdict>>
  BY DEF Produce
<1>2. \A v \in Workers : pc'[v] \in {"handle", "record"} => pc'[v] = pc[v]
  BY DEF Produce, Sound, Basics, TypeOK, ProcessTypes
<1>3. \A e \in Events : status'[e] = "dead" => status[e] = "dead"
  BY DEF Produce, Sound, Basics, TypeOK, RowTypes
<1>4. StartedOK' /\ DeadForAReason'
  BY <1>1, <1>2, <1>3, StartedKept, DeadKept DEF DeadOK
<1> QED
  BY <1>4 DEF DeadOK

(* Claims and releases count attempts of pending rows only.                *)
LEMMA DeadCounts ==
  ASSUME Sound, DeadOK, NEW w \in Workers, Claim(w) \/ GiveBack(w) \/ ReleaseRest(w)
  PROVE  DeadOK'
<1>1. UNCHANGED <<status, lastError, starts, applied, zombies>>
  BY DEF Claim, GiveBack, ReleaseRest, Release, consumerVars
<1>2. ASSUME NEW e \in Events, status[e] = "dead" PROVE attempts'[e] = attempts[e]
  <2>1. CASE Claim(w)
    <3>1. PICK s \in ClaimBatches(w) : ClaimEffect(w, s)
      BY <2>1 DEF Claim
    <3>2. e \notin Members(s)
      BY <1>2, ClaimBatchType DEF Due, Pending
    <3> QED
      BY <3>1, <3>2 DEF ClaimEffect
  <2>2. CASE GiveBack(w) \/ ReleaseRest(w)
    <3>1. PICK S : Release(w, S)
      BY <2>2 DEF GiveBack, ReleaseRest
    <3> QED
      BY <1>2, <3>1 DEF Release, Holds, Pending
  <2> QED
    BY <2>1, <2>2
<1>3. \A v \in Workers : pc'[v] \in {"handle", "record"} =>
        pc'[v] = pc[v] /\ events'[v] = events[v] /\ next'[v] = next[v] /\ verdict'[v] = verdict[v]
  <2>1. pc'[w] \notin {"handle", "record"}
    BY DEF Claim, GiveBack, ReleaseRest, EndBatch, Goto, Sound, Basics, TypeOK, ProcessTypes
  <2>2. \A v \in Workers : v # w =>
          pc'[v] = pc[v] /\ events'[v] = events[v] /\ next'[v] = next[v] /\ verdict'[v] = verdict[v]
    BY DEF Claim, ClaimEffect, GiveBack, ReleaseRest, Goto, EndBatch, ForgetBatch, claimVars, deliverVars,
           Sound, Basics, TypeOK, ProcessTypes, BatchTypes, DeliveryTypes
  <2> QED
    BY <2>1, <2>2
<1>4. StartedOK' /\ DeadForAReason'
  BY <1>1, <1>2, <1>3, StartedKept, DeadKept DEF DeadOK
<1> QED
  BY <1>4 DEF DeadOK

(* A row without a handler was never claimed, so never started.            *)
LEMMA DeadHousekeeping ==
  ASSUME Sound, DeadOK, NEW w \in Workers, Cleanup(w) \/ DeadLetterUnhandled(w)
  PROVE  DeadOK'
<1>1. UNCHANGED <<attempts, starts, applied, zombies, events, next, verdict>>
  BY DEF Cleanup, DeadLetterUnhandled, claimVars, deliverVars, consumerVars
<1>2. \A v \in Workers : pc'[v] \in {"handle", "record"} => pc'[v] = pc[v]
  BY DEF Cleanup, DeadLetterUnhandled, Goto, Sound, Basics, TypeOK, ProcessTypes
<1>3. DeadForAReason'
  <2>1. CASE Cleanup(w)
    BY <1>1, <2>1, DeadKept DEF Cleanup, DeadOK
  <2>2. CASE DeadLetterUnhandled(w)
    <3>1. PICK C \in SUBSET Unhandled(w) :
            /\ status' = [e \in Events |-> IF e \in C THEN "dead" ELSE status[e]]
            /\ lastError' = [e \in Events |-> IF e \in C THEN "no_handler" ELSE lastError[e]]
      BY <2>2 DEF DeadLetterUnhandled, Chunk
    <3>2. \A e \in C : starts[e] = 0 /\ ~ applied[e]
      BY <3>1 DEF Unhandled, DeadOK, StartedOK, Sound, LeaseOK, EveryStartIsCounted,
                  Basics, TypeOK, ConsumerTypes
    <3> QED
      BY <1>1, <3>1, <3>2 DEF DeadOK, DeadForAReason
  <2> QED
    BY <2>1, <2>2
<1>4. StartedOK'
  BY <1>1, <1>2, StartedKept DEF DeadOK
<1> QED
  BY <1>3, <1>4 DEF DeadOK

(* A handler is started only for a row that is pending.                    *)
LEMMA DeadStart ==
  ASSUME Sound, DeadOK, NEW w \in Workers, StartNext(w)
  PROVE  DeadOK'
<1> DEFINE e == Id(w, next[w] + 1)
<1>1. e \in Events /\ next[w] + 1 \in InHand(w) /\ next[w] \in Nat
  BY BatchType, NextEventType DEF StartNext, Sound, Basics, TypeOK, InHand, Batch, Id
<1>2. leaseLeft[w] > 0
  BY OutboxAssumption DEF StartNext, Continues, CanStartNext, Sound, Basics, TypeOK, BatchTypes
<1>3. status[e] = "pending"
  BY <1>1, <1>2 DEF Sound, LeaseOK, ClaimsOK, ClaimOK, Holds, Pending
<1>4. UNCHANGED <<status, lastError, attempts, applied, zombies, events, verdict>>
  BY DEF StartNext, rowVars
<1>5. starts' = [starts EXCEPT ![e] = @ + 1]
  BY DEF StartNext, Id
<1>6. /\ pc'[w] = "handle" /\ Current(w)'.id = e
      /\ \A v \in Workers : v # w => pc'[v] = pc[v] /\ Current(v)' = Current(v)
  BY <1>4 DEF StartNext, Goto, Sound, Basics, TypeOK, ProcessTypes, BatchTypes, Current, Id
<1> HIDE DEF e
<1>7. /\ \A f \in Events : starts[f] # 0 => starts'[f] # 0
      /\ \A f \in Events : f # e => starts'[f] = starts[f]
      /\ starts'[e] # 0
  BY <1>1, <1>5 DEF Sound, Basics, TypeOK, ConsumerTypes
<1>8. StartedOK'
  <2>1. ASSUME NEW v \in Workers, pc'[v] \in {"handle", "record"}
        PROVE  starts'[Current(v)'.id] # 0 /\ (pc'[v] = "record" => verdict'[v] # "none")
    <3>1. CASE v = w
      BY <1>6, <1>7, <3>1
    <3>2. CASE v # w
      <4>1. pc[v] \in {"handle", "record"} /\ Current(v)' = Current(v)
        BY <1>6, <2>1, <3>2
      <4>2. Current(v).id \in Events
        BY <4>1, CurrentExists DEF Sound, Basics
      <4> QED
        BY <1>4, <1>6, <1>7, <3>2, <4>1, <4>2 DEF DeadOK, StartedOK
    <3> QED
      BY <3>1, <3>2
  <2>2. \A z \in zombies : z[2] \in Events
    BY DEF Sound, Basics, TypeOK, ConsumerTypes
  <2> QED
    BY <1>4, <1>7, <2>1, <2>2 DEF DeadOK, StartedOK
<1>9. DeadForAReason'
  BY <1>3, <1>4, <1>7, DeadKept DEF DeadOK
<1> QED
  BY <1>8, <1>9 DEF DeadOK

(* An effect may come late, but only of a delivery that was started.       *)
LEMMA DeadHandlers ==
  ASSUME Sound, DeadOK,
         \/ \E w \in Workers : HandlerSucceeds(w) \/ HandlerThrows(w) \/ HandlerTimesOut(w)
         \/ \E z \in zombies : ZombieEnds(z)
  PROVE  DeadOK'
<1>1. UNCHANGED <<status, lastError, attempts, starts, events, next>>
  BY DEF HandlerSucceeds, HandlerThrows, HandlerTimesOut, ZombieEnds, rowVars, workerVars,
         claimVars, consumerVars
<1>2. \A e \in Events : applied'[e] => applied[e] \/ starts[e] # 0
  BY DEF HandlerSucceeds, HandlerThrows, HandlerTimesOut, ZombieEnds, consumerVars, DeadOK, StartedOK,
         Sound, Basics, TypeOK, ConsumerTypes
<1>3. \A z \in zombies' : starts[z[2]] # 0
  BY DEF HandlerSucceeds, HandlerThrows, HandlerTimesOut, ZombieEnds, consumerVars, DeadOK, StartedOK
<1>4. \A v \in Workers : pc'[v] \in {"handle", "record"} => pc[v] \in {"handle", "record"}
  BY DEF HandlerSucceeds, HandlerThrows, HandlerTimesOut, ZombieEnds, workerVars, Goto,
         Sound, Basics, TypeOK, ProcessTypes
<1>5. \A v \in Workers : pc'[v] = "record" => verdict'[v] # "none"
  BY DEF HandlerSucceeds, HandlerThrows, HandlerTimesOut, ZombieEnds, workerVars, deliverVars, Goto,
         DeadOK, StartedOK, Sound, Basics, TypeOK, ProcessTypes, DeliveryTypes
<1>6. StartedOK'
  BY <1>1, <1>2, <1>3, <1>4, <1>5 DEF DeadOK, StartedOK, Current
<1>7. DeadForAReason'
  BY <1>1, <1>2 DEF DeadOK, DeadForAReason
<1> QED
  BY <1>6, <1>7 DEF DeadOK

(* decideFailure judges by the attempts the worker was told, which are the *)
(* row's as long as the worker holds it.                                   *)
LEMMA DeadRecord ==
  ASSUME Sound, DeadOK, NEW w \in Workers, Record(w) \/ RecordReplyLost(w)
  PROVE  DeadOK'
<1> DEFINE e == Current(w).id
<1>1. /\ UNCHANGED <<events, next, verdict, starts, applied, zombies>>
      /\ pc[w] = "record" /\ RecordOutcome(w) /\ e \in Events
      /\ \A v \in Workers : pc'[v] \in {"handle", "record"} => pc'[v] = pc[v]
  BY CurrentExists DEF Record, RecordReplyLost, claimVars, consumerVars, Goto,
                       Sound, Basics, TypeOK, ProcessTypes
<1>2. Holds(w, e) => attempts[e] = Current(w).attempts
  <2>1. next[w] \in InHand(w) /\ Id(w, next[w]) = e
    BY <1>1, CurrentType DEF Sound, Basics, TypeOK, PhaseOK, InHand, Batch, Id, Current
  <2> QED
    BY <2>1 DEF Sound, LeaseOK, ClaimsOK, ClaimOK, Current
<1>3. verdict[w] \in {"ok", "error", "permanent"}
  BY <1>1 DEF DeadOK, StartedOK, Sound, Basics, TypeOK, DeliveryTypes
<1>4. CASE verdict[w] = "ok"
  <2>1. Complete(w, e)
    BY <1>1, <1>4 DEF RecordOutcome
  <2>2. \A f \in Events : status'[f] = "dead" =>
          status[f] = "dead" /\ lastError'[f] = lastError[f] /\ attempts'[f] = attempts[f]
    BY <1>1, <2>1 DEF Complete, Holds, Pending, rowVars, Sound, Basics, TypeOK, RowTypes
  <2>3. StartedOK' /\ DeadForAReason'
    BY <1>1, <2>2, StartedKept, DeadKept DEF DeadOK
  <2> QED
    BY <2>3 DEF DeadOK
<1>5. CASE verdict[w] # "ok"
  <2>1. PICK d : Fail(w, e, d, verdict[w], DecideFailure(w))
    BY <1>1, <1>5 DEF RecordOutcome
  <2>2. UNCHANGED attempts /\ \A f \in Events : f # e => status'[f] = status[f] /\ lastError'[f] = lastError[f]
    BY <2>1 DEF Fail, rowVars, Sound, Basics, TypeOK, RowTypes
  <2>3. status'[e] = "dead" =>
          \/ status[e] = "dead" /\ lastError'[e] = lastError[e]
          \/ lastError'[e] = verdict[w] /\ Holds(w, e) /\ DecideFailure(w)
    BY <1>1, <2>1 DEF Fail, Holds, Pending, rowVars, Sound, Basics, TypeOK, RowTypes
  <2>4. DeadForAReason'
    BY <1>1, <1>2, <1>3, <1>5, <2>2, <2>3 DEF DeadOK, DeadForAReason, DecideFailure
  <2>5. StartedOK'
    BY <1>1, StartedKept DEF DeadOK
  <2> QED
    BY <2>4, <2>5 DEF DeadOK
<1> QED
  BY <1>4, <1>5

(* Every step keeps the invariant of the dead letters.                      *)
LEMMA DeadNext == Sound /\ DeadOK /\ [Next]_vars => DeadOK'
<1> SUFFICES ASSUME Sound, DeadOK, [Next]_vars PROVE DeadOK'
  OBVIOUS
<1>1. CASE Produce \/ Tick \/ UNCHANGED vars
  BY <1>1, DeadOthers
<1>2. CASE \E z \in zombies : ZombieEnds(z)
  BY <1>2, DeadHandlers
<1>3. ASSUME NEW w \in Workers, WorkerStep(w) PROVE DeadOK'
  BY <1>3, DeadQuiet, DeadCounts, DeadHousekeeping, DeadStart, DeadHandlers, DeadRecord DEF WorkerStep
<1>4. ASSUME NEW w \in Workers, FaultStep(w) PROVE DeadOK'
  BY <1>4, DeadQuiet, DeadRecord DEF FaultStep
<1>5. ASSUME NEW w \in Workers,
             Start(w) \/ HandlerSucceeds(w) \/ HandlerThrows(w) \/ \E t \in Topics : Register(w, t)
      PROVE  DeadOK'
  BY <1>5, DeadQuiet, DeadHandlers
<1> QED
  BY <1>1, <1>2, <1>3, <1>4, <1>5 DEF Next

(* Dead letters (FAIL_SQL with dead, UNHANDLED_SQL) come from a permanent  *)
(* failure, from a failure at the topic's limit, or of events nobody has a *)
(* handler for - and those were never delivered to anybody, although the   *)
(* statement only looks at attempts, which RELEASE_SQL may have lowered.   *)
THEOREM DeadLettersHaveAReason == Spec => []DeadForAReason
<1>1. Init => Sound /\ DeadOK
  BY TypeInit, PhaseInit, EffectInit, LeaseInit, DeadInit DEF Sound, Basics
<1>2. (Sound /\ DeadOK) /\ [Next]_vars => (Sound /\ DeadOK)'
  BY TypeNext, PhaseNext, EffectNext, LeaseNext, DeadNext DEF Sound, Basics
<1>3. Sound /\ DeadOK => DeadForAReason
  BY DEF DeadOK
<1> QED
  BY <1>1, <1>2, <1>3, PTL DEF Spec
=============================================================================
