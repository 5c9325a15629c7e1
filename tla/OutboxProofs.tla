---------------------------- MODULE OutboxProofs ----------------------------
(***************************************************************************)
(* Type correctness of Outbox for every set of events, workers and topics, *)
(* every lease, timeout and margin, and any number of faults and stalls.   *)
(***************************************************************************)
EXTENDS Outbox, TLAPS

-----------------------------------------------------------------------------
(* What the type invariant needs to be inductive.                          *)

BatchPhases == {"reply", "next", "giveback", "handle", "record", "rest"}

(* What a process knows in each phase of its round.                        *)
PhaseOK ==
  \A w \in Workers :
    /\ pc[w] \notin BatchPhases => events[w] = <<>> /\ next[w] = 0
    /\ pc[w] = "reply" => next[w] = 0
    /\ pc[w] \in {"giveback", "handle", "record"} => next[w] # 0
    /\ (pc[w] \in BatchPhases \cup {"sent"}) <=> (token[w] # NoToken)

-----------------------------------------------------------------------------
(* Sequences.                                                              *)

(* Elements of a sequence, and the empty one.                              *)
LEMMA ElementOfSequence ==
  ASSUME NEW S, NEW s \in Seq(S), NEW i \in 1 .. Len(s)
  PROVE  s[i] \in S
  OBVIOUS

(* The length of a sequence is a number.                                    *)
LEMMA LengthOfSequence ==
  ASSUME NEW S, NEW s \in Seq(S)
  PROVE  Len(s) \in Nat
  OBVIOUS

(* The empty sequence.                                                      *)
LEMMA EmptySequence ==
  ASSUME NEW S
  PROVE  <<>> \in Seq(S) /\ Len(<<>>) = 0
  OBVIOUS

(* A function on 1 .. n is a sequence.                                     *)
LEMMA FunctionIsSequence ==
  ASSUME NEW S, NEW n \in Nat, NEW f \in [1 .. n -> S]
  PROVE  f \in Seq(S) /\ Len(f) = n
  OBVIOUS

-----------------------------------------------------------------------------
(* Type correctness.                                                       *)

(* The initial state is well typed.                                        *)
LEMMA TypeInit == Init => TypeOK
<1> SUFFICES ASSUME Init PROVE TypeOK
  OBVIOUS
<1>1. 0 \in Oldest .. Longest
  BY OutboxAssumption DEF Oldest, Longest
<1>2. RowTypes
  BY <1>1, OutboxAssumption DEF Init, RowTypes
<1>3. ProcessTypes
  BY OutboxAssumption DEF Init, ProcessTypes, Phases
<1>4. BatchTypes
  BY EmptySequence, OutboxAssumption DEF Init, BatchTypes
<1>5. DeliveryTypes /\ ConsumerTypes /\ BudgetTypes
  BY OutboxAssumption DEF Init, DeliveryTypes, ConsumerTypes, BudgetTypes
<1> QED
  BY <1>2, <1>3, <1>4, <1>5 DEF TypeOK

(* The event in hand is one of the batch.                                  *)
LEMMA CurrentType ==
  ASSUME BatchTypes, NEW w \in Workers, next[w] # 0
  PROVE  /\ next[w] \in 1 .. Len(events[w])
         /\ Current(w).id \in Events
         /\ Current(w).attempts \in Nat
<1>1. next[w] \in 1 .. Len(events[w])
  BY DEF BatchTypes
<1>2. events[w][next[w]] \in [id : Events, attempts : Nat]
  BY <1>1, ElementOfSequence DEF BatchTypes
<1> QED
  BY <1>1, <1>2 DEF Current

(* Forgetting the batch keeps the types of what it resets.                 *)
LEMMA ForgetBatchType ==
  ASSUME BatchTypes, DeliveryTypes, NEW w \in Workers, ForgetBatch(w)
  PROVE  BatchTypes' /\ DeliveryTypes'
<1>1. events' \in [Workers -> Seq([id : Events, attempts : Nat])]
  <2>1. <<>> \in Seq([id : Events, attempts : Nat])
    BY EmptySequence
  <2>2. events' = [events EXCEPT ![w] = <<>>]
    BY DEF ForgetBatch
  <2> QED
    BY <2>1, <2>2 DEF BatchTypes
<1>2. \A v \in Workers : next'[v] <= Len(events'[v])
  BY DEF BatchTypes, ForgetBatch
<1>3. /\ token' \in [Workers -> Tokens \cup {NoToken}]
      /\ leaseLeft' \in [Workers -> 0 .. Lease]
      /\ next' \in [Workers -> Nat]
  BY OutboxAssumption DEF BatchTypes, ForgetBatch
<1>4. DeliveryTypes'
  BY OutboxAssumption DEF DeliveryTypes, ForgetBatch
<1> QED
  BY <1>1, <1>2, <1>3, <1>4 DEF BatchTypes

(* So does the end of a batch.                                             *)
LEMMA EndBatchType ==
  ASSUME ProcessTypes, BatchTypes, DeliveryTypes, NEW w \in Workers, NEW busy,
         EndBatch(w, busy), UNCHANGED <<running, handlers>>
  PROVE  ProcessTypes' /\ BatchTypes' /\ DeliveryTypes'
<1>1. BatchTypes' /\ DeliveryTypes'
  BY ForgetBatchType DEF EndBatch
<1>2. ProcessTypes'
  BY DEF EndBatch, Goto, ProcessTypes, Phases
<1> QED
  BY <1>1, <1>2

(* The statements of OutboxStore keep the types of the rows.               *)
LEMMA StatementTypes ==
  ASSUME RowTypes, NEW w \in Workers
  PROVE  /\ \A e \in Events : Complete(w, e) => RowTypes'
         /\ \A e \in Events, d \in 0 .. Longest, x \in {"error", "permanent"}, dead \in BOOLEAN :
              Fail(w, e, d, x, dead) => RowTypes'
         /\ \A S \in SUBSET Events : Release(w, S) => RowTypes'
<1>0. 0 .. Longest \subseteq Oldest .. Longest
  BY OutboxAssumption DEF Oldest, Longest
<1>1. ASSUME NEW e \in Events, Complete(w, e) PROVE RowTypes'
  BY <1>1 DEF RowTypes, Complete, rowVars
<1>2. ASSUME NEW e \in Events, NEW d \in 0 .. Longest, NEW x \in {"error", "permanent"},
             NEW dead \in BOOLEAN, Fail(w, e, d, x, dead)
      PROVE  RowTypes'
  <2>1. CASE Holds(w, e)
    BY <1>0, <1>2, <2>1 DEF RowTypes, Fail
  <2>2. CASE ~ Holds(w, e)
    BY <1>2, <2>2 DEF RowTypes, Fail, rowVars
  <2> QED
    BY <2>1, <2>2
<1>3. ASSUME NEW S \in SUBSET Events, Release(w, S) PROVE RowTypes'
  <2>1. 0 \in Oldest .. Longest
    BY <1>0, OutboxAssumption DEF Longest
  <2>2. availableIn' \in [Events -> Oldest .. Longest] /\ attempts' \in [Events -> Nat]
    BY <1>3, <2>1 DEF RowTypes, Release
  <2>3. claimToken' \in [Events -> Tokens \cup {NoToken}]
    BY <1>3 DEF RowTypes, Release
  <2> QED
    BY <1>3, <2>2, <2>3 DEF RowTypes, Release
<1> QED
  BY <1>1, <1>2, <1>3

(* Every producer step keeps the types.                                    *)
LEMMA TypeProduce == TypeOK /\ Produce => TypeOK'
<1> SUFFICES ASSUME TypeOK, Produce PROVE TypeOK'
  OBVIOUS
<1>0. 0 .. EnqueueDelay \subseteq Oldest .. Longest
  BY OutboxAssumption DEF Oldest, Longest
<1> PICK e \in Events : Enqueue(e) \/ Commit(e) \/ Rollback(e) \/ EnqueueAutocommit(e)
  BY DEF Produce
<1>1. RowTypes'
  BY <1>0 DEF TypeOK, RowTypes, Enqueue, Commit, Rollback, EnqueueAutocommit
<1>2. UNCHANGED <<workerVars, consumerVars, budgetVars>>
  BY DEF Enqueue, Commit, Rollback, EnqueueAutocommit
<1>3. ProcessTypes' /\ BatchTypes' /\ DeliveryTypes'
  BY <1>2 DEF TypeOK, ProcessTypes, BatchTypes, DeliveryTypes, workerVars, claimVars, deliverVars
<1>4. ConsumerTypes' /\ BudgetTypes'
  BY <1>2 DEF TypeOK, ConsumerTypes, BudgetTypes, consumerVars, budgetVars
<1> QED
  BY <1>1, <1>3, <1>4 DEF TypeOK

(* What a step leaves alone keeps its type.                                *)
LEMMA StutterTypes ==
  ASSUME TypeOK
  PROVE  /\ UNCHANGED rowVars => RowTypes'
         /\ UNCHANGED claimVars => BatchTypes'
         /\ UNCHANGED deliverVars => DeliveryTypes'
         /\ UNCHANGED consumerVars => ConsumerTypes'
         /\ UNCHANGED budgetVars => BudgetTypes'
         /\ Fault => BudgetTypes'
<1>1. UNCHANGED rowVars => RowTypes'
  BY DEF TypeOK, rowVars, RowTypes
<1>2. UNCHANGED claimVars => BatchTypes'
  BY DEF TypeOK, claimVars, BatchTypes
<1>3. UNCHANGED deliverVars => DeliveryTypes'
  BY DEF TypeOK, deliverVars, DeliveryTypes
<1>4. UNCHANGED consumerVars => ConsumerTypes'
  BY DEF TypeOK, consumerVars, ConsumerTypes
<1>5. UNCHANGED budgetVars => BudgetTypes'
  BY DEF TypeOK, budgetVars, BudgetTypes
<1>6. Fault => BudgetTypes'
  BY OutboxAssumption DEF TypeOK, Fault, BudgetTypes
<1> QED
  BY <1>1, <1>2, <1>3, <1>4, <1>5, <1>6

(* A process that only moves to another phase keeps its types.             *)
LEMMA GotoType ==
  ASSUME ProcessTypes, NEW w \in Workers, NEW p \in Phases, Goto(w, p),
         UNCHANGED <<running, handlers>>
  PROVE  ProcessTypes'
BY DEF ProcessTypes, Goto

(* Taking the next event of the batch stays within the batch.              *)
LEMMA NextType ==
  ASSUME BatchTypes, NEW w \in Workers, Continues(w), next' = [next EXCEPT ![w] = @ + 1],
         UNCHANGED <<token, leaseLeft, events>>
  PROVE  BatchTypes'
<1>1. next' \in [Workers -> Nat]
  BY DEF BatchTypes
<1>2. ASSUME NEW v \in Workers PROVE next'[v] <= Len(events'[v])
  <2>1. events[v] \in Seq([id : Events, attempts : Nat]) /\ Len(events[v]) \in Nat
    BY LengthOfSequence DEF BatchTypes
  <2> QED
    BY <2>1 DEF BatchTypes, Continues
<1> QED
  BY <1>1, <1>2 DEF BatchTypes

(* The next event of the batch.                                            *)
LEMMA NextEventType ==
  ASSUME BatchTypes, NEW w \in Workers, Continues(w)
  PROVE  /\ next[w] + 1 \in 1 .. Len(events[w])
         /\ events[w][next[w] + 1] \in [id : Events, attempts : Nat]
         /\ events[w][next[w] + 1].id \in Events
<1>1. events[w] \in Seq([id : Events, attempts : Nat]) /\ Len(events[w]) \in Nat
  BY LengthOfSequence DEF BatchTypes
<1>2. next[w] + 1 \in 1 .. Len(events[w])
  BY <1>1 DEF BatchTypes, Continues
<1>3. events[w][next[w] + 1] \in [id : Events, attempts : Nat]
  BY <1>1, <1>2, ElementOfSequence
<1> QED
  BY <1>2, <1>3

(* The steps of a worker that touch no row.                                *)
LEMMA TypeIdle ==
  ASSUME TypeOK, NEW w \in Workers,
         \/ Poll(w) \/ NothingToClaim(w) \/ SendClaim(w) \/ ClaimReply(w) \/ StartNext(w)
         \/ SkipUnhandled(w) \/ StopDelivering(w)
  PROVE  TypeOK'
<1> USE StutterTypes
<1>1. CASE Poll(w)
  <2>1. ProcessTypes'
    BY <1>1, GotoType DEF Poll, TypeOK, Phases
  <2> QED
    BY <1>1, <2>1 DEF Poll, TypeOK
<1>2. CASE NothingToClaim(w)
  <2>1. ProcessTypes' /\ BatchTypes' /\ DeliveryTypes'
    BY <1>2, EndBatchType DEF NothingToClaim, TypeOK
  <2> QED
    BY <1>2, <2>1 DEF NothingToClaim, TypeOK
<1>3. CASE SendClaim(w)
  <2>1. ProcessTypes'
    BY <1>3, GotoType DEF SendClaim, TypeOK, Phases
  <2>2. BatchTypes'
    <3>1. PICK t \in Tokens : token' = [token EXCEPT ![w] = t]
      BY <1>3 DEF SendClaim
    <3>2. token' \in [Workers -> Tokens \cup {NoToken}]
      BY <3>1 DEF TypeOK, BatchTypes
    <3>3. leaseLeft' \in [Workers -> 0 .. Lease]
      BY <1>3, OutboxAssumption DEF SendClaim, TypeOK, BatchTypes
    <3> QED
      BY <1>3, <3>2, <3>3 DEF SendClaim, TypeOK, BatchTypes
  <2> QED
    BY <1>3, <2>1, <2>2 DEF SendClaim, TypeOK
<1>4. CASE ClaimReply(w)
  <2>1. ProcessTypes'
    BY <1>4, GotoType DEF ClaimReply, TypeOK, Phases
  <2> QED
    BY <1>4, <2>1 DEF ClaimReply, TypeOK
<1>5. CASE StartNext(w)
  <2>1. ProcessTypes'
    BY <1>5, GotoType DEF StartNext, TypeOK, Phases
  <2>2. BatchTypes'
    BY <1>5, NextType DEF StartNext, TypeOK
  <2>3. DeliveryTypes'
    BY <1>5, OutboxAssumption DEF StartNext, TypeOK, DeliveryTypes
  <2>4. ConsumerTypes'
    <3> DEFINE e == events[w][next[w] + 1].id
    <3>1. e \in Events
      BY <1>5, NextEventType DEF StartNext, TypeOK
    <3>2. starts' = [starts EXCEPT ![e] = @ + 1] /\ UNCHANGED <<applied, zombies>>
      BY <1>5 DEF StartNext
    <3> HIDE DEF e
    <3> QED
      BY <3>1, <3>2 DEF TypeOK, ConsumerTypes
  <2> QED
    BY <1>5, <2>1, <2>2, <2>3, <2>4 DEF StartNext, TypeOK
<1>6. CASE SkipUnhandled(w)
  <2>1. ProcessTypes'
    BY <1>6, GotoType DEF SkipUnhandled, TypeOK, Phases
  <2>2. BatchTypes'
    BY <1>6, NextType DEF SkipUnhandled, TypeOK
  <2> QED
    BY <1>6, <2>1, <2>2 DEF SkipUnhandled, TypeOK
<1>7. CASE StopDelivering(w)
  <2>1. ProcessTypes'
    BY <1>7, GotoType DEF StopDelivering, TypeOK, Phases
  <2> QED
    BY <1>7, <2>1 DEF StopDelivering, TypeOK
<1> QED
  BY <1>1, <1>2, <1>3, <1>4, <1>5, <1>6, <1>7

(* The batch a claim returns is a sequence of distinct due events.         *)
LEMMA ClaimBatchType ==
  ASSUME NEW w \in Workers, NEW s \in ClaimBatches(w)
  PROVE  /\ s \in Seq(Due(w)) /\ DOMAIN s = 1 .. Len(s)
         /\ Members(s) \subseteq Due(w)
         /\ \A i, j \in 1 .. Len(s) : i # j => s[i] # s[j]
<1>1. PICK n \in 0 .. BatchSize : s \in [1 .. n -> Due(w)]
  BY DEF ClaimBatches
<1>2. \A i, j \in DOMAIN s : i < j => s[i] # s[j]
  BY DEF ClaimBatches
<1>3. s \in Seq(Due(w)) /\ Len(s) = n
  BY <1>1, FunctionIsSequence, OutboxAssumption
<1>4. Members(s) \subseteq Due(w)
  BY <1>1 DEF Members
<1> QED
  BY <1>1, <1>2, <1>3, <1>4, OutboxAssumption

(* The outcome of a delivery is recorded within the types.                 *)
LEMMA RecordOutcomeType ==
  ASSUME TypeOK, PhaseOK, NEW w \in Workers, pc[w] = "record", RecordOutcome(w)
  PROVE  RowTypes'
<1>1. Current(w).id \in Events
  BY CurrentType DEF TypeOK, PhaseOK
<1>2. CASE verdict[w] = "ok"
  BY <1>1, <1>2, StatementTypes DEF RecordOutcome, TypeOK
<1>3. CASE verdict[w] # "ok"
  <2>1. PICK d \in IF DecideFailure(w) THEN {0} ELSE Backoff(Current(w).attempts) :
               Fail(w, Current(w).id, d, verdict[w], DecideFailure(w))
    BY <1>3 DEF RecordOutcome
  <2>2. d \in 0 .. Longest
    BY OutboxAssumption DEF Backoff, Longest
  <2>3. CASE Holds(w, Current(w).id)
    <3>1. 0 .. Longest \subseteq Oldest .. Longest
      BY OutboxAssumption DEF Oldest, Longest
    <3>2. verdict[w] \in {"none", "error", "permanent"}
      BY <1>3 DEF TypeOK, DeliveryTypes
    <3> QED
      BY <1>1, <2>1, <2>2, <2>3, <3>1, <3>2 DEF Fail, RowTypes, TypeOK
  <2>4. CASE ~ Holds(w, Current(w).id)
    BY <2>1, <2>4 DEF Fail, RowTypes, rowVars, TypeOK
  <2> QED
    BY <2>3, <2>4
<1> QED
  BY <1>2, <1>3

(* The events not started are events.                                      *)
LEMMA UnstartedType ==
  ASSUME TypeOK, NEW w \in Workers
  PROVE  Unstarted(w) \subseteq Events
<1> SUFFICES ASSUME NEW i \in next[w] + 1 .. Len(events[w]) PROVE events[w][i].id \in Events
  BY DEF Unstarted
<1>1. events[w] \in Seq([id : Events, attempts : Nat]) /\ Len(events[w]) \in Nat /\ next[w] \in Nat
  BY LengthOfSequence DEF TypeOK, BatchTypes
<1>2. i \in 1 .. Len(events[w])
  BY <1>1
<1>3. events[w][i] \in [id : Events, attempts : Nat]
  BY <1>1, <1>2, ElementOfSequence
<1> QED
  BY <1>3

(* The steps of a worker that run a statement.                             *)
LEMMA TypeStatements ==
  ASSUME TypeOK, PhaseOK, NEW w \in Workers,
         \/ Cleanup(w) \/ DeadLetterUnhandled(w) \/ Claim(w) \/ GiveBack(w) \/ Record(w)
         \/ ReleaseRest(w) \/ RecordReplyLost(w)
  PROVE  TypeOK'
<1> USE StutterTypes
<1>1. CASE Cleanup(w)
  <2>1. ProcessTypes'
    BY <1>1 DEF Cleanup, Goto, TypeOK, ProcessTypes, Phases
  <2>2. RowTypes'
    BY <1>1 DEF Cleanup, TypeOK, RowTypes
  <2> QED
    BY <1>1, <2>1, <2>2 DEF Cleanup, TypeOK
<1>2. CASE DeadLetterUnhandled(w)
  <2>1. ProcessTypes'
    BY <1>2 DEF DeadLetterUnhandled, Goto, TypeOK, ProcessTypes, Phases
  <2>2. RowTypes'
    BY <1>2 DEF DeadLetterUnhandled, TypeOK, RowTypes
  <2> QED
    BY <1>2, <2>1, <2>2 DEF DeadLetterUnhandled, TypeOK
<1>3. CASE Claim(w)
  <2>0. pc[w] = "sent" /\ UNCHANGED <<token, leaseLeft, next, tx, status, lastError, age>>
    BY <1>3 DEF Claim
  <2>1. ProcessTypes'
    BY <1>3, GotoType DEF Claim, TypeOK, Phases
  <2>2. Lease \in Oldest .. Longest
    BY OutboxAssumption DEF Oldest, Longest
  <2>3. PICK s \in ClaimBatches(w) : ClaimEffect(w, s)
    BY <1>3 DEF Claim
  <2>4. RowTypes'
    <3>1. availableIn' \in [Events -> Oldest .. Longest]
      BY <2>2, <2>3 DEF TypeOK, RowTypes, ClaimEffect
    <3>2. attempts' \in [Events -> Nat]
      BY <2>3 DEF TypeOK, RowTypes, ClaimEffect
    <3>3. claimToken' \in [Events -> Tokens \cup {NoToken}]
      BY <2>3 DEF TypeOK, RowTypes, BatchTypes, ClaimEffect
    <3> QED
      BY <2>0, <3>1, <3>2, <3>3 DEF TypeOK, RowTypes
  <2>5. BatchTypes'
    <3> DEFINE b == [i \in DOMAIN s |-> [id |-> s[i], attempts |-> attempts[s[i]] + 1]]
    <3>1. DOMAIN s = 1 .. Len(s) /\ Len(s) \in Nat /\ \A i \in 1 .. Len(s) : s[i] \in Events
      BY ClaimBatchType, ElementOfSequence, LengthOfSequence DEF Due
    <3>2. b \in [1 .. Len(s) -> [id : Events, attempts : Nat]]
      BY <3>1 DEF TypeOK, RowTypes
    <3>3. b \in Seq([id : Events, attempts : Nat]) /\ Len(b) = Len(s)
      BY <3>1, <3>2, FunctionIsSequence
    <3>4. events' = [events EXCEPT ![w] = b]
      BY <2>3 DEF ClaimEffect
    <3> HIDE DEF b
    <3>5. events' \in [Workers -> Seq([id : Events, attempts : Nat])]
      BY <3>3, <3>4 DEF TypeOK, BatchTypes
    <3>6. next[w] = 0 /\ next'[w] = 0
      BY <2>0 DEF PhaseOK, BatchPhases
    <3>7. ASSUME NEW v \in Workers PROVE next'[v] <= Len(events'[v])
      <4>1. CASE v = w
        BY <3>1, <3>3, <3>4, <3>6, <4>1 DEF TypeOK, BatchTypes
      <4>2. CASE v # w
        BY <2>0, <3>4, <4>2 DEF TypeOK, BatchTypes
      <4> QED
        BY <4>1, <4>2
    <3> QED
      BY <2>0, <3>5, <3>7 DEF TypeOK, BatchTypes
  <2> QED
    BY <1>3, <2>1, <2>4, <2>5 DEF Claim, TypeOK
<1>4. CASE GiveBack(w)
  <2>1. ProcessTypes'
    BY <1>4, GotoType DEF GiveBack, TypeOK, Phases
  <2>2. {Current(w).id} \subseteq Events
    BY <1>4, CurrentType DEF GiveBack, PhaseOK, TypeOK
  <2>3. RowTypes'
    BY <1>4, <2>2, StatementTypes DEF GiveBack, TypeOK
  <2> QED
    BY <1>4, <2>1, <2>3 DEF GiveBack, TypeOK
<1>5. CASE Record(w)
  <2>1. ProcessTypes'
    BY <1>5, GotoType DEF Record, TypeOK, Phases
  <2>2. RowTypes'
    BY <1>5, RecordOutcomeType DEF Record
  <2>3. DeliveryTypes'
    BY <1>5 DEF Record, TypeOK, DeliveryTypes
  <2> QED
    BY <1>5, <2>1, <2>2, <2>3 DEF Record, TypeOK
<1>6. CASE ReleaseRest(w)
  <2>1. ProcessTypes' /\ BatchTypes' /\ DeliveryTypes'
    BY <1>6, EndBatchType DEF ReleaseRest, TypeOK
  <2>2. RowTypes'
    BY <1>6, UnstartedType, StatementTypes DEF ReleaseRest, TypeOK
  <2> QED
    BY <1>6, <2>1, <2>2 DEF ReleaseRest, TypeOK
<1>7. CASE RecordReplyLost(w)
  <2>1. ProcessTypes'
    BY <1>7, GotoType DEF RecordReplyLost, TypeOK, Phases
  <2>2. RowTypes'
    BY <1>7, RecordOutcomeType DEF RecordReplyLost
  <2>3. DeliveryTypes'
    BY <1>7 DEF RecordReplyLost, TypeOK, DeliveryTypes
  <2> QED
    BY <1>7, <2>1, <2>2, <2>3 DEF RecordReplyLost, TypeOK
<1> QED
  BY <1>1, <1>2, <1>3, <1>4, <1>5, <1>6, <1>7

(* Handlers, and what goes wrong.                                          *)
LEMMA TypeHandlers ==
  ASSUME TypeOK, PhaseOK, NEW w \in Workers,
         HandlerSucceeds(w) \/ HandlerThrows(w) \/ HandlerTimesOut(w)
  PROVE  TypeOK'
<1> USE StutterTypes
<1>1. Current(w).id \in Events
  BY CurrentType DEF TypeOK, PhaseOK, HandlerSucceeds, HandlerThrows, HandlerTimesOut
<1>2. ProcessTypes'
  BY GotoType DEF TypeOK, Phases, HandlerSucceeds, HandlerThrows, HandlerTimesOut
<1>3. DeliveryTypes'
  BY DEF TypeOK, DeliveryTypes, HandlerSucceeds, HandlerThrows, HandlerTimesOut
<1>4. ConsumerTypes'
  <2>1. CASE HandlerSucceeds(w)
    BY <1>1, <2>1 DEF TypeOK, ConsumerTypes, HandlerSucceeds
  <2>2. CASE HandlerThrows(w)
    BY <2>2 DEF HandlerThrows
  <2>3. CASE HandlerTimesOut(w)
    BY <1>1, <2>3 DEF TypeOK, ConsumerTypes, HandlerTimesOut
  <2> QED
    BY <2>1, <2>2, <2>3
<1>5. RowTypes' /\ BatchTypes' /\ BudgetTypes'
  BY DEF HandlerSucceeds, HandlerThrows, HandlerTimesOut
<1> QED
  BY <1>2, <1>3, <1>4, <1>5 DEF TypeOK

(* Stops, crashes and failed statements.                                    *)
LEMMA TypeFaults ==
  ASSUME TypeOK, PhaseOK, NEW w \in Workers,
         \/ Stop(w) \/ Crash(w) \/ HousekeepingFails(w) \/ ClaimFails(w)
         \/ QueryFails(w) \/ ReleaseRestFails(w)
         \/ \E t \in Topics : Unregister(w, t)
  PROVE  TypeOK'
<1> USE StutterTypes
<1>1. CASE Stop(w)
  <2>1. ProcessTypes'
    BY <1>1 DEF Stop, TypeOK, ProcessTypes, Phases
  <2> QED
    BY <1>1, <2>1 DEF Stop, TypeOK
<1>2. CASE Crash(w)
  <2>1. ProcessTypes'
    BY <1>2, OutboxAssumption DEF Crash, Goto, TypeOK, ProcessTypes, Phases
  <2>2. BatchTypes' /\ DeliveryTypes'
    BY <1>2, ForgetBatchType DEF Crash, TypeOK
  <2>3. ConsumerTypes'
    BY <1>2 DEF Crash, TypeOK, ConsumerTypes
  <2> QED
    BY <1>2, <2>1, <2>2, <2>3 DEF Crash, TypeOK
<1>3. CASE HousekeepingFails(w)
  <2>1. ProcessTypes'
    BY <1>3, GotoType DEF HousekeepingFails, TypeOK, Phases
  <2> QED
    BY <1>3, <2>1 DEF HousekeepingFails, TypeOK
<1>4. CASE ClaimFails(w)
  <2>1. ProcessTypes' /\ BatchTypes' /\ DeliveryTypes'
    BY <1>4, EndBatchType DEF ClaimFails, TypeOK
  <2> QED
    BY <1>4, <2>1 DEF ClaimFails, TypeOK
<1>5. CASE QueryFails(w)
  <2>1. ProcessTypes'
    BY <1>5, GotoType DEF QueryFails, TypeOK, Phases
  <2>2. DeliveryTypes'
    BY <1>5 DEF QueryFails, TypeOK, DeliveryTypes
  <2> QED
    BY <1>5, <2>1, <2>2 DEF QueryFails, TypeOK
<1>6. CASE ReleaseRestFails(w)
  <2>1. ProcessTypes' /\ BatchTypes' /\ DeliveryTypes'
    BY <1>6, EndBatchType DEF ReleaseRestFails, TypeOK
  <2> QED
    BY <1>6, <2>1 DEF ReleaseRestFails, TypeOK
<1>7. CASE \E t \in Topics : Unregister(w, t)
  <2>1. ProcessTypes'
    BY <1>7 DEF Unregister, TypeOK, ProcessTypes
  <2> QED
    BY <1>7, <2>1 DEF Unregister, TypeOK
<1> QED
  BY <1>1, <1>2, <1>3, <1>4, <1>5, <1>6, <1>7

(* The start of a worker, a registration, a zombie, and the clock.         *)
LEMMA TypeRest ==
  ASSUME TypeOK,
         \/ \E w \in Workers : Start(w) \/ \E t \in Topics : Register(w, t)
         \/ \E z \in zombies : ZombieEnds(z)
         \/ Tick
  PROVE  TypeOK'
<1> USE StutterTypes
<1>1. ASSUME NEW w \in Workers, Start(w) PROVE TypeOK'
  <2>1. ProcessTypes'
    BY <1>1 DEF Start, Goto, TypeOK, ProcessTypes, Phases
  <2> QED
    BY <1>1, <2>1 DEF Start, TypeOK
<1>2. ASSUME NEW w \in Workers, NEW t \in Topics, Register(w, t) PROVE TypeOK'
  <2>1. ProcessTypes'
    BY <1>2 DEF Register, TypeOK, ProcessTypes
  <2> QED
    BY <1>2, <2>1 DEF Register, TypeOK
<1>3. ASSUME NEW z \in zombies, ZombieEnds(z) PROVE TypeOK'
  <2>1. z[2] \in Events
    BY DEF TypeOK, ConsumerTypes
  <2>2. ConsumerTypes'
    BY <1>3, <2>1 DEF ZombieEnds, TypeOK, ConsumerTypes
  <2>3. ProcessTypes'
    BY <1>3 DEF ZombieEnds, workerVars, TypeOK, ProcessTypes
  <2>4. UNCHANGED <<rowVars, claimVars, deliverVars, budgetVars>>
    BY <1>3 DEF ZombieEnds, workerVars
  <2> QED
    BY <2>2, <2>3, <2>4 DEF TypeOK
<1>4. CASE Tick
  <2>1. RowTypes'
    <3>1. availableIn' \in [Events -> Oldest .. Longest]
      BY <1>4, OutboxAssumption DEF Tick, TypeOK, RowTypes, Oldest, Longest
    <3>2. age' \in [Events -> 0 .. Retention + 1]
      BY <1>4, OutboxAssumption DEF Tick, TypeOK, RowTypes
    <3> QED
      BY <1>4, <3>1, <3>2 DEF Tick, TypeOK, RowTypes
  <2>2. ProcessTypes'
    BY <1>4 DEF Tick, TypeOK, ProcessTypes, Phases
  <2>3. BatchTypes'
    <3>1. leaseLeft' \in [Workers -> 0 .. Lease]
      BY <1>4, OutboxAssumption DEF Tick, TypeOK, BatchTypes
    <3> QED
      BY <1>4, <3>1 DEF Tick, TypeOK, BatchTypes
  <2>4. DeliveryTypes'
    <3>1. spent' \in [Workers -> 0 .. HandlerTimeout]
      BY <1>4, OutboxAssumption DEF Tick, TypeOK, DeliveryTypes
    <3>2. late' \in [Workers -> 0 .. SettleMargin]
      BY <1>4, OutboxAssumption DEF Tick, TypeOK, DeliveryTypes
    <3> QED
      BY <1>4, <3>1, <3>2 DEF Tick, TypeOK, DeliveryTypes
  <2>5. BudgetTypes'
    BY <1>4, OutboxAssumption DEF Tick, TypeOK, BudgetTypes
  <2> QED
    BY <1>4, <2>1, <2>2, <2>3, <2>4, <2>5 DEF Tick, TypeOK
<1> QED
  BY <1>1, <1>2, <1>3, <1>4

(* The types after any step.                                               *)
LEMMA TypeNext == TypeOK /\ PhaseOK /\ [Next]_vars => TypeOK'
<1> SUFFICES ASSUME TypeOK, PhaseOK, [Next]_vars PROVE TypeOK'
  OBVIOUS
<1>1. CASE Produce
  BY <1>1, TypeProduce
<1>2. ASSUME NEW w \in Workers, WorkerStep(w) PROVE TypeOK'
  BY <1>2, TypeIdle, TypeStatements, TypeHandlers DEF WorkerStep
<1>3. ASSUME NEW w \in Workers, FaultStep(w) PROVE TypeOK'
  BY <1>3, TypeFaults, TypeStatements DEF FaultStep
<1>4. ASSUME NEW w \in Workers, HandlerSucceeds(w) \/ HandlerThrows(w) PROVE TypeOK'
  BY <1>4, TypeHandlers
<1>5. CASE UNCHANGED vars
  BY <1>5, StutterTypes DEF vars, workerVars, TypeOK, ProcessTypes
<1> QED
  BY <1>1, <1>2, <1>3, <1>4, <1>5, TypeRest DEF Next

-----------------------------------------------------------------------------
(* Phases.                                                                 *)

(* Every process is down and without a batch at first.                      *)
LEMMA PhaseInit == Init => PhaseOK
BY OutboxAssumption DEF Init, PhaseOK, BatchPhases

(* A step that changes nothing a process knows of its batch.               *)
LEMMA PhaseStutter ==
  ASSUME PhaseOK, UNCHANGED <<pc, token, events, next>>
  PROVE  PhaseOK'
BY DEF PhaseOK, BatchPhases

(* A worker that forgets its batch leaves the phases of a batch.            *)
LEMMA PhaseForget ==
  ASSUME TypeOK, PhaseOK, NEW w \in Workers, ForgetBatch(w),
         NEW p \in {"down", "idle", "sleep"}, Goto(w, p)
  PROVE  PhaseOK'
<1> SUFFICES ASSUME NEW v \in Workers
             PROVE  /\ pc'[v] \notin BatchPhases => events'[v] = <<>> /\ next'[v] = 0
                    /\ pc'[v] = "reply" => next'[v] = 0
                    /\ pc'[v] \in {"giveback", "handle", "record"} => next'[v] # 0
                    /\ (pc'[v] \in BatchPhases \cup {"sent"}) <=> (token'[v] # NoToken)
  BY DEF PhaseOK
<1>1. CASE v = w
  BY <1>1 DEF TypeOK, BatchTypes, ProcessTypes, ForgetBatch, Goto, BatchPhases
<1>2. CASE v # w
  BY <1>2 DEF TypeOK, BatchTypes, ProcessTypes, ForgetBatch, Goto, PhaseOK
<1> QED
  BY <1>1, <1>2

(* So does one that ends its round.                                         *)
LEMMA PhaseEnd ==
  ASSUME TypeOK, PhaseOK, NEW w \in Workers, NEW busy, EndBatch(w, busy)
  PROVE  PhaseOK'
<1>1. PICK p \in {"down", "idle", "sleep"} : Goto(w, p)
  BY DEF EndBatch
<1> QED
  BY <1>1, PhaseForget DEF EndBatch

(* Every step keeps what a process knows in each phase.                     *)
LEMMA PhaseNext == TypeOK /\ PhaseOK /\ [Next]_vars => PhaseOK'
<1> SUFFICES ASSUME TypeOK, PhaseOK, [Next]_vars PROVE PhaseOK'
  OBVIOUS
<1> USE DEF TypeOK, BatchTypes, ProcessTypes
<1>1. CASE Produce
  BY <1>1, PhaseStutter DEF Produce, Enqueue, Commit, Rollback, EnqueueAutocommit, workerVars, claimVars
<1>2. ASSUME NEW w \in Workers, WorkerStep(w) PROVE PhaseOK'
  <2>1. CASE Poll(w)
    BY <2>1 DEF Poll, Goto, PhaseOK, BatchPhases, claimVars
  <2>2. CASE Cleanup(w)
    BY <2>2 DEF Cleanup, Goto, PhaseOK, BatchPhases, claimVars
  <2>3. CASE DeadLetterUnhandled(w)
    BY <2>3 DEF DeadLetterUnhandled, Goto, PhaseOK, BatchPhases, claimVars
  <2>4. CASE NothingToClaim(w)
    BY <2>4, PhaseEnd DEF NothingToClaim
  <2>5. CASE SendClaim(w)
    <3>1. PICK t \in Tokens : token' = [token EXCEPT ![w] = t]
      BY <2>5 DEF SendClaim
    <3> QED
      BY <2>5, <3>1, OutboxAssumption DEF SendClaim, Goto, PhaseOK, BatchPhases
  <2>6. CASE Claim(w)
    <3>1. PICK b : events' = [events EXCEPT ![w] = b]
      BY <2>6 DEF Claim, ClaimEffect
    <3> QED
      BY <2>6, <3>1 DEF Claim, Goto, PhaseOK, BatchPhases
  <2>7. CASE ClaimReply(w)
    BY <2>7 DEF ClaimReply, Goto, PhaseOK, BatchPhases, claimVars
  <2>8. CASE StartNext(w)
    BY <2>8 DEF StartNext, Goto, PhaseOK, BatchPhases
  <2>9. CASE SkipUnhandled(w)
    BY <2>9 DEF SkipUnhandled, Goto, PhaseOK, BatchPhases
  <2>10. CASE GiveBack(w)
    BY <2>10 DEF GiveBack, Goto, PhaseOK, BatchPhases, claimVars
  <2>11. CASE HandlerTimesOut(w)
    BY <2>11 DEF HandlerTimesOut, Goto, PhaseOK, BatchPhases, claimVars
  <2>12. CASE Record(w)
    BY <2>12 DEF Record, Goto, PhaseOK, BatchPhases, claimVars
  <2>13. CASE StopDelivering(w)
    BY <2>13 DEF StopDelivering, Goto, PhaseOK, BatchPhases, claimVars
  <2>14. CASE ReleaseRest(w)
    BY <2>14, PhaseEnd DEF ReleaseRest
  <2> QED
    BY <1>2, <2>1, <2>2, <2>3, <2>4, <2>5, <2>6, <2>7, <2>8, <2>9, <2>10, <2>11, <2>12, <2>13, <2>14
       DEF WorkerStep
<1>3. ASSUME NEW w \in Workers, FaultStep(w) PROVE PhaseOK'
  <2>1. CASE Stop(w)
    BY <2>1 DEF Stop, PhaseOK, BatchPhases, claimVars
  <2>2. CASE Crash(w)
    BY <2>2, PhaseForget DEF Crash
  <2>3. CASE HousekeepingFails(w)
    BY <2>3 DEF HousekeepingFails, Goto, PhaseOK, BatchPhases, claimVars
  <2>4. CASE ClaimFails(w)
    BY <2>4, PhaseEnd DEF ClaimFails
  <2>5. CASE QueryFails(w)
    BY <2>5 DEF QueryFails, Goto, PhaseOK, BatchPhases, claimVars
  <2>6. CASE RecordReplyLost(w)
    BY <2>6 DEF RecordReplyLost, Goto, PhaseOK, BatchPhases, claimVars
  <2>7. CASE ReleaseRestFails(w)
    BY <2>7, PhaseEnd DEF ReleaseRestFails
  <2>8. CASE \E t \in Topics : Unregister(w, t)
    BY <2>8, PhaseStutter DEF Unregister, claimVars
  <2> QED
    BY <1>3, <2>1, <2>2, <2>3, <2>4, <2>5, <2>6, <2>7, <2>8 DEF FaultStep
<1>4. ASSUME NEW w \in Workers, HandlerSucceeds(w) \/ HandlerThrows(w) PROVE PhaseOK'
  BY <1>4 DEF HandlerSucceeds, HandlerThrows, Goto, PhaseOK, BatchPhases, claimVars
<1>5. ASSUME NEW w \in Workers, Start(w) PROVE PhaseOK'
  BY <1>5 DEF Start, Goto, PhaseOK, BatchPhases, claimVars
<1>6. ASSUME NEW w \in Workers, NEW t \in Topics, Register(w, t) PROVE PhaseOK'
  BY <1>6, PhaseStutter DEF Register, claimVars
<1>7. ASSUME NEW z \in zombies, ZombieEnds(z) PROVE PhaseOK'
  BY <1>7, PhaseStutter DEF ZombieEnds, workerVars, claimVars
<1>8. CASE Tick
  BY <1>8 DEF Tick, PhaseOK, BatchPhases
<1>9. CASE UNCHANGED vars
  BY <1>9, PhaseStutter DEF vars, workerVars, claimVars
<1> QED
  BY <1>1, <1>2, <1>3, <1>4, <1>5, <1>6, <1>7, <1>8, <1>9 DEF Next

(* Type correctness: in every reachable state every variable has its type, *)
(* and a worker's position never leaves its batch (_deliverAll).           *)
THEOREM TypeCorrect == Spec => []TypeOK
<1>1. Init => TypeOK /\ PhaseOK
  BY TypeInit, PhaseInit
<1>2. (TypeOK /\ PhaseOK) /\ [Next]_vars => (TypeOK /\ PhaseOK)'
  BY TypeNext, PhaseNext
<1> QED
  BY <1>1, <1>2, PTL DEF Spec
=============================================================================
