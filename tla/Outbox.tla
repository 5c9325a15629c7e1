------------------------------- MODULE Outbox -------------------------------
(***************************************************************************)
(* The transactional outbox of lib/outbox: producers record an event in    *)
(* the transaction of the business change it announces (Outbox.js), and    *)
(* the outbox workers of the server processes claim due rows for a lease,  *)
(* hand them one by one to the topic's handler and record the outcome      *)
(* (OutboxWorker.js, OutboxStore.js, OutboxHandlers.js).                   *)
(*                                                                         *)
(* Every SQL statement is one atomic step.  A worker's own steps between   *)
(* two awaits are one action; every await is a place where another worker, *)
(* a producer, the clock, a stop request, a lost reply or the death of the *)
(* process may come in between.                                            *)
(*                                                                         *)
(* Time is kept relative to the present, so that the state stays finite    *)
(* without a last instant: availableIn[e] is available_at - now(), and a   *)
(* Tick lowers it.  The unit is the worker's poll interval.  A Tick that   *)
(* finds a worker with something to do at once is a stall of that process  *)
(* (event loop, pool gate, slow query); MaxStalls bounds their number, and *)
(* MaxFaults bounds crashes, failed queries, lost replies, stop requests   *)
(* and unregistrations.                                                    *)
(***************************************************************************)
EXTENDS Integers, Sequences, FiniteSets

CONSTANTS
  Events,          \* the events the producers may record
  Topics,
  TopicOf,         \* TopicOf[e]: the topic of event e
  MaxAttemptsOf,   \* MaxAttemptsOf[t]: entry.maxAttempts ?? outboxMaxAttempts()
  Handled,         \* topics whose consumers register when a process starts
  Removable,       \* topics whose handler may be unregistered later
  Workers,         \* one outbox worker per server process
  Tokens,          \* claim tokens (crypto.randomUUID)
  NoToken,
  BatchSize, CleanupChunk,
  Lease, HandlerTimeout, SettleMargin,
  BackoffBase, BackoffMax,
  EnqueueDelay,    \* the largest delayMs a producer asks for
  UnhandledAge,    \* MEMENTO_OUTBOX_UNHANDLED_DAYS
  Retention,       \* MEMENTO_OUTBOX_RETENTION_DAYS
  MaxFaults, MaxStalls

ASSUME OutboxAssumption ==
  /\ TopicOf \in [Events -> Topics]
  /\ MaxAttemptsOf \in [Topics -> Nat \ {0}]
  /\ Handled \subseteq Topics /\ Removable \subseteq Topics
  /\ NoToken \notin Tokens
  /\ BatchSize \in Nat \ {0} /\ CleanupChunk \in Nat \ {0}
  /\ HandlerTimeout \in Nat /\ SettleMargin \in Nat \ {0}
  /\ Lease \in Nat /\ Lease >= HandlerTimeout + SettleMargin
  /\ BackoffBase \in Nat /\ BackoffMax \in Nat /\ EnqueueDelay \in Nat
  /\ UnhandledAge \in Nat /\ Retention \in Nat
  /\ MaxFaults \in Nat /\ MaxStalls \in Nat

VARIABLES
  \* outbox_events, one row per event
  tx,           \* the producer's transaction: "none", "open", "committed", "rolledback"
  status,       \* "none", "pending", "processed", "dead", "gone" (deleted)
  availableIn,  \* available_at - now()
  attempts,
  claimToken,
  lastError,    \* last_error: "none", "error", "permanent", "no_handler"
  age,          \* now() - processed_at
  \* one worker per process
  pc, running, handlers, token, leaseLeft, events, next, spent, late, verdict, handled,
  \* the consumers
  applied,      \* applied[e]: a handler of e has had its effect
  zombies,      \* handlers that go on after their timeout
  starts,       \* starts[e]: how often a handler was started for e
  stalls, faults

rowVars      == <<tx, status, availableIn, attempts, claimToken, lastError, age>>
claimVars    == <<token, leaseLeft, events, next>>
deliverVars  == <<spent, late, verdict, handled>>
workerVars   == <<pc, running, handlers, claimVars, deliverVars>>
consumerVars == <<applied, zombies, starts>>
budgetVars   == <<stalls, faults>>
vars         == <<rowVars, workerVars, consumerVars, budgetVars>>

Members(s)   == {s[i] : i \in DOMAIN s}
Lesser(a, b) == IF a < b THEN a ELSE b
Oldest       == -(UnhandledAge + 1)   \* rows overdue for longer are not told apart
Longest      == Lease + BackoffMax + EnqueueDelay

Phases == {"down", "sleep", "idle", "cleanup", "unhandled", "claim", "sent",
           "reply", "next", "giveback", "handle", "record", "rest"}

-----------------------------------------------------------------------------
(* Rows and the statements of OutboxStore.                                 *)

Pending(e) == status[e] = "pending"

(* Faulty variant of Due: rows whose lease ran out are not taken over.     *)
BugDueIfUnclaimed(w) ==
  {e \in Events : /\ Pending(e) /\ availableIn[e] <= 0 /\ TopicOf[e] \in handlers[w]
                  /\ claimToken[e] = NoToken}

(* The rows the WHERE clause of CLAIM_SQL selects.                         *)
Due(w) == {e \in Events : Pending(e) /\ availableIn[e] <= 0 /\ TopicOf[e] \in handlers[w]}

(* ORDER BY available_at, id LIMIT: the batches a claim may return.  Rows  *)
(* due at the same instant are taken in any order.                         *)
ClaimBatches(w) ==
  {s \in UNION {[1 .. n -> Due(w)] : n \in 0 .. BatchSize} :
    /\ \A i, j \in DOMAIN s : i < j => s[i] # s[j] /\ availableIn[s[i]] <= availableIn[s[j]]
    /\ \A f \in Due(w) \ Members(s) :
         Len(s) = BatchSize /\ \A i \in DOMAIN s : availableIn[s[i]] <= availableIn[f]}

(* Faulty variant of Holds: the statements address the row by id alone.    *)
BugHoldsById(w, e) == status[e] # "gone"

(* WHERE claim_token = $2 AND pending: w may still record about e.         *)
Holds(w, e) == Pending(e) /\ claimToken[e] = token[w]

(* COMPLETE_SQL                                                            *)
Complete(w, e) ==
  IF Holds(w, e)
    THEN /\ status'     = [status EXCEPT ![e] = "processed"]
         /\ claimToken' = [claimToken EXCEPT ![e] = NoToken]
         /\ lastError'  = [lastError EXCEPT ![e] = "none"]
         /\ UNCHANGED <<tx, availableIn, attempts, age>>
    ELSE UNCHANGED rowVars

(* FAIL_SQL: schedule a retry after the delay, or keep as a dead letter.   *)
Fail(w, e, delay, error, dead) ==
  IF Holds(w, e)
    THEN /\ availableIn' = [availableIn EXCEPT ![e] = delay]
         /\ lastError'   = [lastError EXCEPT ![e] = error]
         /\ claimToken'  = [claimToken EXCEPT ![e] = NoToken]
         /\ status'      = [status EXCEPT ![e] = IF dead THEN "dead" ELSE "pending"]
         /\ UNCHANGED <<tx, attempts, age>>
    ELSE UNCHANGED rowVars

(* RELEASE_SQL: give back claims whose handler was never started.          *)
Release(w, S) ==
  LET back == {e \in S : Holds(w, e)}
  IN  /\ availableIn' = [e \in Events |-> IF e \in back THEN 0 ELSE availableIn[e]]
      /\ attempts'    = [e \in Events |-> IF e \in back /\ attempts[e] > 0
                                            THEN attempts[e] - 1 ELSE attempts[e]]
      /\ claimToken'  = [e \in Events |-> IF e \in back THEN NoToken ELSE claimToken[e]]
      /\ UNCHANGED <<tx, status, lastError, age>>

-----------------------------------------------------------------------------
(* Producers.                                                              *)

(* Faulty variant of Enqueue: the row is inserted outside the transaction. *)
BugEnqueueOutside(e) ==
  /\ tx[e] = "none"
  /\ tx'     = [tx EXCEPT ![e] = "open"]
  /\ status' = [status EXCEPT ![e] = "pending"]
  /\ UNCHANGED <<availableIn, attempts, claimToken, lastError, age, workerVars, consumerVars, budgetVars>>

(* The row enqueue inserts in the caller's transaction: nobody sees it yet *)
Enqueue(e) ==
  /\ tx[e] = "none"
  /\ tx' = [tx EXCEPT ![e] = "open"]
  /\ \E d \in 0 .. EnqueueDelay : availableIn' = [availableIn EXCEPT ![e] = d]
  /\ UNCHANGED <<status, attempts, claimToken, lastError, age, workerVars, consumerVars, budgetVars>>

Commit(e) ==
  /\ tx[e] = "open"
  /\ tx'     = [tx EXCEPT ![e] = "committed"]
  /\ status' = [status EXCEPT ![e] = "pending"]
  /\ UNCHANGED <<availableIn, attempts, claimToken, lastError, age, workerVars, consumerVars, budgetVars>>

(* The business change fails, or its process or connection is lost.        *)
Rollback(e) ==
  /\ tx[e] = "open"
  /\ tx' = [tx EXCEPT ![e] = "rolledback"]
  /\ UNCHANGED <<status, availableIn, attempts, claimToken, lastError, age, workerVars, consumerVars, budgetVars>>

(* enqueueAutocommit: one statement, committed when it returns.            *)
EnqueueAutocommit(e) ==
  /\ tx[e] = "none"
  /\ tx'     = [tx EXCEPT ![e] = "committed"]
  /\ status' = [status EXCEPT ![e] = "pending"]
  /\ \E d \in 0 .. EnqueueDelay : availableIn' = [availableIn EXCEPT ![e] = d]
  /\ UNCHANGED <<attempts, claimToken, lastError, age, workerVars, consumerVars, budgetVars>>

-----------------------------------------------------------------------------
(* Workers: the life of a process and its handler registry.                *)

Fault == faults < MaxFaults /\ faults' = faults + 1 /\ UNCHANGED stalls

Goto(w, p) == pc' = [pc EXCEPT ![w] = p]

(* What a process forgets about its batch.                                 *)
ForgetBatch(w) ==
  /\ token'     = [token EXCEPT ![w] = NoToken]
  /\ leaseLeft' = [leaseLeft EXCEPT ![w] = 0]
  /\ events'    = [events EXCEPT ![w] = <<>>]
  /\ next'      = [next EXCEPT ![w] = 0]
  /\ spent'     = [spent EXCEPT ![w] = 0]
  /\ late'      = [late EXCEPT ![w] = 0]
  /\ verdict'   = [verdict EXCEPT ![w] = "none"]
  /\ handled'   = [handled EXCEPT ![w] = FALSE]

(* The end of PollingWorker._poll: stop, poll again at once after a batch  *)
(* that handled something, or wait for the interval (or the back-off).     *)
EndBatch(w, busy) ==
  /\ Goto(w, IF ~running[w] THEN "down" ELSE IF busy THEN "idle" ELSE "sleep")
  /\ ForgetBatch(w)

Start(w) ==
  /\ pc[w] = "down"
  /\ Goto(w, "idle")
  /\ running' = [running EXCEPT ![w] = TRUE]
  /\ UNCHANGED <<handlers, claimVars, deliverVars, rowVars, consumerVars, budgetVars>>

(* PollingWorker.stop: a waiting worker stops at once, a busy one after    *)
(* its batch.                                                              *)
Stop(w) ==
  /\ running[w]
  /\ running' = [running EXCEPT ![w] = FALSE]
  /\ pc' = IF pc[w] \in {"idle", "sleep"} THEN [pc EXCEPT ![w] = "down"] ELSE pc
  /\ Fault
  /\ UNCHANGED <<handlers, claimVars, deliverVars, rowVars, consumerVars>>

(* The process dies, and every handler running in it with it.  A new       *)
(* process registers the consumers before it starts its worker.            *)
Crash(w) ==
  /\ pc[w] # "down"
  /\ Goto(w, "down")
  /\ running'  = [running EXCEPT ![w] = FALSE]
  /\ handlers' = [handlers EXCEPT ![w] = Handled]
  /\ ForgetBatch(w)
  /\ zombies'  = {z \in zombies : z[1] # w}
  /\ Fault
  /\ UNCHANGED <<rowVars, applied, starts>>

Register(w, t) ==
  /\ t \in Removable \ handlers[w]
  /\ handlers' = [handlers EXCEPT ![w] = @ \cup {t}]
  /\ UNCHANGED <<pc, running, claimVars, deliverVars, rowVars, consumerVars, budgetVars>>

Unregister(w, t) ==
  /\ t \in Removable \cap handlers[w]
  /\ handlers' = [handlers EXCEPT ![w] = @ \ {t}]
  /\ Fault
  /\ UNCHANGED <<pc, running, claimVars, deliverVars, rowVars, consumerVars>>

-----------------------------------------------------------------------------
(* One batch of a worker: OutboxWorker._processBatch.                      *)

(* A round begins; housekeeping runs when its interval has passed.         *)
Poll(w) ==
  /\ pc[w] = "idle"
  /\ \E p \in {"cleanup", "claim"} : Goto(w, p)
  /\ UNCHANGED <<running, handlers, claimVars, deliverVars, rowVars, consumerVars, budgetVars>>

(* Faulty variant of Expired: cleanup by due time, settled or not.         *)
BugExpiredByDueTime ==
  {e \in Events : status[e] \in {"pending", "processed"} /\ availableIn[e] < -Retention}

Expired == {e \in Events : status[e] = "processed" /\ age[e] > Retention}

(* A chunked statement touches at most CleanupChunk rows, in the order of  *)
(* their instants.                                                         *)
Chunk(S, instant) ==
  {C \in SUBSET S : /\ Cardinality(C) = Lesser(CleanupChunk, Cardinality(S))
                    /\ \A c \in C, d \in S \ C : instant[c] <= instant[d]}

(* CLEANUP_SQL; after a full chunk the loop goes on until its cap.         *)
Cleanup(w) ==
  /\ pc[w] = "cleanup"
  /\ \E C \in Chunk(Expired, [e \in Events |-> -age[e]]) :
       /\ status' = [e \in Events |-> IF e \in C THEN "gone" ELSE status[e]]
       /\ \E p \in {"unhandled"} \cup (IF Cardinality(C) = CleanupChunk THEN {"cleanup"} ELSE {}) :
            Goto(w, p)
  /\ UNCHANGED <<running, handlers, claimVars, deliverVars, consumerVars, budgetVars,
                 tx, availableIn, attempts, claimToken, lastError, age>>

Unhandled(w) == {e \in Events : /\ Pending(e) /\ attempts[e] = 0
                                /\ availableIn[e] < -UnhandledAge
                                /\ TopicOf[e] \notin handlers[w]}

(* UNHANDLED_SQL; a process without any handler judges nothing.            *)
DeadLetterUnhandled(w) ==
  /\ pc[w] = "unhandled"
  /\ \E C \in Chunk(IF handlers[w] = {} THEN {} ELSE Unhandled(w), availableIn) :
       /\ status'     = [e \in Events |-> IF e \in C THEN "dead" ELSE status[e]]
       /\ lastError'  = [e \in Events |-> IF e \in C THEN "no_handler" ELSE lastError[e]]
       /\ claimToken' = [e \in Events |-> IF e \in C THEN NoToken ELSE claimToken[e]]
       /\ \E p \in {"claim"} \cup (IF Cardinality(C) = CleanupChunk THEN {"unhandled"} ELSE {}) :
            Goto(w, p)
  /\ UNCHANGED <<running, handlers, claimVars, deliverVars, consumerVars, budgetVars,
                 tx, availableIn, attempts, age>>

(* A failed housekeeping query is logged, and the round goes on.           *)
HousekeepingFails(w) ==
  /\ pc[w] \in {"cleanup", "unhandled"}
  /\ Goto(w, "claim")
  /\ Fault
  /\ UNCHANGED <<running, handlers, claimVars, deliverVars, rowVars, consumerVars>>

NothingToClaim(w) ==
  /\ pc[w] = "claim" /\ handlers[w] = {}
  /\ EndBatch(w, FALSE)
  /\ UNCHANGED <<running, handlers, rowVars, consumerVars, budgetVars>>

(* Tokens some row or worker still has; a uuid is none of them.            *)
TokensInUse == Members(token) \cup Members(claimToken)

(* The lease deadline is taken before the claim is sent.                   *)
SendClaim(w) ==
  /\ pc[w] = "claim" /\ handlers[w] # {}
  /\ LET fresh == CHOOSE t \in Tokens : t \notin TokensInUse
     IN  fresh \in Tokens \ TokensInUse /\ token' = [token EXCEPT ![w] = fresh]
  /\ leaseLeft' = [leaseLeft EXCEPT ![w] = Lease]
  /\ Goto(w, "sent")
  /\ UNCHANGED <<running, handlers, events, next, deliverVars, rowVars, consumerVars, budgetVars>>

(* CLAIM_SQL: the rows of the batch s are leased to w.                     *)
ClaimEffect(w, s) ==
  /\ attempts'    = [e \in Events |-> IF e \in Members(s) THEN attempts[e] + 1 ELSE attempts[e]]
  /\ availableIn' = [e \in Events |-> IF e \in Members(s) THEN Lease ELSE availableIn[e]]
  /\ claimToken'  = [e \in Events |-> IF e \in Members(s) THEN token[w] ELSE claimToken[e]]
  /\ events' = [events EXCEPT ![w] =
                  [i \in DOMAIN s |-> [id |-> s[i], attempts |-> attempts[s[i]] + 1]]]

Claim(w) ==
  /\ pc[w] = "sent"
  /\ \E s \in ClaimBatches(w) : ClaimEffect(w, s)
  /\ Goto(w, "reply")
  /\ UNCHANGED <<running, handlers, token, leaseLeft, next, deliverVars, consumerVars, budgetVars,
                 tx, status, lastError, age>>

ClaimReply(w) ==
  /\ pc[w] = "reply"
  /\ Goto(w, "next")
  /\ UNCHANGED <<running, handlers, claimVars, deliverVars, rowVars, consumerVars, budgetVars>>

(* The claim fails, or it is done and its reply is lost.                   *)
ClaimFails(w) ==
  /\ pc[w] \in {"sent", "reply"}
  /\ EndBatch(w, FALSE)
  /\ Fault
  /\ UNCHANGED <<running, handlers, rowVars, consumerVars>>

-----------------------------------------------------------------------------
(* Delivery: OutboxWorker._deliverAll, _deliver and _recordFailure.        *)

(* Faulty variant of CanStartNext: any claimed event may be started.       *)
BugStartsAnytime(w) == events[w] # <<>>

CanStartNext(w) == leaseLeft[w] >= HandlerTimeout + SettleMargin

Continues(w) == next[w] < Len(events[w]) /\ running[w] /\ CanStartNext(w)

Current(w)   == events[w][next[w]]
(* Faulty variant of Unstarted: the slice begins at the event in hand.     *)
BugUnstartedFromCurrent(w) ==
  {events[w][i].id : i \in (IF next[w] = 0 THEN 1 ELSE next[w]) .. Len(events[w])}

Unstarted(w) == {events[w][i].id : i \in next[w] + 1 .. Len(events[w])}

StartNext(w) ==
  /\ pc[w] = "next" /\ Continues(w)
  /\ LET e == events[w][next[w] + 1].id
     IN  /\ TopicOf[e] \in handlers[w]
         /\ starts' = [starts EXCEPT ![e] = @ + 1]
  /\ next'  = [next EXCEPT ![w] = @ + 1]
  /\ spent' = [spent EXCEPT ![w] = 0]
  /\ late'  = [late EXCEPT ![w] = 0]
  /\ Goto(w, "handle")
  /\ UNCHANGED <<running, handlers, token, leaseLeft, events, verdict, handled, rowVars,
                 applied, zombies, budgetVars>>

(* The topic's handler was unregistered after the claim.                   *)
SkipUnhandled(w) ==
  /\ pc[w] = "next" /\ Continues(w)
  /\ TopicOf[events[w][next[w] + 1].id] \notin handlers[w]
  /\ next' = [next EXCEPT ![w] = @ + 1]
  /\ Goto(w, "giveback")
  /\ UNCHANGED <<running, handlers, token, leaseLeft, events, deliverVars, rowVars,
                 consumerVars, budgetVars>>

GiveBack(w) ==
  /\ pc[w] = "giveback"
  /\ Release(w, {Current(w).id})
  /\ Goto(w, "next")
  /\ UNCHANGED <<running, handlers, claimVars, deliverVars, consumerVars, budgetVars>>

HandlerSucceeds(w) ==
  /\ pc[w] = "handle"
  /\ applied' = [applied EXCEPT ![Current(w).id] = TRUE]
  /\ verdict' = [verdict EXCEPT ![w] = "ok"]
  /\ Goto(w, "record")
  /\ UNCHANGED <<running, handlers, claimVars, spent, late, handled, rowVars, zombies, starts, budgetVars>>

HandlerThrows(w) ==
  /\ pc[w] = "handle"
  /\ \E v \in {"error", "permanent"} : verdict' = [verdict EXCEPT ![w] = v]
  /\ Goto(w, "record")
  /\ UNCHANGED <<running, handlers, claimVars, spent, late, handled, rowVars, consumerVars, budgetVars>>

(* runHandler: the race is lost to the timer, the handler itself goes on.  *)
HandlerTimesOut(w) ==
  /\ pc[w] = "handle" /\ spent[w] >= HandlerTimeout
  /\ zombies' = zombies \cup {<<w, Current(w).id>>}
  /\ verdict' = [verdict EXCEPT ![w] = "error"]
  /\ Goto(w, "record")
  /\ UNCHANGED <<running, handlers, claimVars, spent, late, handled, rowVars, applied, starts, budgetVars>>

(* A handler that was given up on still has its effect, or fails.          *)
ZombieEnds(z) ==
  /\ z \in zombies
  /\ zombies' = zombies \ {z}
  /\ \E done \in BOOLEAN : applied' = [applied EXCEPT ![z[2]] = @ \/ done]
  /\ UNCHANGED <<rowVars, workerVars, starts, budgetVars>>

(* Faulty variant of DecideFailure: off by one at the limit.               *)
BugDecideEarly(w) ==
  \/ verdict[w] = "permanent"
  \/ Current(w).attempts + 1 >= MaxAttemptsOf[TopicOf[Current(w).id]]

DecideFailure(w) ==
  \/ verdict[w] = "permanent"
  \/ Current(w).attempts >= MaxAttemptsOf[TopicOf[Current(w).id]]

(* computeBackoffMs: between half and all of the capped exponential delay. *)
Backoff(n) ==
  LET ceiling == Lesser(BackoffMax, BackoffBase * 2 ^ (n - 1))
  IN  {d \in 0 .. BackoffMax : 2 * d >= ceiling /\ d <= ceiling}

(* Faulty variant of RecordOutcome: the verdict is ignored.                *)
BugRecordCompletes(w) == Complete(w, Current(w).id)

RecordOutcome(w) ==
  LET e == Current(w).id
  IN  IF verdict[w] = "ok"
        THEN Complete(w, e)
        ELSE \E d \in IF DecideFailure(w) THEN {0} ELSE Backoff(Current(w).attempts) :
               Fail(w, e, d, verdict[w], DecideFailure(w))

(* An outcome that is not applied (the lease was lost) is only counted.    *)
Record(w) ==
  /\ pc[w] = "record"
  /\ RecordOutcome(w)
  /\ handled' = [handled EXCEPT ![w] = TRUE]
  /\ Goto(w, "next")
  /\ UNCHANGED <<running, handlers, claimVars, spent, late, verdict, consumerVars, budgetVars>>

(* A failed release or record query: the event in hand waits for its lease *)
(* to run out, the ones not started are given back, the worker backs off.  *)
QueryFails(w) ==
  /\ pc[w] \in {"giveback", "record"}
  /\ handled' = [handled EXCEPT ![w] = FALSE]
  /\ Goto(w, "rest")
  /\ Fault
  /\ UNCHANGED <<running, handlers, claimVars, spent, late, verdict, rowVars, consumerVars>>

(* The outcome is recorded, and the worker never learns of it.             *)
RecordReplyLost(w) ==
  /\ pc[w] = "record"
  /\ RecordOutcome(w)
  /\ handled' = [handled EXCEPT ![w] = FALSE]
  /\ Goto(w, "rest")
  /\ Fault
  /\ UNCHANGED <<running, handlers, claimVars, spent, late, verdict, consumerVars>>

StopDelivering(w) ==
  /\ pc[w] = "next" /\ ~ Continues(w)
  /\ Goto(w, "rest")
  /\ UNCHANGED <<running, handlers, claimVars, deliverVars, rowVars, consumerVars, budgetVars>>

ReleaseRest(w) ==
  /\ pc[w] = "rest"
  /\ Release(w, Unstarted(w))
  /\ EndBatch(w, handled[w])
  /\ UNCHANGED <<running, handlers, consumerVars, budgetVars>>

(* A failed release is swallowed; the rows wait for their lease to end.    *)
ReleaseRestFails(w) ==
  /\ pc[w] = "rest"
  /\ EndBatch(w, handled[w])
  /\ Fault
  /\ UNCHANGED <<running, handlers, rowVars, consumerVars>>

-----------------------------------------------------------------------------
(* Time.                                                                   *)

Delivering(w) == pc[w] \in {"handle", "record"}

(* Workers that act as soon as they get to run.                            *)
Prompt(w) ==
  \/ pc[w] \notin {"down", "sleep", "handle"}
  \/ pc[w] = "handle" /\ spent[w] >= HandlerTimeout

(* One unit passes.  late[w] counts the units a delivery stalls in.        *)
Tick ==
  /\ IF \E w \in Workers : Prompt(w)
       THEN stalls < MaxStalls /\ stalls' = stalls + 1
       ELSE UNCHANGED stalls
  /\ availableIn' = [e \in Events |->
       IF (Pending(e) \/ tx[e] = "open") /\ availableIn[e] > Oldest
         THEN availableIn[e] - 1 ELSE availableIn[e]]
  /\ age' = [e \in Events |->
       IF status[e] = "processed" /\ age[e] <= Retention THEN age[e] + 1 ELSE age[e]]
  /\ leaseLeft' = [w \in Workers |-> IF leaseLeft[w] > 0 THEN leaseLeft[w] - 1 ELSE 0]
  /\ spent' = [w \in Workers |->
       IF pc[w] = "handle" /\ spent[w] < HandlerTimeout THEN spent[w] + 1 ELSE spent[w]]
  /\ late' = [w \in Workers |->
       IF Delivering(w) /\ Prompt(w) /\ late[w] < SettleMargin THEN late[w] + 1 ELSE late[w]]
  /\ pc' = [w \in Workers |-> IF pc[w] = "sleep" THEN "idle" ELSE pc[w]]
  /\ UNCHANGED <<tx, status, attempts, claimToken, lastError, running, handlers, token, events,
                 next, verdict, handled, consumerVars, faults>>

-----------------------------------------------------------------------------
Init ==
  /\ tx          = [e \in Events |-> "none"]
  /\ status      = [e \in Events |-> "none"]
  /\ availableIn = [e \in Events |-> 0]
  /\ attempts    = [e \in Events |-> 0]
  /\ claimToken  = [e \in Events |-> NoToken]
  /\ lastError   = [e \in Events |-> "none"]
  /\ age         = [e \in Events |-> 0]
  /\ pc          = [w \in Workers |-> "down"]
  /\ running     = [w \in Workers |-> FALSE]
  /\ handlers    = [w \in Workers |-> Handled]
  /\ token       = [w \in Workers |-> NoToken]
  /\ leaseLeft   = [w \in Workers |-> 0]
  /\ events      = [w \in Workers |-> <<>>]
  /\ next        = [w \in Workers |-> 0]
  /\ spent       = [w \in Workers |-> 0]
  /\ late        = [w \in Workers |-> 0]
  /\ verdict     = [w \in Workers |-> "none"]
  /\ handled     = [w \in Workers |-> FALSE]
  /\ applied     = [e \in Events |-> FALSE]
  /\ zombies     = {}
  /\ starts      = [e \in Events |-> 0]
  /\ stalls      = 0
  /\ faults      = 0

Produce == \E e \in Events : Enqueue(e) \/ Commit(e) \/ Rollback(e) \/ EnqueueAutocommit(e)

(* The steps a running worker takes of its own.                            *)
WorkerStep(w) ==
  \/ Poll(w) \/ Cleanup(w) \/ DeadLetterUnhandled(w) \/ NothingToClaim(w)
  \/ SendClaim(w) \/ Claim(w) \/ ClaimReply(w)
  \/ StartNext(w) \/ SkipUnhandled(w) \/ GiveBack(w) \/ HandlerTimesOut(w)
  \/ Record(w) \/ StopDelivering(w) \/ ReleaseRest(w)

FaultStep(w) ==
  \/ Stop(w) \/ Crash(w) \/ HousekeepingFails(w) \/ ClaimFails(w)
  \/ QueryFails(w) \/ RecordReplyLost(w) \/ ReleaseRestFails(w)
  \/ \E t \in Topics : Unregister(w, t)

Next ==
  \/ Produce
  \/ Tick
  \/ \E z \in zombies : ZombieEnds(z)
  \/ \E w \in Workers :
       \/ WorkerStep(w) \/ FaultStep(w) \/ Start(w)
       \/ HandlerSucceeds(w) \/ HandlerThrows(w)
       \/ \E t \in Topics : Register(w, t)

Spec == Init /\ [][Next]_vars

(* A live process keeps running its event loop, a process that is down is  *)
(* started again, and time goes on.  Nothing is assumed of handlers.       *)
Fairness ==
  /\ WF_vars(Tick)
  /\ \A w \in Workers : WF_vars(WorkerStep(w)) /\ WF_vars(Start(w))

FairSpec == Spec /\ Fairness
-----------------------------------------------------------------------------
(* Properties.                                                             *)

RowTypes ==
  /\ tx          \in [Events -> {"none", "open", "committed", "rolledback"}]
  /\ status      \in [Events -> {"none", "pending", "processed", "dead", "gone"}]
  /\ availableIn \in [Events -> Oldest .. Longest]
  /\ attempts    \in [Events -> Nat]
  /\ claimToken  \in [Events -> Tokens \cup {NoToken}]
  /\ lastError   \in [Events -> {"none", "error", "permanent", "no_handler"}]
  /\ age         \in [Events -> 0 .. Retention + 1]

ProcessTypes ==
  /\ pc       \in [Workers -> Phases]
  /\ running  \in [Workers -> BOOLEAN]
  /\ handlers \in [Workers -> SUBSET Topics]

BatchTypes ==
  /\ token     \in [Workers -> Tokens \cup {NoToken}]
  /\ leaseLeft \in [Workers -> 0 .. Lease]
  /\ events    \in [Workers -> Seq([id : Events, attempts : Nat])]
  /\ next      \in [Workers -> Nat]
  /\ \A w \in Workers : next[w] <= Len(events[w])

DeliveryTypes ==
  /\ spent   \in [Workers -> 0 .. HandlerTimeout]
  /\ late    \in [Workers -> 0 .. SettleMargin]
  /\ verdict \in [Workers -> {"none", "ok", "error", "permanent"}]
  /\ handled \in [Workers -> BOOLEAN]

ConsumerTypes ==
  /\ applied \in [Events -> BOOLEAN]
  /\ zombies \subseteq Workers \X Events
  /\ starts  \in [Events -> Nat]

BudgetTypes == stalls \in 0 .. MaxStalls /\ faults \in 0 .. MaxFaults

(* Every variable has its type, and the position in a batch is within it   *)
(* (OutboxWorker._deliverAll indexes events with next).                    *)
TypeOK ==
  /\ RowTypes /\ ProcessTypes /\ BatchTypes /\ DeliveryTypes
  /\ ConsumerTypes /\ BudgetTypes

(* canStartNext leaves room for the handler's timeout and the settle       *)
(* margin: unless a delivery itself stalls for the whole margin, the row   *)
(* carries its worker's token until the outcome is recorded, however long  *)
(* the process stalled before it started the event.                        *)
LeaseOutlivesDelivery ==
  \A w \in Workers :
    Delivering(w) /\ late[w] < SettleMargin => Holds(w, Current(w).id)

(* "While a lease is valid no two workers handle the same event"           *)
(* (OutboxWorker.js): two deliveries of one event overlap only when one of *)
(* them has overrun its timeout by the whole settle margin.                *)
OneDelivery ==
  \A v, w \in Workers :
    /\ v # w /\ Delivering(v) /\ Delivering(w)
    /\ late[v] < SettleMargin /\ late[w] < SettleMargin
    => Current(v).id # Current(w).id

(* Every start of a handler is paid for by a claim that stays counted:     *)
(* giving back claims (RELEASE_SQL lowers attempts) never hides a delivery *)
(* from the retry limit, even when leases run out and change hands.        *)
EveryStartIsCounted == \A e \in Events : starts[e] <= attempts[e]

(* At least once: COMPLETE_SQL is only applied after a handler has had its *)
(* effect, whoever claimed the row in the meantime.                        *)
ProcessedWasApplied ==
  \A e \in Events : status[e] \in {"processed", "gone"} => applied[e]

(* Nothing is handled that was not committed: no handler has an effect for *)
(* an event whose business transaction is open or was rolled back.         *)
OnlyCommittedIsApplied == \A e \in Events : applied[e] => tx[e] = "committed"

(* Every dead letter has one of the three documented reasons; one without  *)
(* a handler was never delivered to anybody.                               *)
DeadForAReason ==
  \A e \in Events : status[e] = "dead" =>
    \/ lastError[e] = "permanent"
    \/ lastError[e] = "error" /\ attempts[e] >= MaxAttemptsOf[TopicOf[e]]
    \/ lastError[e] = "no_handler" /\ starts[e] = 0 /\ ~ applied[e]

(* A settled event stays settled: late workers, expired leases and repeated *)
(* statements neither reopen nor re-settle it, nor count an attempt.        *)
SettledForever ==
  [][\A e \in Events : status[e] \in {"processed", "dead", "gone"} =>
        /\ attempts'[e] = attempts[e]
        /\ \/ status'[e] = status[e]
           \/ status[e] = "processed" /\ status'[e] = "gone"]_vars

(* Every committed event whose topic keeps its handler is processed or     *)
(* kept as a dead letter in the end, whatever crashed or hung meanwhile.   *)
EventuallySettled ==
  \A e \in Events :
    status[e] = "pending" /\ TopicOf[e] \in Handled \ Removable
      ~> status[e] \in {"processed", "dead", "gone"}

(* "attempts grows with the claim, so an event that kills the process that *)
(* handles it stops at the limit too" (OutboxWorker.js, retry section): no *)
(* event is handed to a handler more often than its topic's limit.         *)
StopsAtTheLimit == \A e \in Events : starts[e] <= MaxAttemptsOf[TopicOf[e]]

Contract == INSTANCE Delivery WITH Events <- Events, status <- status, applied <- applied

(* The outbox implements at-least-once delivery: every step of producers,  *)
(* workers, clock and faults is a step of Delivery or changes nothing that *)
(* Delivery sees.                                                          *)
ImplementsDelivery == Contract!Spec
=============================================================================
