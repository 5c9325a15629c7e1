------------------------------ MODULE BatchQueue ------------------------------
(***************************************************************************)
(* batch_remember with async: true.  A request puts its job on a list in   *)
(* Redis (lib/memory/write/BatchRememberProcessor.js, _enqueueAsync) and   *)
(* answers; the worker of a server process moves a job from the list to a  *)
(* second list, works on it, and removes it there when it is done with it  *)
(* (lib/memory/write/BatchRememberWorker.js over lib/redis.js).  A process *)
(* that starts puts back what it finds on the second list.                 *)
(*                                                                         *)
(* Every Redis command is a step, and so is the transaction that stores    *)
(* the fragments of a job.  A list is a sequence with its head (LPUSH) at  *)
(* position 1 and its tail (RPOP) at the end.                              *)
(***************************************************************************)
EXTENDS Naturals, Sequences, SequencesExt

CONSTANTS
  Processes,    \* server processes that share the Redis instance
  Jobs,         \* the jobs requested
  NoRaw,
  RetryLimit,   \* batchRememberWorker.retryLimit
  MaxMoves,     \* bound of the model: how many jobs one start puts back
  MaxDowns,     \* bound of the model: how often a process stops or dies
  MaxFaults     \* bound of the model: how many Redis commands fail

\* The serialised job.  queuedAt tells two pushes of one job apart.
Raws == [job : Jobs, retry : 0..RetryLimit, queuedAt : Nat]

ASSUME LimitAssumption == {RetryLimit, MaxMoves, MaxDowns, MaxFaults} \subseteq Nat
ASSUME SentinelAssumption == NoRaw \notin Raws

VARIABLES
  queue,        \* queue:batch_remember_queue
  processing,   \* queue:batch_remember_queue:processing
  dead,         \* queue:batch_remember_queue:dead
  state,        \* field state of batch_job:<jobId>
  request,      \* the request of each job and the process that serves it
  worker,       \* the BatchRememberWorker of each process
  pushes,       \* pushes so far, the clock that queuedAt reads
  stored,       \* jobs whose fragments are in the database
  turnedAway,   \* history: jobs of which a run of process() had nothing to store
  failures,     \* history: failed runs of each job, up to RetryLimit + 1
  faults, downs

vars == <<queue, processing, dead, state, request, worker, pushes, stored,
          turnedAway, failures, faults, downs>>
lists == <<queue, processing, dead, pushes>>

Off  == [at |-> "off", raw |-> NoRaw, safeToAck |-> TRUE, moved |-> 0]
Idle == [Off EXCEPT !.at = "idle"]

States == {"none", "queued", "processing", "completed", "dead"}
Phases == {"off", "starting", "idle", "marking", "working", "returned", "failed",
           "reporting", "acking"}

At(p, phase) == worker[p].at = phase
Alive(p)     == ~At(p, "off")
Raw(p)       == worker[p].raw
Goto(p, phase) == worker' = [worker EXCEPT ![p].at = phase]

Requested(p, j) == request[j] = [at |-> "pushed", by |-> p]
On(list)     == {raw.job : raw \in ToSet(list)}

-----------------------------------------------------------------------------
(* A command is done and answered, fails before it reaches Redis, or is    *)
(* done and its answer is lost.                                            *)
Outcomes == {"answered", "failed", "lost"}
Done(o)  == o # "failed"
Try(o)   == /\ o = "answered" \/ faults < MaxFaults
            /\ faults' = IF o = "answered" THEN faults ELSE faults + 1

LPush(list, raw) == Cons(raw, list)
\* pushToQueue(j, retry) under outcome o.
PushToQueue(o, j, n) ==
  IF Done(o)
    THEN /\ queue'  = LPush(queue, [job |-> j, retry |-> n, queuedAt |-> pushes])
         /\ pushes' = pushes + 1
    ELSE UNCHANGED <<queue, pushes>>
LRem(list, raw)  == RemoveFirst(list, raw)

\* SetBatchJobStatus(j, s) under outcome o; its failure is swallowed.
SetBatchJobStatus(o, j, s) ==
  /\ Try(o)
  /\ state' = IF Done(o) THEN [state EXCEPT ![j] = s] ELSE state

-----------------------------------------------------------------------------
Init ==
  /\ queue = <<>> /\ processing = <<>> /\ dead = {}
  /\ state     = [j \in Jobs |-> "none"]
  /\ request   = [j \in Jobs |-> [at |-> "none", by |-> NoRaw]]
  /\ worker    = [p \in Processes |-> Off]
  /\ pushes    = 0
  /\ stored = {} /\ turnedAway = {}
  /\ failures  = [j \in Jobs |-> 0]
  /\ faults = 0 /\ downs = 0

\* _enqueueAsync: the job goes on the list; a failed push fails the request.
EnqueueAsync(p, j) ==
  /\ Alive(p)
  /\ request[j].at = "none"
  /\ \E o \in Outcomes :
       /\ Try(o)
       /\ PushToQueue(o, j, 0)
       /\ request' = [request EXCEPT ![j] =
            [at |-> IF o = "answered" THEN "pushed" ELSE "refused", by |-> p]]
  /\ UNCHANGED <<processing, dead, state, worker, stored, turnedAway, failures, downs>>

\* _enqueueAsync, once the push is answered: the job is reported as queued.
Accept(p, j) ==
  /\ Requested(p, j)
  /\ \E o \in Outcomes : SetBatchJobStatus(o, j, "queued")
  /\ request' = [request EXCEPT ![j].at = "accepted"]
  /\ UNCHANGED <<lists, worker, stored, turnedAway, failures, downs>>

-----------------------------------------------------------------------------
Start(p) ==
  /\ At(p, "off")
  /\ worker' = [worker EXCEPT ![p] = [Off EXCEPT !.at = "starting"]]
  /\ UNCHANGED <<lists, state, request, stored, turnedAway, failures, faults, downs>>

\* requeueProcessing: one RPOPLPUSH; an error ends the recovery.
Requeue(p) ==
  /\ At(p, "starting")
  /\ processing # <<>>
  /\ worker[p].moved < MaxMoves
  /\ \E o \in Outcomes :
       /\ Try(o)
       /\ IF Done(o)
            THEN /\ queue'      = LPush(queue, Last(processing))
                 /\ processing' = Front(processing)
            ELSE UNCHANGED <<queue, processing>>
       /\ worker' = IF o = "answered" THEN [worker EXCEPT ![p].moved = @ + 1]
                                      ELSE [worker EXCEPT ![p] = Idle]
  /\ UNCHANGED <<dead, pushes, state, request, stored, turnedAway, failures, downs>>

\* mutant: a start puts nothing back
BugRecovered(p) ==
  /\ At(p, "starting")
  /\ worker' = [worker EXCEPT ![p] = Idle]
  /\ UNCHANGED <<lists, state, request, stored, turnedAway, failures, faults, downs>>

\* requeueProcessing finds the list empty, and the worker begins to poll.
Recovered(p) ==
  /\ At(p, "starting")
  /\ processing = <<>>
  /\ worker' = [worker EXCEPT ![p] = Idle]
  /\ UNCHANGED <<lists, state, request, stored, turnedAway, failures, faults, downs>>

\* popFromQueueReliable; without an answer the worker has nothing to do.
Pop(p) ==
  /\ At(p, "idle")
  /\ queue # <<>>
  /\ \E o \in {"answered", "lost"} :
       /\ Try(o)
       /\ queue'      = Front(queue)
       /\ processing' = LPush(processing, Last(queue))
       /\ worker' = IF o = "answered"
                      THEN [worker EXCEPT ![p] = [Off EXCEPT !.at = "marking", !.raw = Last(queue)]]
                      ELSE worker
  /\ UNCHANGED <<dead, pushes, state, request, stored, turnedAway, failures, downs>>

\* _processJobEnvelope begins.  The process has one connection: the answer to
\* a push of its own comes first, and with it the report of Accept.
Mark(p) ==
  /\ At(p, "marking")
  /\ ~Requested(p, Raw(p).job)
  /\ \E o \in Outcomes : SetBatchJobStatus(o, Raw(p).job, "processing")
  /\ Goto(p, "working")
  /\ UNCHANGED <<lists, request, stored, turnedAway, failures, downs>>

\* process() stores the fragments that pass, at least one (those already
\* there are skipped).
Process(p) ==
  /\ At(p, "working")
  /\ stored' = stored \cup {Raw(p).job}
  /\ Goto(p, "returned")
  /\ UNCHANGED <<lists, state, request, turnedAway, failures, faults, downs>>

\* process() has nothing to store and returns all the same: each fragment was
\* refused or failed on its own, or the key's quota is used up.
ProcessTurnsAway(p) ==
  /\ At(p, "working")
  /\ turnedAway' = turnedAway \cup {Raw(p).job}
  /\ Goto(p, "returned")
  /\ UNCHANGED <<lists, state, request, stored, failures, faults, downs>>

\* process() throws, before its transaction is committed or after.
ProcessThrows(p) ==
  /\ At(p, "working")
  /\ stored' \in {stored, stored \cup {Raw(p).job}}
  /\ failures' = [failures EXCEPT ![Raw(p).job] = IF @ > RetryLimit THEN @ ELSE @ + 1]
  /\ Goto(p, "failed")
  /\ UNCHANGED <<lists, state, request, turnedAway, faults, downs>>

\* What process() returned is reported, whether it stored anything or not.
ReportCompleted(p) ==
  /\ At(p, "returned")
  /\ \E o \in Outcomes : SetBatchJobStatus(o, Raw(p).job, "completed")
  /\ Goto(p, "acking")
  /\ UNCHANGED <<lists, request, stored, turnedAway, failures, downs>>

\* mutant: a job is given up once too early
BugCanRetryEarly(raw) == raw.retry + 1 < RetryLimit
CanRetry(raw) == raw.retry < RetryLimit

\* mutant: the job is acknowledged whatever became of its disposition
BugSafeToAck(o) == TRUE
\* Only a disposition that was answered lets the worker acknowledge.
SafeToAck(o) == o = "answered"
Dispose(p, o) ==
  /\ Try(o)
  /\ worker' = [worker EXCEPT ![p].at = "reporting", ![p].safeToAck = SafeToAck(o)]
  /\ UNCHANGED <<processing, state, request, stored, turnedAway, failures, downs>>

Retry(p) ==
  /\ At(p, "failed") /\ CanRetry(Raw(p))
  /\ \E o \in Outcomes :
       /\ PushToQueue(o, Raw(p).job, Raw(p).retry + 1)
       /\ Dispose(p, o)
  /\ UNCHANGED dead

DeadLetter(p) ==
  /\ At(p, "failed") /\ ~CanRetry(Raw(p))
  /\ \E o \in Outcomes :
       /\ dead' = IF Done(o) THEN dead \cup {Raw(p).job} ELSE dead
       /\ Dispose(p, o)
  /\ UNCHANGED <<queue, pushes>>

ReportFailure(p) ==
  /\ At(p, "reporting")
  /\ \E o \in Outcomes :
       SetBatchJobStatus(o, Raw(p).job, IF CanRetry(Raw(p)) THEN "queued" ELSE "dead")
  /\ worker' = [worker EXCEPT ![p] = IF @.safeToAck THEN [@ EXCEPT !.at = "acking"] ELSE Idle]
  /\ UNCHANGED <<lists, request, stored, turnedAway, failures, downs>>

\* ackQueueItem, and the next round; its failure is swallowed.
Ack(p) ==
  /\ At(p, "acking")
  /\ \E o \in Outcomes :
       /\ Try(o)
       /\ processing' = IF Done(o) THEN LRem(processing, Raw(p)) ELSE processing
  /\ worker' = [worker EXCEPT ![p] = Idle]
  /\ UNCHANGED <<queue, dead, pushes, state, request, stored, turnedAway, failures, downs>>

-----------------------------------------------------------------------------
\* A graceful stop waits for the job in hand, so it ends at an idle worker.
Stop(p) ==
  /\ At(p, "idle")
  /\ \A j \in Jobs : ~Requested(p, j)
  /\ downs < MaxDowns
  /\ downs' = downs + 1
  /\ worker' = [worker EXCEPT ![p] = Off]
  /\ UNCHANGED <<lists, state, request, stored, turnedAway, failures, faults>>

\* The process dies: the job in hand and the requests it serves are dropped.
Crash(p) ==
  /\ Alive(p)
  /\ downs < MaxDowns
  /\ downs' = downs + 1
  /\ worker'  = [worker EXCEPT ![p] = Off]
  /\ request' = [j \in Jobs |->
                   IF Requested(p, j) THEN [request[j] EXCEPT !.at = "dropped"] ELSE request[j]]
  /\ UNCHANGED <<lists, state, stored, turnedAway, failures, faults>>

Work(p) ==
  \/ Requeue(p) \/ Recovered(p)
  \/ Pop(p) \/ Mark(p)
  \/ Process(p) \/ ProcessTurnsAway(p) \/ ReportCompleted(p)
  \/ ProcessThrows(p) \/ Retry(p) \/ DeadLetter(p) \/ ReportFailure(p)
  \/ Ack(p)

Next ==
  \E p \in Processes :
    \/ Start(p) \/ Stop(p) \/ Crash(p)
    \/ Work(p)
    \/ \E j \in Jobs : EnqueueAsync(p, j) \/ Accept(p, j)

Spec == Init /\ [][Next]_vars

\* The worker goes on with what it began, and a supervisor starts a process
\* that has stopped.
Fairness ==
  \A p \in Processes :
    /\ WF_vars(Start(p))
    /\ WF_vars(Work(p))
    /\ \A j \in Jobs : WF_vars(Accept(p, j))

FairSpec == Spec /\ Fairness
-----------------------------------------------------------------------------
(* Every variable has its type; no job on a list was retried too often.    *)
TypeOK ==
  /\ queue \in Seq(Raws) /\ processing \in Seq(Raws)
  /\ pushes \in Nat
  /\ dead \subseteq Jobs /\ stored \subseteq Jobs /\ turnedAway \subseteq Jobs
  /\ state \in [Jobs -> States]
  /\ request \in [Jobs -> [at : {"none", "pushed", "accepted", "refused", "dropped"},
                           by : Processes \cup {NoRaw}]]
  /\ worker \in [Processes -> [at : Phases, raw : Raws \cup {NoRaw}, safeToAck : BOOLEAN,
                           moved : 0..MaxMoves]]
  /\ failures \in [Jobs -> 0..RetryLimit + 1]
  /\ faults \in 0..MaxFaults /\ downs \in 0..MaxDowns

\* How process() or the worker came to an end with a job.
Concluded == stored \cup turnedAway \cup dead

(* No accepted job is lost between the lists, whatever dies or fails: it   *)
(* is on one of them until a run of it has stored its fragments or has     *)
(* found none to store, or until it is on the dead list (ack only after    *)
(* process() returned or the disposition is certain,                       *)
(* BatchRememberWorker.js, _processJobEnvelope).                           *)
NothingIsLost ==
  \A j \in Jobs : request[j].at \in {"pushed", "accepted", "dropped"} =>
    j \in Concluded \cup On(queue) \cup On(processing)

(* A job is given up only after a first run and RetryLimit retries have    *)
(* failed (retryLimit, BatchRememberWorker.js).                            *)
DeadMeansExhausted ==
  \A j \in dead : failures[j] > RetryLimit

Working(j) ==
  \/ j \in On(queue) \cup On(processing)
  \/ \E p \in Processes : Requested(p, j) \/ (Raw(p) # NoRaw /\ Raw(p).job = j)

(* Once nothing is left to be done for a job, and no status write failed,  *)
(* batch_status says how it ended (setBatchJobStatus).                     *)
StatusIsFinal ==
  faults = 0 => \A j \in Jobs :
    request[j].at = "accepted" /\ ~Working(j) => state[j] \in {"completed", "dead"}

(* Delivery at least once: while Redis answers, a job that was accepted is *)
(* run until process() returns or its retries are used up, whichever       *)
(* process dies meanwhile.                                                 *)
EventuallyHandled ==
  \A j \in Jobs : request[j].at = "accepted" ~> j \in Concluded \/ faults > 0
=============================================================================
