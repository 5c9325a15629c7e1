----------------------------- MODULE HookReflect -----------------------------
(***************************************************************************)
(* Reflecting a harness session once: a Stop or SessionEnd hook request is *)
(* admitted and put on the outbox (lib/handlers/hook-handler.js,           *)
(* enqueueReflect), and the consumer of topic hook.reflect                 *)
(* (lib/hooks/hook-reflect-consumer.js) claims the idempotency key of the  *)
(* session and event (lib/memory/write/IdempotencyStore.js), reflects, and *)
(* completes or releases the claim.                                        *)
(*                                                                         *)
(* The outbox is its contract here: one delivery of an event at a time,    *)
(* except that a delivery that outran its time limit goes on unattended    *)
(* while the event is delivered again.  Every statement is a step; the     *)
(* handler holds no transaction between two of them.                       *)
(***************************************************************************)
EXTENDS Integers, FiniteSets

CONSTANTS
  Events,         \* the hook requests of one API key, each at most one outbox event
  Keys,           \* idempotency keys: client, session and event
  KeyOf,          \* the key of a request
  Deliveries,     \* the deliveries there may be; each brings a fresh token
  NoEvent, NoDelivery,
  MaxAttempts,    \* outbox limit of claims of one event
  Stale,          \* HOOK_CLAIM_STALE_MS
  Ttl,            \* HOOK_CLAIM_TTL_DAYS
  PendingPerKey,  \* HOOK_LIMITS.pendingPerKey
  MaxTicks        \* bound of the model

ASSUME KeysAssumption == KeyOf \in [Events -> Keys]
ASSUME SentinelAssumption == NoEvent \notin Events /\ NoDelivery \notin Deliveries
ASSUME TimesAssumption ==
  /\ {MaxAttempts, Stale, Ttl, PendingPerKey, MaxTicks} \subseteq Nat
  /\ Stale < Ttl

VARIABLES
  status,     \* what became of each request
  recent,     \* RecentKeys of the process that takes the requests
  attempts,   \* how often the outbox has delivered each event
  current,    \* the delivery whose outcome the outbox will record
  run,        \* the handler run of each delivery
  record,     \* idempotency_records
  saved,      \* the narratives stored under each key
  active,     \* the API key is valid and may write
  slipped,    \* history: events ended by a lookup that found no record
  ticks

vars == <<status, recent, attempts, current, run, record, saved, active, slipped, ticks>>
outboxVars == <<status, attempts, current>>

NoRecord == [state |-> "none", token |-> NoDelivery, age |-> 0]
Unused   == [event |-> NoEvent, phase |-> "unused", timedOut |-> FALSE,
             reflected |-> FALSE, age |-> 0]

Live(d)  == run[d].phase \notin {"unused", "ended"}
Key(d)   == KeyOf[run[d].event]
At(d, p) == run[d].phase = p

Expired(k) == record[k].age >= Ttl

-----------------------------------------------------------------------------
\* Admission

\* hookAdmissionState.seen
Seen(k) == record[k] # NoRecord /\ ~Expired(k)

\* hookAdmissionState.pending, of the API key.
Waiting == Cardinality({e \in Events : status[e] = "pending"})

\* mutant: a request that is refused is remembered as accepted
BugAdmit(e) ==
  /\ status[e] = "new"
  /\ IF KeyOf[e] \in recent \/ Seen(KeyOf[e])
     THEN status' = [status EXCEPT ![e] = "duplicate"]
     ELSE status' = [status EXCEPT ![e] =
                       IF Waiting >= PendingPerKey THEN "refused" ELSE "admitted"]
  /\ recent' = recent \union {KeyOf[e]}
  /\ UNCHANGED <<attempts, current, run, record, saved, active, slipped, ticks>>

\* A request whose key is in RecentKeys or in the records is a duplicate; one
\* too many for the API key is refused; any other goes on to be enqueued.
Admit(e) ==
  /\ status[e] = "new"
  /\ \/ /\ KeyOf[e] \in recent \/ Seen(KeyOf[e])
        /\ status' = [status EXCEPT ![e] = "duplicate"]
        /\ recent' = recent \union {KeyOf[e]}
     \/ /\ KeyOf[e] \notin recent /\ ~Seen(KeyOf[e])
        /\ status' = [status EXCEPT ![e] =
                        IF Waiting >= PendingPerKey THEN "refused" ELSE "admitted"]
        /\ UNCHANGED recent
  /\ UNCHANGED <<attempts, current, run, record, saved, active, slipped, ticks>>

\* deps.enqueue, which may be unavailable.
EnqueueReflect(e) ==
  /\ status[e] = "admitted"
  /\ \/ /\ status' = [status EXCEPT ![e] = "pending"]
        /\ recent' = recent \union {KeyOf[e]}
     \/ status' = [status EXCEPT ![e] = "refused"] /\ UNCHANGED recent
  /\ UNCHANGED <<attempts, current, run, record, saved, active, slipped, ticks>>

\* The key leaves RecentKeys with time, for lack of room, or with a restart;
\* another process never had it.
ForgetRecent(k) ==
  /\ k \in recent
  /\ recent' = recent \ {k}
  /\ UNCHANGED <<status, attempts, current, run, record, saved, active, slipped, ticks>>

-----------------------------------------------------------------------------
\* The outbox around the handler

Begin(e, d) ==
  /\ status[e] = "pending" /\ current[e] = NoDelivery /\ At(d, "unused")
  /\ current'  = [current EXCEPT ![e] = d]
  /\ attempts' = [attempts EXCEPT ![e] = @ + 1]
  /\ run' = [run EXCEPT ![d] = [Unused EXCEPT !.event = e, !.phase = "validate"]]
  /\ UNCHANGED <<status, recent, record, saved, active, slipped, ticks>>

\* The outbox records an outcome of the delivery it waits for; the outcome of
\* a delivery that timed out is nobody's.
Settle(d, outcome) ==
  LET e == run[d].event
  IN  IF current[e] # d THEN UNCHANGED outboxVars
      ELSE /\ current' = [current EXCEPT ![e] = NoDelivery]
           /\ status' = [status EXCEPT ![e] =
                CASE outcome = "processed" -> "processed"
                  [] outcome = "permanent" -> "dead"
                  [] outcome = "retry" -> IF attempts[e] >= MaxAttempts THEN "dead" ELSE "pending"]
           /\ UNCHANGED attempts

End(d, outcome) ==
  /\ Settle(d, outcome)
  /\ run' = [run EXCEPT ![d].phase = "ended"]

\* runHandler gives up on the handler and aborts its signal.
TimeOut(d) ==
  /\ Live(d) /\ current[run[d].event] = d
  /\ Settle(d, "retry")
  /\ run' = [run EXCEPT ![d].timedOut = TRUE]
  /\ UNCHANGED <<recent, record, saved, active, slipped, ticks>>

\* The process of a run dies; its lease lapses and the event is due again.
Crash(d) ==
  /\ Live(d)
  /\ run' = [run EXCEPT ![d].phase = "ended"]
  /\ current' = [e \in Events |-> IF current[e] = d THEN NoDelivery ELSE current[e]]
  /\ UNCHANGED <<status, recent, attempts, record, saved, active, slipped, ticks>>

-----------------------------------------------------------------------------
\* The handler

\* confirmKey: the key is looked up again, and that may fail.
Validate(d) ==
  /\ At(d, "validate")
  /\ \/ active /\ run' = [run EXCEPT ![d].phase = "claim"] /\ UNCHANGED outboxVars
     \/ ~active /\ End(d, "permanent")
     \/ End(d, "retry")
  /\ UNCHANGED <<recent, record, saved, active, slipped, ticks>>

\* mutant: a claim is taken over however young it is
BugClaimable(k) ==
  \/ record[k] = NoRecord
  \/ record[k].state = "claimed"
  \/ Expired(k)

\* mutant: a completed record is taken over like a claim
BugClaimableWhenOld(k) == record[k] = NoRecord \/ record[k].age > Stale

\* The conflict clause of claimIdempotencyKey.
Claimable(k) ==
  \/ record[k] = NoRecord
  \/ record[k].state = "claimed" /\ record[k].age > Stale
  \/ Expired(k)

\* INSERT ... ON CONFLICT DO UPDATE: a row comes back, or none does.
InsertClaim(d) ==
  /\ At(d, "claim")
  /\ \/ /\ Claimable(Key(d))
        /\ record' = [record EXCEPT ![Key(d)] = [state |-> "claimed", token |-> d, age |-> 0]]
        /\ run' = [run EXCEPT ![d].phase = "claimed", ![d].age = 0]
        /\ UNCHANGED outboxVars
     \/ /\ ~Claimable(Key(d))
        /\ run' = [run EXCEPT ![d].phase = "lookup"]
        /\ UNCHANGED <<record, outboxVars>>
     \/ End(d, "retry") /\ UNCHANGED record
  /\ UNCHANGED <<recent, saved, active, slipped, ticks>>

\* mutant: a key held by another delivery counts as done
BugLookupOutcome(k) == "processed"

\* Busy if the second statement reads a claim, done if it reads anything else,
\* no row included.
LookupOutcome(k) == IF record[k].state = "claimed" THEN "retry" ELSE "processed"

\* The second statement of claimIdempotencyKey.
Lookup(d) ==
  /\ At(d, "lookup")
  /\ End(d, LookupOutcome(Key(d)))
  /\ slipped' = slipped \union IF record[Key(d)] = NoRecord THEN {run[d].event} ELSE {}
  /\ UNCHANGED <<recent, record, saved, active, ticks>>

StartReflect(d) ==
  /\ At(d, "claimed")
  /\ run' = [run EXCEPT ![d].phase = IF run[d].timedOut THEN "release" ELSE "reflect"]
  /\ UNCHANGED <<outboxVars, recent, record, saved, active, slipped, ticks>>

\* The narrative is folded by its content: the same event adds nothing twice.
ReflectSucceeds(d) ==
  /\ At(d, "reflect")
  /\ saved' = [saved EXCEPT ![Key(d)] = @ \union {run[d].event}]
  /\ run' = [run EXCEPT ![d].phase = "complete", ![d].reflected = TRUE]
  /\ UNCHANGED <<outboxVars, recent, record, active, slipped, ticks>>

ReflectFails(d) ==
  /\ At(d, "reflect")
  /\ \/ UNCHANGED saved
     \/ saved' = [saved EXCEPT ![Key(d)] = @ \union {run[d].event}]
  /\ run' = [run EXCEPT ![d].phase = "release"]
  /\ UNCHANGED <<outboxVars, recent, record, active, slipped, ticks>>

\* The WHERE clause of both statements that end a claim.
Holds(d) == record[Key(d)].state = "claimed" /\ record[Key(d)].token = d

\* mutant: the claim is dropped instead of completed
BugCompletes(d) ==
  record' = [record EXCEPT ![Key(d)] = IF Holds(d) THEN NoRecord ELSE @]

Completes(d) ==
  record' = [record EXCEPT ![Key(d)].state = IF Holds(d) THEN "done" ELSE @]

\* completeIdempotencyClaim: a claim taken over is only warned about; if the
\* statement fails, so does the handler, and the claim stays.
Complete(d) ==
  /\ At(d, "complete")
  /\ \/ Completes(d) /\ End(d, "processed")
     \/ UNCHANGED record /\ End(d, "retry")
  /\ UNCHANGED <<recent, saved, active, slipped, ticks>>

\* releaseIdempotencyClaim, whose failure is only warned about.
Release(d) ==
  /\ At(d, "release")
  /\ \/ record' = [record EXCEPT ![Key(d)] = IF Holds(d) THEN NoRecord ELSE @]
     \/ UNCHANGED record
  /\ End(d, "retry")
  /\ UNCHANGED <<recent, saved, active, slipped, ticks>>

-----------------------------------------------------------------------------
\* Around them

\* purgeExpired, every five minutes.
Purge ==
  /\ \E k \in Keys : record[k] # NoRecord /\ Expired(k)
  /\ record' = [k \in Keys |-> IF Expired(k) THEN NoRecord ELSE record[k]]
  /\ UNCHANGED <<outboxVars, recent, run, saved, active, slipped, ticks>>

Deactivate ==
  /\ active /\ active' = FALSE
  /\ UNCHANGED <<outboxVars, recent, run, record, saved, slipped, ticks>>

\* Ages stop where nothing can tell them apart any more.
Older(age, most) == IF age < most THEN age + 1 ELSE age

Tick ==
  /\ ticks < MaxTicks
  /\ ticks' = ticks + 1
  /\ record' = [k \in Keys |-> IF record[k] = NoRecord THEN NoRecord
                               ELSE [record[k] EXCEPT !.age = Older(@, Ttl)]]
  /\ run' = [d \in Deliveries |->
               IF run[d].phase = "unused" THEN run[d]
               ELSE [run[d] EXCEPT !.age = Older(@, Stale + 1)]]
  /\ UNCHANGED <<outboxVars, recent, saved, active, slipped>>

Init ==
  /\ status   = [e \in Events |-> "new"]
  /\ recent   = {}
  /\ attempts = [e \in Events |-> 0]
  /\ current  = [e \in Events |-> NoDelivery]
  /\ run      = [d \in Deliveries |-> Unused]
  /\ record   = [k \in Keys |-> NoRecord]
  /\ saved    = [k \in Keys |-> {}]
  /\ active   = TRUE
  /\ slipped  = {}
  /\ ticks    = 0

Request(e) == Admit(e) \/ EnqueueReflect(e)
Handler(d) == \/ Validate(d) \/ InsertClaim(d) \/ Lookup(d) \/ StartReflect(d)
              \/ ReflectSucceeds(d) \/ ReflectFails(d) \/ Complete(d) \/ Release(d)

Next ==
  \/ \E e \in Events : Request(e)
  \/ \E e \in Events, d \in Deliveries : Begin(e, d)
  \/ \E d \in Deliveries : Handler(d) \/ TimeOut(d) \/ Crash(d)
  \/ \E k \in Keys : ForgetRecent(k)
  \/ Purge \/ Deactivate \/ Tick

Spec == Init /\ [][Next]_vars

-----------------------------------------------------------------------------
Statuses == {"new", "admitted", "pending", "processed", "dead", "duplicate", "refused"}
Phases   == {"unused", "validate", "claim", "lookup", "claimed", "reflect",
             "complete", "release", "ended"}

(* Every variable has its type, and the delivery the outbox waits for is a *)
(* live run of that event, which is still pending.                         *)
TypeOK ==
  /\ status \in [Events -> Statuses]
  /\ recent \subseteq Keys
  /\ attempts \in [Events -> Nat]
  /\ current \in [Events -> Deliveries \union {NoDelivery}]
  /\ run \in [Deliveries -> [event : Events \union {NoEvent}, phase : Phases,
                             timedOut : BOOLEAN, reflected : BOOLEAN, age : 0..(Stale + 1)]]
  /\ record \in [Keys -> [state : {"none", "claimed", "done"},
                          token : Deliveries \union {NoDelivery}, age : 0..Ttl]]
  /\ saved \in [Keys -> SUBSET Events]
  /\ active \in BOOLEAN
  /\ slipped \subseteq Events
  /\ ticks \in 0..MaxTicks
  /\ \A d \in Deliveries : At(d, "unused") \/ run[d].event \in Events
  /\ \A e \in Events : current[e] = NoDelivery
       \/ /\ Live(current[e]) /\ run[current[e]].event = e
          /\ status[e] = "pending"

Claiming(d) == run[d].phase \in {"claimed", "reflect", "complete", "release"}

(* While a claim is younger than the takeover time, the record is the      *)
(* claimer's, whatever other deliveries, released claims and purges do: so *)
(* two runs reflect the same key at once only if one has outlived its      *)
(* claim (HOOK_CLAIM_STALE_MS).                                            *)
HeldWhileFresh ==
  \A d \in Deliveries : Claiming(d) /\ run[d].age <= Stale =>
    record[Key(d)].state = "claimed" /\ record[Key(d)].token = d

(* An event that ends well has been reflected, or another event of its key *)
(* has: a delivery is skipped only for a reflection that was completed. The *)
(* exception is a lookup that finds no record at all.                      *)
SkippedOnlyIfReflected ==
  \A e \in Events : status[e] = "processed" /\ e \notin slipped => saved[KeyOf[e]] # {}

(* A completed reflection stays on record until it expires: no late run    *)
(* releases it or claims it again (the token in releaseIdempotencyClaim).  *)
DoneStays ==
  [][\A k \in Keys : record[k].state = "done" /\ ~Expired(k) => record'[k].state = "done"]_vars

(* A key is reflected a second time only when one of the two runs outlived *)
(* its claim, by a crash, a failed completion or a very slow reflection.   *)
AgainOnlyWhenStale ==
  [][\A d, f \in Deliveries :
       /\ run'[d].reflected /\ ~run[d].reflected
       /\ run[f].reflected /\ Key(d) = Key(f)
       => run[d].age > Stale \/ run[f].age > Stale]_vars

(* A request answered as a duplicate is covered: another request of the    *)
(* same key was really put on the outbox (enqueueReflect adds the key to   *)
(* RecentKeys only after the write).                                       *)
DuplicateIsCovered ==
  \A e \in Events : status[e] = "duplicate" =>
    \E f \in Events \ {e} : /\ KeyOf[f] = KeyOf[e]
                            /\ status[f] \in {"pending", "processed", "dead"}

(* The order of work in hook-reflect-consumer.js: only a key already       *)
(* completed ends without a reflection; a key held by another delivery is  *)
(* retried.  So an event that ends well has a reflection behind it.        *)
EndedMeansReflected ==
  \A e \in Events : status[e] = "processed" => saved[KeyOf[e]] # {}
=============================================================================
