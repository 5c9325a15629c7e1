-------------------------- MODULE HookReflectProofs --------------------------
(***************************************************************************)
(* A session is reflected once, as far as its claim lasts, for any number  *)
(* of hook requests, keys and deliveries, any mapping of requests to keys  *)
(* and any times with the takeover before the expiry of a record.          *)
(***************************************************************************)
EXTENDS HookReflect, TLAPS

-----------------------------------------------------------------------------
(* The argument.                                                           *)

Enqueued   == {"pending", "processed", "dead"}
Covered(k) == \E f \in Events : KeyOf[f] = k /\ status[f] \in Enqueued

(* A run that has claimed, or has reflected, and is younger than the       *)
(* takeover time stands in the record, which is no older than the run.     *)
Stands(d) == /\ record[Key(d)].token = d
             /\ record[Key(d)].age <= run[d].age
             /\ record[Key(d)].state \in {"claimed", "done"}
             /\ Claiming(d) => record[Key(d)].state = "claimed"

RunOK(d) ==
  /\ run[d].reflected => run[d].phase \in {"complete", "ended"}
  /\ ~At(d, "unused") => status[run[d].event] \in Enqueued
  /\ At(d, "complete") => saved[Key(d)] # {}
  /\ (Claiming(d) \/ run[d].reflected) /\ run[d].age <= Stale => Stands(d)

(* A record that says done has a reflection behind it, and a record or a   *)
(* remembered key a request that was enqueued.                             *)
RecordOK(k) ==
  /\ record[k].state = "none" => record[k] = NoRecord
  /\ record[k].state = "done" => saved[k] # {}
  /\ record[k] # NoRecord \/ k \in recent => Covered(k)

HookInv == /\ TypeOK
           /\ \A d \in Deliveries : RunOK(d)
           /\ \A k \in Keys : RecordOK(k)
           /\ SkippedOnlyIfReflected
           /\ DuplicateIsCovered

Runs    == [event : Events \union {NoEvent}, phase : Phases, timedOut : BOOLEAN,
            reflected : BOOLEAN, age : 0..(Stale + 1)]
Rows    == [state : {"none", "claimed", "done"}, token : Deliveries \union {NoDelivery},
            age : 0..Ttl]
CurrentOK(e) == current[e] = NoDelivery
                  \/ /\ Live(current[e]) /\ run[current[e]].event = e
                     /\ status[e] = "pending"

-----------------------------------------------------------------------------
(* What the steps have in common.                                          *)

(* Nothing is taken from the outbox, and no narrative is dropped.          *)
Grows == /\ \A e \in Events : status[e] \in Enqueued => status'[e] \in Enqueued
         /\ \A k \in Keys : saved[k] \subseteq saved'[k]

(* A key that is covered stays so.                                         *)
LEMMA CoveredStays ==
  ASSUME Grows, NEW k \in Keys, Covered(k)
  PROVE  Covered(k)'
  BY DEF Grows, Covered

(* The key of a run that began is a key.                                   *)
LEMMA KeyType ==
  ASSUME TypeOK, NEW d \in Deliveries, ~At(d, "unused")
  PROVE  run[d].event \in Events /\ Key(d) \in Keys
  BY KeysAssumption DEF TypeOK, At, Key

(* A step that leaves a run and the record of its key alone.               *)
LEMMA RunKept ==
  ASSUME HookInv, Grows, NEW d \in Deliveries, run'[d] = run[d],
         ~At(d, "unused") => record'[Key(d)] = record[Key(d)]
  PROVE  RunOK(d)'
<1>1. CASE At(d, "unused")
  BY <1>1 DEF HookInv, RunOK, At, Claiming
<1>2. CASE ~At(d, "unused")
  <2>1. run[d].event \in Events /\ Key(d) \in Keys /\ Key(d)' = Key(d)
    BY <1>2, KeyType DEF HookInv, Key
  <2> QED
    BY <1>2, <2>1 DEF HookInv, RunOK, At, Claiming, Stands, Grows
<1> QED
  BY <1>1, <1>2

(* A step that leaves a record alone.                                      *)
LEMMA RecordKept ==
  ASSUME HookInv, Grows, NEW k \in Keys, record'[k] = record[k],
         k \in recent' => k \in recent \/ Covered(k)'
  PROVE  RecordOK(k)'
<1>1. record[k] # NoRecord \/ k \in recent => Covered(k)'
  BY CoveredStays DEF HookInv, RecordOK
<1>2. NoRecord' = NoRecord
  BY DEF NoRecord
<1>3. saved[k] # {} => saved'[k] # {}
  BY DEF Grows
<1> QED
  BY <1>1, <1>2, <1>3 DEF HookInv, RecordOK

(* A step after which no more events count as processed.                   *)
LEMMA SkippedKept ==
  ASSUME HookInv, Grows, slipped \subseteq slipped',
         \A e \in Events : status'[e] = "processed" /\ e \notin slipped' =>
            status[e] = "processed" \/ saved[KeyOf[e]] # {}
  PROVE  SkippedOnlyIfReflected'
  BY KeysAssumption DEF HookInv, SkippedOnlyIfReflected, Grows

(* A step after which no more requests count as duplicates.                *)
LEMMA DuplicatesKept ==
  ASSUME HookInv, Grows, \A e \in Events : status'[e] = "duplicate" => status[e] = "duplicate"
  PROVE  DuplicateIsCovered'
  BY DEF HookInv, DuplicateIsCovered, Grows, Enqueued

(* An outcome the outbox records, or that nobody waits for.                *)
LEMMA SettleEffect ==
  ASSUME TypeOK, NEW d \in Deliveries, Live(d),
         NEW outcome \in {"processed", "permanent", "retry"}, Settle(d, outcome)
  PROVE  /\ status' \in [Events -> Statuses]
         /\ attempts' = attempts
         /\ current' \in [Events -> Deliveries \union {NoDelivery}]
         /\ \A e \in Events :
              /\ current'[e] # NoDelivery => /\ current'[e] = current[e] /\ current[e] # d
                                             /\ status'[e] = status[e]
              /\ status[e] \in Enqueued => status'[e] \in Enqueued
              /\ status'[e] = "duplicate" => status[e] = "duplicate"
              /\ status'[e] = "processed" =>
                   status[e] = "processed" \/ (outcome = "processed" /\ e = run[d].event)
<1>1. PICK own \in Events : own = run[d].event
  BY DEF TypeOK, Live, At
<1>2. \A e \in Events : current[e] = d => e = own
  BY <1>1, SentinelAssumption DEF TypeOK
<1>3. CASE current[own] # d
  <2>1. status' = status /\ attempts' = attempts /\ current' = current
    BY <1>1, <1>3 DEF Settle, outboxVars
  <2>2. status \in [Events -> Statuses] /\ current \in [Events -> Deliveries \union {NoDelivery}]
    BY DEF TypeOK
  <2> QED
    BY <1>2, <1>3, <2>1, <2>2
<1>4. CASE current[own] = d
  <2>1. /\ current' = [current EXCEPT ![own] = NoDelivery]
        /\ status' = [status EXCEPT ![own] =
                CASE outcome = "processed" -> "processed"
                  [] outcome = "permanent" -> "dead"
                  [] outcome = "retry" ->
                       IF attempts[own] >= MaxAttempts THEN "dead" ELSE "pending"]
        /\ attempts' = attempts
    BY <1>1, <1>4 DEF Settle
  <2>2. /\ status'[own] \in Enqueued
        /\ status'[own] = "processed" => outcome = "processed"
        /\ \A e \in Events \ {own} : status'[e] = status[e] /\ current'[e] = current[e]
        /\ current'[own] = NoDelivery
    BY <2>1 DEF TypeOK, Enqueued
  <2>3. status' \in [Events -> Statuses] /\ current' \in [Events -> Deliveries \union {NoDelivery}]
    BY <2>1 DEF TypeOK, Statuses
  <2>4. ASSUME NEW e \in Events
        PROVE  /\ current'[e] # NoDelivery => /\ current'[e] = current[e] /\ current[e] # d
                                              /\ status'[e] = status[e]
               /\ status[e] \in Enqueued => status'[e] \in Enqueued
               /\ status'[e] = "duplicate" => status[e] = "duplicate"
               /\ status'[e] = "processed" =>
                    status[e] = "processed" \/ (outcome = "processed" /\ e = own)
    BY <1>2, <2>2 DEF Enqueued
  <2> QED
    BY <1>1, <2>1, <2>3, <2>4
<1> QED
  BY <1>3, <1>4

-----------------------------------------------------------------------------
(* The initial state.                                                      *)
LEMMA HookInvInit == Init => HookInv
<1> SUFFICES ASSUME Init PROVE HookInv
  OBVIOUS
<1>1. NoRecord \in Rows /\ NoRecord.state = "none"
  BY TimesAssumption DEF NoRecord, Rows
<1>2. Unused \in Runs /\ Unused.phase = "unused" /\ Unused.reflected = FALSE
  BY TimesAssumption DEF Unused, Runs, Phases
<1>3. TypeOK
  <2>1. record \in [Keys -> Rows] /\ run \in [Deliveries -> Runs]
    BY <1>1, <1>2 DEF Init
  <2>2. ticks \in 0..MaxTicks
    BY TimesAssumption DEF Init
  <2>3. \A d \in Deliveries : At(d, "unused")
    BY <1>2 DEF Init, At
  <2>4. /\ status \in [Events -> Statuses] /\ attempts \in [Events -> Nat]
        /\ saved \in [Keys -> SUBSET Events]
    BY DEF Init, Statuses
  <2> QED
    BY <2>1, <2>2, <2>3, <2>4 DEF Init, TypeOK, Runs, Rows
<1>4. \A d \in Deliveries : RunOK(d)
  BY <1>2 DEF Init, RunOK, At, Claiming
<1>5. \A k \in Keys : RecordOK(k)
  BY <1>1 DEF Init, RecordOK
<1>6. SkippedOnlyIfReflected /\ DuplicateIsCovered
  BY DEF Init, SkippedOnlyIfReflected, DuplicateIsCovered
<1> QED
  BY <1>3, <1>4, <1>5, <1>6 DEF HookInv

-----------------------------------------------------------------------------
(* The steps outside the handler.                                          *)

(* A request taken in, or refused.                                         *)
LEMMA StepRequest ==
  ASSUME HookInv, NEW e \in Events, Request(e)
  PROVE  HookInv'
<1>1. PICK s \in Statuses :
        /\ status' = [status EXCEPT ![e] = s]
        /\ status[e] \in {"new", "admitted"}
        /\ s = "duplicate" => KeyOf[e] \in recent \/ record[KeyOf[e]] # NoRecord
        /\ recent' # recent =>
              recent' = recent \union {KeyOf[e]} /\ s \in {"duplicate", "pending"}
        /\ s # "processed"
  BY DEF Request, Admit, EnqueueReflect, Seen, Statuses
<1>2. UNCHANGED <<attempts, current, run, record, saved, active, slipped, ticks>>
  BY DEF Request, Admit, EnqueueReflect
<1>3. KeyOf[e] \in Keys
  BY KeysAssumption
<1>4. Grows
  BY <1>1, <1>2 DEF Grows, Enqueued, HookInv, TypeOK
<1>5. TypeOK'
  <2>1. status' \in [Events -> Statuses] /\ recent' \subseteq Keys
    BY <1>1, <1>3 DEF HookInv, TypeOK
  <2>2. \A f \in Events : current[f] # NoDelivery => status'[f] = status[f]
    BY <1>1 DEF HookInv, TypeOK
  <2> QED
    BY <1>2, <2>1, <2>2 DEF HookInv, TypeOK, At, Live
<1>6. s = "duplicate" => Covered(KeyOf[e])
  BY <1>1, <1>3 DEF HookInv, RecordOK
<1>7. \A d \in Deliveries : RunOK(d)'
  BY <1>2, <1>4, RunKept
<1>8. \A k \in Keys : RecordOK(k)'
  <2> SUFFICES ASSUME NEW k \in Keys PROVE RecordOK(k)'
    OBVIOUS
  <2>1. k \in recent' => k \in recent \/ Covered(k)'
    <3> SUFFICES ASSUME k \in recent', k \notin recent PROVE Covered(k)'
      OBVIOUS
    <3>1. k = KeyOf[e] /\ s \in {"duplicate", "pending"}
      BY <1>1
    <3>2. CASE s = "duplicate"
      BY <1>4, <1>6, <3>1, <3>2, CoveredStays
    <3>3. CASE s = "pending"
      <4>1. status'[e] = "pending"
        BY <1>1, <3>3 DEF HookInv, TypeOK
      <4> QED
        BY <3>1, <4>1 DEF Covered, Enqueued
    <3> QED
      BY <3>1, <3>2, <3>3
  <2> QED
    BY <1>2, <1>4, <2>1, RecordKept
<1>9. SkippedOnlyIfReflected'
  <2>1. \A f \in Events : status'[f] = "processed" => status[f] = "processed"
    BY <1>1 DEF HookInv, TypeOK
  <2> QED
    BY <1>2, <1>4, <2>1, SkippedKept
<1>10. DuplicateIsCovered'
  <2> SUFFICES ASSUME NEW f \in Events, status'[f] = "duplicate"
               PROVE  \E g \in Events \ {f} : KeyOf[g] = KeyOf[f] /\ status'[g] \in Enqueued
    BY DEF DuplicateIsCovered, Enqueued
  <2>1. Covered(KeyOf[f])
    <3>1. CASE status[f] = "duplicate"
      BY <3>1 DEF HookInv, DuplicateIsCovered, Covered, Enqueued
    <3>2. CASE status[f] # "duplicate"
      BY <1>1, <1>6, <3>2 DEF HookInv, TypeOK
    <3> QED
      BY <3>1, <3>2
  <2>2. PICK g \in Events : KeyOf[g] = KeyOf[f] /\ status[g] \in Enqueued
    BY <2>1 DEF Covered
  <2>3. status'[g] \in Enqueued
    BY <1>4, <2>2 DEF Grows
  <2> QED
    BY <2>2, <2>3 DEF Enqueued
<1> QED
  BY <1>5, <1>7, <1>8, <1>9, <1>10 DEF HookInv

(* A key forgotten.                                                        *)
LEMMA StepForget ==
  ASSUME HookInv, NEW k \in Keys, ForgetRecent(k)
  PROVE  HookInv'
<1>1. /\ recent' = recent \ {k}
      /\ UNCHANGED <<status, attempts, current, run, record, saved, active, slipped, ticks>>
  BY DEF ForgetRecent
<1>2. Grows
  BY <1>1 DEF Grows
<1>3. TypeOK'
  BY <1>1 DEF HookInv, TypeOK, At, Live
<1>4. \A d \in Deliveries : RunOK(d)'
  BY <1>1, <1>2, RunKept
<1>5. \A j \in Keys : RecordOK(j)'
  BY <1>1, <1>2, RecordKept
<1>6. SkippedOnlyIfReflected' /\ DuplicateIsCovered'
  BY <1>1, <1>2, SkippedKept, DuplicatesKept
<1> QED
  BY <1>3, <1>4, <1>5, <1>6 DEF HookInv

(* A delivery begins.                                                      *)
LEMMA StepBegin ==
  ASSUME HookInv, NEW e \in Events, NEW d \in Deliveries, Begin(e, d)
  PROVE  HookInv'
<1>1. /\ status[e] = "pending" /\ current[e] = NoDelivery /\ At(d, "unused")
      /\ current' = [current EXCEPT ![e] = d]
      /\ attempts' = [attempts EXCEPT ![e] = @ + 1]
      /\ UNCHANGED <<status, recent, record, saved, active, slipped, ticks>>
  BY DEF Begin
<1>2. /\ run' \in [Deliveries -> Runs]
      /\ \A f \in Deliveries \ {d} : run'[f] = run[f]
      /\ run'[d].event = e /\ run'[d].phase = "validate" /\ run'[d].reflected = FALSE
  <2>1. Unused \in Runs /\ Unused.reflected = FALSE
    BY TimesAssumption DEF Unused, Runs, Phases
  <2>2. run' = [run EXCEPT ![d] = [Unused EXCEPT !.event = e, !.phase = "validate"]]
    BY DEF Begin
  <2>3. run \in [Deliveries -> Runs]
    BY DEF HookInv, TypeOK, Runs
  <2> QED
    BY <2>1, <2>2, <2>3 DEF Runs, Phases
<1>3. Grows
  BY <1>1 DEF Grows
<1>4. TypeOK'
  <2>1. attempts' \in [Events -> Nat] /\ current' \in [Events -> Deliveries \union {NoDelivery}]
    BY <1>1 DEF HookInv, TypeOK
  <2>2. \A f \in Deliveries : At(f, "unused")' \/ run'[f].event \in Events
    BY <1>2 DEF HookInv, TypeOK, At
  <2>3. ASSUME NEW i \in Events PROVE CurrentOK(i)'
    <3>1. CASE i = e
      BY <1>1, <1>2, <3>1 DEF CurrentOK, Live, HookInv, TypeOK
    <3>2. CASE i # e
      <4>1. current'[i] = current[i] /\ CurrentOK(i)
        BY <1>1, <3>2 DEF HookInv, TypeOK, CurrentOK
      <4>2. current[i] # NoDelivery => current[i] \in Deliveries \ {d}
        BY <1>1, <4>1 DEF HookInv, TypeOK, CurrentOK, Live, At
      <4> QED
        BY <1>1, <1>2, <4>1, <4>2 DEF CurrentOK, Live
    <3> QED
      BY <3>1, <3>2
  <2> QED
    BY <1>1, <1>2, <2>1, <2>2, <2>3 DEF HookInv, TypeOK, CurrentOK, Runs
<1>5. ASSUME NEW f \in Deliveries PROVE RunOK(f)'
  <2>1. CASE f = d
    BY <1>1, <1>2, <2>1 DEF RunOK, At, Claiming, Enqueued
  <2>2. CASE f # d
    BY <1>1, <1>2, <1>3, <2>2, RunKept
  <2> QED
    BY <2>1, <2>2
<1>6. \A k \in Keys : RecordOK(k)'
  BY <1>1, <1>3, RecordKept
<1>7. SkippedOnlyIfReflected' /\ DuplicateIsCovered'
  BY <1>1, <1>3, SkippedKept, DuplicatesKept
<1> QED
  BY <1>4, <1>5, <1>6, <1>7 DEF HookInv

(* The API key is deactivated.                                             *)
LEMMA StepDeactivate ==
  ASSUME HookInv, Deactivate
  PROVE  HookInv'
<1>1. /\ active' = FALSE
      /\ UNCHANGED <<status, attempts, current, recent, run, record, saved, slipped, ticks>>
  BY DEF Deactivate, outboxVars
<1>2. Grows
  BY <1>1 DEF Grows
<1>3. TypeOK'
  BY <1>1 DEF HookInv, TypeOK, At, Live
<1>4. (\A d \in Deliveries : RunOK(d)') /\ \A k \in Keys : RecordOK(k)'
  BY <1>1, <1>2, RunKept, RecordKept
<1>5. SkippedOnlyIfReflected' /\ DuplicateIsCovered'
  BY <1>1, <1>2, SkippedKept, DuplicatesKept
<1> QED
  BY <1>3, <1>4, <1>5 DEF HookInv

(* Expired records are purged: none that a fresh run stands in.            *)
LEMMA StepPurge ==
  ASSUME HookInv, Purge
  PROVE  HookInv'
<1>1. /\ record' = [k \in Keys |-> IF Expired(k) THEN NoRecord ELSE record[k]]
      /\ UNCHANGED <<status, attempts, current, recent, run, saved, active, slipped, ticks>>
  BY DEF Purge, outboxVars
<1>2. Grows
  BY <1>1 DEF Grows
<1>3. NoRecord \in Rows /\ NoRecord.state = "none"
  BY TimesAssumption DEF NoRecord, Rows
<1>4. TypeOK'
  <2>1. record' \in [Keys -> Rows]
    BY <1>1, <1>3 DEF HookInv, TypeOK, Rows
  <2> QED
    BY <1>1, <2>1 DEF HookInv, TypeOK, At, Live, Rows
<1>5. ASSUME NEW d \in Deliveries PROVE RunOK(d)'
  <2>1. CASE ~At(d, "unused") /\ Expired(Key(d))
    <3>1. Key(d) \in Keys /\ RunOK(d)
      BY <2>1, KeyType DEF HookInv
    <3>2. record[Key(d)].age \in Nat /\ run[d].age \in Nat /\ Stale \in Nat /\ Ttl \in Nat
      BY <3>1, TimesAssumption DEF HookInv, TypeOK
    <3>3. ~((Claiming(d) \/ run[d].reflected) /\ run[d].age <= Stale)
      BY <2>1, <3>1, <3>2, TimesAssumption DEF RunOK, Stands, Expired
    <3> QED
      BY <1>1, <3>1, <3>3 DEF RunOK, At, Claiming, Key
  <2>2. CASE At(d, "unused") \/ ~Expired(Key(d))
    <3>1. ~At(d, "unused") => record'[Key(d)] = record[Key(d)]
      BY <1>1, <2>2, KeyType DEF HookInv
    <3> QED
      BY <1>1, <1>2, <3>1, RunKept
  <2> QED
    BY <2>1, <2>2
<1>6. ASSUME NEW k \in Keys PROVE RecordOK(k)'
  <2>1. CASE Expired(k)
    <3>1. record'[k] = NoRecord /\ NoRecord' = NoRecord
      BY <1>1, <2>1 DEF NoRecord
    <3>2. k \in recent => Covered(k)'
      BY <1>2, CoveredStays DEF HookInv, RecordOK
    <3> QED
      BY <1>1, <1>3, <3>1, <3>2 DEF RecordOK
  <2>2. CASE ~Expired(k)
    BY <1>1, <1>2, <2>2, RecordKept
  <2> QED
    BY <2>1, <2>2
<1>7. SkippedOnlyIfReflected' /\ DuplicateIsCovered'
  BY <1>1, <1>2, SkippedKept, DuplicatesKept
<1> QED
  BY <1>4, <1>5, <1>6, <1>7 DEF HookInv

(* Time passes: a run and its record grow older together.                  *)
LEMMA StepTick ==
  ASSUME HookInv, Tick
  PROVE  HookInv'
<1>1. /\ ticks < MaxTicks /\ ticks' = ticks + 1
      /\ UNCHANGED <<status, attempts, current, recent, saved, active, slipped>>
  BY DEF Tick, outboxVars
<1>2. Grows
  BY <1>1 DEF Grows
<1>3. \A age \in 0..Ttl : Older(age, Ttl) \in 0..Ttl
  BY TimesAssumption DEF Older
<1>4. \A age \in 0..(Stale + 1) : Older(age, Stale + 1) \in 0..(Stale + 1)
  BY TimesAssumption DEF Older
<1>5. record \in [Keys -> Rows] /\ run \in [Deliveries -> Runs]
  BY DEF HookInv, TypeOK, Rows, Runs
<1>6. NoRecord \in Rows /\ NoRecord.state = "none"
  BY TimesAssumption DEF NoRecord, Rows
<1>7. /\ record' \in [Keys -> Rows]
      /\ \A k \in Keys : /\ record'[k].state = record[k].state
                         /\ record'[k].token = record[k].token
                         /\ record[k] = NoRecord => record'[k] = NoRecord
                         /\ record[k] # NoRecord => record'[k].age = Older(record[k].age, Ttl)
  <2>1. record' = [k \in Keys |-> IF record[k] = NoRecord THEN NoRecord
                               ELSE [record[k] EXCEPT !.age = Older(@, Ttl)]]
    BY DEF Tick
  <2>2. ASSUME NEW k \in Keys
        PROVE  /\ record'[k] \in Rows
               /\ record'[k].state = record[k].state
               /\ record'[k].token = record[k].token
               /\ record[k] = NoRecord => record'[k] = NoRecord
               /\ record[k] # NoRecord => record'[k].age = Older(record[k].age, Ttl)
    <3>1. CASE record[k] = NoRecord
      BY <1>6, <2>1, <3>1
    <3>2. CASE record[k] # NoRecord
      BY <1>3, <1>5, <2>1, <3>2 DEF Rows
    <3> QED
      BY <3>1, <3>2
  <2> QED
    BY <2>1, <2>2
<1>8. /\ run' \in [Deliveries -> Runs]
      /\ \A d \in Deliveries :
           /\ run'[d].phase = run[d].phase /\ run'[d].event = run[d].event
           /\ run'[d].reflected = run[d].reflected
           /\ ~At(d, "unused") => run'[d].age = Older(run[d].age, Stale + 1)
  <2>1. run' = [d \in Deliveries |-> IF run[d].phase = "unused" THEN run[d]
                                     ELSE [run[d] EXCEPT !.age = Older(@, Stale + 1)]]
    BY DEF Tick
  <2>2. ASSUME NEW d \in Deliveries
        PROVE  /\ run'[d] \in Runs
               /\ run'[d].phase = run[d].phase /\ run'[d].event = run[d].event
               /\ run'[d].reflected = run[d].reflected
               /\ ~At(d, "unused") => run'[d].age = Older(run[d].age, Stale + 1)
    <3>1. CASE run[d].phase = "unused"
      BY <1>5, <2>1, <3>1 DEF At
    <3>2. CASE run[d].phase # "unused"
      BY <1>4, <1>5, <2>1, <3>2 DEF Runs
    <3> QED
      BY <3>1, <3>2
  <2> QED
    BY <2>1, <2>2
<1>9. TypeOK'
  <2>1. ticks' \in 0..MaxTicks
    BY <1>1, TimesAssumption DEF HookInv, TypeOK
  <2>2. \A d \in Deliveries : At(d, "unused")' \/ run'[d].event \in Events
    BY <1>8 DEF HookInv, TypeOK, At
  <2>3. ASSUME NEW e \in Events PROVE CurrentOK(e)'
    <3>1. CurrentOK(e) /\ current[e] \in Deliveries \union {NoDelivery}
      BY DEF HookInv, TypeOK, CurrentOK
    <3> QED
      BY <1>1, <1>8, <3>1 DEF CurrentOK, Live
  <2> QED
    BY <1>1, <1>7, <1>8, <2>1, <2>2, <2>3 DEF HookInv, TypeOK, CurrentOK, Rows, Runs
<1>10. ASSUME NEW d \in Deliveries PROVE RunOK(d)'
  <2>1. CASE At(d, "unused")
    BY <1>8, <2>1 DEF HookInv, RunOK, At, Claiming
  <2>2. CASE ~At(d, "unused")
    <3>1. Key(d) \in Keys /\ Key(d)' = Key(d) /\ RunOK(d)
      BY <1>8, <2>2, KeyType DEF HookInv, Key
    <3>2. /\ run[d].age \in 0..(Stale + 1) /\ run'[d].age = Older(run[d].age, Stale + 1)
          /\ record[Key(d)].age \in 0..Ttl
      BY <1>5, <1>8, <2>2, <3>1 DEF Runs, Rows
    <3>3. (Claiming(d) \/ run[d].reflected) /\ run'[d].age <= Stale => Stands(d)'
      <4> SUFFICES ASSUME Claiming(d) \/ run[d].reflected, run'[d].age <= Stale
                   PROVE  Stands(d)'
        OBVIOUS
      <4>1. run[d].age <= Stale /\ run'[d].age = run[d].age + 1
        BY <3>2, TimesAssumption DEF Older
      <4>2. Stands(d)
        BY <3>1, <4>1 DEF RunOK
      <4>3. record[Key(d)] # NoRecord
        BY <1>6, <4>2 DEF Stands
      <4>4. /\ record'[Key(d)].age = Older(record[Key(d)].age, Ttl)
            /\ record'[Key(d)].state = record[Key(d)].state
            /\ record'[Key(d)].token = record[Key(d)].token
        BY <1>7, <3>1, <4>3
      <4>5. record[Key(d)].age <= run[d].age
        BY <4>2 DEF Stands
      <4>6. Older(record[Key(d)].age, Ttl) <= run[d].age + 1
        BY <3>2, <4>5, TimesAssumption DEF Older
      <4>7. record'[Key(d)].age <= run'[d].age
        BY <4>1, <4>4, <4>6
      <4>8. Claiming(d)' = Claiming(d)
        BY <1>8 DEF Claiming
      <4> QED
        BY <3>1, <4>2, <4>4, <4>7, <4>8 DEF Stands
    <3>4. Claiming(d)' = Claiming(d)
      BY <1>8 DEF Claiming
    <3> QED
      BY <1>1, <1>8, <3>1, <3>3, <3>4 DEF RunOK, At
  <2> QED
    BY <2>1, <2>2
<1>11. ASSUME NEW k \in Keys PROVE RecordOK(k)'
  <2>1. RecordOK(k) /\ NoRecord' = NoRecord
    BY DEF HookInv, NoRecord
  <2>2. record[k] # NoRecord \/ k \in recent => Covered(k)'
    BY <1>2, <2>1, CoveredStays DEF RecordOK
  <2>3. record'[k].state = "none" => record'[k] = NoRecord
    BY <1>7, <2>1 DEF RecordOK
  <2>4. record'[k] # NoRecord => record[k] # NoRecord
    BY <1>7
  <2>5. record'[k].state = "done" => saved[k] # {}
    BY <1>7, <2>1 DEF RecordOK
  <2> QED
    BY <1>1, <2>1, <2>2, <2>3, <2>4, <2>5 DEF RecordOK
<1>12. SkippedOnlyIfReflected' /\ DuplicateIsCovered'
  BY <1>1, <1>2, SkippedKept, DuplicatesKept
<1> QED
  BY <1>9, <1>10, <1>11, <1>12 DEF HookInv

-----------------------------------------------------------------------------
(* The steps of the handler.                                               *)

(* A record that a step may take away from others only where they no       *)
(* longer stand in it: the token is the stepping run's own, or the record  *)
(* can be claimed.                                                         *)
LEMMA OthersKept ==
  ASSUME HookInv, Grows, NEW d \in Deliveries, NEW f \in Deliveries \ {d}, run'[f] = run[f],
         NEW c \in Keys, \A k \in Keys \ {c} : record'[k] = record[k],
         record'[c] # record[c] => record[c].token = d \/ Claimable(c)
  PROVE  RunOK(f)'
<1>1. CASE At(f, "unused") \/ record'[Key(f)] = record[Key(f)]
  BY <1>1, RunKept
<1>2. CASE ~At(f, "unused") /\ record'[Key(f)] # record[Key(f)]
  <2>1. Key(f) = c /\ Key(f)' = Key(f) /\ RunOK(f)
    BY <1>2, KeyType DEF HookInv, Key
  <2>2. record[c].age \in Nat /\ run[f].age \in Nat /\ Stale \in Nat /\ Ttl \in Nat
    BY TimesAssumption DEF HookInv, TypeOK
  <2>3. ~((Claiming(f) \/ run[f].reflected) /\ run[f].age <= Stale)
    <3> SUFFICES ASSUME Stands(f), run[f].age <= Stale PROVE FALSE
      BY <2>1 DEF RunOK
    <3>1. record[c].token = f /\ record[c].age <= Stale /\ record[c].state \in {"claimed", "done"}
      BY <2>1, <2>2 DEF Stands
    <3>2. ~Expired(c) /\ record[c] # NoRecord
      BY <2>2, <3>1, TimesAssumption DEF Expired, NoRecord
    <3>3. ~Claimable(c)
      BY <2>2, <3>1, <3>2 DEF Claimable
    <3> QED
      BY <1>2, <2>1, <3>1, <3>3
  <2>4. Claiming(f)' = Claiming(f) /\ \A p \in Phases : At(f, p)' = At(f, p)
    BY DEF Claiming, At
  <2>5. status'[run[f].event] \in Enqueued
    BY <1>2, <2>1, KeyType DEF HookInv, RunOK, Grows
  <2>6. At(f, "complete") => saved'[c] # {}
    BY <2>1 DEF RunOK, Grows
  <2> QED
    BY <2>1, <2>3, <2>4, <2>5, <2>6 DEF RunOK, Phases
<1> QED
  BY <1>1, <1>2

(* A run goes on: it changes its own entry, perhaps what is saved under    *)
(* its key, and the record only by a claim.                                *)
LEMMA StepGoesOn ==
  ASSUME HookInv, NEW d \in Deliveries, Live(d), NEW r \in Runs,
         run' = [run EXCEPT ![d] = r], r.event = run[d].event, r.phase \notin {"unused", "ended"},
         UNCHANGED <<status, attempts, current, recent, active, slipped, ticks>>,
         saved' \in [Keys -> SUBSET Events], \A k \in Keys : saved[k] \subseteq saved'[k],
         record' \in [Keys -> Rows], \A k \in Keys \ {Key(d)} : record'[k] = record[k],
         record'[Key(d)] # record[Key(d)] =>
           Claimable(Key(d)) /\ record'[Key(d)].state = "claimed",
         RunOK(d)'
  PROVE  HookInv'
<1>1. Grows
  BY DEF Grows
<1>2. run[d].event \in Events /\ Key(d) \in Keys /\ ~At(d, "unused") /\ RunOK(d)
  BY KeyType DEF HookInv, Live, At
<1>3. /\ run' \in [Deliveries -> Runs] /\ run'[d] = r
      /\ \A f \in Deliveries \ {d} : run'[f] = run[f]
  BY DEF HookInv, TypeOK, Runs
<1>4. TypeOK'
  <2>1. \A f \in Deliveries : At(f, "unused")' \/ run'[f].event \in Events
    BY <1>2, <1>3 DEF HookInv, TypeOK, At
  <2>2. ASSUME NEW e \in Events PROVE CurrentOK(e)'
    <3>1. CurrentOK(e) /\ current[e] \in Deliveries \union {NoDelivery}
      BY DEF HookInv, TypeOK, CurrentOK
    <3> QED
      BY <1>3, <3>1 DEF CurrentOK, Live
  <2> QED
    BY <1>3, <2>1, <2>2 DEF HookInv, TypeOK, CurrentOK, Rows, Runs
<1>5. ASSUME NEW f \in Deliveries PROVE RunOK(f)'
  <2>1. CASE f # d
    BY <1>1, <1>2, <1>3, <2>1, OthersKept
  <2> QED
    BY <2>1
<1>6. ASSUME NEW k \in Keys PROVE RecordOK(k)'
  <2>1. CASE record'[k] = record[k]
    BY <1>1, <2>1, RecordKept
  <2>2. CASE record'[k] # record[k]
    <3>1. k = Key(d) /\ record'[k].state = "claimed"
      BY <2>2
    <3>2. Covered(k)'
      BY <1>1, <1>2, <3>1 DEF RunOK, Covered, Key, Grows
    <3> QED
      BY <3>1, <3>2 DEF RecordOK
  <2> QED
    BY <2>1, <2>2
<1>7. SkippedOnlyIfReflected' /\ DuplicateIsCovered'
  BY <1>1, SkippedKept, DuplicatesKept
<1> QED
  BY <1>4, <1>5, <1>6, <1>7 DEF HookInv

(* A run ends, with an outcome the outbox may still wait for: what counts  *)
(* as processed is saved or slipped, and a record goes or is done only if  *)
(* it is the claim of the run.                                             *)
LEMMA StepEnds ==
  ASSUME HookInv, NEW d \in Deliveries, Live(d),
         NEW outcome \in {"processed", "permanent", "retry"}, End(d, outcome),
         UNCHANGED <<recent, saved, active, ticks>>,
         slipped \subseteq slipped', slipped' \subseteq Events,
         outcome = "processed" => saved[Key(d)] # {} \/ run[d].event \in slipped',
         \/ record' = record
         \/ ~run[d].reflected /\ record' = [record EXCEPT ![Key(d)] = IF Holds(d) THEN NoRecord ELSE @]
         \/ saved[Key(d)] # {} /\ Completes(d)
  PROVE  HookInv'
<1>1. Settle(d, outcome) /\ run' = [run EXCEPT ![d].phase = "ended"]
  BY DEF End
<1>2. /\ status' \in [Events -> Statuses]
      /\ attempts' = attempts
      /\ current' \in [Events -> Deliveries \union {NoDelivery}]
      /\ \A e \in Events :
           /\ current'[e] # NoDelivery =>
                current'[e] = current[e] /\ current[e] # d /\ status'[e] = status[e]
           /\ status[e] \in Enqueued => status'[e] \in Enqueued
           /\ status'[e] = "duplicate" => status[e] = "duplicate"
           /\ status'[e] = "processed" =>
                status[e] = "processed" \/ (outcome = "processed" /\ e = run[d].event)
  <2>1. TypeOK
    BY DEF HookInv
  <2> QED
    BY <1>1, <2>1, SettleEffect
<1>3. Grows
  BY <1>2 DEF Grows
<1>4. run[d].event \in Events /\ Key(d) \in Keys /\ ~At(d, "unused") /\ RunOK(d)
  BY KeyType DEF HookInv, Live, At
<1>5. /\ run' \in [Deliveries -> Runs]
      /\ run'[d].event = run[d].event /\ run'[d].phase = "ended"
      /\ run'[d].reflected = run[d].reflected /\ run'[d].age = run[d].age
      /\ \A f \in Deliveries \ {d} : run'[f] = run[f]
  BY <1>1 DEF HookInv, TypeOK, Runs, Phases
<1>6. NoRecord \in Rows /\ NoRecord.state = "none"
  BY TimesAssumption DEF NoRecord, Rows
<1>7. record \in [Keys -> Rows]
  BY DEF HookInv, TypeOK, Rows
<1>8. /\ record' \in [Keys -> Rows]
      /\ \A k \in Keys \ {Key(d)} : record'[k] = record[k]
      /\ record'[Key(d)] # record[Key(d)] =>
           /\ Holds(d)
           /\ \/ ~run[d].reflected /\ record'[Key(d)] = NoRecord
              \/ /\ saved[Key(d)] # {} /\ record'[Key(d)].state = "done"
                 /\ record'[Key(d)].token = record[Key(d)].token
                 /\ record'[Key(d)].age = record[Key(d)].age
  <2>1. CASE record' = record
    BY <1>7, <2>1
  <2>2. CASE ~run[d].reflected /\ record' = [record EXCEPT ![Key(d)] = IF Holds(d) THEN NoRecord ELSE @]
    BY <1>4, <1>6, <1>7, <2>2
  <2>3. CASE saved[Key(d)] # {} /\ Completes(d)
    <3>1. record' = [record EXCEPT ![Key(d)].state = IF Holds(d) THEN "done" ELSE @]
      BY <2>3 DEF Completes
    <3>2. CASE Holds(d)
      <4>1. record' = [record EXCEPT ![Key(d)].state = "done"]
        BY <3>1, <3>2
      <4> QED
        BY <1>4, <1>7, <2>3, <3>2, <4>1 DEF Rows
    <3>3. CASE ~Holds(d)
      BY <1>4, <1>7, <3>1, <3>3 DEF Rows
    <3> QED
      BY <3>2, <3>3
  <2> QED
    BY <2>1, <2>2, <2>3
<1>9. TypeOK'
  <2>1. \A f \in Deliveries : At(f, "unused")' \/ run'[f].event \in Events
    BY <1>4, <1>5 DEF HookInv, TypeOK, At
  <2>2. ASSUME NEW e \in Events PROVE CurrentOK(e)'
    <3>1. CurrentOK(e) /\ current[e] \in Deliveries \union {NoDelivery}
      BY DEF HookInv, TypeOK, CurrentOK
    <3> QED
      BY <1>2, <1>5, <3>1 DEF CurrentOK, Live
  <2> QED
    BY <1>2, <1>5, <1>8, <2>1, <2>2 DEF HookInv, TypeOK, CurrentOK, Rows, Runs
<1>10. ASSUME NEW f \in Deliveries PROVE RunOK(f)'
  <2>1. CASE f # d
    <3>1. record'[Key(d)] # record[Key(d)] => record[Key(d)].token = d
      BY <1>8 DEF Holds
    <3> QED
      BY <1>3, <1>4, <1>5, <1>8, <2>1, <3>1, OthersKept
  <2>2. CASE f = d
    <3>1. Key(d)' = Key(d) /\ ~Claiming(d)' /\ ~At(d, "complete")'
      BY <1>5 DEF Key, Claiming, At
    <3>2. status'[run[d].event] \in Enqueued
      BY <1>3, <1>4 DEF RunOK, Grows
    <3>3. run[d].reflected /\ run[d].age <= Stale => Stands(d)'
      <4> SUFFICES ASSUME run[d].reflected, run[d].age <= Stale PROVE Stands(d)'
        OBVIOUS
      <4>1. Stands(d)
        BY <1>4 DEF RunOK
      <4> QED
        BY <1>4, <1>5, <1>8, <3>1, <4>1 DEF Stands
    <3> QED
      BY <1>5, <2>2, <3>1, <3>2, <3>3 DEF RunOK
  <2> QED
    BY <2>1, <2>2
<1>11. ASSUME NEW k \in Keys PROVE RecordOK(k)'
  <2>1. CASE record'[k] = record[k]
    BY <1>3, <2>1, RecordKept
  <2>2. CASE record'[k] # record[k]
    <3>1. k = Key(d) /\ Holds(d) /\ NoRecord' = NoRecord
      BY <1>8, <2>2 DEF NoRecord
    <3>2. Covered(k)'
      BY <1>3, <1>6, <3>1, CoveredStays DEF HookInv, RecordOK, Holds
    <3> QED
      BY <1>6, <1>8, <2>2, <3>1, <3>2 DEF RecordOK
  <2> QED
    BY <2>1, <2>2
<1>12. SkippedOnlyIfReflected' /\ DuplicateIsCovered'
  <2>1. \A e \in Events : status'[e] = "processed" /\ e \notin slipped' =>
          status[e] = "processed" \/ saved[KeyOf[e]] # {}
    BY <1>2 DEF Key
  <2> QED
    BY <1>2, <1>3, <2>1, SkippedKept, DuplicatesKept
<1> QED
  BY <1>9, <1>10, <1>11, <1>12 DEF HookInv

(* A step of the handler is one of the two.                                *)
LEMMA StepHandler ==
  ASSUME HookInv, NEW d \in Deliveries, Handler(d)
  PROVE  HookInv'
<1>1. run[d] \in Runs /\ record \in [Keys -> Rows] /\ saved \in [Keys -> SUBSET Events]
  BY DEF HookInv, TypeOK, Runs, Rows
<1>2. Live(d) /\ run[d].event \in Events /\ Key(d) \in Keys /\ RunOK(d)
  <2>1. ~At(d, "unused") /\ Live(d)
    BY DEF Handler, Validate, InsertClaim, Lookup, StartReflect, ReflectSucceeds,
           ReflectFails, Complete, Release, At, Live
  <2> QED
    BY <2>1, KeyType DEF HookInv
<1>3. CASE Validate(d)
  <2>1. UNCHANGED <<recent, record, saved, active, slipped, ticks>>
    BY <1>3 DEF Validate
  <2>2. CASE At(d, "validate") /\ run' = [run EXCEPT ![d].phase = "claim"] /\ UNCHANGED outboxVars
    <3>1. PICK r \in Runs : /\ run' = [run EXCEPT ![d] = r] /\ r.event = run[d].event
                            /\ r.phase = "claim" /\ r.reflected = run[d].reflected
      <4> DEFINE r == [run[d] EXCEPT !.phase = "claim"]
      <4>1. r \in Runs /\ r.event = run[d].event /\ r.phase = "claim"
            /\ r.reflected = run[d].reflected /\ run' = [run EXCEPT ![d] = r]
        BY <1>1, <2>2 DEF Runs, Phases
      <4> QED
        BY <4>1
    <3>2. run'[d] = r
      BY <3>1 DEF HookInv, TypeOK
    <3>3. RunOK(d)'
      BY <1>2, <2>1, <2>2, <3>1, <3>2 DEF RunOK, At, Claiming, outboxVars
    <3> QED
      BY <1>1, <1>2, <2>1, <2>2, <3>1, <3>3, StepGoesOn DEF outboxVars
  <2>3. CASE End(d, "permanent")
    BY <1>2, <2>1, <2>3, StepEnds DEF HookInv, TypeOK
  <2>4. CASE End(d, "retry")
    BY <1>2, <2>1, <2>4, StepEnds DEF HookInv, TypeOK
  <2> QED
    BY <1>3, <2>2, <2>3, <2>4 DEF Validate
<1>4. CASE InsertClaim(d)
  <2>1. At(d, "claim") /\ UNCHANGED <<recent, saved, active, slipped, ticks>>
    BY <1>4 DEF InsertClaim
  <2>2. CASE /\ Claimable(Key(d))
             /\ record' = [record EXCEPT ![Key(d)] = [state |-> "claimed", token |-> d, age |-> 0]]
             /\ run' = [run EXCEPT ![d].phase = "claimed", ![d].age = 0]
             /\ UNCHANGED outboxVars
    <3>1. PICK r \in Runs : /\ run' = [run EXCEPT ![d] = r] /\ r.event = run[d].event
                            /\ r.phase = "claimed" /\ r.reflected = run[d].reflected /\ r.age = 0
      <4> DEFINE r == [run[d] EXCEPT !.phase = "claimed", !.age = 0]
      <4>1. /\ r \in Runs /\ r.event = run[d].event /\ r.phase = "claimed" /\ r.age = 0
            /\ r.reflected = run[d].reflected
        <5>1. 0 \in 0..(Stale + 1)
          BY TimesAssumption
        <5> QED
          BY <1>1, <5>1 DEF Runs, Phases
      <4>2. run' = [run EXCEPT ![d] = r]
        BY <2>2, Zenon
      <4> QED
        BY <4>1, <4>2
    <3>2. run'[d] = r /\ Key(d)' = Key(d)
      BY <3>1 DEF HookInv, TypeOK, Key
    <3>3. /\ record' \in [Keys -> Rows]
          /\ \A k \in Keys \ {Key(d)} : record'[k] = record[k]
          /\ record'[Key(d)].state = "claimed" /\ record'[Key(d)].token = d
          /\ record'[Key(d)].age = 0
      BY <1>1, <1>2, <2>2, TimesAssumption DEF Rows
    <3>4. RunOK(d)'
      <4>1. Stands(d)'
        BY <3>1, <3>2, <3>3 DEF Stands
      <4>2. run'[d].reflected = FALSE /\ ~At(d, "complete")'
        BY <1>2, <2>1, <3>1, <3>2 DEF RunOK, At, Runs
      <4>3. status'[run'[d].event] \in Enqueued
        BY <1>2, <2>1, <2>2, <3>1, <3>2 DEF RunOK, At, outboxVars
      <4> QED
        BY <4>1, <4>2, <4>3 DEF RunOK
    <3> QED
      BY <1>1, <1>2, <2>1, <2>2, <3>1, <3>3, <3>4, StepGoesOn DEF outboxVars
  <2>3. CASE run' = [run EXCEPT ![d].phase = "lookup"] /\ UNCHANGED <<record, outboxVars>>
    <3>1. PICK r \in Runs : /\ run' = [run EXCEPT ![d] = r] /\ r.event = run[d].event
                            /\ r.phase = "lookup" /\ r.reflected = run[d].reflected
      <4> DEFINE r == [run[d] EXCEPT !.phase = "lookup"]
      <4>1. /\ r \in Runs /\ r.event = run[d].event /\ r.phase = "lookup"
            /\ r.reflected = run[d].reflected /\ run' = [run EXCEPT ![d] = r]
        BY <1>1, <2>3 DEF Runs, Phases
      <4> QED
        BY <4>1
    <3>2. run'[d] = r
      BY <3>1 DEF HookInv, TypeOK
    <3>3. RunOK(d)'
      BY <1>2, <2>1, <2>3, <3>1, <3>2 DEF RunOK, At, Claiming, outboxVars
    <3> QED
      BY <1>1, <1>2, <2>1, <2>3, <3>1, <3>3, StepGoesOn DEF outboxVars
  <2>4. CASE End(d, "retry") /\ UNCHANGED record
    BY <1>2, <2>1, <2>4, StepEnds DEF HookInv, TypeOK
  <2> QED
    BY <1>4, <2>2, <2>3, <2>4 DEF InsertClaim
<1>5. CASE Lookup(d)
  <2>1. UNCHANGED <<recent, record, saved, active, ticks>> /\ End(d, LookupOutcome(Key(d)))
    BY <1>5 DEF Lookup
  <2>2. slipped' = slipped \union IF record[Key(d)] = NoRecord THEN {run[d].event} ELSE {}
    BY <1>5 DEF Lookup
  <2>3. slipped \subseteq slipped' /\ slipped' \subseteq Events
    BY <1>2, <2>2 DEF HookInv, TypeOK
  <2>4. LookupOutcome(Key(d)) = "processed" => saved[Key(d)] # {} \/ run[d].event \in slipped'
    <3>1. RecordOK(Key(d)) /\ record[Key(d)].state \in {"none", "claimed", "done"}
      BY <1>1, <1>2 DEF HookInv, Rows
    <3> QED
      BY <2>2, <3>1 DEF RecordOK, LookupOutcome
  <2>5. LookupOutcome(Key(d)) \in {"processed", "permanent", "retry"}
    BY DEF LookupOutcome
  <2> QED
    BY <1>2, <2>1, <2>3, <2>4, <2>5, StepEnds
<1>6. CASE StartReflect(d) \/ ReflectSucceeds(d) \/ ReflectFails(d)
  <2>1. PICK p \in {"release", "reflect", "complete"}, b \in BOOLEAN :
          /\ run' = [run EXCEPT ![d] = [run[d] EXCEPT !.phase = p, !.reflected = b]]
          /\ p = "complete" => saved'[Key(d)] # {}
          /\ b => p = "complete"
    <3>1. CASE StartReflect(d)
      <4>1. PICK p \in {"release", "reflect"} : run' = [run EXCEPT ![d].phase = p]
        BY <3>1 DEF StartReflect
      <4>2. run[d].reflected = FALSE
        BY <1>1, <1>2, <3>1 DEF StartReflect, RunOK, At, Runs
      <4>3. run' = [run EXCEPT ![d] = [run[d] EXCEPT !.phase = p, !.reflected = FALSE]]
        BY <1>1, <4>1, <4>2 DEF Runs
      <4> QED
        BY <4>1, <4>3
    <3>2. CASE ReflectSucceeds(d)
      <4>1. run' = [run EXCEPT ![d] = [run[d] EXCEPT !.phase = "complete", !.reflected = TRUE]]
        BY <3>2 DEF ReflectSucceeds
      <4>2. saved'[Key(d)] # {}
        BY <1>1, <1>2, <3>2 DEF ReflectSucceeds
      <4> QED
        BY <4>1, <4>2
    <3>3. CASE ReflectFails(d)
      <4>1. run' = [run EXCEPT ![d].phase = "release"]
        BY <3>3 DEF ReflectFails
      <4>2. run[d].reflected = FALSE
        BY <1>1, <1>2, <3>3 DEF ReflectFails, RunOK, At, Runs
      <4>3. run' = [run EXCEPT ![d] = [run[d] EXCEPT !.phase = "release", !.reflected = FALSE]]
        BY <1>1, <4>1, <4>2 DEF Runs
      <4> QED
        BY <4>3
    <3> QED
      BY <1>6, <3>1, <3>2, <3>3
  <2>2. /\ UNCHANGED <<status, attempts, current, recent, record, active, slipped, ticks>>
        /\ saved' \in [Keys -> SUBSET Events] /\ \A k \in Keys : saved[k] \subseteq saved'[k]
        /\ Claiming(d)
    <3>1. /\ UNCHANGED <<status, attempts, current, recent, record, active, slipped, ticks>>
          /\ Claiming(d)
          /\ saved' = saved \/ saved' = [saved EXCEPT ![Key(d)] = @ \union {run[d].event}]
      BY <1>6 DEF StartReflect, ReflectSucceeds, ReflectFails, outboxVars, At, Claiming
    <3> QED
      BY <1>1, <1>2, <3>1
  <2>3. PICK r \in Runs : /\ run' = [run EXCEPT ![d] = r] /\ r.event = run[d].event
                          /\ r.phase = p /\ r.reflected = b /\ r.age = run[d].age
    <3> DEFINE r == [run[d] EXCEPT !.phase = p, !.reflected = b]
    <3>1. /\ r \in Runs /\ r.event = run[d].event /\ r.phase = p /\ r.reflected = b
          /\ r.age = run[d].age /\ run' = [run EXCEPT ![d] = r]
      BY <1>1, <2>1 DEF Runs, Phases
    <3> QED
      BY <3>1
  <2>4. run'[d] = r /\ Key(d)' = Key(d)
    BY <2>3 DEF HookInv, TypeOK, Key
  <2>5. RunOK(d)'
    <3>1. run[d].age <= Stale => Stands(d)'
      BY <1>2, <2>2, <2>3, <2>4 DEF RunOK, Stands, Claiming
    <3>2. At(d, "complete")' => saved'[Key(d)] # {}
      BY <2>1, <2>3, <2>4 DEF At
    <3>3. status'[run'[d].event] \in Enqueued
      BY <1>2, <2>2, <2>3, <2>4 DEF RunOK, At, Claiming
    <3> QED
      BY <2>1, <2>3, <2>4, <3>1, <3>2, <3>3 DEF RunOK
  <2> QED
    BY <1>1, <1>2, <2>1, <2>2, <2>3, <2>5, StepGoesOn
<1>7. CASE Complete(d)
  <2>1. UNCHANGED <<recent, saved, active, slipped, ticks>> /\ saved[Key(d)] # {}
    BY <1>2, <1>7 DEF Complete, RunOK
  <2>2. \/ Completes(d) /\ End(d, "processed")
        \/ UNCHANGED record /\ End(d, "retry")
    BY <1>7 DEF Complete
  <2> QED
    BY <1>2, <2>1, <2>2, StepEnds DEF HookInv, TypeOK
<1>8. CASE Release(d)
  <2>1. /\ UNCHANGED <<recent, saved, active, slipped, ticks>> /\ End(d, "retry")
        /\ \/ record' = [record EXCEPT ![Key(d)] = IF Holds(d) THEN NoRecord ELSE @]
           \/ UNCHANGED record
    BY <1>8 DEF Release
  <2>2. ~run[d].reflected
    BY <1>2, <1>8 DEF Release, RunOK, At
  <2> QED
    BY <1>2, <2>1, <2>2, StepEnds DEF HookInv, TypeOK
<1> QED
  BY <1>3, <1>4, <1>5, <1>6, <1>7, <1>8 DEF Handler

(* The outbox gives up on a delivery: its run goes on.                     *)
LEMMA StepTimeOut ==
  ASSUME HookInv, NEW d \in Deliveries, TimeOut(d)
  PROVE  HookInv'
<1>1. /\ Live(d) /\ Settle(d, "retry") /\ run' = [run EXCEPT ![d].timedOut = TRUE]
      /\ current[run[d].event] = d
      /\ UNCHANGED <<recent, record, saved, active, slipped, ticks>>
  BY DEF TimeOut
<1>2. /\ status' \in [Events -> Statuses]
      /\ attempts' = attempts
      /\ current' \in [Events -> Deliveries \union {NoDelivery}]
      /\ \A e \in Events :
           /\ current'[e] # NoDelivery =>
                current'[e] = current[e] /\ current[e] # d /\ status'[e] = status[e]
           /\ status[e] \in Enqueued => status'[e] \in Enqueued
           /\ status'[e] = "duplicate" => status[e] = "duplicate"
           /\ status'[e] = "processed" => status[e] = "processed"
  <2>1. TypeOK
    BY DEF HookInv
  <2> QED
    BY <1>1, <2>1, SettleEffect
<1>3. Grows
  BY <1>1, <1>2 DEF Grows
<1>4. /\ run' \in [Deliveries -> Runs]
      /\ run'[d].event = run[d].event /\ run'[d].phase = run[d].phase
      /\ run'[d].reflected = run[d].reflected /\ run'[d].age = run[d].age
      /\ \A f \in Deliveries \ {d} : run'[f] = run[f]
  <2>1. run \in [Deliveries -> Runs]
    BY DEF HookInv, TypeOK, Runs
  <2> QED
    BY <1>1, <2>1 DEF Runs
<1>5. TypeOK'
  <2>1. \A f \in Deliveries : At(f, "unused")' \/ run'[f].event \in Events
    BY <1>4 DEF HookInv, TypeOK, At
  <2>2. ASSUME NEW e \in Events PROVE CurrentOK(e)'
    <3>1. CurrentOK(e) /\ current[e] \in Deliveries \union {NoDelivery}
      BY DEF HookInv, TypeOK, CurrentOK
    <3> QED
      BY <1>2, <1>4, <3>1 DEF CurrentOK, Live
  <2> QED
    BY <1>1, <1>2, <1>4, <2>1, <2>2 DEF HookInv, TypeOK, CurrentOK, Runs
<1>6. ASSUME NEW f \in Deliveries PROVE RunOK(f)'
  <2>1. CASE f # d
    BY <1>1, <1>3, <1>4, <2>1, RunKept
  <2>2. CASE f = d
    <3>1. Key(d)' = Key(d) /\ Claiming(d)' = Claiming(d)
      BY <1>4 DEF Key, Claiming
    <3>2. run[d].event \in Events /\ Key(d) \in Keys /\ RunOK(d)
      BY <1>1, KeyType DEF HookInv, Live, At
    <3>3. status'[run[d].event] \in Enqueued
      BY <1>1, <1>3, <3>2 DEF RunOK, Grows, Live, At
    <3>4. Stands(d)' = Stands(d)
      BY <1>1, <1>4, <3>1 DEF Stands
    <3> QED
      BY <1>1, <1>4, <2>2, <3>1, <3>2, <3>3, <3>4 DEF RunOK, At
  <2> QED
    BY <2>1, <2>2
<1>7. \A k \in Keys : RecordOK(k)'
  BY <1>1, <1>3, RecordKept
<1>8. SkippedOnlyIfReflected' /\ DuplicateIsCovered'
  BY <1>1, <1>2, <1>3, SkippedKept, DuplicatesKept
<1> QED
  BY <1>5, <1>6, <1>7, <1>8 DEF HookInv

(* The process of a run dies: the record is left as it is.                 *)
LEMMA StepCrash ==
  ASSUME HookInv, NEW d \in Deliveries, Crash(d)
  PROVE  HookInv'
<1>1. /\ Live(d) /\ run' = [run EXCEPT ![d].phase = "ended"]
      /\ current' = [e \in Events |-> IF current[e] = d THEN NoDelivery ELSE current[e]]
      /\ UNCHANGED <<status, recent, attempts, record, saved, active, slipped, ticks>>
  BY DEF Crash
<1>2. Grows
  BY <1>1 DEF Grows
<1>3. /\ run' \in [Deliveries -> Runs]
      /\ run'[d].event = run[d].event /\ run'[d].phase = "ended"
      /\ run'[d].reflected = run[d].reflected /\ run'[d].age = run[d].age
      /\ \A f \in Deliveries \ {d} : run'[f] = run[f]
  <2>1. run \in [Deliveries -> Runs]
    BY DEF HookInv, TypeOK, Runs
  <2> QED
    BY <1>1, <2>1 DEF Runs, Phases
<1>4. TypeOK'
  <2>1. \A f \in Deliveries : At(f, "unused")' \/ run'[f].event \in Events
    BY <1>1, <1>3 DEF HookInv, TypeOK, At, Live
  <2>2. ASSUME NEW e \in Events PROVE CurrentOK(e)'
    <3>1. CurrentOK(e) /\ current[e] \in Deliveries \union {NoDelivery}
      BY DEF HookInv, TypeOK, CurrentOK
    <3> QED
      BY <1>1, <1>3, <3>1 DEF CurrentOK, Live
  <2>3. current' \in [Events -> Deliveries \union {NoDelivery}]
    BY <1>1 DEF HookInv, TypeOK
  <2> QED
    BY <1>1, <1>3, <2>1, <2>2, <2>3 DEF HookInv, TypeOK, CurrentOK, Runs
<1>5. ASSUME NEW f \in Deliveries PROVE RunOK(f)'
  <2>1. CASE f # d
    BY <1>1, <1>2, <1>3, <2>1, RunKept
  <2>2. CASE f = d
    <3>1. Key(d)' = Key(d) /\ ~Claiming(d)' /\ ~At(d, "complete")'
      BY <1>3 DEF Key, Claiming, At
    <3>2. RunOK(d) /\ ~At(d, "unused")
      BY <1>1 DEF HookInv, Live, At
    <3>3. Stands(d) => Stands(d)'
      BY <1>1, <1>3, <3>1 DEF Stands
    <3> QED
      BY <1>1, <1>3, <2>2, <3>1, <3>2, <3>3 DEF RunOK
  <2> QED
    BY <2>1, <2>2
<1>6. \A k \in Keys : RecordOK(k)'
  BY <1>1, <1>2, RecordKept
<1>7. SkippedOnlyIfReflected' /\ DuplicateIsCovered'
  BY <1>1, <1>2, SkippedKept, DuplicatesKept
<1> QED
  BY <1>4, <1>5, <1>6, <1>7 DEF HookInv

-----------------------------------------------------------------------------
(* Every step.                                                             *)
LEMMA HookInvStep == HookInv /\ [Next]_vars => HookInv'
<1> SUFFICES ASSUME HookInv, [Next]_vars PROVE HookInv'
  OBVIOUS
<1>1. CASE UNCHANGED vars
  <2>1. Grows
    BY <1>1 DEF vars, Grows
  <2>2. TypeOK'
    BY <1>1 DEF HookInv, TypeOK, vars, At, Live
  <2>3. (\A d \in Deliveries : RunOK(d)') /\ \A k \in Keys : RecordOK(k)'
    BY <1>1, <2>1, RunKept, RecordKept DEF vars
  <2>4. SkippedOnlyIfReflected' /\ DuplicateIsCovered'
    BY <1>1, <2>1, SkippedKept, DuplicatesKept DEF vars
  <2> QED
    BY <2>2, <2>3, <2>4 DEF HookInv
<1>2. CASE Next
  BY <1>2, StepRequest, StepBegin, StepHandler, StepTimeOut, StepCrash, StepForget,
     StepPurge, StepDeactivate, StepTick DEF Next
<1> QED
  BY <1>1, <1>2

(* What the runs of hook_reflect check, for every instance.                *)
LEMMA HookInvAlways == Spec => []HookInv
  BY HookInvInit, HookInvStep, PTL DEF Spec

(* The type of the variables, and that the outbox waits for a live run of  *)
(* an event that is pending (runHandler and the consumer's delivery).      *)
THEOREM HookTypes == Spec => []TypeOK
<1>1. HookInv => TypeOK
  BY DEF HookInv
<1> QED
  BY <1>1, HookInvAlways, PTL

(* The claim of a fresh run is its own (HOOK_CLAIM_STALE_MS and the token  *)
(* in claimIdempotencyKey).                                                *)
THEOREM HeldWhileFreshHolds == Spec => []HeldWhileFresh
<1>1. HookInv => HeldWhileFresh
  BY DEF HookInv, RunOK, Stands, HeldWhileFresh
<1> QED
  BY <1>1, HookInvAlways, PTL

(* What ends well without a slip has a completed reflection behind it      *)
(* (createHookReflectConsumer).                                            *)
THEOREM SkippedOnlyIfReflectedHolds == Spec => []SkippedOnlyIfReflected
<1>1. HookInv => SkippedOnlyIfReflected
  BY DEF HookInv
<1> QED
  BY <1>1, HookInvAlways, PTL

(* A request answered as a duplicate is covered by another (enqueueReflect *)
(* and hookAdmissionState).                                                *)
THEOREM DuplicateIsCoveredHolds == Spec => []DuplicateIsCovered
<1>1. HookInv => DuplicateIsCovered
  BY DEF HookInv
<1> QED
  BY <1>1, HookInvAlways, PTL

(* A record of a completed reflection changes only by the purge of what    *)
(* expired: neither a claim nor a late release touches it                  *)
(* (claimIdempotencyKey and releaseIdempotencyClaim).                      *)
THEOREM DoneStaysHolds == Spec => DoneStays
<1> DEFINE Done == \A k \in Keys : record[k].state = "done" /\ ~Expired(k) => record'[k].state = "done"
<1>1. HookInv /\ [Next]_vars => [Done]_vars
  <2> SUFFICES ASSUME HookInv, Next, NEW k \in Keys, record[k].state = "done", ~Expired(k)
               PROVE  record'[k].state = "done"
    OBVIOUS
  <2>1. record \in [Keys -> Rows] /\ NoRecord.state = "none"
    BY DEF HookInv, TypeOK, Rows, NoRecord
  <2>2. ~Claimable(k)
    BY DEF Claimable, NoRecord
  <2>3. CASE record' = record
    BY <2>3
  <2>4. ASSUME NEW d \in Deliveries, record' = [record EXCEPT ![Key(d)] = IF Holds(d) THEN NoRecord ELSE @]
        PROVE  record'[k].state = "done"
    <3>1. CASE k = Key(d)
      BY <2>1, <2>4, <3>1 DEF Holds
    <3>2. CASE k # Key(d)
      BY <2>1, <2>4, <3>2
    <3> QED
      BY <3>1, <3>2
  <2>5. ASSUME NEW d \in Deliveries, Completes(d)
        PROVE  record'[k].state = "done"
    <3>1. CASE k = Key(d)
      BY <2>1, <2>5, <3>1 DEF Holds, Completes, Rows
    <3>2. CASE k # Key(d)
      BY <2>1, <2>5, <3>2 DEF Completes, Rows
    <3> QED
      BY <3>1, <3>2
  <2>6. ASSUME NEW d \in Deliveries, InsertClaim(d) PROVE record'[k].state = "done"
    <3>1. \/ record' = record
          \/ /\ Claimable(Key(d))
             /\ record' = [record EXCEPT ![Key(d)] = [state |-> "claimed", token |-> d, age |-> 0]]
      BY <2>6 DEF InsertClaim
    <3> QED
      BY <2>1, <2>2, <2>3, <3>1
  <2>7. CASE Purge
    BY <2>7 DEF Purge
  <2>8. CASE Tick
    <3>1. record[k] # NoRecord
      BY <2>1
    <3> QED
      BY <2>1, <2>8, <3>1 DEF Tick, Rows
  <2>9. ASSUME NEW d \in Deliveries, Handler(d) PROVE record'[k].state = "done"
    <3>1. \/ record' = record \/ InsertClaim(d) \/ Completes(d)
          \/ record' = [record EXCEPT ![Key(d)] = IF Holds(d) THEN NoRecord ELSE @]
      BY <2>9 DEF Handler, Validate, Lookup, StartReflect, ReflectSucceeds, ReflectFails,
                  Complete, Release
    <3> QED
      BY <2>3, <2>4, <2>5, <2>6, <3>1
  <2>10. record' = record \/ Purge \/ Tick \/ \E d \in Deliveries : Handler(d)
    BY DEF Next, Request, Admit, EnqueueReflect, Begin, TimeOut, Crash, ForgetRecent, Deactivate
  <2> QED
    BY <2>3, <2>7, <2>8, <2>9, <2>10
<1> QED
  BY <1>1, HookInvAlways, PTL DEF DoneStays, Spec

(* A key is reflected twice only if one of the two runs is past the        *)
(* takeover time: two fresh ones would both stand in the one record.       *)
THEOREM AgainOnlyWhenStaleHolds == Spec => AgainOnlyWhenStale
<1> DEFINE Again == \A d, f \in Deliveries :
       /\ run'[d].reflected /\ ~run[d].reflected
       /\ run[f].reflected /\ Key(d) = Key(f)
       => run[d].age > Stale \/ run[f].age > Stale
<1>1. HookInv /\ [Next]_vars => [Again]_vars
  <2> SUFFICES ASSUME HookInv, Next, NEW d \in Deliveries, NEW f \in Deliveries,
                      run'[d].reflected, ~run[d].reflected, run[f].reflected, Key(d) = Key(f),
                      ~(run[d].age > Stale), ~(run[f].age > Stale)
               PROVE  FALSE
    OBVIOUS
  <2>1. run \in [Deliveries -> Runs] /\ RunOK(d) /\ RunOK(f)
    BY DEF HookInv, TypeOK, Runs
  <2>2. run[d].age <= Stale /\ run[f].age <= Stale
    BY <2>1, TimesAssumption DEF Runs
  <2>3. Claiming(d)
    <3> SUFFICES ASSUME ~Claiming(d) PROVE FALSE
      OBVIOUS
    <3>1. ASSUME NEW g \in Deliveries, NEW p \in Phases, run' = [run EXCEPT ![g].phase = p] PROVE FALSE
      BY <2>1, <3>1 DEF Runs
    <3>2. ASSUME NEW g \in Deliveries, TimeOut(g) PROVE FALSE
      <4>1. run' = [run EXCEPT ![g].timedOut = TRUE]
        BY <3>2 DEF TimeOut
      <4> QED
        BY <2>1, <4>1 DEF Runs
    <3>3. ASSUME NEW e \in Events, NEW g \in Deliveries, Begin(e, g) PROVE FALSE
      <4>1. run' = [run EXCEPT ![g] = [Unused EXCEPT !.event = e, !.phase = "validate"]]
        BY <3>3 DEF Begin
      <4>2. [Unused EXCEPT !.event = e, !.phase = "validate"].reflected = FALSE
        BY DEF Unused
      <4> QED
        BY <2>1, <4>1, <4>2
    <3>4. ASSUME Tick PROVE FALSE
      <4>1. run'[d] = run[d] \/ run'[d] = [run[d] EXCEPT !.age = Older(@, Stale + 1)]
        BY <3>4 DEF Tick
      <4> QED
        BY <2>1, <4>1 DEF Runs
    <3>5. ASSUME NEW g \in Deliveries, ReflectSucceeds(g) PROVE FALSE
      <4>1. g # d
        BY <3>5 DEF ReflectSucceeds, At, Claiming
      <4>2. run'[d] = run[d]
        BY <2>1, <3>5, <4>1 DEF ReflectSucceeds
      <4> QED
        BY <4>2
    <3>6. ASSUME NEW g \in Deliveries, InsertClaim(g) PROVE FALSE
      <4>1. \/ run' = [run EXCEPT ![g].phase = "claimed", ![g].age = 0]
            \/ \E p \in Phases : run' = [run EXCEPT ![g].phase = p]
        BY <3>6 DEF InsertClaim, End, Phases
      <4>2. CASE run' = [run EXCEPT ![g].phase = "claimed", ![g].age = 0]
        BY <2>1, <4>2 DEF Runs
      <4> QED
        BY <3>1, <4>1, <4>2
    <3>7. ASSUME NEW g \in Deliveries, Handler(g) \/ Crash(g), ~ReflectSucceeds(g), ~InsertClaim(g)
          PROVE  FALSE
      <4>1. \E p \in Phases : run' = [run EXCEPT ![g].phase = p]
        BY <3>7 DEF Handler, Crash, Validate, Lookup, StartReflect, ReflectFails,
                    Complete, Release, End, Phases
      <4> QED
        BY <3>1, <4>1
    <3>8. run' # run
      OBVIOUS
    <3> QED
      BY <3>2, <3>3, <3>4, <3>5, <3>6, <3>7, <3>8
      DEF Next, Request, Admit, EnqueueReflect, ForgetRecent, Purge, Deactivate
  <2>4. Stands(d) /\ Stands(f)
    BY <2>1, <2>2, <2>3 DEF RunOK
  <2>5. d = f
    BY <2>4 DEF Stands
  <2> QED
    BY <2>5
<1> QED
  BY <1>1, HookInvAlways, PTL DEF AgainOnlyWhenStale, Spec
=============================================================================
