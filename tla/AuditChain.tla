----------------------------- MODULE AuditChain -----------------------------
(***************************************************************************)
(* The audit table: one hash chain of rows that the audit outbox consumers *)
(* append to (lib/logging/AuditStore.js), that retention shortens from the *)
(* front, and that verification reads again with several statements while  *)
(* both go on.                                                             *)
(*                                                                         *)
(* Appending and cleaning each run in one transaction that first takes the *)
(* table in SHARE ROW EXCLUSIVE mode (lockChain), so each is one step      *)
(* here; the SELECTs of a verification conflict with neither, so every     *)
(* statement of it is a step of its own.  A hash is taken to be free of    *)
(* collisions: the hash of a row is the sequence of the hashed values of   *)
(* the rows up to it.                                                      *)
(***************************************************************************)
EXTENDS Integers, FiniteSets, Sequences

CONSTANTS
  Events,       \* audit events, named by their outbox idempotency key
  Unreadable,   \* the events whose payload the consumer cannot read
  Retention,    \* age beyond which a row may be pruned
  PruneChunk,   \* AUDIT_RETENTION_CHUNK: rows of one cleanup
  MaxPerRun,    \* AUDIT_RETENTION_MAX_PER_RUN: rows of one retention run
  Chunk,        \* AUDIT_SCAN_CHUNK: rows of one statement of a verification
  RowLimits,    \* the maxRows a verification may be asked for
  Skew,         \* how far the clock of a process may be from the database's
  MaxSeq, MaxTime, MaxEdits, MaxLost   \* bounds of the model

ASSUME SizesAssumption ==
  /\ Unreadable \subseteq Events
  /\ Retention \in Nat
  /\ {PruneChunk, MaxPerRun, Chunk} \subseteq Nat \ {0}
  /\ RowLimits \subseteq Nat \ {0}
  /\ {Skew, MaxSeq, MaxTime, MaxEdits, MaxLost} \subseteq Nat

VARIABLES
  table,      \* admin_audit_events: the committed rows, by seq
  outbox,     \* what the outbox has done with each event
  now,        \* the clock of the database
  run,        \* rows deleted by the retention run under way, or Idle
  verifier,   \* the verification under way
  edits,      \* rows changed or removed behind the program's back
  lost        \* appends whose success the outbox has not learned

vars == <<table, outbox, now, run, verifier, edits, lost>>

Idle    == -1
Genesis == <<>>

\* The detail of a row: a checkpoint names a boundary, no other row does.
Plain  == [seq |-> 0, hash |-> Genesis]
Forged == <<[seq |-> 0, source |-> <<"forged", 0>>, at |-> 0, detail |-> Plain]>>

Reasons == {"seq_gap", "prev_hash_mismatch", "row_hash_mismatch", "prefix_mismatch"}

MinOf(a, b) == IF a <= b THEN a ELSE b
MaxOf(a, b) == IF a >= b THEN a ELSE b

LastSeq(t)  == IF DOMAIN t = {} THEN 0
               ELSE CHOOSE n \in DOMAIN t : \A m \in DOMAIN t : m <= n
FirstSeq(t) == IF DOMAIN t = {} THEN 0
               ELSE CHOOSE n \in DOMAIN t : \A m \in DOMAIN t : n <= m

\* The hash of the last row.
HeadHash(t) == IF DOMAIN t = {} THEN Genesis ELSE t[LastSeq(t)].hash

-----------------------------------------------------------------------------
\* Recording

RowHash(prev, content) == Append(prev, content)

\* mutant: the recording clock is taken as it is
BugNextAt(t, clock) == clock

\* nextRecordedAt: recorded_at never goes back along the chain.
NextAt(t, clock) ==
  IF DOMAIN t = {} THEN clock ELSE MaxOf(clock, t[LastSeq(t)].content.at)

\* mutant: a redelivered event is recorded again
BugRecorded(t, source) == FALSE

Recorded(t, source) == \E n \in DOMAIN t : t[n].content.source = source

NewRow(t, source, detail, clock) ==
  LET content == [seq |-> LastSeq(t) + 1, source |-> source,
                  at |-> NextAt(t, clock), detail |-> detail]
  IN  [content |-> content, prev |-> HeadHash(t), hash |-> RowHash(HeadHash(t), content)]

\* _appendLocked: a source already in the table leaves the table as it is.
AppendLocked(t, source, detail, clock) ==
  IF Recorded(t, source) THEN t
  ELSE [n \in DOMAIN t \union {LastSeq(t) + 1} |->
          IF n \in DOMAIN t THEN t[n] ELSE NewRow(t, source, detail, clock)]

Without(t, seqs) == [n \in DOMAIN t \ seqs |-> t[n]]

Clocks == {c \in (now - Skew)..(now + Skew) : c >= 0}

\* The handler of audit.record.  The outbox may fail to note its success and
\* deliver the event again.
Deliver(e) ==
  /\ outbox[e] = "pending" /\ e \notin Unreadable
  /\ LastSeq(table) < MaxSeq
  /\ \E clock \in Clocks : table' = AppendLocked(table, e, Plain, clock)
  /\ \/ outbox' = [outbox EXCEPT ![e] = "processed"] /\ UNCHANGED lost
     \/ lost < MaxLost /\ lost' = lost + 1 /\ UNCHANGED outbox
  /\ UNCHANGED <<now, run, verifier, edits>>

\* AuditEventError becomes OutboxPermanentError: the event is dead at once.
RejectUnreadable(e) ==
  /\ outbox[e] = "pending" /\ e \in Unreadable
  /\ outbox' = [outbox EXCEPT ![e] = "dead"]
  /\ UNCHANGED <<table, now, run, verifier, edits, lost>>

-----------------------------------------------------------------------------
\* Retention: runAuditRetention calls cleanup until a chunk is not full.

\* mutant: the last row is a candidate as well
BugPrunable(t) == {n \in DOMAIN t : t[n].content.at < now - Retention}

\* The rows past retention, the last row excepted.
Prunable(t) == {n \in DOMAIN t : t[n].content.at < now - Retention /\ n < LastSeq(t)}

\* The last of the first `limit` prunable rows.
Boundary(t, limit) ==
  CHOOSE n \in Prunable(t) :
    LET upTo == Cardinality({m \in Prunable(t) : m <= n})
    IN  upTo <= limit /\ (upTo = limit \/ \A m \in Prunable(t) : m <= n)

\* mutant: the checkpoint carries the hash before the boundary
BugCheckpoint(t, n) == [seq |-> n, hash |-> t[n].prev]

\* retentionCheckpoint: the boundary and the hash of the last deleted row.
Checkpoint(t, n) == [seq |-> n, hash |-> t[n].hash]

CheckpointSource(n) == <<"audit.retention", n>>

\* Outbox keys are UUIDs: none is the source of a checkpoint.
ASSUME SourceAssumption == \A e \in Events : \A n \in 1..MaxSeq : e # CheckpointSource(n)

StartRetention ==
  /\ run = Idle
  /\ run' = 0
  /\ UNCHANGED <<table, outbox, now, verifier, edits, lost>>

\* cleanup: the prefix goes and its checkpoint is appended in one transaction.
Cleanup ==
  /\ run # Idle /\ run < MaxPerRun
  /\ Prunable(table) # {}
  /\ LastSeq(table) < MaxSeq
  /\ LET limit   == MinOf(PruneChunk, MaxPerRun - run)
         cut     == Boundary(table, limit)
         gone    == {n \in DOMAIN table : n <= cut}
         deleted == Cardinality(gone)
     IN  /\ \E clock \in Clocks :
              table' = AppendLocked(Without(table, gone), CheckpointSource(cut),
                                    Checkpoint(table, cut), clock)
         /\ run' = IF deleted < limit \/ run + deleted >= MaxPerRun
                   THEN Idle ELSE run + deleted
  /\ verifier' = [verifier EXCEPT !.raced = @ \/ verifier.phase \in {"anchor", "read"}]
  /\ UNCHANGED <<outbox, now, edits, lost>>

NothingToPrune ==
  /\ run # Idle
  /\ Prunable(table) = {}
  /\ run' = Idle
  /\ UNCHANGED <<table, outbox, now, verifier, edits, lost>>

-----------------------------------------------------------------------------
\* Verification: _verificationStart, then verify's loop of chunks.

NoVerification ==
  [phase |-> "idle", from |-> 0, maxRows |-> 1, min |-> 0, prev |-> Genesis,
   expected |-> 1, seen |-> <<>>, complete |-> FALSE,
   broken |-> "none", head |-> 0, raced |-> FALSE]

\* The first statement reads min(seq); an empty table and a chain that still
\* starts at seq 1 need no second one.
VerifyBegin(from, maxRows) ==
  /\ verifier.phase = "idle"
  /\ LET first == FirstSeq(table)
         fresh == [NoVerification EXCEPT !.from = from, !.maxRows = maxRows,
                                         !.min = first, !.head = LastSeq(table)]
     IN  verifier' =
           IF first = 0 THEN [fresh EXCEPT !.phase = "done", !.complete = TRUE]
           ELSE IF from > first \/ first # 1 THEN [fresh EXCEPT !.phase = "anchor"]
           ELSE [fresh EXCEPT !.phase = "read"]
  /\ UNCHANGED <<table, outbox, now, run, edits, lost>>

Break(reason) == [verifier EXCEPT !.phase = "done", !.broken = reason]

\* Anchored at the row before fromSeq.
AnchorAtRow ==
  /\ verifier.phase = "anchor" /\ verifier.from > verifier.min
  /\ LET n == verifier.from - 1
     IN  verifier' = IF n \in DOMAIN table
                     THEN [verifier EXCEPT !.phase = "read", !.prev = table[n].hash,
                                           !.expected = n + 1]
                     ELSE Break("seq_gap")
  /\ UNCHANGED <<table, outbox, now, run, edits, lost>>

\* The checkpoints of the boundary before seq n, a seq above 1.
CheckpointsFor(n) == {m \in DOMAIN table : table[m].content.detail.seq = n - 1}

\* _checkpointHash: the latest checkpoint of the boundary before the first row
\* holds that row's prev_hash.
AnchorAtCheckpoint ==
  /\ verifier.phase = "anchor" /\ verifier.from <= verifier.min
  /\ LET n     == verifier.min
         found == CheckpointsFor(n)
         held  == table[CHOOSE m \in found : \A k \in found : k <= m].content.detail.hash
     IN  verifier' = IF n \in DOMAIN table /\ found # {} /\ held = table[n].prev
                     THEN [verifier EXCEPT !.phase = "read", !.prev = held,
                                           !.expected = n]
                     ELSE Break("prefix_mismatch")
  /\ UNCHANGED <<table, outbox, now, run, edits, lost>>

\* The seqs of the next chunk: those after the last row read, in order.
NextChunk(limit) ==
  LET rest == {n \in DOMAIN table : n >= verifier.expected}
  IN  {n \in rest : Cardinality({m \in rest : m <= n}) <= limit}

\* A row of a chunk is due at the seq that follows the rows before it, and
\* links to the row before it.  A row at its due seq has the rows before it at
\* theirs, so the row before it is in the chunk, or is the anchor.
DueSeq(n, rows) == verifier.expected + Cardinality({m \in rows : m < n})
PrevHash(n)     == IF n = verifier.expected THEN verifier.prev ELSE table[n - 1].hash

\* mutant: the stored hash is not recomputed
BugFault(n, rows) ==
  IF n # DueSeq(n, rows) THEN "seq_gap"
  ELSE IF table[n].prev # PrevHash(n) THEN "prev_hash_mismatch"
  ELSE "none"

\* verifyChainRows on one row: continuity, link, recomputed hash.
Fault(n, rows) ==
  IF n # DueSeq(n, rows) THEN "seq_gap"
  ELSE IF table[n].prev # PrevHash(n) THEN "prev_hash_mismatch"
  ELSE IF table[n].hash # RowHash(table[n].prev, table[n].content) THEN "row_hash_mismatch"
  ELSE "none"

\* The rows of a chunk before its first fault.
Intact(rows) == {n \in rows : \A m \in rows : m <= n => Fault(m, rows) = "none"}

\* The verification once it has read `count` rows more.
Past(count) ==
  LET due == verifier.expected
  IN  [verifier EXCEPT
         !.seen = @ \o [i \in 1..count |-> table[due + i - 1].content],
         !.prev = IF count = 0 THEN @ ELSE table[due + count - 1].hash,
         !.expected = due + count]

\* One statement of the loop, and the rows it returns up to the first fault.
VerifyChunk ==
  /\ verifier.phase = "read" /\ Len(verifier.seen) < verifier.maxRows
  /\ LET limit == MinOf(Chunk, verifier.maxRows - Len(verifier.seen))
         rows  == NextChunk(limit)
         good  == Intact(rows)
         first == CHOOSE n \in rows \ good : \A m \in rows \ good : n <= m
         next  == Past(Cardinality(good))
     IN  verifier' = IF good # rows
                     THEN [next EXCEPT !.phase = "done", !.broken = Fault(first, rows)]
                     ELSE IF Cardinality(rows) < limit
                     THEN [next EXCEPT !.phase = "done", !.complete = TRUE]
                     ELSE next
  /\ UNCHANGED <<table, outbox, now, run, edits, lost>>

\* maxRows reached before the end of the chain.
VerifyStops ==
  /\ verifier.phase = "read" /\ Len(verifier.seen) >= verifier.maxRows
  /\ verifier' = [verifier EXCEPT !.phase = "done"]
  /\ UNCHANGED <<table, outbox, now, run, edits, lost>>

\* The verdict has been returned.
VerifyReturns ==
  /\ verifier.phase = "done"
  /\ verifier' = NoVerification
  /\ UNCHANGED <<table, outbox, now, run, edits, lost>>

-----------------------------------------------------------------------------
\* Changes made behind the program's back, with direct SQL.

EditRow(n) ==
  /\ edits < MaxEdits
  /\ edits' = edits + 1
  /\ table' = [table EXCEPT ![n].content.detail.hash = Forged]
  /\ UNCHANGED <<outbox, now, run, verifier, lost>>

RemoveRow(n) ==
  /\ edits < MaxEdits /\ n # LastSeq(table)
  /\ edits' = edits + 1
  /\ table' = Without(table, {n})
  /\ UNCHANGED <<outbox, now, run, verifier, lost>>

Tick ==
  /\ now < MaxTime
  /\ now' = now + 1
  /\ UNCHANGED <<table, outbox, run, verifier, edits, lost>>

-----------------------------------------------------------------------------
Init ==
  /\ table = <<>>
  /\ outbox = [e \in Events |-> "pending"]
  /\ now = 0 /\ run = Idle
  /\ verifier = NoVerification
  /\ edits = 0 /\ lost = 0

Consume   == \E e \in Events : Deliver(e) \/ RejectUnreadable(e)
Retain    == StartRetention \/ Cleanup \/ NothingToPrune
Verify    == \/ \E from \in 0..MaxSeq, maxRows \in RowLimits : VerifyBegin(from, maxRows)
             \/ AnchorAtRow \/ AnchorAtCheckpoint \/ VerifyChunk \/ VerifyStops
             \/ VerifyReturns
Meddle    == \E n \in DOMAIN table : EditRow(n) \/ RemoveRow(n)

Next == Consume \/ Retain \/ Verify \/ Meddle \/ Tick

Spec == Init /\ [][Next]_vars

-----------------------------------------------------------------------------
Seqs     == 1..MaxSeq
Sources  == Events \union {CheckpointSource(n) : n \in Seqs}

\* What was recorded under each seq, ever: hashes have no collisions, so the
\* hash of the last row tells, and no row is hashed again once it is written.
Ledger == HeadHash(table)

ContentOK(n, c) ==
  /\ c.seq = n /\ c.source \in Sources
  /\ c.at \in 0..(MaxTime + Skew)
  /\ c.detail.seq \in 0..MaxSeq

(* Every variable has its type; a row carries the seq it is stored under.  *)
TypeOK ==
  /\ DOMAIN table \subseteq Seqs
  /\ \A n \in DOMAIN table : /\ ContentOK(n, table[n].content)
                             /\ Len(table[n].prev) = n - 1 /\ Len(table[n].hash) = n
  /\ outbox \in [Events -> {"pending", "processed", "dead"}]
  /\ now \in 0..MaxTime
  /\ run \in {Idle} \union 0..MaxPerRun
  /\ edits \in 0..MaxEdits /\ lost \in 0..MaxLost
  /\ verifier.phase \in {"idle", "anchor", "read", "done"}
  /\ verifier.broken \in Reasons \union {"none"}
  /\ verifier.min \in 0..MaxSeq /\ verifier.head \in 0..MaxSeq
  /\ verifier.from \in 0..MaxSeq /\ verifier.maxRows \in RowLimits \union {1}
  /\ verifier.expected \in 1..(MaxSeq + 1) /\ Len(verifier.seen) <= MaxSeq
  /\ verifier.complete \in BOOLEAN /\ verifier.raced \in BOOLEAN

\* The boundaries retention has recorded so far; 0 is the genesis.
Boundaries == {0} \union {Ledger[n].detail.seq : n \in DOMAIN Ledger}

(* However appends and retention alternate, the table nobody meddled with  *)
(* is one chain: consecutive, linked, in the order of recorded_at, and     *)
(* starting at seq 1 or right after a boundary whose hash a checkpoint     *)
(* still in the table holds (AuditStore._appendLocked and cleanup).        *)
ChainHolds ==
  edits = 0 /\ DOMAIN table # {} =>
    LET first == FirstSeq(table)
        last  == LastSeq(table)
    IN  /\ DOMAIN table = first..last
        /\ \A n \in (first + 1)..last :
              /\ table[n].prev = table[n - 1].hash
              /\ table[n - 1].content.at <= table[n].content.at
        /\ first = 1 => table[1].prev = Genesis
        /\ first > 1 => \E n \in DOMAIN table :
              table[n].content.detail = [seq |-> first - 1, hash |-> table[first].prev]

(* An event the outbox calls processed is in the history, whatever replies *)
(* were lost on the way; and it is there twice only if retention had       *)
(* removed the first row before the second was written.                    *)
SettledIsRecordedOnce ==
  /\ \A e \in Events : outbox[e] = "processed" =>
       \E n \in DOMAIN Ledger : Ledger[n].source = e
  /\ \A n, m \in DOMAIN Ledger :
       n < m /\ Ledger[n].source = Ledger[m].source /\ edits = 0 =>
         \E k \in n..(m - 1) : k \in Boundaries

(* The head of the chain is only ever extended, by one row at a time: a    *)
(* head hash kept outside the database stays a part of every later one.    *)
(* Retention keeps the last row, so no append starts the chain over.       *)
HeadOnlyGrows ==
  [][\/ HeadHash(table') = HeadHash(table)
     \/ \E c \in {HeadHash(table')[Len(HeadHash(table'))]} :
           HeadHash(table') = Append(HeadHash(table), c)]_vars

(* Retention removes rows past retention only, although it deletes by seq  *)
(* and the clocks that stamp recorded_at disagree (nextRecordedAt).        *)
PrunesOnlyExpired ==
  [][edits' = edits => \A n \in DOMAIN table \ DOMAIN table' :
       table[n].content.at < now - Retention]_vars

(* A verdict that the chain is intact vouches for what it read: every row  *)
(* checked is as it was recorded and none is missing between them; from    *)
(* the start of the table it begins right after a recorded boundary; and a *)
(* complete one reaches the row that was last when it began (verify).      *)
IntactIsTrue ==
  LET seen == verifier.seen
  IN  verifier.phase = "done" /\ verifier.broken = "none" =>
        /\ \A i \in 1..Len(seen) : /\ seen[i].seq = seen[1].seq + i - 1
                                   /\ seen[i] = Ledger[seen[i].seq]
        /\ Len(seen) > 0 /\ verifier.from <= verifier.min => seen[1].seq - 1 \in Boundaries
        /\ Len(seen) > 0 /\ verifier.complete => seen[Len(seen)].seq >= verifier.head

\* The verification was asked to start beyond the row after the last one.
Beyond == verifier.from > verifier.head + 1

(* A verdict that the chain is broken is right when retention did not run  *)
(* while the rows were read: somebody changed or removed a row.            *)
BrokenIsRight ==
  verifier.broken # "none" /\ ~verifier.raced /\ ~Beyond => edits > 0
=============================================================================
