# AnchorMind (memento-mcp): verification project

AnchorMind is an MCP server that keeps the long-term memory of AI agents in PostgreSQL, with
Redis for queues, caches and sessions. This directory holds TLA+ models of the parts of the
server whose correctness depends on the order in which concurrent things happen, the TLC
configurations that check them on small instances, and TLAPS proofs of their type invariants and of
every safety property that the passing runs check, for all values of the constants. Paths without a
prefix are relative to the repository.

1. [The system](#1-the-system) and its parts
2. [The modules](#2-the-modules) and the code they stand for
3. [What the runs check](#3-what-the-runs-check), bounds and fairness
4. [Disagreements](#4-disagreements) between the code and what is said of it
5. [What is proved](#5-what-is-proved) and how
6. [What is not modelled](#6-what-is-not-modelled), and the plan

## 1. The system

One or more Node.js processes serve MCP sessions over HTTP. Within a process nothing runs in
parallel, but every `await` lets anything else run; across processes there is only what
PostgreSQL and Redis order. A request writes fragments in a transaction and announces what
follows from it (audit records, hook reflections, cache invalidations) either as a row of the
outbox in the same transaction, or as an item of a Redis list. Background workers, one of each
kind per process, poll the outbox and the lists. They take their database connections through a
gate, so that requests keep some.

| Component | State it keeps | Operations | What is hard | What makes it correct |
|---|---|---|---|---|
| Transactional outbox, `lib/outbox` | table `outbox_events`; per process: handlers by topic, the claimed batch, its token and lease | enqueue in a transaction, on its own, with a delay; claim, complete, fail, release; cleanup and dead-lettering; register, unregister | processes claim the same rows; leases run out; handlers hang or kill the process; replies are lost; a process stalls anywhere | at-least-once delivery; one delivery at a time under a lease; the retry limit counts every start; settled is final |
| Polling workers, `lib/memory/workers` | running and processing flags, timer, promise of the drain | start, stop, poll | stopping during a batch or a start hook | no batch begins after stop; stop returns when the batch ended |
| Audit chain, `lib/logging` | hash-chained table `admin_audit_events` | append, list, verify, retention | appends delivered twice, clocks that disagree, retention under a verification | one linked chain; only expired rows go; verdicts are right |
| Hook reflect, `lib/hooks`, `lib/handlers/hook-handler.js`, `IdempotencyStore` | recent keys of a process; idempotency records with state and token | admit; claim, complete, release | overlapping deliveries, stale claims, a claim in two statements | a key is reflected once while a claim is fresh; never skipped without a reflection |
| Asynchronous `batch_remember`, `BatchRemember*`, `lib/redis.js` | three Redis lists and a hash per job | push, move, ack, retry, dead-letter, put back at start; report a status | a process dies with a job; commands whose reply is lost; two processes on one list | no job is lost; given up only when exhausted; the status tells how it ended |
| Background connection gate, `lib/tools/pool-gate.js`, `db.js` | slots in use, queue of waiters; pools | acquire, release, deadline, close, open | nested acquisition, failed connects, shutdown with clients out | slots are neither leaked nor given twice; no lost wakeup; requests keep room |
| Shutdown and scheduler, `server.js`, `lib/scheduler.js` | timers, registered workers, requests in progress | signal, drain, close sessions, end pools | the drain deadline; a start that is still under way | nothing is cut off before its deadline, nothing starts after |
| Sessions, `lib/sessions.js` | session maps, Redis copies | create, restore, rotate, close with auto-reflect | read, await, close | a rotation leaves one successor |
| API keys, `lib/keys`, `lib/admin/ApiKey*` | rows of keys and secrets; caches per process with generations | rotate, revoke, look up, invalidate | a lookup that crosses an invalidation; lost messages | what was invalidated does not come back; without a message a state outlives its change by one recheck period |
| Quotas, `QuotaChecker`, `anchorQuota` | counts in the database, cached usage | check, judge, lock and count, insert, amend | check, judgement and write are different transactions | judged anchors and atomic inserts keep to their limits |
| Review queue, `ReviewStore`, `ReviewQueue` | review columns, decisions | hold, approve, reject, replay | decisions beside requests that take the same place | an anchor that was held is judged when it is approved |
| Language models, `lib/llm` | semaphores of a process; circuits in Redis | build the chain, wait for a slot, call, fall back, record how it went | waits that end while a slot is handed over; a circuit read, deleted and opened by separate commands | slots are conserved; a provider is skipped only for recent failures |
| Embedding workers, `lib/memory/embedding` | a Redis list; the column `embedding` | pop, read, embed a chunk or a row, sweep | crashes after the pop; rows amended while their vector is computed | a vector is that of its content; every fragment gets one |
| Resumable backfill, `resumableBackfill.js`, `scripts/backfill-content-tokens.mjs` | watermark and failures of a job; the column `content_tokens` | begin, restart, retry; prepare, update, save | two runs of a job; runs that stop; rows amended meanwhile | nothing is skipped in silence; tokens are those of their content |
| Consolidation, retention of fragments | scores, ages | collect, merge, promote | lock order | (data; see section 6) |
| Recall, ranking, links, symbolic rules, scanner | rows of the database | reads and scores | numeric | (not state machines) |
| Tools, HTTP, OAuth, console, CLI, updater, migrations | files and rows | commands | I/O | (see section 6) |

The components meet in few places. The audit log and hook reflect are consumers of the outbox: a
consumer is called by `OutboxWorker._deliver` with the event, may be called again for the same
event, and may still be running when the next call comes, because a handler that exceeds its time
limit is abandoned and not stopped. The outbox worker and the batch worker are both
`PollingWorker`s. All background database work goes through the gate. A write of a fragment touches
several parts at once: it is checked against the limits of its key, held for review, given its
tokens, and announced to the embedding worker; these parts meet only in the row of the fragment.

## 2. The modules

| Module | Models | Composed with |
|---|---|---|
| `Outbox` | the outbox and its workers | `Delivery`, its abstract specification |
| `Delivery` | what the outbox promises | |
| `AuditChain` | the audit table, retention and verification; the outbox as its contract | |
| `HookReflect` | admission and the consumer of `hook.reflect`; the outbox as its contract | |
| `BatchQueue` | the reliable queue and the job status | |
| `PoolGate` | the gate and the pool behind it | |
| `TokenBackfill` | the backfill of `content_tokens` and the write path beside it | |
| `KeyState` | the cached state of a key in several processes | |
| `Quotas` | the fragment and the anchor limit of a key; held anchors and their review | |
| `Embedding` | the queue of the embedding worker, the worker and the sweep | |
| `LlmChain` | calls of language models: chain, semaphores, circuits | |
| `MCParts` | four small parts, one of which moves in a behaviour | `TokenBackfill`, `KeyState`, `Quotas`, `Embedding` |
| `MCPoolGate` | the two that hand out slots, one of which moves in a behaviour | `PoolGate`, `LlmChain` |
| `MCOutbox`, `MCAuditChain`, `MCHookReflect`, `MCBatchQueue`, `MCTokenBackfill`, `MCQuotas` | the other instances TLC checks | |
| `OutboxProofs`, `OutboxEffects`, `OutboxLeases` | theorems about `Outbox`: its types; effects and refinement; leases and dead letters | `Delivery` |
| `AuditChainProofs`, `HookReflectProofs`, `BatchQueueProofs` | theorems about the module they are named after | |
| `SlotProofs` | theorems about `PoolGate` and `LlmChain`, which share lemmas on queues | |
| `PartProofs` | theorems about `TokenBackfill`, `Embedding`, `KeyState` and `Quotas` | |

In every model an SQL statement is one step unless a transaction makes several one; a Redis command
is one step; what a process does between two awaits is one step. History variables (marked in the
declarations) record what a property has to remember and are never read by a guard.

Every module holds, next to the definition concerned, faulty variants named `Bug...`: one plausible
mistake each (a dropped guard, a missing reset, an off-by-one). No model uses them. They show that
a property would notice the mistake, when the definition is replaced by its variant; `PROJECT.json`
says which property catches which.

### Outbox

Rows are functions of the event: `status`, `availableIn` (`available_at - now()`), `attempts`,
`claimToken`, `lastError`, `age`. A worker of a process is a small program counter, `pc`:

| `pc` | Where the code is | Actions that leave it |
|---|---|---|
| `down` | stopped, crashed or not started yet | `Start` |
| `idle` | a round is due | `Poll` |
| `sleep` | the timer between two polls | `Tick`, which makes it `idle` |
| `cleanup`, `unhandled` | `_housekeeping` | `Cleanup`, `DeadLetterUnhandled`, `HousekeepingFails` |
| `claim` | `_processBatch` before the claim | `NothingToClaim`, `SendClaim` |
| `sent` | the claim is on its way; `leaseDeadline` is already set | `Claim`, `ClaimFails` |
| `reply` | the claim is committed, its reply is not here yet | `ClaimReply`, `ClaimFails` |
| `next` | `_deliverAll` between two events | `StartNext`, `SkipUnhandled`, `StopDelivering` |
| `giveback` | `_release` of one event without a handler | `GiveBack` |
| `handle` | `runHandler`, racing its timeout | `HandlerSucceeds`, `HandlerThrows`, `HandlerTimesOut` |
| `record` | COMPLETE_SQL or FAIL_SQL under way | `Record`, `RecordReplyLost`, `QueryFails` |
| `rest` | `_releaseRest` | `ReleaseRest`, `ReleaseRestFails` |

`Stop` (PollingWorker.stop) and `Crash` can come in any phase. The phase is the code's control; the
statements are operators named after the constants of `OutboxStore.js` (`Complete`, `Fail`,
`Release`, `ClaimEffect`), each with its WHERE clause. A handler that outlives its timeout becomes a
member of `zombies`, whose effect may come at any later time (`ZombieEnds`).

Time is relative, so that the state space is finite without a last instant. One `Tick` is one poll
interval; it lowers what is left of leases, delays and time limits. A tick is free while every
process waits for something that takes time (a timer, a handler); a tick that finds a process with
something to do at once is a *stall* of that process, which is what makes leases lapse under it.
`late[w]` counts the stalls since the current delivery began.

### AuditChain

`table` maps a seq to a row: its content and the hashes it stores. A hash is the sequence of what
was hashed, which makes it collision-free and lets the model compare any two histories; the hash
of the last row is the `Ledger`, all that was ever recorded. `lockChain`
takes the table in SHARE ROW EXCLUSIVE mode, so an append (`Append`, the whole of `_appendLocked`)
and a chunk of retention with its checkpoint (`cleanup`) are one step each. A verification takes no
lock; its reads are a step each (`verifier.phase`), and each takes the rows before the first fault
(`Intact`) into what it has read (`Past`). `Skew` lets two processes stamp rows with clocks
that disagree, `lost` lets an append commit without the outbox learning of it, and `edits` are
changes made to the table behind the program's back, which verification exists to find.

### HookReflect

`Admit` and what follows it are `enqueueReflect`: the duplicate check against `recent` and the
idempotency record, then the enqueue, then the key is remembered. A delivery runs through `claim`
(the upsert of `claimIdempotency`), `lookup` (its second statement, when the upsert returned
nothing), `reflect`, `complete` or `release`. The outbox is its contract: one delivery at a time,
apart from deliveries that timed out and go on. All requests are of one API key, whose limit on
waiting events counts them whatever session they are of (`Waiting`).

### BatchQueue

Lists are sequences with LPUSH at position 1 and RPOP at the end. A job on a list is the serialised
envelope, `[job, retry, queuedAt]`; `queuedAt` tells two pushes of one job apart, which is what LREM
of the exact string depends on. Each command ends answered, failed, or done without an answer. The
code's `try` and `catch` around the processor are the actions `Process`, `ProcessTurnsAway`,
`ProcessThrows`, `Retry`, `DeadLetter`, `ReportFailure`; `safeToAck` is carried to `Ack`. A run that
ends normally need not have stored anything: `process()` catches what goes wrong with a single
fragment and returns `inserted: 0` when none is left, or when the quota of the key is used up, and the
worker reports `completed` and acknowledges as ever. That is `ProcessTurnsAway`; the history
`turnedAway` remembers such jobs. Outside these histories nothing of the outcome stays but the counts
`inserted` and `skipped` in the job's status, which the model leaves out.

### PoolGate

A lane is `working`, `queued` in the gate, `connecting` with a slot and no client yet, or `failing`
after an error. `held[l]` is the list of pools its clients came from, so that a client of a pool
that has been ended is told from one of its successor. The pool is the one of the `pg` package and
external: it lends up to `PoolSize` clients, and takes no new request once it was told to end, but
finishes a connect that is under way.

### TokenBackfill

`rows[r]` is a fragment's content and `content_tokens`. `ContentTokenDocument` is what the tokenizer
makes of a content: tokens that stand for that content and no other, or NULL for a content in
`Untokenizable`, one with an unspaced run of CJK characters that is too long (`lexicalInput`); the
statement then stores NULL, and the watermark passes the row. The write path stores a content with its tokens, or leaves the column alone (`Amended`). `run[u]`
is an invocation of the script: `clear_failures`, `clear_watermark`, `insert`, `load` are
`loadWatermark`; `prepare`, `batch`, `select`, `rows`, `record`, `save` are `runBatch` and what it
calls; `complete` is `markCompleted`; the phases named `retry` and `retry_...` are `retryBackfillFailures`. A row
of `broken` raises an error of its own, which undoes a batch and is recorded when its turn comes.

### KeyState

States of the one key are numbered in the order of their commits (`since`); `cache`,
`failureUntil` and `generation` are the maps of `key-state-cache.js` in each process. A lookup is
three steps (`Ask`, `GetKeyAuthState`, and `Answer` or `LookupFails`), with what `getCachedKeyState`
holds in local variables in `lookup[r]`. A change is committed (`ChangeKey`) before its process
drops the key and tells the others (`InvalidateKeys`); a message that is lost is one that is never
handled.

### Quotas

`live` and `anchors` are the columns `valid_to` and `is_anchor`, `held` the mark `anchor_requested`
of a fragment under review. `task[r].at` is where a request is: `check` and `recheck` are the two parts of
`QuotaChecker.check`, `gate` is `WriteGate`, `lock quota` begins `_rememberAtomic`, `lock anchors` and
`count` are `lockAndCountAnchors`, `write` is the statement and its COMMIT. `keyLock` is the row of
the key: an insert of another transaction shares it with `FOR NO KEY UPDATE` and waits for `FOR
UPDATE` (`KeyShared`). `unjudged` remembers the anchors that were set by a promotion or without a
mark. MEMENTO_ANCHOR_PERMISSION is taken to be `warn` or `enforce`, one of which `Gate` chooses.

### Embedding

Ids are in the order of importance, the order of the sweep; a text stands for its hash and for the
vector made of it. The worker and the sweep each have rows in hand (`embedder[s]`), read before the
provider is called: `popped`, `chunk` (`_embedChunk`) and `one` (`_embedOne`). The provider refuses
some texts for good, names the row at fault or not, and may fail for once.

### LlmChain

`dispatch[c]` is a call of `llmJson`: `build` while `buildChain` asks one provider after the other
(`CheckAvailable`), then `next`, `wait` and `slot` in the loop of `dispatchChain` and its semaphore.
With a slot it looks at the circuit (`look`, and `half open` when the key is to be deleted), calls,
and records the outcome command by command: `failed`, `count`, `open` are `redisRecordFailure`,
`succeeded` and `forget` are `redisRecordSuccess`. Every way out of the attempt is the `finally` that
gives the slot back (`GiveSlotBack`). A slot that is handed over does not change `active`.
Availability is left open, but for the look at the circuit, which may delete its key there too.

## 3. What the runs check

All passing runs explore their whole state space.

| Run | Instance | Properties |
|---|---|---|
| `outbox_lease` | one event, two processes, a handler that comes and goes, three tokens, three stalls, one fault | OneDelivery, LeaseOutlivesDelivery, EveryStartIsCounted, ProcessedWasApplied, OnlyCommittedIsApplied, DeadForAReason, SettledForever |
| `outbox_batch` | two events of two topics in one batch, one process, a handler that stays and one that comes and goes, one fault, fairness | ImplementsDelivery, EventuallySettled |
| `audit_chain` | three events, one of them unreadable; clocks one unit apart; retention in runs of two chunks; verifications of one row per statement; one edit, one lost reply | ChainHolds, SettledIsRecordedOnce, IntactIsTrue, BrokenIsRight, HeadOnlyGrows, PrunesOnlyExpired |
| `hook_reflect` | two requests of one key, three deliveries, three ticks (stale after one, expired after three) | HeldWhileFresh, SkippedOnlyIfReflected, DuplicateIsCovered, DoneStays, AgainOnlyWhenStale |
| `batch_queue` | one job, two processes, one death, one failed command, runs that store, turn away or throw, fairness | NothingIsLost, DeadMeansExhausted, EventuallyHandled |
| `pool_gate`, gate | three lanes that nest two acquisitions, two slots of three clients, two requests, two pools, fairness | SlotsAreHeld, RequestsKeepRoom, NobodyWaitsInVain, NobodyIsOvertaken, KnotsComeUndone |
| `pool_gate`, models | two calls, two providers with one slot each, three instants, two failures, a threshold of two | SlotsAreThoseOfCalls, SkippedForFailures |
| `parts`, backfill | two runs, a row and the place of another, batches of two, one restart or retry, one stop, one write, a row that may fail, contents that are tokenized or not, fairness | SkippedIsRecorded, StoresWhatIsThere, WatermarkGoesForward, EventuallyCompleted |
| `parts`, keys | two processes, one request at a time, one change, three instants | InvalidatedIsGone, StaleForTtl |
| `parts`, limits | two requests at a time, two fragments, a fragment limit and an anchor limit of one, promotions | JudgedAnchorsKeepTheLimit, AtomicKeepsTheLimit |
| `parts`, vectors | two fragments, a text that is refused, sweeps of two, batches of two, four writes, one failure, one crash, fairness | VectorIsOfContent, EventuallyEmbedded |
| `outbox_poison`, `hook_slip`, `batch_shared`, `token_restart`, `anchor_limit` | as small as the counterexample allows | one each, violated (section 4) |

`parts` is one run over four modules that share no variable. `part` says which of them moves; the
others stay in their initial states, so its states are those of the four instances put side by
side, and each property is checked as its module states it, under the fairness of its own module.
`pool_gate` does the same for `PoolGate` and `LlmChain`.

Every module states its type invariant. None is checked by a run: all are proved (section 5), for
every value of the constants.

What they show:

- **Outbox.** A worker that starts an event holds its row until the outcome is recorded, unless that
  very delivery stalls for the whole settle margin, however long the process stalled before
  (LeaseOutlivesDelivery); so two deliveries of an event overlap only after such a stall
  (OneDelivery). A stale worker cannot change a settled event (SettledForever), nor complete one of
  which no handler had an effect (ProcessedWasApplied). Releases take back attempts, and never one
  that was used (EveryStartIsCounted). A dead letter has one of the three documented reasons
  (DeadForAReason). Seen from outside, all of this is the module `Delivery` (ImplementsDelivery).
  Every committed event with a handler is settled in the end, also one whose worker died with it
  (EventuallySettled).
- **Audit.** Appends that are delivered again, retention in chunks and disagreeing clocks leave one
  linked chain that begins at seq 1 or right behind a boundary a checkpoint still names
  (ChainHolds). The head hash is only ever extended (HeadOnlyGrows), which is what a hash kept
  elsewhere relies on; it holds because retention spares the last row. An intact verdict vouches for
  all it read even though the table changed under it (IntactIsTrue); a broken one is right if
  retention did not run meanwhile (BrokenIsRight), and section 4 says what happens if it did.
- **Hook reflect.** A claim that is fresh is the record's (HeldWhileFresh), so a second reflection
  of a key needs a run that outlived its claim (AgainOnlyWhenStale). A completed reflection is not
  undone by a late run (DoneStays). A request refused as a duplicate has another one behind it
  (DuplicateIsCovered). An event ends without work only for a reflection that happened, except
  through the gap of section 4 (SkippedOnlyIfReflected).
- **Batch queue.** Whatever one failed or unanswered command and one death do, and although a start
  may put back a job another process works on, the job is on a list until a run of `process()` has
  stored it or found nothing to store, or it is dead (NothingIsLost), and it is dead only after all
  its runs (DeadMeansExhausted). It may be processed twice; the write path drops duplicates by content
  hash. Unless a command has failed, every accepted job is stored, turned away or buried in the end,
  also one whose process died with it (EventuallyHandled). A job that was accepted and is then turned
  away, because the quota was used up meanwhile, ends as `completed` with `inserted: 0`: that is the
  code's choice, and these properties allow it.
- **Gate.** No slot is leaked or returned twice through failed connects, expired waits, a shutdown
  and a new pool (SlotsAreHeld); a freed slot goes to somebody who still waits (NobodyWaitsInVain),
  in order (NobodyIsOvertaken); background work alone never empties the pool (RequestsKeepRoom).
  When lanes hold all slots and wait for second ones, a slot comes back: it is free, or on its way to
  the next waiter (KnotsComeUndone). It takes the deadline of a wait and then the release by the lane
  that failed.
- **Language models.** The slots in use are those of calls that use them, although waits run out
  while slots are handed over, and a call waits only while all are in use (SlotsAreThoseOfCalls). A
  provider is skipped for its circuit only if it failed as often as the threshold within the last
  window and open period, although circuits are read and written by many with separate commands and
  the list of failures is never trimmed (SkippedForFailures). The converse does not hold and the code
  does not promise it: a look that finds the period over deletes whatever is there by then, also an
  opening that is new, and a success of one call forgets the failures of others.
- **Backfill.** Tokens that are stored are those of the content beside them, although the job makes
  them outside any transaction (StoresWhatIsThere). What the watermark has passed has the
  tokens its content yields, which is none for one that is not tokenized
  (docs/operations/online-migration.md:513), or is on record, whatever runs overlap or stop
  (SkippedIsRecorded); exceptions are rows written without
  tokens, which are not the job's, and a restart that stops between its two deletions or overlaps
  another run. The watermark goes back only by a restart (WatermarkGoesForward), and the job ends
  (EventuallyCompleted).
- **Keys.** A request that begins after a key was dropped in its process never gets a state from
  before, not from the cache, not from a lookup that was under way, and not as the last answer in a
  failure window (InvalidatedIsGone). Where no message arrives, an old state is given for less than
  the recheck period after the change (StaleForTtl), because the period is counted from the start of
  a lookup and not from its answer; failing lookups are the documented exception.
- **Limits.** However many requests pass the gate together, anchors that were judged keep to the
  limit, because the write counts again under the key's lock (JudgedAnchorsKeepTheLimit); approvals
  take the same lock. An atomic remember never carries a key beyond its fragment limit, even beside
  requests that only check in advance, because their inserts wait for `FOR UPDATE`
  (AtomicKeepsTheLimit). Those requests may pass the limit, as docs/configuration.en.md:176 says.
- **Vectors.** No vector stands beside a content it was not made of (VectorIsOfContent), and a
  fragment whose id the queue lost, or that was amended, which queues nothing, gets its vector by a
  sweep (EventuallyEmbedded). The exception: the sweep takes the most important fragments without a
  vector, so as many refused ones as it takes at a time (500) keep it from all others for good.

### Bounds, and why they are enough

Data bounds are small because the code treats events, jobs, keys and lanes alike; what matters is
that two of each kind can meet. Two processes are needed for leases and tokens to matter, and a
third brings no new relation: a row is held by at most one of them, and each of the others merely
fails to hold it. Two events in a batch are the fewest of which one waits while the other runs. The
lease is the smallest the code allows, handler time limit plus margin, or one more; so one stall
more than the margin makes it lapse, and three stalls make it lapse twice. Tokens are one more than
can be in use, so that a fresh one can be drawn. Two attempts are the fewest for which "retry" and
"limit reached" differ. Times keep the order the defaults have (lease over handler limit plus
margin; stale before expired; retention above 0 or 0).

In `audit_chain` a chunk is smaller than a run and a run smaller than the table, so that retention
stops in the middle; one row per statement of a verification puts every change between any two rows.
A retention of 0 and clocks one unit apart let rows expire in another order than they were appended,
within one tick.
In the hook runs three deliveries are the fewest in which one is timed out, one is taken over and
one comes after. In `batch_queue` the retry limit is 1; a job is then pushed, retried and buried.
The gate has one client more than slots, the least config.js admits, and three lanes, so that one
holds, one waits and one comes along. Two calls and one slot let one wait while the other ends; with
an open period of one tick and a window that is a single instant, three instants hold a failure that
is too old to count, an opening and its end.

In `parts`, two overlapping runs with a batch of two rows are the fewest in which one run moves the
watermark under the other and a batch falls back to its rows. One change of a key, two processes and
one lookup let the change, both invalidations and the expiry fall anywhere in the lookup. With limits
of one every second request is one too many. With sweeps of two, a refused text and one that is not
are in one sweep, which goes on without the refused one, and two refused ones show the exception above.

Larger instances were run by hand, without an error: `batch_queue` with MaxMoves 2 (1.8 times the
states), the vectors with three fragments of which a sweep takes two and three writes, the keys with two requests at a time, and with two changes, and the backfill with two rows
and a place between them.

`MaxFaults`, `MaxStalls`, `MaxSeq`, `MaxTime`, `MaxEdits`, `MaxLost`, `MaxTicks`, `MaxDowns`,
`MaxMoves`, `MaxPools`, `MaxHeld`, `MaxWrites`, `MaxExtra`, `MaxStops`, `MaxVersion`, `MaxClock`,
`MaxGlitches`, `MaxCrashes`, `MaxNow` and `MaxFailures` bound what the code does not bound. `MaxMoves` is the number of
jobs one start puts back: the code loops until the list is empty, and another process can refill the
list while it does. Symmetry is used for processes, lanes and jobs only in runs of safety
properties, where no definition tells them apart.

Where runs switch deadlock detection off (`CHECK_DEADLOCK FALSE`), the instance may come to rest:
all jobs and events are done, a budget of the model is used up, or a pool is closed for good. The
outbox runs keep it on, since time always goes on, and so does `pool_gate`.

### Fairness

- **Outbox** (`outbox_batch`): time passes (`Tick`), a live process goes on with what its event loop
  has to do (`WorkerStep`), a process that is down is started again (`Start`: `restart:
  unless-stopped` in docs/operations/production-docker.md:70, or memento-watchdog.sh). Nothing is
  assumed of handlers: one that never ends runs into its timeout, which is a timer of the worker.
  Faults and stalls are never forced, and there are finitely many. The process that picks an event
  up again is the one that was started again; that a second one may take it instead is a matter of
  safety (`outbox_lease`).
- **Batch queue** (`batch_queue`): the same of processes (`Start`, `Work`) and of the request that
  reports its job (`Accept`). EventuallyHandled says nothing once a Redis command has failed: a job
  may then stay on the processing list until the next start, as the code says.
- **Gate**: the timer of a waiter fires (`Deadline`), and a lane that has failed gives its clients
  back (the `finally` blocks). Nothing is assumed of lanes that work.
- **Backfill** (`parts`): a run goes on with its next statement, and the operator starts the job
  again when it has stopped, which is what the script's exit code 1 and the watermark are for
  (`Begin \/ Work`). Restarts, retries and stops are never forced, and there are finitely many.
- **Vectors** (`parts`): the timer of the sweep comes round (`startBackfillSchedulers`, every five
  minutes), and a sweep in hand goes on. Nothing is assumed of the queue or its worker.

## 4. Disagreements

Five runs end in a violation, each of something a comment, a document or a test says.

| Run, property | What happens |
|---|---|
| `outbox_poison`, StopsAtTheLimit | The limit of attempts is applied when a failure is recorded, and the claim does not look at it. A handler that takes its process down records nothing, so its event is claimed again after every lease without end. OutboxWorker.js:28 says it stops at the limit. |
| `hook_slip`, EndedMeansReflected | The upsert of a claim finds the key held and returns nothing; the holder releases; the lookup finds no row, which the code takes for "completed" (IdempotencyStore.js:154). The event ends and nobody reflects. hook-reflect-consumer.js:12-14 gives the order of work. |
| `batch_shared`, StatusIsFinal | `queued` is reported after the push; a worker of a second process can have reported `completed` before, and the job stays `queued` in `batch_status` until the record expires (docs/api-reference.en.md:1040, 1075). |
| `token_restart`, RestartMakesUp | A fragment amended while the lexical channel is off keeps the tokens of its old content. The backfill looks only at rows without tokens (backfill-content-tokens.mjs:40), also with `--restart`, so it passes this one by. docs/configuration.en.md:181 says to run it with `--restart` for such rows. |
| `anchor_limit`, AnchorsKeepTheLimit | An amend asks for an anchor on a fragment it read as an anchor. That is no change to the gate (anchorPolicy.js:46-48), so it carries no mark, takes no lock and counts nothing (anchorQuota.js:129); but it writes `is_anchor = TRUE` (FragmentWriter.js:713). Between the read and the write another amend cleared the anchor and a third request took the place. docs/configuration.en.md:273 says that the count does not exceed the limit even under concurrent requests. |

In `batch_shared` a second process is needed: within one, the worker has several round trips over the
same connection between the pop and its first report, and Redis answers one connection in order,
which the model has as the guard of `Mark`.

A verification that retention overtakes may call an untouched chain broken: it reads the smallest
seq, then the last checkpoint, then rows, with no transaction around them. BrokenIsRight leaves that
case out. Jobs that a start puts back on the list of `batch_remember` go behind those that wait,
since RPOPLPUSH adds them at the end the list is filled from; the comment at redis.js:622 has it the
other way round. Neither does harm that a property of this project is about.

## 5. What is proved

Every theorem is about the specification of its module (`Spec`, `KeySpec`, `QuotaSpec`, `EmbedSpec`,
`ChainSpec`) without fairness, and holds for every value of the constants that satisfies the named
assumptions of that module, which TLC evaluates on every run:

- `Outbox`: any number of events, processes, tokens, faults and stalls, any time limits with
  `Lease >= HandlerTimeout + SettleMargin` and a margin of at least one. That assumption holds for
  `OUTBOX_WORKER_DEFAULTS` (60 s against 15 s and 5 s); the constructor takes other values without a
  check.
- `AuditChain`: an event of the outbox is not the source of a checkpoint (outbox keys are UUIDs,
  checkpoints have names of their own; SourceAssumption); sizes are positive (SizesAssumption).
- `HookReflect`: a record expires later than it can be taken over, as the defaults have it.
- The rest: numbers are natural numbers, sizes and periods are positive where zero would mean nothing,
  and values that stand for "none" are none of the values they stand beside.

| Theorem | Module | States |
|---|---|---|
| TypeCorrect | OutboxProofs | `[]TypeOK` |
| ProcessedImpliesApplied, AppliedImpliesCommitted | OutboxEffects | `[]ProcessedWasApplied`, `[]OnlyCommittedIsApplied` |
| OutboxImplementsDelivery, SettledStaysSettled | OutboxEffects | `ImplementsDelivery`, `SettledForever` |
| LeaseCoversDelivery, OneDeliveryAtATime, StartsAreCounted | OutboxLeases | `[]LeaseOutlivesDelivery`, `[]OneDelivery`, `[]EveryStartIsCounted` |
| DeadLettersHaveAReason | OutboxLeases | `[]DeadForAReason` |
| AuditTypes, ChainHoldsAlways, SettledIsRecordedOnceHolds | AuditChainProofs | `[]TypeOK`, `[]ChainHolds`, `[]SettledIsRecordedOnce` |
| HeadOnlyGrowsHolds, PrunesOnlyExpiredHolds | AuditChainProofs | `HeadOnlyGrows`, `PrunesOnlyExpired` |
| IntactIsTrueHolds, BrokenIsRightHolds | AuditChainProofs | `[]IntactIsTrue`, `[]BrokenIsRight` |
| HookTypes, HeldWhileFreshHolds, SkippedOnlyIfReflectedHolds, DuplicateIsCoveredHolds | HookReflectProofs | `[]TypeOK`, `[]HeldWhileFresh`, `[]SkippedOnlyIfReflected`, `[]DuplicateIsCovered` |
| DoneStaysHolds, AgainOnlyWhenStaleHolds | HookReflectProofs | `DoneStays`, `AgainOnlyWhenStale` |
| QueueTypes, NothingIsLostHolds, DeadMeansExhaustedHolds | BatchQueueProofs | `[]TypeOK`, `[]NothingIsLost`, `[]DeadMeansExhausted` |
| GateTypes, SlotsAreHeldHolds, NobodyWaitsInVainHolds, RequestsKeepRoomHolds | SlotProofs | `[]TypeOK`, `[]SlotsAreHeld`, `[]NobodyWaitsInVain`, `[]RequestsKeepRoom` |
| NobodyIsOvertakenHolds | SlotProofs | `NobodyIsOvertaken` |
| ChainTypesHold, SlotsAreThoseOfCallsHolds, SkippedForFailuresHolds | SlotProofs | `[]ChainTypeOK`, `[]SlotsAreThoseOfCalls`, `[]SkippedForFailures` |
| KeyTypeCorrect, DroppedStaysGone, StaleForTtlHolds | PartProofs | `[]KeyTypeOK`, `[]InvalidatedIsGone`, `[]StaleForTtl` |
| QuotaTypeCorrect, AnchorsThatWereJudged, AtomicRemembers | PartProofs | `[]QuotaTypeOK`, `[]JudgedAnchorsKeepTheLimit`, `AtomicKeepsTheLimit` |
| FillTypeCorrect, SkippedIsRecordedHolds | PartProofs | `[]TypeOK`, `[]SkippedIsRecorded` |
| WatermarkGoesForwardHolds, TokensAreOfContent | PartProofs | `WatermarkGoesForward`, `StoresWhatIsThere` |
| EmbedTypeCorrect, VectorsAreOfContent | PartProofs | `[]EmbedTypeOK`, `[]VectorIsOfContent` |

### The outbox

The argument goes in layers, each an inductive invariant on top of the ones before.

1. **Types and phases** (`TypeOK /\ PhaseOK`). Types alone are not inductive: that `Current(w)` is
   an event needs `next[w]` to be a position of the batch whenever a handler or a statement about it
   is under way. PhaseOK says what a process knows in each phase: no batch outside the phases of a
   batch, position 0 until the first event, a token exactly from the claim on.
2. **Rows and effects** (`EffectOK`). A row exists just for a committed event; an effect needs a
   row; what a worker or a zombie has in hand is in the table; a verdict of success has an effect
   behind it. From this, no stale statement can complete an event without an effect, and every step
   is a step of `Delivery` or changes nothing `Delivery` sees.
3. **Leases** (`LeaseOK`). While the deadline a worker computed *before* it sent the claim has not
   passed, the row carries its token and stays unavailable at least as long, since the database set
   `available_at` later. Tokens differ between processes and the events of a batch differ from each
   other, so a statement of another worker touches only rows that are nobody's, already settled or
   past their lease. The time left covers what is left of handler limit and margin, because
   `canStartNext` asked for it; `late` counts what stalls consume. A claim that is held and not
   started has one more attempt than the event had starts, which is why giving it back is harmless.
4. **Dead letters** (`DeadOK`). An event that was started has its attempts counted, so one that was
   never claimed was never started; only then can the sweep bury it for want of a handler.

### The audit chain

`ChainInv` says of each row what it is in terms of the ledger, the hash of the last one: the row of
seq n has the hash of the ledger's first n entries (`TableOK`). An append extends the ledger and
leaves all its prefixes alone, so nothing has to be said again about the rows before it; retention
takes rows away and spares the last, so the ledger stays. That `recorded_at` never goes back
(`EntryOK`; `Append` takes the later of its clock and the last row's) is what makes a prefix of seqs
the expired ones. The boundary of a chunk is the largest its checkpoint names, and everything up to
it is gone, so a checkpoint that is pruned itself has a later one behind it (`Whole`); and a second
row of one event has a boundary between itself and the first (`OnceOK`).

`VerifierInv` does the same for what a verification has read: the rows are the ledger's, those
before the one it expects next, whatever happened to the table since (`ReadOK`). A row that follows
with the right seq, link and hash is the ledger's, because the hash of its predecessor is. While
nobody meddles and retention does not run, the rows still to be read are there (`Quiet`), so a fault
means that somebody did.

### Hook reflect

`HookInv` adds to the types what stands behind each record: a run that has claimed its key or has
reflected it, and is younger than the takeover time, is the one in the record, and the record is no
older than the run (`Stands`). So a claim of another run finds the record fresh, whichever of them
timed out meanwhile. A record that says done has a narrative behind it, and a record or a remembered
key has an enqueued request; requests only go on from there (`Grows`), which covers those that were
refused as duplicates.

### The reliable queue

`BatchInv` follows a job through all copies of it. A raw carries the time of its push, so no two
pushes are the same string (`PushedBefore`), and LREM takes off what the worker means. A job is
covered by what is in the database or on the dead list, by a run that had nothing to store, or by a
raw on a list that no worker is going to remove (`Kept`): a worker that is going to has stored, turned
away, retried or buried the job first (`HandsOK`). Retries
that a raw counts have each failed before (`RetriesOK`), whichever copy came back from a crash.

### The gate and the language models

Both are slots with a queue in front. While the queue is not empty every slot is in use (`QueueOK`,
`SemaphoreOK`); a slot given back is handed to the first in the queue or counted as free when there is
none; the waiters in the queue are just those that wait, each once, so none is served that has gone
and none is forgotten. `active` is the cardinality of what holds a slot, so no path through `finally`
may count twice. That a request keeps room follows from `Capacity < PoolSize` and the pool's own
limit.

For circuits (`CircuitsInv`) every entry of the list of failures is a failure of its own
(`Recorded`, an injection, since the list is deleted and refilled), and who has opened a circuit, or
is about to, counted enough of them within the window before the time it read.

### The small parts

- **Keys** (`CacheOK /\ LookupOK`). What a process has cached is no older than the last time it
  dropped the key. A lookup may have read something older; but then a generation has passed since it
  began, so it may not cache what it read. As long as no generation has passed, it began after the
  last drop. Neither clocks nor messages play a part in that. For the bound without messages
  (`AgeOK`), an entry expires one period after its lookup *began*, and a lookup that read a state
  before its change began before the change.
- **Limits** (`LockOK`). Whoever is about to write what it counted for still holds the key's row, and
  the number it counted is still below the limit. Nobody else can have changed that number: every
  other write that adds to it needs the row too, and all others only take away, or add to
  `unjudged`. An insert that only checked in advance shares the row and so waits while it is held.
- **Backfill** (`FillInv`). A row is *bare* while it lacks tokens, its content can be tokenized and
  nobody wrote it so since. Rows that are not bare and were not written without tokens have exactly
  what their content yields (`TokensOK`), because whoever stores tokens compares the content first. Rows
  only cease to be bare (`BareStep`). A batch holds every bare row from where its run began up to its
  own greatest id, because candidates are read in the order of ids (`Solid`); a bare row of a batch
  about to be saved is on record, or still to be taken (`Saved`). Then moving the watermark from
  where the run saw it to the greatest id of the batch passes no bare row, and a compare-and-set that
  fails moves nothing. A retry takes a row off the record only when it is no longer bare. The
  exception is `exposed`, and both halves of the invariant that need the record are given up with it.
- **Tokens and vectors.** For what is stored beside a content, nothing has to be known of what runs,
  worker or sweep have in hand. Each of them writes by a statement that compares what it was made of
  with what the row holds. An amend clears the vector; tokens it stores anew or leaves as they are,
  and the property is about those that are stored.

### What only TLC checks

The liveness properties, EventuallySettled, EventuallyHandled, KnotsComeUndone, EventuallyCompleted
and EventuallyEmbedded, since liveness under fairness and ENABLED are beyond the prover; and the five
properties that are violated, for which TLC finds the counterexample. Every other property of a run
is a theorem.

## 6. What is not modelled

Within the modelled components: the sizes and shapes of payloads, metrics and log lines; the
jitter of the back-off (its range matters to no property); the separate pool for batches (`getBatchPool`);
listing and export of audit rows; the three phases by which `batch_remember` stores fragments, which
are one step here, and how many of a job's fragments it stored; and commands that ioredis sends twice. Of keys: which changes are allowed, the
rotation of secrets, and the policies and group memberships that an invalidation also drops; so a
failed lookup of groups, which `groupAccessOrNothing` turns into a state without groups, is not seen. Of the
limits: groups, and with them an amend on behalf of another key, which judges the requester's; the batch path (which judges its items in one transaction, after one lock), the
master key, deduplication by content hash (a remember of a known content inserts nothing), and
reviews that hold no anchor. Of vectors: the segment and the synthetic-query workers, and the list of
dead letters, which is read only to be tidied; and that a provider counts the row it names within a
call of at most 100 while a chunk holds up to 200, so that beyond the first call a row that is not at
fault may be left for the next sweep. A chunk shrinks until the refused row lies in the first call and
is named rightly, so each sweep still fills the rest of that call. Of backfills: other jobs than that for
`content_tokens`. Of language models: the circuit breaker in memory, calls without semaphores, the
cool-down after a 429, the audit of what is sent, and the providers themselves.

Pure reads, scores and text (recall, ranking, embeddings as numbers, symbolic rules, the scanner of
sensitive data, formats of tools and exports) are left out because they have no states to get into;
their correctness is in numbers and words. The console, the CLI, the updater and the migrations are
input and output around the same stores.

### Plan

In this order, the most shared first:

1. `Shutdown`: polling workers with start hooks and double stops, the registry, the scheduler, the
   drain with its deadline, sessions and pools closed after it.
2. `Sessions`: creation, restoration and rotation against closing.
3. The limit on waiting reflects of a key, with several sessions of it, in `HookReflect`.
4. Limits of groups and the batch path in `Quotas`, whose locks are taken in an order of their own.

Theorems to come: `AuditChain` and `HookReflect` assume a contract of the outbox (an event is
delivered again until it is settled, and settled for good). `Delivery` states it and `Outbox` is
proved to keep it; what is left is to compose the consumers with `Outbox` itself, and to show that
each of them, seen from outside, is a handler as `Outbox` has it.
