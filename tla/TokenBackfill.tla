---------------------------- MODULE TokenBackfill ----------------------------
(***************************************************************************)
(* The column content_tokens of table fragments, and the job that fills it *)
(* (scripts/backfill-content-tokens.mjs) on top of the resumable backfill  *)
(* (lib/memory/consolidate/resumableBackfill.js, idOrderedUpdate.js).      *)
(*                                                                         *)
(* The write path stores the tokens of a content in the statement that     *)
(* stores the content, or leaves the column alone: while the channel is    *)
(* switched off, or when it cannot find out whether the column exists.     *)
(* The job reads a batch of rows, tokenizes them, and updates those that   *)
(* are still the same, in the order of their ids; a watermark says how far *)
(* it came, and rows whose update fails are recorded and skipped.  It is   *)
(* started by hand, again after it stopped, from the start if asked, and   *)
(* at times twice.  Every statement is a step.                             *)
(***************************************************************************)
EXTENDS Naturals, FiniteSets
LOCAL INSTANCE FiniteSetsExt

CONSTANTS
  LastRow,      \* the ids are 1 .. LastRow, in the order the database has
  Existing,     \* the rows that the migration finds
  Contents,     \* contents; two that are equal have the same hash and tokens
  Untokenizable,\* those with a run of CJK characters too long to be tokenized
  NoTokens,     \* content_tokens IS NULL
  Runs,         \* invocations of the script
  BatchSize,
  MayBreak,     \* rows whose update may raise an error of class 22 or 23
  MaxWrites,    \* bound of the model: fragments written
  MaxExtra,     \* bound of the model: runs with --restart or --retry-failures
  MaxStops      \* bound of the model: runs that die or lose their connection

ASSUME RowsAssumption   == LastRow \in Nat /\ BatchSize \in Nat \ {0} /\ MayBreak \cup Existing \subseteq 1 .. LastRow
ASSUME BoundsAssumption == {MaxWrites, MaxExtra, MaxStops} \subseteq Nat
ASSUME TokensAssumption == NoTokens \notin Contents /\ Untokenizable \subseteq Contents

VARIABLES
  rows,         \* the rows there are: their content and content_tokens
  broken,       \* those of MayBreak that still do
  mark,         \* the job's row in backfill_watermarks
  failures,     \* the job's rows in backfill_failures
  run,          \* what each invocation is at
  untokened,    \* history: rows whose content was last written without tokens
  promised,     \* history: those of them that a restart has found since
  exposed,      \* history: failures were cleared under a watermark that stayed
  writes, extra, stops

vars    == <<rows, broken, mark, failures, run, untokened, promised,
             exposed, writes, extra, stops>>
history == <<untokened, promised, exposed>>
bounds  == <<writes, extra, stops>>

Ids  == 1 .. LastRow
NoMark   == [status |-> "absent", last |-> 0]
FirstMark == [status |-> "running", last |-> 0]
Idle == [at |-> "idle", last |-> 0, prepared |-> <<>>, left |-> {}]

At(u, phase)    == run[u].at = phase
Goto(u, phase)  == run' = [run EXCEPT ![u].at = phase]
\* contentTokenDocument: the tokens of a content, which stand for themselves;
\* NULL for a content that is not tokenized.
ContentTokenDocument(c) == IF c \in Untokenizable THEN NoTokens ELSE c

Missing(r)      == r \in DOMAIN rows /\ rows[r].tokens = NoTokens
\* BACKFILL_SET, for the rows S: the documents of what was read, or NULL.
SetTokens(S, u) == rows' = [r \in DOMAIN rows |-> IF r \in S
                     THEN [rows[r] EXCEPT !.tokens = ContentTokenDocument(run[u].prepared[r])]
                     ELSE rows[r]]

Overlaps(u)     == \E v \in Runs \ {u} : ~At(v, "idle")
\* The first n of a set of ids.
FirstOf(n, S) == {r \in S : Cardinality({q \in S : q <= r}) <= n}

-----------------------------------------------------------------------------
(* The write path.  contentTokensForWrite yields no tokens, and the column *)
(* is left out of the statement, while MEMENTO_LEXICAL_CHANNEL is off and   *)
(* when the query for the column fails; a content that is not tokenized is  *)
(* written with NULL.                                                      *)

Written(r, tokened) ==
  /\ writes < MaxWrites
  /\ writes'    = writes + 1
  /\ untokened' = IF tokened THEN untokened \ {r} ELSE untokened \cup {r}
  /\ promised'  = promised \ {r}
  /\ UNCHANGED <<broken, mark, failures, run, exposed, extra, stops>>

\* FragmentWriter._insertOnce: a fragment is added, under an id of any place.
Remember(r) ==
  /\ r \notin DOMAIN rows
  /\ \E c \in Contents, tokened \in BOOLEAN :
       /\ rows' = [q \in DOMAIN rows \cup {r} |-> IF q # r THEN rows[q]
                     ELSE [content |-> c, tokens |-> IF tokened THEN ContentTokenDocument(c) ELSE NoTokens]]
       /\ Written(r, tokened)

Amended(old, c, tokened) ==
  [content |-> c, tokens |-> IF tokened THEN ContentTokenDocument(c) ELSE old.tokens]

\* FragmentWriter.update with a new content, one transaction under a row lock.
Amend(r) ==
  /\ r \in DOMAIN rows
  /\ \E c \in Contents \ {rows[r].content}, tokened \in BOOLEAN :
       /\ rows' = [rows EXCEPT ![r] = Amended(@, c, tokened)]
       /\ Written(r, tokened)

\* FragmentWriter.delete.
Forget(r) ==
  /\ r \in DOMAIN rows
  /\ rows' = [q \in DOMAIN rows \ {r} |-> rows[q]]
  /\ Written(r, TRUE)

\* The operator mends what made updates fail.
Mend ==
  /\ broken # {}
  /\ broken' = {}
  /\ UNCHANGED <<rows, mark, failures, run, history, bounds>>

-----------------------------------------------------------------------------
(* A run: the watermark is made, read, and moved batch by batch.           *)

Init ==
  /\ rows \in [Existing -> [content : Contents, tokens : {NoTokens}]]
  /\ broken \in SUBSET MayBreak
  /\ mark = NoMark /\ failures = {}
  /\ run = [u \in Runs |-> Idle]
  /\ untokened = {} /\ promised = {} /\ exposed = FALSE
  /\ writes = 0 /\ extra = 0 /\ stops = 0

\* loadWatermark: INSERT ... ON CONFLICT DO NOTHING.
InsertWatermark(u) ==
  /\ mark' = IF mark = NoMark THEN FirstMark ELSE mark
  /\ Goto(u, "load")
  /\ UNCHANGED <<rows, broken, failures, history, bounds>>

Begin(u) == At(u, "idle") /\ InsertWatermark(u)

\* --restart: loadWatermark clears the failures, then the watermark.
BeginRestart(u) ==
  /\ At(u, "idle")
  /\ extra < MaxExtra
  /\ extra'    = extra + 1
  /\ Goto(u, "clear_failures")
  /\ UNCHANGED <<rows, broken, mark, failures, history, writes, stops>>

ClearFailures(u) ==
  /\ At(u, "clear_failures")
  /\ failures' = {}
  /\ exposed'  = (exposed \/ mark.last > 0 \/ Overlaps(u))
  /\ Goto(u, "clear_watermark")
  /\ UNCHANGED <<rows, broken, mark, untokened, promised, bounds>>

ClearWatermark(u) ==
  /\ At(u, "clear_watermark")
  /\ mark'     = NoMark
  /\ exposed'  = Overlaps(u)
  /\ promised' = untokened
  /\ Goto(u, "insert")
  /\ UNCHANGED <<rows, broken, failures, untokened, bounds>>

Reinsert(u) == At(u, "insert") /\ InsertWatermark(u)

\* The watermark that another run has deleted again is read as undefined,
\* which ends this one.
LoadWatermark(u) ==
  /\ At(u, "load")
  /\ run' = [run EXCEPT ![u] = IF mark.status = "running"
                                 THEN [Idle EXCEPT !.at = "prepare", !.last = mark.last] ELSE Idle]
  /\ UNCHANGED <<rows, broken, mark, failures, history, bounds>>

\* CANDIDATE_SQL.batch.
\* mutant: the row the watermark is at is a candidate again
BugCandidates(u) == {r \in Ids : Missing(r) /\ r >= run[u].last}
Candidates(u) == {r \in Ids : Missing(r) /\ r > run[u].last}

\* makePrepareBatch: the next candidates are read and tokenized.
PrepareBatch(u) ==
  /\ At(u, "prepare")
  /\ LET batch == FirstOf(BatchSize, Candidates(u)) IN
     run' = [run EXCEPT ![u].at       = IF batch = {} THEN "complete" ELSE "batch",
                        ![u].prepared = [r \in batch |-> rows[r].content]]
  /\ UNCHANGED <<rows, broken, mark, failures, history, bounds>>

\* BACKFILL_WHERE: the prepared rows that are as they were read.
\* mutant: the hash of the content is not compared
BugEligible(u) == {r \in DOMAIN run[u].prepared : Missing(r)}
Eligible(u) ==
  {r \in DOMAIN run[u].prepared : Missing(r) /\ rows[r].content = run[u].prepared[r]}

\* updateOneBatch, one transaction; an error of a row undoes it, and the rows
\* that are still candidates are taken one by one (updateRowByRow).
UpdateBatch(u) ==
  /\ At(u, "batch")
  /\ IF Eligible(u) \cap broken = {}
       THEN SetTokens(Eligible(u), u) /\ Goto(u, "save")
       ELSE Goto(u, "select") /\ UNCHANGED rows
  /\ UNCHANGED <<broken, mark, failures, history, bounds>>

SelectBatchIds(u) ==
  /\ At(u, "select")
  /\ run' = [run EXCEPT ![u] = IF Eligible(u) = {} THEN Idle
                                 ELSE [@ EXCEPT !.at = "rows", !.left = Eligible(u)]]
  /\ UNCHANGED <<rows, broken, mark, failures, history, bounds>>

Row(u)      == Min(run[u].left)
RowDone(u, last) == run' = [run EXCEPT ![u].left = @ \ {Row(u)},
                                       ![u].at   = IF run[u].left = {Row(u)} THEN last ELSE "rows"]

UpdateRow(u) ==
  /\ At(u, "rows")
  /\ IF Row(u) \in Eligible(u) \cap broken
       THEN Goto(u, "record") /\ UNCHANGED rows
       ELSE SetTokens(Eligible(u) \cap {Row(u)}, u) /\ RowDone(u, "save")
  /\ UNCHANGED <<broken, mark, failures, history, bounds>>

\* mutant: a row that fails is skipped without a record
BugRecorded(r) == failures
Recorded(r) == failures \cup {r}

RecordFailure(u) ==
  /\ At(u, "record")
  /\ failures' = Recorded(Row(u))
  /\ RowDone(u, "save")
  /\ UNCHANGED <<rows, broken, mark, history, bounds>>

\* mutant: the watermark is moved whatever it is
BugUnmoved(u) == mark.status = "running"
\* The watermark is what this run last saw of it.
Unmoved(u) == mark = [status |-> "running", last |-> run[u].last]

\* saveWatermark; BackfillConcurrentRunError stops the run.
SaveWatermark(u) ==
  /\ At(u, "save")
  /\ LET next == Max(DOMAIN run[u].prepared) IN
     IF Unmoved(u)
       THEN /\ mark' = [mark EXCEPT !.last = next]
            /\ run'  = [run EXCEPT ![u] = [Idle EXCEPT !.at = "prepare", !.last = next]]
       ELSE /\ run'  = [run EXCEPT ![u] = Idle]
            /\ UNCHANGED mark
  /\ UNCHANGED <<rows, broken, failures, history, bounds>>

MarkCompleted(u) ==
  /\ At(u, "complete")
  /\ mark' = IF Unmoved(u) THEN [mark EXCEPT !.status = "completed"] ELSE mark
  /\ run'  = [run EXCEPT ![u] = Idle]
  /\ UNCHANGED <<rows, broken, failures, history, bounds>>

-----------------------------------------------------------------------------
(* retryBackfillFailures: every recorded row is prepared, updated and taken *)
(* off the record, or recorded again.                                      *)
BeginRetry(u) ==
  /\ At(u, "idle")
  /\ extra < MaxExtra
  /\ failures # {}
  /\ extra' = extra + 1
  /\ run'   = [run EXCEPT ![u] = [Idle EXCEPT !.at = "retry", !.left = failures]]
  /\ UNCHANGED <<rows, broken, mark, failures, history, writes, stops>>

RetryPrepare(u) ==
  /\ At(u, "retry")
  /\ run' = [run EXCEPT ![u].at = "retry_update",
                        ![u].prepared = [r \in {q \in {Row(u)} : Missing(q)} |-> rows[r].content]]
  /\ UNCHANGED <<rows, broken, mark, failures, history, bounds>>

RetryUpdate(u) ==
  /\ At(u, "retry_update")
  /\ IF Row(u) \in Eligible(u) \cap broken
       THEN Goto(u, "retry_record") /\ UNCHANGED rows
       ELSE Goto(u, "retry_delete") /\ SetTokens(Eligible(u), u)
  /\ UNCHANGED <<broken, mark, failures, history, bounds>>

Retried(u) ==
  run' = [run EXCEPT ![u] = IF run[u].left = {Row(u)} THEN Idle
            ELSE [Idle EXCEPT !.at = "retry", !.left = run[u].left \ {Row(u)}]]

RetryDelete(u) ==
  /\ At(u, "retry_delete")
  /\ failures' = failures \ {Row(u)}
  /\ Retried(u)
  /\ UNCHANGED <<rows, broken, mark, history, bounds>>

RetryRecord(u) ==
  /\ At(u, "retry_record")
  /\ failures' = Recorded(Row(u))
  /\ Retried(u)
  /\ UNCHANGED <<rows, broken, mark, history, bounds>>

\* The process dies, or a statement fails for a reason that is no row's.
Stop(u) ==
  /\ ~At(u, "idle")
  /\ stops < MaxStops
  /\ stops' = stops + 1
  /\ run'   = [run EXCEPT ![u] = Idle]
  /\ UNCHANGED <<rows, broken, mark, failures, history, writes, extra>>

-----------------------------------------------------------------------------
Work(u) ==
  \/ ClearFailures(u) \/ ClearWatermark(u) \/ Reinsert(u) \/ LoadWatermark(u)
  \/ PrepareBatch(u) \/ UpdateBatch(u) \/ SelectBatchIds(u) \/ UpdateRow(u)
  \/ RecordFailure(u) \/ SaveWatermark(u) \/ MarkCompleted(u)
  \/ RetryPrepare(u) \/ RetryUpdate(u) \/ RetryDelete(u) \/ RetryRecord(u)

Next ==
  \/ \E r \in Ids : Remember(r) \/ Amend(r) \/ Forget(r)
  \/ Mend
  \/ \E u \in Runs : \/ Begin(u) \/ BeginRestart(u) \/ BeginRetry(u)
                     \/ Work(u) \/ Stop(u)

Spec == Init /\ [][Next]_vars

\* The operator starts the job again when it has stopped, and a run goes on.
Fairness == \A u \in Runs : WF_vars(Begin(u) \/ Work(u))
FairSpec == Spec /\ Fairness
-----------------------------------------------------------------------------
TypeOK ==
  /\ DOMAIN rows \subseteq Ids
  /\ \A r \in DOMAIN rows : rows[r] \in [content : Contents, tokens : Contents \cup {NoTokens}]
  /\ mark \in [status : {"absent", "running", "completed"}, last : 0 .. LastRow]
  /\ {broken, failures, untokened, promised} \subseteq SUBSET Ids
  /\ exposed \in BOOLEAN
  /\ writes \in 0 .. MaxWrites /\ extra \in 0 .. MaxExtra /\ stops \in 0 .. MaxStops
  /\ \A u \in Runs : run[u].last \in 0 .. LastRow /\ run[u].left \subseteq Ids
                     /\ DOMAIN run[u].prepared \subseteq Ids

(* Whoever stores tokens stores those of the content beside them, though   *)
(* the job tokenizes outside any transaction and rows are amended          *)
(* meanwhile (BACKFILL_WHERE, scripts/backfill-content-tokens.mjs).        *)
StoresWhatIsThere ==
  [][\A r \in DOMAIN rows \cap DOMAIN rows' :
       rows'[r].tokens \notin {NoTokens, rows[r].tokens} => rows'[r].tokens = rows'[r].content]_vars

(* What the watermark has passed is filled, recorded, or of a content that *)
(* is not tokenized, so no row that could be found is skipped in silence,  *)
(* whatever runs overlap or stop (runBatch, resumableBackfill.js); what    *)
(* was written without tokens meanwhile, and a restart that stops halfway  *)
(* or overlaps another run, are the exceptions.                            *)
SkippedIsRecorded ==
  ~exposed => \A r \in DOMAIN rows \ untokened :
    r <= mark.last => rows[r].tokens = ContentTokenDocument(rows[r].content) \/ r \in failures

(* Only a restart, which deletes it first, sets the watermark back, and a  *)
(* completed job stays so (saveWatermark, markCompleted).                  *)
WatermarkGoesForward ==
  [][mark' # NoMark => /\ mark.last <= mark'.last
                       /\ mark.status = "completed" => mark' = mark]_vars

(* A restart makes up for the rows written without tokens while the        *)
(* channel was off (docs/configuration.en.md, MEMENTO_LEXICAL_CHANNEL).    *)
RestartMakesUp ==
  mark.status = "completed" /\ ~exposed =>
    \A r \in promised \cap DOMAIN rows : rows[r].tokens = ContentTokenDocument(rows[r].content) \/ r \in failures

(* Once it was started the job completes, however often its runs stop or   *)
(* get in each other's way; a restart completes anew.                      *)
EventuallyCompleted == (\E u \in Runs : ~At(u, "idle")) ~> mark.status = "completed"
=============================================================================
