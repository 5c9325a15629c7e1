----------------------------- MODULE PartProofs -----------------------------
(***************************************************************************)
(* Theorems about the four parts that stand beside the fragments, for any  *)
(* number of rows, processes, requests and changes and any limits.         *)
(*                                                                         *)
(* What is filled in beside a text is of that text: tokens of a content,   *)
(* vectors of a fragment.  Both are computed from a row that was read      *)
(* before, outside any transaction; the proofs say nothing of what was     *)
(* prepared, only of the statement that compares it with the row.          *)
(*                                                                         *)
(* What was invalidated of a key stays gone from the caches.               *)
(*                                                                         *)
(* The limits of a key hold as far as they are kept at all: for the        *)
(* anchors that were judged, and for the fragments an atomic remember      *)
(* inserts.                                                                *)
(***************************************************************************)
EXTENDS TokenBackfill, Embedding, KeyState, Quotas, FiniteSetTheorems, WellFoundedInduction, TLAPS
LOCAL INSTANCE FiniteSetsExt

-----------------------------------------------------------------------------
(* Tokens.                                                                 *)

StoredRow == [content : Contents, tokens : Contents \cup {NoTokens}]

(* Every row is one.                                                       *)
RowsOK == \A r \in DOMAIN rows : rows[r] \in StoredRow

(* What a content is tokenized to.                                         *)
LEMMA Documents ==
  ASSUME NEW c \in Contents
  PROVE  /\ ContentTokenDocument(c) \in {NoTokens, c}
         /\ ContentTokenDocument(c) = NoTokens <=> c \in Untokenizable
  BY TokensAssumption DEF ContentTokenDocument

(* What one step may do to the rows: each that stays keeps its tokens,     *)
(* loses them, or has those of its content.                                *)
Kept(r) == rows'[r].tokens \in {NoTokens, rows[r].tokens, rows'[r].content}
RowsStep == RowsOK' /\ \A r \in DOMAIN rows \cap DOMAIN rows' : Kept(r)

(* The statements of the job keep the rows and fill them rightly.          *)
LEMMA FillRows ==
  ASSUME RowsOK, NEW u \in Runs, NEW S, S \subseteq Eligible(u), SetTokens(S, u)
  PROVE  RowsStep
<1>1. DOMAIN rows' = DOMAIN rows
  BY DEF SetTokens
<1> SUFFICES ASSUME NEW r \in DOMAIN rows
             PROVE  rows'[r] \in StoredRow /\ Kept(r)
  BY <1>1 DEF RowsStep, RowsOK
<1>2. rows[r] \in StoredRow
  BY DEF RowsOK
<1>3. CASE r \in S
  <2>1. PICK t : t = ContentTokenDocument(run[u].prepared[r])
    OBVIOUS
  <2>2. rows'[r] = [rows[r] EXCEPT !.tokens = t]
    BY <1>3, <2>1 DEF SetTokens
  <2>3. rows[r].content = run[u].prepared[r] /\ rows[r].content \in Contents
    BY <1>2, <1>3 DEF Eligible, StoredRow
  <2>4. t \in {NoTokens, rows[r].content}
    BY <2>1, <2>3, Documents
  <2> QED
    BY <1>2, <2>2, <2>3, <2>4 DEF StoredRow, Kept
<1>4. CASE r \notin S
  <2>1. rows'[r] = rows[r]
    BY <1>4 DEF SetTokens
  <2> QED
    BY <1>2, <2>1 DEF Kept
<1> QED
  BY <1>3, <1>4

(* A step that leaves the rows alone.                                      *)
LEMMA RowsUnchanged == RowsOK /\ UNCHANGED rows => RowsStep
  BY DEF RowsStep, RowsOK, Kept

(* A fragment is added.                                                    *)
LEMMA RememberRows ==
  ASSUME RowsOK, NEW r \in Ids, Remember(r)
  PROVE  RowsStep
<1>1. PICK c \in Contents, t \in Contents \cup {NoTokens} :
        rows' = [q \in DOMAIN rows \cup {r} |-> IF q # r THEN rows[q] ELSE [content |-> c, tokens |-> t]]
  <2>1. PICK c \in Contents, tokened \in BOOLEAN :
          rows' = [q \in DOMAIN rows \cup {r} |-> IF q # r THEN rows[q]
                     ELSE [content |-> c, tokens |-> IF tokened THEN ContentTokenDocument(c) ELSE NoTokens]]
    BY DEF Remember
  <2>2. (IF tokened THEN ContentTokenDocument(c) ELSE NoTokens) \in Contents \cup {NoTokens}
    BY Documents
  <2> QED
    BY <2>1, <2>2
<1>2. ASSUME NEW q \in DOMAIN rows' PROVE rows'[q] \in StoredRow
  <2>1. CASE q = r
    BY <1>1, <2>1 DEF StoredRow
  <2>2. CASE q # r
    BY <1>1, <1>2, <2>2 DEF RowsOK
  <2> QED
    BY <2>1, <2>2
<1>3. ASSUME NEW q \in DOMAIN rows PROVE Kept(q)
  <2>1. q # r
    BY DEF Remember
  <2> QED
    BY <1>1, <2>1 DEF Kept
<1> QED
  BY <1>2, <1>3 DEF RowsStep, RowsOK

(* A fragment is amended: its tokens are those of the new content, or the  *)
(* old ones, while the channel is off.                                     *)
LEMMA AmendRows ==
  ASSUME RowsOK, NEW r \in Ids, Amend(r)
  PROVE  RowsStep
<1>1. PICK c \in Contents, tokened \in BOOLEAN : rows' = [rows EXCEPT ![r] = Amended(rows[r], c, tokened)]
  BY DEF Amend
<1>2. DOMAIN rows' = DOMAIN rows
  BY <1>1
<1> SUFFICES ASSUME NEW q \in DOMAIN rows
             PROVE  rows'[q] \in StoredRow /\ Kept(q)
  BY <1>2 DEF RowsStep, RowsOK
<1>3. rows[q] \in StoredRow
  BY DEF RowsOK
<1>4. CASE q = r
  <2>1. PICK t : t = ContentTokenDocument(c)
    OBVIOUS
  <2>2. rows'[q] = [content |-> c, tokens |-> IF tokened THEN t ELSE rows[q].tokens]
    BY <1>1, <1>4, <2>1 DEF Amended
  <2>3. t \in {NoTokens, c}
    BY <2>1, Documents
  <2> QED
    BY <1>3, <2>2, <2>3 DEF StoredRow, Kept
<1>5. CASE q # r
  BY <1>1, <1>3, <1>5 DEF Kept
<1> QED
  BY <1>4, <1>5

(* A fragment is deleted.                                                  *)
LEMMA ForgetRows ==
  ASSUME RowsOK, NEW r \in Ids, Forget(r)
  PROVE  RowsStep
  BY DEF Forget, RowsStep, RowsOK, Kept

(* Work of a run.                                                          *)
LEMMA WorkRows ==
  ASSUME RowsOK, NEW u \in Runs, Work(u)
  PROVE  RowsStep
<1>1. CASE UNCHANGED rows
  BY <1>1, RowsUnchanged
<1>2. CASE \E S \in SUBSET Eligible(u) : SetTokens(S, u)
  BY <1>2, FillRows
<1>3. ASSUME UpdateBatch(u) PROVE UNCHANGED rows \/ \E S \in SUBSET Eligible(u) : SetTokens(S, u)
  BY <1>3 DEF UpdateBatch
<1>4. ASSUME UpdateRow(u) PROVE UNCHANGED rows \/ \E S \in SUBSET Eligible(u) : SetTokens(S, u)
  BY <1>4 DEF UpdateRow
<1>5. ASSUME RetryUpdate(u) PROVE UNCHANGED rows \/ \E S \in SUBSET Eligible(u) : SetTokens(S, u)
  BY <1>5 DEF RetryUpdate
<1> QED
  BY <1>1, <1>2, <1>3, <1>4, <1>5
     DEF Work, ClearFailures, ClearWatermark, Reinsert, InsertWatermark, LoadWatermark, PrepareBatch,
         SelectBatchIds, RecordFailure, SaveWatermark, MarkCompleted, RetryPrepare, RetryDelete, RetryRecord

(* Every step of the backfill and of the writers.                          *)
LEMMA NextRows == RowsOK /\ [Next]_vars => RowsStep
<1> SUFFICES ASSUME RowsOK, [Next]_vars PROVE RowsStep
  OBVIOUS
<1>1. CASE UNCHANGED vars
  BY <1>1, RowsUnchanged DEF vars
<1>2. ASSUME NEW r \in Ids, Remember(r) \/ Amend(r) \/ Forget(r) PROVE RowsStep
  BY <1>2, RememberRows, AmendRows, ForgetRows
<1>3. ASSUME Mend PROVE RowsStep
  BY <1>3, RowsUnchanged DEF Mend
<1>4. ASSUME NEW u \in Runs, Begin(u) \/ BeginRestart(u) \/ BeginRetry(u) \/ Stop(u) PROVE RowsStep
  BY <1>4, RowsUnchanged DEF Begin, InsertWatermark, BeginRestart, BeginRetry, Stop
<1>5. ASSUME NEW u \in Runs, Work(u) PROVE RowsStep
  BY <1>5, WorkRows
<1> QED
  BY <1>1, <1>2, <1>3, <1>4, <1>5 DEF Next

(* Whoever stores tokens stores those of the content beside them, however  *)
(* many runs tokenize and however often the rows are amended meanwhile     *)
(* (BACKFILL_WHERE, scripts/backfill-content-tokens.mjs).                  *)
THEOREM TokensAreOfContent == Spec => StoresWhatIsThere
<1>1. Init => RowsOK
  BY DEF Init, RowsOK, StoredRow
<1>2. RowsOK /\ [Next]_vars => RowsOK'
  BY NextRows DEF RowsStep
<1>3. RowsOK /\ [Next]_vars =>
        [\A r \in DOMAIN rows \cap DOMAIN rows' :
           rows'[r].tokens \notin {NoTokens, rows[r].tokens} => rows'[r].tokens = rows'[r].content]_vars
  BY NextRows DEF RowsStep, Kept
<1> QED
  BY <1>1, <1>2, <1>3, PTL DEF Spec, StoresWhatIsThere

-----------------------------------------------------------------------------
(* What the watermark has passed.                                          *)

Batching  == {"batch", "select", "rows", "record", "save"}
Retrying  == {"retry", "retry_update", "retry_delete", "retry_record"}
RunPhases == {"idle", "clear_failures", "clear_watermark", "insert", "load", "prepare", "complete"}
             \cup Batching \cup Retrying
Prepared  == UNION {[S -> Contents] : S \in SUBSET Ids}
RunRecord == [at : RunPhases, last : 0 .. LastRow, prepared : Prepared, left : SUBSET Ids]
RowOf(x)  == Min(x.left)

(* The types of all but the rows, which RowsOK is about.                   *)
MarkTypes ==
  /\ mark \in [status : {"absent", "running", "completed"}, last : 0 .. LastRow]
  /\ mark.status = "absent" => mark = NoMark
  /\ {broken, failures, untokened, promised} \subseteq SUBSET Ids
  /\ exposed \in BOOLEAN
  /\ writes \in 0 .. MaxWrites /\ extra \in 0 .. MaxExtra /\ stops \in 0 .. MaxStops
RunTypes  == run \in [Runs -> RunRecord]
FillTypes == DOMAIN rows \subseteq Ids /\ RowsOK /\ MarkTypes /\ RunTypes

(* A row the job has still to fill.                                        *)
Bare(r) == Missing(r) /\ rows[r].content \notin Untokenizable /\ r \notin untokened

(* What a run x knows.  A batch holds every bare row between the watermark *)
(* it began at and its last row; what was made of a bare row is of the     *)
(* content the row still has; a row that is about to leave the record is   *)
(* bare no more.                                                           *)
Solid(x) ==
  /\ x.at \in Batching =>
       /\ DOMAIN x.prepared # {}
       /\ \A q \in DOMAIN x.prepared :
            /\ q > x.last
            /\ \A r \in Ids : Bare(r) /\ r > x.last /\ r <= q => r \in DOMAIN x.prepared
  /\ x.at \in {"prepare", "batch", "select", "save"} => x.left = {}
  /\ x.at \in {"rows", "record"} \cup Retrying => x.left # {}
  /\ \A r \in DOMAIN x.prepared : Bare(r) => x.prepared[r] = rows[r].content
  /\ x.at = "retry_update" /\ Bare(RowOf(x)) => RowOf(x) \in DOMAIN x.prepared
  /\ x.at = "retry_delete" => ~Bare(RowOf(x))

(* A bare row of a batch is still to come, or it is on record.             *)
Saved(x) == x.at \in {"rows", "record", "save"} =>
  \A r \in DOMAIN x.prepared : Bare(r) => r \in x.left \cup failures

RunsOK  == \A u \in Runs : Solid(run[u]) /\ (~exposed => Saved(run[u]))
Skipped == ~exposed => \A r \in Ids : Bare(r) /\ r <= mark.last => r \in failures
FillInv == FillTypes /\ RunsOK /\ Skipped

-----------------------------------------------------------------------------
(* Ids.                                                                    *)

(* A set of ids has a first and a last one.                                *)
LEMMA LeastId ==
  ASSUME NEW S \in SUBSET Nat, S # {}
  PROVE  Min(S) \in S /\ \A r \in S : Min(S) <= r
<1> DEFINE R == {ss \in Nat \X Nat : ss[1] < ss[2]}
<1>1. IsWellFoundedOn(R, Nat)
  BY NatLessThanWellFounded DEF OpToRel
<1>2. PICK i \in S : \A k \in S : ~ (<<k, i>> \in R)
  <2> HIDE DEF R
  <2> QED
    BY <1>1, WFMin
<1>3. \A k \in S : i <= k
  <2> SUFFICES ASSUME NEW k \in S PROVE i <= k
    OBVIOUS
  <2>1. i \in Nat /\ k \in Nat /\ ~(<<k, i>> \in R)
    BY <1>2
  <2> QED
    BY <2>1
<1> QED
  BY <1>3 DEF Min

(* Max of a set of ids is one of them, and the greatest.                   *)
LEMMA GreatestId ==
  ASSUME NEW S \in SUBSET Ids, S # {}
  PROVE  Max(S) \in S /\ \A r \in S : r <= Max(S)
<1>0. LastRow \in Nat /\ \A r \in S : r \in Nat /\ r <= LastRow
  BY RowsAssumption DEF Ids
<1>1. PICK T : T = {LastRow - r : r \in S}
  OBVIOUS
<1>2. T \in SUBSET Nat /\ T # {}
  BY <1>0, <1>1
<1>3. PICK least \in T : \A k \in T : least <= k
  BY <1>2, LeastId
<1>4. PICK i \in S : least = LastRow - i
  BY <1>1, <1>3
<1>5. ASSUME NEW k \in S PROVE k <= i
  <2>1. LastRow - k \in T
    BY <1>1
  <2>2. LastRow - i <= LastRow - k
    BY <1>3, <1>4, <2>1
  <2> QED
    BY <1>0, <2>2
<1>6. \A k \in S : i >= k
  BY <1>0, <1>5
<1>7. \A k \in S : Max(S) >= k /\ Max(S) \in S
  BY <1>6 DEF Max
<1> QED
  BY <1>0, <1>7

(* The first ids of a set leave no gap.                                    *)
LEMMA FirstOfType ==
  ASSUME NEW S \in SUBSET Ids
  PROVE  /\ FirstOf(BatchSize, S) \subseteq S
         /\ \A q \in FirstOf(BatchSize, S) : \A r \in S : r <= q => r \in FirstOf(BatchSize, S)
<1> SUFFICES ASSUME NEW q \in S, NEW r \in S, Cardinality({p \in S : p <= q}) <= BatchSize, r <= q
             PROVE  Cardinality({p \in S : p <= r}) <= BatchSize
  BY DEF FirstOf
<1>1. LastRow \in Nat /\ BatchSize \in Nat /\ \A p \in S : p \in Nat
  BY RowsAssumption DEF Ids
<1>2. IsFiniteSet(S)
  <2>1. IsFiniteSet(1 .. LastRow)
    BY <1>1, FS_Interval
  <2> QED
    BY <2>1, FS_Subset DEF Ids
<1>3. {p \in S : p <= r} \subseteq {p \in S : p <= q}
  BY <1>1
<1>4. IsFiniteSet({p \in S : p <= q})
  BY <1>2, FS_Subset
<1>5. Cardinality({p \in S : p <= r}) <= Cardinality({p \in S : p <= q})
  BY <1>3, <1>4, FS_Subset
<1>6. /\ Cardinality({p \in S : p <= q}) \in Nat
      /\ Cardinality({p \in S : p <= r}) \in Nat
  BY <1>3, <1>4, FS_Subset, FS_CardinalityType
<1> QED
  BY <1>1, <1>5, <1>6

-----------------------------------------------------------------------------
(* What a step leaves of this.                                             *)

(* No row becomes bare, and one that stays so stays as it is.              *)
BareStep == \A r : Bare(r)' => Bare(r) /\ rows'[r].content = rows[r].content

(* A failure stays on record as long as its row is bare.                   *)
FailuresKept == ~exposed' => ~exposed /\ \A r : Bare(r)' /\ r \in failures => r \in failures'

(* Rows that stay as they are stay bare or not.                            *)
LEMMA BareUnchanged == UNCHANGED <<rows, untokened>> => BareStep
  BY DEF BareStep, Bare, Missing

(* Who writes a row marks it, unless it has its tokens.                    *)
LEMMA BareRemember ==
  ASSUME FillTypes, NEW r \in Ids, Remember(r)
  PROVE  BareStep
<1>1. PICK c \in Contents, tokened \in BOOLEAN :
        /\ rows' = [q \in DOMAIN rows \cup {r} |-> IF q # r THEN rows[q]
                      ELSE [content |-> c, tokens |-> IF tokened THEN ContentTokenDocument(c) ELSE NoTokens]]
        /\ Written(r, tokened)
  BY DEF Remember
<1> SUFFICES ASSUME NEW q, Bare(q)' PROVE Bare(q) /\ rows'[q].content = rows[q].content
  BY DEF BareStep
<1>2. /\ q \in DOMAIN rows' /\ rows'[q].tokens = NoTokens /\ q \notin untokened'
      /\ rows'[q].content \notin Untokenizable
  BY DEF Bare, Missing
<1>3. untokened' = IF tokened THEN untokened \ {r} ELSE untokened \cup {r}
  BY <1>1 DEF Written
<1>4. q # r
  <2> SUFFICES ASSUME q = r PROVE FALSE
    OBVIOUS
  <2>1. rows'[q].tokens = (IF tokened THEN ContentTokenDocument(c) ELSE NoTokens) /\ rows'[q].content = c
    BY <1>1
  <2> QED
    BY <1>2, <1>3, <2>1, Documents
<1>5. q \in DOMAIN rows /\ rows'[q] = rows[q]
  BY <1>1, <1>2, <1>4
<1> QED
  BY <1>2, <1>3, <1>4, <1>5 DEF Bare, Missing

(* A content written without tokens is accounted for by untokened.         *)
LEMMA BareAmend ==
  ASSUME FillTypes, NEW r \in Ids, Amend(r)
  PROVE  BareStep
<1>1. PICK c \in Contents, tokened \in BOOLEAN :
        rows' = [rows EXCEPT ![r] = Amended(rows[r], c, tokened)] /\ Written(r, tokened)
  BY DEF Amend
<1> SUFFICES ASSUME NEW q, Bare(q)' PROVE Bare(q) /\ rows'[q].content = rows[q].content
  BY DEF BareStep
<1>2. /\ q \in DOMAIN rows' /\ rows'[q].tokens = NoTokens /\ q \notin untokened'
      /\ rows'[q].content \notin Untokenizable
  BY DEF Bare, Missing
<1>3. untokened' = IF tokened THEN untokened \ {r} ELSE untokened \cup {r}
  BY <1>1 DEF Written
<1>4. q # r
  <2> SUFFICES ASSUME q = r PROVE FALSE
    OBVIOUS
  <2>1. rows'[q].content = c /\ (tokened => rows'[q].tokens = ContentTokenDocument(c))
    BY <1>1, <1>2 DEF Amended
  <2> QED
    BY <1>2, <1>3, <2>1, Documents
<1>5. q \in DOMAIN rows /\ rows'[q] = rows[q]
  BY <1>1, <1>2, <1>4
<1> QED
  BY <1>2, <1>3, <1>4, <1>5 DEF Bare, Missing

(* A row that is gone is not bare.                                         *)
LEMMA BareForget ==
  ASSUME FillTypes, NEW r \in Ids, Forget(r)
  PROVE  BareStep
<1>1. rows' = [q \in DOMAIN rows \ {r} |-> rows[q]] /\ untokened' = untokened \ {r}
  BY DEF Forget, Written
<1> SUFFICES ASSUME NEW q, Bare(q)' PROVE Bare(q) /\ rows'[q].content = rows[q].content
  BY DEF BareStep
<1>2. /\ q \in DOMAIN rows' /\ rows'[q].tokens = NoTokens /\ q \notin untokened'
      /\ rows'[q].content \notin Untokenizable
  BY DEF Bare, Missing
<1>3. q \in DOMAIN rows /\ q # r /\ rows'[q] = rows[q]
  BY <1>1, <1>2
<1> QED
  BY <1>1, <1>2, <1>3 DEF Bare, Missing

(* The job fills rows, and those are bare no more.                         *)
LEMMA BareFill ==
  ASSUME FillTypes, NEW u \in Runs, NEW S, S \subseteq Eligible(u), SetTokens(S, u), UNCHANGED untokened
  PROVE  BareStep /\ \A r \in S : ~Bare(r)'
<1>1. ASSUME NEW q, Bare(q)' PROVE q \notin S
  <2> SUFFICES ASSUME q \in S PROVE FALSE
    OBVIOUS
  <2>1. q \in DOMAIN rows /\ rows[q].content = run[u].prepared[q]
    BY DEF Eligible, Missing
  <2>2. rows[q] \in StoredRow
    BY <2>1 DEF FillTypes, RowsOK
  <2>3. rows'[q] = [rows[q] EXCEPT !.tokens = ContentTokenDocument(rows[q].content)]
    BY <2>1 DEF SetTokens
  <2>4. /\ rows[q].content \in Contents /\ rows'[q].content = rows[q].content
        /\ rows'[q].tokens = ContentTokenDocument(rows[q].content)
    BY <2>2, <2>3 DEF StoredRow
  <2>5. rows'[q].tokens = NoTokens /\ rows'[q].content \notin Untokenizable
    BY <1>1 DEF Bare, Missing
  <2> QED
    BY <2>4, <2>5, Documents
<1>2. ASSUME NEW q, Bare(q)' PROVE Bare(q) /\ rows'[q].content = rows[q].content
  <2>1. /\ q \in DOMAIN rows' /\ rows'[q].tokens = NoTokens /\ q \notin untokened
        /\ rows'[q].content \notin Untokenizable
    BY <1>2 DEF Bare, Missing
  <2>2. q \in DOMAIN rows /\ rows'[q] = rows[q]
    BY <1>1, <1>2, <2>1 DEF SetTokens
  <2> QED
    BY <2>1, <2>2 DEF Bare, Missing
<1> QED
  BY <1>1, <1>2 DEF BareStep

(* What a run knows survives.                                              *)
LEMMA SolidKept ==
  ASSUME BareStep, NEW x, Solid(x)
  PROVE  Solid(x)'
<1>1. ASSUME NEW r \in DOMAIN x.prepared, Bare(r)' PROVE x.prepared[r] = rows'[r].content
  BY <1>1 DEF BareStep, Solid
<1>2. x.at \in Batching =>
       /\ DOMAIN x.prepared # {}
       /\ \A q \in DOMAIN x.prepared :
            /\ q > x.last
            /\ \A r \in Ids : Bare(r)' /\ r > x.last /\ r <= q => r \in DOMAIN x.prepared
  BY DEF BareStep, Solid
<1>3. /\ x.at = "retry_update" /\ Bare(RowOf(x))' => RowOf(x) \in DOMAIN x.prepared
      /\ x.at = "retry_delete" => ~Bare(RowOf(x))'
  BY DEF BareStep, Solid
<1>4. /\ x.at \in {"prepare", "batch", "select", "save"} => x.left = {}
      /\ x.at \in {"rows", "record"} \cup Retrying => x.left # {}
  BY DEF Solid
<1> QED
  BY <1>1, <1>2, <1>3, <1>4 DEF Solid

(* What a run is to save stays saved while rows only get better.           *)
LEMMA SavedKept ==
  ASSUME BareStep, FailuresKept, ~exposed', NEW x, Saved(x)
  PROVE  Saved(x)'
  BY DEF BareStep, FailuresKept, Saved

(* A run that takes a step; y is what it is at then.                       *)
Took(u, y) == run' = [run EXCEPT ![u] = y]
RunKept(y) == Solid(y)' /\ (~exposed' => Saved(y)')

(* The record of a run, under a name without a prime.                      *)
LEMMA Known ==
  ASSUME FillInv, NEW u \in Runs
  PROVE  \E x \in RunRecord : x = run[u] /\ Solid(x) /\ (~exposed => Saved(x))
<1>1. PICK x \in RunRecord : x = run[u]
  BY DEF FillInv, FillTypes, RunTypes
<1> QED
  BY <1>1 DEF FillInv, RunsOK

(* A step of one run leaves the others.                                    *)
LEMMA OtherRun ==
  ASSUME FillInv, BareStep, FailuresKept, NEW v \in Runs, run'[v] = run[v]
  PROVE  Solid(run[v])' /\ (~exposed' => Saved(run[v])')
<1>1. PICK x \in RunRecord : x = run[v] /\ Solid(x) /\ (~exposed => Saved(x))
  BY Known
<1>2. Solid(x)'
  BY <1>1, SolidKept
<1>3. ~exposed' => Saved(x)'
  BY <1>1, SavedKept DEF FailuresKept
<1> QED
  BY <1>1, <1>2, <1>3 DEF Solid, Saved

(* A step of a run keeps RunsOK if its own new record is sound.            *)
LEMMA RunStep ==
  ASSUME FillInv, BareStep, FailuresKept,
         NEW u \in Runs, NEW y \in RunRecord, Took(u, y), RunKept(y)
  PROVE  RunsOK' /\ RunTypes'
<1>1. run \in [Runs -> RunRecord]
  BY DEF FillInv, FillTypes, RunTypes
<1>2. run' \in [Runs -> RunRecord] /\ run'[u] = y /\ \A v \in Runs \ {u} : run'[v] = run[v]
  BY <1>1 DEF Took
<1>3. ASSUME NEW v \in Runs PROVE Solid(run[v])' /\ (~exposed' => Saved(run[v])')
  <2>1. CASE v = u
    BY <1>2, <2>1 DEF RunKept, Solid, Saved
  <2>2. CASE v # u
    BY <1>2, <2>2, OtherRun
  <2> QED
    BY <2>1, <2>2
<1> QED
  BY <1>2, <1>3 DEF RunsOK, RunTypes

(* So does a step of no run.                                               *)
LEMMA NoRunStep ==
  ASSUME FillInv, BareStep, FailuresKept, UNCHANGED run
  PROVE  RunsOK' /\ RunTypes'
<1>1. ASSUME NEW v \in Runs PROVE Solid(run[v])' /\ (~exposed' => Saved(run[v])')
  BY OtherRun
<1> QED
  BY <1>1 DEF RunsOK, RunTypes, FillInv, FillTypes

(* What was passed stays recorded if no row becomes bare and none is       *)
(* dropped from the record.                                                *)
LEMMA SkipStep ==
  ASSUME FillInv, BareStep, FailuresKept, mark'.last \in Nat, mark'.last <= mark.last
  PROVE  Skipped'
<1>1. mark.last \in Nat /\ \A r \in Ids : r \in Nat
  BY RowsAssumption DEF FillInv, FillTypes, MarkTypes, Ids
<1> SUFFICES ASSUME ~exposed', NEW r \in Ids, Bare(r)', r <= mark'.last
             PROVE  r \in failures'
  BY DEF Skipped
<1>2. ~exposed /\ Bare(r) /\ r <= mark.last
  BY <1>1 DEF BareStep, FailuresKept
<1> QED
  BY <1>2 DEF FillInv, Skipped, FailuresKept

(* Phases in which a run has nothing in hand.                              *)
Outside == {"idle", "clear_failures", "clear_watermark", "insert", "load", "complete"}

(* A run that goes to a phase outside a batch has nothing to answer for.   *)
LEMMA GoesOutside ==
  ASSUME BareStep, NEW x \in RunRecord, Solid(x), NEW phase \in Outside
  PROVE  [x EXCEPT !.at = phase] \in RunRecord /\ RunKept([x EXCEPT !.at = phase])
<1>1. PICK y : y = [x EXCEPT !.at = phase]
  OBVIOUS
<1>2. y \in RunRecord /\ y.at = phase /\ y.prepared = x.prepared
  BY <1>1 DEF RunRecord, Outside, RunPhases
<1>3. Solid(y)'
  <2>1. \A r \in DOMAIN x.prepared : Bare(r)' => x.prepared[r] = rows'[r].content
    BY DEF BareStep, Solid
  <2> QED
    BY <1>2, <2>1 DEF Solid, Outside, Batching, Retrying
<1>4. Saved(y)'
  BY <1>2 DEF Saved, Outside
<1> QED
  BY <1>1, <1>2, <1>3, <1>4 DEF RunKept

(* The idle record is a record of a run.                                   *)
LEMMA IdleType ==
  /\ Idle \in RunRecord /\ Idle.at = "idle" /\ Idle.left = {} /\ DOMAIN Idle.prepared = {} /\ Idle.last = 0
<1>1. <<>> \in [{} -> Contents]
  OBVIOUS
<1>2. <<>> \in Prepared
  BY <1>1 DEF Prepared
<1>3. 0 \in 0 .. LastRow
  BY RowsAssumption
<1> QED
  BY <1>2, <1>3 DEF Idle, RunRecord, RunPhases

(* A run that has prepared nothing yet.                                    *)
Afresh(phase, last, left) == [at |-> phase, last |-> last, prepared |-> <<>>, left |-> left]

Begins(phase, last) == [Idle EXCEPT !.at = phase, !.last = last]
Retries(left)       == [Idle EXCEPT !.at = "retry", !.left = left]

(* The record of a run that starts or starts over, field by field.         *)
LEMMA FreshIs ==
  ASSUME NEW phase, NEW last, NEW left
  PROVE  /\ Begins(phase, last) = Afresh(phase, last, {})
         /\ Retries(left) = Afresh("retry", 0, left)
<1>1. PICK none : none = <<>>
  OBVIOUS
<1>2. Idle = [at |-> "idle", last |-> 0, prepared |-> none, left |-> {}]
  BY <1>1 DEF Idle
<1>3. \A a, p, q : Afresh(a, p, q) = [at |-> a, last |-> p, prepared |-> none, left |-> q]
  BY <1>1 DEF Afresh
<1>4. PICK z : z = [at |-> phase, last |-> 0, prepared |-> none, left |-> {}]
  OBVIOUS
<1>5. z = [Idle EXCEPT !.at = phase]
  BY <1>2, <1>4
<1>6. [z EXCEPT !.last = last] = [at |-> phase, last |-> last, prepared |-> none, left |-> {}]
  BY <1>4
<1>7. PICK w : w = [at |-> "retry", last |-> 0, prepared |-> none, left |-> {}]
  OBVIOUS
<1>8. w = [Idle EXCEPT !.at = "retry"]
  BY <1>2, <1>7
<1>9. [w EXCEPT !.left = left] = [at |-> "retry", last |-> 0, prepared |-> none, left |-> left]
  BY <1>7
<1>10. Begins(phase, last) = Afresh(phase, last, {})
  BY <1>3, <1>5, <1>6 DEF Begins
<1>11. Retries(left) = Afresh("retry", 0, left)
  BY <1>3, <1>8, <1>9 DEF Retries
<1> QED
  BY <1>10, <1>11

HasInHand(phase, left) == (phase = "prepare" /\ left = {}) \/ (phase = "retry" /\ left # {})

(* The same, under the operator's name.                                    *)
LEMMA StartsAfresh ==
  ASSUME NEW phase, NEW last \in 0 .. LastRow, NEW left \in SUBSET Ids, HasInHand(phase, left),
         NEW y, y = Afresh(phase, last, left)
  PROVE  y \in RunRecord /\ RunKept(y)
<1>0. <<>> \in Prepared /\ DOMAIN <<>> = {}
  BY IdleType DEF Idle, RunRecord
<1>1. y \in RunRecord /\ y.at = phase /\ y.left = left /\ DOMAIN y.prepared = {}
  BY <1>0 DEF Afresh, RunRecord, RunPhases, Retrying, HasInHand
<1>2. Solid(y)'
  BY <1>1 DEF Solid, Outside, Batching, Retrying, HasInHand
<1>3. Saved(y)'
  BY <1>1 DEF Saved, Outside, HasInHand
<1> QED
  BY <1>1, <1>2, <1>3 DEF RunKept

(* A run that has read the watermark begins at what it read.               *)
LEMMA BeginsAfresh ==
  ASSUME NEW last \in 0 .. LastRow
  PROVE  \E y \in RunRecord : y = Begins("prepare", last) /\ RunKept(y)
<1>1. PICK none \in SUBSET Ids : none = {}
  OBVIOUS
<1>2. PICK y : y = Afresh("prepare", last, none)
  OBVIOUS
<1>3. HasInHand("prepare", none)
  BY <1>1 DEF HasInHand
<1>4. y \in RunRecord /\ RunKept(y)
  BY <1>2, <1>3, StartsAfresh
<1> QED
  BY <1>1, <1>2, <1>4, FreshIs

(* A retry begins with the rows it is to take.                             *)
LEMMA RetriesAfresh ==
  ASSUME NEW left \in SUBSET Ids, left # {}
  PROVE  \E y \in RunRecord : y = Retries(left) /\ RunKept(y)
<1>1. PICK y : y = Afresh("retry", 0, left)
  OBVIOUS
<1>2. y \in RunRecord /\ RunKept(y)
  <2>1. 0 \in 0 .. LastRow
    BY RowsAssumption
  <2>2. HasInHand("retry", left)
    BY DEF HasInHand
  <2> QED
    BY <1>1, <2>1, <2>2, StartsAfresh
<1> QED
  BY <1>1, <1>2, FreshIs

(* A run that ends is idle.                                                *)
LEMMA Stops ==
  Idle \in RunRecord /\ RunKept(Idle)
<1>1. PICK y \in RunRecord : y = Idle
  BY IdleType
<1>2. y.at = "idle" /\ DOMAIN y.prepared = {}
  BY <1>1, IdleType
<1>3. Solid(y)' /\ Saved(y)'
  BY <1>2 DEF Solid, Saved, Batching, Retrying
<1> QED
  BY <1>1, <1>3 DEF RunKept

-----------------------------------------------------------------------------
(* The steps that begin or end a run, or clear what an earlier one left.   *)

(* What every step of a run leaves right, apart from the types of the rest.*)
Advances == RunsOK' /\ RunTypes' /\ Skipped'

(* The watermark lies in the table.                                        *)
LEMMA WatermarkType ==
  ASSUME FillInv
  PROVE  /\ mark.last \in Nat /\ mark.last \in 0 .. LastRow
         /\ mark.status = "absent" => mark = NoMark
         /\ NoMark.last = 0 /\ FirstMark.last = 0 /\ 0 \in 0 .. LastRow
  BY RowsAssumption DEF FillInv, FillTypes, MarkTypes, NoMark, FirstMark

(* No row leaves the record if the record stays.                           *)
LEMMA FailuresUnchanged == UNCHANGED <<failures, exposed>> => FailuresKept
  BY DEF FailuresKept

(* InsertWatermark passes no row.                                          *)
LEMMA WatermarkStep ==
  ASSUME FillInv, NEW u \in Runs, InsertWatermark(u)
  PROVE  Advances
<1>1. PICK x \in RunRecord : x = run[u] /\ Solid(x)
  BY Known
<1>2. BareStep /\ FailuresKept
  BY BareUnchanged, FailuresUnchanged DEF InsertWatermark, history
<1>3. PICK y \in RunRecord : y = [x EXCEPT !.at = "load"] /\ RunKept(y)
  BY <1>1, <1>2, GoesOutside DEF Outside
<1>4. Took(u, y)
  BY <1>1, <1>3 DEF InsertWatermark, Goto, Took
<1>5. mark'.last \in Nat /\ mark'.last <= mark.last
  BY WatermarkType DEF InsertWatermark
<1> QED
  BY <1>2, <1>3, <1>4, <1>5, RunStep, SkipStep DEF Advances

(* BeginRestart changes nothing but the run.                               *)
LEMMA RestartStep ==
  ASSUME FillInv, NEW u \in Runs, BeginRestart(u)
  PROVE  Advances
<1>1. PICK x \in RunRecord : x = run[u] /\ Solid(x)
  BY Known
<1>2. BareStep /\ FailuresKept
  BY BareUnchanged, FailuresUnchanged DEF BeginRestart, history
<1>3. PICK y \in RunRecord : y = [x EXCEPT !.at = "clear_failures"] /\ RunKept(y)
  BY <1>1, <1>2, GoesOutside DEF Outside
<1>4. Took(u, y)
  BY <1>1, <1>3 DEF BeginRestart, Goto, Took
<1>5. mark'.last \in Nat /\ mark'.last <= mark.last
  BY WatermarkType DEF BeginRestart
<1> QED
  BY <1>2, <1>3, <1>4, <1>5, RunStep, SkipStep DEF Advances

(* While others are at work, or under a watermark that has moved, clearing *)
(* the failures exposes them.  If not, nobody else has anything in hand.   *)
LEMMA ClearsAlone ==
  ASSUME FillInv, BareStep, NEW u \in Runs, NEW y \in RunRecord, Took(u, y), RunKept(y),
         ~exposed' => ~Overlaps(u)
  PROVE  RunsOK' /\ RunTypes'
<1>1. run \in [Runs -> RunRecord]
  BY DEF FillInv, FillTypes, RunTypes
<1>2. run' \in [Runs -> RunRecord] /\ run'[u] = y /\ \A v \in Runs \ {u} : run'[v] = run[v]
  BY <1>1 DEF Took
<1>3. ASSUME NEW v \in Runs PROVE Solid(run[v])' /\ (~exposed' => Saved(run[v])')
  <2>1. CASE v = u
    BY <1>2, <2>1 DEF RunKept, Solid, Saved
  <2>2. CASE v # u
    <3>1. PICK x \in RunRecord : x = run[v] /\ Solid(x)
      BY Known
    <3>2. Solid(x)' /\ run'[v] = x
      BY <1>2, <2>2, <3>1, SolidKept
    <3>3. ~exposed' => x.at = "idle"
      BY <2>2, <3>1 DEF Overlaps, At
    <3>4. ~exposed' => Saved(x)'
      BY <3>3 DEF Saved
    <3> QED
      BY <3>2, <3>4 DEF Solid, Saved
  <2> QED
    BY <2>1, <2>2
<1> QED
  BY <1>2, <1>3 DEF RunsOK, RunTypes

(* Failures cleared under a watermark that has passed rows set exposed.    *)
LEMMA ClearFailuresStep ==
  ASSUME FillInv, NEW u \in Runs, ClearFailures(u)
  PROVE  Advances
<1>1. PICK x \in RunRecord : x = run[u] /\ Solid(x)
  BY Known
<1>2. BareStep
  BY BareUnchanged DEF ClearFailures
<1>3. PICK y \in RunRecord : y = [x EXCEPT !.at = "clear_watermark"] /\ RunKept(y)
  BY <1>1, <1>2, GoesOutside DEF Outside
<1>4. Took(u, y)
  BY <1>1, <1>3 DEF ClearFailures, Goto, Took
<1>5. exposed' = (exposed \/ mark.last > 0 \/ Overlaps(u)) /\ mark' = mark
  BY DEF ClearFailures
<1>6. RunsOK' /\ RunTypes'
  BY <1>2, <1>3, <1>4, <1>5, ClearsAlone
<1>7. ~exposed' => mark'.last = 0
  <2> SUFFICES ASSUME ~exposed' PROVE mark.last = 0
    BY <1>5
  <2>1. ~(mark.last > 0)
    BY <1>5
  <2> QED
    BY <2>1, WatermarkType
<1>8. \A r \in Ids : ~(r <= 0)
  BY RowsAssumption DEF Ids
<1>9. Skipped'
  BY <1>7, <1>8 DEF Skipped
<1> QED
  BY <1>6, <1>9 DEF Advances

(* Once the watermark is gone nothing is passed.                           *)
LEMMA ClearWatermarkStep ==
  ASSUME FillInv, NEW u \in Runs, ClearWatermark(u)
  PROVE  Advances
<1>1. PICK x \in RunRecord : x = run[u] /\ Solid(x)
  BY Known
<1>2. BareStep
  BY BareUnchanged DEF ClearWatermark
<1>3. PICK y \in RunRecord : y = [x EXCEPT !.at = "insert"] /\ RunKept(y)
  BY <1>1, <1>2, GoesOutside DEF Outside
<1>4. Took(u, y)
  BY <1>1, <1>3 DEF ClearWatermark, Goto, Took
<1>5. exposed' = Overlaps(u) /\ mark' = NoMark
  BY DEF ClearWatermark
<1>6. RunsOK' /\ RunTypes'
  BY <1>2, <1>3, <1>4, <1>5, ClearsAlone
<1>7. mark'.last = 0
  BY <1>5, WatermarkType
<1>8. \A r \in Ids : ~(r <= 0)
  BY RowsAssumption DEF Ids
<1>9. Skipped'
  BY <1>7, <1>8 DEF Skipped
<1> QED
  BY <1>6, <1>9 DEF Advances

(* A run starts where the watermark is.                                    *)
LEMMA LoadStep ==
  ASSUME FillInv, NEW u \in Runs, LoadWatermark(u)
  PROVE  Advances
<1>1. BareStep /\ FailuresKept /\ mark' = mark
  BY BareUnchanged, FailuresUnchanged DEF LoadWatermark, history
<1>2. PICK last \in 0 .. LastRow : last = mark.last
  BY WatermarkType
<1>3. CASE mark.status = "running"
  <2>1. PICK y \in RunRecord : y = Begins("prepare", last) /\ RunKept(y)
    BY <1>2, BeginsAfresh
  <2>2. Took(u, y)
    BY <1>2, <1>3, <2>1 DEF LoadWatermark, Took, Begins
  <2> QED
    BY <1>1, <2>1, <2>2, RunStep, SkipStep, WatermarkType DEF Advances
<1>4. CASE mark.status # "running"
  <2>1. Took(u, Idle)
    BY <1>4 DEF LoadWatermark, Took
  <2>2. RunsOK' /\ RunTypes'
    <3>1. PICK y \in RunRecord : y = Idle /\ RunKept(y)
      BY Stops
    <3> QED
      BY <1>1, <2>1, <3>1, RunStep
  <2> QED
    BY <1>1, <2>2, SkipStep, WatermarkType DEF Advances
<1> QED
  BY <1>3, <1>4

(* A run that ends leaves the watermark and the record.                    *)
LEMMA StopStep ==
  ASSUME FillInv, NEW u \in Runs, Took(u, Idle), UNCHANGED <<rows, untokened, failures, exposed>>,
         mark'.last = mark.last
  PROVE  Advances
<1>1. BareStep /\ FailuresKept
  BY BareUnchanged, FailuresUnchanged
<1>2. PICK y \in RunRecord : y = Idle /\ RunKept(y)
  BY Stops
<1> QED
  BY <1>1, <1>2, RunStep, SkipStep, WatermarkType DEF Advances

(* A retry takes the rows on record.                                       *)
LEMMA BeginRetryStep ==
  ASSUME FillInv, NEW u \in Runs, BeginRetry(u)
  PROVE  Advances
<1>1. BareStep /\ FailuresKept /\ mark' = mark
  BY BareUnchanged, FailuresUnchanged DEF BeginRetry, history
<1>2. PICK left \in SUBSET Ids : left = failures /\ left # {}
  BY DEF BeginRetry, FillInv, FillTypes, MarkTypes
<1>3. PICK y \in RunRecord : y = Retries(left) /\ RunKept(y)
  BY <1>2, RetriesAfresh
<1>4. Took(u, y)
  BY <1>2, <1>3 DEF BeginRetry, Took, Retries
<1> QED
  BY <1>1, <1>3, <1>4, RunStep, SkipStep, WatermarkType DEF Advances

-----------------------------------------------------------------------------
(* The steps of a batch.                                                   *)

Prepares(x, phase, p)    == [x EXCEPT !.at = phase, !.prepared = p]
Lists(x, phase, left)    == [x EXCEPT !.at = phase, !.left = left]
Leaves(x, left, phase)   == [x EXCEPT !.left = left, !.at = phase]
Enters(x, phase)         == [x EXCEPT !.at = phase]

(* The fields of a record after two of them are replaced.                  *)
LEMMA FieldsAfter ==
  ASSUME NEW x \in RunRecord, NEW phase \in RunPhases, NEW p \in Prepared, NEW left \in SUBSET Ids
  PROVE  /\ Prepares(x, phase, p) \in RunRecord /\ Prepares(x, phase, p).at = phase
         /\ Prepares(x, phase, p).last = x.last /\ Prepares(x, phase, p).left = x.left
         /\ Prepares(x, phase, p).prepared = p
         /\ Lists(x, phase, left) \in RunRecord /\ Lists(x, phase, left).at = phase
         /\ Lists(x, phase, left).last = x.last /\ Lists(x, phase, left).left = left
         /\ Lists(x, phase, left).prepared = x.prepared
         /\ Leaves(x, left, phase) \in RunRecord /\ Leaves(x, left, phase).at = phase
         /\ Leaves(x, left, phase).last = x.last /\ Leaves(x, left, phase).left = left
         /\ Leaves(x, left, phase).prepared = x.prepared
         /\ Enters(x, phase) \in RunRecord /\ Enters(x, phase).at = phase
         /\ Enters(x, phase).last = x.last /\ Enters(x, phase).left = x.left
         /\ Enters(x, phase).prepared = x.prepared
<1>1. PICK z : z = [x EXCEPT !.at = phase]
  OBVIOUS
<1>2. /\ z \in RunRecord /\ z.at = phase /\ z.last = x.last
      /\ z.left = x.left /\ z.prepared = x.prepared
  BY <1>1 DEF RunRecord
<1>3. PICK w : w = [x EXCEPT !.left = left]
  OBVIOUS
<1>4. /\ w \in RunRecord /\ w.at = x.at /\ w.last = x.last
      /\ w.left = left /\ w.prepared = x.prepared
  BY <1>3 DEF RunRecord
<1>5. PICK a : a = [z EXCEPT !.prepared = p]
  OBVIOUS
<1>6. /\ a \in RunRecord /\ a.at = phase /\ a.last = x.last
      /\ a.left = x.left /\ a.prepared = p
  BY <1>2, <1>5 DEF RunRecord
<1>7. PICK b : b = [z EXCEPT !.left = left]
  OBVIOUS
<1>8. /\ b \in RunRecord /\ b.at = phase /\ b.last = x.last
      /\ b.left = left /\ b.prepared = x.prepared
  BY <1>2, <1>7 DEF RunRecord
<1>9. PICK c : c = [w EXCEPT !.at = phase]
  OBVIOUS
<1>10. /\ c \in RunRecord /\ c.at = phase /\ c.last = x.last
      /\ c.left = left /\ c.prepared = x.prepared
  BY <1>4, <1>9 DEF RunRecord
<1>11. /\ Enters(x, phase) = z /\ Prepares(x, phase, p) = a
       /\ Lists(x, phase, left) = b /\ Leaves(x, left, phase) = c
  BY <1>1, <1>3, <1>5, <1>7, <1>9 DEF Enters, Prepares, Lists, Leaves
<1> QED
  BY <1>2, <1>6, <1>8, <1>10, <1>11

(* The fields of a run that enters a phase,                                *)
LEMMA Entered ==
  ASSUME NEW x \in RunRecord, NEW phase \in RunPhases
  PROVE  /\ Enters(x, phase) \in RunRecord /\ Enters(x, phase).at = phase
         /\ Enters(x, phase).last = x.last /\ Enters(x, phase).left = x.left
         /\ Enters(x, phase).prepared = x.prepared
<1>1. x.prepared \in Prepared /\ x.left \in SUBSET Ids
  BY DEF RunRecord
<1> QED
  BY <1>1, FieldsAfter

(* that has prepared rows,                                                 *)
LEMMA PreparedThen ==
  ASSUME NEW x \in RunRecord, NEW phase \in RunPhases, NEW p \in Prepared
  PROVE  /\ Prepares(x, phase, p) \in RunRecord /\ Prepares(x, phase, p).at = phase
         /\ Prepares(x, phase, p).last = x.last /\ Prepares(x, phase, p).left = x.left
         /\ Prepares(x, phase, p).prepared = p
<1>1. x.left \in SUBSET Ids
  BY DEF RunRecord
<1> QED
  BY <1>1, FieldsAfter

(* and that has rows left to take.                                         *)
LEMMA LeftThen ==
  ASSUME NEW x \in RunRecord, NEW phase \in RunPhases, NEW left \in SUBSET Ids
  PROVE  /\ Lists(x, phase, left) \in RunRecord /\ Lists(x, phase, left).at = phase
         /\ Lists(x, phase, left).last = x.last /\ Lists(x, phase, left).left = left
         /\ Lists(x, phase, left).prepared = x.prepared
         /\ Leaves(x, left, phase) \in RunRecord /\ Leaves(x, left, phase).at = phase
         /\ Leaves(x, left, phase).last = x.last /\ Leaves(x, left, phase).left = left
         /\ Leaves(x, left, phase).prepared = x.prepared
<1>1. x.prepared \in Prepared
  BY DEF RunRecord
<1> QED
  BY <1>1, FieldsAfter

(* The row a run is at is one of those it has left.                        *)
LEMMA RowIsFirst ==
  ASSUME NEW u \in Runs, NEW x \in RunRecord, x = run[u]
  PROVE  /\ Row(u) = RowOf(x)
         /\ x.left # {} => RowOf(x) \in x.left /\ RowOf(x) \in Ids
<1>1. Row(u) = RowOf(x)
  BY DEF Row, RowOf
<1>2. x.left \in SUBSET Ids /\ x.left \in SUBSET Nat
  BY RowsAssumption DEF RunRecord, Ids
<1>3. x.left # {} => Min(x.left) \in x.left
  BY <1>2, LeastId
<1> QED
  BY <1>1, <1>2, <1>3 DEF RowOf

(* What was made of a bare row may be stored in it.                        *)
LEMMA BareIsEligible ==
  ASSUME NEW u \in Runs, NEW x, x = run[u], Solid(x), NEW r \in DOMAIN x.prepared, Bare(r)
  PROVE  r \in Eligible(u)
  BY DEF Solid, Eligible, Bare

(* Contents of some of the rows.                                           *)
LEMMA PreparedType ==
  ASSUME FillInv, NEW S \in SUBSET Ids, \A r \in S : Missing(r)
  PROVE  [r \in S |-> rows[r].content] \in Prepared
<1>1. \A r \in S : rows[r].content \in Contents
  BY DEF FillInv, FillTypes, RowsOK, StoredRow, Missing
<1>2. [r \in S |-> rows[r].content] \in [S -> Contents]
  BY <1>1
<1> QED
  BY <1>2 DEF Prepared

(* The batch holds every bare row up to its greatest id.                   *)
LEMMA PrepareStep ==
  ASSUME FillInv, NEW u \in Runs, PrepareBatch(u)
  PROVE  Advances
<1>1. PICK x \in RunRecord : x = run[u] /\ Solid(x)
  BY Known
<1>2. BareStep /\ FailuresKept /\ mark' = mark /\ UNCHANGED <<rows, untokened>>
  BY BareUnchanged, FailuresUnchanged DEF PrepareBatch, history
<1>3. x.at = "prepare" /\ x.left = {} /\ x.last \in 0 .. LastRow
  BY <1>1 DEF PrepareBatch, At, Solid, RunRecord
<1>4. PICK C \in SUBSET Ids : C = Candidates(u) /\ \A r \in C : Missing(r) /\ r > x.last
  <2>1. Candidates(u) \in SUBSET Ids
    BY DEF Candidates
  <2>2. \A r \in Candidates(u) : Missing(r) /\ r > x.last
    BY <1>1 DEF Candidates
  <2> QED
    BY <2>1, <2>2
<1>5. PICK batch \in SUBSET Ids : batch = FirstOf(BatchSize, C)
  BY FirstOfType
<1>6. /\ batch \subseteq C
      /\ \A q \in batch : \A r \in C : r <= q => r \in batch
  BY <1>5, FirstOfType
<1>7. PICK p \in Prepared : p = [r \in batch |-> rows[r].content]
  BY <1>4, <1>6, PreparedType
<1>8. PICK phase \in RunPhases : phase = IF batch = {} THEN "complete" ELSE "batch"
  BY DEF RunPhases, Batching
<1>9. PICK y \in RunRecord : /\ y = Prepares(x, phase, p) /\ y.at = phase /\ y.last = x.last
                             /\ y.left = {} /\ y.prepared = p
  BY <1>3, PreparedThen
<1>10. Took(u, y)
  BY <1>1, <1>4, <1>5, <1>7, <1>8, <1>9 DEF PrepareBatch, Took, Prepares
<1>11. DOMAIN y.prepared = batch /\ \A r \in batch : y.prepared[r] = rows'[r].content
  BY <1>2, <1>7, <1>9
<1>12. \A r \in Ids : Bare(r)' /\ r > y.last => r \in C
  BY <1>1, <1>2, <1>4, <1>9 DEF Bare, Missing, Candidates
<1>13. y.at = "batch" => batch # {}
  BY <1>8, <1>9
<1>14. Solid(y)'
  <2>1. y.at \in {"complete", "batch"}
    BY <1>8, <1>9
  <2>2. \A q \in batch : q > y.last /\ \A r \in Ids : Bare(r)' /\ r > y.last /\ r <= q => r \in batch
    BY <1>4, <1>6, <1>9, <1>12
  <2> QED
    BY <1>9, <1>11, <1>13, <2>1, <2>2 DEF Solid, Batching, Retrying
<1>15. Saved(y)'
  BY <1>8, <1>9 DEF Saved
<1> QED
  BY <1>2, <1>10, <1>14, <1>15, RunStep, SkipStep, WatermarkType DEF Advances, RunKept

(* After the batch none of its rows is bare that is still as it was read.  *)
LEMMA UpdateBatchStep ==
  ASSUME FillInv, NEW u \in Runs, UpdateBatch(u)
  PROVE  Advances
<1>1. PICK x \in RunRecord : x = run[u] /\ Solid(x)
  BY Known
<1>2. FailuresKept /\ mark' = mark /\ UNCHANGED untokened
  BY FailuresUnchanged DEF UpdateBatch, history
<1>3. x.at = "batch" /\ x.left = {}
  BY <1>1 DEF UpdateBatch, At, Solid
<1>4. CASE Eligible(u) \cap broken = {}
  <2>1. SetTokens(Eligible(u), u) /\ Goto(u, "save")
    BY <1>4 DEF UpdateBatch
  <2>2. BareStep /\ \A r \in Eligible(u) : ~Bare(r)'
    BY <1>2, <2>1, BareFill DEF FillInv
  <2>3. PICK y \in RunRecord : /\ y = Enters(x, "save") /\ y.at = "save" /\ y.last = x.last
                               /\ y.left = {} /\ y.prepared = x.prepared
    BY <1>3, Entered DEF RunPhases, Batching
  <2>4. Took(u, y)
    BY <1>1, <2>1, <2>3 DEF Goto, Took, Enters
  <2>5. Solid(x)'
    BY <1>1, <2>2, SolidKept
  <2>6. Solid(y)'
    BY <1>3, <2>3, <2>5 DEF Solid, Batching, Retrying
  <2>7. \A r \in DOMAIN x.prepared : ~Bare(r)'
    BY <1>1, <2>2, BareIsEligible DEF BareStep
  <2>8. Saved(y)'
    BY <2>3, <2>7 DEF Saved
  <2> QED
    BY <1>2, <2>2, <2>4, <2>6, <2>8, RunStep, SkipStep, WatermarkType DEF Advances, RunKept
<1>5. CASE Eligible(u) \cap broken # {}
  <2>1. UNCHANGED rows /\ Goto(u, "select")
    BY <1>5 DEF UpdateBatch
  <2>2. BareStep
    BY <1>2, <2>1, BareUnchanged
  <2>3. PICK y \in RunRecord : /\ y = Enters(x, "select") /\ y.at = "select" /\ y.last = x.last
                               /\ y.left = {} /\ y.prepared = x.prepared
    BY <1>3, Entered DEF RunPhases, Batching
  <2>4. Took(u, y)
    BY <1>1, <2>1, <2>3 DEF Goto, Took, Enters
  <2>5. Solid(x)'
    BY <1>1, <2>2, SolidKept
  <2>6. Solid(y)'
    BY <1>3, <2>3, <2>5 DEF Solid, Batching, Retrying
  <2>7. Saved(y)'
    BY <2>3 DEF Saved
  <2> QED
    BY <1>2, <2>2, <2>4, <2>6, <2>7, RunStep, SkipStep, WatermarkType DEF Advances, RunKept
<1> QED
  BY <1>4, <1>5

(* The rows to be taken one by one are those still as they were read.      *)
LEMMA SelectStep ==
  ASSUME FillInv, NEW u \in Runs, SelectBatchIds(u)
  PROVE  Advances
<1>1. PICK x \in RunRecord : x = run[u] /\ Solid(x)
  BY Known
<1>2. FailuresKept /\ BareStep /\ mark' = mark /\ UNCHANGED <<rows, untokened, failures, exposed>>
  BY FailuresUnchanged, BareUnchanged DEF SelectBatchIds, history
<1>3. x.at = "select"
  BY <1>1 DEF SelectBatchIds, At
<1>4. CASE Eligible(u) = {}
  <2>1. Took(u, Idle)
    BY <1>4 DEF SelectBatchIds, Took
  <2> QED
    BY <1>2, <2>1, StopStep
<1>5. CASE Eligible(u) # {}
  <2>1. PICK left \in SUBSET Ids : left = Eligible(u)
    BY <1>1 DEF Eligible, Missing, FillInv, FillTypes
  <2>2. PICK y \in RunRecord : /\ y = Lists(x, "rows", left) /\ y.at = "rows" /\ y.last = x.last
                               /\ y.left = left /\ y.prepared = x.prepared
    <3>1. "rows" \in RunPhases
      BY DEF RunPhases, Batching
    <3> QED
      BY <3>1, LeftThen
  <2>3. Took(u, y)
    BY <1>1, <1>5, <2>1, <2>2 DEF SelectBatchIds, Took, Lists
  <2>4. Solid(x)'
    BY <1>1, <1>2, SolidKept
  <2>5. Solid(y)'
    BY <1>3, <1>5, <2>1, <2>2, <2>4 DEF Solid, Batching, Retrying
  <2>6. \A r \in DOMAIN x.prepared : Bare(r)' => r \in left
    BY <1>1, <1>2, <2>1, BareIsEligible DEF BareStep
  <2>7. Saved(y)'
    BY <2>2, <2>6 DEF Saved
  <2> QED
    BY <1>2, <2>3, <2>5, <2>7, RunStep, SkipStep, WatermarkType DEF Advances, RunKept
<1> QED
  BY <1>4, <1>5

(* A row of a batch that was split up is done with.                        *)
LEMMA RowDoneStep ==
  ASSUME FillInv, NEW u \in Runs, NEW x \in RunRecord, x = run[u], Solid(x), ~exposed => Saved(x),
         x.at \in {"rows", "record"}, RowDone(u, "save"), BareStep, FailuresKept, UNCHANGED mark,
         Bare(RowOf(x))' /\ RowOf(x) \in DOMAIN x.prepared => RowOf(x) \in failures'
  PROVE  Advances
<1>1. x.left # {}
  BY DEF Solid
<1>2. Row(u) = RowOf(x) /\ RowOf(x) \in x.left
  BY <1>1, RowIsFirst
<1>3. PICK left \in SUBSET Ids : left = x.left \ {RowOf(x)}
  BY DEF RunRecord
<1>4. PICK phase \in RunPhases : phase = IF x.left = {RowOf(x)} THEN "save" ELSE "rows"
  BY DEF RunPhases, Batching
<1>5. PICK y \in RunRecord : /\ y = Leaves(x, left, phase) /\ y.at = phase /\ y.last = x.last
                             /\ y.left = left /\ y.prepared = x.prepared
  BY LeftThen
<1>6. Took(u, y)
  BY <1>2, <1>3, <1>4, <1>5 DEF RowDone, Took, Leaves
<1>7. Solid(x)'
  BY SolidKept
<1>8. phase \in {"save", "rows"} /\ (phase = "save" => left = {}) /\ (phase = "rows" => left # {})
  BY <1>1, <1>2, <1>3, <1>4
<1>9. Solid(y)'
  BY <1>5, <1>7, <1>8 DEF Solid, Batching, Retrying
<1>10. ~exposed' => Saved(y)'
  <2> SUFFICES ASSUME ~exposed', NEW r \in DOMAIN x.prepared, Bare(r)' PROVE r \in left \cup failures'
    BY <1>5 DEF Saved
  <2>1. Saved(x)'
    BY SavedKept DEF FailuresKept
  <2>2. r \in x.left \cup failures'
    BY <2>1 DEF Saved
  <2> QED
    BY <1>3, <2>2
<1> QED
  BY <1>5, <1>6, <1>9, <1>10, RunStep, SkipStep, WatermarkType DEF Advances, RunKept

(* A row that was taken is filled, or goes on record next.                 *)
LEMMA UpdateRowStep ==
  ASSUME FillInv, NEW u \in Runs, UpdateRow(u)
  PROVE  Advances
<1>1. PICK x \in RunRecord : x = run[u] /\ Solid(x) /\ (~exposed => Saved(x))
  BY Known
<1>2. FailuresKept /\ mark' = mark /\ UNCHANGED <<untokened, failures, exposed>>
  BY FailuresUnchanged DEF UpdateRow, history
<1>3. x.at = "rows" /\ Row(u) = RowOf(x)
  BY <1>1, RowIsFirst DEF UpdateRow, At
<1>4. CASE Row(u) \in Eligible(u) \cap broken
  <2>1. UNCHANGED rows /\ Goto(u, "record")
    BY <1>4 DEF UpdateRow
  <2>2. BareStep
    BY <1>2, <2>1, BareUnchanged
  <2>3. PICK y \in RunRecord : /\ y = Enters(x, "record") /\ y.at = "record" /\ y.last = x.last
                               /\ y.left = x.left /\ y.prepared = x.prepared
    BY Entered DEF RunPhases, Batching
  <2>4. Took(u, y)
    BY <1>1, <2>1, <2>3 DEF Goto, Took, Enters
  <2>5. Solid(x)'
    BY <1>1, <2>2, SolidKept
  <2>6. Solid(y)'
    BY <1>3, <2>3, <2>5 DEF Solid, Batching, Retrying
  <2>7. ~exposed' => Saved(x)'
    BY <1>1, <1>2, <2>2, SavedKept
  <2>8. ~exposed' => Saved(y)'
    BY <1>3, <2>3, <2>7 DEF Saved
  <2> QED
    BY <1>2, <2>2, <2>4, <2>6, <2>8, RunStep, SkipStep, WatermarkType DEF Advances, RunKept
<1>5. CASE Row(u) \notin Eligible(u) \cap broken
  <2>1. SetTokens(Eligible(u) \cap {Row(u)}, u) /\ RowDone(u, "save")
    BY <1>5 DEF UpdateRow
  <2>2. BareStep /\ \A r \in Eligible(u) \cap {Row(u)} : ~Bare(r)'
    BY <1>2, <2>1, BareFill DEF FillInv
  <2>3. ASSUME Bare(RowOf(x))', RowOf(x) \in DOMAIN x.prepared PROVE FALSE
    <3>1. Bare(RowOf(x))
      BY <2>2, <2>3 DEF BareStep
    <3>2. RowOf(x) \in Eligible(u)
      BY <1>1, <2>3, <3>1, BareIsEligible
    <3> QED
      BY <1>3, <2>2, <2>3, <3>2
  <2> QED
    BY <1>1, <1>2, <1>3, <2>1, <2>2, <2>3, RowDoneStep
<1> QED
  BY <1>4, <1>5

(* A row on record may be left behind.                                     *)
LEMMA RecordStep ==
  ASSUME FillInv, NEW u \in Runs, RecordFailure(u)
  PROVE  Advances
<1>1. PICK x \in RunRecord : x = run[u] /\ Solid(x) /\ (~exposed => Saved(x))
  BY Known
<1>2. x.at = "record" /\ Row(u) = RowOf(x)
  BY <1>1, RowIsFirst DEF RecordFailure, At
<1>3. failures' = failures \cup {RowOf(x)} /\ UNCHANGED <<rows, mark, untokened, exposed>> /\ RowDone(u, "save")
  BY <1>2 DEF RecordFailure, Recorded, history
<1>4. BareStep /\ FailuresKept
  BY <1>3, BareUnchanged DEF FailuresKept
<1> QED
  BY <1>1, <1>2, <1>3, <1>4, RowDoneStep

(* The watermark moves over the batch, and what is bare in it is on        *)
(* record.                                                                 *)
LEMMA SaveStep ==
  ASSUME FillInv, NEW u \in Runs, SaveWatermark(u)
  PROVE  Advances
<1>1. PICK x \in RunRecord : x = run[u] /\ Solid(x) /\ (~exposed => Saved(x))
  BY Known
<1>2. BareStep /\ FailuresKept /\ UNCHANGED <<rows, untokened, failures, exposed>>
  BY BareUnchanged, FailuresUnchanged DEF SaveWatermark, history
<1>3. CASE ~Unmoved(u)
  <2>1. Took(u, Idle) /\ mark' = mark
    BY <1>3 DEF SaveWatermark, Took
  <2> QED
    BY <1>2, <2>1, StopStep
<1>4. CASE Unmoved(u)
  <2>1. x.at = "save" /\ x.left = {} /\ DOMAIN x.prepared \in SUBSET Ids /\ DOMAIN x.prepared # {}
    BY <1>1 DEF SaveWatermark, At, Solid, Batching, RunRecord, Prepared
  <2>2. PICK next : next = Max(DOMAIN x.prepared)
    OBVIOUS
  <2>3. next \in DOMAIN x.prepared /\ next \in 0 .. LastRow
    BY <2>1, <2>2, GreatestId, RowsAssumption DEF Ids
  <2>4. mark' = [mark EXCEPT !.last = next] /\ mark.last = x.last
    BY <1>1, <1>4, <2>2 DEF SaveWatermark, Unmoved
  <2>5. PICK y \in RunRecord : y = Begins("prepare", next) /\ RunKept(y)
    BY <2>3, BeginsAfresh
  <2>6. Took(u, y)
    BY <1>1, <1>4, <2>2, <2>5 DEF SaveWatermark, Took, Begins
  <2>7. mark'.last = next
    BY <2>4 DEF FillInv, FillTypes, MarkTypes
  <2>8. Skipped'
    <3> SUFFICES ASSUME ~exposed, NEW r \in Ids, Bare(r), r <= next
                 PROVE  r \in failures
      BY <1>2, <2>7 DEF Skipped, BareStep
    <3>1. CASE r <= mark.last
      BY <3>1 DEF FillInv, Skipped
    <3>2. CASE ~(r <= mark.last)
      <4>1. r > x.last
        BY <2>4, <3>2, WatermarkType, RowsAssumption DEF Ids
      <4>2. r \in DOMAIN x.prepared
        BY <1>1, <2>1, <2>3, <4>1 DEF Solid, Batching
      <4> QED
        BY <1>1, <2>1, <4>2 DEF Saved
    <3> QED
      BY <3>1, <3>2
  <2> QED
    BY <1>2, <2>5, <2>6, <2>8, RunStep DEF Advances
<1> QED
  BY <1>3, <1>4

(* MarkCompleted passes no row.                                            *)
LEMMA CompleteStep ==
  ASSUME FillInv, NEW u \in Runs, MarkCompleted(u)
  PROVE  Advances
<1>1. mark'.last = mark.last
  BY DEF MarkCompleted, FillInv, FillTypes, MarkTypes
<1> QED
  BY <1>1, StopStep DEF MarkCompleted, Took, history

-----------------------------------------------------------------------------
(* The steps of a retry.                                                   *)

(* A retry reads its row.                                                  *)
LEMMA RetryPrepareStep ==
  ASSUME FillInv, NEW u \in Runs, RetryPrepare(u)
  PROVE  Advances
<1>1. PICK x \in RunRecord : x = run[u] /\ Solid(x)
  BY Known
<1>2. BareStep /\ FailuresKept /\ mark' = mark /\ UNCHANGED <<rows, untokened>>
  BY BareUnchanged, FailuresUnchanged DEF RetryPrepare, history
<1>3. x.at = "retry" /\ x.left # {}
  BY <1>1 DEF RetryPrepare, At, Solid, Retrying
<1>4. Row(u) = RowOf(x) /\ RowOf(x) \in Ids
  BY <1>1, <1>3, RowIsFirst
<1>5. PICK S \in SUBSET Ids : S = {q \in {RowOf(x)} : Missing(q)}
  BY <1>4
<1>6. PICK p \in Prepared : p = [r \in S |-> rows[r].content]
  BY <1>5, PreparedType
<1>7. PICK y \in RunRecord : /\ y = Prepares(x, "retry_update", p) /\ y.at = "retry_update" /\ y.last = x.last
                             /\ y.left = x.left /\ y.prepared = p
  BY PreparedThen DEF RunPhases, Retrying
<1>8. Took(u, y)
  BY <1>1, <1>4, <1>5, <1>6, <1>7 DEF RetryPrepare, Took, Prepares
<1>9. DOMAIN y.prepared = S /\ \A r \in S : y.prepared[r] = rows'[r].content
  BY <1>2, <1>6, <1>7
<1>10. RowOf(y) = RowOf(x)
  BY <1>7 DEF RowOf
<1>11. Bare(RowOf(y))' => RowOf(y) \in S
  BY <1>2, <1>5, <1>10 DEF Bare, Missing
<1>12. Solid(y)'
  BY <1>3, <1>7, <1>9, <1>11 DEF Solid, Batching, Retrying
<1>13. Saved(y)'
  BY <1>7 DEF Saved
<1> QED
  BY <1>2, <1>8, <1>12, <1>13, RunStep, SkipStep, WatermarkType DEF Advances, RunKept

(* A retry fills its row, unless the update fails again.                   *)
LEMMA RetryUpdateStep ==
  ASSUME FillInv, NEW u \in Runs, RetryUpdate(u)
  PROVE  Advances
<1>1. PICK x \in RunRecord : x = run[u] /\ Solid(x)
  BY Known
<1>2. FailuresKept /\ mark' = mark /\ UNCHANGED untokened
  BY FailuresUnchanged DEF RetryUpdate, history
<1>3. x.at = "retry_update" /\ x.left # {}
  BY <1>1 DEF RetryUpdate, At, Solid, Retrying
<1>4. PICK phase \in {"retry_record", "retry_delete"} :
        /\ Goto(u, phase)
        /\ phase = "retry_record" => UNCHANGED rows
        /\ phase = "retry_delete" => SetTokens(Eligible(u), u)
  BY DEF RetryUpdate
<1>5. BareStep /\ (phase = "retry_delete" => \A r \in Eligible(u) : ~Bare(r)')
  <2>1. CASE phase = "retry_record"
    BY <1>2, <1>4, <2>1, BareUnchanged
  <2>2. CASE phase = "retry_delete"
    BY <1>2, <1>4, <2>2, BareFill DEF FillInv
  <2> QED
    BY <1>4, <2>1, <2>2
<1>6. phase \in RunPhases
  BY <1>4 DEF RunPhases, Retrying
<1>7. PICK y \in RunRecord : /\ y = Enters(x, phase) /\ y.at = phase /\ y.last = x.last
                             /\ y.left = x.left /\ y.prepared = x.prepared
  BY <1>6, Entered
<1>8. Took(u, y)
  BY <1>1, <1>4, <1>7 DEF Goto, Took, Enters
<1>9. RowOf(y) = RowOf(x) /\ Solid(x)'
  BY <1>1, <1>5, <1>7, SolidKept DEF RowOf
<1>10. phase = "retry_delete" => ~Bare(RowOf(y))'
  <2> SUFFICES ASSUME phase = "retry_delete", Bare(RowOf(x))' PROVE FALSE
    BY <1>9
  <2>1. Bare(RowOf(x))
    BY <1>5 DEF BareStep
  <2>2. RowOf(x) \in DOMAIN x.prepared
    BY <1>1, <1>3, <2>1 DEF Solid
  <2>3. RowOf(x) \in Eligible(u)
    BY <1>1, <2>1, <2>2, BareIsEligible
  <2> QED
    BY <1>5, <2>3
<1>11. Solid(y)'
  BY <1>3, <1>4, <1>7, <1>9, <1>10 DEF Solid, Batching, Retrying
<1>12. Saved(y)'
  BY <1>4, <1>7 DEF Saved
<1> QED
  BY <1>2, <1>5, <1>8, <1>11, <1>12, RunStep, SkipStep, WatermarkType DEF Advances, RunKept

(* A retry goes on to the next row.                                        *)
LEMMA RetriedStep ==
  ASSUME FillInv, NEW u \in Runs, run[u].left # {}, Retried(u), BareStep, FailuresKept, UNCHANGED mark
  PROVE  Advances
<1>1. PICK x \in RunRecord : x = run[u] /\ x.left # {}
  BY Known
<1>2. PICK left \in SUBSET Ids : left = x.left \ {Row(u)}
  BY <1>1 DEF RunRecord
<1>3. PICK y \in RunRecord : Took(u, y) /\ RunKept(y)
  <2>1. CASE x.left = {Row(u)}
    <3>1. Took(u, Idle)
      BY <1>1, <2>1 DEF Retried, Took
    <3> QED
      BY <3>1, Stops
  <2>2. CASE x.left # {Row(u)} /\ left # {}
    <3>1. PICK y \in RunRecord : y = Retries(left) /\ RunKept(y)
      BY <2>2, RetriesAfresh
    <3>2. Took(u, y)
      BY <1>1, <1>2, <2>2, <3>1 DEF Retried, Took, Retries
    <3> QED
      BY <3>1, <3>2
  <2> QED
    BY <1>1, <1>2, <2>1, <2>2
<1> QED
  BY <1>3, RunStep, SkipStep, WatermarkType DEF Advances

(* A row comes off the record only once it has its tokens.                 *)
LEMMA RetryEndsStep ==
  ASSUME FillInv, NEW u \in Runs, RetryDelete(u) \/ RetryRecord(u)
  PROVE  Advances
<1>1. PICK x \in RunRecord : x = run[u] /\ Solid(x)
  BY Known
<1>2. BareStep /\ UNCHANGED <<mark, exposed>> /\ Retried(u)
  BY BareUnchanged DEF RetryDelete, RetryRecord, history
<1>3. x.at \in {"retry_delete", "retry_record"} /\ x.left # {} /\ Row(u) = RowOf(x)
  BY <1>1, RowIsFirst DEF RetryDelete, RetryRecord, At, Solid, Retrying
<1>4. FailuresKept
  <2>1. CASE RetryDelete(u)
    <3>1. failures' = failures \ {RowOf(x)} /\ x.at = "retry_delete"
      BY <1>1, <1>3, <2>1 DEF RetryDelete, At
    <3>2. ~Bare(RowOf(x))
      BY <1>1, <3>1 DEF Solid
    <3> QED
      BY <1>2, <3>1, <3>2 DEF FailuresKept, BareStep
  <2>2. CASE RetryRecord(u)
    BY <1>2, <2>2 DEF RetryRecord, Recorded, FailuresKept
  <2> QED
    BY <2>1, <2>2
<1> QED
  BY <1>1, <1>2, <1>3, <1>4, RetriedStep

-----------------------------------------------------------------------------
(* The watermark, and the types of the rest.                               *)

(* Where the watermark may go, but for a restart, which deletes it.        *)
Forward == mark' # NoMark => /\ mark.last <= mark'.last
                             /\ mark.status = "completed" => mark' = mark
MarkOK(m) == /\ m \in [status : {"absent", "running", "completed"}, last : 0 .. LastRow]
             /\ m.status = "absent" => m = NoMark

(* Of the steps of a run, those that change nothing but the run.           *)
OnlyRun == UNCHANGED <<rows, broken, mark, failures, untokened, promised, exposed, writes, extra, stops>>
Reads(u) == LoadWatermark(u) \/ PrepareBatch(u) \/ SelectBatchIds(u) \/ RetryPrepare(u)

(* They leave everything else as it is.                                    *)
LEMMA ReadsOnly == ASSUME NEW u \in Runs, Reads(u) PROVE OnlyRun
<1>1. LoadWatermark(u) => OnlyRun
  BY DEF LoadWatermark, OnlyRun, history, bounds
<1>2. PrepareBatch(u) => OnlyRun
  BY DEF PrepareBatch, OnlyRun, history, bounds
<1>3. SelectBatchIds(u) => OnlyRun
  BY DEF SelectBatchIds, OnlyRun, history, bounds
<1>4. RetryPrepare(u) => OnlyRun
  BY DEF RetryPrepare, OnlyRun, history, bounds
<1> QED
  BY <1>1, <1>2, <1>3, <1>4 DEF Reads

(* The rest of the steps, one group for each kind of thing they change.    *)
Writes(r)   == Remember(r) \/ Amend(r) \/ Forget(r)
MovesMark(u)   == InsertWatermark(u) \/ SaveWatermark(u) \/ MarkCompleted(u)
FillsTokens(u)   == UpdateBatch(u) \/ UpdateRow(u) \/ RetryUpdate(u)
RecordsRow(u) == RecordFailure(u) \/ RetryRecord(u) \/ RetryDelete(u)
ClearsForRestart(u)  == ClearFailures(u) \/ ClearWatermark(u)
StartsAgain(u)  == BeginRestart(u) \/ BeginRetry(u)

(* Every step is of one of these kinds.                                    *)
LEMMA Groups ==
  ASSUME Next
  PROVE  \/ \E r \in Ids : Writes(r)
         \/ Mend
         \/ \E u \in Runs : \/ MovesMark(u) \/ FillsTokens(u) \/ RecordsRow(u) \/ ClearsForRestart(u)
                            \/ StartsAgain(u) \/ Reads(u) \/ Stop(u)
  BY DEF Next, Work, Begin, Reinsert, Writes, MovesMark, FillsTokens, RecordsRow, ClearsForRestart, StartsAgain, Reads

(* A watermark that stays goes forward.                                    *)
LEMMA MarkUnchanged == FillInv /\ UNCHANGED mark => Forward /\ MarkOK(mark')
  BY RowsAssumption DEF FillInv, FillTypes, MarkTypes, Forward, MarkOK

(* So does one that is made where there was none,                          *)
LEMMA MarkInserted ==
  ASSUME FillInv, NEW u \in Runs, InsertWatermark(u)
  PROVE  Forward /\ MarkOK(mark')
<1>1. CASE mark = NoMark
  <2>1. mark' = FirstMark
    BY <1>1 DEF InsertWatermark
  <2>2. 0 \in 0 .. LastRow /\ mark.last = 0 /\ mark.status = "absent"
    BY <1>1, RowsAssumption DEF NoMark
  <2>3. FirstMark.last = 0 /\ FirstMark.status = "running" /\ MarkOK(FirstMark)
    BY <2>2 DEF FirstMark, MarkOK
  <2> QED
    BY <2>1, <2>2, <2>3 DEF Forward
<1>2. CASE mark # NoMark
  BY <1>2, MarkUnchanged DEF InsertWatermark
<1> QED
  BY <1>1, <1>2

(* one that is moved past a batch, whose ids all lie ahead,                *)
LEMMA MarkSaved ==
  ASSUME FillInv, NEW u \in Runs, SaveWatermark(u)
  PROVE  Forward /\ MarkOK(mark')
<1>1. PICK x \in RunRecord : x = run[u] /\ Solid(x)
  BY Known
<1>2. CASE ~Unmoved(u)
  BY <1>2, MarkUnchanged DEF SaveWatermark
<1>3. CASE Unmoved(u)
  <2>1. DOMAIN x.prepared \in SUBSET Ids /\ DOMAIN x.prepared # {} /\ x.last \in Nat
        /\ \A q \in DOMAIN x.prepared : q > x.last
    BY <1>1, RowsAssumption DEF SaveWatermark, At, Solid, Batching, RunRecord, Prepared
  <2>2. PICK next : next = Max(DOMAIN x.prepared)
    OBVIOUS
  <2>3. next \in 0 .. LastRow /\ next > x.last
    BY <2>1, <2>2, GreatestId, RowsAssumption DEF Ids
  <2>4. mark' = [mark EXCEPT !.last = next] /\ mark = [status |-> "running", last |-> x.last]
    BY <1>1, <1>3, <2>2 DEF SaveWatermark, Unmoved
  <2>5. mark' = [status |-> "running", last |-> next]
    BY <2>4
  <2>6. mark.last <= mark'.last /\ mark.status = "running"
    BY <2>1, <2>3, <2>4, <2>5
  <2> QED
    BY <2>3, <2>5, <2>6 DEF Forward, MarkOK
<1> QED
  BY <1>2, <1>3

(* and one that is completed.                                              *)
LEMMA MarkedComplete ==
  ASSUME FillInv, NEW u \in Runs, MarkCompleted(u)
  PROVE  Forward /\ MarkOK(mark')
<1>1. CASE ~Unmoved(u)
  BY <1>1, MarkUnchanged DEF MarkCompleted
<1>2. CASE Unmoved(u)
  <2>1. PICK last : last = run[u].last
    OBVIOUS
  <2>2. mark' = [mark EXCEPT !.status = "completed"] /\ mark = [status |-> "running", last |-> last]
    BY <1>2, <2>1 DEF MarkCompleted, Unmoved
  <2>3. mark' = [status |-> "completed", last |-> last] /\ mark.last = last /\ mark.status = "running"
    BY <2>2
  <2>4. last \in 0 .. LastRow
    BY <2>3, WatermarkType
  <2> QED
    BY <2>3, <2>4, RowsAssumption DEF Forward, MarkOK
<1> QED
  BY <1>1, <1>2

(* No step sets the watermark back without deleting it.                    *)
LEMMA MarkNext ==
  ASSUME FillInv, [Next]_vars
  PROVE  Forward /\ MarkOK(mark')
<1>1. ASSUME NEW u \in Runs, MovesMark(u)
      PROVE  Forward /\ MarkOK(mark')
  BY <1>1, MarkInserted, MarkSaved, MarkedComplete DEF MovesMark
<1>2. ASSUME NEW u \in Runs, ClearsForRestart(u)
      PROVE  Forward /\ MarkOK(mark')
  <2>1. CASE ClearWatermark(u)
    <3>1. mark' = NoMark
      BY <2>1 DEF ClearWatermark
    <3>2. MarkOK(NoMark)
      BY RowsAssumption DEF MarkOK, NoMark
    <3> QED
      BY <3>1, <3>2 DEF Forward
  <2>2. CASE ClearFailures(u)
    BY <2>2, MarkUnchanged DEF ClearFailures
  <2> QED
    BY <1>2, <2>1, <2>2 DEF ClearsForRestart
<1>3. ASSUME NEW r \in Ids, Writes(r)
      PROVE  UNCHANGED mark
  BY <1>3 DEF Writes, Remember, Amend, Forget, Written
<1>4. ASSUME NEW u \in Runs, FillsTokens(u) \/ RecordsRow(u) \/ StartsAgain(u) \/ Stop(u)
      PROVE  UNCHANGED mark
  BY <1>4 DEF FillsTokens, UpdateBatch, UpdateRow, RetryUpdate, RecordsRow, RecordFailure, RetryRecord, RetryDelete,
              StartsAgain, BeginRestart, BeginRetry, Stop
<1>5. ASSUME NEW u \in Runs, Reads(u)
      PROVE  UNCHANGED mark
  BY <1>5, ReadsOnly DEF OnlyRun
<1>6. Mend \/ UNCHANGED vars => UNCHANGED mark
  BY DEF Mend, vars
<1> QED
  BY <1>1, <1>2, <1>3, <1>4, <1>5, <1>6, Groups, MarkUnchanged

(* The sets of rows stay sets of ids.                                      *)
SetsOK == {broken, failures, untokened, promised} \subseteq SUBSET Ids /\ exposed \in BOOLEAN
BudgetsOK == writes \in 0 .. MaxWrites /\ extra \in 0 .. MaxExtra /\ stops \in 0 .. MaxStops

(* What goes on record is an id.                                           *)
LEMMA RecordedType ==
  ASSUME FillInv, NEW u \in Runs, RecordFailure(u) \/ RetryRecord(u)
  PROVE  Row(u) \in Ids
<1>1. PICK x \in RunRecord : x = run[u] /\ Solid(x)
  BY Known
<1>2. x.left # {}
  BY <1>1 DEF RecordFailure, RetryRecord, At, Solid, Retrying
<1> QED
  BY <1>1, <1>2, RowIsFirst

(* No step takes the sets of rows out of the ids.                          *)
LEMMA SetsNext ==
  ASSUME FillInv, [Next]_vars
  PROVE  SetsOK'
<1>0. broken \subseteq Ids /\ failures \subseteq Ids /\ untokened \subseteq Ids /\ promised \subseteq Ids
      /\ exposed \in BOOLEAN
  BY DEF FillInv, FillTypes, MarkTypes
<1> SUFFICES broken' \subseteq Ids /\ failures' \subseteq Ids /\ untokened' \subseteq Ids
             /\ promised' \subseteq Ids /\ exposed' \in BOOLEAN
  BY DEF SetsOK
<1>1. ASSUME NEW r \in Ids, Writes(r)
      PROVE  UNCHANGED <<broken, failures, exposed>> /\ untokened' \subseteq Ids /\ promised' \subseteq Ids
  <2>1. PICK tokened \in BOOLEAN : Written(r, tokened)
    BY <1>1 DEF Writes, Remember, Amend, Forget
  <2>2. UNCHANGED <<broken, failures, exposed>>
    BY <2>1 DEF Written
  <2>3. untokened' \subseteq Ids /\ promised' \subseteq Ids
    BY <1>0, <2>1 DEF Written
  <2> QED
    BY <2>2, <2>3
<1>2. ASSUME NEW u \in Runs, ClearsForRestart(u)
      PROVE  /\ UNCHANGED <<broken, untokened>> /\ failures' \subseteq failures
             /\ promised' \subseteq Ids /\ exposed' \in BOOLEAN
  <2>1. CASE ClearFailures(u)
    <3>1. exposed' \in BOOLEAN
      BY <2>1 DEF ClearFailures
    <3> QED
      BY <1>0, <2>1, <3>1 DEF ClearFailures
  <2>2. CASE ClearWatermark(u)
    <3>1. exposed' \in BOOLEAN
      BY <2>2 DEF ClearWatermark, Overlaps
    <3> QED
      BY <1>0, <2>2, <3>1 DEF ClearWatermark
  <2> QED
    BY <1>2, <2>1, <2>2 DEF ClearsForRestart
<1>3. ASSUME NEW u \in Runs, RecordsRow(u)
      PROVE  UNCHANGED <<broken, untokened, promised, exposed>> /\ failures' \subseteq Ids
  <2>1. CASE RecordFailure(u) \/ RetryRecord(u)
    <3>1. UNCHANGED <<broken, untokened, promised, exposed>> /\ failures' = failures \cup {Row(u)}
      BY <2>1 DEF RecordFailure, RetryRecord, Recorded, history
    <3> QED
      BY <1>0, <2>1, <3>1, RecordedType
  <2>2. CASE RetryDelete(u)
    BY <1>0, <2>2 DEF RetryDelete, history
  <2> QED
    BY <1>3, <2>1, <2>2 DEF RecordsRow
<1>4. ASSUME NEW u \in Runs, MovesMark(u) \/ FillsTokens(u) \/ StartsAgain(u) \/ Stop(u)
      PROVE  UNCHANGED <<broken, failures, untokened, promised, exposed>>
  BY <1>4 DEF FillsTokens, UpdateBatch, UpdateRow, RetryUpdate, MovesMark, InsertWatermark, SaveWatermark,
              MarkCompleted, StartsAgain, BeginRestart, BeginRetry, Stop, history
<1>5. ASSUME NEW u \in Runs, Reads(u)
      PROVE  UNCHANGED <<broken, failures, untokened, promised, exposed>>
  BY <1>5, ReadsOnly DEF OnlyRun
<1>6. Mend => UNCHANGED <<failures, untokened, promised, exposed>> /\ broken' = {}
  BY DEF Mend, history
<1>7. UNCHANGED vars => UNCHANGED <<broken, failures, untokened, promised, exposed>>
  BY DEF vars
<1> QED
  BY <1>0, <1>1, <1>2, <1>3, <1>4, <1>5, <1>6, <1>7, Groups

(* No step takes the bounds of the model past their limits.                *)
LEMMA BudgetsNext ==
  ASSUME FillInv, [Next]_vars
  PROVE  BudgetsOK'
<1>0. BudgetsOK /\ MaxWrites \in Nat /\ MaxExtra \in Nat /\ MaxStops \in Nat
  BY BoundsAssumption DEF FillInv, FillTypes, MarkTypes, BudgetsOK
<1>1. ASSUME NEW r \in Ids, Writes(r) PROVE BudgetsOK'
  <2>1. writes < MaxWrites /\ writes' = writes + 1 /\ UNCHANGED <<extra, stops>>
    BY <1>1 DEF Writes, Remember, Amend, Forget, Written
  <2> QED
    BY <1>0, <2>1 DEF BudgetsOK
<1>2. ASSUME NEW u \in Runs, StartsAgain(u) PROVE BudgetsOK'
  <2>1. extra < MaxExtra /\ extra' = extra + 1 /\ UNCHANGED <<writes, stops>>
    BY <1>2 DEF StartsAgain, BeginRestart, BeginRetry
  <2> QED
    BY <1>0, <2>1 DEF BudgetsOK
<1>3. ASSUME NEW u \in Runs, Stop(u) PROVE BudgetsOK'
  <2>1. stops < MaxStops /\ stops' = stops + 1 /\ UNCHANGED <<writes, extra>>
    BY <1>3 DEF Stop
  <2> QED
    BY <1>0, <2>1 DEF BudgetsOK
<1>4. ASSUME UNCHANGED <<writes, extra, stops>> PROVE BudgetsOK'
  BY <1>0, <1>4 DEF BudgetsOK
<1>5. ASSUME NEW u \in Runs, MovesMark(u) \/ FillsTokens(u) \/ RecordsRow(u) \/ ClearsForRestart(u)
      PROVE  UNCHANGED <<writes, extra, stops>>
  BY <1>5 DEF FillsTokens, UpdateBatch, UpdateRow, RetryUpdate, MovesMark, InsertWatermark, SaveWatermark,
              MarkCompleted, RecordsRow, RecordFailure, RetryRecord, RetryDelete, ClearsForRestart, ClearFailures,
              ClearWatermark, bounds
<1>6. ASSUME NEW u \in Runs, Reads(u)
      PROVE  UNCHANGED <<writes, extra, stops>>
  BY <1>6, ReadsOnly DEF OnlyRun
<1>7. Mend \/ UNCHANGED vars => UNCHANGED <<writes, extra, stops>>
  BY DEF Mend, vars, bounds
<1> QED
  BY <1>1, <1>2, <1>3, <1>4, <1>5, <1>6, <1>7, Groups

(* No step adds a row under another id.                                    *)
LEMMA IdsNext ==
  ASSUME FillInv, [Next]_vars
  PROVE  DOMAIN rows' \subseteq Ids
<1>0. DOMAIN rows \subseteq Ids
  BY DEF FillInv, FillTypes
<1>1. ASSUME NEW r \in Ids, Writes(r) PROVE DOMAIN rows' \subseteq Ids
  BY <1>0, <1>1 DEF Writes, Remember, Amend, Forget
<1>2. ASSUME NEW u \in Runs, FillsTokens(u) PROVE DOMAIN rows' = DOMAIN rows
  BY <1>2 DEF FillsTokens, UpdateBatch, UpdateRow, RetryUpdate, SetTokens
<1>3. ASSUME NEW u \in Runs, MovesMark(u) \/ RecordsRow(u) \/ ClearsForRestart(u) \/ StartsAgain(u) \/ Stop(u)
      PROVE  UNCHANGED rows
  BY <1>3 DEF MovesMark, InsertWatermark, SaveWatermark, MarkCompleted, RecordsRow, RecordFailure, RetryRecord,
              RetryDelete, ClearsForRestart, ClearFailures, ClearWatermark, StartsAgain, BeginRestart, BeginRetry, Stop
<1>4. ASSUME NEW u \in Runs, Reads(u)
      PROVE  UNCHANGED rows
  BY <1>4, ReadsOnly DEF OnlyRun
<1>5. Mend \/ UNCHANGED vars => UNCHANGED rows
  BY DEF Mend, vars
<1> QED
  BY <1>0, <1>1, <1>2, <1>3, <1>4, <1>5, Groups

-----------------------------------------------------------------------------
(* What is not untokened has the tokens of its content, if it has any.     *)

TokensOK == \A r \in DOMAIN rows \ untokened : Missing(r) \/ rows[r].tokens = ContentTokenDocument(rows[r].content)

(* Who writes a content writes its tokens, or is marked.                   *)
LEMMA TokensWritten ==
  ASSUME TokensOK, NEW r \in Ids, Writes(r)
  PROVE  TokensOK'
<1> SUFFICES ASSUME NEW q \in DOMAIN rows', q \notin untokened'
             PROVE  rows'[q].tokens = NoTokens \/ rows'[q].tokens = ContentTokenDocument(rows'[q].content)
  BY DEF TokensOK, Missing
<1>1. ASSUME rows'[q] = rows[q], q \in DOMAIN rows, q \notin untokened
      PROVE  rows'[q].tokens = NoTokens \/ rows'[q].tokens = ContentTokenDocument(rows'[q].content)
  BY <1>1 DEF TokensOK, Missing
<1>2. CASE Remember(r)
  <2>1. PICK c \in Contents, tokened \in BOOLEAN :
          /\ rows' = [p \in DOMAIN rows \cup {r} |-> IF p # r THEN rows[p]
                        ELSE [content |-> c, tokens |-> IF tokened THEN ContentTokenDocument(c) ELSE NoTokens]]
          /\ untokened' = IF tokened THEN untokened \ {r} ELSE untokened \cup {r}
    BY <1>2 DEF Remember, Written
  <2>2. CASE q = r
    <3>1. rows'[q].tokens = (IF tokened THEN ContentTokenDocument(c) ELSE NoTokens) /\ rows'[q].content = c
      BY <2>1, <2>2
    <3> QED
      BY <3>1
  <2>3. CASE q # r
    <3>1. rows'[q] = rows[q] /\ q \in DOMAIN rows /\ q \notin untokened
      BY <2>1, <2>3
    <3> QED
      BY <1>1, <3>1
  <2> QED
    BY <2>2, <2>3
<1>3. CASE Amend(r)
  <2>1. PICK c \in Contents, tokened \in BOOLEAN :
          /\ rows' = [rows EXCEPT ![r] = Amended(rows[r], c, tokened)]
          /\ untokened' = IF tokened THEN untokened \ {r} ELSE untokened \cup {r}
    BY <1>3 DEF Amend, Written
  <2>2. CASE q = r
    <3>1. rows'[q].content = c /\ (tokened => rows'[q].tokens = ContentTokenDocument(c)) /\ tokened
      BY <2>1, <2>2 DEF Amended
    <3> QED
      BY <3>1
  <2>3. CASE q # r
    <3>1. rows'[q] = rows[q] /\ q \in DOMAIN rows /\ q \notin untokened
      BY <2>1, <2>3
    <3> QED
      BY <1>1, <3>1
  <2> QED
    BY <2>2, <2>3
<1>4. CASE Forget(r)
  <2>1. rows'[q] = rows[q] /\ q \in DOMAIN rows /\ q \notin untokened
    BY <1>4 DEF Forget, Written
  <2> QED
    BY <1>1, <2>1
<1> QED
  BY <1>2, <1>3, <1>4 DEF Writes

(* The job stores the tokens of the content it finds.                      *)
LEMMA TokensFilled ==
  ASSUME RowsOK, TokensOK, NEW u \in Runs, FillsTokens(u)
  PROVE  TokensOK'
<1>1. UNCHANGED untokened
  BY DEF FillsTokens, UpdateBatch, UpdateRow, RetryUpdate, history
<1>2. CASE UNCHANGED rows
  BY <1>1, <1>2 DEF TokensOK, Missing
<1>3. ASSUME NEW S \in SUBSET Eligible(u), SetTokens(S, u) PROVE TokensOK'
  <2>1. DOMAIN rows' = DOMAIN rows
    BY <1>3 DEF SetTokens
  <2> SUFFICES ASSUME NEW q \in DOMAIN rows, q \notin untokened
               PROVE  rows'[q].tokens = NoTokens \/ rows'[q].tokens = ContentTokenDocument(rows'[q].content)
    BY <1>1, <2>1 DEF TokensOK, Missing
  <2>2. rows[q] \in StoredRow
    BY DEF RowsOK
  <2>3. CASE q \in S
    <3>1. rows[q].content = run[u].prepared[q]
      BY <2>3 DEF Eligible
    <3>2. rows'[q] = [rows[q] EXCEPT !.tokens = ContentTokenDocument(rows[q].content)]
      BY <1>3, <2>3, <3>1 DEF SetTokens
    <3> QED
      BY <2>2, <3>2 DEF StoredRow
  <2>4. CASE q \notin S
    <3>1. rows'[q] = rows[q]
      BY <1>3, <2>4 DEF SetTokens
    <3> QED
      BY <3>1 DEF TokensOK, Missing
  <2> QED
    BY <2>3, <2>4
<1>4. UNCHANGED rows \/ \E S \in SUBSET Eligible(u) : SetTokens(S, u)
  BY DEF FillsTokens, UpdateBatch, UpdateRow, RetryUpdate
<1> QED
  BY <1>2, <1>3, <1>4

(* No other step touches a row.                                            *)
LEMMA TokensNext ==
  ASSUME RowsOK, TokensOK, [Next]_vars
  PROVE  TokensOK'
<1>1. UNCHANGED <<rows, untokened>> => TokensOK'
  BY DEF TokensOK, Missing
<1>2. ASSUME NEW u \in Runs, MovesMark(u) PROVE UNCHANGED <<rows, untokened>>
  BY <1>2 DEF MovesMark, InsertWatermark, SaveWatermark, MarkCompleted, history
<1>3. ASSUME NEW u \in Runs, RecordsRow(u) PROVE UNCHANGED <<rows, untokened>>
  BY <1>3 DEF RecordsRow, RecordFailure, RetryRecord, RetryDelete, history
<1>4. ASSUME NEW u \in Runs, ClearsForRestart(u) \/ StartsAgain(u) \/ Stop(u) PROVE UNCHANGED <<rows, untokened>>
  BY <1>4 DEF ClearsForRestart, ClearFailures, ClearWatermark, StartsAgain, BeginRestart, BeginRetry, Stop, history
<1>5. ASSUME NEW u \in Runs, Reads(u) PROVE UNCHANGED <<rows, untokened>>
  BY <1>5, ReadsOnly DEF OnlyRun
<1>6. Mend \/ UNCHANGED vars => UNCHANGED <<rows, untokened>>
  BY DEF Mend, vars, history
<1> QED
  BY <1>1, <1>2, <1>3, <1>4, <1>5, <1>6, TokensWritten, TokensFilled, Groups

-----------------------------------------------------------------------------
(* Together.                                                               *)

(* The invariant holds at first.                                           *)
LEMMA FillInit == Init => FillInv
<1> SUFFICES ASSUME Init PROVE FillInv
  OBVIOUS
<1>1. RowsOK /\ DOMAIN rows \subseteq Ids
  BY RowsAssumption DEF Init, RowsOK, StoredRow, Ids
<1>2. mark = NoMark /\ NoMark.last = 0 /\ MarkOK(NoMark)
  BY RowsAssumption DEF Init, NoMark, MarkOK
<1>3. MarkTypes
  <2>1. {broken, failures, untokened, promised} \subseteq SUBSET Ids /\ exposed \in BOOLEAN
    BY RowsAssumption DEF Init, Ids
  <2>2. writes \in 0 .. MaxWrites /\ extra \in 0 .. MaxExtra /\ stops \in 0 .. MaxStops
    BY BoundsAssumption DEF Init
  <2> QED
    BY <1>2, <2>1, <2>2 DEF MarkTypes, MarkOK
<1>4. \A u \in Runs : run[u] = Idle
  BY DEF Init
<1>5. RunTypes
  BY IdleType DEF Init, RunTypes
<1>6. RunsOK
  BY <1>4, IdleType DEF RunsOK, Solid, Saved, Batching, Retrying
<1>7. \A r \in Ids : ~(r <= 0)
  BY RowsAssumption DEF Ids
<1>8. Skipped
  BY <1>2, <1>7 DEF Skipped
<1> QED
  BY <1>1, <1>3, <1>5, <1>6, <1>8 DEF FillInv, FillTypes

(* Every step keeps it.                                                    *)
LEMMA FillNext == FillInv /\ [Next]_vars => FillInv'
<1> SUFFICES ASSUME FillInv, [Next]_vars PROVE FillInv'
  OBVIOUS
<1>1. RowsOK' /\ DOMAIN rows' \subseteq Ids
  BY NextRows, IdsNext DEF RowsStep, FillInv, FillTypes
<1>2. MarkTypes'
  BY MarkNext, SetsNext, BudgetsNext DEF MarkOK, SetsOK, BudgetsOK, MarkTypes
<1>3. ASSUME NEW u \in Runs, Begin(u) \/ BeginRestart(u) \/ BeginRetry(u) \/ Work(u) \/ Stop(u)
      PROVE  Advances
  <2>1. Stop(u) => Advances
    BY StopStep DEF Stop, Took, history
  <2>2. Work(u) => Advances
    BY ClearFailuresStep, ClearWatermarkStep, WatermarkStep, LoadStep, PrepareStep, UpdateBatchStep, SelectStep,
       UpdateRowStep, RecordStep, SaveStep, CompleteStep, RetryPrepareStep, RetryUpdateStep, RetryEndsStep
       DEF Work, Reinsert
  <2> QED
    BY <1>3, <2>1, <2>2, WatermarkStep, RestartStep, BeginRetryStep DEF Begin
<1>4. ASSUME BareStep, UNCHANGED <<mark, failures, run, exposed>>
      PROVE  Advances
  BY <1>4, FailuresUnchanged, NoRunStep, SkipStep, WatermarkType DEF Advances
<1>5. ASSUME NEW r \in Ids, Remember(r) \/ Amend(r) \/ Forget(r)
      PROVE  Advances
  <2>1. BareStep
    BY <1>5, BareRemember, BareAmend, BareForget DEF FillInv
  <2>2. UNCHANGED <<mark, failures, run, exposed>>
    BY <1>5 DEF Remember, Amend, Forget, Written
  <2> QED
    BY <1>4, <2>1, <2>2
<1>6. Advances
  <2>1. CASE Mend \/ UNCHANGED vars
    <3>1. UNCHANGED <<rows, untokened, mark, failures, run, exposed>>
      BY <2>1 DEF Mend, history, vars
    <3> QED
      BY <1>4, <3>1, BareUnchanged
  <2> QED
    BY <1>3, <1>5, <2>1 DEF Next
<1> QED
  BY <1>1, <1>2, <1>6 DEF Advances, FillInv, FillTypes

(* Rows, watermark, failures and runs of the backfill have their types.    *)
THEOREM FillTypeCorrect == Spec => []TypeOK
<1>1. FillInv => TypeOK
  <2> SUFFICES ASSUME FillInv PROVE TypeOK
    OBVIOUS
  <2>1. \A u \in Runs : run[u].last \in 0 .. LastRow /\ run[u].left \subseteq Ids /\ DOMAIN run[u].prepared \subseteq Ids
    BY DEF FillInv, FillTypes, RunTypes, RunRecord, Prepared
  <2> QED
    BY <2>1 DEF FillInv, FillTypes, MarkTypes, RowsOK, StoredRow, TypeOK
<1> QED
  BY <1>1, FillInit, FillNext, PTL DEF Spec

(* Nothing is skipped in silence: what the watermark has passed has the    *)
(* tokens of its content, or none because that content is not tokenized,   *)
(* or is on record as a failure, or was written without tokens since.      *)
(* Runs may overlap, stop anywhere and be started again; only failures     *)
(* cleared under a watermark that stays, or while another run is at work,  *)
(* are excepted (runBatch, loadWatermark).                                 *)
THEOREM SkippedIsRecordedHolds == Spec => []SkippedIsRecorded
<1>1. FillInv /\ TokensOK => SkippedIsRecorded
  <2> SUFFICES ASSUME FillInv, TokensOK, ~exposed, NEW r \in DOMAIN rows, r \notin untokened, r <= mark.last,
                      r \notin failures
               PROVE  rows[r].tokens = ContentTokenDocument(rows[r].content)
    BY DEF SkippedIsRecorded
  <2>1. r \in Ids /\ rows[r].content \in Contents
    BY DEF FillInv, FillTypes, RowsOK, StoredRow
  <2>2. ~Bare(r)
    BY <2>1 DEF FillInv, Skipped
  <2>3. CASE Missing(r)
    BY <2>1, <2>2, <2>3, Documents DEF Bare, Missing
  <2>4. CASE ~Missing(r)
    BY <2>4 DEF TokensOK
  <2> QED
    BY <2>3, <2>4
<1>2. Init => TokensOK
  BY DEF Init, TokensOK, Missing
<1>3. FillInv /\ TokensOK /\ [Next]_vars => TokensOK'
  BY TokensNext DEF FillInv, FillTypes
<1> QED
  BY <1>1, <1>2, <1>3, FillInit, FillNext, PTL DEF Spec

(* The watermark goes back only by being deleted for a restart, and what   *)
(* is completed stays so, although each run moves it by comparing what it  *)
(* last saw (saveWatermark, markCompleted).                                *)
THEOREM WatermarkGoesForwardHolds == Spec => WatermarkGoesForward
<1>1. FillInv /\ [Next]_vars =>
        [mark' # NoMark => /\ mark.last <= mark'.last
                           /\ mark.status = "completed" => mark' = mark]_vars
  BY MarkNext DEF Forward
<1> QED
  BY <1>1, FillInit, FillNext, PTL DEF Spec, WatermarkGoesForward

-----------------------------------------------------------------------------
(* Vectors.                                                                *)

(* The texts and vectors, and the property itself.                         *)
VectorInv ==
  /\ text \in [FragmentIds -> Texts \cup {NoText, Forgotten}]
  /\ vector \in [FragmentIds -> Texts \cup {NoVector}]
  /\ VectorIsOfContent

(* An edit drops the vector.                                               *)
LEMMA EditDrops ==
  ASSUME VectorInv, NEW f \in FragmentIds, NEW t \in Texts \cup {NoText, Forgotten}, Edit(f, t)
  PROVE  VectorInv'
  BY DEF VectorInv, VectorIsOfContent, Edit

(* A vector is stored beside the text it was computed from.                *)
LEMMA FillMatches ==
  ASSUME VectorInv, NEW s \in Sources, NEW ids, Fill(s, ids), UNCHANGED text
  PROVE  VectorInv'
<1> SUFFICES ASSUME NEW f \in FragmentIds
             PROVE  vector'[f] \in Texts \cup {NoVector} /\ (vector'[f] # NoVector => vector'[f] = text[f])
  BY DEF VectorInv, VectorIsOfContent, Fill
<1>1. vector'[f] = IF f \in ids /\ AsRead(s, f) THEN embedder[s].rows[f] ELSE vector[f]
  BY DEF Fill
<1>2. CASE f \in ids /\ AsRead(s, f)
  BY <1>1, <1>2 DEF AsRead, Unfilled
<1>3. CASE ~(f \in ids /\ AsRead(s, f))
  BY <1>1, <1>3 DEF VectorInv, VectorIsOfContent
<1> QED
  BY <1>2, <1>3

(* A step that leaves both alone.                                          *)
LEMMA VectorUnchanged == VectorInv /\ UNCHANGED <<text, vector>> => VectorInv'
  BY DEF VectorInv, VectorIsOfContent

(* Every step of the worker, the sweep and the writers.                    *)
LEMMA VectorNext == VectorInv /\ [EmbedNext]_embedVars => VectorInv'
<1> SUFFICES ASSUME VectorInv, [EmbedNext]_embedVars PROVE VectorInv'
  OBVIOUS
<1>1. CASE UNCHANGED embedVars
  BY <1>1, VectorUnchanged DEF embedVars
<1>2. ASSUME NEW f \in FragmentIds, StoreFragment(f) \/ AmendText(f) \/ ForgetText(f) PROVE VectorInv'
  BY <1>2, EditDrops DEF StoreFragment, AmendText, ForgetText
<1>3. ASSUME PopIds \/ SelectRows \/ SelectOrphans \/ CrashEmbedder PROVE VectorInv'
  BY <1>3, VectorUnchanged DEF PopIds, SelectRows, SelectOrphans, CrashEmbedder
<1>4. ASSUME NEW s \in Sources, EmbedChunk(s) \/ EmbedOne(s) PROVE VectorInv'
  <2>1. UNCHANGED text
    BY <1>4 DEF EmbedChunk, EmbedOne
  <2>2. UNCHANGED vector \/ \E ids : Fill(s, ids)
    BY <1>4 DEF EmbedChunk, EmbedOne
  <2> QED
    BY <2>1, <2>2, FillMatches, VectorUnchanged
<1> QED
  BY <1>1, <1>2, <1>3, <1>4 DEF EmbedNext

(* A vector is that of the content beside it, whoever computed it and      *)
(* however long ago (content_hash in _embedChunk and _embedOne).           *)
THEOREM VectorsAreOfContent == EmbedSpec => []VectorIsOfContent
<1>1. EmbedInit => VectorInv
  BY DEF EmbedInit, VectorInv, VectorIsOfContent
<1>2. VectorInv => VectorIsOfContent
  BY DEF VectorInv
<1> QED
  BY <1>1, <1>2, VectorNext, PTL DEF EmbedSpec

(* What a source has in hand: some fragments, with the texts it read.      *)
InHandRows == UNION {[S -> Texts \cup {NoText, Forgotten}] : S \in SUBSET FragmentIds}
Embedders  == [at : {"idle", "popped", "chunk", "one"}, rows : InHandRows]
EmbedInv ==
  /\ VectorInv
  /\ queued \subseteq FragmentIds
  /\ embedder \in [Sources -> Embedders]
  /\ edits \in 0 .. MaxEdits /\ glitches \in 0 .. MaxGlitches /\ crashes \in 0 .. MaxCrashes

(* Resting is to have no rows in hand.                                     *)
LEMMA RestingType == Resting \in Embedders
<1>1. <<>> \in [{} -> Texts \cup {NoText, Forgotten}]
  OBVIOUS
<1>2. <<>> \in InHandRows
  BY <1>1 DEF InHandRows
<1> QED
  BY <1>2 DEF Resting, Embedders

(* The rows in hand are fragments and their texts.                         *)
LEMMA HandIs ==
  ASSUME EmbedInv, NEW s \in Sources
  PROVE  /\ InHand(s) \subseteq FragmentIds
         /\ \A f \in InHand(s) : embedder[s].rows[f] \in Texts \cup {NoText, Forgotten}
<1>1. PICK e \in Embedders : e = embedder[s]
  BY DEF EmbedInv
<1>2. PICK S \in SUBSET FragmentIds : e.rows \in [S -> Texts \cup {NoText, Forgotten}]
  BY DEF Embedders, InHandRows
<1> QED
  BY <1>1, <1>2 DEF InHand

(* A source takes up rows it has in hand or reads them now.                *)
LEMMA TakesUp ==
  ASSUME EmbedInv, NEW s \in Sources, NEW ids \in SUBSET FragmentIds,
         NEW at \in {"chunk", "one"}, GoesOn(s, at, ids)
  PROVE  embedder' \in [Sources -> Embedders]
<1>1. PICK read : read = [f \in ids |-> IF f \in InHand(s) THEN embedder[s].rows[f] ELSE text[f]]
  OBVIOUS
<1>2. read \in InHandRows
  <2>1. read \in [ids -> Texts \cup {NoText, Forgotten}]
    <3>1. ASSUME NEW f \in ids PROVE read[f] \in Texts \cup {NoText, Forgotten}
      <4>1. text[f] \in Texts \cup {NoText, Forgotten}
        BY DEF EmbedInv, VectorInv
      <4> QED
        BY <1>1, <4>1, HandIs
    <3> QED
      BY <1>1, <3>1
  <2> QED
    BY <2>1 DEF InHandRows
<1>3. PICK e \in Embedders : embedder' = [embedder EXCEPT ![s] = e]
  <2>1. CASE ids = {}
    BY <2>1, RestingType DEF GoesOn
  <2>2. CASE ids # {}
    <3>1. [at |-> at, rows |-> read] \in Embedders
      BY <1>2 DEF Embedders
    <3>2. embedder' = [embedder EXCEPT ![s] = [at |-> at, rows |-> read]]
      BY <1>1, <2>2 DEF GoesOn, EmbedInv
    <3> QED
      BY <3>1, <3>2
  <2> QED
    BY <2>1, <2>2
<1> QED
  BY <1>3 DEF EmbedInv

(* The worker takes ids off the queue, then reads the rows.                *)
LEMMA WorkerTakes ==
  ASSUME EmbedInv, PopIds \/ SelectRows
  PROVE  embedder' \in [Sources -> Embedders]
<1>1. CASE PopIds
  <2>1. PICK ids \in SUBSET FragmentIds :
          embedder' = [embedder EXCEPT !["worker"] = [at |-> "popped", rows |-> [f \in ids |-> NoText]]]
    BY <1>1 DEF PopIds, EmbedInv
  <2>2. [f \in ids |-> NoText] \in InHandRows
    <3>1. [f \in ids |-> NoText] \in [ids -> Texts \cup {NoText, Forgotten}]
      OBVIOUS
    <3> QED
      BY <3>1 DEF InHandRows
  <2>3. [at |-> "popped", rows |-> [f \in ids |-> NoText]] \in Embedders
    BY <2>2 DEF Embedders
  <2> QED
    BY <2>1, <2>3 DEF EmbedInv
<1>2. CASE SelectRows
  <2>1. PICK ids \in SUBSET FragmentIds : ids = InHand("worker") \cap Unfilled
    BY DEF Unfilled
  <2>2. PICK read : read = [f \in ids |-> text[f]]
    OBVIOUS
  <2>3. read \in InHandRows
    <3>1. read \in [ids -> Texts \cup {NoText, Forgotten}]
      BY <2>2 DEF EmbedInv, VectorInv
    <3> QED
      BY <3>1 DEF InHandRows
  <2>4. [at |-> "chunk", rows |-> read] \in Embedders
    BY <2>3 DEF Embedders
  <2>5. embedder' = [embedder EXCEPT !["worker"] = IF ids = {} THEN Resting ELSE [at |-> "chunk", rows |-> read]]
    BY <1>2, <2>1, <2>2 DEF SelectRows
  <2> QED
    BY <2>4, <2>5, RestingType DEF EmbedInv
<1> QED
  BY <1>1, <1>2

(* The sweep, and both at work on what they have in hand.                  *)
LEMMA SourcesWork ==
  ASSUME EmbedInv, SelectOrphans \/ CrashEmbedder \/ \E s \in Sources : EmbedChunk(s) \/ EmbedOne(s)
  PROVE  embedder' \in [Sources -> Embedders]
<1>1. CASE SelectOrphans
  <2>1. Orphans \in SUBSET FragmentIds
    BY DEF Orphans, First, Unfilled
  <2>2. "sweep" \in Sources /\ GoesOn("sweep", "chunk", Orphans)
    BY <1>1 DEF SelectOrphans, Sources
  <2> QED
    BY <2>1, <2>2, TakesUp
<1>2. CASE CrashEmbedder
  BY <1>2, RestingType DEF CrashEmbedder
<1>3. ASSUME NEW s \in Sources, EmbedChunk(s) \/ EmbedOne(s)
      PROVE  embedder' \in [Sources -> Embedders]
  <2>1. PICK at \in {"chunk", "one"}, ids \in SUBSET InHand(s) : GoesOn(s, at, ids)
    BY <1>3 DEF EmbedChunk, EmbedOne
  <2>2. ids \in SUBSET FragmentIds
    BY HandIs
  <2> QED
    BY <2>1, <2>2, TakesUp
<1> QED
  BY <1>1, <1>2, <1>3

(* The invariant holds at first.                                           *)
LEMMA EmbedInvInit == EmbedInit => EmbedInv
<1> SUFFICES ASSUME EmbedInit PROVE EmbedInv
  OBVIOUS
<1>1. VectorInv
  BY DEF EmbedInit, VectorInv, VectorIsOfContent
<1>2. embedder \in [Sources -> Embedders]
  BY RestingType DEF EmbedInit
<1>3. edits \in 0 .. MaxEdits /\ glitches \in 0 .. MaxGlitches /\ crashes \in 0 .. MaxCrashes
  BY EmbedBoundsAssumption DEF EmbedInit
<1> QED
  BY <1>1, <1>2, <1>3 DEF EmbedInit, EmbedInv

(* Every step keeps it.                                                    *)
LEMMA EmbedInvNext == EmbedInv /\ [EmbedNext]_embedVars => EmbedInv'
<1> SUFFICES ASSUME EmbedInv, [EmbedNext]_embedVars PROVE EmbedInv'
  OBVIOUS
<1>1. VectorInv'
  BY VectorNext DEF EmbedInv
<1>2. embedder' \in [Sources -> Embedders]
  <2>1. ASSUME NEW f \in FragmentIds, StoreFragment(f) \/ AmendText(f) \/ ForgetText(f) PROVE UNCHANGED embedder
    BY <2>1 DEF StoreFragment, AmendText, ForgetText, Edit
  <2> QED
    BY <2>1, WorkerTakes, SourcesWork DEF EmbedNext, embedVars, EmbedInv
<1>3. queued' \subseteq FragmentIds
  <2>1. ASSUME NEW f \in FragmentIds, StoreFragment(f) \/ AmendText(f) \/ ForgetText(f)
        PROVE  queued' \subseteq FragmentIds
    BY <2>1 DEF StoreFragment, AmendText, ForgetText, EmbedInv
  <2>2. PopIds \/ SelectRows \/ SelectOrphans \/ CrashEmbedder => queued' \subseteq FragmentIds
    BY DEF PopIds, SelectRows, SelectOrphans, CrashEmbedder, EmbedInv
  <2>3. ASSUME NEW s \in Sources, EmbedChunk(s) \/ EmbedOne(s) PROVE queued' \subseteq FragmentIds
    BY <2>3 DEF EmbedChunk, EmbedOne, EmbedInv
  <2> QED
    BY <2>1, <2>2, <2>3 DEF EmbedNext, embedVars, EmbedInv
<1>4. edits' \in 0 .. MaxEdits /\ glitches' \in 0 .. MaxGlitches /\ crashes' \in 0 .. MaxCrashes
  <2>0. /\ edits \in 0 .. MaxEdits /\ glitches \in 0 .. MaxGlitches /\ crashes \in 0 .. MaxCrashes
        /\ MaxEdits \in Nat /\ MaxGlitches \in Nat /\ MaxCrashes \in Nat
    BY EmbedBoundsAssumption DEF EmbedInv
  <2>1. ASSUME NEW f \in FragmentIds, StoreFragment(f) \/ AmendText(f) \/ ForgetText(f)
        PROVE  edits < MaxEdits /\ edits' = edits + 1 /\ UNCHANGED <<glitches, crashes>>
    BY <2>1 DEF StoreFragment, AmendText, ForgetText, Edit
  <2>2. PopIds \/ SelectRows \/ SelectOrphans => UNCHANGED <<edits, glitches, crashes>>
    BY DEF PopIds, SelectRows, SelectOrphans
  <2>3. CrashEmbedder => crashes < MaxCrashes /\ crashes' = crashes + 1 /\ UNCHANGED <<edits, glitches>>
    BY DEF CrashEmbedder
  <2>4. ASSUME NEW s \in Sources, EmbedChunk(s) \/ EmbedOne(s)
        PROVE  /\ UNCHANGED <<edits, crashes>>
               /\ UNCHANGED glitches \/ (glitches < MaxGlitches /\ glitches' = glitches + 1)
    BY <2>4 DEF EmbedChunk, EmbedOne
  <2> QED
    BY <2>0, <2>1, <2>2, <2>3, <2>4 DEF EmbedNext, embedVars
<1> QED
  BY <1>1, <1>2, <1>3, <1>4 DEF EmbedInv

(* Texts, vectors, the queue and what the worker and the sweep have in     *)
(* hand are of their types (_processBatch, processOrphanFragments).        *)
THEOREM EmbedTypeCorrect == EmbedSpec => []EmbedTypeOK
<1>1. EmbedInv => EmbedTypeOK
  <2> SUFFICES ASSUME EmbedInv PROVE EmbedTypeOK
    OBVIOUS
  <2>1. ASSUME NEW s \in Sources
        PROVE  embedder[s].at \in {"idle", "popped", "chunk", "one"} /\ InHand(s) \subseteq FragmentIds
    BY HandIs DEF EmbedInv, Embedders
  <2> QED
    BY <2>1 DEF EmbedInv, VectorInv, EmbedTypeOK
<1> QED
  BY <1>1, EmbedInvInit, EmbedInvNext, PTL DEF EmbedSpec

-----------------------------------------------------------------------------
(* Keys.                                                                   *)

(* A lookup whose await is not over.                                       *)
Calls == [at : {"looking", "read"}, by : Servers, now : 0 .. MaxClock, generation : Nat,
          hit : Versions \cup {Unknown}, read : Versions, from : Versions]
Answers == [at : {"answered"}, answer : Versions \cup {Unknown}, old : BOOLEAN,
            now : 0 .. MaxClock, from : Versions]
Asking(r) == lookup[r].at \in {"looking", "read"}

-----------------------------------------------------------------------------
(* The argument.                                                           *)

(* A process caches nothing from before the last time it dropped the key.  *)
CacheOK == \A p \in Servers : /\ dropped[p] <= Version
                              /\ cache[p].state # Unknown => dropped[p] <= cache[p].state

(* Neither what a lookup found in the cache nor what it read is from       *)
(* before; as long as no generation has passed, it began after the last    *)
(* drop, so what it read may be cached.                                    *)
LookupOK == \A r \in Askers : Asking(r) =>
  /\ lookup[r].from <= Version
  /\ lookup[r].hit # Unknown => lookup[r].from <= lookup[r].hit
  /\ lookup[r].at = "read" => lookup[r].from <= lookup[r].read
  /\ lookup[r].generation <= generation[lookup[r].by]
  /\ Same(r) => lookup[r].from = dropped[lookup[r].by]

KeyInv == KeyTypeOK /\ CacheOK /\ LookupOK /\ InvalidatedIsGone

-----------------------------------------------------------------------------
(* The present state is the last one.                                      *)
LEMMA VersionIsLast ==
  ASSUME NEW n \in Nat, DOMAIN since = 0 .. n
  PROVE  Version = n
<1>1. \A u \in DOMAIN since : u <= n
  OBVIOUS
<1>2. n \in DOMAIN since
  OBVIOUS
<1>3. /\ Version \in DOMAIN since
      /\ \A u \in DOMAIN since : u <= Version
  BY <1>1, <1>2 DEF Version
<1> QED
  BY <1>1, <1>2, <1>3

(* A lookup under way is a call.                                           *)
LEMMA CallType ==
  ASSUME KeyTypeOK, NEW r \in Askers, Asking(r)
  PROVE  lookup[r] \in Calls
  BY DEF KeyTypeOK, Asking, Calls

(* The type of what requests ask, in terms of calls and answers.           *)
LEMMA LookupType ==
  KeyTypeOK => lookup \in [Askers -> [at : {"idle"}] \cup Calls \cup Answers]
  BY DEF KeyTypeOK, Calls, Answers

(* An answer returned for a call.                                          *)
LEMMA ReturnedType ==
  ASSUME NEW call \in Calls, NEW state \in Versions \cup {Unknown}, NEW old \in BOOLEAN
  PROVE  Returned(call, state, old) \in Answers
  BY DEF Returned, Calls, Answers

(* What a lookup that begins knows.                                        *)
LEMMA CallIsCall ==
  ASSUME KeyTypeOK, NEW p \in Servers
  PROVE  Call(p) \in Calls
  BY KeyTimesAssumption DEF Call, Calls, KeyTypeOK, Versions

(* The variables of the caches after a drop.                               *)
LEMMA DropType ==
  ASSUME KeyTypeOK, NEW p \in Servers, InvalidateKeyState(p)
  PROVE  /\ cache' \in [Servers -> [state : Versions \cup {Unknown}, expiresAt : Nat]]
         /\ failureUntil' \in [Servers -> Nat]
         /\ generation' \in [Servers -> Nat]
         /\ dropped' \in [Servers -> Versions]
<1>1. NoEntry \in [state : Versions \cup {Unknown}, expiresAt : Nat]
  BY DEF NoEntry
<1> QED
  BY <1>1 DEF KeyTypeOK, InvalidateKeyState
-----------------------------------------------------------------------------
(* The initial state.                                                      *)
LEMMA KeyInvInit == KeyInit => KeyInv
<1> SUFFICES ASSUME KeyInit PROVE KeyInv
  OBVIOUS
<1>1. Version = 0
  <2>1. DOMAIN since = 0 .. 0
    BY DEF KeyInit
  <2> QED
    BY <2>1, VersionIsLast
<1>2. NoEntry \in [state : Versions \cup {Unknown}, expiresAt : Nat] /\ NoEntry.state = Unknown
  BY DEF NoEntry
<1>3. KeyTypeOK
  <2>1. since \in [0 .. Version -> 0 .. MaxClock] /\ Version \in Versions
    BY <1>1, KeyTimesAssumption DEF KeyInit, Versions
  <2>2. dropped \in [Servers -> Versions]
    BY KeyTimesAssumption DEF KeyInit, Versions
  <2>3. clock \in 0 .. MaxClock
    BY KeyTimesAssumption DEF KeyInit
  <2> QED
    BY <1>2, <2>1, <2>2, <2>3 DEF KeyInit, KeyTypeOK
<1>4. CacheOK
  <2> SUFFICES ASSUME NEW p \in Servers
               PROVE  dropped[p] <= Version /\ cache[p].state = Unknown
    BY DEF CacheOK
  <2>1. dropped[p] = 0 /\ cache[p] = NoEntry
    BY DEF KeyInit
  <2> QED
    BY <1>1, <1>2, <2>1
<1>5. LookupOK /\ InvalidatedIsGone
  BY DEF KeyInit, LookupOK, Asking, InvalidatedIsGone, Waiting
<1> QED
  BY <1>3, <1>4, <1>5 DEF KeyInv

-----------------------------------------------------------------------------
(* The steps.                                                              *)

(* The present state is a version.                                         *)
LEMMA VersionType == KeyTypeOK => Version \in Versions /\ Version \in Nat
  BY KeyTimesAssumption DEF KeyTypeOK, Versions

(* The version a change brings is the next one.                            *)
LEMMA VersionAfterChange ==
  ASSUME KeyTypeOK, NEW p \in Servers, ChangeKey(p)
  PROVE  Version' = Version + 1 /\ Version' \in Versions
<1>1. Version \in Nat /\ Version + 1 \in Versions
  BY VersionType, KeyTimesAssumption DEF ChangeKey, Versions
<1>2. DOMAIN since' = 0 .. Version + 1
  BY DEF ChangeKey
<1>3. /\ \A u \in DOMAIN since' : u <= Version + 1
      /\ Version + 1 \in DOMAIN since'
  BY <1>1, <1>2
<1>4. /\ Version' \in DOMAIN since'
      /\ \A u \in DOMAIN since' : u <= Version'
  BY <1>3 DEF Version
<1> QED
  BY <1>1, <1>2, <1>3, <1>4

(* A step that leaves caches and lookups alone, time or a change of the    *)
(* key, breaks nothing.                                                    *)
LEMMA StepOutside ==
  ASSUME KeyInv, Version' \in Nat, Version <= Version',
         UNCHANGED <<cache, generation, dropped, lookup>>
  PROVE  CacheOK' /\ LookupOK' /\ InvalidatedIsGone'
<1>1. CacheOK'
  <2> SUFFICES ASSUME NEW p \in Servers
               PROVE  dropped[p] <= Version' /\ (cache[p].state # Unknown => dropped[p] <= cache[p].state)
    BY DEF CacheOK
  <2>1. dropped[p] \in Nat /\ Version \in Nat
    BY VersionType DEF KeyInv, KeyTypeOK, Versions
  <2> QED
    BY <2>1 DEF KeyInv, CacheOK
<1>2. LookupOK'
  <2> SUFFICES ASSUME NEW r \in Askers, Asking(r)
               PROVE  /\ lookup[r].from <= Version'
                      /\ lookup[r].hit # Unknown => lookup[r].from <= lookup[r].hit
                      /\ lookup[r].at = "read" => lookup[r].from <= lookup[r].read
                      /\ lookup[r].generation <= generation[lookup[r].by]
                      /\ Same(r) => lookup[r].from = dropped[lookup[r].by]
    BY DEF LookupOK, Asking, Same
  <2>1. lookup[r].from \in Nat /\ Version \in Nat
    BY CallType, VersionType DEF KeyInv, Calls, Versions
  <2> QED
    BY <2>1 DEF KeyInv, LookupOK
<1>3. InvalidatedIsGone'
  BY DEF KeyInv, InvalidatedIsGone, Waiting
<1> QED
  BY <1>1, <1>2, <1>3

(* A drop: nothing is left in the cache, and no lookup is of the present   *)
(* generation any more.                                                    *)
LEMMA StepDrop ==
  ASSUME KeyInv, NEW p \in Servers, InvalidateKeyState(p), UNCHANGED <<since, lookup>>
  PROVE  CacheOK' /\ LookupOK' /\ InvalidatedIsGone'
<1>1. Version' = Version /\ Version \in Nat
  BY VersionType DEF Version, KeyInv
<1>2. CacheOK'
  <2> SUFFICES ASSUME NEW q \in Servers
               PROVE  dropped'[q] <= Version /\ (cache'[q].state # Unknown => dropped'[q] <= cache'[q].state)
    BY <1>1 DEF CacheOK
  <2>1. CASE q = p
    <3>1. dropped'[q] = Version /\ cache'[q] = NoEntry
      BY <2>1 DEF InvalidateKeyState, KeyInv, KeyTypeOK
    <3> QED
      BY <1>1, <3>1 DEF NoEntry
  <2>2. CASE q # p
    <3>1. dropped'[q] = dropped[q] /\ cache'[q] = cache[q]
      BY <2>2 DEF InvalidateKeyState, KeyInv, KeyTypeOK
    <3> QED
      BY <3>1 DEF KeyInv, CacheOK
  <2> QED
    BY <2>1, <2>2
<1>3. LookupOK'
  <2> SUFFICES ASSUME NEW r \in Askers, Asking(r)
               PROVE  /\ lookup[r].from <= Version
                      /\ lookup[r].hit # Unknown => lookup[r].from <= lookup[r].hit
                      /\ lookup[r].at = "read" => lookup[r].from <= lookup[r].read
                      /\ lookup[r].generation <= generation'[lookup[r].by]
                      /\ generation'[lookup[r].by] = lookup[r].generation
                           => lookup[r].from = dropped'[lookup[r].by]
    BY <1>1 DEF LookupOK, Asking, Same
  <2>1. lookup[r].generation \in Nat /\ lookup[r].by \in Servers
    BY CallType DEF KeyInv, Calls
  <2>2. /\ lookup[r].from <= Version
        /\ lookup[r].hit # Unknown => lookup[r].from <= lookup[r].hit
        /\ lookup[r].at = "read" => lookup[r].from <= lookup[r].read
        /\ lookup[r].generation <= generation[lookup[r].by]
        /\ generation[lookup[r].by] = lookup[r].generation => lookup[r].from = dropped[lookup[r].by]
    BY DEF KeyInv, LookupOK, Same
  <2>3. CASE lookup[r].by = p
    <3>1. generation[p] \in Nat /\ generation'[p] = generation[p] + 1
      BY DEF InvalidateKeyState, KeyInv, KeyTypeOK
    <3> QED
      BY <2>1, <2>2, <2>3, <3>1
  <2>4. CASE lookup[r].by # p
    <3>1. /\ generation'[lookup[r].by] = generation[lookup[r].by]
          /\ dropped'[lookup[r].by] = dropped[lookup[r].by]
      BY <2>1, <2>4 DEF InvalidateKeyState, KeyInv, KeyTypeOK
    <3> QED
      BY <2>2, <3>1
  <2> QED
    BY <2>3, <2>4
<1>4. InvalidatedIsGone'
  BY DEF KeyInv, InvalidatedIsGone, Waiting
<1> QED
  BY <1>2, <1>3, <1>4

(* Entries of other keys push this one out.                                *)
LEMMA StepEvict ==
  ASSUME KeyInv, NEW p \in Servers, Evict(p)
  PROVE  CacheOK' /\ LookupOK' /\ InvalidatedIsGone'
<1>1. Version' = Version
  BY DEF Evict, Version
<1>2. CacheOK'
  <2> SUFFICES ASSUME NEW q \in Servers
               PROVE  dropped[q] <= Version /\ (cache'[q].state # Unknown => dropped[q] <= cache'[q].state)
    BY <1>1 DEF CacheOK, Evict
  <2>1. cache'[q] = cache[q] \/ cache'[q] = NoEntry
    BY DEF Evict, KeyInv, KeyTypeOK
  <2> QED
    BY <2>1 DEF KeyInv, CacheOK, NoEntry
<1>3. LookupOK' /\ InvalidatedIsGone'
  BY <1>1 DEF Evict, KeyInv, LookupOK, Asking, Same, InvalidatedIsGone, Waiting
<1> QED
  BY <1>2, <1>3

(* What is answered is not older than the last drop before the question.   *)
LEMMA AnswerIsNew ==
  ASSUME KeyInv, NEW r \in Askers, NEW new, lookup' = [lookup EXCEPT ![r] = new],
         new.at = "answered", new.answer # Unknown => new.from <= new.answer,
         new.answer \in Versions \cup {Unknown}, new.from \in Versions
  PROVE  InvalidatedIsGone'
<1> SUFFICES ASSUME NEW q \in Askers, lookup'[q].at = "answered", lookup'[q].answer # Unknown
             PROVE  lookup'[q].answer >= lookup'[q].from
  BY DEF InvalidatedIsGone, Waiting
<1>1. CASE q = r
  <2>1. lookup'[q] = new
    BY <1>1 DEF KeyInv, KeyTypeOK
  <2> QED
    BY <2>1 DEF Versions
<1>2. CASE q # r
  <2>1. lookup'[q] = lookup[q]
    BY <1>2 DEF KeyInv, KeyTypeOK
  <2> QED
    BY <2>1 DEF KeyInv, InvalidatedIsGone, Waiting
<1> QED
  BY <1>1, <1>2

(* A lookup that ends leaves what is known of the others.                  *)
LEMMA OthersKept ==
  ASSUME KeyInv, NEW r \in Askers, NEW new, lookup' = [lookup EXCEPT ![r] = new], ~(new.at \in {"looking", "read"}),
         UNCHANGED <<since, generation, dropped>>
  PROVE  LookupOK'
<1>1. Version' = Version
  BY DEF Version
<1> SUFFICES ASSUME NEW q \in Askers, lookup'[q].at \in {"looking", "read"}
             PROVE  /\ lookup'[q].from <= Version
                    /\ lookup'[q].hit # Unknown => lookup'[q].from <= lookup'[q].hit
                    /\ lookup'[q].at = "read" => lookup'[q].from <= lookup'[q].read
                    /\ lookup'[q].generation <= generation[lookup'[q].by]
                    /\ generation[lookup'[q].by] = lookup'[q].generation => lookup'[q].from = dropped[lookup'[q].by]
  BY <1>1 DEF LookupOK, Asking, Same
<1>2. lookup'[q] = lookup[q]
  BY DEF KeyInv, KeyTypeOK
<1> QED
  BY <1>2 DEF KeyInv, LookupOK, Asking, Same

(* The call a request begins with.                                         *)
LEMMA CallIsNew ==
  ASSUME KeyInv, NEW p \in Servers
  PROVE  /\ Call(p).from <= Version
         /\ Call(p).hit # Unknown => Call(p).from <= Call(p).hit
         /\ Call(p).hit = cache[p].state /\ Call(p).from = dropped[p]
         /\ Call(p).at = "looking" /\ Call(p).by = p /\ Call(p).generation = generation[p]
  BY DEF KeyInv, CacheOK, Call

(* A request is answered from what is cached, or begins a lookup.          *)
LEMMA StepAsk ==
  ASSUME KeyInv, NEW r \in Askers, NEW p \in Servers, Ask(r, p)
  PROVE  CacheOK' /\ LookupOK' /\ InvalidatedIsGone'
<1>1. Version' = Version /\ CacheOK'
  <2>1. Version' = Version
    BY DEF Ask, Version
  <2> QED
    BY <2>1 DEF Ask, caches, KeyInv, CacheOK
<1>2. cache[p].state \in Versions \cup {Unknown} /\ dropped[p] \in Versions /\ generation[p] \in Nat
  BY DEF KeyInv, KeyTypeOK
<1>3. CASE \E old \in BOOLEAN : lookup' = [lookup EXCEPT ![r] = Returned(Call(p), cache[p].state, old)]
  <2>1. PICK old \in BOOLEAN : lookup' = [lookup EXCEPT ![r] = Returned(Call(p), cache[p].state, old)]
    BY <1>3
  <2> DEFINE new == Returned(Call(p), cache[p].state, old)
  <2>2. new.at = "answered" /\ new.answer = cache[p].state /\ new.from = dropped[p]
    BY CallIsNew DEF Returned
  <2>3. new.answer # Unknown => new.from <= new.answer
    BY <2>2 DEF KeyInv, CacheOK
  <2> HIDE DEF new
  <2>4. InvalidatedIsGone'
    BY <1>2, <2>1, <2>2, <2>3, AnswerIsNew DEF new
  <2>5. LookupOK'
    BY <2>1, <2>2, OthersKept DEF new, Ask, caches
  <2> QED
    BY <1>1, <2>4, <2>5
<1>4. CASE lookup' = [lookup EXCEPT ![r] = Call(p)]
  <2>1. \A q \in Askers : lookup'[q] = IF q = r THEN Call(p) ELSE lookup[q]
    BY <1>4 DEF KeyInv, KeyTypeOK
  <2>2. UNCHANGED <<since, generation, dropped>>
    BY DEF Ask, caches
  <2>3. LookupOK'
    <3> SUFFICES ASSUME NEW q \in Askers, lookup'[q].at \in {"looking", "read"}
                 PROVE  /\ lookup'[q].from <= Version
                        /\ lookup'[q].hit # Unknown => lookup'[q].from <= lookup'[q].hit
                        /\ lookup'[q].at = "read" => lookup'[q].from <= lookup'[q].read
                        /\ lookup'[q].generation <= generation[lookup'[q].by]
                        /\ generation[lookup'[q].by] = lookup'[q].generation
                             => lookup'[q].from = dropped[lookup'[q].by]
      BY <1>1, <2>2 DEF LookupOK, Asking, Same
    <3>1. CASE q = r
      BY <1>2, <2>1, <3>1, CallIsNew
    <3>2. CASE q # r
      BY <2>1, <3>2 DEF KeyInv, LookupOK, Asking, Same
    <3> QED
      BY <3>1, <3>2
  <2>4. InvalidatedIsGone'
    BY <2>1, CallIsNew DEF KeyInv, InvalidatedIsGone, Waiting
  <2> QED
    BY <1>1, <2>3, <2>4
<1> QED
  BY <1>3, <1>4 DEF Ask

(* The row is read: it is not older than any drop so far.                  *)
LEMMA StepRead ==
  ASSUME KeyInv, NEW r \in Askers, GetKeyAuthState(r)
  PROVE  CacheOK' /\ LookupOK' /\ InvalidatedIsGone'
<1>1. Version' = Version /\ UNCHANGED <<since, generation, dropped, cache>>
  BY DEF GetKeyAuthState, caches, Version
<1>2. lookup[r] \in Calls /\ Asking(r)
  BY CallType DEF GetKeyAuthState, Waiting, Asking, KeyInv
<1>3. lookup' = [lookup EXCEPT ![r] = [lookup[r] EXCEPT !.at = "read", !.read = Version]]
  BY DEF GetKeyAuthState
<1>4. \A q \in Askers : lookup'[q] = IF q = r THEN [lookup[r] EXCEPT !.at = "read", !.read = Version]
                                           ELSE lookup[q]
  BY <1>3 DEF KeyInv, KeyTypeOK
<1>5. CacheOK'
  BY <1>1 DEF KeyInv, CacheOK
<1>6. LookupOK'
  <2> SUFFICES ASSUME NEW q \in Askers, lookup'[q].at \in {"looking", "read"}
               PROVE  /\ lookup'[q].from <= Version
                      /\ lookup'[q].hit # Unknown => lookup'[q].from <= lookup'[q].hit
                      /\ lookup'[q].at = "read" => lookup'[q].from <= lookup'[q].read
                      /\ lookup'[q].generation <= generation[lookup'[q].by]
                      /\ generation[lookup'[q].by] = lookup'[q].generation
                           => lookup'[q].from = dropped[lookup'[q].by]
    BY <1>1 DEF LookupOK, Asking, Same
  <2>1. CASE q = r
    <3>1. /\ lookup'[r].from = lookup[r].from /\ lookup'[r].hit = lookup[r].hit
          /\ lookup'[r].read = Version /\ lookup'[r].by = lookup[r].by
          /\ lookup'[r].generation = lookup[r].generation
      BY <1>2, <1>4 DEF Calls
    <3> QED
      BY <1>2, <2>1, <3>1 DEF KeyInv, LookupOK, Same
  <2>2. CASE q # r
    BY <1>4, <2>2 DEF KeyInv, LookupOK, Asking, Same
  <2> QED
    BY <2>1, <2>2
<1>7. InvalidatedIsGone'
  <2>1. lookup'[r].at = "read"
    BY <1>2, <1>4 DEF Calls
  <2> QED
    BY <1>4, <2>1 DEF KeyInv, InvalidatedIsGone, Waiting
<1> QED
  BY <1>5, <1>6, <1>7

(* A lookup ends with the row it read, and caches it if it may.            *)
LEMMA StepAnswer ==
  ASSUME KeyInv, NEW r \in Askers, Answer(r)
  PROVE  CacheOK' /\ LookupOK' /\ InvalidatedIsGone'
<1> DEFINE new == Returned(lookup[r], lookup[r].read, FALSE)
<1>1. Version' = Version /\ UNCHANGED <<since, generation, dropped>>
  BY DEF Answer, Version
<1>2. lookup[r] \in Calls /\ Asking(r) /\ lookup[r].at = "read"
  BY CallType DEF Answer, Waiting, Asking, KeyInv
<1>3. lookup[r].from <= lookup[r].read
  BY <1>2 DEF KeyInv, LookupOK
<1>4. lookup' = [lookup EXCEPT ![r] = new]
  BY DEF Answer
<1>5. /\ new.at = "answered" /\ new.answer = lookup[r].read /\ new.from = lookup[r].from
      /\ new.answer \in Versions /\ new.from \in Versions
  BY <1>2 DEF Returned, Calls
<1> HIDE DEF new
<1>6. LookupOK'
  BY <1>1, <1>4, <1>5, OthersKept
<1>7. InvalidatedIsGone'
  BY <1>3, <1>4, <1>5, AnswerIsNew
<1>8. CacheOK'
  <2> SUFFICES ASSUME NEW q \in Servers
               PROVE  dropped[q] <= Version /\ (cache'[q].state # Unknown => dropped[q] <= cache'[q].state)
    BY <1>1 DEF CacheOK
  <2>1. CASE q = lookup[r].by /\ Same(r)
    <3>1. cache' = [cache EXCEPT ![q] = [state |-> lookup[r].read, expiresAt |-> ExpiresAt(r)]]
      BY <2>1 DEF Answer, MayCache
    <3>2. cache'[q].state = lookup[r].read
      BY <3>1 DEF KeyInv, KeyTypeOK
    <3>3. lookup[r].from = dropped[q]
      BY <1>2, <2>1 DEF KeyInv, LookupOK
    <3> QED
      BY <1>3, <3>2, <3>3 DEF KeyInv, CacheOK
  <2>2. CASE ~(q = lookup[r].by /\ Same(r))
    <3>1. cache'[q] = cache[q]
      BY <2>2 DEF Answer, MayCache, KeyInv, KeyTypeOK
    <3> QED
      BY <3>1 DEF KeyInv, CacheOK
  <2> QED
    BY <2>1, <2>2
<1> QED
  BY <1>6, <1>7, <1>8

(* A lookup fails, and what was cached when it began has to do.            *)
LEMMA StepFails ==
  ASSUME KeyInv, NEW r \in Askers, LookupFails(r)
  PROVE  CacheOK' /\ LookupOK' /\ InvalidatedIsGone'
<1> DEFINE new == Returned(lookup[r], lookup[r].hit, TRUE)
<1>1. Version' = Version /\ UNCHANGED <<since, generation, dropped, cache>>
  BY DEF LookupFails, Version
<1>2. lookup[r] \in Calls /\ Asking(r)
  BY CallType DEF LookupFails, Asking, KeyInv
<1>3. lookup[r].hit # Unknown => lookup[r].from <= lookup[r].hit
  BY <1>2 DEF KeyInv, LookupOK
<1>4. lookup' = [lookup EXCEPT ![r] = new]
  BY DEF LookupFails
<1>5. /\ new.at = "answered" /\ new.answer = lookup[r].hit /\ new.from = lookup[r].from
      /\ new.answer \in Versions \cup {Unknown} /\ new.from \in Versions
  BY <1>2 DEF Returned, Calls
<1> HIDE DEF new
<1>6. LookupOK'
  BY <1>1, <1>4, <1>5, OthersKept
<1>7. InvalidatedIsGone'
  BY <1>3, <1>4, <1>5, AnswerIsNew
<1>8. CacheOK'
  BY <1>1 DEF KeyInv, CacheOK
<1> QED
  BY <1>6, <1>7, <1>8

-----------------------------------------------------------------------------
(* The types.                                                              *)

(* The variables have their types after a change of the key.               *)
LEMMA TypeChange ==
  ASSUME KeyTypeOK, NEW p \in Servers, ChangeKey(p)
  PROVE  KeyTypeOK'
<1>1. Version' = Version + 1 /\ Version' \in Versions
  BY VersionAfterChange
<1>2. since' \in [0 .. Version' -> 0 .. MaxClock]
  BY <1>1, VersionType DEF ChangeKey, KeyTypeOK
<1>3. changing' \in [Servers -> Nat]
  BY DEF ChangeKey, KeyTypeOK
<1> QED
  BY <1>1, <1>2, <1>3 DEF ChangeKey, caches, KeyTypeOK

(* They have them after a drop, whether from here or by a message.         *)
LEMMA TypeDrop ==
  ASSUME KeyTypeOK, NEW p \in Servers, InvalidateKeys(p) \/ HandleMessage(p)
  PROVE  KeyTypeOK'
<1>1. Version' = Version
  BY DEF InvalidateKeys, HandleMessage, Version
<1>2. /\ cache' \in [Servers -> [state : Versions \cup {Unknown}, expiresAt : Nat]]
      /\ failureUntil' \in [Servers -> Nat]
      /\ generation' \in [Servers -> Nat]
      /\ dropped' \in [Servers -> Versions]
  BY DropType DEF InvalidateKeys, HandleMessage
<1>3. changing' \in [Servers -> Nat] /\ notices' \in [Servers -> Nat]
  <2>1. changing \in [Servers -> Nat] /\ notices \in [Servers -> Nat]
    BY DEF KeyTypeOK
  <2>2. CASE InvalidateKeys(p)
    BY <2>1, <2>2 DEF InvalidateKeys
  <2>3. CASE HandleMessage(p)
    BY <2>1, <2>3 DEF HandleMessage
  <2> QED
    BY <2>2, <2>3
<1>4. UNCHANGED <<since, lookup, clock>>
  BY DEF InvalidateKeys, HandleMessage
<1> QED
  BY <1>1, <1>2, <1>3, <1>4 DEF KeyTypeOK

(* They have them when the entry or the window is evicted.                 *)
LEMMA TypeEvict ==
  ASSUME KeyTypeOK, NEW p \in Servers, Evict(p)
  PROVE  KeyTypeOK'
<1>1. Version' = Version
  BY DEF Evict, Version
<1>2. NoEntry \in [state : Versions \cup {Unknown}, expiresAt : Nat]
  BY DEF NoEntry
<1>3. /\ cache' \in [Servers -> [state : Versions \cup {Unknown}, expiresAt : Nat]]
      /\ failureUntil' \in [Servers -> Nat]
  <2>1. /\ cache \in [Servers -> [state : Versions \cup {Unknown}, expiresAt : Nat]]
        /\ failureUntil \in [Servers -> Nat]
    BY DEF KeyTypeOK
  <2>2. CASE cache' = [cache EXCEPT ![p] = NoEntry] /\ UNCHANGED failureUntil
    BY <1>2, <2>1, <2>2
  <2>3. CASE failureUntil' = [failureUntil EXCEPT ![p] = 0] /\ UNCHANGED cache
    BY <2>1, <2>3
  <2> QED
    BY <2>2, <2>3 DEF Evict
<1> QED
  BY <1>1, <1>3 DEF Evict, KeyTypeOK

(* Whatever a request does next is the beginning of a lookup or an answer. *)
LEMMA TypeLookup ==
  ASSUME KeyTypeOK, NEW r \in Askers, NEW new \in Calls \cup Answers,
         lookup' = [lookup EXCEPT ![r] = new],
         cache' \in [Servers -> [state : Versions \cup {Unknown}, expiresAt : Nat]],
         failureUntil' \in [Servers -> Nat],
         UNCHANGED <<since, generation, dropped, changing, notices, clock>>
  PROVE  KeyTypeOK'
<1>1. Version' = Version
  BY DEF Version
<1>2. lookup' \in [Askers -> [at : {"idle"}] \cup Calls \cup Answers]
  BY LookupType
<1> QED
  BY <1>1, <1>2 DEF KeyTypeOK, Calls, Answers

(* They have them when a request asks.                                     *)
LEMMA TypeAsk ==
  ASSUME KeyTypeOK, NEW r \in Askers, NEW p \in Servers, Ask(r, p)
  PROVE  KeyTypeOK'
<1>1. Call(p) \in Calls
  BY CallIsCall
<1>2. cache[p].state \in Versions \cup {Unknown}
  BY DEF KeyTypeOK
<1>3. PICK new \in Calls \cup Answers : lookup' = [lookup EXCEPT ![r] = new]
  <2> DEFINE old == ~(cache[p].expiresAt > clock)
  <2>1. Returned(Call(p), cache[p].state, old) \in Answers
    BY <1>1, <1>2, ReturnedType
  <2> QED
    BY <1>1, <2>1 DEF Ask
<1> QED
  BY <1>3, TypeLookup DEF Ask, caches, KeyTypeOK

(* They have them when a lookup reads the row.                             *)
LEMMA TypeRead ==
  ASSUME KeyTypeOK, NEW r \in Askers, GetKeyAuthState(r)
  PROVE  KeyTypeOK'
<1>1. lookup[r] \in Calls
  BY CallType DEF GetKeyAuthState, Waiting, Asking
<1>2. [lookup[r] EXCEPT !.at = "read", !.read = Version] \in Calls
  BY <1>1, VersionType DEF Calls
<1>3. lookup' = [lookup EXCEPT ![r] = [lookup[r] EXCEPT !.at = "read", !.read = Version]]
  BY DEF GetKeyAuthState
<1> QED
  BY <1>2, <1>3, TypeLookup DEF GetKeyAuthState, caches, KeyTypeOK

(* They have them when a lookup is answered.                               *)
LEMMA TypeAnswer ==
  ASSUME KeyTypeOK, NEW r \in Askers, Answer(r)
  PROVE  KeyTypeOK'
<1>1. lookup[r] \in Calls
  BY CallType DEF Answer, Waiting, Asking
<1>2. lookup[r].read \in Versions /\ lookup[r].now \in Nat
  BY <1>1, KeyTimesAssumption DEF Calls
<1>3. Returned(lookup[r], lookup[r].read, FALSE) \in Answers
  BY <1>1, <1>2, ReturnedType
<1>4. [state |-> lookup[r].read, expiresAt |-> ExpiresAt(r)] \in [state : Versions \cup {Unknown}, expiresAt : Nat]
  BY <1>2, KeyTimesAssumption DEF ExpiresAt
<1>5. /\ cache' \in [Servers -> [state : Versions \cup {Unknown}, expiresAt : Nat]]
      /\ failureUntil' \in [Servers -> Nat]
  <2>1. /\ cache \in [Servers -> [state : Versions \cup {Unknown}, expiresAt : Nat]]
        /\ failureUntil \in [Servers -> Nat]
    BY DEF KeyTypeOK
  <2>2. CASE MayCache(r)
    BY <1>4, <2>1, <2>2 DEF Answer
  <2>3. CASE ~MayCache(r)
    BY <2>1, <2>3 DEF Answer
  <2> QED
    BY <2>2, <2>3
<1>6. lookup' = [lookup EXCEPT ![r] = Returned(lookup[r], lookup[r].read, FALSE)]
  BY DEF Answer
<1> QED
  BY <1>3, <1>5, <1>6, TypeLookup DEF Answer

(* They have them when a lookup fails.                                     *)
LEMMA TypeFails ==
  ASSUME KeyTypeOK, NEW r \in Askers, LookupFails(r)
  PROVE  KeyTypeOK'
<1>1. lookup[r] \in Calls
  BY CallType DEF LookupFails, Asking
<1>2. Returned(lookup[r], lookup[r].hit, TRUE) \in Answers
  BY <1>1, ReturnedType DEF Calls
<1>3. clock + FailureWindow \in Nat
  BY KeyTimesAssumption DEF KeyTypeOK
<1>4. failureUntil' \in [Servers -> Nat]
  BY <1>3 DEF LookupFails, KeyTypeOK
<1>5. lookup' = [lookup EXCEPT ![r] = Returned(lookup[r], lookup[r].hit, TRUE)]
  BY DEF LookupFails
<1> QED
  BY <1>2, <1>4, <1>5, TypeLookup DEF LookupFails, KeyTypeOK

-----------------------------------------------------------------------------
(* Together.                                                               *)

(* Every step keeps the invariant.                                         *)
LEMMA KeyInvNext == KeyInv /\ [KeyNext]_keyVars => KeyInv'
<1> SUFFICES ASSUME KeyInv, [KeyNext]_keyVars PROVE KeyInv'
  OBVIOUS
<1>0. KeyTypeOK /\ Version \in Nat
  BY VersionType DEF KeyInv
<1>1. ASSUME KeyTick \/ UNCHANGED keyVars PROVE KeyInv'
  <2>1. Version' = Version /\ UNCHANGED <<cache, generation, dropped, lookup>>
    BY <1>1 DEF KeyTick, keyVars, caches, Version
  <2>2. clock' \in 0 .. MaxClock
    BY <1>0, <1>1, KeyTimesAssumption DEF KeyTick, keyVars, KeyTypeOK
  <2>3. KeyTypeOK'
    BY <1>0, <1>1, <2>1, <2>2 DEF KeyTick, keyVars, caches, KeyTypeOK
  <2>4. CacheOK' /\ LookupOK' /\ InvalidatedIsGone'
    BY <1>0, <2>1, StepOutside
  <2> QED
    BY <2>3, <2>4 DEF KeyInv
<1>2. ASSUME NEW p \in Servers, ChangeKey(p) PROVE KeyInv'
  <2>1. Version' \in Nat /\ Version <= Version'
    BY <1>0, <1>2, VersionAfterChange
  <2>2. UNCHANGED <<cache, generation, dropped, lookup>>
    BY <1>2 DEF ChangeKey, caches
  <2>3. CacheOK' /\ LookupOK' /\ InvalidatedIsGone'
    BY <2>1, <2>2, StepOutside
  <2> QED
    BY <1>0, <1>2, <2>3, TypeChange DEF KeyInv
<1>3. ASSUME NEW p \in Servers, InvalidateKeys(p) \/ HandleMessage(p) PROVE KeyInv'
  <2>1. InvalidateKeyState(p) /\ UNCHANGED <<since, lookup>>
    BY <1>3 DEF InvalidateKeys, HandleMessage
  <2> QED
    BY <1>0, <1>3, <2>1, StepDrop, TypeDrop DEF KeyInv
<1>4. ASSUME NEW p \in Servers, Evict(p) PROVE KeyInv'
  BY <1>0, <1>4, StepEvict, TypeEvict DEF KeyInv
<1>5. ASSUME NEW r \in Askers, NEW p \in Servers, Ask(r, p) PROVE KeyInv'
  BY <1>0, <1>5, StepAsk, TypeAsk DEF KeyInv
<1>6. ASSUME NEW r \in Askers, GetKeyAuthState(r) PROVE KeyInv'
  BY <1>0, <1>6, StepRead, TypeRead DEF KeyInv
<1>7. ASSUME NEW r \in Askers, Answer(r) PROVE KeyInv'
  BY <1>0, <1>7, StepAnswer, TypeAnswer DEF KeyInv
<1>8. ASSUME NEW r \in Askers, LookupFails(r) PROVE KeyInv'
  BY <1>0, <1>8, StepFails, TypeFails DEF KeyInv
<1> QED
  BY <1>1, <1>2, <1>3, <1>4, <1>5, <1>6, <1>7, <1>8 DEF KeyNext

(* The variables of the key cache have their types (key-state-cache.js).   *)
THEOREM KeyTypeCorrect == KeySpec => []KeyTypeOK
<1>1. KeyInv => KeyTypeOK
  BY DEF KeyInv
<1> QED
  BY <1>1, KeyInvInit, KeyInvNext, PTL DEF KeySpec

(* Once invalidateKeys or a message dropped a key in a process, no request *)
(* that begins there is given a state from before, however many lookups    *)
(* are under way and whatever fails: a generation that passed keeps a late *)
(* answer out of the cache (key-state-cache.js).                           *)
THEOREM DroppedStaysGone == KeySpec => []InvalidatedIsGone
<1>1. KeyInv => InvalidatedIsGone
  BY DEF KeyInv
<1> QED
  BY <1>1, KeyInvInit, KeyInvNext, PTL DEF KeySpec

-----------------------------------------------------------------------------
(* The age of what is told, with no invalidation at all.                   *)

(* A state that has been followed by another.                              *)
Former(state) == state \in 0 .. Version - 1

(* An entry expires a time to live after its lookup began, and the state   *)
(* in it was the present one at some time since.                           *)
EntryAge(e) == /\ e.expiresAt <= clock + KeyTtl
               /\ Former(e.state) => e.expiresAt <= since[e.state + 1] + KeyTtl

(* What a lookup read was the present state at some time since it began.   *)
LookupAge(l) == l.at # "idle" =>
  /\ l.now <= clock
  /\ l.at = "read" /\ Former(l.read) => l.now <= since[l.read + 1]
  /\ l.at = "answered" /\ ~l.old /\ Former(l.answer) => since[l.answer + 1] + KeyTtl > l.now

AgeOK    == (\A p \in Servers : EntryAge(cache[p])) /\ (\A r \in Askers : LookupAge(lookup[r]))
StaleInv == KeyTypeOK /\ AgeOK

Entry     == [state : Versions \cup {Unknown}, expiresAt : Nat]
Questions == [at : {"idle"}] \cup Calls \cup Answers

(* Time does not go back, and a state that becomes a former one does so    *)
(* now.                                                                    *)
Onward ==
  /\ clock' \in Nat /\ clock <= clock'
  /\ \A state : Former(state)' =>
       since'[state + 1] = clock' \/ (Former(state) /\ since'[state + 1] = since[state + 1])

(* When a state was followed by the next is a time.                        *)
LEMMA FormerSince ==
  ASSUME KeyTypeOK, NEW state, Former(state)
  PROVE  since[state + 1] \in Nat
<1>1. Version \in Nat /\ since \in [0 .. Version -> 0 .. MaxClock]
  BY VersionType DEF KeyTypeOK
<1>2. state + 1 \in 0 .. Version
  BY <1>1 DEF Former
<1> QED
  BY <1>1, <1>2, KeyTimesAssumption

(* Times are natural numbers.                                              *)
LEMMA Times == KeyTypeOK => clock \in Nat /\ KeyTtl \in Nat \ {0}
  BY KeyTimesAssumption DEF KeyTypeOK

(* An entry that stays is as old as it was.                                *)
LEMMA EntryOnward ==
  ASSUME KeyTypeOK, Onward, NEW e \in Entry, EntryAge(e)
  PROVE  EntryAge(e)'
<1>1. e.expiresAt \in Nat /\ clock \in Nat /\ KeyTtl \in Nat
  BY Times DEF Entry
<1>2. e.expiresAt <= clock' + KeyTtl
  BY <1>1 DEF Onward, EntryAge
<1>3. ASSUME Former(e.state)' PROVE e.expiresAt <= since'[e.state + 1] + KeyTtl
  <2>1. CASE since'[e.state + 1] = clock'
    BY <1>2, <2>1
  <2>2. CASE Former(e.state) /\ since'[e.state + 1] = since[e.state + 1]
    BY <2>2 DEF EntryAge
  <2> QED
    BY <1>3, <2>1, <2>2 DEF Onward
<1> QED
  BY <1>2, <1>3 DEF EntryAge

(* So is what a request asked or was told.                                 *)
LEMMA LookupOnward ==
  ASSUME KeyTypeOK, Onward, NEW l \in Questions, LookupAge(l)
  PROVE  LookupAge(l)'
<1> SUFFICES ASSUME l.at # "idle"
             PROVE  /\ l.now <= clock'
                    /\ l.at = "read" /\ Former(l.read)' => l.now <= since'[l.read + 1]
                    /\ l.at = "answered" /\ ~l.old /\ Former(l.answer)'
                         => since'[l.answer + 1] + KeyTtl > l.now
  BY DEF LookupAge
<1>1. l.now \in Nat /\ clock \in Nat /\ KeyTtl \in Nat \ {0}
  BY Times, KeyTimesAssumption DEF Questions, Calls, Answers
<1>2. l.now <= clock'
  BY <1>1 DEF Onward, LookupAge
<1>3. ASSUME l.at = "read", Former(l.read)' PROVE l.now <= since'[l.read + 1]
  <2>1. CASE since'[l.read + 1] = clock'
    BY <1>2, <2>1
  <2>2. CASE Former(l.read) /\ since'[l.read + 1] = since[l.read + 1]
    BY <1>3, <2>2 DEF LookupAge
  <2> QED
    BY <1>3, <2>1, <2>2 DEF Onward
<1>4. ASSUME l.at = "answered", ~l.old, Former(l.answer)'
      PROVE  since'[l.answer + 1] + KeyTtl > l.now
  <2>1. CASE since'[l.answer + 1] = clock'
    BY <1>1, <1>2, <2>1 DEF Onward
  <2>2. CASE Former(l.answer) /\ since'[l.answer + 1] = since[l.answer + 1]
    BY <1>4, <2>2 DEF LookupAge
  <2> QED
    BY <1>4, <2>1, <2>2 DEF Onward
<1> QED
  BY <1>2, <1>3, <1>4

(* What is not replaced keeps its age.                                     *)
LEMMA EntryKept ==
  ASSUME StaleInv, Onward, NEW p \in Servers, cache'[p] = cache[p]
  PROVE  EntryAge(cache[p])'
<1>1. PICK e \in Entry : e = cache[p]
  BY DEF StaleInv, KeyTypeOK, Entry
<1>2. EntryAge(e)
  BY <1>1 DEF StaleInv, AgeOK
<1>3. EntryAge(e)'
  BY <1>2, EntryOnward DEF StaleInv
<1> QED
  BY <1>1, <1>3 DEF EntryAge, Former

(* What a request holds keeps its age too.                                 *)
LEMMA LookupKept ==
  ASSUME StaleInv, Onward, NEW r \in Askers, lookup'[r] = lookup[r]
  PROVE  LookupAge(lookup[r])'
<1>1. PICK l \in Questions : l = lookup[r]
  BY LookupType DEF StaleInv, Questions
<1>2. LookupAge(l)
  BY <1>1 DEF StaleInv, AgeOK
<1>3. LookupAge(l)'
  BY <1>2, LookupOnward DEF StaleInv
<1> QED
  BY <1>1, <1>3 DEF LookupAge, Former

(* A sum of natural numbers is none below zero.                            *)
LEMMA SumOfNats == ASSUME NEW m \in Nat, NEW n \in Nat PROVE 0 <= m + n
  OBVIOUS

(* An entry that was dropped or pushed out has no age.                     *)
LEMMA NoEntryAge ==
  ASSUME KeyTypeOK', NEW p \in Servers, cache'[p] = NoEntry
  PROVE  EntryAge(cache[p])'
<1>1. cache'[p].state = Unknown /\ cache'[p].expiresAt = 0
  BY DEF NoEntry
<1>2. clock' \in Nat /\ KeyTtl \in Nat
  BY KeyTimesAssumption DEF KeyTypeOK
<1>3. Version' \in Nat
  BY KeyTimesAssumption DEF KeyTypeOK, Versions
<1>4. ~Former(cache[p].state)'
  BY <1>1, <1>3, KeyUnknownAssumption DEF Former
<1>5. cache'[p].expiresAt <= clock' + KeyTtl
  BY <1>1, <1>2, SumOfNats
<1> QED
  BY <1>4, <1>5 DEF EntryAge

(* Steps that change neither the key nor the time.                         *)
LEMMA StillOnward == KeyTypeOK /\ UNCHANGED <<since, clock>> => Onward
<1> SUFFICES ASSUME KeyTypeOK, UNCHANGED <<since, clock>> PROVE Onward
  OBVIOUS
<1>1. \A state : Former(state)' => Former(state)
  BY DEF Former, Version
<1>2. clock' \in Nat /\ clock <= clock'
  BY Times
<1> QED
  BY <1>1, <1>2 DEF Onward

(* A change makes the present state a former one, now.                     *)
LEMMA ChangeOnward ==
  ASSUME KeyTypeOK, NEW p \in Servers, ChangeKey(p)
  PROVE  Onward
<1>1. Version' = Version + 1 /\ Version \in Nat /\ clock' = clock /\ clock \in Nat
  BY VersionAfterChange, VersionType, Times DEF ChangeKey
<1>2. ASSUME NEW state, Former(state)'
      PROVE  since'[state + 1] = clock' \/ (Former(state) /\ since'[state + 1] = since[state + 1])
  <2>1. state \in 0 .. Version
    BY <1>1, <1>2 DEF Former
  <2>2. state + 1 \in 0 .. Version + 1
    BY <1>1, <2>1
  <2>3. since'[state + 1] = IF state + 1 <= Version THEN since[state + 1] ELSE clock
    BY <2>2 DEF ChangeKey
  <2>4. CASE state = Version
    BY <1>1, <2>3, <2>4
  <2>5. CASE state # Version
    <3>1. Former(state) /\ state + 1 <= Version
      BY <1>1, <2>1, <2>5 DEF Former
    <3> QED
      BY <2>3, <3>1
  <2> QED
    BY <2>4, <2>5
<1> QED
  BY <1>1, <1>2 DEF Onward

(* A lookup that ends.                                                     *)
LEMMA AgeChanged ==
  ASSUME StaleInv, Onward, NEW r \in Askers, LookupAge(lookup[r])',
         \A q \in Askers \ {r} : lookup'[q] = lookup[q],
         \A p \in Servers : cache'[p] = cache[p] \/ EntryAge(cache[p])'
  PROVE  AgeOK'
<1>1. ASSUME NEW p \in Servers PROVE EntryAge(cache[p])'
  BY EntryKept
<1>2. ASSUME NEW q \in Askers PROVE LookupAge(lookup[q])'
  BY LookupKept
<1> QED
  BY <1>1, <1>2 DEF AgeOK

(* A request is answered from an entry that has not expired, or asks.      *)
LEMMA AskAge ==
  ASSUME StaleInv, NEW r \in Askers, NEW p \in Servers, Ask(r, p)
  PROVE  AgeOK'
<1>1. KeyTypeOK /\ UNCHANGED <<since, clock, cache>> /\ Version' = Version
  BY DEF Ask, caches, StaleInv, Version
<1>2. Onward /\ clock \in Nat
  BY <1>1, StillOnward, Times
<1>3. lookup \in [Askers -> Questions]
  BY <1>1, LookupType DEF Questions
<1>4. EntryAge(cache[p]) /\ cache[p].expiresAt \in Nat
  BY <1>1 DEF StaleInv, AgeOK, KeyTypeOK
<1> DEFINE fresh == cache[p].expiresAt > clock
<1>5. CASE fresh \/ failureUntil[p] > clock
  <2>1. lookup'[r] = Returned(Call(p), cache[p].state, ~fresh)
    BY <1>3, <1>5 DEF Ask
  <2>2. /\ lookup'[r].at = "answered" /\ lookup'[r].now = clock
        /\ lookup'[r].answer = cache[p].state /\ lookup'[r].old = ~fresh
    BY <2>1 DEF Returned, Call
  <2>3. ASSUME ~lookup'[r].old, Former(lookup[r].answer)'
        PROVE  since'[lookup'[r].answer + 1] + KeyTtl > lookup'[r].now
    <3>1. Former(cache[p].state) /\ cache[p].expiresAt > clock
      BY <1>1, <2>2, <2>3 DEF Former
    <3>2. cache[p].expiresAt <= since[cache[p].state + 1] + KeyTtl
      BY <1>4, <3>1 DEF EntryAge
    <3>3. since[cache[p].state + 1] \in Nat /\ KeyTtl \in Nat
      BY <1>1, <3>1, FormerSince, Times
    <3> QED
      BY <1>1, <1>2, <1>4, <2>2, <3>1, <3>2, <3>3
  <2>4. LookupAge(lookup[r])'
    BY <1>1, <1>2, <2>2, <2>3 DEF LookupAge
  <2> QED
    BY <1>1, <1>2, <1>3, <2>4, AgeChanged DEF Ask
<1>6. CASE ~(fresh \/ failureUntil[p] > clock)
  <2>1. lookup'[r] = Call(p)
    BY <1>3, <1>6 DEF Ask
  <2>2. lookup'[r].at = "looking" /\ lookup'[r].now = clock
    BY <2>1 DEF Call
  <2>3. LookupAge(lookup[r])'
    BY <1>1, <1>2, <2>2 DEF LookupAge
  <2> QED
    BY <1>1, <1>2, <1>3, <2>3, AgeChanged DEF Ask
<1> QED
  BY <1>5, <1>6

(* The row that is read is the present state.                              *)
LEMMA ReadAge ==
  ASSUME StaleInv, NEW r \in Askers, GetKeyAuthState(r)
  PROVE  AgeOK'
<1>1. KeyTypeOK /\ UNCHANGED <<since, clock, cache>> /\ Version' = Version /\ Version \in Nat
  BY VersionType DEF GetKeyAuthState, caches, StaleInv, Version
<1>2. Onward
  BY <1>1, StillOnward
<1>3. lookup[r] \in Calls /\ lookup \in [Askers -> Questions]
  BY <1>1, CallType, LookupType DEF GetKeyAuthState, Waiting, Asking, Questions
<1>4. lookup'[r] = [lookup[r] EXCEPT !.at = "read", !.read = Version]
  BY <1>3 DEF GetKeyAuthState
<1>5. lookup'[r].at = "read" /\ lookup'[r].read = Version /\ lookup'[r].now = lookup[r].now
  BY <1>3, <1>4 DEF Calls
<1>6. lookup[r].now <= clock
  BY <1>3 DEF StaleInv, AgeOK, LookupAge, Calls
<1>7. ~Former(lookup[r].read)'
  BY <1>1, <1>5 DEF Former
<1>8. LookupAge(lookup[r])'
  BY <1>1, <1>5, <1>6, <1>7 DEF LookupAge
<1> QED
  BY <1>1, <1>2, <1>3, <1>8, AgeChanged DEF GetKeyAuthState

(* What is answered was read after the lookup began, and the entry counts  *)
(* its time to live from then.                                             *)
LEMMA AnswerAge ==
  ASSUME StaleInv, NEW r \in Askers, Answer(r)
  PROVE  AgeOK'
<1>1. KeyTypeOK /\ UNCHANGED <<since, clock>> /\ Version' = Version
  BY DEF Answer, caches, StaleInv, Version
<1>2. Onward /\ clock \in Nat /\ KeyTtl \in Nat \ {0}
  BY <1>1, StillOnward, Times
<1>3. lookup[r] \in Calls /\ lookup[r].at = "read" /\ lookup \in [Askers -> Questions]
  BY <1>1, CallType, LookupType DEF Answer, Waiting, Asking, Questions
<1>4. PICK call \in Calls : call = lookup[r]
  BY <1>3
<1>5. call.now \in Nat /\ call.now <= clock /\ call.by \in Servers
  BY <1>3, <1>4, KeyTimesAssumption DEF StaleInv, AgeOK, LookupAge, Calls
<1>6. Former(call.read) => call.now <= since[call.read + 1] /\ since[call.read + 1] \in Nat
  BY <1>1, <1>3, <1>4, FormerSince DEF StaleInv, AgeOK, LookupAge
<1>7. LookupAge(lookup[r])'
  <2>1. lookup'[r] = Returned(call, call.read, FALSE)
    BY <1>3, <1>4 DEF Answer
  <2>2. /\ lookup'[r].at = "answered" /\ lookup'[r].now = call.now /\ lookup'[r].answer = call.read
    BY <2>1 DEF Returned
  <2>3. Former(lookup[r].answer)' => Former(call.read)
    BY <1>1, <2>2 DEF Former
  <2>4. Former(call.read) => since[call.read + 1] + KeyTtl > call.now
    BY <1>2, <1>5, <1>6
  <2> QED
    BY <1>1, <1>5, <2>2, <2>3, <2>4 DEF LookupAge
<1>8. ASSUME NEW p \in Servers PROVE cache'[p] = cache[p] \/ EntryAge(cache[p])'
  <2>1. CASE MayCache(r) /\ p = call.by
    <3>1. cache' = [cache EXCEPT ![p] = [state |-> call.read, expiresAt |-> ExpiresAt(r)]]
      BY <1>4, <2>1 DEF Answer
    <3>2. cache'[p] = [state |-> call.read, expiresAt |-> call.now + KeyTtl]
      BY <1>1, <1>4, <3>1 DEF KeyTypeOK, ExpiresAt
    <3>3. cache'[p].state = call.read /\ cache'[p].expiresAt = call.now + KeyTtl
      BY <3>2
    <3>4. Former(cache[p].state)' => Former(call.read)
      BY <1>1, <3>3 DEF Former
    <3>5. call.now + KeyTtl <= clock + KeyTtl
      BY <1>2, <1>5
    <3>6. Former(call.read) => call.now + KeyTtl <= since[call.read + 1] + KeyTtl
      BY <1>2, <1>5, <1>6
    <3> QED
      BY <1>1, <3>3, <3>4, <3>5, <3>6 DEF EntryAge
  <2>2. CASE ~(MayCache(r) /\ p = call.by)
    BY <1>1, <1>4, <2>2 DEF Answer, KeyTypeOK
  <2> QED
    BY <2>1, <2>2
<1> QED
  BY <1>1, <1>2, <1>3, <1>7, <1>8, AgeChanged DEF Answer

(* A lookup that fails tells an old answer, of which nothing is said.      *)
LEMMA FailsAge ==
  ASSUME StaleInv, NEW r \in Askers, LookupFails(r)
  PROVE  AgeOK'
<1>1. KeyTypeOK /\ UNCHANGED <<since, clock, cache>>
  BY DEF LookupFails, caches, StaleInv
<1>2. Onward
  BY <1>1, StillOnward
<1>3. lookup[r] \in Calls /\ lookup \in [Askers -> Questions]
  BY <1>1, CallType, LookupType DEF LookupFails, Asking, Questions
<1>4. lookup'[r] = Returned(lookup[r], lookup[r].hit, TRUE)
  BY <1>3 DEF LookupFails
<1>5. lookup'[r].at = "answered" /\ lookup'[r].now = lookup[r].now /\ lookup'[r].old
  BY <1>4 DEF Returned
<1>6. lookup[r].now <= clock
  BY <1>3 DEF StaleInv, AgeOK, LookupAge, Calls
<1>7. LookupAge(lookup[r])'
  BY <1>1, <1>5, <1>6 DEF LookupAge
<1> QED
  BY <1>1, <1>2, <1>3, <1>7, AgeChanged DEF LookupFails

(* Steps that ask nothing: entries stay or go.                             *)
LEMMA ElseAge ==
  ASSUME StaleInv, KeyTypeOK', Onward, UNCHANGED lookup,
         \A p \in Servers : cache'[p] \in {cache[p], NoEntry}
  PROVE  AgeOK'
<1>1. ASSUME NEW p \in Servers PROVE EntryAge(cache[p])'
  BY EntryKept, NoEntryAge
<1>2. ASSUME NEW q \in Askers PROVE LookupAge(lookup[q])'
  BY LookupKept
<1> QED
  BY <1>1, <1>2 DEF AgeOK

(* Every step keeps the ages.                                              *)
LEMMA StaleNext ==
  ASSUME StaleInv, KeyTypeOK', [KeyNext]_keyVars
  PROVE  AgeOK'
<1>0. KeyTypeOK /\ cache \in [Servers -> Entry]
  BY DEF StaleInv, KeyTypeOK, Entry
<1>1. CASE KeyTick \/ UNCHANGED keyVars
  <2>1. UNCHANGED <<since, cache, lookup>> /\ clock' \in Nat /\ clock <= clock'
    BY <1>0, <1>1, Times DEF KeyTick, keyVars, caches
  <2>2. \A state : Former(state)' => Former(state)
    BY <2>1 DEF Former, Version
  <2>3. Onward
    BY <2>1, <2>2 DEF Onward
  <2> QED
    BY <2>1, <2>3, ElseAge
<1>2. ASSUME NEW p \in Servers, ChangeKey(p) PROVE AgeOK'
  BY <1>0, <1>2, ChangeOnward, ElseAge DEF ChangeKey, caches
<1>3. ASSUME NEW p \in Servers, InvalidateKeys(p) \/ HandleMessage(p) \/ Evict(p) PROVE AgeOK'
  <2>1. UNCHANGED <<since, clock, lookup>>
    BY <1>3 DEF InvalidateKeys, HandleMessage, Evict
  <2>2. cache' = [cache EXCEPT ![p] = NoEntry] \/ UNCHANGED cache
    BY <1>3 DEF InvalidateKeys, HandleMessage, Evict, InvalidateKeyState
  <2>3. \A q \in Servers : cache'[q] \in {cache[q], NoEntry}
    BY <1>0, <2>2
  <2> QED
    BY <1>0, <2>1, <2>3, StillOnward, ElseAge
<1>4. ASSUME NEW r \in Askers, NEW p \in Servers, Ask(r, p) PROVE AgeOK'
  BY <1>4, AskAge
<1>5. ASSUME NEW r \in Askers, GetKeyAuthState(r) \/ Answer(r) \/ LookupFails(r) PROVE AgeOK'
  BY <1>5, ReadAge, AnswerAge, FailsAge
<1> QED
  BY <1>1, <1>2, <1>3, <1>4, <1>5 DEF KeyNext

(* With no message at all, a state is told for less than the time to live  *)
(* after it was changed, however long the lookup took that brought it:     *)
(* the time to live is counted from the start of the lookup, and only what *)
(* failing lookups repeat may be older (getCachedKeyState).                *)
THEOREM StaleForTtlHolds == KeySpec => []StaleForTtl
<1>1. KeyInit => AgeOK
  <2> SUFFICES ASSUME KeyInit PROVE AgeOK
    OBVIOUS
  <2>1. KeyTypeOK
    BY KeyInvInit DEF KeyInv
  <2>2. ASSUME NEW p \in Servers PROVE EntryAge(cache[p])
    <3>1. cache[p].state = Unknown /\ cache[p].expiresAt = 0
      BY DEF KeyInit, NoEntry
    <3>2. ~Former(cache[p].state)
      BY <2>1, <3>1, VersionType, KeyUnknownAssumption DEF Former
    <3> QED
      BY <2>1, <3>1, <3>2, Times DEF EntryAge
  <2> QED
    BY <2>2 DEF AgeOK, LookupAge, KeyInit
<1>2. KeyTypeOK /\ KeyTypeOK' /\ AgeOK /\ [KeyNext]_keyVars => AgeOK'
  BY StaleNext DEF StaleInv
<1>3. AgeOK /\ KeyTypeOK => StaleForTtl
  <2> SUFFICES ASSUME AgeOK, KeyTypeOK, NEW r \in Askers, Waiting(r, "answered"), ~lookup[r].old,
                      lookup[r].answer \in 0 .. Version - 1
               PROVE  since[lookup[r].answer + 1] + KeyTtl > lookup[r].now
    BY DEF StaleForTtl
  <2> QED
    BY DEF AgeOK, LookupAge, Former, Waiting
<1>4. KeySpec => []KeyTypeOK
  BY KeyTypeCorrect
<1> QED
  BY <1>1, <1>2, <1>3, <1>4, PTL DEF KeySpec

-----------------------------------------------------------------------------
(* Quotas.                                                                 *)

(* What a request is at.                                                   *)
Tasks ==
  [at : {"idle", "check", "recheck", "gate", "lock quota", "lock anchors", "count", "write"},
   fragment : Fragments \cup {Nothing}, anchor : {"set", "clear", "keep", "hold"},
   base : BOOLEAN, marked : BOOLEAN, atomic : BOOLEAN]

(* The anchors that count.                                                 *)
Judged == LiveAnchors \ unjudged

-----------------------------------------------------------------------------
(* The argument: whoever is about to write what it counted for still has   *)
(* the key locked, and the count still has room.                           *)

ColumnsOK ==
  /\ live \subseteq used /\ used \subseteq Fragments /\ IsFiniteSet(used)
  /\ anchors \subseteq used /\ held \subseteq live /\ unjudged \subseteq anchors

Counted(r) == task[r].atomic /\ task[r].at \in {"count", "write"}
Granted(r) == task[r].marked /\ task[r].at = "write"

LockOf(r) ==
  /\ task[r].at = "count" => keyLock = r
  /\ task[r].at = "lock anchors" => ~task[r].atomic
  /\ Granted(r) => keyLock = r /\ Cardinality(Judged) < AnchorLimit
  /\ Counted(r) => keyLock = r /\ Cardinality(live) < FragmentLimit
LockOK == \A r \in Requests : LockOf(r)

ProcessOK ==
  /\ keyLock \in Requests \cup {Nobody}
  /\ usage \in 0 .. FragmentLimit \cup {Nothing}
  /\ task \in [Requests -> Tasks]

QuotaInv == ColumnsOK /\ ProcessOK /\ LockOK /\ JudgedAnchorsKeepTheLimit

-----------------------------------------------------------------------------
(* Counting.                                                               *)

(* The sets that are counted are finite.                                   *)
LEMMA Counts ==
  ASSUME ColumnsOK
  PROVE  /\ IsFiniteSet(live) /\ Cardinality(live) \in Nat
         /\ IsFiniteSet(LiveAnchors) /\ Cardinality(LiveAnchors) \in Nat
         /\ IsFiniteSet(Judged) /\ Cardinality(Judged) \in Nat
         /\ Cardinality(Judged) <= Cardinality(LiveAnchors)
<1>1. live \subseteq used /\ LiveAnchors \subseteq used /\ Judged \subseteq LiveAnchors
  BY DEF ColumnsOK, LiveAnchors, Judged
<1> QED
  BY <1>1, FS_Subset, FS_CardinalityType DEF ColumnsOK

(* What remains of the limit is a number, and none if it is used up.       *)
LEMMA RemainingType ==
  ASSUME ColumnsOK
  PROVE  /\ Remaining \in 0 .. FragmentLimit
         /\ Remaining # 0 => Cardinality(live) < FragmentLimit
<1>1. Cardinality(live) \in Nat
  BY Counts
<1> QED
  BY <1>1, QuotaAssumption DEF Remaining

(* A set that gets at most one element more.                               *)
LEMMA OneMore ==
  ASSUME NEW S, NEW T, NEW x, IsFiniteSet(S), T \subseteq S \cup {x}
  PROVE  IsFiniteSet(T) /\ Cardinality(T) <= Cardinality(S) + 1
<1>1. /\ IsFiniteSet(S \cup {x})
      /\ Cardinality(S \cup {x}) = IF x \in S THEN Cardinality(S) ELSE Cardinality(S) + 1
  BY FS_AddElement
<1>2. IsFiniteSet(T) /\ Cardinality(T) <= Cardinality(S \cup {x})
  BY <1>1, FS_Subset
<1> QED
  BY <1>1, <1>2, FS_CardinalityType

-----------------------------------------------------------------------------
(* Requests that step aside.                                               *)

(* What a request knows stays true while it keeps its lock and the counts  *)
(* do not grow.                                                            *)
LEMMA LockKept ==
  ASSUME ColumnsOK, ColumnsOK', NEW q \in Requests, LockOf(q), task'[q] = task[q],
         keyLock = q => keyLock' = q,
         Granted(q) => Judged' \subseteq Judged,
         Counted(q) => live' \subseteq live
  PROVE  LockOf(q)'
<1>1. Cardinality(Judged) \in Nat /\ Cardinality(live) \in Nat
  BY Counts
<1>2. Cardinality(Judged') \in Nat /\ Cardinality(live') \in Nat
  <2>1. live' \subseteq used' /\ Judged' \subseteq used' /\ IsFiniteSet(used')
    BY DEF ColumnsOK, Judged, LiveAnchors
  <2> QED
    BY <2>1, FS_Subset, FS_CardinalityType
<1>0. AnchorLimit \in Nat /\ FragmentLimit \in Nat
  BY QuotaAssumption
<1>7. IsFiniteSet(Judged) /\ IsFiniteSet(live)
  BY Counts
<1>3. ASSUME Granted(q) PROVE keyLock' = q /\ Cardinality(Judged') < AnchorLimit
  <2>1. keyLock = q /\ Cardinality(Judged) < AnchorLimit
    BY <1>3 DEF LockOf
  <2>2. Cardinality(Judged') <= Cardinality(Judged)
    BY <1>3, <1>7, FS_Subset
  <2> QED
    BY <1>0, <1>1, <1>2, <2>1, <2>2
<1>4. ASSUME Counted(q) PROVE keyLock' = q /\ Cardinality(live') < FragmentLimit
  <2>1. keyLock = q /\ Cardinality(live) < FragmentLimit
    BY <1>4 DEF LockOf
  <2>2. Cardinality(live') <= Cardinality(live)
    BY <1>4, <1>7, FS_Subset
  <2> QED
    BY <1>0, <1>1, <1>2, <2>1, <2>2
<1>5. task[q].at = "count" => keyLock' = q
  BY DEF LockOf
<1>6. task[q].at = "lock anchors" => ~task[q].atomic
  BY DEF LockOf
<1> QED
  BY <1>3, <1>4, <1>5, <1>6 DEF LockOf, Granted, Counted

-----------------------------------------------------------------------------
(* The three kinds of steps.                                               *)

(* A request goes on and no fragment changes.                              *)
LEMMA ProtocolStep ==
  ASSUME QuotaInv, NEW r \in Requests, NEW new \in Tasks, UNCHANGED columns,
         task' = [task EXCEPT ![r] = new],
         usage' \in 0 .. FragmentLimit \cup {Nothing},
         keyLock' \in Requests \cup {Nobody},
         \A q \in Requests \ {r} : keyLock = q => keyLock' = q,
         new.at = "count" => keyLock' = r,
         new.at = "lock anchors" => ~new.atomic,
         new.marked /\ new.at = "write" => keyLock' = r /\ Cardinality(Judged) < AnchorLimit,
         new.atomic /\ new.at \in {"count", "write"} => keyLock' = r /\ Cardinality(live) < FragmentLimit
  PROVE  QuotaInv'
<1>1. UNCHANGED <<used, live, anchors, held, unjudged>> /\ LiveAnchors' = LiveAnchors /\ Judged' = Judged
  BY DEF columns, Judged, LiveAnchors
<1>2. ColumnsOK /\ ColumnsOK' /\ JudgedAnchorsKeepTheLimit'
  BY <1>1 DEF QuotaInv, ColumnsOK, JudgedAnchorsKeepTheLimit
<1>3. \A q \in Requests : task'[q] = IF q = r THEN new ELSE task[q]
  BY DEF QuotaInv, ProcessOK
<1>4. ProcessOK'
  BY DEF QuotaInv, ProcessOK
<1>5. ASSUME NEW q \in Requests PROVE LockOf(q)'
  <2>1. CASE q = r
    BY <1>1, <1>3, <2>1 DEF LockOf, Granted, Counted
  <2>2. CASE q # r
    <3>2. LockOf(q) /\ task'[q] = task[q] /\ (keyLock = q => keyLock' = q)
      BY <1>3, <2>2 DEF QuotaInv, LockOK
    <3> QED
      BY <1>1, <1>2, <3>2, LockKept
  <2> QED
    BY <2>1, <2>2
<1> QED
  BY <1>2, <1>4, <1>5 DEF QuotaInv, LockOK

(* Fragments change beside the requests: what was judged does not grow, or *)
(* grows by one that is judged while no transaction has the key locked.    *)
LEMMA ColumnStep ==
  ASSUME QuotaInv, ColumnsOK', UNCHANGED <<task, keyLock>>, live' \subseteq live,
         usage' \in {usage, Nothing},
         \/ Judged' \subseteq Judged
         \/ /\ keyLock = Nobody /\ Cardinality(LiveAnchors) < AnchorLimit
            /\ \E f \in Fragments : Judged' \subseteq Judged \cup {f}
  PROVE  QuotaInv'
<1>1. ColumnsOK /\ AnchorLimit \in Nat
  BY QuotaAssumption DEF QuotaInv
<1>2. /\ IsFiniteSet(live) /\ IsFiniteSet(Judged)
      /\ Cardinality(Judged) \in Nat /\ Cardinality(LiveAnchors) \in Nat
      /\ Cardinality(Judged) <= Cardinality(LiveAnchors)
  BY <1>1, Counts
<1>4. ProcessOK'
  BY DEF QuotaInv, ProcessOK
<1>5. CASE Judged' \subseteq Judged
  <2>1. Cardinality(Judged') <= Cardinality(Judged) /\ Cardinality(Judged') \in Nat
    BY <1>2, <1>5, FS_Subset, FS_CardinalityType
  <2>2. Cardinality(Judged) <= AnchorLimit
    BY DEF QuotaInv, JudgedAnchorsKeepTheLimit, Judged
  <2>3. Cardinality(Judged') <= AnchorLimit
    BY <1>1, <1>2, <2>1, <2>2
  <2>4. ASSUME NEW q \in Requests PROVE LockOf(q)'
    BY <1>1, <1>5, LockKept DEF QuotaInv, LockOK
  <2> QED
    BY <1>4, <2>3, <2>4 DEF QuotaInv, LockOK, JudgedAnchorsKeepTheLimit, Judged
<1>6. CASE /\ keyLock = Nobody /\ Cardinality(LiveAnchors) < AnchorLimit
           /\ \E f \in Fragments : Judged' \subseteq Judged \cup {f}
  <2>1. Cardinality(Judged') <= AnchorLimit
    <3>1. PICK f \in Fragments : Judged' \subseteq Judged \cup {f}
      BY <1>6
    <3>2. IsFiniteSet(Judged') /\ Cardinality(Judged') <= Cardinality(Judged) + 1
      BY <1>2, <3>1, OneMore
    <3>3. Cardinality(Judged') \in Nat
      BY <3>2, FS_CardinalityType
    <3> QED
      BY <1>1, <1>2, <1>6, <3>2, <3>3
  <2>2. ASSUME NEW q \in Requests PROVE LockOf(q)'
    <3>1. LockOf(q) /\ keyLock # q
      BY <1>6, NobodyAssumption DEF QuotaInv, LockOK
    <3>2. ~Granted(q) /\ ~Counted(q)
      BY <3>1 DEF LockOf
    <3> QED
      BY <1>1, <3>1, <3>2, LockKept
  <2> QED
    BY <1>4, <2>1, <2>2 DEF QuotaInv, LockOK, JudgedAnchorsKeepTheLimit, Judged
<1> QED
  BY <1>5, <1>6

(* A request writes, commits and is done.                                  *)
LEMMA WriteStep ==
  ASSUME QuotaInv, ColumnsOK', NEW r \in Requests, In(r, "write"),
         Finish(r), Free(r), UNCHANGED usage,
         IF task[r].marked THEN \E f \in Fragments : Judged' \subseteq Judged \cup {f}
                           ELSE Judged' \subseteq Judged,
         live' \subseteq live \/ KeyShared(r)
  PROVE  QuotaInv'
<1>1. ColumnsOK /\ AnchorLimit \in Nat
  BY QuotaAssumption DEF QuotaInv
<1>2. /\ IsFiniteSet(live) /\ IsFiniteSet(Judged) /\ Cardinality(Judged) \in Nat
      /\ Cardinality(Judged) <= AnchorLimit
  BY <1>1, Counts DEF QuotaInv, JudgedAnchorsKeepTheLimit, Judged
<1>3. Rest \in Tasks /\ Rest.at = "idle"
  BY DEF Rest, Tasks
<1>4. \A q \in Requests : task'[q] = IF q = r THEN Rest ELSE task[q]
  BY DEF QuotaInv, ProcessOK, Finish
<1>5. ProcessOK'
  BY <1>3 DEF QuotaInv, ProcessOK, Finish, Free
<1>6. CASE task[r].marked
  <2>1. keyLock = r /\ Cardinality(Judged) < AnchorLimit
    BY <1>6 DEF QuotaInv, LockOK, LockOf, Granted, In
  <2>2. Cardinality(Judged') <= AnchorLimit
    <3>1. PICK f \in Fragments : Judged' \subseteq Judged \cup {f}
      BY <1>6
    <3>2. IsFiniteSet(Judged') /\ Cardinality(Judged') <= Cardinality(Judged) + 1
      BY <1>2, <3>1, OneMore
    <3>3. Cardinality(Judged') \in Nat
      BY <3>2, FS_CardinalityType
    <3> QED
      BY <1>1, <1>2, <2>1, <3>2, <3>3
  <2>3. ASSUME NEW q \in Requests PROVE LockOf(q)'
    <3>1. CASE q = r
      BY <1>3, <1>4, <3>1 DEF LockOf, Granted, Counted
    <3>2. CASE q # r
      <4>1. LockOf(q) /\ keyLock # q /\ task'[q] = task[q]
        BY <1>4, <2>1, <3>2 DEF QuotaInv, LockOK
      <4>2. ~Granted(q) /\ ~Counted(q)
        BY <4>1 DEF LockOf
      <4> QED
        BY <1>1, <4>1, <4>2, LockKept
    <3> QED
      BY <3>1, <3>2
  <2> QED
    BY <1>5, <2>2, <2>3 DEF QuotaInv, LockOK, JudgedAnchorsKeepTheLimit, Judged
<1>7. CASE ~task[r].marked
  <2>1. Cardinality(Judged') <= Cardinality(Judged) /\ Cardinality(Judged') \in Nat
    BY <1>2, <1>7, FS_Subset, FS_CardinalityType
  <2>2. Cardinality(Judged') <= AnchorLimit
    BY <1>1, <1>2, <2>1
  <2>3. ASSUME NEW q \in Requests PROVE LockOf(q)'
    <3>1. CASE q = r
      BY <1>3, <1>4, <3>1 DEF LockOf, Granted, Counted
    <3>2. CASE q # r
      <4>1. LockOf(q) /\ task'[q] = task[q] /\ (keyLock = q => keyLock' = q)
        BY <1>4, <3>2 DEF QuotaInv, LockOK, Free
      <4>2. ASSUME Counted(q) PROVE live' \subseteq live
        <5>1. keyLock = q /\ task[q].atomic
          BY <4>1, <4>2 DEF LockOf, Counted
        <5>2. ~KeyShared(r)
          BY <3>2, <5>1 DEF KeyShared
        <5> QED
          BY <5>2
      <4> QED
        BY <1>1, <1>7, <4>1, <4>2, LockKept
    <3> QED
      BY <3>1, <3>2
  <2> QED
    BY <1>5, <2>2, <2>3 DEF QuotaInv, LockOK, JudgedAnchorsKeepTheLimit, Judged
<1> QED
  BY <1>6, <1>7

-----------------------------------------------------------------------------
(* The steps.                                                              *)

(* The parts of a task.                                                    *)
LEMMA TaskType ==
  ASSUME QuotaInv, NEW r \in Requests
  PROVE  task[r] \in Tasks /\ ColumnsOK /\ ProcessOK /\ LockOf(r)
  BY DEF QuotaInv, ProcessOK, LockOK

(* A request begins, is checked against the cache and under the lock.      *)
LEMMA CheckSteps ==
  ASSUME QuotaInv, NEW r \in Requests, BeginRemember(r) \/ Check(r) \/ Recheck(r) \/ BeginAmend(r)
  PROVE  QuotaInv'
<1>1. UNCHANGED <<columns, keyLock>>
  BY DEF BeginRemember, Check, Recheck, BeginAmend
<1>2. /\ task[r] \in Tasks /\ Rest \in Tasks /\ keyLock \in Requests \cup {Nobody}
      /\ usage \in 0 .. FragmentLimit \cup {Nothing} /\ Remaining \in 0 .. FragmentLimit
      /\ live \subseteq Fragments
  BY TaskType, RemainingType DEF ProcessOK, ColumnsOK, Rest, Tasks
<1>3. usage' \in 0 .. FragmentLimit \cup {Nothing}
  BY <1>2 DEF BeginRemember, Check, Recheck, BeginAmend
<1>4. PICK new \in Tasks : task' = [task EXCEPT ![r] = new] /\ new.at \in {"idle", "check", "recheck", "gate"}
  <2>1. CASE BeginRemember(r)
    <3>1. PICK a \in {"set", "keep"}, atomic \in BOOLEAN :
            task' = [task EXCEPT ![r] = [Rest EXCEPT !.at = IF atomic THEN "gate" ELSE "check",
                                                      !.anchor = a, !.atomic = atomic]]
      BY <2>1 DEF BeginRemember
    <3> DEFINE new == [Rest EXCEPT !.at = IF atomic THEN "gate" ELSE "check", !.anchor = a, !.atomic = atomic]
    <3>2. new \in Tasks /\ new.at \in {"check", "gate"}
      BY <1>2 DEF Tasks
    <3> HIDE DEF new
    <3> QED
      BY <3>1, <3>2 DEF new
  <2>2. CASE Check(r)
    <3>1. PICK at \in {"gate", "recheck"} : task' = [task EXCEPT ![r] = [task[r] EXCEPT !.at = at]]
      BY <2>2 DEF Check, Move
    <3>2. [task[r] EXCEPT !.at = at] \in Tasks /\ [task[r] EXCEPT !.at = at].at = at
      BY <1>2 DEF Tasks
    <3> QED
      BY <3>1, <3>2
  <2>3. CASE Recheck(r)
    <3>1. CASE Finish(r)
      BY <1>2, <3>1 DEF Finish, Rest
    <3>2. CASE Move(r, "gate")
      <4>1. task' = [task EXCEPT ![r] = [task[r] EXCEPT !.at = "gate"]]
        BY <3>2 DEF Move
      <4>2. [task[r] EXCEPT !.at = "gate"] \in Tasks /\ [task[r] EXCEPT !.at = "gate"].at = "gate"
        BY <1>2 DEF Tasks
      <4> QED
        BY <4>1, <4>2
    <3> QED
      BY <2>3, <3>1, <3>2 DEF Recheck
  <2>4. CASE BeginAmend(r)
    <3>1. PICK f \in live, a \in {"set", "clear"}, base \in BOOLEAN :
            task' = [task EXCEPT ![r] = [Rest EXCEPT !.at = "gate", !.fragment = f, !.anchor = a, !.base = base]]
      <4>1. PICK f \in live, a \in {"set", "clear"} :
              task' = [task EXCEPT ![r] = [Rest EXCEPT !.at = "gate", !.fragment = f, !.anchor = a,
                                                        !.base = f \in anchors]]
        BY <2>4 DEF BeginAmend
      <4>2. (f \in anchors) \in BOOLEAN
        OBVIOUS
      <4> QED
        BY <4>1, <4>2, Zenon
    <3> DEFINE new == [Rest EXCEPT !.at = "gate", !.fragment = f, !.anchor = a, !.base = base]
    <3>2. new \in Tasks /\ new.at = "gate"
      BY <1>2 DEF Tasks
    <3> HIDE DEF new
    <3> QED
      BY <3>1, <3>2 DEF new
  <2> QED
    BY <2>1, <2>2, <2>3, <2>4
<1> QED
  BY <1>1, <1>2, <1>3, <1>4, ProtocolStep

(* The gate grants and marks, refuses, or holds for review.                *)
LEMMA GateStep ==
  ASSUME QuotaInv, NEW r \in Requests, Gate(r)
  PROVE  QuotaInv'
<1>1. UNCHANGED <<columns, keyLock, usage>>
  BY DEF Gate
<1>2. task[r] \in Tasks /\ Rest \in Tasks /\ keyLock \in Requests \cup {Nobody}
      /\ usage \in 0 .. FragmentLimit \cup {Nothing}
  BY TaskType DEF ProcessOK, Rest, Tasks
<1>3. PICK new \in Tasks :
        /\ task' = [task EXCEPT ![r] = new]
        /\ \/ new.at \in {"idle", "lock quota"}
           \/ new.at = "lock anchors" /\ ~new.atomic
           \/ new.at = "write" /\ ~new.atomic /\ ~new.marked
  <2>1. CASE Finish(r)
    BY <1>2, <2>1 DEF Finish, Rest
  <2>2. CASE \E anchor \in {"set", "clear", "keep", "hold"} :
               task' = [task EXCEPT ![r] = [task[r] EXCEPT !.at = IF task[r].atomic THEN "lock quota" ELSE "write",
                                                           !.anchor = anchor, !.marked = FALSE, !.base = FALSE]]
    <3>1. PICK anchor \in {"set", "clear", "keep", "hold"} :
            task' = [task EXCEPT ![r] = [task[r] EXCEPT !.at = IF task[r].atomic THEN "lock quota" ELSE "write",
                                                        !.anchor = anchor, !.marked = FALSE, !.base = FALSE]]
      BY <2>2
    <3> DEFINE new == [task[r] EXCEPT !.at = IF task[r].atomic THEN "lock quota" ELSE "write",
                                      !.anchor = anchor, !.marked = FALSE, !.base = FALSE]
    <3>2. new \in Tasks /\ ~new.marked
      BY <1>2 DEF Tasks
    <3>3. new.at = "lock quota" \/ (new.at = "write" /\ ~new.atomic)
      BY <1>2 DEF Tasks
    <3> HIDE DEF new
    <3> QED
      BY <3>1, <3>2, <3>3 DEF new
  <2>3. CASE task' = [task EXCEPT ![r] = [task[r] EXCEPT !.at = IF task[r].atomic THEN "lock quota" ELSE "lock anchors",
                                                         !.anchor = "set", !.marked = TRUE, !.base = FALSE]]
    <3> DEFINE new == [task[r] EXCEPT !.at = IF task[r].atomic THEN "lock quota" ELSE "lock anchors",
                                      !.anchor = "set", !.marked = TRUE, !.base = FALSE]
    <3>1. task' = [task EXCEPT ![r] = new]
      BY <2>3
    <3>2. new \in Tasks
      BY <1>2 DEF Tasks
    <3>3. new.at = "lock quota" \/ (new.at = "lock anchors" /\ ~new.atomic)
      BY <1>2 DEF Tasks
    <3> HIDE DEF new
    <3> QED
      BY <3>1, <3>2, <3>3
  <2>4. task[r].anchor \in {"set", "clear", "keep", "hold"}
    BY <1>2 DEF Tasks
  <2> QED
    BY <2>1, <2>2, <2>3, <2>4 DEF Gate
<1> QED
  BY <1>1, <1>2, <1>3, ProtocolStep

(* The key is locked: by an atomic remember, which counts the fragments,   *)
(* or by a marked write, which is to count the anchors.                    *)
LEMMA LockSteps ==
  ASSUME QuotaInv, NEW r \in Requests, LockQuota(r) \/ LockAnchors(r)
  PROVE  QuotaInv'
<1>1. UNCHANGED <<columns, usage>> /\ keyLock = Nobody /\ Nobody \notin Requests
  BY NobodyAssumption DEF LockQuota, LockAnchors
<1>2. /\ task[r] \in Tasks /\ Rest \in Tasks /\ keyLock \in Requests \cup {Nobody}
      /\ usage \in 0 .. FragmentLimit \cup {Nothing}
      /\ task[r].at = "lock anchors" => ~task[r].atomic
      /\ Remaining # 0 => Cardinality(live) < FragmentLimit
  BY TaskType, RemainingType DEF ProcessOK, LockOf, Rest, Tasks
<1>3. CASE LockQuota(r) /\ Remaining = 0
  <2>1. task' = [task EXCEPT ![r] = Rest] /\ UNCHANGED keyLock /\ Rest.at = "idle"
    BY <1>3 DEF LockQuota, Finish, Rest
  <2> QED
    BY <1>1, <1>2, <2>1, ProtocolStep
<1>4. CASE LockQuota(r) /\ Remaining # 0
  <2> DEFINE new == [task[r] EXCEPT !.at = IF task[r].marked THEN "count" ELSE "write"]
  <2>1. task' = [task EXCEPT ![r] = new] /\ keyLock' = r
    BY <1>4 DEF LockQuota, Move
  <2>2. new \in Tasks /\ new.at \in {"count", "write"} /\ (new.at = "write" => ~new.marked)
    BY <1>2 DEF Tasks
  <2> HIDE DEF new
  <2> QED
    BY <1>1, <1>2, <1>4, <2>1, <2>2, ProtocolStep
<1>5. CASE LockAnchors(r)
  <2> DEFINE new == [task[r] EXCEPT !.at = "count"]
  <2>1. task' = [task EXCEPT ![r] = new] /\ keyLock' = r
    BY <1>5 DEF LockAnchors, Move
  <2>2. new \in Tasks /\ new.at = "count" /\ ~new.atomic
    BY <1>2, <1>5 DEF Tasks, LockAnchors, In
  <2> HIDE DEF new
  <2> QED
    BY <1>1, <1>2, <2>1, <2>2, ProtocolStep
<1> QED
  BY <1>3, <1>4, <1>5

(* Under the lock the anchors are counted again.                           *)
LEMMA CountStep ==
  ASSUME QuotaInv, NEW r \in Requests, CountAnchors(r)
  PROVE  QuotaInv'
<1>1. UNCHANGED <<columns, usage>> /\ keyLock = r
  BY TaskType DEF CountAnchors, LockOf, In
<1>2. /\ task[r] \in Tasks /\ Rest \in Tasks /\ task[r].at = "count"
      /\ usage \in 0 .. FragmentLimit \cup {Nothing}
      /\ task[r].atomic => Cardinality(live) < FragmentLimit
  BY TaskType DEF ProcessOK, LockOf, Counted, Rest, Tasks, CountAnchors, In
<1>3. CASE BelowLimit(r) /\ Move(r, "write") /\ UNCHANGED keyLock
  <2> DEFINE new == [task[r] EXCEPT !.at = "write"]
  <2>1. task' = [task EXCEPT ![r] = new] /\ new \in Tasks /\ new.at = "write" /\ new.atomic = task[r].atomic
    BY <1>2, <1>3 DEF Move, Tasks
  <2>2. Cardinality(Judged) < AnchorLimit
    <3>1. Cardinality(LiveAnchors) < AnchorLimit
      BY <1>3 DEF BelowLimit
    <3> QED
      BY <3>1, Counts, QuotaAssumption, TaskType
  <2> HIDE DEF new
  <2> QED
    BY <1>1, <1>2, <1>3, <2>1, <2>2, ProtocolStep
<1>4. CASE /\ task' = [task EXCEPT ![r].at = "write", ![r].anchor = "keep", ![r].marked = FALSE]
           /\ UNCHANGED keyLock
  <2> DEFINE new == [task[r] EXCEPT !.at = "write", !.anchor = "keep", !.marked = FALSE]
  <2>1. task' = [task EXCEPT ![r] = new]
    BY <1>4
  <2>2. new \in Tasks /\ new.at = "write" /\ new.atomic = task[r].atomic /\ ~new.marked
    BY <1>2 DEF Tasks
  <2> HIDE DEF new
  <2> QED
    BY <1>1, <1>2, <1>4, <2>1, <2>2, ProtocolStep
<1>5. CASE Finish(r) /\ Free(r)
  <2>1. task' = [task EXCEPT ![r] = Rest] /\ keyLock' = Nobody /\ Rest.at = "idle"
    BY <1>1, <1>5 DEF Finish, Free, Rest
  <2> QED
    BY <1>1, <1>2, <2>1, ProtocolStep
<1> QED
  BY <1>3, <1>4, <1>5 DEF CountAnchors

(* A request is undone.                                                    *)
LEMMA AbortStep ==
  ASSUME QuotaInv, NEW r \in Requests, Abort(r)
  PROVE  QuotaInv'
<1>1. /\ UNCHANGED <<columns, usage>> /\ task' = [task EXCEPT ![r] = Rest]
      /\ keyLock' = IF keyLock = r THEN Nobody ELSE keyLock
  BY DEF Abort, Finish, Free
<1>2. /\ Rest \in Tasks /\ Rest.at = "idle" /\ keyLock \in Requests \cup {Nobody}
      /\ usage \in 0 .. FragmentLimit \cup {Nothing}
  BY TaskType DEF ProcessOK, Rest, Tasks
<1> QED
  BY <1>1, <1>2, ProtocolStep

(* What a write does to the anchors: it adds one that counts only if it is *)
(* marked.                                                                 *)
LEMMA ColumnsJudged ==
  ASSUME ColumnsOK, NEW r \in Requests, NEW f \in Fragments, Columns(f, r),
         \/ f \in live /\ UNCHANGED <<used, live>>
         \/ f \notin used /\ used' = used \cup {f} /\ live' = live \cup {f}
  PROVE  /\ ColumnsOK'
         /\ Judged' \subseteq Judged \cup {f}
         /\ ~task[r].marked => Judged' \subseteq Judged
<1>1. anchors' \subseteq anchors \cup {f} /\ held' \subseteq held \cup {f}
  BY DEF Columns
<1>2. unjudged' = IF task[r].marked \/ f \notin anchors' THEN unjudged \ {f}
                  ELSE IF f \in anchors THEN unjudged ELSE unjudged \cup {f}
  BY DEF Columns
<1>3. anchors \ {f} \subseteq anchors'
  BY DEF Columns
<1>4. ColumnsOK'
  <2>1. IsFiniteSet(used')
    BY FS_AddElement DEF ColumnsOK
  <2>2. /\ live' \subseteq used' /\ used' \subseteq Fragments
        /\ anchors' \subseteq used' /\ held' \subseteq live'
    BY <1>1 DEF ColumnsOK
  <2>3. unjudged' \subseteq anchors'
    BY <1>2, <1>3 DEF ColumnsOK
  <2> QED
    BY <2>1, <2>2, <2>3 DEF ColumnsOK
<1>5. Judged' \subseteq Judged \cup {f}
  BY <1>1, <1>2 DEF Judged, LiveAnchors
<1>6. ASSUME ~task[r].marked PROVE Judged' \subseteq Judged
  <2>1. f \in Judged' => f \in Judged
    BY <1>2, <1>6 DEF Judged, LiveAnchors, ColumnsOK
  <2> QED
    BY <1>5, <2>1
<1> QED
  BY <1>4, <1>5, <1>6

(* A request stores its fragment.                                          *)
LEMMA InsertStep ==
  ASSUME QuotaInv, NEW r \in Requests, Insert(r)
  PROVE  QuotaInv'
<1>1. PICK f \in Fragments \ used : used' = used \cup {f} /\ live' = live \cup {f} /\ Columns(f, r)
  BY DEF Insert
<1>2. In(r, "write") /\ Finish(r) /\ Free(r) /\ KeyShared(r) /\ UNCHANGED usage
  BY DEF Insert
<1>3. /\ ColumnsOK' /\ Judged' \subseteq Judged \cup {f}
      /\ ~task[r].marked => Judged' \subseteq Judged
  BY <1>1, TaskType, ColumnsJudged
<1> QED
  BY <1>1, <1>2, <1>3, WriteStep

(* A request changes its fragment, unless that has gone.                   *)
LEMMA UpdateStep ==
  ASSUME QuotaInv, NEW r \in Requests, Update(r)
  PROVE  QuotaInv'
<1> DEFINE f == task[r].fragment
<1>1. In(r, "write") /\ Finish(r) /\ Free(r) /\ UNCHANGED <<used, live, usage>> /\ f # Nothing
  BY DEF Update
<1>2. ColumnsOK /\ f \in Fragments
  BY <1>1, TaskType DEF Tasks
<1>3. /\ ColumnsOK' /\ Judged' \subseteq Judged \cup {f}
      /\ ~task[r].marked => Judged' \subseteq Judged
  <2>1. CASE f \in live
    <3>1. Columns(f, r)
      BY <2>1 DEF Update
    <3> HIDE DEF f
    <3> QED
      BY <1>1, <1>2, <2>1, <3>1, ColumnsJudged
  <2>2. CASE f \notin live
    <3>1. UNCHANGED <<anchors, held, unjudged>>
      BY <2>2 DEF Update
    <3> QED
      BY <1>1, <1>2, <3>1 DEF ColumnsOK, Judged, LiveAnchors
  <2> QED
    BY <2>1, <2>2
<1> HIDE DEF f
<1> QED
  BY <1>1, <1>2, <1>3, WriteStep

(* A fragment is deleted, rejected, or promoted without a judgement; the   *)
(* cached usage expires; nothing happens.                                  *)
LEMMA OtherSteps ==
  ASSUME QuotaInv,
         \/ \E f \in Fragments : Delete(f) \/ Reject(f)
         \/ PromoteAnchors \/ UsageExpires \/ UNCHANGED quotaVars
  PROVE  QuotaInv'
<1>1. ColumnsOK
  BY DEF QuotaInv
<1>2. /\ UNCHANGED <<used, task, keyLock>> /\ usage' \in {usage, Nothing}
      /\ live' \subseteq live /\ held' \subseteq live' /\ unjudged' \subseteq anchors' /\ anchors' \subseteq used
      /\ Judged' \subseteq Judged
  <2>1. ASSUME NEW f \in Fragments, Delete(f) PROVE <1>2!:
    BY <1>1, <2>1 DEF Delete, ColumnsOK, Judged, LiveAnchors
  <2>2. ASSUME NEW f \in Fragments, Reject(f) PROVE <1>2!:
    BY <1>1, <2>2 DEF Reject, ColumnsOK, Judged, LiveAnchors
  <2>3. ASSUME PromoteAnchors PROVE <1>2!:
    BY <1>1, <2>3 DEF PromoteAnchors, ColumnsOK, Judged, LiveAnchors
  <2>4. ASSUME UsageExpires PROVE <1>2!:
    BY <1>1, <2>4 DEF UsageExpires, columns, ColumnsOK, Judged, LiveAnchors
  <2>5. ASSUME UNCHANGED quotaVars PROVE <1>2!:
    BY <1>1, <2>5 DEF quotaVars, ColumnsOK, Judged, LiveAnchors
  <2> QED
    BY <2>1, <2>2, <2>3, <2>4, <2>5
<1>3. ColumnsOK'
  BY <1>1, <1>2 DEF ColumnsOK
<1> QED
  BY <1>2, <1>3, ColumnStep

(* A fragment under review is approved, and its request judged.            *)
LEMMA ApproveStep ==
  ASSUME QuotaInv, NEW f \in Fragments, Approve(f)
  PROVE  QuotaInv'
<1>1. ColumnsOK /\ UNCHANGED <<used, live, keyLock, task, usage>> /\ keyLock = Nobody
      /\ f \in held /\ held' = held \ {f}
  BY DEF QuotaInv, Approve
<1>2. \/ UNCHANGED <<anchors, unjudged>>
      \/ /\ anchors' = anchors \cup {f} /\ unjudged' = unjudged \ {f}
         /\ Cardinality(LiveAnchors) < AnchorLimit
  BY DEF Approve
<1>3. ColumnsOK' /\ Judged' \subseteq Judged \cup {f}
  BY <1>1, <1>2 DEF ColumnsOK, Judged, LiveAnchors
<1>4. Judged' \subseteq Judged \/ Cardinality(LiveAnchors) < AnchorLimit
  BY <1>1, <1>2 DEF Judged, LiveAnchors
<1> QED
  BY <1>1, <1>3, <1>4, ColumnStep

-----------------------------------------------------------------------------
(* Together.                                                               *)

(* The initial state.                                                      *)
LEMMA QuotaInvInit == QuotaInit => QuotaInv
<1> SUFFICES ASSUME QuotaInit PROVE QuotaInv
  OBVIOUS
<1>1. ColumnsOK
  BY FS_EmptySet DEF QuotaInit, ColumnsOK
<1>2. ProcessOK
  BY DEF QuotaInit, ProcessOK, Rest, Tasks
<1>3. LockOK
  BY DEF QuotaInit, LockOK, LockOf, Granted, Counted, Rest
<1>4. LiveAnchors \ unjudged = {}
  BY DEF QuotaInit, LiveAnchors
<1>5. JudgedAnchorsKeepTheLimit
  BY <1>4, FS_EmptySet, QuotaAssumption DEF JudgedAnchorsKeepTheLimit
<1> QED
  BY <1>1, <1>2, <1>3, <1>5 DEF QuotaInv

(* Every step keeps the invariant.                                         *)
LEMMA QuotaInvNext == QuotaInv /\ [QuotaNext]_quotaVars => QuotaInv'
<1> SUFFICES ASSUME QuotaInv, [QuotaNext]_quotaVars PROVE QuotaInv'
  OBVIOUS
<1>1. ASSUME NEW r \in Requests, BeginRemember(r) \/ Check(r) \/ Recheck(r) \/ BeginAmend(r) PROVE QuotaInv'
  BY <1>1, CheckSteps
<1>2. ASSUME NEW r \in Requests, Gate(r) PROVE QuotaInv'
  BY <1>2, GateStep
<1>3. ASSUME NEW r \in Requests, LockQuota(r) \/ LockAnchors(r) PROVE QuotaInv'
  BY <1>3, LockSteps
<1>4. ASSUME NEW r \in Requests, CountAnchors(r) PROVE QuotaInv'
  BY <1>4, CountStep
<1>5. ASSUME NEW r \in Requests, Insert(r) PROVE QuotaInv'
  BY <1>5, InsertStep
<1>6. ASSUME NEW r \in Requests, Update(r) PROVE QuotaInv'
  BY <1>6, UpdateStep
<1>7. ASSUME NEW r \in Requests, Abort(r) PROVE QuotaInv'
  BY <1>7, AbortStep
<1>8. ASSUME NEW f \in Fragments, Approve(f) PROVE QuotaInv'
  BY <1>8, ApproveStep
<1>9. CASE \/ \E f \in Fragments : Delete(f) \/ Reject(f)
           \/ PromoteAnchors \/ UsageExpires \/ UNCHANGED quotaVars
  BY <1>9, OtherSteps
<1> QED
  BY <1>1, <1>2, <1>3, <1>4, <1>5, <1>6, <1>7, <1>8, <1>9 DEF QuotaNext

(* Only an insert adds fragments, and none passes an atomic remember that  *)
(* has counted.                                                            *)
LEMMA AtomicInserts ==
  ASSUME QuotaInv, [QuotaNext]_quotaVars, NEW r \in Requests, task[r].atomic, In(r, "write"),
         live' \ live # {}
  PROVE  Cardinality(live') <= FragmentLimit
<1>1. keyLock = r /\ Cardinality(live) < FragmentLimit
  BY TaskType DEF LockOf, Counted, In
<1>2. PICK q \in Requests : Insert(q)
  BY DEF QuotaNext, quotaVars, columns, BeginRemember, Check, Recheck, BeginAmend, Gate, LockQuota, LockAnchors,
         CountAnchors, Update, Abort, Delete, Approve, Reject, PromoteAnchors, UsageExpires
<1>3. PICK f \in Fragments : live' = live \cup {f}
  BY <1>2 DEF Insert
<1>4. IsFiniteSet(live) /\ Cardinality(live) \in Nat
  BY Counts DEF QuotaInv
<1>5. IsFiniteSet(live') /\ Cardinality(live') <= Cardinality(live) + 1
  BY <1>3, <1>4, OneMore
<1>6. Cardinality(live') \in Nat /\ FragmentLimit \in Nat
  BY <1>5, FS_CardinalityType, QuotaAssumption
<1> QED
  BY <1>1, <1>4, <1>5, <1>6

(* The variables of the limits have their types: in particular no request  *)
(* changes a fragment that never was, and reviews are of live fragments.   *)
THEOREM QuotaTypeCorrect == QuotaSpec => []QuotaTypeOK
<1>1. QuotaInv => QuotaTypeOK
  BY DEF QuotaInv, ColumnsOK, ProcessOK, Tasks, QuotaTypeOK
<1> QED
  BY <1>1, QuotaInvInit, QuotaInvNext, PTL DEF QuotaSpec

(* The anchors of a key that were judged keep to the limit, for any number *)
(* of requests, reviews and promotions at the same time: a marked write    *)
(* counts again under the lock it keeps until it commits                   *)
(* (lockAndCountAnchors, anchorQuota.js; applyDecision, ReviewStore.js).   *)
THEOREM AnchorsThatWereJudged == QuotaSpec => []JudgedAnchorsKeepTheLimit
<1>1. QuotaInv => JudgedAnchorsKeepTheLimit
  BY DEF QuotaInv
<1> QED
  BY <1>1, QuotaInvInit, QuotaInvNext, PTL DEF QuotaSpec

(* An atomic remember keeps the key within its fragment limit, for any     *)
(* limit and any number of requests that only check in advance             *)
(* (_rememberAtomic, lockQuota).                                           *)
THEOREM AtomicRemembers == QuotaSpec => AtomicKeepsTheLimit
<1>1. QuotaInv /\ [QuotaNext]_quotaVars =>
        [\A r \in Requests : task[r].atomic /\ In(r, "write") /\ live' \ live # {} /\ task'[r] = Rest =>
           Cardinality(live') <= FragmentLimit]_quotaVars
  BY AtomicInserts
<1> QED
  BY <1>1, QuotaInvInit, QuotaInvNext, PTL DEF QuotaSpec, AtomicKeepsTheLimit
=============================================================================
