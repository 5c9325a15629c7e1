------------------------------ MODULE Embedding ------------------------------
(***************************************************************************)
(* The vectors of the fragments (lib/memory/embedding/EmbeddingWorker.js). *)
(* A new fragment is put on a queue in Redis; the worker takes ids off it, *)
(* reads those fragments that lack a vector, computes their vectors and    *)
(* stores them.  An amend drops the vector and queues nothing; a sweep     *)
(* every five minutes (lib/scheduler.js) reads fragments without a vector, *)
(* the most important first, and makes up for what the queue has lost.     *)
(*                                                                         *)
(* Texts are read before their vectors are computed and stored, so they    *)
(* are amended and forgotten meanwhile.  Ids are in the order of           *)
(* importance; a text stands for its hash and for its vector.  The queue   *)
(* is a set: its order decides nothing here.  The list of dead letters is  *)
(* left out: nothing is read back from it.                                 *)
(***************************************************************************)
EXTENDS Naturals, FiniteSets

CONSTANTS
  LastId,       \* the fragments are 1 .. LastId, the most important first
  Texts,
  Refused,      \* texts that the provider refuses for good
  NoText,       \* of a fragment not stored yet
  Forgotten,    \* of one that was deleted
  NoVector,     \* embedding IS NULL
  PopLimit,     \* embeddingWorker.batchSize
  SweepLimit,   \* 500 in startBackfillSchedulers
  MaxEdits,     \* bound of the model: fragments stored, amended, deleted
  MaxGlitches,  \* bound of the model: calls of the provider that fail for once
  MaxCrashes    \* bound of the model

ASSUME EmbedBoundsAssumption == {LastId, MaxEdits, MaxGlitches, MaxCrashes} \subseteq Nat
ASSUME EmbedLimitsAssumption == {PopLimit, SweepLimit} \subseteq Nat \ {0}
ASSUME TextsAssumption == Refused \subseteq Texts /\ {NoText, Forgotten, NoVector} \cap Texts = {}

VARIABLES
  text,         \* the content of each fragment
  vector,       \* its embedding
  queued,       \* queue:<queueKey>
  embedder,     \* the rows the worker and the sweep have in hand
  edits, glitches, crashes

embedVars == <<text, vector, queued, embedder, edits, glitches, crashes>>

FragmentIds == 1 .. LastId
Sources     == {"worker", "sweep"}
Resting     == [at |-> "idle", rows |-> <<>>]
Unfilled    == {f \in FragmentIds : text[f] \in Texts /\ vector[f] = NoVector}
First(n, S) == {f \in S : Cardinality({g \in S : g <= f}) <= n}

InHand(s) == DOMAIN embedder[s].rows
\* Source s goes on with these rows, all at once or one by one, or is done.
GoesOn(s, at, ids) ==
  embedder' = [embedder EXCEPT ![s] = IF ids = {} THEN Resting
                 ELSE [at |-> at, rows |-> [f \in ids |-> IF f \in InHand(s) THEN @.rows[f] ELSE text[f]]]]

EmbedInit ==
  /\ text   = [f \in FragmentIds |-> NoText]
  /\ vector = [f \in FragmentIds |-> NoVector]
  /\ queued = {}
  /\ embedder = [s \in Sources |-> Resting]
  /\ edits = 0 /\ glitches = 0 /\ crashes = 0

-----------------------------------------------------------------------------
\* The vector goes with the content it was made of (embedding = NULL).
Edit(f, t) ==
  /\ edits < MaxEdits
  /\ edits'  = edits + 1
  /\ text'   = [text EXCEPT ![f] = t]
  /\ vector' = [vector EXCEPT ![f] = NoVector]
  /\ UNCHANGED <<embedder, glitches, crashes>>

\* FragmentWriter.insert, and RememberPostProcessor unless the process dies.
StoreFragment(f) ==
  /\ text[f] = NoText
  /\ \E t \in Texts : Edit(f, t)
  /\ queued' \in {queued, queued \cup {f}}

\* FragmentWriter.update with a new content.
AmendText(f) ==
  /\ text[f] \in Texts
  /\ \E t \in Texts \ {text[f]} : Edit(f, t)
  /\ UNCHANGED queued

\* FragmentWriter.delete; its id stays where it is queued or in hand.
ForgetText(f) ==
  /\ text[f] \in Texts
  /\ Edit(f, Forgotten)
  /\ UNCHANGED queued

-----------------------------------------------------------------------------
\* _processBatch: ids are taken off the queue for good,
PopIds ==
  /\ embedder["worker"] = Resting
  /\ \E ids \in SUBSET queued :
       /\ ids # {} /\ Cardinality(ids) <= PopLimit
       /\ queued' = queued \ ids
       /\ embedder' = [embedder EXCEPT !["worker"] = [at |-> "popped", rows |-> [f \in ids |-> NoText]]]
  /\ UNCHANGED <<text, vector, edits, glitches, crashes>>

\* and those fragments that lack a vector are read.
SelectRows ==
  /\ embedder["worker"].at = "popped"
  /\ LET ids == InHand("worker") \cap Unfilled IN
     embedder' = [embedder EXCEPT !["worker"] =
       IF ids = {} THEN Resting ELSE [at |-> "chunk", rows |-> [f \in ids |-> text[f]]]]
  /\ UNCHANGED <<text, vector, queued, edits, glitches, crashes>>

\* mutant: the sweep looks only at what is queued
BugOrphans == First(SweepLimit, Unfilled \cap queued)
Orphans == First(SweepLimit, Unfilled)

\* processOrphanFragments.
SelectOrphans ==
  /\ embedder["sweep"] = Resting
  /\ Orphans # {}
  /\ GoesOn("sweep", "chunk", Orphans)
  /\ UNCHANGED <<text, vector, queued, edits, glitches, crashes>>

\* mutant: the hash of the content is not compared
BugAsRead(s, f) == f \in Unfilled
\* The row is as it was read, and still without a vector.
AsRead(s, f) == f \in Unfilled /\ text[f] = embedder[s].rows[f]

Fill(s, ids) ==
  vector' = [f \in FragmentIds |-> IF f \in ids /\ AsRead(s, f) THEN embedder[s].rows[f] ELSE vector[f]]
Refuses(s, f) == embedder[s].rows[f] \in Refused

\* _embedChunk: one call for all rows.  An error that names a row leaves the
\* others for the next call; any other error leaves all to _embedOne.  (The code
\* counts rows within a call of at most 100; here a chunk is one call.)
EmbedChunk(s) ==
  /\ embedder[s].at = "chunk"
  /\ \/ /\ \A f \in InHand(s) : ~Refuses(s, f)
        /\ Fill(s, InHand(s))
        /\ GoesOn(s, "chunk", {})
        /\ UNCHANGED glitches
     \/ /\ \E f \in InHand(s) : Refuses(s, f) /\ GoesOn(s, "chunk", InHand(s) \ {f})
        /\ UNCHANGED <<vector, glitches>>
     \/ /\ \/ (\E f \in InHand(s) : Refuses(s, f)) /\ UNCHANGED glitches
           \/ glitches < MaxGlitches /\ glitches' = glitches + 1
        /\ GoesOn(s, "one", InHand(s))
        /\ UNCHANGED vector
  /\ UNCHANGED <<text, queued, edits, crashes>>

\* _embedOne: a row is filled, or given up after retryLimit attempts.
EmbedOne(s) ==
  /\ embedder[s].at = "one"
  /\ \E f \in InHand(s) :
       /\ \/ ~Refuses(s, f) /\ Fill(s, {f}) /\ UNCHANGED glitches
          \/ Refuses(s, f) /\ UNCHANGED <<vector, glitches>>
          \/ glitches < MaxGlitches /\ glitches' = glitches + 1 /\ UNCHANGED vector
       /\ GoesOn(s, "one", InHand(s) \ {f})
  /\ UNCHANGED <<text, queued, edits, crashes>>

\* The server process dies, and is started again.
CrashEmbedder ==
  /\ crashes < MaxCrashes
  /\ crashes'  = crashes + 1
  /\ embedder' = [s \in Sources |-> Resting]
  /\ UNCHANGED <<text, vector, queued, edits, glitches>>

EmbedNext ==
  \/ \E f \in FragmentIds : StoreFragment(f) \/ AmendText(f) \/ ForgetText(f)
  \/ PopIds \/ SelectRows \/ SelectOrphans
  \/ \E s \in Sources : EmbedChunk(s) \/ EmbedOne(s)
  \/ CrashEmbedder

EmbedSpec == EmbedInit /\ [][EmbedNext]_embedVars

\* The timer of the sweep comes round again, and a sweep in hand goes on.
Sweep == SelectOrphans \/ EmbedChunk("sweep") \/ EmbedOne("sweep")
EmbedFairSpec == EmbedSpec /\ WF_embedVars(Sweep)
-----------------------------------------------------------------------------
EmbedTypeOK ==
  /\ text \in [FragmentIds -> Texts \cup {NoText, Forgotten}]
  /\ vector \in [FragmentIds -> Texts \cup {NoVector}]
  /\ queued \subseteq FragmentIds
  /\ \A s \in Sources : /\ embedder[s].at \in {"idle", "popped", "chunk", "one"}
                        /\ InHand(s) \subseteq FragmentIds
  /\ edits \in 0 .. MaxEdits /\ glitches \in 0 .. MaxGlitches /\ crashes \in 0 .. MaxCrashes

(* A vector is that of the content beside it, although it is computed from *)
(* a row read long before, by two who know nothing of each other           *)
(* (content_hash in _embedChunk and _embedOne).                            *)
VectorIsOfContent ==
  \A f \in FragmentIds : vector[f] # NoVector => vector[f] = text[f]

RefusedOnes == {f \in Unfilled : text[f] \in Refused}

(* Whatever was popped by a process that died, amended without a job, or   *)
(* given up gets its vector in the end, unless its text is refused or as   *)
(* many refused ones as a sweep takes stand before it                      *)
(* (processOrphanFragments, startBackfillSchedulers).                      *)
EventuallyEmbedded ==
  \A f \in FragmentIds : f \in Unfilled ~>
    f \notin Unfilled \/ f \in RefusedOnes \/ Cardinality(RefusedOnes) >= SweepLimit
=============================================================================
