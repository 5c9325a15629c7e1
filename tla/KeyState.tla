------------------------------ MODULE KeyState ------------------------------
(***************************************************************************)
(* What a server process knows about an API key.  A session or hook request*)
(* asks for the state of its key on every use; the answer is cached for a  *)
(* while, and after a failed lookup the last answer is given again for a   *)
(* short time (lib/keys/key-state-cache.js).  The administration changes a *)
(* key in the database and then drops it from the cache of its own process *)
(* and tells the others through Redis (lib/keys/invalidation.js).          *)
(*                                                                         *)
(* One key, whose states are numbered in the order of their commits.  A    *)
(* lookup awaits the database between its first and its last step, so the  *)
(* key is changed and dropped, and time passes, in between.                *)
(***************************************************************************)
EXTENDS Naturals

CONSTANTS
  Servers,        \* server processes
  Askers,         \* requests under way at a time
  Unknown,        \* the answer null: no verdict
  KeyTtl,         \* MEMENTO_SESSION_KEY_RECHECK_MS
  FailureWindow,  \* KEY_STATE_FAILURE_WINDOW_MS
  MaxVersion,     \* bound of the model: changes of the key
  MaxClock        \* bound of the model

ASSUME KeyTimesAssumption   == KeyTtl \in Nat \ {0} /\ {FailureWindow, MaxVersion, MaxClock} \subseteq Nat
ASSUME KeyUnknownAssumption == Unknown \notin Nat

VARIABLES
  since,        \* when each state of the key was committed, up to the present one
  cache,        \* what each process has cached, and until when
  failureUntil, \* the end of the failure window
  generation,   \* how often the key was dropped in each process
  changing,     \* changes each process has committed and not yet invalidated
  notices,      \* invalidation messages on their way to each process
  dropped,      \* history: the state of the key when it was last dropped
  lookup,       \* what each request asked, found and was answered
  clock

keyVars == <<since, cache, failureUntil, generation, changing, notices, dropped, lookup, clock>>
caches  == <<cache, failureUntil, generation, dropped>>

Versions == 0 .. MaxVersion
Version  == CHOOSE v \in DOMAIN since : \A u \in DOMAIN since : u <= v
NoEntry  == [state |-> Unknown, expiresAt |-> 0]
Waiting(r, phase) == lookup[r].at = phase
Same(r)  == generation[lookup[r].by] = lookup[r].generation

\* Locals of getCachedKeyState; from: the state the key was last dropped at.
Call(p) == [at |-> "looking", by |-> p, now |-> clock, generation |-> generation[p],
            hit |-> cache[p].state, read |-> 0, from |-> dropped[p]]
\* What it returns; old: the last answer, as lookups fail.
Returned(call, state, old) ==
  [at |-> "answered", answer |-> state, old |-> old, now |-> call.now, from |-> call.from]

KeyInit ==
  /\ since = [v \in {0} |-> 0]
  /\ cache = [p \in Servers |-> NoEntry]
  /\ failureUntil = [p \in Servers |-> 0]
  /\ generation = [p \in Servers |-> 0]
  /\ changing = [p \in Servers |-> 0] /\ notices = [p \in Servers |-> 0]
  /\ dropped = [p \in Servers |-> 0]
  /\ lookup = [r \in Askers |-> [at |-> "idle"]]
  /\ clock = 0

-----------------------------------------------------------------------------
\* A route of the administration commits a change of the key.
ChangeKey(p) ==
  /\ Version < MaxVersion
  /\ since'    = [v \in 0 .. Version + 1 |-> IF v <= Version THEN since[v] ELSE clock]
  /\ changing' = [changing EXCEPT ![p] = @ + 1]
  /\ UNCHANGED <<caches, notices, lookup, clock>>

\* invalidateKeyState: the entry and the window go, lookups under way are marked.
InvalidateKeyState(p) ==
  /\ cache'        = [cache EXCEPT ![p] = NoEntry]
  /\ failureUntil' = [failureUntil EXCEPT ![p] = 0]
  /\ generation'   = [generation EXCEPT ![p] = @ + 1]
  /\ dropped'      = [dropped EXCEPT ![p] = Version]

\* invalidateKeys: at once in this process, by a message in the others.
InvalidateKeys(p) ==
  /\ changing[p] > 0
  /\ InvalidateKeyState(p)
  /\ changing' = [changing EXCEPT ![p] = @ - 1]
  /\ notices'  = [q \in Servers |-> IF q = p THEN notices[q] ELSE notices[q] + 1]
  /\ UNCHANGED <<since, lookup, clock>>

\* handleKeyInvalidationMessage.  A message that is lost is one that never comes.
HandleMessage(p) ==
  /\ notices[p] > 0
  /\ InvalidateKeyState(p)
  /\ notices' = [notices EXCEPT ![p] = @ - 1]
  /\ UNCHANGED <<since, changing, lookup, clock>>

\* Entries of other keys push the oldest ones out (MAX_ENTRIES).
Evict(p) ==
  /\ \/ cache' = [cache EXCEPT ![p] = NoEntry] /\ UNCHANGED failureUntil
     \/ failureUntil' = [failureUntil EXCEPT ![p] = 0] /\ UNCHANGED cache
  /\ UNCHANGED <<since, generation, dropped, changing, notices, lookup, clock>>

-----------------------------------------------------------------------------
\* getCachedKeyState up to its await.
Ask(r, p) ==
  /\ lookup[r].at \in {"idle", "answered"}
  /\ LET fresh == cache[p].expiresAt > clock IN
     lookup' = [lookup EXCEPT ![r] = IF fresh \/ failureUntil[p] > clock
                                       THEN Returned(Call(p), cache[p].state, ~fresh) ELSE Call(p)]
  /\ UNCHANGED <<since, caches, changing, notices, clock>>

\* getKeyAuthState reads the row; the groups it reads next are not older.
GetKeyAuthState(r) ==
  /\ Waiting(r, "looking")
  /\ lookup' = [lookup EXCEPT ![r].at = "read", ![r].read = Version]
  /\ UNCHANGED <<since, caches, changing, notices, clock>>

\* mutant: an answer is cached although the key was dropped meanwhile
BugMayCache(r) == TRUE
MayCache(r) == Same(r)
\* mutant: the time to live is counted from the answer
BugExpiresAt(r) == clock + KeyTtl
ExpiresAt(r) == lookup[r].now + KeyTtl

\* getCachedKeyState goes on with the row.
Answer(r) ==
  /\ Waiting(r, "read")
  /\ LET p == lookup[r].by IN
     IF MayCache(r)
       THEN /\ failureUntil' = [failureUntil EXCEPT ![p] = 0]
            /\ cache' = [cache EXCEPT ![p] = [state |-> lookup[r].read, expiresAt |-> ExpiresAt(r)]]
       ELSE UNCHANGED <<cache, failureUntil>>
  /\ lookup' = [lookup EXCEPT ![r] = Returned(@, @.read, FALSE)]
  /\ UNCHANGED <<since, generation, dropped, changing, notices, clock>>

\* The lookup fails: a window is opened, and the last answer has to do.
LookupFails(r) ==
  /\ lookup[r].at \in {"looking", "read"}
  /\ failureUntil' = IF Same(r) THEN [failureUntil EXCEPT ![lookup[r].by] = clock + FailureWindow]
                     ELSE failureUntil
  /\ lookup' = [lookup EXCEPT ![r] = Returned(@, @.hit, TRUE)]
  /\ UNCHANGED <<since, cache, generation, dropped, changing, notices, clock>>

KeyTick ==
  /\ clock < MaxClock
  /\ clock' = clock + 1
  /\ UNCHANGED <<since, caches, changing, notices, lookup>>

KeyNext ==
  \/ KeyTick
  \/ \E p \in Servers : \/ ChangeKey(p) \/ InvalidateKeys(p) \/ HandleMessage(p) \/ Evict(p)
                        \/ \E r \in Askers : Ask(r, p)
  \/ \E r \in Askers : GetKeyAuthState(r) \/ Answer(r) \/ LookupFails(r)

KeySpec == KeyInit /\ [][KeyNext]_keyVars
-----------------------------------------------------------------------------
KeyTypeOK ==
  /\ since \in [0 .. Version -> 0 .. MaxClock] /\ Version \in Versions
  /\ cache \in [Servers -> [state : Versions \cup {Unknown}, expiresAt : Nat]]
  /\ {failureUntil, generation, changing, notices} \subseteq [Servers -> Nat]
  /\ dropped \in [Servers -> Versions]
  /\ lookup \in [Askers ->
       [at : {"idle"}] \cup
       [at : {"looking", "read"}, by : Servers, now : 0 .. MaxClock, generation : Nat,
        hit : Versions \cup {Unknown}, read : Versions, from : Versions] \cup
       [at : {"answered"}, answer : Versions \cup {Unknown}, old : BOOLEAN, now : 0 .. MaxClock, from : Versions]]
  /\ clock \in 0 .. MaxClock

(* Once a key was dropped in a process, no request that begins there gets  *)
(* a state from before, not even as a last answer: a lookup that was under *)
(* way does not bring it back (generations, key-state-cache.js).           *)
InvalidatedIsGone ==
  \A r \in Askers : Waiting(r, "answered") /\ lookup[r].answer # Unknown =>
    lookup[r].answer >= lookup[r].from

(* Without any invalidation, a state other than the present one is given   *)
(* for at most the time to live after it changed, unless lookups fail      *)
(* (MEMENTO_SESSION_KEY_RECHECK_MS), however long the lookup took.         *)
StaleForTtl ==
  \A r \in Askers : Waiting(r, "answered") /\ ~lookup[r].old /\ lookup[r].answer \in 0 .. Version - 1 =>
    since[lookup[r].answer + 1] + KeyTtl > lookup[r].now
=============================================================================
