------------------------------ MODULE LlmChain ------------------------------
(***************************************************************************)
(* Calls of language models.  A call collects the providers that are       *)
(* available into its chain and tries them one after the other until one   *)
(* answers or the deadline passes (lib/llm/index.js); it uses a provider while it has one of its slots,   *)
(* which are handed over in the order of asking to those that have not     *)
(* given up waiting (util/semaphore.js).  A provider that failed too often *)
(* is skipped for a while: its circuit is open (util/circuit-breaker.js).  *)
(*                                                                         *)
(* The slots are those of one process and are gone with it; a circuit is   *)
(* two keys in Redis, read, tested and written by separate commands of     *)
(* anybody, each of which may fail.  The keys' time to live is left out:   *)
(* what it removes is too old to count.  So are the breaker in memory that *)
(* takes Redis's place where there is none, and calls without semaphores.  *)
(***************************************************************************)
EXTENDS Naturals, FiniteSets, Sequences, SequencesExt

CONSTANTS
  Calls,
  Providers,
  Chain,           \* LLM_PRIMARY and LLM_FALLBACKS, each once
  SlotLimit,       \* getConcurrencyLimit
  WaitMs,          \* LLM_CONCURRENCY_WAIT_MS
  ChainMs,         \* LLM_CHAIN_TIMEOUT_MS
  Threshold,       \* LLM_CB_FAILURE_THRESHOLD
  OpenMs,          \* LLM_CB_OPEN_DURATION_MS
  WindowMs,        \* LLM_CB_FAILURE_WINDOW_MS
  Never,
  MaxNow, MaxFailures  \* bounds of the model

ASSUME ChainAssumption  == Chain \in Seq(Providers) \ {<<>>} /\ Never \notin Nat
ASSUME MillisAssumption == /\ {SlotLimit, WaitMs, ChainMs, Threshold} \subseteq Nat \ {0}
                           /\ {OpenMs, WindowMs, MaxNow, MaxFailures} \subseteq Nat

VARIABLES
  dispatch,  \* what each call is at
  slots,     \* _active and _waiters of each provider's semaphore
  openedAt,  \* llm:cb:<name>:openedAt
  failures,  \* llm:cb:<name>:failures
  failed,    \* history: every failure that was put on such a list
  now

chainVars == <<dispatch, slots, openedAt, failures, failed, now>>
circuits  == <<openedAt, failures, failed>>

Waits(c, phase) == dispatch[c].at = phase
Provider(c)     == Head(dispatch[c].chain)
Unused          == [at |-> "idle", turn |-> 1, chain |-> <<>>, started |-> 0, until |-> 0, now |-> 0]
Overdue(c)      == now >= dispatch[c].started + ChainMs
NextTurn(c)     == [dispatch[c] EXCEPT !.at = "next", !.chain = Tail(@), !.until = 0, !.now = 0]
GoTo(c, phase)  == dispatch' = [dispatch EXCEPT ![c].at = phase]

ChainInit ==
  /\ dispatch = [c \in Calls |-> Unused]
  /\ slots = [p \in Providers |-> [active |-> 0, waiters |-> <<>>]]
  /\ openedAt = [p \in Providers |-> Never]
  /\ failures = [p \in Providers |-> <<>>] /\ failed = <<>>
  /\ now = 0

-----------------------------------------------------------------------------
\* llmJson begins.
BeginDispatch(c) ==
  /\ Waits(c, "idle")
  /\ dispatch' = [dispatch EXCEPT ![c] = [Unused EXCEPT !.at = "build", !.started = now]]
  /\ UNCHANGED <<slots, circuits, now>>

\* buildChain goes on to the next provider; this one is on the chain if it was
\* found to be available (and egress.filter lets it pass), and after the last
\* one dispatchChain begins.
Checked(c, found) ==
  dispatch' = [dispatch EXCEPT
    ![c].at    = IF dispatch[c].turn < Len(Chain) THEN "build" ELSE "next",
    ![c].turn  = IF dispatch[c].turn < Len(Chain) THEN @ + 1 ELSE 1,
    ![c].chain = IF found THEN Append(@, Chain[dispatch[c].turn]) ELSE @]

\* isAvailable: whatever else it asks for, it may look at the circuit too.
CheckAvailable(c) ==
  /\ Waits(c, "build") /\ ~Overdue(c)
  /\ LET at == openedAt[Chain[dispatch[c].turn]] IN
     \/ \E found \in BOOLEAN : Checked(c, found)
     \/ at # Never /\ now - at >= OpenMs /\ GoTo(c, "build half open")
  /\ UNCHANGED <<slots, circuits, now>>

\* The chain has come to its end, or its deadline has passed.
GiveUp(c) ==
  /\ dispatch[c].at \in {"build", "next"}
  /\ Overdue(c) \/ (Waits(c, "next") /\ dispatch[c].chain = <<>>)
  /\ dispatch' = [dispatch EXCEPT ![c] = Unused]
  /\ UNCHANGED <<slots, circuits, now>>

\* acquire: a slot at once, or a place among those that wait.
TakeSlot(c) ==
  /\ Waits(c, "next")
  /\ dispatch[c].chain # <<>> /\ ~Overdue(c)
  /\ LET p    == Provider(c)
         left == dispatch[c].started + ChainMs - now
     IN  IF slots[p].active < SlotLimit
           THEN /\ slots' = [slots EXCEPT ![p].active = @ + 1]
                /\ GoTo(c, "slot")
           ELSE /\ slots' = [slots EXCEPT ![p].waiters = Append(@, c)]
                /\ dispatch' = [dispatch EXCEPT ![c].at = "wait",
                                                ![c].until = now + (IF WaitMs < left THEN WaitMs ELSE left)]
  /\ UNCHANGED <<circuits, now>>

\* The timer of acquire: the call leaves the queue and tries the next provider.
WaitTimeout(c) ==
  /\ Waits(c, "wait") /\ now >= dispatch[c].until
  /\ slots' = [slots EXCEPT ![Provider(c)].waiters = RemoveFirst(@, c)]
  /\ dispatch' = [dispatch EXCEPT ![c] = IF Overdue(c) THEN Unused ELSE NextTurn(c)]
  /\ UNCHANGED <<circuits, now>>

\* mutant: the slot is given back as well as handed over
BugReleased(s) == [active |-> s.active - 1, waiters |-> IF s.waiters = <<>> THEN <<>> ELSE Tail(s.waiters)]
\* release: the first that waits takes the slot over.
Released(s) == IF s.waiters = <<>> THEN [s EXCEPT !.active = @ - 1] ELSE [s EXCEPT !.waiters = Tail(@)]

\* The finally of an attempt; its call goes on with state d.
GiveSlotBack(c, d) ==
  LET p == Provider(c) IN
  /\ slots' = [slots EXCEPT ![p] = Released(@)]
  /\ dispatch' = [b \in Calls |-> IF b = c THEN d
                    ELSE IF slots[p].waiters # <<>> /\ b = Head(slots[p].waiters)
                      THEN [dispatch[b] EXCEPT !.at = "slot"] ELSE dispatch[b]]

\* With its slot a call is sent, unless it is too late or egress.prepare refuses.
Prepare(c) ==
  /\ Waits(c, "slot")
  /\ \/ ~Overdue(c) /\ GoTo(c, "look") /\ UNCHANGED slots
     \/ GiveSlotBack(c, NextTurn(c))
  /\ UNCHANGED <<circuits, now>>

-----------------------------------------------------------------------------
\* redisIsOpen: the key is read; a failed read counts as closed.
IsCircuitOpen(c) ==
  /\ Waits(c, "look")
  /\ LET at == openedAt[Provider(c)] IN
     \/ GoTo(c, "call") /\ UNCHANGED slots
     \/ at # Never /\ now - at >= OpenMs /\ GoTo(c, "half open") /\ UNCHANGED slots
     \/ at # Never /\ now - at < OpenMs /\ GiveSlotBack(c, NextTurn(c))
  /\ UNCHANGED <<circuits, now>>

\* redisIsOpen deletes the key, whatever it is by now.
HalfOpen(c) ==
  /\ \E p \in Providers :
       /\ openedAt' \in {openedAt, [openedAt EXCEPT ![p] = Never]}
       /\ \/ Waits(c, "half open") /\ p = Provider(c) /\ GoTo(c, "call")
          \/ /\ Waits(c, "build half open") /\ p = Chain[dispatch[c].turn]
             /\ \E found \in BOOLEAN : Checked(c, found)
  /\ UNCHANGED <<slots, failures, failed, now>>

\* The provider answers, or fails by itself or by its timeout.
CallProvider(c) ==
  /\ Waits(c, "call")
  /\ \/ GoTo(c, "succeeded")
     \/ dispatch' = [dispatch EXCEPT ![c].at = "failed", ![c].now = now]
  /\ UNCHANGED <<slots, circuits, now>>

\* redisRecordFailure: RPUSH of the time the call failed at,
PushFailure(c) ==
  /\ Waits(c, "failed")
  /\ LET p == Provider(c) IN
     /\ Len(failed) < MaxFailures
     /\ failures' = [failures EXCEPT ![p] = Append(@, dispatch[c].now)]
     /\ failed'   = Append(failed, [of |-> p, at |-> dispatch[c].now])
  /\ GoTo(c, "count")
  /\ UNCHANGED <<slots, openedAt, now>>

\* mutant: every failure on the list counts
BugRecent(c, t) == TRUE
\* The list is never trimmed: what counts is what the window holds.
Recent(c, t) == t + WindowMs >= dispatch[c].now
RecentFailures(c) ==
  Cardinality({i \in DOMAIN failures[Provider(c)] : Recent(c, failures[Provider(c)][i])})

\* LRANGE, and the count of the recent ones,
CountFailures(c) ==
  /\ Waits(c, "count")
  /\ IF RecentFailures(c) >= Threshold
       THEN GoTo(c, "open") /\ UNCHANGED slots
       ELSE GiveSlotBack(c, NextTurn(c))
  /\ UNCHANGED <<circuits, now>>

\* SETEX openedAt.
OpenCircuit(c) ==
  /\ Waits(c, "open")
  /\ openedAt' = [openedAt EXCEPT ![Provider(c)] = dispatch[c].now]
  /\ GiveSlotBack(c, NextTurn(c))
  /\ UNCHANGED <<failures, failed, now>>

\* redisRecordSuccess: two deletions,
CloseCircuit(c) ==
  /\ Waits(c, "succeeded")
  /\ openedAt' = [openedAt EXCEPT ![Provider(c)] = Never]
  /\ GoTo(c, "forget")
  /\ UNCHANGED <<slots, failures, failed, now>>

\* and the answer, unless parseJsonResponse cannot read it.
ForgetFailures(c) ==
  /\ Waits(c, "forget")
  /\ failures' = [failures EXCEPT ![Provider(c)] = <<>>]
  /\ \E d \in {Unused, NextTurn(c)} : GiveSlotBack(c, d)
  /\ UNCHANGED <<openedAt, failed, now>>

\* A command fails, and what was to be recorded is not.
RedisFails(c) ==
  /\ \/ dispatch[c].at \in {"failed", "count", "open"} /\ GiveSlotBack(c, NextTurn(c))
     \/ dispatch[c].at \in {"succeeded", "forget"} /\ \E d \in {Unused, NextTurn(c)} : GiveSlotBack(c, d)
  /\ UNCHANGED <<circuits, now>>

\* The process dies and is started again.
RestartProcess ==
  /\ dispatch' = [c \in Calls |-> Unused]
  /\ slots' = [p \in Providers |-> [active |-> 0, waiters |-> <<>>]]
  /\ UNCHANGED <<circuits, now>>

ChainTick ==
  /\ now < MaxNow
  /\ now' = now + 1
  /\ UNCHANGED <<dispatch, slots, circuits>>

ChainNext ==
  \/ \E c \in Calls :
       \/ BeginDispatch(c) \/ CheckAvailable(c) \/ GiveUp(c) \/ TakeSlot(c) \/ WaitTimeout(c) \/ Prepare(c)
       \/ IsCircuitOpen(c) \/ HalfOpen(c) \/ CallProvider(c)
       \/ PushFailure(c) \/ CountFailures(c) \/ OpenCircuit(c)
       \/ CloseCircuit(c) \/ ForgetFailures(c) \/ RedisFails(c)
  \/ RestartProcess \/ ChainTick

ChainSpec == ChainInit /\ [][ChainNext]_chainVars
-----------------------------------------------------------------------------
Busy(c) == dispatch[c].at \notin {"idle", "build", "build half open", "next", "wait"}

ChainTypeOK ==
  /\ \A c \in Calls : /\ dispatch[c].turn \in DOMAIN Chain /\ dispatch[c].chain \in Seq(Providers)
                      /\ dispatch[c].started \in 0 .. MaxNow
  /\ \A p \in Providers : /\ slots[p].active \in Nat /\ slots[p].waiters \in Seq(Calls)
                          /\ openedAt[p] \in 0 .. MaxNow \cup {Never}
                          /\ failures[p] \in Seq(0 .. MaxNow)
  /\ failed \in Seq([of : Providers, at : 0 .. MaxNow])
  /\ now \in 0 .. MaxNow

(* The slots in use are those of calls that use them, however calls time   *)
(* out, fail and hand over: none is lost, none is used twice, and a call   *)
(* waits only while all are in use (semaphore.js, the finally of           *)
(* dispatchChain).                                                         *)
SlotsAreThoseOfCalls ==
  \A p \in Providers :
    LET waiters == slots[p].waiters IN
    /\ slots[p].active = Cardinality({c \in Calls : Busy(c) /\ Provider(c) = p})
    /\ slots[p].active <= SlotLimit
    /\ waiters # <<>> => slots[p].active = SlotLimit
    /\ ToSet(waiters) = {c \in Calls : Waits(c, "wait") /\ Provider(c) = p}
    /\ Cardinality(ToSet(waiters)) = Len(waiters)

(* A provider is skipped only when it failed as often as the threshold     *)
(* within the last window and open period, although the circuit is read    *)
(* and written by many with separate commands and its list of failures is  *)
(* never trimmed (redisIsOpen, redisRecordFailure).                        *)
SkippedForFailures ==
  [][\A c \in Calls : Waits(c, "look") /\ dispatch'[c].at = "next" =>
       Cardinality({i \in DOMAIN failed : /\ failed[i].of = Provider(c)
                                          /\ failed[i].at + WindowMs + OpenMs > now}) >= Threshold]_chainVars
=============================================================================
