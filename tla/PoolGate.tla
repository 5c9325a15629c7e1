------------------------------- MODULE PoolGate -------------------------------
(***************************************************************************)
(* The background gate in front of the primary connection pool             *)
(* (lib/tools/pool-gate.js, and getPoolPrimary and shutdownPool of         *)
(* lib/tools/db.js) in one server process.  A background lane (a scheduler *)
(* job, a polling worker) takes a slot of the gate before it asks the pool *)
(* for a client and gives it back with the client; a request asks the pool *)
(* directly.  A lane may ask for a second client while it holds one.       *)
(*                                                                         *)
(* The pool is the pg module's: it lends up to PoolSize clients, makes     *)
(* whoever asks for more wait for at most its own time limit, and once it  *)
(* is told to end it takes no more calls of connect.                       *)
(***************************************************************************)
EXTENDS Integers, Sequences, FiniteSets, SequencesExt

CONSTANTS
  Lanes,      \* background lanes
  Requests,   \* requests in progress
  Capacity,   \* DB_BACKGROUND_MAX_CONNECTIONS
  PoolSize,   \* DB_MAX_CONNECTIONS
  MaxHeld,    \* bound of the model: clients one lane holds at once
  MaxPools    \* bound of the model: pools created in a process's life

\* config.js: the capacity leaves the requests at least one connection.
ASSUME SizesAssumption ==
  /\ {PoolSize, MaxHeld, MaxPools} \subseteq Nat \ {0}
  /\ Capacity \in 1..PoolSize - 1

VARIABLES
  active,     \* gate.active
  closed,     \* gate.closed
  waiters,    \* gate._queue
  pool,       \* pools created so far; the last is the pool in use
  ending,     \* pools that have been told to end
  lane,       \* what each lane is doing
  asked,      \* the pool each lane asks for a client
  held,       \* the clients of each lane, by the pool they came from
  request     \* the pool each request has a client of, or what it does

gate  == <<active, closed, waiters>>
pools == <<pool, ending>>
vars  == <<gate, pools, lane, asked, held, request>>

\* A lane works, waits for a slot, has a slot and waits for a client, or has
\* had an error and gives its clients back.
LaneStates == {"working", "queued", "connecting", "failing"}
Clients(l) == {l} \X DOMAIN held[l]
Background == UNION {Clients(l) : l \in Lanes}
Lent(g) == {c \in Background : held[c[1]][c[2]] = g} \cup {r \in Requests : request[r] = g}

-----------------------------------------------------------------------------
Init ==
  /\ active = 0 /\ closed = FALSE /\ waiters = <<>>
  /\ pool = 1 /\ ending = {}
  /\ lane = [l \in Lanes |-> "working"]
  /\ asked = [l \in Lanes |-> 0]
  /\ held = [l \in Lanes |-> <<>>]
  /\ request = [r \in Requests |-> 0]

\* mutant: the capacity is not checked
BugHasRoomForAll == waiters = <<>>

HasRoom == active < Capacity /\ waiters = <<>>

\* connect of pool g in a lane, up to the answer of gate.acquire; a pool that
\* is ending rejects it without a slot, a closed gate as well.
Acquire(l, g) ==
  /\ lane[l] = "working"
  /\ Len(held[l]) < MaxHeld
  /\ asked' = [asked EXCEPT ![l] = g]
  /\ IF g \in ending \/ closed
       THEN lane' = [lane EXCEPT ![l] = "failing"] /\ UNCHANGED gate
       ELSE IF HasRoom
         THEN /\ active' = active + 1
              /\ lane' = [lane EXCEPT ![l] = "connecting"]
              /\ UNCHANGED <<closed, waiters>>
         ELSE /\ waiters' = Append(waiters, l)
              /\ lane' = [lane EXCEPT ![l] = "queued"]
              /\ UNCHANGED <<active, closed>>
  /\ UNCHANGED <<pools, held, request>>

\* mutant: the last waiter is served first
BugReleaseSlot(lanes) ==
  /\ UNCHANGED closed
  /\ IF waiters = <<>>
       THEN active' = active - 1 /\ lane' = lanes /\ UNCHANGED waiters
       ELSE /\ waiters' = Front(waiters)
            /\ lane' = [lanes EXCEPT ![Last(waiters)] = "connecting"]
            /\ UNCHANGED active

\* _makeRelease and _pulse: the slots that are free go to the head of the queue.
\* `lanes' is the state of the lanes after the step's own change.
ReleaseSlot(lanes) ==
  LET free == Capacity - (active - 1)
      n    == IF free < Len(waiters) THEN free ELSE Len(waiters)
  IN  /\ active'  = active - 1 + n
      /\ waiters' = SubSeq(waiters, n + 1, Len(waiters))
      /\ lane'    = [l \in Lanes |-> IF \E i \in 1..n : waiters[i] = l THEN "connecting" ELSE lanes[l]]
      /\ UNCHANGED closed

\* rawConnect resolves, even of a pool that was told to end meanwhile.
Connected(l) ==
  /\ lane[l] = "connecting"
  /\ Cardinality(Lent(asked[l])) < PoolSize
  /\ lane' = [lane EXCEPT ![l] = "working"]
  /\ held' = [held EXCEPT ![l] = Append(@, asked[l])]
  /\ UNCHANGED <<gate, pools, asked, request>>

\* mutant: a failed connect keeps its slot
BugConnectFails(l) ==
  /\ lane[l] = "connecting"
  /\ lane' = [lane EXCEPT ![l] = "failing"]
  /\ UNCHANGED <<gate, pools, asked, held, request>>

\* rawConnect rejects: the slot is given back.
ConnectFails(l) ==
  /\ lane[l] = "connecting"
  /\ ReleaseSlot([lane EXCEPT ![l] = "failing"])
  /\ UNCHANGED <<pools, asked, held, request>>

\* mutant: the expired waiter stays in the queue
BugDeadlineStays(l) ==
  /\ lane[l] = "queued"
  /\ lane' = [lane EXCEPT ![l] = "failing"]
  /\ UNCHANGED <<gate, pools, asked, held, request>>

\* The deadline of a wait; the waiter leaves the queue.
Deadline(l) ==
  /\ lane[l] = "queued"
  /\ waiters' = RemoveFirst(waiters, l)
  /\ lane' = [lane EXCEPT ![l] = "failing"]
  /\ UNCHANGED <<active, closed, pools, asked, held, request>>

\* mutant: a lane that fails keeps its clients
BugRelease(l) ==
  /\ lane[l] = "working"
  /\ held[l] # <<>>
  /\ held' = [held EXCEPT ![l] = Front(@)]
  /\ ReleaseSlot(lane)
  /\ UNCHANGED <<pools, asked, request>>

\* client.release of the client taken last.
Release(l) ==
  /\ lane[l] \in {"working", "failing"}
  /\ held[l] # <<>>
  /\ held' = [held EXCEPT ![l] = Front(@)]
  /\ ReleaseSlot(lane)
  /\ UNCHANGED <<pools, asked, request>>

\* The next round of a lane that has given everything back after an error.
NextRound(l) ==
  /\ lane[l] = "failing"
  /\ held[l] = <<>>
  /\ lane' = [lane EXCEPT ![l] = "working"]
  /\ UNCHANGED <<gate, pools, asked, held, request>>

\* A request takes a client and gives it back.
RequestConnects(r) ==
  /\ request[r] = 0
  /\ pool \notin ending
  /\ Cardinality(Lent(pool)) < PoolSize
  /\ request' = [request EXCEPT ![r] = pool]
  /\ UNCHANGED <<gate, pools, lane, asked, held>>

RequestReleases(r) ==
  /\ request[r] # 0
  /\ request' = [request EXCEPT ![r] = 0]
  /\ UNCHANGED <<gate, pools, lane, asked, held>>

\* shutdownPool: the gate is closed and the pool told to end, in one step.
Shutdown ==
  /\ pool \notin ending
  /\ closed' = TRUE
  /\ waiters' = <<>>
  /\ lane' = [l \in Lanes |-> IF lane[l] = "queued" THEN "failing" ELSE lane[l]]
  /\ ending' = ending \cup {pool}
  /\ UNCHANGED <<active, pool, asked, held, request>>

\* getPoolPrimary after shutdownPool has returned, all its clients back or
\* the time for that over: a new pool behind the same gate.
Reopen ==
  /\ pool \in ending
  /\ pool < MaxPools
  /\ pool' = pool + 1
  /\ closed' = FALSE
  /\ UNCHANGED <<active, waiters, ending, lane, asked, held, request>>

LaneStep(l) ==
  \/ \E g \in 1..pool : Acquire(l, g)
  \/ Connected(l) \/ ConnectFails(l) \/ Deadline(l)
  \/ Release(l) \/ NextRound(l)

Next ==
  \/ \E l \in Lanes : LaneStep(l)
  \/ \E r \in Requests : RequestConnects(r) \/ RequestReleases(r)
  \/ Shutdown \/ Reopen

Spec == Init /\ [][Next]_vars

\* Timers fire; a lane that has failed runs its finally blocks.
Fairness ==
  \A l \in Lanes : WF_vars(Deadline(l)) /\ WF_vars(lane[l] = "failing" /\ Release(l))

FairSpec == Spec /\ Fairness
-----------------------------------------------------------------------------
(* Every variable has its type; no more slots are in use than there are.  *)
TypeOK ==
  /\ active \in 0..Capacity
  /\ closed \in BOOLEAN
  /\ waiters \in Seq(Lanes)
  /\ pool \in 1..MaxPools /\ ending \subseteq 1..pool
  /\ lane \in [Lanes -> LaneStates]
  /\ asked \in [Lanes -> 0..MaxPools]
  /\ held \in [Lanes -> Seq(1..MaxPools)]
  /\ request \in [Requests -> 0..MaxPools]

(* No slot leaks and none is given back twice: the slots in use are those  *)
(* of the clients lent to lanes and of the lanes waiting for the pool      *)
(* (gatedConnect, _makeRelease).                                           *)
SlotsAreHeld ==
  active = Cardinality(Background) + Cardinality({l \in Lanes : lane[l] = "connecting"})

(* What the gate is for: background work alone never empties the pool, so  *)
(* a request that waits for a client waits for another request.            *)
RequestsKeepRoom ==
  \A r \in Requests : request[r] = 0 /\ Cardinality(Lent(pool)) = PoolSize =>
    \E q \in Requests : request[q] = pool

(* No wakeup is lost: the queue holds exactly the lanes that wait, once    *)
(* each, and somebody waits only while every slot is taken (_pulse, close).*)
NobodyWaitsInVain ==
  /\ ToSet(waiters) = {l \in Lanes : lane[l] = "queued"}
  /\ Cardinality(ToSet(waiters)) = Len(waiters)
  /\ waiters # <<>> => active = Capacity /\ ~closed

(* First come, first served: a lane that gets a slot overtakes nobody who  *)
(* still waits (the FIFO queue of acquire).                                *)
NobodyIsOvertaken ==
  [][\A l, k \in Lanes :
       /\ lane[l] # "connecting" /\ lane'[l] = "connecting"
       /\ lane[k] = "queued"     /\ lane'[k] = "queued"
       => /\ lane[l] = "queued"
          /\ \E i, j \in DOMAIN waiters : i < j /\ waiters[i] = l /\ waiters[j] = k]_vars

(* When every slot is held by a lane that waits for a second one, the      *)
(* deadline of a wait breaks the knot and the lane that fails gives its    *)
(* slot back: it is free again, or already with the next waiter (header of *)
(* lib/tools/pool-gate.js).                                                *)
Connecting == {l \in Lanes : lane[l] = "connecting"}
Knotted ==
  active = Capacity /\ Connecting = {} /\ \A l \in Lanes : held[l] # <<>> => lane[l] = "queued"
KnotsComeUndone == Knotted ~> active < Capacity \/ Connecting # {}
=============================================================================
