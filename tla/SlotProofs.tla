------------------------------ MODULE SlotProofs ------------------------------
(***************************************************************************)
(* Slots are neither lost nor used twice, and the queues in front of them  *)
(* hold those that wait: the background gate for any number of lanes,      *)
(* requests and pools and any sizes, the semaphores of the language models *)
(* for any calls, providers, limits and times.                             *)
(***************************************************************************)
EXTENDS PoolGate, LlmChain, FiniteSetTheorems, TLAPS

-----------------------------------------------------------------------------
(* Queues: sequences in which nobody stands twice.                         *)

Distinct(s) == \A i, j \in DOMAIN s : s[i] = s[j] => i = j

(* A sequence without its element at i.                                    *)
LEMMA RemoveAtElements ==
  ASSUME NEW S, NEW s \in Seq(S), NEW i \in 1 .. Len(s)
  PROVE  /\ RemoveAt(s, i) \in Seq(S) /\ Len(RemoveAt(s, i)) = Len(s) - 1
         /\ \A j \in 1 .. Len(s) - 1 : RemoveAt(s, i)[j] = IF j < i THEN s[j] ELSE s[j + 1]
<1> DEFINE a == SubSeq(s, 1, i - 1)
           b == SubSeq(s, i + 1, Len(s))
<1>1. /\ a \in Seq(S) /\ Len(a) = i - 1
      /\ \A j \in 1 .. i - 1 : a[j] = s[j]
  OBVIOUS
<1>2. /\ b \in Seq(S) /\ Len(b) = Len(s) - i
      /\ \A j \in 1 .. Len(s) - i : b[j] = s[i + j]
  OBVIOUS
<1>3. RemoveAt(s, i) = a \o b
  BY DEF RemoveAt
<1> HIDE DEF a, b
<1>4. Len(a \o b) = Len(s) - 1 /\ a \o b \in Seq(S)
  <2>1. a \o b \in Seq(S) /\ Len(a \o b) = Len(a) + Len(b)
    <3>1. a \in Seq(S) /\ b \in Seq(S)
      BY <1>1, <1>2
    <3> QED
      BY <3>1
  <2>2. Len(s) \in Nat /\ Len(a) = i - 1 /\ Len(b) = Len(s) - i
    BY <1>1, <1>2
  <2> QED
    BY <2>1, <2>2
<1>5. ASSUME NEW j \in 1 .. Len(s) - 1
      PROVE  (a \o b)[j] = IF j < i THEN s[j] ELSE s[j + 1]
  <2>1. CASE j < i
    BY <1>1, <1>2, <2>1
  <2>2. CASE ~(j < i)
    <3>1. (a \o b)[j] = b[j - Len(a)]
      BY <1>1, <1>2, <2>2
    <3>2. j - Len(a) \in 1 .. Len(s) - i /\ i + (j - Len(a)) = j + 1
      BY <1>1, <2>2
    <3> QED
      BY <1>2, <2>2, <3>1, <3>2
  <2> QED
    BY <2>1, <2>2
<1> QED
  BY <1>3, <1>4, <1>5

(* Who leaves a queue leaves it altogether, and nobody else does.          *)
LEMMA LeftQueue ==
  ASSUME NEW S, NEW s \in Seq(S), Distinct(s), NEW e \in ToSet(s)
  PROVE  /\ RemoveFirst(s, e) \in Seq(S) /\ Distinct(RemoveFirst(s, e))
         /\ ToSet(RemoveFirst(s, e)) = ToSet(s) \ {e}
<1>1. PICK i \in 1 .. Len(s) : s[i] = e
  BY DEF ToSet
<1>2. {k \in 1 .. Len(s) : s[k] = e} = {i}
  BY <1>1 DEF Distinct
<1>3. Min({i}) = i
  BY DEF Min
<1>4. SelectInSeq(s, LAMBDA v : v = e) = i
  BY <1>2, <1>3 DEF SelectInSeq
<1>5. RemoveFirst(s, e) = RemoveAt(s, i)
  BY <1>1, <1>4 DEF RemoveFirst
<1> DEFINE r == RemoveAt(s, i)
<1>6. /\ r \in Seq(S) /\ Len(r) = Len(s) - 1
      /\ \A j \in 1 .. Len(s) - 1 : r[j] = IF j < i THEN s[j] ELSE s[j + 1]
  BY RemoveAtElements
<1> HIDE DEF r
<1>7. Distinct(r)
  <2> SUFFICES ASSUME NEW j \in 1 .. Len(s) - 1, NEW k \in 1 .. Len(s) - 1, r[j] = r[k]
               PROVE  j = k
    BY <1>6 DEF Distinct
  <2>1. PICK m \in 1 .. Len(s) : r[j] = s[m] /\ m = IF j < i THEN j ELSE j + 1
    BY <1>6
  <2>2. PICK n \in 1 .. Len(s) : r[k] = s[n] /\ n = IF k < i THEN k ELSE k + 1
    BY <1>6
  <2>3. m = n
    <3>1. s[m] = s[n]
      BY <2>1, <2>2
    <3>2. m \in DOMAIN s /\ n \in DOMAIN s
      OBVIOUS
    <3> QED
      BY <3>1, <3>2 DEF Distinct
  <2> QED
    BY <2>1, <2>2, <2>3
<1>8. ToSet(r) = ToSet(s) \ {e}
  <2>1. ASSUME NEW x \in ToSet(r) PROVE x \in ToSet(s) \ {e}
    <3>1. PICK j \in 1 .. Len(s) - 1 : x = IF j < i THEN s[j] ELSE s[j + 1]
      BY <1>6, <2>1 DEF ToSet
    <3>2. PICK k \in 1 .. Len(s) : k # i /\ x = s[k]
      BY <3>1
    <3> QED
      BY <1>1, <3>2 DEF Distinct, ToSet
  <2>2. ASSUME NEW x \in ToSet(s) \ {e} PROVE x \in ToSet(r)
    <3>1. PICK k \in 1 .. Len(s) : k # i /\ x = s[k]
      BY <1>1, <2>2 DEF ToSet
    <3>2. CASE k < i
      BY <1>6, <3>1, <3>2 DEF ToSet
    <3>3. CASE k > i
      <4>1. k - 1 \in 1 .. Len(s) - 1 /\ r[k - 1] = x
        BY <1>6, <3>1, <3>3
      <4> QED
        BY <1>6, <4>1 DEF ToSet
    <3> QED
      BY <3>1, <3>2, <3>3
  <2> QED
    BY <2>1, <2>2
<1> QED
  BY <1>5, <1>6, <1>7, <1>8 DEF r

(* Who joins it stands there once.                                         *)
LEMMA JoinedQueue ==
  ASSUME NEW S, NEW s \in Seq(S), Distinct(s), NEW e \in S, e \notin ToSet(s)
  PROVE  /\ Append(s, e) \in Seq(S) /\ Distinct(Append(s, e))
         /\ ToSet(Append(s, e)) = ToSet(s) \cup {e}
<1>1. /\ Append(s, e) \in Seq(S) /\ DOMAIN Append(s, e) = 1 .. Len(s) + 1
      /\ \A j \in 1 .. Len(s) : Append(s, e)[j] = s[j]
      /\ Append(s, e)[Len(s) + 1] = e
  OBVIOUS
<1>2. \A j \in 1 .. Len(s) : s[j] # e
  BY DEF ToSet
<1> QED
  BY <1>1, <1>2 DEF Distinct, ToSet

(* The first is served.                                                    *)
LEMMA ServedQueue ==
  ASSUME NEW S, NEW s \in Seq(S), Distinct(s), s # <<>>
  PROVE  /\ Head(s) \in ToSet(s) /\ Head(s) = s[1]
         /\ Tail(s) \in Seq(S) /\ Distinct(Tail(s))
         /\ ToSet(Tail(s)) = ToSet(s) \ {Head(s)}
<1>1. /\ Tail(s) \in Seq(S) /\ Len(Tail(s)) = Len(s) - 1 /\ Head(s) = s[1] /\ 1 \in 1 .. Len(s)
      /\ \A j \in 1 .. Len(s) - 1 : Tail(s)[j] = s[j + 1]
  OBVIOUS
<1>2. Distinct(Tail(s))
  BY <1>1 DEF Distinct
<1>3. ToSet(Tail(s)) = ToSet(s) \ {s[1]}
  <2>1. ASSUME NEW x \in ToSet(Tail(s)) PROVE x \in ToSet(s) \ {s[1]}
    <3>1. PICK j \in 1 .. Len(s) - 1 : x = s[j + 1]
      BY <1>1, <2>1 DEF ToSet
    <3> QED
      BY <1>1, <3>1 DEF ToSet, Distinct
  <2>2. ASSUME NEW x \in ToSet(s) \ {s[1]} PROVE x \in ToSet(Tail(s))
    <3>1. PICK k \in 1 .. Len(s) : k # 1 /\ x = s[k]
      BY <2>2 DEF ToSet
    <3>2. k - 1 \in 1 .. Len(s) - 1 /\ Tail(s)[k - 1] = x
      BY <1>1, <3>1
    <3>3. DOMAIN Tail(s) = 1 .. Len(s) - 1
      BY <1>1
    <3> QED
      BY <3>2, <3>3 DEF ToSet
  <2> QED
    BY <2>1, <2>2
<1> QED
  BY <1>1, <1>2, <1>3 DEF ToSet

(* All but the last.                                                       *)
LEMMA FrontElements ==
  ASSUME NEW S, NEW s \in Seq(S), s # <<>>
  PROVE  /\ Front(s) \in Seq(S) /\ DOMAIN Front(s) = 1 .. Len(s) - 1
         /\ DOMAIN s = 1 .. Len(s) /\ Len(s) \in Nat \ {0}
<1>1. Len(s) \in Nat \ {0} /\ DOMAIN s = 1 .. Len(s)
  OBVIOUS
<1>2. Len(s) - 1 \in Nat /\ Len(s) - 1 <= Len(s)
  BY <1>1
<1>3. /\ SubSeq(s, 1, Len(s) - 1) \in Seq(S)
      /\ Len(SubSeq(s, 1, Len(s) - 1)) = Len(s) - 1
  <2> DEFINE m == Len(s) - 1
  <2>1. \A i \in 1 .. m : s[i] \in S
    BY <1>1
  <2>2. m \in Nat /\ m <= Len(s)
    BY <1>2
  <2> HIDE DEF m
  <2>3. SubSeq(s, 1, m) \in Seq(S)
    BY <2>1, <2>2
  <2>4. Len(SubSeq(s, 1, m)) = m
    BY <2>1, <2>2, <1>1
  <2> QED
    BY <2>3, <2>4 DEF m
<1> QED
  BY <1>1, <1>3 DEF Front

(* As many stand in it as it is long.                                      *)
LEMMA QueueCount ==
  ASSUME NEW S, NEW s \in Seq(S), Distinct(s)
  PROVE  Cardinality(ToSet(s)) = Len(s)
<1>1. s \in Bijection(1 .. Len(s), ToSet(s))
  BY DEF Bijection, Injection, Surjection, IsInjective, Distinct, ToSet
<1>2. IsFiniteSet(1 .. Len(s)) /\ Cardinality(1 .. Len(s)) = Len(s)
  <2>1. Len(s) \in Nat
    OBVIOUS
  <2> QED
    BY <2>1, FS_Interval
<1>3. ExistsBijection(1 .. Len(s), ToSet(s))
  BY <1>1 DEF ExistsBijection
<1> QED
  BY <1>2, <1>3, FS_Bijection

-----------------------------------------------------------------------------
(* The background gate: the argument.                                      *)

Queued     == {l \in Lanes : lane[l] = "queued"}

(* The queue holds those that wait, each once; while it is not empty every *)
(* slot is in use, so a slot that is given back serves exactly one.        *)
QueueOK == /\ Distinct(waiters) /\ ToSet(waiters) = Queued
           /\ waiters # <<>> => active = Capacity /\ ~closed

(* A slot in use is a client lent or a lane that connects.                 *)
SlotsOK == /\ IsFiniteSet(Background) /\ IsFiniteSet(Connecting)
           /\ active = Cardinality(Background) + Cardinality(Connecting)

(* Whoever waits, for a slot or for a client, asks some pool.              *)
AskedOK == \A l \in Queued \cup Connecting : asked[l] # 0

GateInv == TypeOK /\ QueueOK /\ SlotsOK /\ AskedOK

-----------------------------------------------------------------------------
(* What the steps have in common.                                          *)

(* The sizes, as numbers.                                                  *)
LEMMA GateSizes == /\ Capacity \in Nat /\ PoolSize \in Nat /\ MaxPools \in Nat
                   /\ 1 <= Capacity /\ Capacity < PoolSize /\ 1 <= MaxPools
  BY SizesAssumption

(* The clients lent to lanes are pairs of a lane and a number.             *)
LEMMA BackgroundIs ==
  ASSUME NEW c
  PROVE  c \in Background <=> \E l \in Lanes : \E i \in DOMAIN held[l] : c = <<l, i>>
  BY DEF Background, Clients

(* One more element, or one less.                                          *)
LEMMA CountOneMore ==
  ASSUME NEW S, IsFiniteSet(S), NEW x, x \notin S
  PROVE  IsFiniteSet(S \cup {x}) /\ Cardinality(S \cup {x}) = Cardinality(S) + 1
  BY FS_AddElement

LEMMA CountOneLess ==
  ASSUME NEW S, IsFiniteSet(S), NEW x \in S
  PROVE  /\ IsFiniteSet(S \ {x}) /\ Cardinality(S) \in Nat \ {0}
         /\ Cardinality(S \ {x}) = Cardinality(S) - 1
<1>1. IsFiniteSet(S \ {x}) /\ Cardinality(S \ {x}) = Cardinality(S) - 1
  BY FS_RemoveElement
<1>2. Cardinality(S) \in Nat /\ Cardinality(S \ {x}) \in Nat
  BY <1>1, FS_CardinalityType
<1> QED
  BY <1>1, <1>2

(* A slot given back goes to the first that waits, or is free.             *)
LEMMA SlotGivenBack ==
  ASSUME GateInv, NEW lanes \in [Lanes -> LaneStates], ReleaseSlot(lanes)
  PROVE  /\ closed' = closed
         /\ \/ /\ waiters = <<>> /\ waiters' = <<>>
               /\ active' = active - 1 /\ lane' = lanes
            \/ /\ waiters # <<>> /\ waiters' = Tail(waiters)
               /\ active' = active /\ lane' = [lanes EXCEPT ![Head(waiters)] = "connecting"]
<1> DEFINE free == Capacity - (active - 1)
           n    == IF free < Len(waiters) THEN free ELSE Len(waiters)
<1>1. /\ active'  = active - 1 + n
      /\ waiters' = SubSeq(waiters, n + 1, Len(waiters))
      /\ lane'    = [l \in Lanes |-> IF \E i \in 1..n : waiters[i] = l THEN "connecting" ELSE lanes[l]]
      /\ closed'  = closed
  BY DEF ReleaseSlot
<1>2. active \in 0..Capacity /\ waiters \in Seq(Lanes) /\ Capacity \in Nat
  BY GateSizes DEF GateInv, TypeOK
<1>3. CASE waiters = <<>>
  <2>1. n = 0
    BY <1>2, <1>3
  <2> HIDE DEF n
  <2>2. waiters' = <<>> /\ active' = active - 1
    BY <1>1, <1>2, <1>3, <2>1
  <2>3. lane' = lanes
    BY <1>1, <2>1
  <2> QED
    BY <1>1, <1>3, <2>2, <2>3
<1>4. CASE waiters # <<>>
  <2>1. active = Capacity
    BY <1>4 DEF GateInv, QueueOK
  <2>2. n = 1
    <3>1. free = 1
      BY <1>2, <2>1
    <3>2. Len(waiters) \in Nat /\ 1 <= Len(waiters)
      BY <1>2, <1>4
    <3> HIDE DEF free
    <3> QED
      BY <3>1, <3>2
  <2> HIDE DEF n
  <2>3. waiters' = Tail(waiters) /\ active' = active
    BY <1>1, <1>2, <1>4, <2>2
  <2>4. \A l \in Lanes : (\E i \in 1..n : waiters[i] = l) <=> l = Head(waiters)
    BY <1>2, <1>4, <2>2
  <2>5. lane' = [lanes EXCEPT ![Head(waiters)] = "connecting"]
    BY <1>1, <2>4
  <2> QED
    BY <1>1, <1>4, <2>3, <2>5
<1> QED
  BY <1>3, <1>4

(* What a slot given back by a lane does to the queue and to the lanes     *)
(* that connect.                                                           *)
LEMMA SlotPassedOn ==
  ASSUME GateInv, NEW lanes \in [Lanes -> LaneStates], ReleaseSlot(lanes), 1 <= active,
         {l \in Lanes : lanes[l] = "queued"} = Queued
  PROVE  /\ lane' \in [Lanes -> LaneStates] /\ waiters' \in Seq(Lanes)
         /\ active' \in 0..Capacity /\ QueueOK' /\ Queued' \subseteq Queued
         /\ \/ /\ active' = active - 1
               /\ Connecting' = {l \in Lanes : lanes[l] = "connecting"}
            \/ /\ active' = active
               /\ \E l \in Queued : Connecting' = {k \in Lanes : lanes[k] = "connecting"} \cup {l}
<1>1. /\ active \in 0..Capacity /\ waiters \in Seq(Lanes) /\ Capacity \in Nat
      /\ Distinct(waiters) /\ ToSet(waiters) = Queued
      /\ waiters # <<>> => active = Capacity /\ ~closed
  BY GateSizes DEF GateInv, TypeOK, QueueOK
<1>2. CASE /\ waiters = <<>> /\ waiters' = <<>> /\ active' = active - 1 /\ lane' = lanes
  <2>1. Queued' = Queued /\ Connecting' = {l \in Lanes : lanes[l] = "connecting"}
    BY <1>2 DEF Queued, Connecting
  <2> QED
    BY <1>1, <1>2, <2>1 DEF QueueOK
<1>3. CASE /\ waiters # <<>> /\ waiters' = Tail(waiters) /\ active' = active
           /\ lane' = [lanes EXCEPT ![Head(waiters)] = "connecting"]
  <2>1. /\ Head(waiters) \in Queued /\ waiters' \in Seq(Lanes) /\ Distinct(waiters')
        /\ ToSet(waiters') = Queued \ {Head(waiters)}
    BY <1>1, <1>3, ServedQueue
  <2>2. Head(waiters) \in Lanes
    BY <2>1 DEF Queued
  <2>3. lane' \in [Lanes -> LaneStates]
    BY <1>3, <2>2 DEF LaneStates
  <2>4. /\ Queued' = Queued \ {Head(waiters)}
        /\ Connecting' = {k \in Lanes : lanes[k] = "connecting"} \cup {Head(waiters)}
    BY <1>3, <2>2 DEF Queued, Connecting
  <2>5. closed' = closed
    BY SlotGivenBack
  <2> QED
    BY <1>1, <1>3, <2>1, <2>3, <2>4, <2>5 DEF QueueOK
<1> QED
  BY <1>2, <1>3, SlotGivenBack

-----------------------------------------------------------------------------
(* The initial state and the steps.                                        *)

LEMMA GateInvInit == Init => GateInv
<1> SUFFICES ASSUME Init PROVE GateInv
  OBVIOUS
<1>1. TypeOK
  <2>1. active \in 0..Capacity /\ pool \in 1..MaxPools /\ 0 \in 0..MaxPools
    BY GateSizes DEF Init
  <2>2. lane \in [Lanes -> LaneStates]
    BY DEF Init, LaneStates
  <2>3. held \in [Lanes -> Seq(1..MaxPools)] /\ waiters \in Seq(Lanes)
    BY DEF Init
  <2> QED
    BY <2>1, <2>2, <2>3 DEF Init, TypeOK
<1>2. Background = {} /\ Connecting = {} /\ Queued = {}
  BY BackgroundIs DEF Init, Connecting, Queued
<1>3. QueueOK
  BY <1>2 DEF Init, QueueOK, Distinct, ToSet
<1>4. SlotsOK /\ AskedOK
  BY <1>2, FS_EmptySet DEF Init, SlotsOK, AskedOK
<1> QED
  BY <1>1, <1>3, <1>4 DEF GateInv

(* A lane asks for a client.                                               *)
LEMMA StepAcquire ==
  ASSUME GateInv, NEW l \in Lanes, NEW g \in 1..pool, Acquire(l, g)
  PROVE  GateInv'
<1>1. /\ lane[l] = "working" /\ asked' = [asked EXCEPT ![l] = g]
      /\ UNCHANGED <<pool, ending, held, request>>
  BY DEF Acquire, pools
<1>2. TypeOK /\ QueueOK /\ SlotsOK /\ AskedOK /\ l \notin Queued /\ l \notin Connecting
  BY <1>1 DEF GateInv, Queued, Connecting
<1>3. /\ asked' \in [Lanes -> 0..MaxPools]
      /\ Queued' \cup Connecting' \subseteq Queued \cup Connecting \cup {l} => AskedOK'
  <2>1. g \in 0..MaxPools /\ g # 0
    BY <1>2, GateSizes DEF TypeOK
  <2>2. asked' \in [Lanes -> 0..MaxPools] /\ \A k \in Lanes : asked'[k] = IF k = l THEN g ELSE asked[k]
    BY <1>1, <1>2, <2>1 DEF TypeOK
  <2>3. Queued \cup Connecting \subseteq Lanes
    BY DEF Queued, Connecting
  <2> QED
    BY <1>2, <2>1, <2>2, <2>3 DEF AskedOK
<1>4. Background' = Background
  BY <1>1 DEF Background, Clients
<1>5. CASE lane' = [lane EXCEPT ![l] = "failing"] /\ UNCHANGED gate
  <2>1. Queued' = Queued /\ Connecting' = Connecting
    BY <1>1, <1>2, <1>5 DEF TypeOK, Queued, Connecting
  <2>2. lane' \in [Lanes -> LaneStates]
    BY <1>2, <1>5 DEF TypeOK, LaneStates
  <2> QED
    BY <1>1, <1>2, <1>3, <1>4, <1>5, <2>1, <2>2 DEF GateInv, TypeOK, QueueOK, SlotsOK, gate
<1>6. CASE /\ HasRoom /\ active' = active + 1 /\ lane' = [lane EXCEPT ![l] = "connecting"]
           /\ UNCHANGED <<closed, waiters>>
  <2>1. Queued' = Queued /\ Connecting' = Connecting \cup {l}
    BY <1>1, <1>2, <1>6 DEF TypeOK, Queued, Connecting
  <2>2. IsFiniteSet(Connecting') /\ Cardinality(Connecting') = Cardinality(Connecting) + 1
    BY <1>2, <2>1, CountOneMore DEF SlotsOK
  <2>3. /\ Cardinality(Connecting) \in Nat /\ Cardinality(Background) \in Nat
        /\ active \in Nat /\ active < Capacity
    BY <1>2, <1>6, FS_CardinalityType DEF SlotsOK, HasRoom, TypeOK
  <2>4. lane' \in [Lanes -> LaneStates] /\ active' \in 0..Capacity
    BY <1>2, <1>6, <2>3, GateSizes DEF TypeOK, LaneStates
  <2>5. TypeOK'
    BY <1>1, <1>2, <1>3, <1>6, <2>4 DEF TypeOK
  <2>6. QueueOK'
    BY <1>2, <1>6, <2>1 DEF QueueOK, HasRoom
  <2>7. SlotsOK'
    BY <1>2, <1>4, <1>6, <2>2, <2>3 DEF SlotsOK
  <2> QED
    BY <1>3, <2>1, <2>5, <2>6, <2>7 DEF GateInv
<1>7. CASE /\ ~closed /\ ~HasRoom /\ waiters' = Append(waiters, l)
           /\ lane' = [lane EXCEPT ![l] = "queued"] /\ UNCHANGED <<active, closed>>
  <2>1. Queued' = Queued \cup {l} /\ Connecting' = Connecting
    BY <1>1, <1>2, <1>7 DEF TypeOK, Queued, Connecting
  <2>2. waiters' \in Seq(Lanes) /\ Distinct(waiters') /\ ToSet(waiters') = Queued \cup {l}
    BY <1>2, <1>7, JoinedQueue DEF TypeOK, QueueOK
  <2>3. active = Capacity
    BY <1>2, <1>7, GateSizes DEF HasRoom, QueueOK, TypeOK
  <2>4. lane' \in [Lanes -> LaneStates]
    BY <1>2, <1>7 DEF TypeOK, LaneStates
  <2>5. TypeOK'
    BY <1>1, <1>2, <1>3, <1>7, <2>2, <2>4 DEF TypeOK
  <2>6. QueueOK'
    BY <1>2, <1>7, <2>1, <2>2, <2>3 DEF QueueOK
  <2>7. SlotsOK'
    BY <1>2, <1>4, <1>7, <2>1 DEF SlotsOK
  <2> QED
    BY <1>3, <2>1, <2>5, <2>6, <2>7 DEF GateInv
<1> QED
  BY <1>5, <1>6, <1>7 DEF Acquire

(* The pool lends a client to the lane: the slot is now of the client.     *)
LEMMA StepConnected ==
  ASSUME GateInv, NEW l \in Lanes, Connected(l)
  PROVE  GateInv'
<1>1. /\ lane[l] = "connecting" /\ lane' = [lane EXCEPT ![l] = "working"]
      /\ held' = [held EXCEPT ![l] = Append(@, asked[l])]
      /\ asked[l] \in 1..MaxPools
      /\ UNCHANGED <<active, closed, waiters, pool, ending, asked, request>>
  <2>1. asked[l] \in 0..MaxPools /\ asked[l] # 0
    <3>1. asked[l] \in 0..MaxPools
      BY DEF GateInv, TypeOK
    <3>2. l \in Connecting
      BY DEF Connected, Connecting
    <3> QED
      BY <3>1, <3>2 DEF GateInv, AskedOK
  <2> QED
    BY <2>1, GateSizes DEF Connected, gate, pools
<1>2. TypeOK /\ QueueOK /\ SlotsOK /\ AskedOK /\ l \in Connecting
  BY <1>1 DEF GateInv, Connecting
<1>3. Queued' = Queued /\ Connecting' = Connecting \ {l} /\ lane' \in [Lanes -> LaneStates]
  BY <1>1, <1>2 DEF TypeOK, Queued, Connecting, LaneStates
<1>4. /\ held' \in [Lanes -> Seq(1..MaxPools)]
      /\ DOMAIN held'[l] = DOMAIN held[l] \cup {Len(held[l]) + 1}
      /\ Len(held[l]) + 1 \notin DOMAIN held[l]
      /\ \A k \in Lanes \ {l} : held'[k] = held[k]
  BY <1>1, <1>2 DEF TypeOK
<1>5. Background' = Background \cup {<<l, Len(held[l]) + 1>>} /\ <<l, Len(held[l]) + 1>> \notin Background
  <2>1. \A c : c \in Background' <=> \E k \in Lanes : \E i \in DOMAIN held'[k] : c = <<k, i>>
    BY DEF Background, Clients
  <2>2. ASSUME NEW c
        PROVE  c \in Background' <=> c \in Background \/ c = <<l, Len(held[l]) + 1>>
    BY <1>4, <2>1, BackgroundIs
  <2>3. <<l, Len(held[l]) + 1>> \notin Background
    BY <1>4, BackgroundIs
  <2> QED
    BY <2>2, <2>3
<1>6. SlotsOK'
  <2>1. /\ IsFiniteSet(Background') /\ Cardinality(Background') = Cardinality(Background) + 1
        /\ IsFiniteSet(Connecting') /\ Cardinality(Connecting') = Cardinality(Connecting) - 1
    BY <1>2, <1>3, <1>5, CountOneMore, CountOneLess DEF SlotsOK
  <2>2. Cardinality(Background) \in Nat /\ Cardinality(Connecting) \in Nat
    BY <1>2, FS_CardinalityType DEF SlotsOK
  <2> QED
    BY <1>1, <1>2, <2>1, <2>2 DEF SlotsOK
<1>7. TypeOK' /\ QueueOK' /\ AskedOK'
  BY <1>1, <1>2, <1>3, <1>4 DEF TypeOK, QueueOK, AskedOK
<1> QED
  BY <1>6, <1>7 DEF GateInv

(* The pool refuses it one: the slot is given back.                        *)
LEMMA StepConnectFails ==
  ASSUME GateInv, NEW l \in Lanes, ConnectFails(l)
  PROVE  GateInv'
<1> DEFINE lanes == [lane EXCEPT ![l] = "failing"]
<1>1. /\ lane[l] = "connecting" /\ ReleaseSlot(lanes)
      /\ UNCHANGED <<pool, ending, asked, held, request>>
  BY DEF ConnectFails, pools
<1>2. TypeOK /\ QueueOK /\ SlotsOK /\ AskedOK /\ l \in Connecting
  BY <1>1 DEF GateInv, Connecting
<1>3. /\ lanes \in [Lanes -> LaneStates] /\ {k \in Lanes : lanes[k] = "queued"} = Queued
      /\ {k \in Lanes : lanes[k] = "connecting"} = Connecting \ {l}
  BY <1>1, <1>2 DEF TypeOK, LaneStates, Queued, Connecting
<1>4. /\ IsFiniteSet(Connecting \ {l}) /\ Cardinality(Connecting) \in Nat \ {0}
      /\ Cardinality(Connecting \ {l}) = Cardinality(Connecting) - 1
      /\ Cardinality(Background) \in Nat
  BY <1>2, CountOneLess, FS_CardinalityType DEF SlotsOK
<1>5. 1 <= active
  BY <1>2, <1>4 DEF SlotsOK
<1> HIDE DEF lanes
<1>6. /\ lane' \in [Lanes -> LaneStates] /\ waiters' \in Seq(Lanes) /\ active' \in 0..Capacity
      /\ QueueOK' /\ Queued' \subseteq Queued /\ closed' = closed
      /\ \/ active' = active - 1 /\ Connecting' = Connecting \ {l}
         \/ active' = active /\ \E k \in Queued : Connecting' = (Connecting \ {l}) \cup {k}
  BY <1>1, <1>3, <1>5, SlotPassedOn, SlotGivenBack
<1>7. Background' = Background
  BY <1>1 DEF Background, Clients
<1>8. SlotsOK'
  <2>1. CASE active' = active - 1 /\ Connecting' = Connecting \ {l}
    BY <1>2, <1>4, <1>7, <2>1 DEF SlotsOK
  <2>2. ASSUME active' = active, NEW k \in Queued, Connecting' = (Connecting \ {l}) \cup {k}
        PROVE  SlotsOK'
    <3>1. k \notin Connecting \ {l}
      BY DEF Queued, Connecting
    <3>2. IsFiniteSet(Connecting') /\ Cardinality(Connecting') = Cardinality(Connecting \ {l}) + 1
      BY <1>4, <2>2, <3>1, CountOneMore
    <3> QED
      BY <1>2, <1>4, <1>7, <2>2, <3>2 DEF SlotsOK
  <2> QED
    BY <1>6, <2>1, <2>2
<1>9. TypeOK' /\ AskedOK'
  BY <1>1, <1>2, <1>6 DEF TypeOK, AskedOK
<1> QED
  BY <1>6, <1>8, <1>9 DEF GateInv

(* A client is given back, and its slot with it.                           *)
LEMMA StepRelease ==
  ASSUME GateInv, NEW l \in Lanes, Release(l)
  PROVE  GateInv'
<1>1. /\ held[l] # <<>> /\ held' = [held EXCEPT ![l] = Front(@)] /\ ReleaseSlot(lane)
      /\ UNCHANGED <<pool, ending, asked, request>>
  BY DEF Release, pools
<1>2. TypeOK /\ QueueOK /\ SlotsOK /\ AskedOK
  BY DEF GateInv
<1>3. /\ held' \in [Lanes -> Seq(1..MaxPools)]
      /\ DOMAIN held'[l] = DOMAIN held[l] \ {Len(held[l])} /\ Len(held[l]) \in DOMAIN held[l]
      /\ \A k \in Lanes \ {l} : held'[k] = held[k]
  <2>1. held[l] \in Seq(1..MaxPools)
    BY <1>2 DEF TypeOK
  <2>2. /\ Front(held[l]) \in Seq(1..MaxPools) /\ DOMAIN Front(held[l]) = 1 .. Len(held[l]) - 1
        /\ DOMAIN held[l] = 1 .. Len(held[l]) /\ Len(held[l]) \in Nat \ {0}
    BY <1>1, <2>1, FrontElements
  <2> QED
    BY <1>1, <1>2, <2>2 DEF TypeOK
<1>4. Background' = Background \ {<<l, Len(held[l])>>} /\ <<l, Len(held[l])>> \in Background
  <2>1. \A c : c \in Background' <=> \E k \in Lanes : \E i \in DOMAIN held'[k] : c = <<k, i>>
    BY DEF Background, Clients
  <2> QED
    BY <1>3, <2>1, BackgroundIs
<1>5. /\ IsFiniteSet(Background') /\ Cardinality(Background) \in Nat \ {0}
      /\ Cardinality(Background') = Cardinality(Background) - 1
      /\ Cardinality(Connecting) \in Nat
  BY <1>2, <1>4, CountOneLess, FS_CardinalityType DEF SlotsOK
<1>6. 1 <= active
  BY <1>2, <1>5 DEF SlotsOK
<1>7. /\ lane' \in [Lanes -> LaneStates] /\ waiters' \in Seq(Lanes) /\ active' \in 0..Capacity
      /\ QueueOK' /\ Queued' \subseteq Queued /\ closed' = closed
      /\ \/ active' = active - 1 /\ Connecting' = Connecting
         \/ active' = active /\ \E k \in Queued : Connecting' = Connecting \cup {k}
  <2>1. lane \in [Lanes -> LaneStates]
    BY <1>2 DEF TypeOK
  <2> QED
    BY <1>1, <1>6, <2>1, SlotPassedOn, SlotGivenBack DEF Queued, Connecting
<1>8. SlotsOK'
  <2>1. CASE active' = active - 1 /\ Connecting' = Connecting
    BY <1>2, <1>5, <2>1 DEF SlotsOK
  <2>2. ASSUME active' = active, NEW k \in Queued, Connecting' = Connecting \cup {k}
        PROVE  SlotsOK'
    <3>1. k \notin Connecting
      BY DEF Queued, Connecting
    <3>2. IsFiniteSet(Connecting') /\ Cardinality(Connecting') = Cardinality(Connecting) + 1
      BY <1>2, <2>2, <3>1, CountOneMore DEF SlotsOK
    <3> QED
      BY <1>2, <1>5, <2>2, <3>2 DEF SlotsOK
  <2> QED
    BY <1>7, <2>1, <2>2
<1>9. TypeOK' /\ AskedOK'
  BY <1>1, <1>2, <1>3, <1>7 DEF TypeOK, AskedOK
<1> QED
  BY <1>7, <1>8, <1>9 DEF GateInv

(* A lane gives up waiting.                                                *)
LEMMA StepDeadline ==
  ASSUME GateInv, NEW l \in Lanes, Deadline(l)
  PROVE  GateInv'
<1>1. /\ lane[l] = "queued" /\ lane' = [lane EXCEPT ![l] = "failing"]
      /\ waiters' = RemoveFirst(waiters, l)
      /\ UNCHANGED <<active, closed, pool, ending, asked, held, request>>
  BY DEF Deadline, pools
<1>2. TypeOK /\ QueueOK /\ SlotsOK /\ AskedOK /\ l \in Queued
  BY <1>1 DEF GateInv, Queued
<1>3. waiters' \in Seq(Lanes) /\ Distinct(waiters') /\ ToSet(waiters') = Queued \ {l}
  BY <1>1, <1>2, LeftQueue DEF TypeOK, QueueOK
<1>4. Queued' = Queued \ {l} /\ Connecting' = Connecting /\ lane' \in [Lanes -> LaneStates]
  BY <1>1, <1>2 DEF TypeOK, Queued, Connecting, LaneStates
<1>5. Background' = Background
  BY <1>1 DEF Background, Clients
<1>6. waiters # <<>>
  BY <1>2 DEF QueueOK, ToSet
<1>7. QueueOK'
  BY <1>1, <1>2, <1>3, <1>4, <1>6 DEF QueueOK
<1>8. TypeOK' /\ SlotsOK' /\ AskedOK'
  BY <1>1, <1>2, <1>3, <1>4, <1>5 DEF TypeOK, SlotsOK, AskedOK
<1> QED
  BY <1>7, <1>8 DEF GateInv

(* Steps that move no slot: the next round of a lane, and requests.        *)
LEMMA StepNextRound ==
  ASSUME GateInv, NEW l \in Lanes, NextRound(l)
  PROVE  GateInv'
<1>1. /\ lane[l] = "failing" /\ lane' = [lane EXCEPT ![l] = "working"]
      /\ UNCHANGED <<active, closed, waiters, pool, ending, asked, held, request>>
  BY DEF NextRound, pools, gate
<1>2. TypeOK /\ QueueOK /\ SlotsOK /\ AskedOK
  BY DEF GateInv
<1>3. Queued' = Queued /\ Connecting' = Connecting /\ lane' \in [Lanes -> LaneStates]
  BY <1>1, <1>2 DEF TypeOK, Queued, Connecting, LaneStates
<1>4. Background' = Background
  BY <1>1 DEF Background, Clients
<1> QED
  BY <1>1, <1>2, <1>3, <1>4 DEF GateInv, TypeOK, QueueOK, SlotsOK, AskedOK

LEMMA StepRequest ==
  ASSUME GateInv, NEW r \in Requests, RequestConnects(r) \/ RequestReleases(r)
  PROVE  GateInv'
<1>1. UNCHANGED <<active, closed, waiters, pool, ending, lane, asked, held>>
  BY DEF RequestConnects, RequestReleases, gate, pools
<1>2. request' \in [Requests -> 0..MaxPools]
  <2>1. pool \in 0..MaxPools /\ 0 \in 0..MaxPools /\ request \in [Requests -> 0..MaxPools]
    BY GateSizes DEF GateInv, TypeOK
  <2>2. \E x \in 0..MaxPools : request' = [request EXCEPT ![r] = x]
    BY <2>1 DEF RequestConnects, RequestReleases
  <2> QED
    BY <2>1, <2>2
<1>3. Queued' = Queued /\ Connecting' = Connecting /\ Background' = Background
  BY <1>1 DEF Queued, Connecting, Background, Clients
<1> QED
  BY <1>1, <1>2, <1>3 DEF GateInv, TypeOK, QueueOK, SlotsOK, AskedOK

(* The gate is closed: nobody waits any more; the slots in use stay so.    *)
LEMMA StepShutdown ==
  ASSUME GateInv, Shutdown
  PROVE  GateInv'
<1>1. /\ closed' = TRUE /\ waiters' = <<>> /\ ending' = ending \cup {pool}
      /\ lane' = [l \in Lanes |-> IF lane[l] = "queued" THEN "failing" ELSE lane[l]]
      /\ UNCHANGED <<active, pool, asked, held, request>>
  BY DEF Shutdown
<1>2. TypeOK /\ QueueOK /\ SlotsOK /\ AskedOK
  BY DEF GateInv
<1>3. Queued' = {} /\ Connecting' = Connecting /\ lane' \in [Lanes -> LaneStates]
  BY <1>1, <1>2 DEF TypeOK, Queued, Connecting, LaneStates
<1>4. Background' = Background
  BY <1>1 DEF Background, Clients
<1>5. TypeOK'
  <2>1. waiters' \in Seq(Lanes) /\ ending' \subseteq 1..pool'
    BY <1>1, <1>2, GateSizes DEF TypeOK
  <2> QED
    BY <1>1, <1>2, <1>3, <2>1 DEF TypeOK
<1>6. QueueOK'
  BY <1>1, <1>3 DEF QueueOK, Distinct, ToSet
<1> QED
  BY <1>1, <1>2, <1>3, <1>4, <1>5, <1>6 DEF GateInv, SlotsOK, AskedOK

(* The gate is opened for the next pool.                                   *)
LEMMA StepReopen ==
  ASSUME GateInv, Reopen
  PROVE  GateInv'
<1>1. /\ pool < MaxPools /\ pool' = pool + 1 /\ closed' = FALSE
      /\ UNCHANGED <<active, waiters, ending, lane, asked, held, request>>
  BY DEF Reopen
<1>2. TypeOK /\ QueueOK /\ SlotsOK /\ AskedOK
  BY DEF GateInv
<1>3. Queued' = Queued /\ Connecting' = Connecting /\ Background' = Background
  BY <1>1 DEF Queued, Connecting, Background, Clients
<1>4. pool' \in 1..MaxPools /\ ending' \subseteq 1..pool'
  BY <1>1, <1>2, GateSizes DEF TypeOK
<1>5. TypeOK'
  BY <1>1, <1>2, <1>4 DEF TypeOK
<1> QED
  BY <1>1, <1>2, <1>3, <1>5 DEF GateInv, QueueOK, SlotsOK, AskedOK

LEMMA GateInvStep == GateInv /\ [Next]_vars => GateInv'
<1> SUFFICES ASSUME GateInv, [Next]_vars PROVE GateInv'
  OBVIOUS
<1>1. ASSUME NEW l \in Lanes, NEW g \in 1..pool, Acquire(l, g) PROVE GateInv'
  BY <1>1, StepAcquire
<1>2. ASSUME NEW l \in Lanes, Connected(l) PROVE GateInv'
  BY <1>2, StepConnected
<1>3. ASSUME NEW l \in Lanes, ConnectFails(l) PROVE GateInv'
  BY <1>3, StepConnectFails
<1>4. ASSUME NEW l \in Lanes, Deadline(l) PROVE GateInv'
  BY <1>4, StepDeadline
<1>5. ASSUME NEW l \in Lanes, Release(l) PROVE GateInv'
  BY <1>5, StepRelease
<1>6. ASSUME NEW l \in Lanes, NextRound(l) PROVE GateInv'
  BY <1>6, StepNextRound
<1>7. ASSUME NEW r \in Requests, RequestConnects(r) \/ RequestReleases(r) PROVE GateInv'
  BY <1>7, StepRequest
<1>8. CASE Shutdown
  BY <1>8, StepShutdown
<1>9. CASE Reopen
  BY <1>9, StepReopen
<1>10. CASE UNCHANGED vars
  <2>1. UNCHANGED <<active, closed, waiters, pool, ending, lane, asked, held, request>>
    BY <1>10 DEF vars, gate, pools
  <2>2. Queued' = Queued /\ Connecting' = Connecting /\ Background' = Background
    BY <2>1 DEF Queued, Connecting, Background, Clients
  <2> QED
    BY <2>1, <2>2 DEF GateInv, TypeOK, QueueOK, SlotsOK, AskedOK
<1> QED
  BY <1>1, <1>2, <1>3, <1>4, <1>5, <1>6, <1>7, <1>8, <1>9, <1>10 DEF Next, LaneStep

LEMMA GateInvAlways == Spec => []GateInv
<1>1. Spec => []GateInv
  BY GateInvInit, GateInvStep, PTL DEF Spec
<1> QED
  BY <1>1

-----------------------------------------------------------------------------
(* What the gate promises.                                                 *)

(* Every variable of the gate has its type.                                *)
THEOREM GateTypes == Spec => []TypeOK
<1>1. GateInv => TypeOK
  BY DEF GateInv
<1> QED
  BY <1>1, GateInvAlways, PTL

(* A slot is never lost and never given back twice: whatever connects,     *)
(* fails, times out, is handed over or shut down, the slots in use are     *)
(* those of the clients lent to lanes and of the lanes that connect.       *)
THEOREM SlotsAreHeldHolds == Spec => []SlotsAreHeld
<1>1. GateInv => SlotsAreHeld
  BY DEF GateInv, SlotsOK, SlotsAreHeld, Connecting
<1> QED
  BY <1>1, GateInvAlways, PTL

(* The queue is those that wait, each once, and nobody waits for a slot    *)
(* that is free or at a gate that is closed.                               *)
THEOREM NobodyWaitsInVainHolds == Spec => []NobodyWaitsInVain
<1>1. GateInv => NobodyWaitsInVain
  <2> SUFFICES ASSUME GateInv PROVE NobodyWaitsInVain
    OBVIOUS
  <2>1. waiters \in Seq(Lanes) /\ QueueOK
    BY DEF GateInv, TypeOK
  <2>2. Cardinality(ToSet(waiters)) = Len(waiters)
    BY <2>1, QueueCount DEF QueueOK
  <2> QED
    BY <2>1, <2>2 DEF QueueOK, Queued, NobodyWaitsInVain
<1> QED
  BY <1>1, GateInvAlways, PTL

(* Background work alone never empties the pool: when no client is left    *)
(* for a request, some request holds one.                                  *)
THEOREM RequestsKeepRoomHolds == Spec => []RequestsKeepRoom
<1>1. GateInv => RequestsKeepRoom
  <2> SUFFICES ASSUME GateInv, Cardinality(Lent(pool)) = PoolSize,
                      \A q \in Requests : request[q] # pool
               PROVE  FALSE
    BY DEF RequestsKeepRoom
  <2>1. Lent(pool) \subseteq Background
    BY DEF Lent
  <2>2. IsFiniteSet(Background) /\ IsFiniteSet(Connecting)
    BY DEF GateInv, SlotsOK
  <2>3. Cardinality(Lent(pool)) <= Cardinality(Background)
    BY <2>1, <2>2, FS_Subset
  <2>4. Cardinality(Background) \in Nat /\ Cardinality(Connecting) \in Nat
    BY <2>2, FS_CardinalityType
  <2>5. active = Cardinality(Background) + Cardinality(Connecting) /\ active \in 0..Capacity
    BY DEF GateInv, SlotsOK, TypeOK
  <2> QED
    BY <2>3, <2>4, <2>5, GateSizes
<1> QED
  BY <1>1, GateInvAlways, PTL

(* A lane that gets a slot stood before everybody who still waits.         *)
THEOREM NobodyIsOvertakenHolds == Spec => NobodyIsOvertaken
<1> DEFINE Overtakes(l, k) ==
      /\ lane[l] # "connecting" /\ lane'[l] = "connecting"
      /\ lane[k] = "queued"     /\ lane'[k] = "queued"
      /\ ~(/\ lane[l] = "queued"
           /\ \E i, j \in DOMAIN waiters : i < j /\ waiters[i] = l /\ waiters[j] = k)
<1>1. ASSUME GateInv, [Next]_vars, NEW l \in Lanes, NEW k \in Lanes, Overtakes(l, k)
      PROVE  FALSE
  <2>1. TypeOK /\ QueueOK
    BY <1>1 DEF GateInv
  <2>2. k \in ToSet(waiters) /\ waiters # <<>> /\ lane \in [Lanes -> LaneStates]
    BY <1>1, <2>1 DEF QueueOK, Queued, ToSet, TypeOK
  <2>3. ASSUME NEW lanes \in [Lanes -> LaneStates], ReleaseSlot(lanes),
               \A m \in Lanes : lanes[m] = "connecting" => lane[m] = "connecting"
        PROVE  FALSE
    <3>1. lane' = [lanes EXCEPT ![Head(waiters)] = "connecting"]
      BY <1>1, <2>2, <2>3, SlotGivenBack
    <3>2. /\ Head(waiters) = waiters[1] /\ Head(waiters) \in ToSet(waiters)
          /\ 1 \in DOMAIN waiters
      <4>1. waiters \in Seq(Lanes) /\ Distinct(waiters)
        BY <2>1 DEF TypeOK, QueueOK
      <4> QED
        BY <2>2, <4>1, ServedQueue
    <3>3. l = Head(waiters)
      BY <1>1, <2>3, <3>1
    <3>4. lane[l] = "queued"
      BY <2>1, <3>2, <3>3 DEF QueueOK, Queued
    <3>5. k # l
      <4>1. lane'[l] = "connecting" /\ lane'[k] = "queued"
        BY <1>1
      <4> QED
        BY <4>1
    <3>6. PICK j \in DOMAIN waiters : waiters[j] = k
      BY <2>2 DEF ToSet
    <3>7. j # 1 /\ 1 < j
      BY <2>1, <3>2, <3>3, <3>5, <3>6 DEF TypeOK
    <3> QED
      BY <1>1, <3>2, <3>3, <3>4, <3>6, <3>7
  <2>4. ASSUME NEW m \in Lanes, NEW g \in 1..pool, Acquire(m, g) PROVE FALSE
    <3>1. ~HasRoom
      BY <2>2 DEF HasRoom
    <3> QED
      BY <1>1, <2>2, <2>4, <3>1 DEF Acquire
  <2>5. ASSUME NEW m \in Lanes, Connected(m) PROVE FALSE
    BY <1>1, <2>2, <2>5 DEF Connected
  <2>6. ASSUME NEW m \in Lanes, ConnectFails(m) PROVE FALSE
    <3>1. [lane EXCEPT ![m] = "failing"] \in [Lanes -> LaneStates]
      BY <2>2 DEF LaneStates
    <3>2. \A q \in Lanes : [lane EXCEPT ![m] = "failing"][q] = "connecting" => lane[q] = "connecting"
      BY <2>2
    <3> QED
      BY <2>3, <2>6, <3>1, <3>2 DEF ConnectFails
  <2>7. ASSUME NEW m \in Lanes, Deadline(m) \/ NextRound(m) PROVE FALSE
    BY <1>1, <2>2, <2>7 DEF Deadline, NextRound
  <2>8. ASSUME NEW m \in Lanes, Release(m) PROVE FALSE
    BY <2>2, <2>3, <2>8 DEF Release
  <2>9. ASSUME lane' = lane PROVE FALSE
    BY <1>1, <2>9
  <2>10. CASE Shutdown
    BY <1>1, <2>2, <2>10 DEF Shutdown
  <2> QED
    BY <1>1, <2>4, <2>5, <2>6, <2>7, <2>8, <2>9, <2>10
    DEF Next, LaneStep, RequestConnects, RequestReleases, Reopen, vars
<1>2. GateInv /\ [Next]_vars =>
        [\A l, k \in Lanes :
           /\ lane[l] # "connecting" /\ lane'[l] = "connecting"
           /\ lane[k] = "queued"     /\ lane'[k] = "queued"
           => /\ lane[l] = "queued"
              /\ \E i, j \in DOMAIN waiters : i < j /\ waiters[i] = l /\ waiters[j] = k]_vars
  BY <1>1
<1> QED
  BY <1>2, GateInvAlways, PTL DEF Spec, NobodyIsOvertaken

-----------------------------------------------------------------------------
(* The semaphores of the models: the argument.                             *)

Phases == {"idle", "build", "build half open", "next", "wait", "slot", "look", "half open",
           "call", "failed", "count", "open", "succeeded", "forget"}
CallStates == [at : Phases, turn : DOMAIN Chain, chain : Seq(Providers),
               started : 0 .. MaxNow, until : Nat, now : 0 .. MaxNow]
Semaphores == [active : Nat, waiters : Seq(Calls)]

ChainTypes ==
  /\ dispatch \in [Calls -> CallStates]
  /\ slots \in [Providers -> Semaphores]
  /\ openedAt \in [Providers -> (0 .. MaxNow) \cup {Never}]
  /\ failures \in [Providers -> Seq(0 .. MaxNow)]
  /\ failed \in Seq([of : Providers, at : 0 .. MaxNow])
  /\ now \in 0 .. MaxNow

(* What a call in state d holds, and what it waits for.                    *)
UsesSlot(d, p) == /\ d.at \notin {"idle", "build", "build half open", "next", "wait"}
                  /\ Head(d.chain) = p
WaitsFor(d, p) == d.at = "wait" /\ Head(d.chain) = p
Users(p)   == {c \in Calls : UsesSlot(dispatch[c], p)}
Waiting(p) == {c \in Calls : WaitsFor(dispatch[c], p)}

(* Who uses or waits has a provider in front of its chain.                 *)
ChainsOK == \A c \in Calls : dispatch[c].at \notin {"idle", "build", "build half open", "next"}
                               => dispatch[c].chain # <<>>

(* The semaphore of p counts those that use p, and its queue is those that *)
(* wait for it, each once, while no slot is free.                          *)
SemaphoreOK(p) ==
  /\ IsFiniteSet(Users(p)) /\ slots[p].active = Cardinality(Users(p))
  /\ slots[p].active <= SlotLimit
  /\ slots[p].waiters # <<>> => slots[p].active = SlotLimit
  /\ Distinct(slots[p].waiters) /\ ToSet(slots[p].waiters) = Waiting(p)

CallsInv == ChainTypes /\ ChainsOK /\ \A p \in Providers : SemaphoreOK(p)

(* The failures of p since the window before t are as many as the          *)
(* threshold.                                                              *)
FailedSince(p, t) == {i \in DOMAIN failed : failed[i].of = p /\ failed[i].at + WindowMs >= t}
Enough(p, t)      == Cardinality(FailedSince(p, t)) >= Threshold

(* Every entry of a list of failures is a failure of its own, and who has  *)
(* opened a circuit, or is about to, has counted enough of them.           *)
Recorded(p) == \E f \in [DOMAIN failures[p] -> DOMAIN failed] :
                 /\ \A i, j \in DOMAIN failures[p] : f[i] = f[j] => i = j
                 /\ \A i \in DOMAIN failures[p] : failed[f[i]] = [of |-> p, at |-> failures[p][i]]

CircuitsInv ==
  /\ \A p \in Providers : Recorded(p) /\ (openedAt[p] # Never => Enough(p, openedAt[p]))
  /\ \A c \in Calls : Waits(c, "open") => Enough(Provider(c), dispatch[c].now)

-----------------------------------------------------------------------------
(* What the steps of a call have in common.                                *)

LEMMA SequenceParts ==
  ASSUME NEW S, NEW s \in Seq(S)
  PROVE  /\ DOMAIN s = 1 .. Len(s) /\ Len(s) \in Nat /\ \A i \in DOMAIN s : s[i] \in S
         /\ \A e \in S : Append(s, e) \in Seq(S)
  OBVIOUS

LEMMA NextIndex ==
  ASSUME NEW n \in Nat, NEW t \in 1 .. n
  PROVE  (IF t < n THEN t + 1 ELSE 1) \in 1 .. n
  OBVIOUS

LEMMA ChainSizes == /\ {SlotLimit, WaitMs, ChainMs, Threshold, MaxNow} \subseteq Nat
                    /\ 1 <= SlotLimit /\ 1 <= Threshold /\ OpenMs \in Nat /\ WindowMs \in Nat
                    /\ Chain \in Seq(Providers) /\ Chain # <<>> /\ Never \notin Nat
                    /\ 1 \in DOMAIN Chain
<1>1. Chain \in Seq(Providers) /\ Chain # <<>>
  BY ChainAssumption
<1>2. 1 \in DOMAIN Chain
  BY <1>1
<1> QED
  BY <1>1, <1>2, ChainAssumption, MillisAssumption

LEMMA BusyUses ==
  ASSUME NEW c
  PROVE  /\ Busy(c) <=> UsesSlot(dispatch[c], Provider(c))
         /\ \A p : UsesSlot(dispatch[c], p) <=> Busy(c) /\ Provider(c) = p
         /\ \A p : WaitsFor(dispatch[c], p) <=> Waits(c, "wait") /\ Provider(c) = p
  BY DEF Busy, UsesSlot, WaitsFor, Provider, Waits

LEMMA FreshSemaphore == [active |-> 0, waiters |-> <<>>] \in Semaphores
<1>1. <<>> \in Seq(Calls)
  OBVIOUS
<1> QED
  BY <1>1 DEF Semaphores

LEMMA UnusedState == Unused \in CallStates /\ Unused.at = "idle"
  BY ChainSizes DEF Unused, CallStates, Phases

LEMMA NextTurnState ==
  ASSUME CallsInv, NEW c \in Calls, dispatch[c].chain # <<>>
  PROVE  NextTurn(c) \in CallStates /\ NextTurn(c).at = "next"
<1>1. dispatch[c] \in CallStates
  BY DEF CallsInv, ChainTypes
<1>2. Tail(dispatch[c].chain) \in Seq(Providers) /\ 0 \in Nat /\ 0 \in 0 .. MaxNow /\ "next" \in Phases
  <2>1. dispatch[c].chain \in Seq(Providers)
    BY <1>1 DEF CallStates
  <2> QED
    BY <2>1, ChainSizes DEF Phases
<1> QED
  BY <1>1, <1>2 DEF NextTurn, CallStates

LEMMA PhaseState ==
  ASSUME CallsInv, NEW c \in Calls, NEW x \in Phases, GoTo(c, x)
  PROVE  \E d \in CallStates : /\ dispatch' = [dispatch EXCEPT ![c] = d]
                               /\ d = [dispatch[c] EXCEPT !.at = x]
<1>1. dispatch[c] \in CallStates
  BY DEF CallsInv, ChainTypes
<1> QED
  BY <1>1 DEF GoTo, CallStates

(* A step in which a call neither takes nor leaves a slot or a queue.      *)
LEMMA QuietStep ==
  ASSUME CallsInv, NEW c \in Calls, NEW d \in CallStates,
         dispatch' = [dispatch EXCEPT ![c] = d], slots' = slots,
         d.at \notin {"idle", "build", "build half open", "next"} => d.chain # <<>>,
         \A p \in Providers : /\ UsesSlot(d, p) <=> UsesSlot(dispatch[c], p)
                              /\ WaitsFor(d, p) <=> WaitsFor(dispatch[c], p)
  PROVE  /\ dispatch' \in [Calls -> CallStates] /\ slots' \in [Providers -> Semaphores]
         /\ ChainsOK' /\ \A p \in Providers : SemaphoreOK(p)'
<1>1. /\ dispatch \in [Calls -> CallStates] /\ slots \in [Providers -> Semaphores]
      /\ ChainsOK /\ \A p \in Providers : SemaphoreOK(p)
  BY DEF CallsInv, ChainTypes
<1>2. /\ dispatch' \in [Calls -> CallStates]
      /\ dispatch'[c] = d /\ \A b \in Calls \ {c} : dispatch'[b] = dispatch[b]
  BY <1>1
<1>3. ASSUME NEW p \in Providers PROVE Users(p)' = Users(p) /\ Waiting(p)' = Waiting(p)
  BY <1>2 DEF Users, Waiting
<1>4. ASSUME NEW p \in Providers PROVE SemaphoreOK(p)'
  BY <1>1, <1>3 DEF SemaphoreOK
<1>5. ChainsOK'
  BY <1>1, <1>2 DEF ChainsOK
<1> QED
  BY <1>1, <1>2, <1>4, <1>5

(* A call that uses a provider leaves it: the first that waits takes its   *)
(* place, or the slot is free.                                             *)
LEMMA SlotLeft ==
  ASSUME CallsInv, NEW c \in Calls, Busy(c), NEW d \in CallStates, d.at \in {"idle", "next"},
         GiveSlotBack(c, d)
  PROVE  /\ dispatch' \in [Calls -> CallStates] /\ slots' \in [Providers -> Semaphores]
         /\ ChainsOK' /\ \A p \in Providers : SemaphoreOK(p)'
         /\ dispatch'[c] = d
         /\ \A b \in Calls \ {c} : \/ dispatch'[b] = dispatch[b]
                                   \/ dispatch'[b] = [dispatch[b] EXCEPT !.at = "slot"]
<1>0. PICK p, s : p = Provider(c) /\ s = slots[p]
  OBVIOUS
<1>1. /\ dispatch \in [Calls -> CallStates] /\ slots \in [Providers -> Semaphores]
      /\ ChainsOK /\ \A q \in Providers : SemaphoreOK(q)
  BY DEF CallsInv, ChainTypes
<1>2. p \in Providers /\ s \in Semaphores /\ SemaphoreOK(p) /\ dispatch[c].chain # <<>>
  <2>1. dispatch[c].chain # <<>>
    BY <1>1 DEF Busy, ChainsOK
  <2>2. dispatch[c].chain \in Seq(Providers)
    BY <1>1 DEF CallStates
  <2>3. p \in Providers
    BY <1>0, <2>1, <2>2 DEF Provider
  <2> QED
    BY <1>0, <1>1, <2>1, <2>3
<1>3. /\ slots' = [slots EXCEPT ![p] = Released(@)]
      /\ dispatch' = [b \in Calls |-> IF b = c THEN d
                        ELSE IF s.waiters # <<>> /\ b = Head(s.waiters)
                          THEN [dispatch[b] EXCEPT !.at = "slot"] ELSE dispatch[b]]
  BY <1>0 DEF GiveSlotBack
<1>4. c \in Users(p) /\ c \notin Waiting(p)
  BY <1>0, BusyUses DEF Users, Waiting, UsesSlot, WaitsFor
<1>5. /\ \A q \in Providers : ~UsesSlot(d, q) /\ ~WaitsFor(d, q)
      /\ \A q \in Providers \ {p} : c \notin Users(q) /\ c \notin Waiting(q)
  BY <1>0, BusyUses DEF UsesSlot, WaitsFor, Users, Waiting, Busy, Waits
<1>6. CASE s.waiters = <<>>
  <2>1. /\ dispatch' = [b \in Calls |-> IF b = c THEN d ELSE dispatch[b]]
    BY <1>3, <1>6
  <2>2. dispatch' \in [Calls -> CallStates] /\ ChainsOK'
    BY <1>1, <2>1 DEF ChainsOK
  <2>3. /\ IsFiniteSet(Users(p) \ {c}) /\ s.active \in Nat \ {0}
        /\ Cardinality(Users(p) \ {c}) = s.active - 1
    BY <1>0, <1>2, <1>4, CountOneLess DEF SemaphoreOK
  <2>4. slots' = [slots EXCEPT ![p] = [s EXCEPT !.active = @ - 1]]
    BY <1>0, <1>3, <1>6 DEF Released
  <2>5. [s EXCEPT !.active = @ - 1] \in Semaphores
    BY <1>2, <2>3 DEF Semaphores
  <2>6. slots' \in [Providers -> Semaphores]
    BY <1>1, <2>4, <2>5
  <2>7. Users(p)' = Users(p) \ {c} /\ Waiting(p)' = Waiting(p)
    BY <1>2, <1>4, <1>5, <2>1 DEF Users, Waiting
  <2>8. SemaphoreOK(p)'
    <3>1. slots'[p].active = s.active - 1 /\ slots'[p].waiters = s.waiters
      BY <1>0, <1>1, <1>2, <2>4 DEF Semaphores
    <3> QED
      BY <1>0, <1>2, <1>6, <2>3, <2>7, <3>1, ChainSizes DEF SemaphoreOK
  <2>9. ASSUME NEW q \in Providers \ {p} PROVE SemaphoreOK(q)'
    <3>1. Users(q)' = Users(q) /\ Waiting(q)' = Waiting(q)
      BY <1>5, <2>1 DEF Users, Waiting
    <3>2. slots'[q] = slots[q]
      BY <1>1, <2>4
    <3> QED
      BY <1>1, <3>1, <3>2 DEF SemaphoreOK
  <2> QED
    BY <2>1, <2>2, <2>6, <2>8, <2>9
<1>7. CASE s.waiters # <<>>
  <2>0. PICK h, e : h = Head(s.waiters) /\ e = [dispatch[h] EXCEPT !.at = "slot"]
    OBVIOUS
  <2>1. /\ h \in Waiting(p) /\ Tail(s.waiters) \in Seq(Calls) /\ Distinct(Tail(s.waiters))
        /\ ToSet(Tail(s.waiters)) = Waiting(p) \ {h}
    <3>1. s.waiters \in Seq(Calls) /\ Distinct(s.waiters) /\ ToSet(s.waiters) = Waiting(p)
      BY <1>0, <1>2 DEF SemaphoreOK, Semaphores
    <3> QED
      BY <1>7, <2>0, <3>1, ServedQueue
  <2>2. h \in Calls /\ h # c /\ dispatch[h].at = "wait" /\ Head(dispatch[h].chain) = p
    BY <1>4, <2>1 DEF Waiting, WaitsFor
  <2>3. e \in CallStates /\ e.at = "slot" /\ e.chain = dispatch[h].chain /\ dispatch[h].chain # <<>>
    BY <1>1, <2>0, <2>2 DEF CallStates, Phases, ChainsOK
  <2>4. dispatch' = [b \in Calls |-> IF b = c THEN d ELSE IF b = h THEN e ELSE dispatch[b]]
    BY <1>3, <1>7, <2>0
  <2>5. /\ dispatch'[c] = d /\ dispatch'[h] = e
        /\ \A b \in Calls \ {c, h} : dispatch'[b] = dispatch[b]
    BY <2>2, <2>4
  <2>6. dispatch' \in [Calls -> CallStates]
    BY <1>1, <2>3, <2>4
  <2>7. UsesSlot(e, p) /\ \A q \in Providers : ~WaitsFor(e, q) /\ (UsesSlot(e, q) => q = p)
    BY <2>2, <2>3 DEF UsesSlot, WaitsFor
  <2>8. h \notin Users(p) /\ \A q \in Providers \ {p} : h \notin Users(q) /\ h \notin Waiting(q)
    BY <2>2 DEF Users, Waiting, UsesSlot, WaitsFor
  <2>9. ChainsOK'
    BY <1>1, <2>3, <2>5 DEF ChainsOK
  <2>10. Users(p)' = (Users(p) \ {c}) \cup {h} /\ Waiting(p)' = Waiting(p) \ {h}
    BY <1>2, <1>4, <1>5, <2>1, <2>2, <2>5, <2>7 DEF Users, Waiting
  <2>11. IsFiniteSet(Users(p)') /\ Cardinality(Users(p)') = Cardinality(Users(p))
    <3>1. /\ IsFiniteSet(Users(p) \ {c}) /\ Cardinality(Users(p)) \in Nat \ {0}
          /\ Cardinality(Users(p) \ {c}) = Cardinality(Users(p)) - 1
      BY <1>2, <1>4, CountOneLess DEF SemaphoreOK
    <3>2. h \notin Users(p) \ {c}
      BY <2>8
    <3>3. /\ IsFiniteSet((Users(p) \ {c}) \cup {h})
          /\ Cardinality((Users(p) \ {c}) \cup {h}) = Cardinality(Users(p) \ {c}) + 1
      BY <3>1, <3>2, CountOneMore
    <3> QED
      BY <2>10, <3>1, <3>3
  <2>12. slots' = [slots EXCEPT ![p] = [s EXCEPT !.waiters = Tail(@)]]
    BY <1>0, <1>3, <1>7 DEF Released
  <2>13. [s EXCEPT !.waiters = Tail(@)] \in Semaphores
    BY <1>2, <2>1 DEF Semaphores
  <2>14. slots' \in [Providers -> Semaphores]
    BY <1>1, <2>12, <2>13
  <2>15. SemaphoreOK(p)'
    <3>1. slots'[p].active = s.active /\ slots'[p].waiters = Tail(s.waiters)
      BY <1>0, <1>1, <1>2, <2>12 DEF Semaphores
    <3> QED
      BY <1>0, <1>2, <1>7, <2>1, <2>10, <2>11, <3>1 DEF SemaphoreOK
  <2>16. ASSUME NEW q \in Providers \ {p} PROVE SemaphoreOK(q)'
    <3>1. Users(q)' = Users(q) /\ Waiting(q)' = Waiting(q)
      BY <1>5, <2>2, <2>5, <2>7, <2>8 DEF Users, Waiting
    <3>2. slots'[q] = slots[q]
      BY <1>1, <2>12
    <3> QED
      BY <1>1, <3>1, <3>2 DEF SemaphoreOK
  <2>17. \A b \in Calls \ {c} : \/ dispatch'[b] = dispatch[b]
                                \/ dispatch'[b] = [dispatch[b] EXCEPT !.at = "slot"]
    BY <2>0, <2>5
  <2> QED
    BY <2>5, <2>6, <2>9, <2>14, <2>15, <2>16, <2>17
<1> QED
  BY <1>6, <1>7

-----------------------------------------------------------------------------
(* The steps of the calls.                                                 *)

(* What is left to show where the step takes or leaves no slot, and where  *)
(* it says nothing of the circuits.                                        *)
CallsKept == /\ dispatch' \in [Calls -> CallStates] /\ slots' \in [Providers -> Semaphores]
             /\ ChainsOK' /\ \A p \in Providers : SemaphoreOK(p)'

LEMMA CallsKeptOnly ==
  ASSUME CallsInv, CallsKept, UNCHANGED <<openedAt, failures, failed, now>>
  PROVE  CallsInv'
  BY DEF CallsInv, CallsKept, ChainTypes

(* The call goes on with its slot.                                         *)
LEMMA BusyOn ==
  ASSUME CallsInv, NEW c \in Calls, Busy(c), NEW d \in CallStates,
         dispatch' = [dispatch EXCEPT ![c] = d], slots' = slots,
         d.at \notin {"idle", "build", "build half open", "next", "wait"},
         d.chain = dispatch[c].chain
  PROVE  CallsKept
<1>1. dispatch[c].chain # <<>> /\ dispatch[c].at # "wait"
  BY DEF CallsInv, ChainsOK, Busy
<1>2. \A p \in Providers : /\ UsesSlot(d, p) <=> UsesSlot(dispatch[c], p)
                           /\ WaitsFor(d, p) <=> WaitsFor(dispatch[c], p)
  BY <1>1 DEF UsesSlot, WaitsFor, Busy
<1> QED
  BY <1>1, <1>2, QuietStep DEF CallsKept

LEMMA BusyGoesTo ==
  ASSUME CallsInv, NEW c \in Calls, Busy(c), NEW x \in Phases, GoTo(c, x), slots' = slots,
         x \notin {"idle", "build", "build half open", "next", "wait"}
  PROVE  CallsKept
<1>1. PICK d \in CallStates : /\ dispatch' = [dispatch EXCEPT ![c] = d]
                              /\ d = [dispatch[c] EXCEPT !.at = x]
  BY PhaseState
<1>2. dispatch[c] \in CallStates
  BY DEF CallsInv, ChainTypes
<1>3. d.at = x /\ d.chain = dispatch[c].chain
  BY <1>1, <1>2 DEF CallStates
<1> QED
  BY <1>1, <1>3, BusyOn

(* The call has no slot and waits for none, before the step and after it.  *)
LEMMA IdleOn ==
  ASSUME CallsInv, NEW c \in Calls, NEW d \in CallStates,
         dispatch' = [dispatch EXCEPT ![c] = d], slots' = slots,
         {d.at, dispatch[c].at} \subseteq {"idle", "build", "build half open", "next"}
  PROVE  CallsKept
<1>1. \A p \in Providers : /\ UsesSlot(d, p) <=> UsesSlot(dispatch[c], p)
                           /\ WaitsFor(d, p) <=> WaitsFor(dispatch[c], p)
  BY DEF UsesSlot, WaitsFor
<1> QED
  BY <1>1, QuietStep DEF CallsKept

LEMMA StepBegin ==
  ASSUME CallsInv, NEW c \in Calls, BeginDispatch(c)
  PROVE  CallsKept
<1> DEFINE d == [Unused EXCEPT !.at = "build", !.started = now]
<1>1. d \in CallStates /\ d.at = "build"
  <2>1. /\ now \in 0 .. MaxNow /\ 0 \in 0 .. MaxNow /\ 0 \in Nat /\ <<>> \in Seq(Providers)
        /\ 1 \in DOMAIN Chain /\ "build" \in Phases
    BY ChainSizes DEF CallsInv, ChainTypes, Phases
  <2> QED
    BY <2>1 DEF Unused, CallStates
<1>2. dispatch' = [dispatch EXCEPT ![c] = d] /\ dispatch[c].at = "idle" /\ slots' = slots
  BY DEF BeginDispatch, Waits
<1> HIDE DEF d
<1> QED
  BY <1>1, <1>2, IdleOn

LEMMA StepChecked ==
  ASSUME CallsInv, NEW c \in Calls, NEW found \in BOOLEAN, Checked(c, found),
         dispatch[c].at \in {"build", "build half open"}, slots' = slots
  PROVE  /\ CallsKept /\ dispatch'[c].at \in {"build", "next"}
         /\ \A b \in Calls \ {c} : dispatch'[b] = dispatch[b]
<1>1. PICK A, B, C : /\ A = IF dispatch[c].turn < Len(Chain) THEN "build" ELSE "next"
                     /\ B = IF dispatch[c].turn < Len(Chain) THEN dispatch[c].turn + 1 ELSE 1
                     /\ C = IF found THEN Append(dispatch[c].chain, Chain[dispatch[c].turn])
                                     ELSE dispatch[c].chain
  OBVIOUS
<1>2. dispatch \in [Calls -> CallStates] /\ dispatch[c] \in CallStates
  BY DEF CallsInv, ChainTypes
<1>3. dispatch' = [dispatch EXCEPT ![c].at = A, ![c].turn = B, ![c].chain = C]
  BY <1>1, Zenon DEF Checked
<1>4. A \in {"build", "next"} /\ A \in Phases
  BY <1>1 DEF Phases
<1>5. /\ B \in DOMAIN Chain /\ dispatch[c].chain \in Seq(Providers)
      /\ Chain[dispatch[c].turn] \in Providers
  <2>1. dispatch[c].turn \in DOMAIN Chain /\ dispatch[c].chain \in Seq(Providers)
    BY <1>2 DEF CallStates
  <2>2. Chain \in Seq(Providers) /\ 1 \in DOMAIN Chain
    BY ChainSizes
  <2>3. /\ DOMAIN Chain = 1 .. Len(Chain) /\ Len(Chain) \in Nat
        /\ \A i \in DOMAIN Chain : Chain[i] \in Providers
    BY <2>2, SequenceParts
  <2>4. Chain[dispatch[c].turn] \in Providers
    BY <2>1, <2>3
  <2>5. B \in DOMAIN Chain
    BY <1>1, <2>1, <2>2, <2>3, NextIndex
  <2> QED
    BY <2>1, <2>4, <2>5
<1>6. C \in Seq(Providers)
  <2>1. Append(dispatch[c].chain, Chain[dispatch[c].turn]) \in Seq(Providers)
    BY <1>5, SequenceParts
  <2> QED
    BY <1>1, <1>5, <2>1
<1>7. PICK d : d = [dispatch[c] EXCEPT !.at = A, !.turn = B, !.chain = C]
  OBVIOUS
<1>8. d \in CallStates /\ d.at = A
  BY <1>2, <1>4, <1>5, <1>6, <1>7 DEF CallStates
<1>9. dispatch' = [dispatch EXCEPT ![c] = d]
  BY <1>2, <1>3, <1>7 DEF CallStates
<1>10. CallsKept
  BY <1>4, <1>8, <1>9, IdleOn
<1> QED
  BY <1>2, <1>4, <1>8, <1>9, <1>10

LEMMA StepCheckAvailable ==
  ASSUME CallsInv, NEW c \in Calls, CheckAvailable(c)
  PROVE  CallsKept
<1>1. dispatch[c].at = "build" /\ slots' = slots
  BY DEF CheckAvailable, Waits
<1>2. CASE \E found \in BOOLEAN : Checked(c, found)
  BY <1>1, <1>2, StepChecked
<1>3. CASE GoTo(c, "build half open")
  <2>1. PICK d \in CallStates : /\ dispatch' = [dispatch EXCEPT ![c] = d]
                                /\ d = [dispatch[c] EXCEPT !.at = "build half open"]
    BY <1>3, PhaseState DEF Phases
  <2>2. dispatch[c] \in CallStates
    BY DEF CallsInv, ChainTypes
  <2>3. d.at = "build half open"
    BY <2>1, <2>2 DEF CallStates
  <2> QED
    BY <1>1, <2>1, <2>3, IdleOn
<1> QED
  BY <1>2, <1>3 DEF CheckAvailable

LEMMA StepGiveUp ==
  ASSUME CallsInv, NEW c \in Calls, GiveUp(c)
  PROVE  CallsKept
  BY UnusedState, IdleOn DEF GiveUp

(* A call takes a free slot, or queues while there is none.                *)
LEMMA StepTakeSlot ==
  ASSUME CallsInv, NEW c \in Calls, TakeSlot(c)
  PROVE  CallsKept
<1>1. PICK p, s : p = Provider(c) /\ s = slots[p]
  OBVIOUS
<1>2. /\ dispatch \in [Calls -> CallStates] /\ slots \in [Providers -> Semaphores]
      /\ ChainsOK /\ (\A q \in Providers : SemaphoreOK(q)) /\ now \in 0 .. MaxNow
      /\ dispatch[c].at = "next" /\ dispatch[c].chain # <<>> /\ dispatch[c] \in CallStates
  BY DEF CallsInv, ChainTypes, TakeSlot, Waits
<1>3. p \in Providers /\ s \in Semaphores /\ SemaphoreOK(p) /\ Head(dispatch[c].chain) = p
  BY <1>1, <1>2 DEF Provider, CallStates
<1>4. \A q \in Providers : c \notin Users(q) /\ c \notin Waiting(q)
  BY <1>2 DEF Users, Waiting, UsesSlot, WaitsFor
<1>5. CASE s.active < SlotLimit
  <2>1. PICK d : d = [dispatch[c] EXCEPT !.at = "slot"]
    OBVIOUS
  <2>2. d \in CallStates /\ d.at = "slot" /\ d.chain = dispatch[c].chain
    BY <1>2, <2>1 DEF CallStates, Phases
  <2>3. dispatch' = [dispatch EXCEPT ![c] = d] /\ slots' = [slots EXCEPT ![p].active = @ + 1]
    BY <1>1, <1>2, <1>5, <2>1 DEF TakeSlot, GoTo, CallStates
  <2>4. UsesSlot(d, p) /\ \A q \in Providers : ~WaitsFor(d, q) /\ (UsesSlot(d, q) => q = p)
    BY <1>3, <2>2 DEF UsesSlot, WaitsFor
  <2>5. /\ dispatch' \in [Calls -> CallStates] /\ ChainsOK'
        /\ dispatch'[c] = d /\ \A b \in Calls \ {c} : dispatch'[b] = dispatch[b]
    BY <1>2, <2>2, <2>3 DEF ChainsOK
  <2>6. slots' \in [Providers -> Semaphores]
    <3>1. slots' = [slots EXCEPT ![p] = [s EXCEPT !.active = @ + 1]]
      BY <1>1, <1>2, <1>3, <2>3 DEF Semaphores
    <3>2. [s EXCEPT !.active = @ + 1] \in Semaphores
      BY <1>3 DEF Semaphores
    <3> QED
      BY <1>2, <3>1, <3>2
  <2>7. SemaphoreOK(p)'
    <3>1. Users(p)' = Users(p) \cup {c} /\ Waiting(p)' = Waiting(p)
      BY <1>3, <1>4, <2>4, <2>5 DEF Users, Waiting
    <3>2. slots'[p].active = s.active + 1 /\ slots'[p].waiters = s.waiters
      BY <1>1, <1>2, <1>3, <2>3 DEF Semaphores
    <3>3. IsFiniteSet(Users(p)') /\ Cardinality(Users(p)') = Cardinality(Users(p)) + 1
      BY <1>3, <1>4, <3>1, CountOneMore DEF SemaphoreOK
    <3>4. s.active \in Nat /\ s.waiters = <<>>
      BY <1>1, <1>3, <1>5, ChainSizes DEF SemaphoreOK, Semaphores
    <3> QED
      BY <1>1, <1>3, <1>5, <3>1, <3>2, <3>3, <3>4, ChainSizes DEF SemaphoreOK
  <2>8. ASSUME NEW q \in Providers \ {p} PROVE SemaphoreOK(q)'
    <3>1. Users(q)' = Users(q) /\ Waiting(q)' = Waiting(q)
      BY <1>3, <1>4, <2>4, <2>5 DEF Users, Waiting
    <3>2. slots'[q] = slots[q]
      BY <1>2, <2>3
    <3> QED
      BY <1>2, <3>1, <3>2 DEF SemaphoreOK
  <2> QED
    BY <2>5, <2>6, <2>7, <2>8 DEF CallsKept
<1>6. CASE ~(s.active < SlotLimit)
  <2>1. PICK u : u = now + (IF WaitMs < dispatch[c].started + ChainMs - now
                              THEN WaitMs ELSE dispatch[c].started + ChainMs - now)
    OBVIOUS
  <2>2. u \in Nat
    <3>1. PICK t : t = dispatch[c].started
      OBVIOUS
    <3>2. t \in Nat /\ now \in Nat /\ ChainMs \in Nat /\ WaitMs \in Nat
      BY <1>2, <3>1, ChainSizes DEF CallStates
    <3>3. now < t + ChainMs
      BY <3>1, <3>2 DEF TakeSlot, Overdue
    <3> QED
      BY <2>1, <3>1, <3>2, <3>3
  <2>3. PICK d : d = [dispatch[c] EXCEPT !.at = "wait", !.until = u]
    OBVIOUS
  <2>4. d \in CallStates /\ d.at = "wait" /\ d.chain = dispatch[c].chain
    BY <1>2, <2>2, <2>3 DEF CallStates, Phases
  <2>5. /\ dispatch' = [dispatch EXCEPT ![c].at = "wait", ![c].until = u]
        /\ slots' = [slots EXCEPT ![p].waiters = Append(@, c)]
    BY <1>1, <1>6, <2>1 DEF TakeSlot
  <2>6. dispatch' = [dispatch EXCEPT ![c] = d]
    BY <1>2, <2>3, <2>5 DEF CallStates
  <2>7. WaitsFor(d, p) /\ \A q \in Providers : ~UsesSlot(d, q) /\ (WaitsFor(d, q) => q = p)
    BY <1>3, <2>4 DEF UsesSlot, WaitsFor
  <2>8. /\ dispatch' \in [Calls -> CallStates] /\ ChainsOK'
        /\ dispatch'[c] = d /\ \A b \in Calls \ {c} : dispatch'[b] = dispatch[b]
    BY <1>2, <2>4, <2>6 DEF ChainsOK
  <2>9. /\ Append(s.waiters, c) \in Seq(Calls) /\ Distinct(Append(s.waiters, c))
        /\ ToSet(Append(s.waiters, c)) = Waiting(p) \cup {c}
    <3>1. s.waiters \in Seq(Calls) /\ Distinct(s.waiters) /\ ToSet(s.waiters) = Waiting(p)
      BY <1>1, <1>3 DEF SemaphoreOK, Semaphores
    <3> QED
      BY <1>3, <1>4, <3>1, JoinedQueue
  <2>10. /\ slots'[p].active = s.active /\ slots'[p].waiters = Append(s.waiters, c)
         /\ slots' \in [Providers -> Semaphores]
    BY <1>1, <1>2, <1>3, <2>5, <2>9 DEF Semaphores
  <2>11. SemaphoreOK(p)'
    <3>1. Users(p)' = Users(p) /\ Waiting(p)' = Waiting(p) \cup {c}
      BY <1>3, <1>4, <2>7, <2>8 DEF Users, Waiting
    <3>2. s.active = SlotLimit
      BY <1>1, <1>3, <1>6, ChainSizes DEF SemaphoreOK, Semaphores
    <3> QED
      BY <1>1, <1>3, <2>9, <2>10, <3>1, <3>2 DEF SemaphoreOK
  <2>12. ASSUME NEW q \in Providers \ {p} PROVE SemaphoreOK(q)'
    <3>1. Users(q)' = Users(q) /\ Waiting(q)' = Waiting(q)
      BY <1>3, <1>4, <2>7, <2>8 DEF Users, Waiting
    <3>2. slots'[q] = slots[q]
      BY <1>2, <2>5
    <3> QED
      BY <1>2, <3>1, <3>2 DEF SemaphoreOK
  <2> QED
    BY <2>8, <2>10, <2>11, <2>12 DEF CallsKept
<1> QED
  BY <1>5, <1>6

(* A call gives up waiting; it leaves the queue.                           *)
LEMMA StepWaitTimeout ==
  ASSUME CallsInv, NEW c \in Calls, WaitTimeout(c)
  PROVE  CallsKept /\ \E d \in CallStates : /\ d.at \in {"idle", "next"}
                                            /\ dispatch' = [dispatch EXCEPT ![c] = d]
<1>1. PICK p, s : p = Provider(c) /\ s = slots[p]
  OBVIOUS
<1>2. /\ dispatch \in [Calls -> CallStates] /\ slots \in [Providers -> Semaphores]
      /\ ChainsOK /\ \A q \in Providers : SemaphoreOK(q)
      /\ dispatch[c].at = "wait" /\ dispatch[c] \in CallStates
  BY DEF CallsInv, ChainTypes, WaitTimeout, Waits
<1>3. dispatch[c].chain # <<>>
  BY <1>2 DEF ChainsOK
<1>4. p \in Providers /\ s \in Semaphores /\ SemaphoreOK(p) /\ Head(dispatch[c].chain) = p
  <2>1. dispatch[c].chain \in Seq(Providers)
    BY <1>2 DEF CallStates
  <2> QED
    BY <1>1, <1>2, <1>3, <2>1 DEF Provider
<1>5. PICK d : d = IF Overdue(c) THEN Unused ELSE NextTurn(c)
  OBVIOUS
<1>6. d \in CallStates /\ d.at \in {"idle", "next"}
  BY <1>3, <1>5, UnusedState, NextTurnState
<1>7. /\ dispatch' = [dispatch EXCEPT ![c] = d]
      /\ slots' = [slots EXCEPT ![p].waiters = RemoveFirst(@, c)]
  BY <1>1, <1>5 DEF WaitTimeout
<1>8. /\ dispatch' \in [Calls -> CallStates] /\ ChainsOK'
      /\ dispatch'[c] = d /\ \A b \in Calls \ {c} : dispatch'[b] = dispatch[b]
  BY <1>2, <1>6, <1>7 DEF ChainsOK
<1>9. /\ c \in Waiting(p) /\ \A q \in Providers : c \notin Users(q) /\ (c \in Waiting(q) => q = p)
      /\ \A q \in Providers : ~UsesSlot(d, q) /\ ~WaitsFor(d, q)
  BY <1>2, <1>4, <1>6 DEF Waiting, Users, UsesSlot, WaitsFor
<1>10. /\ RemoveFirst(s.waiters, c) \in Seq(Calls) /\ Distinct(RemoveFirst(s.waiters, c))
       /\ ToSet(RemoveFirst(s.waiters, c)) = Waiting(p) \ {c}
  <2>1. s.waiters \in Seq(Calls) /\ Distinct(s.waiters) /\ ToSet(s.waiters) = Waiting(p)
    BY <1>1, <1>4 DEF SemaphoreOK, Semaphores
  <2> QED
    BY <1>9, <2>1, LeftQueue
<1>11. /\ slots'[p].active = s.active /\ slots'[p].waiters = RemoveFirst(s.waiters, c)
       /\ slots' \in [Providers -> Semaphores]
  BY <1>1, <1>2, <1>4, <1>7, <1>10 DEF Semaphores
<1>12. SemaphoreOK(p)'
  <2>1. Users(p)' = Users(p) /\ Waiting(p)' = Waiting(p) \ {c}
    BY <1>4, <1>8, <1>9 DEF Users, Waiting
  <2>2. s.waiters # <<>>
    BY <1>1, <1>4, <1>9 DEF SemaphoreOK, ToSet
  <2> QED
    BY <1>1, <1>4, <1>10, <1>11, <2>1, <2>2 DEF SemaphoreOK
<1>13. ASSUME NEW q \in Providers \ {p} PROVE SemaphoreOK(q)'
  <2>1. Users(q)' = Users(q) /\ Waiting(q)' = Waiting(q)
    BY <1>8, <1>9 DEF Users, Waiting
  <2>2. slots'[q] = slots[q]
    BY <1>2, <1>7
  <2> QED
    BY <1>2, <2>1, <2>2 DEF SemaphoreOK
<1> QED
  BY <1>6, <1>7, <1>8, <1>11, <1>12, <1>13 DEF CallsKept

(* A call is done with its provider.                                       *)
LEMMA StepSlotBack ==
  ASSUME CallsInv, NEW c \in Calls, Busy(c), NEW d \in {Unused, NextTurn(c)}, GiveSlotBack(c, d)
  PROVE  CallsKept /\ \A b \in Calls : \/ dispatch'[b] = dispatch[b]
                                       \/ dispatch'[b] = [dispatch[b] EXCEPT !.at = "slot"]
                                       \/ b = c /\ dispatch'[b].at \in {"idle", "next"}
<1>1. dispatch[c].chain # <<>>
  BY DEF CallsInv, ChainsOK, Busy
<1>2. d \in CallStates /\ d.at \in {"idle", "next"}
  BY <1>1, UnusedState, NextTurnState
<1> QED
  BY <1>2, SlotLeft DEF CallsKept

LEMMA StepBusy ==
  ASSUME CallsInv, NEW c \in Calls,
         \/ Prepare(c) \/ IsCircuitOpen(c) \/ CallProvider(c)
         \/ PushFailure(c) \/ CountFailures(c) \/ OpenCircuit(c)
         \/ CloseCircuit(c) \/ ForgetFailures(c) \/ RedisFails(c)
  PROVE  CallsKept
<1>1. Busy(c)
  BY DEF Busy, Waits, Prepare, IsCircuitOpen, CallProvider, PushFailure, CountFailures, OpenCircuit,
         CloseCircuit, ForgetFailures, RedisFails
<1>2. ASSUME NEW x \in {"look", "call", "half open", "succeeded", "count", "open", "forget"},
             GoTo(c, x), slots' = slots
      PROVE  CallsKept
  BY <1>1, <1>2, BusyGoesTo DEF Phases
<1>3. ASSUME NEW d \in {Unused, NextTurn(c)}, GiveSlotBack(c, d) PROVE CallsKept
  BY <1>1, <1>3, StepSlotBack
<1>4. CASE dispatch' = [dispatch EXCEPT ![c].at = "failed", ![c].now = now] /\ slots' = slots
  <2>1. PICK d : d = [dispatch[c] EXCEPT !.at = "failed", !.now = now]
    OBVIOUS
  <2>2. dispatch \in [Calls -> CallStates] /\ dispatch[c] \in CallStates /\ now \in 0 .. MaxNow
    BY DEF CallsInv, ChainTypes
  <2>3. d \in CallStates /\ d.at = "failed" /\ d.chain = dispatch[c].chain
    BY <2>1, <2>2 DEF CallStates, Phases
  <2>4. dispatch' = [dispatch EXCEPT ![c] = d]
    BY <1>4, <2>1, <2>2 DEF CallStates
  <2> QED
    BY <1>1, <1>4, <2>3, <2>4, BusyOn
<1>5. CASE Prepare(c)
  BY <1>2, <1>3, <1>5 DEF Prepare
<1>6. CASE IsCircuitOpen(c)
  BY <1>2, <1>3, <1>6 DEF IsCircuitOpen
<1>7. CASE CallProvider(c)
  BY <1>2, <1>4, <1>7 DEF CallProvider
<1>8. CASE PushFailure(c)
  BY <1>2, <1>8 DEF PushFailure
<1>9. CASE CountFailures(c)
  BY <1>2, <1>3, <1>9 DEF CountFailures
<1>10. CASE OpenCircuit(c)
  BY <1>3, <1>10 DEF OpenCircuit
<1>11. CASE CloseCircuit(c)
  BY <1>2, <1>11 DEF CloseCircuit
<1>12. CASE ForgetFailures(c)
  BY <1>3, <1>12 DEF ForgetFailures
<1>13. CASE RedisFails(c)
  BY <1>3, <1>13 DEF RedisFails
<1> QED
  BY <1>5, <1>6, <1>7, <1>8, <1>9, <1>10, <1>11, <1>12, <1>13

LEMMA StepHalfOpen ==
  ASSUME CallsInv, NEW c \in Calls, HalfOpen(c)
  PROVE  CallsKept
<1>1. slots' = slots
  BY DEF HalfOpen
<1>2. CASE Waits(c, "half open") /\ GoTo(c, "call")
  BY <1>1, <1>2, BusyGoesTo DEF Waits, Busy, Phases
<1>3. CASE Waits(c, "build half open") /\ \E found \in BOOLEAN : Checked(c, found)
  BY <1>1, <1>3, StepChecked DEF Waits
<1> QED
  BY <1>2, <1>3 DEF HalfOpen

LEMMA StepRestart ==
  ASSUME dispatch' = [c \in Calls |-> Unused],
         slots' = [p \in Providers |-> [active |-> 0, waiters |-> <<>>]]
  PROVE  CallsKept
<1>1. dispatch' \in [Calls -> CallStates] /\ slots' \in [Providers -> Semaphores] /\ ChainsOK'
  BY UnusedState, FreshSemaphore DEF ChainsOK
<1>2. ASSUME NEW p \in Providers PROVE SemaphoreOK(p)'
  <2>1. Users(p)' = {} /\ Waiting(p)' = {}
    BY UnusedState DEF Users, Waiting, UsesSlot, WaitsFor
  <2>2. slots'[p].active = 0 /\ slots'[p].waiters = <<>>
    OBVIOUS
  <2> QED
    BY <2>1, <2>2, ChainSizes, FS_EmptySet DEF SemaphoreOK, Distinct, ToSet
<1> QED
  BY <1>1, <1>2 DEF CallsKept

(* The circuits keep their types.                                          *)
LEMMA CircuitTypes ==
  ASSUME CallsInv, [ChainNext]_chainVars
  PROVE  /\ openedAt' \in [Providers -> (0 .. MaxNow) \cup {Never}]
         /\ failures' \in [Providers -> Seq(0 .. MaxNow)]
         /\ failed' \in Seq([of : Providers, at : 0 .. MaxNow]) /\ now' \in 0 .. MaxNow
<1>1. /\ openedAt \in [Providers -> (0 .. MaxNow) \cup {Never}]
      /\ failures \in [Providers -> Seq(0 .. MaxNow)]
      /\ failed \in Seq([of : Providers, at : 0 .. MaxNow]) /\ now \in 0 .. MaxNow
  BY DEF CallsInv, ChainTypes
<1>2. ASSUME NEW c \in Calls, Busy(c)
      PROVE  Provider(c) \in Providers /\ dispatch[c].now \in 0 .. MaxNow
  <2>1. dispatch[c] \in CallStates /\ dispatch[c].chain # <<>>
    BY <1>2 DEF CallsInv, ChainTypes, ChainsOK, Busy
  <2>2. dispatch[c].chain \in Seq(Providers) /\ dispatch[c].now \in 0 .. MaxNow
    BY <2>1 DEF CallStates
  <2> QED
    BY <2>1, <2>2 DEF Provider
<1>3. ASSUME NEW c \in Calls, PushFailure(c)
      PROVE  /\ failures' \in [Providers -> Seq(0 .. MaxNow)]
             /\ failed' \in Seq([of : Providers, at : 0 .. MaxNow])
  <2>1. PICK p, t : p = Provider(c) /\ t = dispatch[c].now
    OBVIOUS
  <2>2. p \in Providers /\ t \in 0 .. MaxNow
    BY <1>2, <1>3, <2>1 DEF PushFailure, Waits, Busy
  <2>3. /\ failures' = [failures EXCEPT ![p] = Append(@, t)]
        /\ failed' = Append(failed, [of |-> p, at |-> t])
    BY <1>3, <2>1 DEF PushFailure
  <2>4. Append(failures[p], t) \in Seq(0 .. MaxNow)
    BY <1>1, <2>2, SequenceParts
  <2>5. [of |-> p, at |-> t] \in [of : Providers, at : 0 .. MaxNow]
    BY <2>2
  <2> QED
    BY <1>1, <2>3, <2>4, <2>5, SequenceParts
<1>4. ASSUME NEW c \in Calls, OpenCircuit(c) \/ CloseCircuit(c)
      PROVE  openedAt' \in [Providers -> (0 .. MaxNow) \cup {Never}]
  <2>1. Provider(c) \in Providers /\ dispatch[c].now \in 0 .. MaxNow
    BY <1>2, <1>4 DEF OpenCircuit, CloseCircuit, Waits, Busy
  <2> QED
    BY <1>1, <1>4, <2>1 DEF OpenCircuit, CloseCircuit
<1>5. ASSUME NEW c \in Calls, ForgetFailures(c) PROVE failures' \in [Providers -> Seq(0 .. MaxNow)]
  <2>1. <<>> \in Seq(0 .. MaxNow)
    OBVIOUS
  <2> QED
    BY <1>1, <1>5, <2>1 DEF ForgetFailures
<1>6. ASSUME NEW c \in Calls, HalfOpen(c)
      PROVE  openedAt' \in [Providers -> (0 .. MaxNow) \cup {Never}]
  BY <1>1, <1>6 DEF HalfOpen
<1>7. CASE ChainTick
  BY <1>1, <1>7, ChainSizes DEF ChainTick, circuits
<1>8. CASE RestartProcess
  BY <1>1, <1>8 DEF RestartProcess, circuits
<1>9. CASE UNCHANGED chainVars
  BY <1>1, <1>9 DEF chainVars
<1>10. ASSUME NEW c \in Calls,
              \/ BeginDispatch(c) \/ CheckAvailable(c) \/ GiveUp(c) \/ TakeSlot(c) \/ WaitTimeout(c)
              \/ Prepare(c) \/ IsCircuitOpen(c) \/ CallProvider(c) \/ CountFailures(c) \/ RedisFails(c)
       PROVE  UNCHANGED <<openedAt, failures, failed, now>>
  BY <1>10 DEF BeginDispatch, CheckAvailable, GiveUp, TakeSlot, WaitTimeout, Prepare, IsCircuitOpen,
               CallProvider, CountFailures, RedisFails, circuits
<1>11. ASSUME NEW c \in Calls, PushFailure(c) PROVE UNCHANGED <<openedAt, now>>
  BY <1>11 DEF PushFailure
<1>12. ASSUME NEW c \in Calls, OpenCircuit(c) \/ CloseCircuit(c) \/ HalfOpen(c)
       PROVE  UNCHANGED <<failures, failed, now>>
  BY <1>12 DEF OpenCircuit, CloseCircuit, HalfOpen
<1>13. ASSUME NEW c \in Calls, ForgetFailures(c) PROVE UNCHANGED <<openedAt, failed, now>>
  BY <1>13 DEF ForgetFailures
<1> QED
  BY <1>1, <1>3, <1>4, <1>5, <1>6, <1>7, <1>8, <1>9, <1>10, <1>11, <1>12, <1>13 DEF ChainNext

LEMMA CallsInvInit == ChainInit => CallsInv
<1> SUFFICES ASSUME ChainInit PROVE CallsInv
  OBVIOUS
<1>1. /\ dispatch \in [Calls -> CallStates] /\ slots \in [Providers -> Semaphores] /\ ChainsOK
  BY UnusedState, FreshSemaphore DEF ChainInit, ChainsOK
<1>2. ASSUME NEW p \in Providers PROVE SemaphoreOK(p)
  <2>1. Users(p) = {} /\ Waiting(p) = {}
    BY UnusedState DEF ChainInit, Users, Waiting, UsesSlot, WaitsFor
  <2>2. slots[p].active = 0 /\ slots[p].waiters = <<>>
    BY DEF ChainInit
  <2> QED
    BY <2>1, <2>2, ChainSizes, FS_EmptySet DEF SemaphoreOK, Distinct, ToSet
<1>3. /\ openedAt \in [Providers -> (0 .. MaxNow) \cup {Never}]
      /\ failures \in [Providers -> Seq(0 .. MaxNow)]
      /\ failed \in Seq([of : Providers, at : 0 .. MaxNow]) /\ now \in 0 .. MaxNow
  BY ChainSizes DEF ChainInit
<1> QED
  BY <1>1, <1>2, <1>3 DEF CallsInv, ChainTypes

LEMMA CallsInvStep == CallsInv /\ [ChainNext]_chainVars => CallsInv'
<1> SUFFICES ASSUME CallsInv, [ChainNext]_chainVars PROVE CallsInv'
  OBVIOUS
<1>1. CallsKept => CallsInv'
  BY CircuitTypes DEF CallsKept, CallsInv, ChainTypes
<1>2. ASSUME NEW c \in Calls,
             \/ BeginDispatch(c) \/ CheckAvailable(c) \/ GiveUp(c) \/ TakeSlot(c) \/ WaitTimeout(c)
             \/ HalfOpen(c)
      PROVE  CallsKept
  BY <1>2, StepBegin, StepCheckAvailable, StepGiveUp, StepTakeSlot, StepWaitTimeout, StepHalfOpen
<1>3. ASSUME RestartProcess PROVE CallsKept
  BY <1>3, StepRestart DEF RestartProcess
<1>4. ASSUME dispatch' = dispatch, slots' = slots PROVE CallsKept
  <2>1. \A p \in Providers : Users(p)' = Users(p) /\ Waiting(p)' = Waiting(p)
    BY <1>4 DEF Users, Waiting
  <2> QED
    BY <1>4, <2>1 DEF CallsKept, CallsInv, ChainTypes, ChainsOK, SemaphoreOK
<1> QED
  BY <1>1, <1>2, <1>3, <1>4, StepBusy DEF ChainNext, ChainTick, chainVars

LEMMA CallsInvAlways == ChainSpec => []CallsInv
  BY CallsInvInit, CallsInvStep, PTL DEF ChainSpec

(* Every variable of the model has its type, whatever calls do.            *)
THEOREM ChainTypesHold == ChainSpec => []ChainTypeOK
<1>1. CallsInv => ChainTypeOK
  <2> SUFFICES ASSUME CallsInv PROVE ChainTypeOK
    OBVIOUS
  <2>1. ChainTypes
    BY DEF CallsInv
  <2>2. ASSUME NEW c \in Calls
        PROVE  /\ dispatch[c].turn \in DOMAIN Chain /\ dispatch[c].chain \in Seq(Providers)
               /\ dispatch[c].started \in 0 .. MaxNow
    BY <2>1 DEF ChainTypes, CallStates
  <2>3. ASSUME NEW p \in Providers
        PROVE  slots[p].active \in Nat /\ slots[p].waiters \in Seq(Calls)
    BY <2>1 DEF ChainTypes, Semaphores
  <2> QED
    BY <2>1, <2>2, <2>3 DEF ChainTypes, ChainTypeOK
<1> QED
  BY <1>1, CallsInvAlways, PTL

(* The slots of a provider in use are those of the calls that use it, and  *)
(* its queue is the calls that wait for it, while there is no free slot.   *)
THEOREM SlotsAreThoseOfCallsHolds == ChainSpec => []SlotsAreThoseOfCalls
<1>1. CallsInv => SlotsAreThoseOfCalls
  <2> SUFFICES ASSUME CallsInv, NEW p \in Providers
               PROVE  /\ slots[p].active = Cardinality({c \in Calls : Busy(c) /\ Provider(c) = p})
                      /\ slots[p].active <= SlotLimit
                      /\ slots[p].waiters # <<>> => slots[p].active = SlotLimit
                      /\ ToSet(slots[p].waiters) = {c \in Calls : Waits(c, "wait") /\ Provider(c) = p}
                      /\ Cardinality(ToSet(slots[p].waiters)) = Len(slots[p].waiters)
    BY DEF SlotsAreThoseOfCalls
  <2>1. SemaphoreOK(p) /\ slots[p].waiters \in Seq(Calls)
    BY DEF CallsInv, ChainTypes, Semaphores
  <2>2. /\ Users(p) = {c \in Calls : Busy(c) /\ Provider(c) = p}
        /\ Waiting(p) = {c \in Calls : Waits(c, "wait") /\ Provider(c) = p}
    BY BusyUses DEF Users, Waiting
  <2>3. Cardinality(ToSet(slots[p].waiters)) = Len(slots[p].waiters)
    BY <2>1, QueueCount DEF SemaphoreOK
  <2> QED
    BY <2>1, <2>2, <2>3 DEF SemaphoreOK
<1> QED
  BY <1>1, CallsInvAlways, PTL

-----------------------------------------------------------------------------
(* The circuits.                                                           *)

LEMMA FailedTypes ==
  ASSUME CallsInv
  PROVE  /\ DOMAIN failed = 1 .. Len(failed) /\ Len(failed) \in Nat
         /\ \A i \in DOMAIN failed : failed[i].of \in Providers /\ failed[i].at \in Nat
<1>1. failed \in Seq([of : Providers, at : 0 .. MaxNow])
  BY DEF CallsInv, ChainTypes
<1>2. /\ DOMAIN failed = 1 .. Len(failed) /\ Len(failed) \in Nat
      /\ \A i \in DOMAIN failed : failed[i] \in [of : Providers, at : 0 .. MaxNow]
  BY <1>1, SequenceParts
<1> QED
  BY <1>2

LEMMA FailedFinite ==
  ASSUME CallsInv, NEW p, NEW t
  PROVE  IsFiniteSet(FailedSince(p, t)) /\ Cardinality(FailedSince(p, t)) \in Nat
<1>1. IsFiniteSet(1 .. Len(failed))
  BY FailedTypes, FS_Interval
<1>2. FailedSince(p, t) \subseteq 1 .. Len(failed)
  BY FailedTypes DEF FailedSince
<1> QED
  BY <1>1, <1>2, FS_Subset, FS_CardinalityType

(* What was enough stays enough: failures are only ever added.             *)
LEMMA EnoughStays ==
  ASSUME CallsInv, CallsInv', NEW p, NEW t, Enough(p, t),
         DOMAIN failed \subseteq DOMAIN failed', \A i \in DOMAIN failed : failed'[i] = failed[i]
  PROVE  Enough(p, t)'
<1>1. FailedSince(p, t) \subseteq FailedSince(p, t)'
  BY DEF FailedSince
<1>2. IsFiniteSet(FailedSince(p, t)') /\ Cardinality(FailedSince(p, t)') \in Nat
  <2>1. CallsInv => IsFiniteSet(FailedSince(p, t)) /\ Cardinality(FailedSince(p, t)) \in Nat
    BY FailedFinite
  <2>2. /\ DOMAIN failed' = 1 .. Len(failed') /\ Len(failed') \in Nat
    <3>1. failed' \in Seq([of : Providers, at : 0 .. MaxNow])
      BY DEF CallsInv, ChainTypes
    <3> QED
      BY <3>1, SequenceParts
  <2>3. IsFiniteSet(1 .. Len(failed'))
    BY <2>2, FS_Interval
  <2>4. FailedSince(p, t)' \subseteq 1 .. Len(failed')
    BY <2>2 DEF FailedSince
  <2> QED
    BY <2>3, <2>4, FS_Subset, FS_CardinalityType
<1>3. Cardinality(FailedSince(p, t)) <= Cardinality(FailedSince(p, t)')
  BY <1>1, <1>2, FS_Subset
<1>4. Cardinality(FailedSince(p, t)) \in Nat
  BY FailedFinite
<1> QED
  BY <1>2, <1>3, <1>4, ChainSizes DEF Enough

(* As many entries of a list count as there are failures since then.       *)
LEMMA CountedFailures ==
  ASSUME CallsInv, NEW p \in Providers, Recorded(p), NEW t \in Nat,
         Cardinality({i \in DOMAIN failures[p] : failures[p][i] + WindowMs >= t}) >= Threshold
  PROVE  Enough(p, t)
<1>1. PICK f \in [DOMAIN failures[p] -> DOMAIN failed] :
        /\ \A i, j \in DOMAIN failures[p] : f[i] = f[j] => i = j
        /\ \A i \in DOMAIN failures[p] : failed[f[i]] = [of |-> p, at |-> failures[p][i]]
  BY DEF Recorded
<1> DEFINE S == {i \in DOMAIN failures[p] : failures[p][i] + WindowMs >= t}
           g == [i \in S |-> f[i]]
<1>2. g \in Injection(S, FailedSince(p, t))
  <2>1. ASSUME NEW i \in S PROVE f[i] \in FailedSince(p, t)
    <3>1. i \in DOMAIN failures[p] /\ failures[p][i] + WindowMs >= t
      OBVIOUS
    <3>2. f[i] \in DOMAIN failed /\ failed[f[i]] = [of |-> p, at |-> failures[p][i]]
      BY <1>1, <3>1
    <3>3. failed[f[i]].of = p /\ failed[f[i]].at = failures[p][i]
      BY <3>2
    <3> QED
      BY <3>1, <3>2, <3>3 DEF FailedSince
  <2>2. g \in [S -> FailedSince(p, t)]
    BY <2>1
  <2>3. \A i, j \in S : g[i] = g[j] => i = j
    BY <1>1
  <2> HIDE DEF S, g
  <2> QED
    BY <2>2, <2>3 DEF Injection, IsInjective
<1>3. IsFiniteSet(FailedSince(p, t)) /\ Cardinality(FailedSince(p, t)) \in Nat
  BY FailedFinite
<1> HIDE DEF S, g
<1>5. IsFiniteSet(S) /\ Cardinality(S) <= Cardinality(FailedSince(p, t))
  BY <1>2, <1>3, FS_Injection
<1>6. Cardinality(S) \in Nat
  BY <1>5, FS_CardinalityType
<1>7. Cardinality(S) >= Threshold
  BY DEF S
<1> QED
  BY <1>3, <1>5, <1>6, <1>7, ChainSizes DEF Enough

(* A step that adds no failure and lets nobody come to the point where it  *)
(* opens a circuit.                                                        *)
LEMMA CircuitsQuiet ==
  ASSUME CallsInv, CallsInv', CircuitsInv, failed' = failed,
         \A p \in Providers : \/ failures'[p] = failures[p] \/ failures'[p] = <<>>,
         \A p \in Providers : \/ openedAt'[p] = openedAt[p] \/ openedAt'[p] = Never
                              \/ \E c \in Calls : /\ Waits(c, "open") /\ p = Provider(c)
                                                  /\ openedAt'[p] = dispatch[c].now,
         \A c \in Calls : dispatch'[c].at = "open" =>
             /\ dispatch'[c].chain = dispatch[c].chain /\ dispatch'[c].now = dispatch[c].now
             /\ Waits(c, "open") \/ Enough(Provider(c), dispatch[c].now)
  PROVE  CircuitsInv'
<1>1. \A p, t : Enough(p, t) => Enough(p, t)'
  BY DEF Enough, FailedSince
<1>2. ASSUME NEW p \in Providers PROVE Recorded(p)'
  <2>1. CASE failures'[p] = failures[p]
    BY <2>1 DEF CircuitsInv, Recorded
  <2>2. CASE failures'[p] = <<>>
    <3>1. DOMAIN failures'[p] = {}
      BY <2>2
    <3>2. [i \in {} |-> 0] \in [DOMAIN failures'[p] -> DOMAIN failed']
      BY <3>1
    <3> QED
      BY <3>1, <3>2 DEF Recorded
  <2> QED
    BY <2>1, <2>2
<1>3. ASSUME NEW p \in Providers, openedAt'[p] # Never PROVE Enough(p, openedAt[p])'
  <2>1. PICK t : t = openedAt'[p]
    OBVIOUS
  <2>2. Enough(p, t)
    BY <1>3, <2>1 DEF CircuitsInv
  <2>3. Enough(p, t)'
    BY <1>1, <2>2
  <2> QED
    BY <2>1, <2>3 DEF Enough, FailedSince
<1>4. ASSUME NEW c \in Calls, Waits(c, "open")'
      PROVE  Enough(Provider(c), dispatch[c].now)'
  <2>1. /\ Provider(c)' = Provider(c) /\ dispatch'[c].now = dispatch[c].now
        /\ Enough(Provider(c), dispatch[c].now)
    BY <1>4 DEF Waits, Provider, CircuitsInv
  <2>2. PICK p, t : p = Provider(c) /\ t = dispatch[c].now
    OBVIOUS
  <2>3. Enough(p, t)'
    BY <1>1, <2>1, <2>2
  <2>4. p = Provider(c)' /\ t = dispatch'[c].now
    BY <2>1, <2>2
  <2> QED
    BY <2>3, <2>4 DEF Enough, FailedSince
<1> QED
  BY <1>2, <1>3, <1>4 DEF CircuitsInv

(* A failure is recorded: in the history and on the list.                  *)
LEMMA StepPushFailure ==
  ASSUME CallsInv, CallsInv', CircuitsInv, NEW c \in Calls, PushFailure(c)
  PROVE  CircuitsInv'
<1>1. PICK p, t : p = Provider(c) /\ t = dispatch[c].now
  OBVIOUS
<1>2. /\ dispatch' = [dispatch EXCEPT ![c].at = "count"] /\ openedAt' = openedAt
      /\ failures' = [failures EXCEPT ![p] = Append(@, t)]
      /\ failed' = Append(failed, [of |-> p, at |-> t])
  BY <1>1 DEF PushFailure, GoTo
<1>3. /\ failed \in Seq([of : Providers, at : 0 .. MaxNow])
      /\ failures \in [Providers -> Seq(0 .. MaxNow)] /\ dispatch \in [Calls -> CallStates]
  BY DEF CallsInv, ChainTypes
<1>4. PICK n : n = Len(failed)
  OBVIOUS
<1>5. /\ n \in Nat /\ DOMAIN failed = 1 .. n /\ DOMAIN failed' = 1 .. n + 1
      /\ \A i \in 1 .. n : failed'[i] = failed[i]
      /\ failed'[n + 1] = [of |-> p, at |-> t]
  BY <1>2, <1>3, <1>4
<1>6. \A q, u : Enough(q, u) => Enough(q, u)'
  BY <1>5, EnoughStays
<1>7. ASSUME NEW q \in Providers PROVE Recorded(q)'
  <2>1. PICK f \in [DOMAIN failures[q] -> 1 .. n] :
          /\ \A i, j \in DOMAIN failures[q] : f[i] = f[j] => i = j
          /\ \A i \in DOMAIN failures[q] : failed[f[i]] = [of |-> q, at |-> failures[q][i]]
    BY <1>5 DEF CircuitsInv, Recorded
  <2>2. CASE q # p
    <3>1. failures'[q] = failures[q]
      BY <1>2, <1>3, <2>2
    <3>2. f \in [DOMAIN failures'[q] -> DOMAIN failed']
      BY <1>5, <3>1
    <3>3. \A i \in DOMAIN failures[q] : failed'[f[i]] = [of |-> q, at |-> failures[q][i]]
      BY <1>5, <2>1
    <3> QED
      BY <2>1, <3>1, <3>2, <3>3 DEF Recorded
  <2>3. CASE q = p
    <3>1. PICK s, m : s = failures[q] /\ m = Len(failures[q])
      OBVIOUS
    <3>2. s \in Seq(0 .. MaxNow) /\ failures'[q] = Append(s, t)
      BY <1>2, <1>3, <2>3, <3>1
    <3>3. /\ m \in Nat /\ DOMAIN s = 1 .. m /\ DOMAIN failures'[q] = 1 .. m + 1
          /\ \A i \in 1 .. m : failures'[q][i] = s[i]
          /\ failures'[q][m + 1] = t
      BY <3>1, <3>2
    <3>4. PICK g : g = [i \in 1 .. m + 1 |-> IF i = m + 1 THEN n + 1 ELSE f[i]]
      OBVIOUS
    <3>5. /\ \A i \in 1 .. m : g[i] = f[i] /\ f[i] \in 1 .. n
          /\ g[m + 1] = n + 1
      BY <2>1, <3>1, <3>3, <3>4
    <3>6. \A i \in 1 .. m + 1 : i \in 1 .. m \/ i = m + 1
      BY <3>3
    <3>7. g \in [1 .. m + 1 -> 1 .. n + 1]
      <4>1. \A i \in 1 .. m + 1 : g[i] \in 1 .. n + 1
        BY <1>5, <3>5, <3>6
      <4> QED
        BY <3>4, <4>1
    <3>8. ASSUME NEW i \in 1 .. m + 1, NEW j \in 1 .. m + 1, g[i] = g[j] PROVE i = j
      <4>1. CASE i \in 1 .. m /\ j \in 1 .. m
        BY <2>1, <3>1, <3>3, <3>5, <3>8, <4>1
      <4>2. CASE i = m + 1 /\ j \in 1 .. m
        BY <1>5, <3>5, <3>8, <4>2
      <4>3. CASE i \in 1 .. m /\ j = m + 1
        BY <1>5, <3>5, <3>8, <4>3
      <4> QED
        BY <3>6, <4>1, <4>2, <4>3
    <3>9. ASSUME NEW i \in 1 .. m + 1
          PROVE  failed'[g[i]] = [of |-> q, at |-> failures'[q][i]]
      <4>1. CASE i = m + 1
        <5>1. g[i] = n + 1 /\ failures'[q][i] = t
          BY <3>3, <3>5, <4>1
        <5> QED
          BY <1>5, <2>3, <5>1
      <4>2. CASE i \in 1 .. m
        <5>1. g[i] = f[i] /\ f[i] \in 1 .. n /\ failures'[q][i] = s[i] /\ s[i] = failures[q][i]
          BY <3>1, <3>3, <3>5, <4>2
        <5>2. failed[f[i]] = [of |-> q, at |-> failures[q][i]]
          BY <2>1, <3>1, <3>3, <4>2
        <5>3. failed'[f[i]] = failed[f[i]]
          BY <1>5, <5>1
        <5> QED
          BY <5>1, <5>2, <5>3
      <4> QED
        BY <3>6, <4>1, <4>2
    <3>10. g \in [DOMAIN failures'[q] -> DOMAIN failed']
      BY <1>5, <3>3, <3>7
    <3> QED
      BY <3>3, <3>8, <3>9, <3>10 DEF Recorded
  <2> QED
    BY <2>2, <2>3
<1>8. ASSUME NEW q \in Providers, openedAt'[q] # Never PROVE Enough(q, openedAt[q])'
  <2>1. PICK u : u = openedAt[q]
    OBVIOUS
  <2>2. Enough(q, u)'
    BY <1>2, <1>6, <1>8, <2>1 DEF CircuitsInv
  <2> QED
    BY <1>2, <2>1, <2>2 DEF Enough, FailedSince
<1>9. ASSUME NEW b \in Calls, Waits(b, "open")' PROVE Enough(Provider(b), dispatch[b].now)'
  <2>1. b # c /\ dispatch'[b] = dispatch[b]
    BY <1>2, <1>3, <1>9 DEF Waits, CallStates
  <2>2. PICK q, u : q = Provider(b) /\ u = dispatch[b].now
    OBVIOUS
  <2>3. Enough(q, u)'
    BY <1>6, <1>9, <2>1, <2>2 DEF CircuitsInv, Waits
  <2>4. q = Provider(b)' /\ u = dispatch'[b].now
    BY <2>1, <2>2 DEF Provider
  <2> QED
    BY <2>3, <2>4 DEF Enough, FailedSince
<1> QED
  BY <1>7, <1>8, <1>9 DEF CircuitsInv

(* How far a step of c can bring calls to the point where they open.       *)
LEMMA OpensAlone ==
  ASSUME CallsInv, NEW c \in Calls, NEW x \in Phases \ {"open"}, GoTo(c, x)
  PROVE  \A b \in Calls : dispatch'[b].at = "open" => dispatch'[b] = dispatch[b]
  BY DEF CallsInv, ChainTypes, GoTo, CallStates

LEMMA OpensAfterSlotBack ==
  ASSUME CallsInv, NEW c \in Calls, Busy(c), NEW d \in {Unused, NextTurn(c)}, GiveSlotBack(c, d)
  PROVE  \A b \in Calls : dispatch'[b].at = "open" => dispatch'[b] = dispatch[b]
<1>1. ASSUME NEW b \in Calls, dispatch'[b] = [dispatch[b] EXCEPT !.at = "slot"]
      PROVE  dispatch'[b].at = "slot"
  BY <1>1 DEF CallsInv, ChainTypes, CallStates
<1> QED
  BY <1>1, StepSlotBack

LEMMA CircuitsStep == CallsInv /\ CallsInv' /\ CircuitsInv /\ [ChainNext]_chainVars => CircuitsInv'
<1> SUFFICES ASSUME CallsInv, CallsInv', CircuitsInv, [ChainNext]_chainVars PROVE CircuitsInv'
  OBVIOUS
<1> DEFINE OpensKept == \A b \in Calls : dispatch'[b].at = "open" => dispatch'[b] = dispatch[b]
           ListsKept == failures' = failures /\ failed' = failed
<1>0. dispatch \in [Calls -> CallStates]
  BY DEF CallsInv, ChainTypes
<1>1. ASSUME OpensKept, UNCHANGED <<openedAt, failures, failed>> PROVE CircuitsInv'
  BY <1>1, CircuitsQuiet DEF Waits
<1>2. ASSUME NEW c \in Calls, NEW d \in {Unused, NextTurn(c)}, GiveSlotBack(c, d), Busy(c)
      PROVE  OpensKept
  BY <1>2, OpensAfterSlotBack
<1>3. ASSUME NEW c \in Calls, NEW x \in Phases \ {"open"}, GoTo(c, x) PROVE OpensKept
  BY <1>3, OpensAlone
<1>4. ASSUME NEW c \in Calls, NEW found \in BOOLEAN, Checked(c, found), slots' = slots,
             dispatch[c].at \in {"build", "build half open"}
      PROVE  OpensKept
  BY <1>4, StepChecked
<1>5. ASSUME NEW c \in Calls, NEW d \in CallStates, d.at # "open", dispatch' = [dispatch EXCEPT ![c] = d]
      PROVE  OpensKept
  BY <1>0, <1>5
<1> HIDE DEF OpensKept
<1>6. ASSUME NEW c \in Calls, BeginDispatch(c) PROVE CircuitsInv'
  <2>1. PICK d : d = [Unused EXCEPT !.at = "build", !.started = now]
    OBVIOUS
  <2>2. d \in CallStates /\ d.at = "build"
    <3>1. /\ now \in 0 .. MaxNow /\ 0 \in 0 .. MaxNow /\ 0 \in Nat /\ <<>> \in Seq(Providers)
          /\ 1 \in DOMAIN Chain /\ "build" \in Phases
      BY ChainSizes DEF CallsInv, ChainTypes, Phases
    <3> QED
      BY <2>1, <3>1 DEF Unused, CallStates
  <2>3. dispatch' = [dispatch EXCEPT ![c] = d] /\ UNCHANGED <<openedAt, failures, failed>>
    BY <1>6, <2>1 DEF BeginDispatch, circuits
  <2> QED
    BY <1>1, <1>5, <2>2, <2>3
<1>7. ASSUME NEW c \in Calls, CheckAvailable(c) PROVE CircuitsInv'
  <2>1. OpensKept
    <3>1. CASE \E found \in BOOLEAN : Checked(c, found)
      BY <1>4, <1>7, <3>1 DEF CheckAvailable, Waits
    <3>2. CASE GoTo(c, "build half open")
      BY <1>3, <3>2 DEF Phases
    <3> QED
      BY <1>7, <3>1, <3>2 DEF CheckAvailable
  <2> QED
    BY <1>1, <1>7, <2>1 DEF CheckAvailable, circuits
<1>8. ASSUME NEW c \in Calls, GiveUp(c) PROVE CircuitsInv'
  BY <1>1, <1>5, <1>8, UnusedState DEF GiveUp, circuits
<1>9. ASSUME NEW c \in Calls, TakeSlot(c) PROVE CircuitsInv'
  <2>1. ASSUME NEW u, dispatch' = [dispatch EXCEPT ![c].at = "wait", ![c].until = u] PROVE OpensKept
    BY <1>0, <2>1 DEF OpensKept, CallStates
  <2>2. OpensKept
    BY <1>3, <1>9, <2>1 DEF TakeSlot, Phases
  <2> QED
    BY <1>1, <1>9, <2>2 DEF TakeSlot, circuits
<1>10. ASSUME NEW c \in Calls, WaitTimeout(c) PROVE CircuitsInv'
  <2>1. OpensKept
    BY <1>5, <1>10, StepWaitTimeout
  <2> QED
    BY <1>1, <1>10, <2>1 DEF WaitTimeout, circuits
<1>11. ASSUME NEW c \in Calls, Prepare(c) PROVE CircuitsInv'
  <2>1. OpensKept
    BY <1>2, <1>3, <1>11 DEF Prepare, Waits, Busy, Phases
  <2> QED
    BY <1>1, <1>11, <2>1 DEF Prepare, circuits
<1>12. ASSUME NEW c \in Calls, IsCircuitOpen(c) PROVE CircuitsInv'
  <2>1. OpensKept
    BY <1>2, <1>3, <1>12 DEF IsCircuitOpen, Waits, Busy, Phases
  <2> QED
    BY <1>1, <1>12, <2>1 DEF IsCircuitOpen, circuits
<1>13. ASSUME NEW c \in Calls, HalfOpen(c) PROVE CircuitsInv'
  <2>1. OpensKept
    BY <1>3, <1>4, <1>13 DEF HalfOpen, Waits, Phases
  <2>2. /\ failures' = failures /\ failed' = failed
        /\ \A p \in Providers : openedAt'[p] = openedAt[p] \/ openedAt'[p] = Never
    <3>1. openedAt \in [Providers -> (0 .. MaxNow) \cup {Never}]
      BY DEF CallsInv, ChainTypes
    <3> QED
      BY <1>13, <3>1 DEF HalfOpen
  <2> QED
    BY <2>1, <2>2, CircuitsQuiet DEF OpensKept, Waits
<1>14. ASSUME NEW c \in Calls, CallProvider(c) PROVE CircuitsInv'
  <2>1. CASE GoTo(c, "succeeded")
    BY <1>1, <1>3, <1>14, <2>1 DEF CallProvider, Phases, circuits
  <2>2. CASE dispatch' = [dispatch EXCEPT ![c].at = "failed", ![c].now = now]
    <3>1. OpensKept
      BY <1>0, <2>2 DEF OpensKept, CallStates
    <3> QED
      BY <1>1, <1>14, <3>1 DEF CallProvider, circuits
  <2> QED
    BY <1>14, <2>1, <2>2 DEF CallProvider
<1>15. ASSUME NEW c \in Calls, PushFailure(c) PROVE CircuitsInv'
  BY <1>15, StepPushFailure
<1>16. ASSUME NEW c \in Calls, CountFailures(c) PROVE CircuitsInv'
  <2>1. UNCHANGED <<openedAt, failures, failed>> /\ Waits(c, "count") /\ Busy(c)
    BY <1>16 DEF CountFailures, circuits, Waits, Busy
  <2>2. CASE RecentFailures(c) >= Threshold /\ GoTo(c, "open")
    <3>1. PICK p, t : p = Provider(c) /\ t = dispatch[c].now
      OBVIOUS
    <3>2. p \in Providers /\ t \in Nat
      <4>1. dispatch[c] \in CallStates /\ dispatch[c].chain # <<>>
        BY <2>1 DEF CallsInv, ChainTypes, ChainsOK, Busy
      <4> QED
        BY <3>1, <4>1 DEF CallStates, Provider
    <3>3. Enough(p, t)
      <4>1. Recorded(p)
        BY <3>2 DEF CircuitsInv
      <4>2. Cardinality({i \in DOMAIN failures[p] : failures[p][i] + WindowMs >= t}) >= Threshold
        BY <2>2, <3>1 DEF RecentFailures, Recent
      <4> QED
        BY <3>2, <4>1, <4>2, CountedFailures
    <3>4. \A b \in Calls : \/ dispatch'[b] = dispatch[b]
                           \/ /\ b = c /\ dispatch'[c].chain = dispatch[c].chain
                              /\ dispatch'[c].now = dispatch[c].now
      BY <1>0, <2>2 DEF GoTo, CallStates
    <3> QED
      BY <2>1, <3>1, <3>3, <3>4, CircuitsQuiet DEF Waits
  <2>3. CASE GiveSlotBack(c, NextTurn(c))
    BY <1>1, <1>2, <2>1, <2>3
  <2> QED
    BY <1>16, <2>2, <2>3 DEF CountFailures
<1>17. ASSUME NEW c \in Calls, OpenCircuit(c) PROVE CircuitsInv'
  <2>1. OpensKept /\ Waits(c, "open")
    BY <1>2, <1>17 DEF OpenCircuit, Waits, Busy
  <2>2. openedAt \in [Providers -> (0 .. MaxNow) \cup {Never}]
    BY DEF CallsInv, ChainTypes
  <2>3. ASSUME NEW p \in Providers
        PROVE  openedAt'[p] = openedAt[p] \/ (p = Provider(c) /\ openedAt'[p] = dispatch[c].now)
    BY <1>17, <2>2 DEF OpenCircuit
  <2>4. failures' = failures /\ failed' = failed
    BY <1>17 DEF OpenCircuit
  <2> QED
    BY <2>1, <2>3, <2>4, CircuitsQuiet DEF OpensKept, Waits
<1>18. ASSUME NEW c \in Calls, CloseCircuit(c) PROVE CircuitsInv'
  <2>1. OpensKept
    BY <1>3, <1>18 DEF CloseCircuit, Phases
  <2>2. /\ failures' = failures /\ failed' = failed
        /\ \A p \in Providers : openedAt'[p] = openedAt[p] \/ openedAt'[p] = Never
    <3>1. openedAt \in [Providers -> (0 .. MaxNow) \cup {Never}]
      BY DEF CallsInv, ChainTypes
    <3> QED
      BY <1>18, <3>1 DEF CloseCircuit
  <2> QED
    BY <2>1, <2>2, CircuitsQuiet DEF OpensKept, Waits
<1>19. ASSUME NEW c \in Calls, ForgetFailures(c) PROVE CircuitsInv'
  <2>1. OpensKept
    BY <1>2, <1>19 DEF ForgetFailures, Waits, Busy
  <2>2. /\ openedAt' = openedAt /\ failed' = failed
        /\ \A p \in Providers : failures'[p] = failures[p] \/ failures'[p] = <<>>
    <3>1. failures \in [Providers -> Seq(0 .. MaxNow)]
      BY DEF CallsInv, ChainTypes
    <3> QED
      BY <1>19, <3>1 DEF ForgetFailures
  <2> QED
    BY <2>1, <2>2, CircuitsQuiet DEF OpensKept, Waits
<1>20. ASSUME NEW c \in Calls, RedisFails(c) PROVE CircuitsInv'
  <2>1. OpensKept
    BY <1>2, <1>20 DEF RedisFails, Busy
  <2> QED
    BY <1>1, <1>20, <2>1 DEF RedisFails, circuits
<1>21. CASE RestartProcess
  <2>1. OpensKept
    BY <1>21, UnusedState DEF RestartProcess, OpensKept
  <2> QED
    BY <1>1, <1>21, <2>1 DEF RestartProcess, circuits
<1>22. CASE dispatch' = dispatch /\ UNCHANGED <<openedAt, failures, failed>>
  BY <1>1, <1>22 DEF OpensKept
<1>23. CASE ChainTick \/ UNCHANGED chainVars
  BY <1>22, <1>23 DEF ChainTick, chainVars, circuits
<1> QED
  BY <1>6, <1>7, <1>8, <1>9, <1>10, <1>11, <1>12, <1>13, <1>14, <1>15, <1>16, <1>17, <1>18,
     <1>19, <1>20, <1>21, <1>23 DEF ChainNext

LEMMA CircuitsInit == CallsInv /\ ChainInit => CircuitsInv
<1> SUFFICES ASSUME CallsInv, ChainInit PROVE CircuitsInv
  OBVIOUS
<1>1. ASSUME NEW p \in Providers PROVE Recorded(p) /\ openedAt[p] = Never
  <2>1. failures[p] = <<>> /\ openedAt[p] = Never
    BY DEF ChainInit
  <2>2. DOMAIN failures[p] = {}
    BY <2>1
  <2>3. [i \in {} |-> 0] \in [DOMAIN failures[p] -> DOMAIN failed]
    BY <2>2
  <2> QED
    BY <2>1, <2>2, <2>3 DEF Recorded
<1>2. \A c \in Calls : ~Waits(c, "open")
  BY UnusedState DEF ChainInit, Waits
<1> QED
  BY <1>1, <1>2 DEF CircuitsInv

LEMMA CircuitsAlways == ChainSpec => []CircuitsInv
<1>1. ChainInit => CircuitsInv
  BY CallsInvInit, CircuitsInit
<1> QED
  BY <1>1, CircuitsStep, CallsInvAlways, PTL DEF ChainSpec

(* A provider is skipped only after it has failed as often as the          *)
(* threshold within the last window and open period.                       *)
THEOREM SkippedForFailuresHolds == ChainSpec => SkippedForFailures
<1> DEFINE Skipped(c) == Waits(c, "look") /\ dispatch'[c].at = "next"
           Since(c) == {i \in DOMAIN failed : /\ failed[i].of = Provider(c)
                                              /\ failed[i].at + WindowMs + OpenMs > now}
<1>1. ASSUME CallsInv, CircuitsInv, [ChainNext]_chainVars, NEW c \in Calls, Skipped(c)
      PROVE  Cardinality(Since(c)) >= Threshold
  <2>1. dispatch \in [Calls -> CallStates] /\ dispatch[c].at = "look"
    BY <1>1 DEF CallsInv, ChainTypes, Waits
  <2>2. PICK p, t : p = Provider(c) /\ t = openedAt[p]
    OBVIOUS
  <2>3. p \in Providers
    <3>1. dispatch[c] \in CallStates /\ dispatch[c].chain # <<>>
      BY <1>1, <2>1 DEF CallsInv, ChainTypes, ChainsOK
    <3> QED
      BY <2>2, <3>1 DEF CallStates, Provider
  <2>4. t # Never /\ now - t < OpenMs
    <3> SUFFICES ASSUME ~(t # Never /\ now - t < OpenMs) PROVE FALSE
      OBVIOUS
    <3>1. ASSUME NEW b \in Calls, NEW d \in {Unused, NextTurn(b)}, GiveSlotBack(b, d), Busy(b), b # c
          PROVE  FALSE
      <4>1. \/ dispatch'[c] = dispatch[c]
            \/ dispatch'[c] = [dispatch[c] EXCEPT !.at = "slot"]
        BY <1>1, <3>1, StepSlotBack
      <4>2. dispatch'[c].at # "next"
        BY <2>1, <4>1 DEF CallStates
      <4> QED
        BY <1>1, <4>2
    <3>2. ASSUME NEW b \in Calls, NEW d, dispatch' = [dispatch EXCEPT ![b] = d], b # c
          PROVE  FALSE
      BY <1>1, <2>1, <3>2
    <3>3. ASSUME dispatch'[c] = dispatch[c] PROVE FALSE
      BY <1>1, <2>1, <3>3
    <3>4. ASSUME NEW b \in Calls, NEW x, GoTo(b, x), b # c \/ x # "next" PROVE FALSE
      BY <1>1, <2>1, <3>4 DEF GoTo, CallStates
    <3>5. ASSUME NEW b \in Calls, NEW found \in BOOLEAN, Checked(b, found), slots' = slots,
                 dispatch[b].at \in {"build", "build half open"}
          PROVE  FALSE
      BY <1>1, <2>1, <3>3, <3>5, StepChecked
    <3>6. ASSUME NEW b \in Calls, BeginDispatch(b) PROVE FALSE
      BY <2>1, <3>2, <3>6 DEF BeginDispatch, Waits
    <3>7. ASSUME NEW b \in Calls, CheckAvailable(b) PROVE FALSE
      BY <3>4, <3>5, <3>7 DEF CheckAvailable, Waits
    <3>8. ASSUME NEW b \in Calls, GiveUp(b) PROVE FALSE
      BY <2>1, <3>2, <3>8 DEF GiveUp
    <3>9. ASSUME NEW b \in Calls, TakeSlot(b) PROVE FALSE
      <4>1. b # c
        BY <2>1, <3>9 DEF TakeSlot, Waits
      <4>2. ASSUME NEW u, dispatch' = [dispatch EXCEPT ![b].at = "wait", ![b].until = u] PROVE FALSE
        BY <2>1, <3>3, <4>1, <4>2
      <4> QED
        BY <3>4, <3>9, <4>2 DEF TakeSlot
    <3>10. ASSUME NEW b \in Calls, WaitTimeout(b) PROVE FALSE
      BY <2>1, <3>2, <3>10 DEF WaitTimeout, Waits
    <3>11. ASSUME NEW b \in Calls, Prepare(b) PROVE FALSE
      BY <2>1, <3>1, <3>4, <3>11 DEF Prepare, Waits, Busy
    <3>12. ASSUME NEW b \in Calls, IsCircuitOpen(b) PROVE FALSE
      <4>1. CASE b # c
        BY <3>1, <3>4, <3>12, <4>1 DEF IsCircuitOpen, Waits, Busy
      <4>2. CASE b = c
        <5>1. \/ GoTo(c, "call") \/ GoTo(c, "half open")
              \/ t # Never /\ now - t < OpenMs
          BY <2>2, <3>12, <4>2 DEF IsCircuitOpen
        <5> QED
          BY <3>4, <5>1
      <4> QED
        BY <4>1, <4>2
    <3>13. ASSUME NEW b \in Calls, HalfOpen(b) PROVE FALSE
      BY <3>4, <3>5, <3>13 DEF HalfOpen, Waits
    <3>14. ASSUME NEW b \in Calls, CallProvider(b) PROVE FALSE
      <4>1. b # c
        BY <2>1, <3>14 DEF CallProvider, Waits
      <4>2. CASE dispatch' = [dispatch EXCEPT ![b].at = "failed", ![b].now = now]
        BY <2>1, <3>3, <4>1, <4>2
      <4> QED
        BY <3>4, <3>14, <4>2 DEF CallProvider
    <3>15. ASSUME NEW b \in Calls, PushFailure(b) \/ CloseCircuit(b) PROVE FALSE
      BY <3>4, <3>15 DEF PushFailure, CloseCircuit
    <3>16. ASSUME NEW b \in Calls,
                  CountFailures(b) \/ OpenCircuit(b) \/ ForgetFailures(b) \/ RedisFails(b)
           PROVE  FALSE
      <4>1. b # c /\ Busy(b)
        BY <2>1, <3>16 DEF CountFailures, OpenCircuit, ForgetFailures, RedisFails, Waits, Busy
      <4> QED
        BY <3>1, <3>4, <3>16, <4>1 DEF CountFailures, OpenCircuit, ForgetFailures, RedisFails
    <3>17. CASE RestartProcess
      BY <1>1, <3>17, UnusedState DEF RestartProcess
    <3>18. CASE ChainTick \/ UNCHANGED chainVars
      BY <3>3, <3>18 DEF ChainTick, chainVars
    <3> QED
      BY <1>1, <3>6, <3>7, <3>8, <3>9, <3>10, <3>11, <3>12, <3>13, <3>14, <3>15, <3>16, <3>17,
         <3>18 DEF ChainNext
  <2>5. Enough(p, t) /\ t \in Nat /\ now \in Nat
    BY <1>1, <2>2, <2>3, <2>4 DEF CircuitsInv, CallsInv, ChainTypes
  <2>6. FailedSince(p, t) \subseteq Since(c)
    <3>1. ASSUME NEW i \in FailedSince(p, t) PROVE i \in Since(c)
      <4>1. PICK u : u = failed[i].at
        OBVIOUS
      <4>2. i \in DOMAIN failed /\ failed[i].of = p /\ u \in Nat /\ u + WindowMs >= t
        BY <1>1, <4>1, FailedTypes DEF FailedSince
      <4>3. u + WindowMs + OpenMs > now
        BY <2>4, <2>5, <4>2, ChainSizes
      <4> QED
        BY <2>2, <4>1, <4>2, <4>3
    <3> QED
      BY <3>1
  <2>7. IsFiniteSet(Since(c)) /\ Cardinality(Since(c)) \in Nat
    <3>1. IsFiniteSet(1 .. Len(failed)) /\ Since(c) \subseteq 1 .. Len(failed)
      BY <1>1, FailedTypes, FS_Interval
    <3> QED
      BY <3>1, FS_Subset, FS_CardinalityType
  <2> HIDE DEF Since
  <2>8. Cardinality(FailedSince(p, t)) <= Cardinality(Since(c))
    BY <2>6, <2>7, FS_Subset
  <2>9. Cardinality(FailedSince(p, t)) \in Nat
    BY <1>1, FailedFinite
  <2> QED
    BY <2>5, <2>7, <2>8, <2>9, ChainSizes DEF Enough
<1>2. CallsInv /\ CircuitsInv /\ [ChainNext]_chainVars =>
        [\A c \in Calls : Waits(c, "look") /\ dispatch'[c].at = "next" =>
           Cardinality({i \in DOMAIN failed : /\ failed[i].of = Provider(c)
                                              /\ failed[i].at + WindowMs + OpenMs > now}) >= Threshold]_chainVars
  BY <1>1
<1> QED
  BY <1>2, CallsInvAlways, CircuitsAlways, PTL DEF ChainSpec, SkippedForFailures

=============================================================================
