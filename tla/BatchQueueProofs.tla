--------------------------- MODULE BatchQueueProofs ---------------------------
(***************************************************************************)
(* No accepted job of the batch_remember queue is lost, and none is given  *)
(* up too early: for any processes and jobs, retries, deaths and failures  *)
(* of Redis.                                                               *)
(***************************************************************************)
EXTENDS BatchQueue, WellFoundedInduction, NaturalsInduction, TLAPS

-----------------------------------------------------------------------------
(* The argument.                                                           *)

(* The raws that are known: on a list, or in the hands of a worker.        *)
Listed == ToSet(queue) \cup ToSet(processing)
InHand == {Raw(p) : p \in Processes} \ {NoRaw}

(* A raw carries the time of its push: the next one is different.          *)
PushedBefore == \A raw \in Listed \cup InHand : raw.queuedAt < pushes

(* A worker that is busy has a raw, one that is idle has none; what is     *)
(* reported as completed has been run to its end.                          *)
HandsOK ==
  \A p \in Processes : /\ worker[p].at \in {"off", "starting", "idle"} <=> Raw(p) = NoRaw
                       /\ At(p, "returned") => Raw(p).job \in Concluded

(* p will remove its raw from the list.  A job is covered by what is in    *)
(* the database, or by a raw that nobody is going to remove: another one   *)
(* than that of a worker that has disposed of the job.                     *)
Releasing(p) == At(p, "acking") \/ (At(p, "reporting") /\ worker[p].safeToAck)
Kept(raw)    == \A p \in Processes : Raw(p) = raw => ~Releasing(p)
Covered(j)   == j \in Concluded \/ \E raw \in Listed : raw.job = j /\ Kept(raw)
Promised(j)  == request[j].at \in {"pushed", "accepted", "dropped"}
CoveredOK    == \A j \in Jobs : Promised(j) => Covered(j)

LossInv == TypeOK /\ PushedBefore /\ HandsOK /\ CoveredOK

(* Every retry a raw has behind it was a failed run.                       *)
RetriesOK == \A raw \in Listed \cup InHand : raw.retry <= failures[raw.job]
FailedOK  == \A p \in Processes : At(p, "failed") => Raw(p).retry < failures[Raw(p).job]

TriesInv == RetriesOK /\ FailedOK /\ DeadMeansExhausted

BatchInv == LossInv /\ TriesInv

WorkerStates == [at : Phases, raw : Raws \cup {NoRaw}, safeToAck : BOOLEAN, moved : 0..MaxMoves]
Releases(w)  == w.at = "acking" \/ (w.at = "reporting" /\ w.safeToAck)

-----------------------------------------------------------------------------
(* Lists.                                                                  *)

LEMMA LeastIndex ==
  ASSUME NEW n \in Nat, NEW I \in SUBSET (1 .. n), I # {}
  PROVE  Min(I) \in I
<1> DEFINE R == {ss \in Nat \X Nat : ss[1] < ss[2]}
<1>1. IsWellFoundedOn(R, Nat)
  BY NatLessThanWellFounded DEF OpToRel
<1>2. I \subseteq Nat
  OBVIOUS
<1>3. PICK i \in I : \A k \in I : ~ (<<k, i>> \in R)
  <2> HIDE DEF R
  <2> QED
    BY <1>1, <1>2, WFMin
<1>4. \A k \in I : i <= k
  <2>1. ASSUME NEW k \in I PROVE i <= k
    <3>1. i \in Nat /\ k \in Nat
      BY <1>2
    <3>2. ~(<<k, i>> \in R)
      BY <1>3
    <3>3. ~(k < i)
      BY <3>1, <3>2
    <3> QED
      BY <3>1, <3>3
  <2> QED
    BY <2>1
<1> QED
  BY <1>4 DEF Min

(* A list without one of its elements.                                     *)
LEMMA RemovedAt ==
  ASSUME NEW S, NEW s \in Seq(S), NEW i \in 1 .. Len(s)
  PROVE  /\ RemoveAt(s, i) \in Seq(S)
         /\ ToSet(RemoveAt(s, i)) \subseteq ToSet(s)
         /\ ToSet(s) \ {s[i]} \subseteq ToSet(RemoveAt(s, i))
<1>1. PICK a, b : a = SubSeq(s, 1, i - 1) /\ b = SubSeq(s, i + 1, Len(s))
  OBVIOUS
<1>2. /\ a \in Seq(S) /\ Len(a) = i - 1
      /\ \A j \in 1 .. i - 1 : a[j] = s[j]
  BY <1>1
<1>3. /\ b \in Seq(S) /\ Len(b) = Len(s) - i
      /\ \A j \in 1 .. Len(s) - i : b[j] = s[i + j]
  BY <1>1
<1>4. RemoveAt(s, i) = a \o b
  BY <1>1 DEF RemoveAt
<1>5. a \in Seq(S) /\ b \in Seq(S)
  BY <1>2, <1>3
<1>6. PICK c : c = a \o b
  OBVIOUS
<1>7. /\ c \in Seq(S) /\ DOMAIN c = 1 .. Len(a) + Len(b)
      /\ \A j \in 1 .. Len(a) : c[j] = a[j]
      /\ \A j \in 1 .. Len(b) : c[Len(a) + j] = b[j]
  BY <1>5, <1>6
<1>8. Len(a) = i - 1 /\ Len(b) = Len(s) - i /\ Len(s) \in Nat /\ DOMAIN s = 1 .. Len(s)
  BY <1>2, <1>3
<1>9. ASSUME NEW k \in 1 .. Len(s), k # i PROVE s[k] \in ToSet(c)
  <2>1. CASE k < i
    <3>1. k \in 1 .. i - 1
      BY <2>1
    <3>2. c[k] = s[k] /\ k \in DOMAIN c
      BY <1>2, <1>7, <1>8, <3>1
    <3> QED
      BY <3>2 DEF ToSet
  <2>2. CASE k > i
    <3>1. k - i \in 1 .. Len(s) - i /\ i + (k - i) = k
      BY <2>2
    <3>2. b[k - i] = s[k]
      BY <1>3, <3>1
    <3>3. Len(a) + (k - i) \in DOMAIN c /\ c[Len(a) + (k - i)] = b[k - i]
      BY <1>7, <1>8, <3>1
    <3> QED
      BY <3>2, <3>3 DEF ToSet
  <2> QED
    BY <1>9, <2>1, <2>2
<1>10. ASSUME NEW j \in DOMAIN c PROVE c[j] \in ToSet(s)
  <2>1. CASE j \in 1 .. Len(a)
    <3>1. c[j] = s[j] /\ j \in DOMAIN s
      BY <1>2, <1>7, <1>8, <2>1
    <3> QED
      BY <3>1 DEF ToSet
  <2>2. CASE j \notin 1 .. Len(a)
    <3>1. j - Len(a) \in 1 .. Len(b) /\ Len(a) + (j - Len(a)) = j
      BY <1>7, <1>8, <2>2
    <3>2. c[j] = b[j - Len(a)]
      BY <1>7, <3>1
    <3>3. b[j - Len(a)] = s[i + (j - Len(a))]
      BY <1>3, <1>8, <3>1
    <3>4. i + (j - Len(a)) \in DOMAIN s
      BY <1>8, <3>1
    <3> QED
      BY <3>2, <3>3, <3>4 DEF ToSet
  <2> QED
    BY <2>1, <2>2
<1>11. ToSet(c) \subseteq ToSet(s)
  BY <1>10 DEF ToSet
<1>12. ToSet(s) \ {s[i]} \subseteq ToSet(c)
  <2>1. ASSUME NEW x \in ToSet(s) \ {s[i]} PROVE x \in ToSet(c)
    <3>1. PICK k \in 1 .. Len(s) : x = s[k]
      BY <1>8, <2>1 DEF ToSet
    <3> QED
      BY <1>9, <2>1, <3>1
  <2> QED
    BY <2>1
<1> QED
  BY <1>4, <1>6, <1>7, <1>11, <1>12

(* LREM removes what it is asked to remove, and nothing else.              *)
LEMMA RemovedFirst ==
  ASSUME NEW S, NEW s \in Seq(S), NEW e
  PROVE  /\ RemoveFirst(s, e) \in Seq(S)
         /\ ToSet(RemoveFirst(s, e)) \subseteq ToSet(s)
         /\ ToSet(s) \ {e} \subseteq ToSet(RemoveFirst(s, e))
<1>1. CASE \E i \in 1 .. Len(s) : s[i] = e
  <2>1. PICK I : I = {i \in 1 .. Len(s) : s[i] = e}
    OBVIOUS
  <2>2. Min(I) \in I
    <3>1. Len(s) \in Nat /\ I \in SUBSET (1 .. Len(s)) /\ I # {}
      BY <1>1, <2>1
    <3> QED
      BY <3>1, LeastIndex
  <2>3. SelectInSeq(s, LAMBDA v : v = e) = Min(I)
    BY <1>1, <2>1 DEF SelectInSeq
  <2>4. PICK i \in 1 .. Len(s) : i = Min(I) /\ s[i] = e
    BY <2>1, <2>2
  <2>5. RemoveFirst(s, e) = RemoveAt(s, i)
    BY <1>1, <2>3, <2>4 DEF RemoveFirst
  <2> QED
    BY <2>4, <2>5, RemovedAt
<1>2. CASE ~ \E i \in 1 .. Len(s) : s[i] = e
  BY <1>2 DEF RemoveFirst
<1> QED
  BY <1>1, <1>2

(* RPOP takes the last one, LPUSH puts one in front.                       *)
LEMMA Popped ==
  ASSUME NEW S, NEW s \in Seq(S), s # <<>>
  PROVE  Front(s) \in Seq(S) /\ Last(s) \in S /\ ToSet(s) = ToSet(Front(s)) \cup {Last(s)}
<1>1. Len(s) \in Nat \ {0} /\ DOMAIN s = 1 .. Len(s) /\ \A i \in 1 .. Len(s) : s[i] \in S
  OBVIOUS
<1>2. PICK m : m = Len(s) - 1
  OBVIOUS
<1>3. m \in Nat /\ m <= Len(s) /\ \A i \in 1 .. m : s[i] \in S
  BY <1>1, <1>2
<1>4. PICK f : f = SubSeq(s, 1, m)
  OBVIOUS
<1>5. f \in Seq(S) /\ DOMAIN f = 1 .. m /\ \A i \in 1 .. m : f[i] = s[i]
  BY <1>1, <1>3, <1>4
<1>6. Front(s) = f /\ Last(s) = s[Len(s)] /\ Len(s) \in DOMAIN s
  BY <1>1, <1>2, <1>4 DEF Front, Last
<1>7. \A i \in 1 .. Len(s) : i \in 1 .. m \/ i = Len(s)
  <2> SUFFICES ASSUME NEW n \in Nat, n = Len(s), NEW i \in 1 .. n, i # n PROVE i \in 1 .. n - 1
    BY <1>1, <1>2
  <2> QED
    OBVIOUS
<1>8. ToSet(s) = ToSet(f) \cup {s[Len(s)]}
  <2>1. ASSUME NEW x \in ToSet(s) PROVE x \in ToSet(f) \cup {s[Len(s)]}
    <3>1. PICK i \in 1 .. Len(s) : x = s[i]
      BY <1>1, <2>1 DEF ToSet
    <3> QED
      BY <1>5, <1>7, <3>1 DEF ToSet
  <2>2. ASSUME NEW x \in ToSet(f) PROVE x \in ToSet(s)
    <3>1. PICK i \in 1 .. m : x = s[i]
      BY <1>5, <2>2 DEF ToSet
    <3>2. i \in DOMAIN s
      BY <1>1, <1>3, <3>1
    <3> QED
      BY <3>1, <3>2 DEF ToSet
  <2>3. s[Len(s)] \in ToSet(s)
    BY <1>6 DEF ToSet
  <2> QED
    BY <2>1, <2>2, <2>3
<1> QED
  BY <1>1, <1>5, <1>6, <1>8

LEMMA PutInFront ==
  ASSUME NEW S, NEW s \in Seq(S), NEW e \in S
  PROVE  LPush(s, e) \in Seq(S) /\ ToSet(LPush(s, e)) = ToSet(s) \cup {e}
<1>1. PICK a, c : a = <<e>> /\ c = a \o s
  OBVIOUS
<1>2. a \in Seq(S) /\ Len(a) = 1 /\ a[1] = e
  BY <1>1
<1>3. /\ c \in Seq(S) /\ DOMAIN c = 1 .. 1 + Len(s) /\ c[1] = e
      /\ \A j \in 1 .. Len(s) : c[1 + j] = s[j]
  <2>1. a \in Seq(S) /\ s \in Seq(S)
    BY <1>2
  <2> QED
    BY <1>1, <1>2, <2>1
<1>4. Len(s) \in Nat /\ DOMAIN s = 1 .. Len(s)
  OBVIOUS
<1>5. ToSet(c) = ToSet(s) \cup {e}
  <2>1. ASSUME NEW x \in ToSet(c) PROVE x \in ToSet(s) \cup {e}
    <3>1. PICK j \in 1 .. 1 + Len(s) : x = c[j]
      BY <1>3, <2>1 DEF ToSet
    <3>2. j = 1 \/ (j - 1 \in 1 .. Len(s) /\ 1 + (j - 1) = j)
      BY <1>4, <3>1
    <3> QED
      BY <1>3, <1>4, <3>1, <3>2 DEF ToSet
  <2>2. ASSUME NEW x \in ToSet(s) PROVE x \in ToSet(c)
    <3>1. PICK j \in 1 .. Len(s) : x = s[j]
      BY <1>4, <2>2 DEF ToSet
    <3>2. 1 + j \in DOMAIN c
      BY <1>3, <1>4, <3>1
    <3> QED
      BY <1>3, <3>1, <3>2 DEF ToSet
  <2>3. 1 \in DOMAIN c
    BY <1>3, <1>4
  <2> QED
    BY <1>3, <2>1, <2>2, <2>3 DEF ToSet
<1> QED
  BY <1>1, <1>3, <1>5 DEF LPush, Cons

LEMMA Elements ==
  ASSUME NEW S, NEW s \in Seq(S)
  PROVE  ToSet(s) \subseteq S
  BY DEF ToSet

-----------------------------------------------------------------------------
(* What the steps have in common.                                          *)

LEMMA Numbers == /\ RetryLimit \in Nat /\ MaxMoves \in Nat /\ MaxDowns \in Nat /\ MaxFaults \in Nat
                 /\ NoRaw \notin Raws
  BY LimitAssumption, SentinelAssumption

LEMMA TypesOf ==
  ASSUME BatchInv
  PROVE  /\ queue \in Seq(Raws) /\ processing \in Seq(Raws) /\ pushes \in Nat
         /\ dead \subseteq Jobs /\ stored \subseteq Jobs /\ turnedAway \subseteq Jobs
         /\ worker \in [Processes -> WorkerStates]
         /\ failures \in [Jobs -> 0..RetryLimit + 1]
         /\ faults \in 0..MaxFaults /\ downs \in 0..MaxDowns
         /\ Listed \subseteq Raws /\ InHand \subseteq Raws
<1>1. TypeOK
  BY DEF BatchInv, LossInv
<1>2. worker \in [Processes -> WorkerStates]
  BY <1>1 DEF TypeOK, WorkerStates
<1>3. InHand \subseteq Raws
  BY <1>2 DEF InHand, Raw, WorkerStates
<1>4. Listed \subseteq Raws
  BY <1>1, Elements DEF TypeOK, Listed
<1> QED
  BY <1>1, <1>2, <1>3, <1>4 DEF TypeOK

(* A worker that is busy has a raw.                                        *)
LEMMA BusyHasRaw ==
  ASSUME BatchInv, NEW p \in Processes, worker[p].at \notin {"off", "starting", "idle"}
  PROVE  /\ Raw(p) \in Raws /\ Raw(p) \in InHand
         /\ Raw(p).job \in Jobs /\ Raw(p).retry \in 0..RetryLimit /\ Raw(p).queuedAt \in Nat
<1>1. Raw(p) # NoRaw
  BY DEF BatchInv, LossInv, HandsOK
<1>2. Raw(p) \in InHand
  BY <1>1 DEF InHand
<1>3. Raw(p) \in Raws
  BY <1>2, TypesOf
<1> QED
  BY <1>2, <1>3 DEF Raws

LEMMA AnotherWorker ==
  ASSUME BatchInv, NEW p \in Processes, NEW w \in WorkerStates,
         worker' = [worker EXCEPT ![p] = w]
  PROVE  /\ worker' \in [Processes -> WorkerStates]
         /\ worker'[p] = w /\ \A q \in Processes \ {p} : worker'[q] = worker[q]
         /\ InHand' \subseteq InHand \cup ({w.raw} \ {NoRaw})
<1>1. /\ worker' \in [Processes -> WorkerStates]
      /\ worker'[p] = w /\ \A q \in Processes \ {p} : worker'[q] = worker[q]
  BY TypesOf
<1>2. InHand' \subseteq InHand \cup ({w.raw} \ {NoRaw})
  BY <1>1 DEF InHand, Raw
<1> QED
  BY <1>1, <1>2

(* Nobody is going to remove the raw, if the one whose step it is is not.  *)
LEMMA KeptStays ==
  ASSUME BatchInv, NEW p \in Processes, NEW w \in WorkerStates,
         worker' = [worker EXCEPT ![p] = w], NEW raw, Kept(raw), w.raw = raw => ~Releases(w)
  PROVE  Kept(raw)'
<1>1. worker'[p] = w /\ \A q \in Processes \ {p} : worker'[q] = worker[q]
  BY AnotherWorker
<1> QED
  BY <1>1 DEF Kept, Raw, Releasing, Releases, At

LEMMA CoverStays ==
  ASSUME CoveredOK, stored \subseteq stored', turnedAway \subseteq turnedAway', dead \subseteq dead',
         \A raw \in Listed : Kept(raw) /\ raw.job \notin Concluded'
                               => \E r \in Listed' : r.job = raw.job /\ Kept(r)',
         \A j \in Jobs : Promised(j)' => Promised(j)
  PROVE  CoveredOK'
<1> SUFFICES ASSUME NEW j \in Jobs, Promised(j)', j \notin Concluded'
             PROVE  \E r \in Listed' : r.job = j /\ Kept(r)'
  BY DEF CoveredOK, Covered
<1>1. PICK raw \in Listed : raw.job = j /\ Kept(raw)
  BY DEF CoveredOK, Covered, Concluded
<1> QED
  BY <1>1

LEMMA TryCounts ==
  ASSUME BatchInv, NEW o \in Outcomes, Try(o)
  PROVE  faults' \in 0..MaxFaults
  BY TypesOf, Numbers DEF Try

LEMMA StatusTypes ==
  ASSUME BatchInv, NEW o \in Outcomes, NEW j \in Jobs, NEW s \in States, SetBatchJobStatus(o, j, s)
  PROVE  state' \in [Jobs -> States] /\ faults' \in 0..MaxFaults
<1>1. state \in [Jobs -> States]
  BY DEF BatchInv, LossInv, TypeOK
<1> QED
  BY <1>1, TryCounts DEF SetBatchJobStatus

(* A worker goes on with the raw it has.                                   *)
LEMMA SameRaw ==
  ASSUME BatchInv, NEW p \in Processes, NEW w \in WorkerStates,
         worker' = [worker EXCEPT ![p] = w], w.raw = Raw(p), Raw(p) # NoRaw,
         w.at \notin {"off", "starting", "idle"},
         UNCHANGED <<queue, processing, pushes, request, dead>>,
         stored \subseteq stored', stored' \subseteq Jobs, state' \in [Jobs -> States],
         turnedAway \subseteq turnedAway', turnedAway' \subseteq Jobs,
         failures' \in [Jobs -> 0..RetryLimit + 1], \A j \in Jobs : failures[j] <= failures'[j],
         faults' \in 0..MaxFaults, downs' \in 0..MaxDowns,
         w.at = "returned" => w.raw.job \in Concluded',
         w.at = "failed" => w.raw.retry < failures'[w.raw.job],
         Releases(w) => Releasing(p) \/ w.raw.job \in Concluded'
  PROVE  BatchInv'
<1>1. TypeOK /\ PushedBefore /\ HandsOK /\ CoveredOK /\ RetriesOK /\ FailedOK /\ DeadMeansExhausted
  BY DEF BatchInv, LossInv, TriesInv
<1>2. /\ worker' \in [Processes -> WorkerStates]
      /\ worker'[p] = w /\ \A q \in Processes \ {p} : worker'[q] = worker[q]
      /\ InHand' \subseteq InHand
  <2>1. Raw(p) \in InHand
    BY DEF InHand
  <2>2. /\ worker' \in [Processes -> WorkerStates]
        /\ worker'[p] = w /\ \A q \in Processes \ {p} : worker'[q] = worker[q]
        /\ InHand' \subseteq InHand \cup ({w.raw} \ {NoRaw})
    BY AnotherWorker
  <2> QED
    BY <2>1, <2>2
<1>3. Listed' = Listed /\ Listed \subseteq Raws /\ InHand \subseteq Raws
  BY TypesOf DEF Listed
<1>4. TypeOK'
  BY <1>1, <1>2 DEF TypeOK, WorkerStates
<1>5. PushedBefore'
  BY <1>1, <1>2, <1>3 DEF PushedBefore
<1>6. HandsOK'
  <2>1. Concluded \subseteq Concluded'
    BY DEF Concluded
  <2> QED
    BY <1>1, <1>2, <2>1 DEF HandsOK, Raw, At
<1>7. CoveredOK'
  <2>1. ASSUME NEW raw \in Listed, Kept(raw), raw.job \notin Concluded' PROVE Kept(raw)'
    <3>1. w.raw = raw => ~Releases(w)
      BY <2>1 DEF Kept
    <3> QED
      BY <2>1, <3>1, KeptStays
  <2>2. \A j \in Jobs : Promised(j)' => Promised(j)
    BY DEF Promised
  <2> QED
    BY <1>1, <1>3, <2>1, <2>2, CoverStays
<1>8. RetriesOK'
  <2>1. ASSUME NEW raw \in Listed \cup InHand PROVE raw.retry <= failures'[raw.job]
    <3>1. raw.retry <= failures[raw.job] /\ raw \in Raws
      BY <1>1, <1>3 DEF RetriesOK
    <3>2. raw.job \in Jobs /\ raw.retry \in Nat
      BY <3>1 DEF Raws
    <3>3. failures[raw.job] \in Nat /\ failures'[raw.job] \in Nat /\ failures[raw.job] <= failures'[raw.job]
      BY <3>2, TypesOf
    <3> QED
      BY <3>1, <3>2, <3>3
  <2> QED
    BY <1>2, <1>3, <2>1 DEF RetriesOK
<1>9. FailedOK'
  <2>1. ASSUME NEW q \in Processes \ {p}, worker'[q].at = "failed"
        PROVE  worker'[q].raw.retry < failures'[worker'[q].raw.job]
    <3>1. worker'[q] = worker[q] /\ worker[q].at = "failed"
      BY <1>2, <2>1
    <3>2. Raw(q).retry < failures[Raw(q).job]
      BY <1>1, <3>1 DEF FailedOK, At
    <3>3. Raw(q).job \in Jobs /\ Raw(q).retry \in Nat
      BY <3>1, BusyHasRaw
    <3>4. failures[Raw(q).job] \in Nat /\ failures'[Raw(q).job] \in Nat
          /\ failures[Raw(q).job] <= failures'[Raw(q).job]
      BY <3>3, TypesOf
    <3>5. Raw(q).retry < failures'[Raw(q).job]
      BY <3>2, <3>3, <3>4
    <3> QED
      BY <3>1, <3>5 DEF Raw
  <2> QED
    BY <1>2, <2>1 DEF FailedOK, Raw, At
<1>10. DeadMeansExhausted'
  <2>1. ASSUME NEW j \in dead PROVE failures'[j] > RetryLimit
    <3>1. j \in Jobs /\ failures[j] > RetryLimit
      BY <1>1, TypesOf DEF DeadMeansExhausted
    <3>2. failures[j] \in Nat /\ failures'[j] \in Nat /\ failures[j] <= failures'[j]
      BY <3>1, TypesOf
    <3> QED
      BY <3>1, <3>2, Numbers
  <2> QED
    BY <2>1 DEF DeadMeansExhausted
<1> QED
  BY <1>4, <1>5, <1>6, <1>7, <1>8, <1>9, <1>10 DEF BatchInv, LossInv, TriesInv

(* A worker puts its raw down, or has none; the lists keep what somebody   *)
(* may need.                                                               *)
LEMMA EmptyHands ==
  ASSUME BatchInv, NEW p \in Processes, NEW w \in WorkerStates,
         worker' = [worker EXCEPT ![p] = w], w.raw = NoRaw, w.at \in {"off", "starting", "idle"},
         queue' \in Seq(Raws), processing' \in Seq(Raws), Listed' \subseteq Listed,
         \A raw \in Listed : Kept(raw) => raw \in Listed',
         UNCHANGED <<pushes, stored, turnedAway, dead, failures>>, state' \in [Jobs -> States],
         request' \in [Jobs -> [at : {"none", "pushed", "accepted", "refused", "dropped"},
                                by : Processes \cup {NoRaw}]],
         \A j \in Jobs : Promised(j)' => Promised(j),
         faults' \in 0..MaxFaults, downs' \in 0..MaxDowns
  PROVE  BatchInv'
<1>1. TypeOK /\ PushedBefore /\ HandsOK /\ CoveredOK /\ RetriesOK /\ FailedOK /\ DeadMeansExhausted
  BY DEF BatchInv, LossInv, TriesInv
<1>2. /\ worker' \in [Processes -> WorkerStates]
      /\ worker'[p] = w /\ \A q \in Processes \ {p} : worker'[q] = worker[q]
      /\ InHand' \subseteq InHand
  BY AnotherWorker
<1>3. TypeOK'
  BY <1>1, <1>2 DEF TypeOK, WorkerStates
<1>4. PushedBefore' /\ RetriesOK'
  BY <1>1, <1>2 DEF PushedBefore, RetriesOK
<1>5. HandsOK' /\ FailedOK'
  BY <1>1, <1>2 DEF HandsOK, Concluded, FailedOK, Raw, At
<1>6. CoveredOK'
  <2>1. ASSUME NEW raw \in Listed, Kept(raw) PROVE raw \in Listed' /\ Kept(raw)'
    <3>1. ~Releases(w)
      BY DEF Releases
    <3> QED
      BY <2>1, <3>1, KeptStays
  <2> QED
    BY <1>1, <2>1, CoverStays
<1>7. DeadMeansExhausted'
  BY <1>1 DEF DeadMeansExhausted
<1> QED
  BY <1>3, <1>4, <1>5, <1>6, <1>7 DEF BatchInv, LossInv, TriesInv

-----------------------------------------------------------------------------
(* The initial state and the steps.                                        *)

LEMMA OffState == /\ Off \in WorkerStates /\ Off.raw = NoRaw /\ Off.at = "off"
                  /\ Idle \in WorkerStates /\ Idle.raw = NoRaw /\ Idle.at = "idle"
<1>1. 0 \in 0..MaxMoves /\ {"off", "idle"} \subseteq Phases
  BY Numbers DEF Phases
<1> QED
  BY <1>1 DEF Off, Idle, WorkerStates

LEMMA BatchInvInit == Init => BatchInv
<1> SUFFICES ASSUME Init PROVE BatchInv
  OBVIOUS
<1>1. TypeOK
  <2>1. queue \in Seq(Raws) /\ processing \in Seq(Raws) /\ 0 \in Nat
    BY DEF Init
  <2>2. state \in [Jobs -> States]
    BY DEF Init, States
  <2>3. worker \in [Processes -> WorkerStates]
    BY OffState DEF Init
  <2>4. failures \in [Jobs -> 0..RetryLimit + 1] /\ faults \in 0..MaxFaults /\ downs \in 0..MaxDowns
    BY Numbers DEF Init
  <2> QED
    BY <2>1, <2>2, <2>3, <2>4 DEF Init, TypeOK, WorkerStates
<1>2. Listed = {} /\ InHand = {}
  BY DEF Init, Listed, InHand, ToSet, Raw, Off
<1>3. HandsOK /\ CoveredOK /\ FailedOK
  BY DEF Init, HandsOK, CoveredOK, Promised, FailedOK, At, Raw, Off
<1>4. DeadMeansExhausted
  BY DEF Init, DeadMeansExhausted
<1> QED
  BY <1>1, <1>2, <1>3, <1>4 DEF BatchInv, LossInv, TriesInv, PushedBefore, RetriesOK

(* A push: the raw is new, and nobody has it in hand.                      *)
LEMMA FreshRaw ==
  ASSUME BatchInv, NEW j \in Jobs, NEW n \in 0..RetryLimit, n <= failures[j],
         NEW raw, raw = [job |-> j, retry |-> n, queuedAt |-> pushes]
  PROVE  /\ raw \in Raws /\ raw.job = j /\ raw \notin Listed \cup InHand
         /\ LPush(queue, raw) \in Seq(Raws)
         /\ ToSet(LPush(queue, raw)) = ToSet(queue) \cup {raw}
         /\ \A r \in Listed \cup InHand \cup {raw} : r.queuedAt < pushes + 1
         /\ \A r \in Listed \cup InHand \cup {raw} : r.retry <= failures[r.job]
<1>1. pushes \in Nat /\ queue \in Seq(Raws) /\ Listed \cup InHand \subseteq Raws
  BY TypesOf
<1>2. raw \in Raws
  BY <1>1 DEF Raws
<1>3. \A r \in Listed \cup InHand : r.queuedAt < pushes
  BY DEF BatchInv, LossInv, PushedBefore
<1>4. raw.job = j /\ raw.retry = n /\ raw.queuedAt = pushes
  OBVIOUS
<1>5. raw \notin Listed \cup InHand
  BY <1>1, <1>3, <1>4
<1>6. \A r \in Listed \cup InHand : r.queuedAt \in Nat
  BY <1>1 DEF Raws
<1>7. \A r \in Listed \cup InHand \cup {raw} : r.queuedAt < pushes + 1
  BY <1>1, <1>3, <1>4, <1>6
<1>8. \A r \in Listed \cup InHand \cup {raw} : r.retry <= failures[r.job]
  BY <1>4 DEF BatchInv, TriesInv, RetriesOK
<1> QED
  BY <1>1, <1>2, <1>4, <1>5, <1>7, <1>8, PutInFront

(* A job is requested.                                                     *)
LEMMA StepEnqueue ==
  ASSUME BatchInv, NEW p \in Processes, NEW j \in Jobs, EnqueueAsync(p, j)
  PROVE  BatchInv'
<1>1. PICK o \in Outcomes : /\ Try(o) /\ PushToQueue(o, j, 0)
                            /\ request' = [request EXCEPT ![j] =
                                 [at |-> IF o = "answered" THEN "pushed" ELSE "refused", by |-> p]]
  BY DEF EnqueueAsync
<1>2. UNCHANGED <<processing, dead, state, worker, stored, turnedAway, failures, downs>> /\ request[j].at = "none"
  BY DEF EnqueueAsync
<1>3. TypeOK /\ PushedBefore /\ HandsOK /\ CoveredOK /\ RetriesOK /\ FailedOK /\ DeadMeansExhausted
  BY DEF BatchInv, LossInv, TriesInv
<1>4. faults' \in 0..MaxFaults
  BY <1>1, TryCounts
<1>5. /\ request' \in [Jobs -> [at : {"none", "pushed", "accepted", "refused", "dropped"},
                                by : Processes \cup {NoRaw}]]
      /\ request'[j].at = "pushed" <=> o = "answered"
      /\ request'[j].at \in {"pushed", "refused"}
      /\ \A i \in Jobs \ {j} : request'[i] = request[i]
  BY <1>1, <1>3 DEF TypeOK
<1>6. InHand' = InHand /\ (\A raw : Kept(raw)' <=> Kept(raw))
  BY <1>2 DEF InHand, Raw, Kept, Releasing, At
<1>7. HandsOK' /\ FailedOK' /\ DeadMeansExhausted'
  BY <1>2, <1>3 DEF HandsOK, Concluded, FailedOK, DeadMeansExhausted, Raw, At
<1>8. CASE ~Done(o)
  <2>1. queue' = queue /\ pushes' = pushes /\ Listed' = Listed /\ o # "answered"
    BY <1>1, <1>2, <1>8 DEF PushToQueue, Done, Listed
  <2>2. \A i \in Jobs : Promised(i)' => Promised(i)
    BY <1>5, <2>1 DEF Promised
  <2>3. CoveredOK'
    BY <1>2, <1>3, <1>6, <2>1, <2>2, CoverStays
  <2>4. TypeOK' /\ PushedBefore' /\ RetriesOK'
    BY <1>2, <1>3, <1>4, <1>5, <1>6, <2>1 DEF TypeOK, PushedBefore, RetriesOK
  <2> QED
    BY <1>7, <2>3, <2>4 DEF BatchInv, LossInv, TriesInv
<1>9. CASE Done(o)
  <2>1. PICK raw : raw = [job |-> j, retry |-> 0, queuedAt |-> pushes]
    OBVIOUS
  <2>2. queue' = LPush(queue, raw) /\ pushes' = pushes + 1
    BY <1>1, <1>9, <2>1 DEF PushToQueue
  <2>3. 0 \in 0..RetryLimit /\ 0 <= failures[j]
    BY TypesOf, Numbers
  <2>4. /\ raw \in Raws /\ raw.job = j /\ raw \notin Listed \cup InHand
        /\ queue' \in Seq(Raws) /\ Listed' = Listed \cup {raw}
        /\ \A r \in Listed \cup InHand \cup {raw} : r.queuedAt < pushes' /\ r.retry <= failures[r.job]
    BY <1>2, <2>1, <2>2, <2>3, FreshRaw DEF Listed
  <2>5. Kept(raw)
    <3>1. \A q \in Processes : Raw(q) # raw
      BY <2>4, Numbers DEF InHand
    <3> QED
      BY <3>1 DEF Kept
  <2>6. CoveredOK'
    <3> SUFFICES ASSUME NEW i \in Jobs, Promised(i)' PROVE Covered(i)'
      BY DEF CoveredOK
    <3>1. CASE i = j
      BY <1>6, <2>4, <2>5, <3>1 DEF Covered
    <3>2. CASE i # j
      <4>1. Covered(i)
        BY <1>3, <1>5, <3>2 DEF CoveredOK, Promised
      <4> QED
        BY <1>2, <1>6, <2>4, <4>1 DEF Covered, Concluded
    <3> QED
      BY <3>1, <3>2
  <2>7. pushes' \in Nat
    BY <2>2, TypesOf
  <2>8. TypeOK' /\ PushedBefore' /\ RetriesOK'
    BY <1>2, <1>3, <1>4, <1>5, <1>6, <2>4, <2>7 DEF TypeOK, PushedBefore, RetriesOK
  <2> QED
    BY <1>7, <2>6, <2>8 DEF BatchInv, LossInv, TriesInv
<1> QED
  BY <1>8, <1>9

(* The request is answered.                                                *)
LEMMA StepAccept ==
  ASSUME BatchInv, NEW p \in Processes, NEW j \in Jobs, Accept(p, j)
  PROVE  BatchInv'
<1>1. /\ request[j].at = "pushed" /\ request' = [request EXCEPT ![j].at = "accepted"]
      /\ UNCHANGED <<queue, processing, dead, pushes, worker, stored, turnedAway, failures, downs>>
  BY DEF Accept, Requested, lists
<1>2. state' \in [Jobs -> States] /\ faults' \in 0..MaxFaults
  <2>1. PICK o \in Outcomes : SetBatchJobStatus(o, j, "queued")
    BY DEF Accept
  <2>2. "queued" \in States
    BY DEF States
  <2> QED
    BY <2>1, <2>2, StatusTypes
<1>3. TypeOK /\ PushedBefore /\ HandsOK /\ CoveredOK /\ RetriesOK /\ FailedOK /\ DeadMeansExhausted
  BY DEF BatchInv, LossInv, TriesInv
<1>4. /\ request' \in [Jobs -> [at : {"none", "pushed", "accepted", "refused", "dropped"},
                                by : Processes \cup {NoRaw}]]
      /\ \A i \in Jobs : Promised(i)' => Promised(i)
  BY <1>1, <1>3 DEF TypeOK, Promised
<1>5. InHand' = InHand /\ Listed' = Listed /\ (\A raw : Kept(raw)' <=> Kept(raw))
  BY <1>1 DEF InHand, Listed, Raw, Kept, Releasing, At
<1>6. CoveredOK'
  BY <1>1, <1>3, <1>4, <1>5, CoverStays
<1>7. HandsOK' /\ FailedOK' /\ DeadMeansExhausted'
  BY <1>1, <1>3 DEF HandsOK, Concluded, FailedOK, DeadMeansExhausted, Raw, At
<1>8. TypeOK' /\ PushedBefore' /\ RetriesOK'
  BY <1>1, <1>2, <1>3, <1>4, <1>5 DEF TypeOK, PushedBefore, RetriesOK
<1> QED
  BY <1>6, <1>7, <1>8 DEF BatchInv, LossInv, TriesInv

(* A worker takes a raw, or never learns that it has.                      *)
LEMMA StepPop ==
  ASSUME BatchInv, NEW p \in Processes, Pop(p)
  PROVE  BatchInv'
<1>1. PICK o \in {"answered", "lost"} :
        /\ Try(o) /\ queue' = Front(queue) /\ processing' = LPush(processing, Last(queue))
        /\ worker' = IF o = "answered"
                       THEN [worker EXCEPT ![p] = [Off EXCEPT !.at = "marking", !.raw = Last(queue)]]
                       ELSE worker
  BY DEF Pop
<1>2. /\ queue # <<>> /\ UNCHANGED <<dead, pushes, state, request, stored, turnedAway, failures, downs>>
  BY DEF Pop
<1>3. TypeOK /\ PushedBefore /\ HandsOK /\ CoveredOK /\ RetriesOK /\ FailedOK /\ DeadMeansExhausted
  BY DEF BatchInv, LossInv, TriesInv
<1>4. PICK raw : raw = Last(queue)
  OBVIOUS
<1>5. /\ queue' \in Seq(Raws) /\ raw \in Raws /\ ToSet(queue) = ToSet(queue') \cup {raw}
      /\ processing' \in Seq(Raws) /\ ToSet(processing') = ToSet(processing) \cup {raw}
  <2>1. /\ queue' \in Seq(Raws) /\ raw \in Raws /\ ToSet(queue) = ToSet(queue') \cup {raw}
    BY <1>1, <1>2, <1>3, <1>4, Popped DEF TypeOK
  <2>2. processing \in Seq(Raws)
    BY TypesOf
  <2> QED
    BY <1>1, <1>4, <2>1, <2>2, PutInFront
<1>6. Listed' = Listed /\ raw \in Listed
  BY <1>5 DEF Listed
<1>7. faults' \in 0..MaxFaults
  BY <1>1, TryCounts DEF Outcomes
<1>8. DeadMeansExhausted' /\ \A i \in Jobs : Promised(i)' => Promised(i)
  BY <1>2, <1>3 DEF DeadMeansExhausted, Promised
<1>9. CASE worker' = worker
  <2>1. InHand' = InHand /\ (\A r : Kept(r)' <=> Kept(r))
    BY <1>9 DEF InHand, Raw, Kept, Releasing, At
  <2>2. CoveredOK'
    BY <1>2, <1>3, <1>6, <1>8, <2>1, CoverStays
  <2>3. HandsOK' /\ FailedOK'
    BY <1>2, <1>3, <1>9 DEF HandsOK, Concluded, FailedOK, Raw, At
  <2>4. TypeOK' /\ PushedBefore' /\ RetriesOK'
    BY <1>2, <1>3, <1>5, <1>6, <1>7, <1>9, <2>1 DEF TypeOK, PushedBefore, RetriesOK
  <2> QED
    BY <1>8, <2>2, <2>3, <2>4 DEF BatchInv, LossInv, TriesInv
<1>10. CASE o = "answered"
  <2>1. PICK w : w = [Off EXCEPT !.at = "marking", !.raw = raw]
    OBVIOUS
  <2>2. w \in WorkerStates /\ w.at = "marking" /\ w.raw = raw
    <3>1. 0 \in 0..MaxMoves /\ "marking" \in Phases
      BY Numbers DEF Phases
    <3> QED
      BY <1>5, <2>1, <3>1 DEF Off, WorkerStates
  <2>3. worker' = [worker EXCEPT ![p] = w]
    BY <1>1, <1>4, <1>10, <2>1
  <2>4. /\ worker' \in [Processes -> WorkerStates]
        /\ worker'[p] = w /\ \A q \in Processes \ {p} : worker'[q] = worker[q]
        /\ InHand' \subseteq InHand \cup {raw}
    BY <2>2, <2>3, AnotherWorker
  <2>5. CoveredOK'
    <3>1. ASSUME NEW r \in Listed, Kept(r) PROVE Kept(r)'
      <4>1. ~Releases(w)
        BY <2>2 DEF Releases
      <4> QED
        BY <2>2, <2>3, <3>1, <4>1, KeptStays
    <3> QED
      BY <1>2, <1>3, <1>6, <1>8, <3>1, CoverStays
  <2>6. HandsOK' /\ FailedOK'
    BY <1>2, <1>3, <1>5, <2>2, <2>4, Numbers DEF HandsOK, Concluded, FailedOK, Raw, At
  <2>7. TypeOK' /\ PushedBefore' /\ RetriesOK'
    <3>1. Listed' \cup InHand' \subseteq Listed \cup InHand
      BY <1>6, <2>4
    <3> QED
      BY <1>2, <1>3, <1>5, <1>7, <2>4, <3>1 DEF TypeOK, PushedBefore, RetriesOK, WorkerStates
  <2> QED
    BY <1>8, <2>5, <2>6, <2>7 DEF BatchInv, LossInv, TriesInv
<1> QED
  BY <1>1, <1>9, <1>10

(* Steps of a worker that has no raw after them: it starts, recovers,      *)
(* stops, dies.                                                            *)
LEMMA StepStart ==
  ASSUME BatchInv, NEW p \in Processes, Start(p)
  PROVE  BatchInv'
<1>1. PICK w : w = [Off EXCEPT !.at = "starting"]
  OBVIOUS
<1>2. w \in WorkerStates /\ w.raw = NoRaw /\ w.at = "starting"
  <2>1. 0 \in 0..MaxMoves /\ "starting" \in Phases
    BY Numbers DEF Phases
  <2> QED
    BY <1>1, <2>1 DEF Off, WorkerStates
<1>3. /\ worker' = [worker EXCEPT ![p] = w]
      /\ UNCHANGED <<queue, processing, dead, pushes, state, request, stored, turnedAway, failures, faults, downs>>
  BY <1>1 DEF Start, lists
<1>4. Listed' = Listed /\ (\A j \in Jobs : Promised(j)' => Promised(j)) /\ TypeOK
  BY <1>3 DEF Listed, Promised, BatchInv, LossInv
<1> QED
  BY <1>2, <1>3, <1>4, EmptyHands DEF TypeOK

LEMMA StepRequeue ==
  ASSUME BatchInv, NEW p \in Processes, Requeue(p)
  PROVE  BatchInv'
<1>1. PICK o \in Outcomes :
        /\ Try(o)
        /\ IF Done(o) THEN queue' = LPush(queue, Last(processing)) /\ processing' = Front(processing)
           ELSE UNCHANGED <<queue, processing>>
        /\ worker' = IF o = "answered" THEN [worker EXCEPT ![p].moved = @ + 1]
                                       ELSE [worker EXCEPT ![p] = Idle]
  BY DEF Requeue
<1>2. /\ worker[p].at = "starting" /\ processing # <<>> /\ worker[p].moved < MaxMoves
      /\ UNCHANGED <<dead, pushes, state, request, stored, turnedAway, failures, downs>>
  BY DEF Requeue, At
<1>3. PICK w : w = IF o = "answered" THEN [worker[p] EXCEPT !.moved = @ + 1] ELSE Idle
  OBVIOUS
<1>4. worker' = [worker EXCEPT ![p] = w]
  <2>1. CASE o = "answered"
    <3>1. w = [worker[p] EXCEPT !.moved = @ + 1]
      BY <1>3, <2>1
    <3>2. worker' = [worker EXCEPT ![p].moved = @ + 1]
      BY <1>1, <2>1
    <3> QED
      BY <3>1, <3>2
  <2>2. CASE o # "answered"
    BY <1>1, <1>3, <2>2
  <2> QED
    BY <2>1, <2>2
<1>5. w \in WorkerStates /\ w.raw = NoRaw /\ w.at \in {"starting", "idle"}
  <2>1. worker[p] \in WorkerStates /\ worker[p].raw = NoRaw
    BY <1>2, TypesOf DEF BatchInv, LossInv, HandsOK, Raw
  <2>2. worker[p].moved \in 0..MaxMoves /\ worker[p].moved + 1 \in 0..MaxMoves
    <3>1. worker[p].moved \in 0..MaxMoves
      BY <2>1 DEF WorkerStates
    <3> QED
      BY <1>2, <3>1, Numbers
  <2> QED
    BY <1>2, <1>3, <2>1, <2>2, OffState DEF WorkerStates
<1>6. queue' \in Seq(Raws) /\ processing' \in Seq(Raws) /\ Listed' = Listed
  <2>1. CASE Done(o)
    <3>1. /\ processing' \in Seq(Raws) /\ Last(processing) \in Raws
          /\ ToSet(processing) = ToSet(processing') \cup {Last(processing)}
      <4>1. processing \in Seq(Raws) /\ processing # <<>> /\ processing' = Front(processing)
        BY <1>1, <1>2, <2>1, TypesOf
      <4> QED
        BY <4>1, Popped
    <3>2. queue' \in Seq(Raws) /\ ToSet(queue') = ToSet(queue) \cup {Last(processing)}
      <4>1. queue \in Seq(Raws) /\ queue' = LPush(queue, Last(processing))
        BY <1>1, <2>1, TypesOf
      <4> QED
        BY <3>1, <4>1, PutInFront
    <3> QED
      BY <3>1, <3>2 DEF Listed
  <2>2. CASE ~Done(o)
    BY <1>1, <2>2, TypesOf DEF Listed
  <2> QED
    BY <2>1, <2>2
<1>7. /\ faults' \in 0..MaxFaults /\ (\A j \in Jobs : Promised(j)' => Promised(j)) /\ TypeOK
  BY <1>1, <1>2, TryCounts DEF Promised, BatchInv, LossInv
<1> QED
  BY <1>2, <1>4, <1>5, <1>6, <1>7, EmptyHands DEF TypeOK

LEMMA StepRecovered ==
  ASSUME BatchInv, NEW p \in Processes, Recovered(p) \/ Stop(p)
  PROVE  BatchInv'
<1>1. PICK w \in {Off, Idle} : worker' = [worker EXCEPT ![p] = w]
  BY DEF Recovered, Stop
<1>2. w \in WorkerStates /\ w.raw = NoRaw /\ w.at \in {"off", "idle"}
  BY OffState
<1>3. UNCHANGED <<queue, processing, dead, pushes, state, request, stored, turnedAway, failures, faults>>
  BY DEF Recovered, Stop, lists
<1>4. downs' \in 0..MaxDowns
  BY TypesOf, Numbers DEF Recovered, Stop
<1>5. Listed' = Listed /\ (\A j \in Jobs : Promised(j)' => Promised(j)) /\ TypeOK
  BY <1>3 DEF Listed, Promised, BatchInv, LossInv
<1> QED
  BY <1>1, <1>2, <1>3, <1>4, <1>5, EmptyHands DEF TypeOK

LEMMA StepCrash ==
  ASSUME BatchInv, NEW p \in Processes, Crash(p)
  PROVE  BatchInv'
<1>1. /\ worker' = [worker EXCEPT ![p] = Off] /\ downs < MaxDowns /\ downs' = downs + 1
      /\ UNCHANGED <<queue, processing, dead, pushes, state, stored, turnedAway, failures, faults>>
      /\ request' = [j \in Jobs |-> IF Requested(p, j) THEN [request[j] EXCEPT !.at = "dropped"]
                                                       ELSE request[j]]
  BY DEF Crash, lists
<1>2. TypeOK
  BY DEF BatchInv, LossInv
<1>3. /\ request' \in [Jobs -> [at : {"none", "pushed", "accepted", "refused", "dropped"},
                                by : Processes \cup {NoRaw}]]
      /\ \A j \in Jobs : Promised(j)' => Promised(j)
  <2>1. ASSUME NEW j \in Jobs
        PROVE  /\ request'[j] \in [at : {"none", "pushed", "accepted", "refused", "dropped"},
                                   by : Processes \cup {NoRaw}]
               /\ Promised(j)' => Promised(j)
    <3>1. request[j] \in [at : {"none", "pushed", "accepted", "refused", "dropped"},
                          by : Processes \cup {NoRaw}]
      BY <1>2 DEF TypeOK
    <3> QED
      BY <1>1, <3>1 DEF Promised, Requested
  <2> QED
    BY <1>1, <2>1
<1>4. downs' \in 0..MaxDowns
  BY <1>1, TypesOf, Numbers
<1>5. Listed' = Listed
  BY <1>1 DEF Listed
<1> QED
  BY <1>1, <1>2, <1>3, <1>4, <1>5, OffState, EmptyHands DEF TypeOK

(* The raw of a worker that has disposed of its job leaves the list.       *)
LEMMA StepAck ==
  ASSUME BatchInv, NEW p \in Processes, Ack(p)
  PROVE  BatchInv'
<1>1. /\ worker[p].at = "acking" /\ worker' = [worker EXCEPT ![p] = Idle]
      /\ UNCHANGED <<queue, dead, pushes, state, request, stored, turnedAway, failures, downs>>
  BY DEF Ack, At
<1>2. PICK o \in Outcomes :
        /\ Try(o)
        /\ processing' = IF Done(o) THEN LRem(processing, Raw(p)) ELSE processing
  BY DEF Ack
<1>3. /\ processing' \in Seq(Raws) /\ ToSet(processing') \subseteq ToSet(processing)
      /\ ToSet(processing) \ {Raw(p)} \subseteq ToSet(processing')
  BY <1>2, TypesOf, RemovedFirst DEF LRem
<1>4. Listed' \subseteq Listed /\ Listed \ {Raw(p)} \subseteq Listed'
  BY <1>1, <1>3 DEF Listed
<1>5. \A raw \in Listed : Kept(raw) => raw \in Listed'
  BY <1>1, <1>4 DEF Kept, Releasing, At
<1>6. faults' \in 0..MaxFaults /\ (\A j \in Jobs : Promised(j)' => Promised(j)) /\ TypeOK
  BY <1>1, <1>2, TryCounts DEF Promised, BatchInv, LossInv
<1> QED
  BY <1>1, <1>3, <1>4, <1>5, <1>6, OffState, EmptyHands DEF TypeOK

(* A worker goes on with its raw.                                          *)
LEMMA Goes ==
  ASSUME BatchInv, NEW p \in Processes, NEW x \in Phases, Goto(p, x),
         worker[p].at \notin {"off", "starting", "idle"}
  PROVE  \E w \in WorkerStates : /\ worker' = [worker EXCEPT ![p] = w] /\ w.at = x
                                 /\ w.raw = Raw(p) /\ w.safeToAck = worker[p].safeToAck
                                 /\ Raw(p) # NoRaw
<1>1. worker \in [Processes -> WorkerStates] /\ worker[p] \in WorkerStates
  BY TypesOf
<1>2. PICK w : w = [worker[p] EXCEPT !.at = x]
  OBVIOUS
<1>3. w \in WorkerStates /\ w.at = x /\ w.raw = Raw(p) /\ w.safeToAck = worker[p].safeToAck
  BY <1>1, <1>2 DEF WorkerStates, Raw
<1>4. worker' = [worker EXCEPT ![p] = w]
  BY <1>2 DEF Goto
<1> QED
  BY <1>3, <1>4, BusyHasRaw, Numbers

LEMMA StepMark ==
  ASSUME BatchInv, NEW p \in Processes, Mark(p)
  PROVE  BatchInv'
<1>1. worker[p].at = "marking" /\ UNCHANGED <<queue, processing, dead, pushes, request, stored, turnedAway, failures, downs>>
  BY DEF Mark, At, lists
<1>2. PICK w \in WorkerStates : /\ worker' = [worker EXCEPT ![p] = w] /\ w.at = "working"
                                /\ w.raw = Raw(p) /\ Raw(p) # NoRaw
  BY <1>1, Goes DEF Mark, Phases
<1>3. state' \in [Jobs -> States] /\ faults' \in 0..MaxFaults
  BY <1>1, BusyHasRaw, StatusTypes DEF Mark, States
<1>4. ~Releases(w) /\ \A j \in Jobs : failures[j] <= failures[j]
  BY <1>2, TypesOf DEF Releases
<1> QED
  BY <1>1, <1>2, <1>3, <1>4, TypesOf, SameRaw

LEMMA StepProcess ==
  ASSUME BatchInv, NEW p \in Processes, Process(p)
  PROVE  BatchInv'
<1>1. /\ worker[p].at = "working" /\ stored' = stored \cup {Raw(p).job}
      /\ UNCHANGED <<queue, processing, dead, pushes, state, request, turnedAway, failures, faults, downs>>
  BY DEF Process, At, lists
<1>2. PICK w \in WorkerStates : /\ worker' = [worker EXCEPT ![p] = w] /\ w.at = "returned"
                                /\ w.raw = Raw(p) /\ Raw(p) # NoRaw
  BY <1>1, Goes DEF Process, Phases
<1>3. stored' \subseteq Jobs /\ state' \in [Jobs -> States]
  BY <1>1, BusyHasRaw, TypesOf DEF BatchInv, LossInv, TypeOK
<1>4. Raw(p).job \in Concluded'
  BY <1>1 DEF Concluded
<1>5. ~Releases(w) /\ \A j \in Jobs : failures[j] <= failures[j]
  BY <1>2, TypesOf DEF Releases
<1> QED
  BY <1>1, <1>2, <1>3, <1>4, <1>5, TypesOf, SameRaw

(* A run that has nothing to store ends the same way.                      *)
LEMMA StepProcessTurnsAway ==
  ASSUME BatchInv, NEW p \in Processes, ProcessTurnsAway(p)
  PROVE  BatchInv'
<1>1. /\ worker[p].at = "working" /\ turnedAway' = turnedAway \cup {Raw(p).job}
      /\ UNCHANGED <<queue, processing, dead, pushes, state, request, stored, failures, faults, downs>>
  BY DEF ProcessTurnsAway, At, lists
<1>2. PICK w \in WorkerStates : /\ worker' = [worker EXCEPT ![p] = w] /\ w.at = "returned"
                                /\ w.raw = Raw(p) /\ Raw(p) # NoRaw
  BY <1>1, Goes DEF ProcessTurnsAway, Phases
<1>3. turnedAway' \subseteq Jobs /\ state' \in [Jobs -> States]
  BY <1>1, BusyHasRaw, TypesOf DEF BatchInv, LossInv, TypeOK
<1>4. Raw(p).job \in Concluded'
  BY <1>1 DEF Concluded
<1>5. ~Releases(w) /\ \A j \in Jobs : failures[j] <= failures[j]
  BY <1>2, TypesOf DEF Releases
<1> QED
  BY <1>1, <1>2, <1>3, <1>4, <1>5, TypesOf, SameRaw

(* A run fails; the retries behind it are fewer than the failures.         *)
LEMMA StepProcessThrows ==
  ASSUME BatchInv, NEW p \in Processes, ProcessThrows(p)
  PROVE  BatchInv'
<1>1. /\ worker[p].at = "working" /\ stored' \in {stored, stored \cup {Raw(p).job}}
      /\ failures' = [failures EXCEPT ![Raw(p).job] = IF @ > RetryLimit THEN @ ELSE @ + 1]
      /\ UNCHANGED <<queue, processing, dead, pushes, state, request, turnedAway, faults, downs>>
  BY DEF ProcessThrows, At, lists
<1>2. PICK w \in WorkerStates : /\ worker' = [worker EXCEPT ![p] = w] /\ w.at = "failed"
                                /\ w.raw = Raw(p) /\ Raw(p) # NoRaw
  BY <1>1, Goes DEF ProcessThrows, Phases
<1>3. stored \subseteq stored' /\ stored' \subseteq Jobs /\ state' \in [Jobs -> States]
  BY <1>1, BusyHasRaw, TypesOf DEF BatchInv, LossInv, TypeOK
<1>4. PICK j, n : j = Raw(p).job /\ n = failures[j]
  OBVIOUS
<1>5. j \in Jobs /\ n \in 0..RetryLimit + 1 /\ Raw(p).retry \in 0..RetryLimit /\ Raw(p).retry <= n
  BY <1>1, <1>4, BusyHasRaw, TypesOf DEF BatchInv, TriesInv, RetriesOK
<1>6. /\ failures' \in [Jobs -> 0..RetryLimit + 1] /\ failures'[j] \in Nat /\ n <= failures'[j]
      /\ Raw(p).retry < failures'[j]
      /\ \A i \in Jobs \ {j} : failures'[i] = failures[i]
  <2>1. CASE n > RetryLimit
    <3>1. failures' = [failures EXCEPT ![j] = n]
      BY <1>1, <1>4, <2>1
    <3> QED
      BY <1>5, <2>1, <3>1, TypesOf, Numbers
  <2>2. CASE ~(n > RetryLimit)
    <3>1. failures' = [failures EXCEPT ![j] = n + 1]
      BY <1>1, <1>4, <2>2
    <3>2. n + 1 \in 0..RetryLimit + 1
      BY <1>5, <2>2, Numbers
    <3> QED
      BY <1>5, <3>1, <3>2, TypesOf, Numbers
  <2> QED
    BY <2>1, <2>2
<1>7. ASSUME NEW i \in Jobs PROVE failures[i] <= failures'[i]
  <2>1. CASE i = j
    BY <1>4, <1>6, <2>1
  <2>2. CASE i # j
    <3>1. failures'[i] = failures[i] /\ failures[i] \in 0..RetryLimit + 1
      BY <1>6, <2>2, TypesOf
    <3>2. failures[i] <= failures[i]
      BY <3>1, Numbers
    <3> QED
      BY <3>1, <3>2
  <2> QED
    BY <2>1, <2>2
<1>8. ~Releases(w)
  BY <1>2 DEF Releases
<1> QED
  BY <1>1, <1>2, <1>3, <1>4, <1>6, <1>7, <1>8, TypesOf, SameRaw

LEMMA StepReportCompleted ==
  ASSUME BatchInv, NEW p \in Processes, ReportCompleted(p)
  PROVE  BatchInv'
<1>1. worker[p].at = "returned" /\ UNCHANGED <<queue, processing, dead, pushes, request, stored, turnedAway, failures, downs>>
  BY DEF ReportCompleted, At, lists
<1>2. PICK w \in WorkerStates : /\ worker' = [worker EXCEPT ![p] = w] /\ w.at = "acking"
                                /\ w.raw = Raw(p) /\ Raw(p) # NoRaw
  BY <1>1, Goes DEF ReportCompleted, Phases
<1>3. state' \in [Jobs -> States] /\ faults' \in 0..MaxFaults
  BY <1>1, BusyHasRaw, StatusTypes DEF ReportCompleted, States
<1>4. w.raw.job \in Concluded /\ Concluded' = Concluded /\ \A j \in Jobs : failures[j] <= failures[j]
  BY <1>1, <1>2, TypesOf DEF BatchInv, LossInv, HandsOK, At, Concluded
<1> QED
  BY <1>1, <1>2, <1>3, <1>4, TypesOf, SameRaw

LEMMA StepReportFailure ==
  ASSUME BatchInv, NEW p \in Processes, ReportFailure(p)
  PROVE  BatchInv'
<1>1. worker[p].at = "reporting" /\ UNCHANGED <<queue, processing, dead, pushes, request, stored, turnedAway, failures, downs>>
  BY DEF ReportFailure, At, lists
<1>2. state' \in [Jobs -> States] /\ faults' \in 0..MaxFaults
  <2>1. PICK o \in Outcomes, s \in {"queued", "dead"} : SetBatchJobStatus(o, Raw(p).job, s)
    BY DEF ReportFailure
  <2>2. s \in States
    BY DEF States
  <2> QED
    BY <1>1, <2>1, <2>2, BusyHasRaw, StatusTypes
<1>3. worker[p] \in WorkerStates /\ Raw(p) # NoRaw
  BY <1>1, TypesOf, BusyHasRaw, Numbers
<1>4. CASE worker[p].safeToAck
  <2>1. PICK w : w = [worker[p] EXCEPT !.at = "acking"]
    OBVIOUS
  <2>2. worker' = [worker EXCEPT ![p] = w]
    BY <1>4, <2>1 DEF ReportFailure
  <2>3. w \in WorkerStates /\ w.at = "acking" /\ w.raw = Raw(p) /\ Releasing(p)
    BY <1>1, <1>3, <1>4, <2>1 DEF WorkerStates, Phases, Raw, Releasing, At
  <2>4. \A j \in Jobs : failures[j] <= failures[j]
    BY TypesOf
  <2> QED
    BY <1>1, <1>2, <1>3, <2>2, <2>3, <2>4, TypesOf, SameRaw
<1>5. CASE ~worker[p].safeToAck
  <2>1. worker' = [worker EXCEPT ![p] = Idle]
    BY <1>5 DEF ReportFailure
  <2>2. Listed' = Listed /\ (\A j \in Jobs : Promised(j)' => Promised(j)) /\ TypeOK
    BY <1>1 DEF Listed, Promised, BatchInv, LossInv
  <2> QED
    BY <1>1, <1>2, <2>1, <2>2, OffState, EmptyHands DEF TypeOK
<1> QED
  BY <1>4, <1>5

(* The run failed, and what becomes of the job is decided.                 *)
LEMMA Disposes ==
  ASSUME BatchInv, NEW p \in Processes, NEW o \in Outcomes, Dispose(p, o), worker[p].at = "failed"
  PROVE  \E w \in WorkerStates :
           /\ worker' = [worker EXCEPT ![p] = w] /\ w.at = "reporting" /\ w.raw = Raw(p)
           /\ Releases(w) => Done(o)
           /\ worker' \in [Processes -> WorkerStates]
           /\ worker'[p] = w /\ \A q \in Processes \ {p} : worker'[q] = worker[q]
           /\ InHand' \subseteq InHand
<1>1. PICK w : w = [worker[p] EXCEPT !.at = "reporting", !.safeToAck = SafeToAck(o)]
  OBVIOUS
<1>2. worker[p] \in WorkerStates /\ "reporting" \in Phases /\ SafeToAck(o) \in BOOLEAN
  BY TypesOf DEF Phases, SafeToAck
<1>3. w \in WorkerStates /\ w.at = "reporting" /\ w.raw = Raw(p) /\ w.safeToAck = SafeToAck(o)
  BY <1>1, <1>2 DEF WorkerStates, Raw
<1>4. worker' = [worker EXCEPT ![p] = w]
  <2>1. worker' = [worker EXCEPT ![p] = [[@ EXCEPT !.at = "reporting"] EXCEPT !.safeToAck = SafeToAck(o)]]
    BY Zenon DEF Dispose
  <2> QED
    BY <1>1, <2>1
<1>5. Releases(w) => Done(o)
  BY <1>3 DEF Releases, SafeToAck, Done
<1>6. /\ worker' \in [Processes -> WorkerStates]
      /\ worker'[p] = w /\ \A q \in Processes \ {p} : worker'[q] = worker[q]
      /\ InHand' \subseteq InHand \cup ({w.raw} \ {NoRaw})
  BY <1>3, <1>4, AnotherWorker
<1>7. Raw(p) \in InHand
  BY BusyHasRaw
<1> QED
  BY <1>3, <1>4, <1>5, <1>6, <1>7

(* The job goes back on the list with one retry more.                      *)
LEMMA StepRetry ==
  ASSUME BatchInv, NEW p \in Processes, Retry(p)
  PROVE  BatchInv'
<1>1. PICK o \in Outcomes : PushToQueue(o, Raw(p).job, Raw(p).retry + 1) /\ Dispose(p, o)
  BY DEF Retry
<1>2. /\ worker[p].at = "failed" /\ Raw(p).retry < RetryLimit
      /\ UNCHANGED <<processing, dead, state, request, stored, turnedAway, failures, downs>>
  BY <1>1 DEF Retry, At, CanRetry, Dispose
<1>3. TypeOK /\ PushedBefore /\ HandsOK /\ CoveredOK /\ RetriesOK /\ FailedOK /\ DeadMeansExhausted
  BY DEF BatchInv, LossInv, TriesInv
<1>4. faults' \in 0..MaxFaults
  BY <1>1, TryCounts DEF Dispose
<1>5. PICK w \in WorkerStates :
        /\ worker' = [worker EXCEPT ![p] = w] /\ w.at = "reporting" /\ w.raw = Raw(p)
        /\ Releases(w) => Done(o)
        /\ worker' \in [Processes -> WorkerStates]
        /\ worker'[p] = w /\ \A q \in Processes \ {p} : worker'[q] = worker[q]
        /\ InHand' \subseteq InHand
  BY <1>1, <1>2, Disposes
<1>6. /\ Raw(p) \in Raws /\ Raw(p) \in InHand /\ Raw(p).job \in Jobs
      /\ Raw(p).retry \in 0..RetryLimit /\ Raw(p) # NoRaw
  BY <1>2, BusyHasRaw, Numbers
<1>7. HandsOK' /\ FailedOK' /\ DeadMeansExhausted'
  BY <1>2, <1>3, <1>5, <1>6 DEF HandsOK, Concluded, FailedOK, DeadMeansExhausted, Raw, At
<1>8. \A i \in Jobs : Promised(i)' => Promised(i)
  BY <1>2 DEF Promised
<1>9. CASE ~Done(o)
  <2>1. queue' = queue /\ pushes' = pushes /\ Listed' = Listed /\ ~Releases(w)
    BY <1>1, <1>2, <1>5, <1>9 DEF PushToQueue, Listed
  <2>2. \A r \in Listed : Kept(r) => Kept(r)'
    BY <1>5, <2>1, KeptStays
  <2>3. CoveredOK'
    BY <1>2, <1>3, <1>8, <2>1, <2>2, CoverStays
  <2>4. TypeOK' /\ PushedBefore' /\ RetriesOK'
    BY <1>2, <1>3, <1>4, <1>5, <2>1 DEF TypeOK, PushedBefore, RetriesOK, WorkerStates
  <2> QED
    BY <1>7, <2>3, <2>4 DEF BatchInv, LossInv, TriesInv
<1>10. CASE Done(o)
  <2>1. PICK j, n : j = Raw(p).job /\ n = Raw(p).retry + 1
    OBVIOUS
  <2>2. PICK raw : raw = [job |-> j, retry |-> n, queuedAt |-> pushes]
    OBVIOUS
  <2>3. j \in Jobs /\ n \in 0..RetryLimit /\ n <= failures[j]
    <3>1. Raw(p).retry < failures[j] /\ failures[j] \in Nat
      BY <1>2, <1>3, <1>6, <2>1, TypesOf DEF FailedOK, At
    <3> QED
      BY <1>2, <1>6, <2>1, <3>1, Numbers
  <2>4. queue' = LPush(queue, raw) /\ pushes' = pushes + 1
    BY <1>1, <1>10, <2>1, <2>2 DEF PushToQueue
  <2>5. /\ raw \in Raws /\ raw.job = j /\ raw \notin Listed \cup InHand
        /\ LPush(queue, raw) \in Seq(Raws)
        /\ ToSet(LPush(queue, raw)) = ToSet(queue) \cup {raw}
        /\ \A r \in Listed \cup InHand \cup {raw} : r.queuedAt < pushes + 1
        /\ \A r \in Listed \cup InHand \cup {raw} : r.retry <= failures[r.job]
    BY <2>2, <2>3, FreshRaw
  <2>6. queue' \in Seq(Raws) /\ Listed' = Listed \cup {raw} /\ pushes' \in Nat
    <3>1. queue' \in Seq(Raws) /\ ToSet(queue') = ToSet(queue) \cup {raw}
      BY <2>4, <2>5
    <3> QED
      BY <1>2, <2>4, <3>1, TypesOf DEF Listed
  <2>7. Kept(raw)'
    <3>1. \A q \in Processes : Raw(q) # raw
      BY <2>5, Numbers DEF InHand
    <3>2. Kept(raw) /\ w.raw # raw
      BY <1>5, <3>1 DEF Kept
    <3> QED
      BY <1>5, <3>2, KeptStays
  <2>8. CoveredOK'
    <3>1. ASSUME NEW r \in Listed, Kept(r) PROVE \E q \in Listed' : q.job = r.job /\ Kept(q)'
      <4>1. CASE r = Raw(p)
        BY <2>1, <2>5, <2>6, <2>7, <4>1
      <4>2. CASE r # Raw(p)
        <5>1. Kept(r)'
          BY <1>5, <3>1, <4>2, KeptStays
        <5> QED
          BY <2>6, <5>1
      <4> QED
        BY <4>1, <4>2
    <3> QED
      BY <1>2, <1>3, <1>8, <3>1, CoverStays
  <2>9. PushedBefore' /\ RetriesOK'
    <3>1. Listed' \cup InHand' \subseteq Listed \cup InHand \cup {raw}
      BY <1>5, <2>6
    <3> QED
      BY <1>2, <2>4, <2>5, <3>1 DEF PushedBefore, RetriesOK
  <2>10. TypeOK'
    BY <1>2, <1>3, <1>4, <1>5, <2>6 DEF TypeOK, WorkerStates
  <2> QED
    BY <1>7, <2>8, <2>9, <2>10 DEF BatchInv, LossInv, TriesInv
<1> QED
  BY <1>9, <1>10

(* The job is given up: its retries are used up, each after a failed run.  *)
LEMMA StepDeadLetter ==
  ASSUME BatchInv, NEW p \in Processes, DeadLetter(p)
  PROVE  BatchInv'
<1>1. PICK o \in Outcomes : /\ dead' = IF Done(o) THEN dead \cup {Raw(p).job} ELSE dead
                            /\ Dispose(p, o)
  BY DEF DeadLetter
<1>2. /\ worker[p].at = "failed" /\ ~(Raw(p).retry < RetryLimit)
      /\ UNCHANGED <<queue, processing, pushes, state, request, stored, turnedAway, failures, downs>>
  BY <1>1 DEF DeadLetter, At, CanRetry, Dispose
<1>3. TypeOK /\ PushedBefore /\ HandsOK /\ CoveredOK /\ RetriesOK /\ FailedOK /\ DeadMeansExhausted
  BY DEF BatchInv, LossInv, TriesInv
<1>4. faults' \in 0..MaxFaults
  BY <1>1, TryCounts DEF Dispose
<1>5. PICK w \in WorkerStates :
        /\ worker' = [worker EXCEPT ![p] = w] /\ w.at = "reporting" /\ w.raw = Raw(p)
        /\ Releases(w) => Done(o)
        /\ worker' \in [Processes -> WorkerStates]
        /\ worker'[p] = w /\ \A q \in Processes \ {p} : worker'[q] = worker[q]
        /\ InHand' \subseteq InHand
  BY <1>1, <1>2, Disposes
<1>6. /\ Raw(p) \in Raws /\ Raw(p) \in InHand /\ Raw(p).job \in Jobs
      /\ Raw(p).retry \in 0..RetryLimit /\ Raw(p) # NoRaw
  BY <1>2, BusyHasRaw, Numbers
<1>7. HandsOK' /\ FailedOK'
  <2>1. Concluded \subseteq Concluded'
    BY <1>1, <1>2 DEF Concluded
  <2> QED
    BY <1>2, <1>3, <1>5, <1>6, <2>1 DEF HandsOK, FailedOK, Raw, At
<1>8. dead \subseteq dead' /\ dead' \subseteq Jobs /\ Listed' = Listed
  BY <1>1, <1>2, <1>6, TypesOf DEF Listed
<1>9. DeadMeansExhausted'
  <2>1. failures[Raw(p).job] > RetryLimit
    <3>1. Raw(p).retry < failures[Raw(p).job] /\ failures[Raw(p).job] \in Nat
      BY <1>2, <1>3, <1>6, TypesOf DEF FailedOK, At
    <3> QED
      BY <1>2, <1>6, <3>1, Numbers
  <2> QED
    BY <1>1, <1>2, <1>3, <2>1 DEF DeadMeansExhausted
<1>10. CoveredOK'
  <2>1. ASSUME NEW r \in Listed, Kept(r), r.job \notin Concluded' PROVE Kept(r)'
    <3>1. w.raw = r => ~Releases(w)
      BY <1>1, <1>5, <2>1 DEF Concluded
    <3> QED
      BY <1>5, <2>1, <3>1, KeptStays
  <2>2. \A i \in Jobs : Promised(i)' => Promised(i)
    BY <1>2 DEF Promised
  <2> QED
    BY <1>2, <1>3, <1>8, <2>1, <2>2, CoverStays
<1>11. TypeOK' /\ PushedBefore' /\ RetriesOK'
  BY <1>2, <1>3, <1>4, <1>5, <1>8 DEF TypeOK, PushedBefore, RetriesOK, WorkerStates
<1> QED
  BY <1>7, <1>9, <1>10, <1>11 DEF BatchInv, LossInv, TriesInv

LEMMA BatchInvStep == BatchInv /\ [Next]_vars => BatchInv'
<1> SUFFICES ASSUME BatchInv, [Next]_vars PROVE BatchInv'
  OBVIOUS
<1>1. CASE UNCHANGED vars
  BY <1>1 DEF vars, BatchInv, LossInv, TypeOK, PushedBefore, HandsOK, CoveredOK, TriesInv, RetriesOK,
              FailedOK, DeadMeansExhausted, Listed, InHand, Raw, At, Covered, Kept, Releasing, Promised, Concluded
<1>2. ASSUME NEW p \in Processes, Start(p) \/ Stop(p) \/ Crash(p) PROVE BatchInv'
  BY <1>2, StepStart, StepRecovered, StepCrash
<1>3. ASSUME NEW p \in Processes, Work(p) PROVE BatchInv'
  BY <1>3, StepRequeue, StepRecovered, StepPop, StepMark, StepProcess, StepProcessTurnsAway, StepReportCompleted,
     StepProcessThrows, StepRetry, StepDeadLetter, StepReportFailure, StepAck DEF Work
<1>4. ASSUME NEW p \in Processes, NEW j \in Jobs, EnqueueAsync(p, j) \/ Accept(p, j) PROVE BatchInv'
  BY <1>4, StepEnqueue, StepAccept
<1> QED
  BY <1>1, <1>2, <1>3, <1>4 DEF Next

LEMMA BatchInvAlways == Spec => []BatchInv
  BY BatchInvInit, BatchInvStep, PTL DEF Spec

-----------------------------------------------------------------------------
(* The theorems.                                                           *)

(* Every variable has its type; no raw on a list was retried more often    *)
(* than the limit says, whatever is pushed back and however often (the     *)
(* retry count of the envelope, BatchRememberWorker.js).                   *)
THEOREM QueueTypes == Spec => []TypeOK
<1>1. BatchInv => TypeOK
  BY DEF BatchInv, LossInv
<1> QED
  BY <1>1, BatchInvAlways, PTL

(* A job whose request was answered is on one of the two lists until a run *)
(* of it has come to its end, with or without anything to store, or until  *)
(* it is dead (_processJobEnvelope acknowledges only then).                *)
THEOREM NothingIsLostHolds == Spec => []NothingIsLost
<1>1. BatchInv => NothingIsLost
  <2> SUFFICES ASSUME BatchInv, NEW j \in Jobs, Promised(j)
               PROVE  j \in Concluded \cup On(queue) \cup On(processing)
    BY DEF NothingIsLost, Promised
  <2>1. Covered(j)
    BY DEF BatchInv, LossInv, CoveredOK
  <2> QED
    BY <2>1 DEF Covered, Listed, On
<1> QED
  BY <1>1, BatchInvAlways, PTL

(* A job on the dead list failed once and then RetryLimit times            *)
(* (retry < retryLimit, BatchRememberWorker.js).                           *)
THEOREM DeadMeansExhaustedHolds == Spec => []DeadMeansExhausted
<1>1. BatchInv => DeadMeansExhausted
  BY DEF BatchInv, TriesInv
<1> QED
  BY <1>1, BatchInvAlways, PTL
=============================================================================
