--------------------------- MODULE AuditChainProofs ---------------------------
(***************************************************************************)
(* The audit table is one chain, and a verification of it says the truth:  *)
(* for any events, clocks, sizes of chunks and runs, and any changes made  *)
(* behind the program's back.                                              *)
(*                                                                         *)
(* The hash of the last row is the ledger: all that was ever recorded.     *)
(* The invariant says what each row, and each row a verification has read, *)
(* is in terms of the ledger, which is only ever extended.                 *)
(***************************************************************************)
EXTENDS AuditChain, FiniteSetTheorems, SequenceTheorems, WellFoundedInduction, NaturalsInduction, TLAPS

Prefix(s, n) == SubSeq(s, 1, n)
Entries(s)   == {s[i] : i \in DOMAIN s}

-----------------------------------------------------------------------------
(* The ledger and the table.                                               *)

(* The content recorded under seq n, and the row, if the hash that its     *)
(* detail names is h.                                                      *)
Content(L, n, h) == [seq |-> n, source |-> L[n].source, at |-> L[n].at,
                     detail |-> [seq |-> L[n].detail.seq, hash |-> h]]
Row(L, n, h) == [content |-> Content(L, n, h), prev |-> Prefix(L, n - 1), hash |-> Prefix(L, n)]

(* recorded_at never goes back; a checkpoint names an earlier row by its   *)
(* hash, and is told from an event by its source.                          *)
EntryOK(L, n) ==
  /\ L[n] = Content(L, n, L[n].detail.hash)
  /\ L[n].at \in 0..(MaxTime + Skew)
  /\ \A m \in 1..n : L[m].at <= L[n].at
  /\ L[n].detail.seq \in 0..(n - 1)
  /\ L[n].detail.seq = 0 => L[n].source \in Events
  /\ L[n].detail.seq > 0 => /\ L[n].source = CheckpointSource(L[n].detail.seq)
                            /\ L[n].detail.hash = Prefix(L, L[n].detail.seq)

LedgerOK(L) ==
  /\ L \in Seq(Entries(L)) /\ Len(L) <= MaxSeq
  /\ \A n \in 1..Len(L) : EntryOK(L, n)

(* The table has the last row; what it has is as it was recorded, or was   *)
(* changed by somebody; everything up to a boundary is gone.               *)
TableOK(t, L, meddled) ==
  /\ DOMAIN t \subseteq 1..Len(L)
  /\ Len(L) > 0 => Len(L) \in DOMAIN t
  /\ \A n \in DOMAIN t : t[n] = Row(L, n, L[n].detail.hash) \/ (meddled /\ t[n] = Row(L, n, Forged))
  /\ \A m \in 1..Len(L), n \in DOMAIN t : L[m].detail.seq < n

(* Nobody meddled: the rows follow each other from seq 1, or from a        *)
(* boundary whose checkpoint is still there.                               *)
Whole(t, L) ==
  Len(L) > 0 => \E f \in 1..Len(L) :
                  /\ DOMAIN t = f..Len(L)
                  /\ f = 1 \/ \E n \in f..Len(L) : L[n].detail.seq = f - 1

Marks(L) == {0} \cup {L[n].detail.seq : n \in 1..Len(L)}

OnceOK(L) ==
  \A n, m \in 1..Len(L) : n < m /\ L[n].source = L[m].source => \E k \in n..(m - 1) : k \in Marks(L)

SettledOK(L) == \A e \in Events : outbox[e] = "processed" => \E n \in 1..Len(L) : L[n].source = e

CountersOK ==
  /\ outbox \in [Events -> {"pending", "processed", "dead"}]
  /\ now \in 0..MaxTime /\ run \in {Idle} \cup 0..MaxPerRun
  /\ edits \in 0..MaxEdits /\ lost \in 0..MaxLost

ChainInv ==
  /\ LedgerOK(Ledger) /\ TableOK(table, Ledger, edits > 0)
  /\ edits = 0 => Whole(table, Ledger) /\ OnceOK(Ledger)
  /\ SettledOK(Ledger) /\ CountersOK

-----------------------------------------------------------------------------
(* The verification.                                                       *)

Verifiers(prev, seen) ==
  [phase : {"idle", "anchor", "read", "done"}, from : 0..MaxSeq, maxRows : RowLimits \cup {1},
   min : 0..MaxSeq, prev : {prev}, expected : Nat, seen : {seen}, complete : BOOLEAN,
   broken : Reasons \cup {"none"}, head : 0..MaxSeq, raced : BOOLEAN]

(* The rows read are the ledger's, those before the one expected next, and *)
(* begin after a boundary.                                                 *)
ReadOK(v, L) ==
  /\ v \in Verifiers(v.prev, v.seen)
  /\ v.head <= Len(L)
  /\ v.seen \in Seq(Entries(v.seen))
  /\ v.expected >= Len(v.seen) + 1 /\ v.expected <= Len(L) + 1
  /\ v.prev = Prefix(L, v.expected - 1)
  /\ \A i \in 1..Len(v.seen) : v.seen[i] = L[v.expected - Len(v.seen) + i - 1]
  /\ v.from <= v.min => v.expected - Len(v.seen) - 1 \in Marks(L)
  /\ v.complete => v.head < v.expected
  /\ v.phase \in {"idle", "anchor"} => v.seen = <<>>
  /\ v.phase # "done" => v.broken = "none" /\ ~v.complete
  /\ v.phase = "anchor" /\ v.from <= v.min => v.min > 1

(* While nobody meddles and retention does not run, the rows to read are   *)
(* there.                                                                  *)
Quiet(v, t, L) ==
  v.phase \in {"anchor", "read"} /\ ~v.raced =>
    /\ v.min \in 1..Len(L) /\ DOMAIN t = v.min..Len(L)
    /\ v.phase = "read" => v.min <= v.expected

VerifierInv ==
  /\ ReadOK(verifier, Ledger)
  /\ edits = 0 => Quiet(verifier, table, Ledger)
  /\ BrokenIsRight

AuditInv == ChainInv /\ VerifierInv

-----------------------------------------------------------------------------
(* Sequences.                                                              *)

LEMMA EntriesSuffice ==
  ASSUME NEW S, NEW s \in Seq(S)
  PROVE  s \in Seq(Entries(s)) /\ Entries(s) \subseteq S
<1>1. Len(s) \in Nat /\ s \in [1 .. Len(s) -> S] /\ DOMAIN s = 1 .. Len(s)
  OBVIOUS
<1>2. s \in [1 .. Len(s) -> Entries(s)]
  BY <1>1 DEF Entries
<1>3. s \in Seq(Entries(s))
  BY <1>1, <1>2, SeqDef
<1> QED
  BY <1>1, <1>3 DEF Entries

LEMMA Extended ==
  ASSUME NEW S, NEW s \in Seq(S), NEW c
  PROVE  /\ Append(s, c) \in Seq(Entries(Append(s, c)))
         /\ Len(Append(s, c)) = Len(s) + 1 /\ Append(s, c)[Len(s) + 1] = c
         /\ \A n \in 1 .. Len(s) : Append(s, c)[n] = s[n]
<1>1. PICK T : T = S \cup {c}
  OBVIOUS
<1>2. s \in Seq(T) /\ c \in T
  BY <1>1
<1>3. Append(s, c) \in Seq(T)
  BY <1>2
<1>4. Append(s, c) \in Seq(Entries(Append(s, c)))
  BY <1>3, EntriesSuffice
<1> QED
  BY <1>2, <1>4

LEMMA PrefixType ==
  ASSUME NEW S, NEW s \in Seq(S), NEW n \in 0 .. Len(s)
  PROVE  /\ Prefix(s, n) \in Seq(S) /\ Len(Prefix(s, n)) = n
         /\ \A i \in 1 .. n : Prefix(s, n)[i] = s[i]
  BY DEF Prefix

LEMMA WholePrefix ==
  ASSUME NEW S, NEW s \in Seq(S)
  PROVE  Prefix(s, Len(s)) = s /\ Prefix(s, 0) = <<>>
  BY DEF Prefix

LEMMA PrefixGrows ==
  ASSUME NEW S, NEW s \in Seq(S), NEW c, NEW n \in 0 .. Len(s)
  PROVE  Prefix(Append(s, c), n) = Prefix(s, n)
<1>1. PICK T : T = S \cup {c}
  OBVIOUS
<1>2. s \in Seq(T) /\ c \in T
  BY <1>1
<1>3. PICK a : a = Append(s, c)
  OBVIOUS
<1>4. a \in Seq(T) /\ Len(a) = Len(s) + 1 /\ \A i \in 1 .. Len(s) : a[i] = s[i]
  BY <1>2, <1>3
<1> QED
  BY <1>2, <1>3, <1>4 DEF Prefix

LEMMA NextPrefix ==
  ASSUME NEW S, NEW s \in Seq(S), NEW n \in 1 .. Len(s)
  PROVE  Prefix(s, n) = Append(Prefix(s, n - 1), s[n])
<1>1. PICK a, b : a = Prefix(s, n) /\ b = Prefix(s, n - 1)
  OBVIOUS
<1>2. /\ a \in Seq(S) /\ Len(a) = n /\ \A i \in 1 .. n : a[i] = s[i]
      /\ b \in Seq(S) /\ Len(b) = n - 1 /\ \A i \in 1 .. n - 1 : b[i] = s[i]
  <2>1. n \in 0 .. Len(s) /\ n - 1 \in 0 .. Len(s)
    OBVIOUS
  <2> QED
    BY <1>1, <2>1, PrefixType
<1>3. PICK c : c = Append(b, s[n])
  OBVIOUS
<1>4. s[n] \in S
  OBVIOUS
<1>5. c \in Seq(S) /\ Len(c) = n /\ c[n] = s[n] /\ \A i \in 1 .. n - 1 : c[i] = s[i]
  BY <1>2, <1>3, <1>4
<1>6. \A i \in 1 .. n : c[i] = a[i]
  BY <1>2, <1>5
<1> QED
  BY <1>1, <1>2, <1>3, <1>5, <1>6

LEMMA SameLast ==
  ASSUME NEW S, NEW s \in Seq(S), NEW x, NEW y, Append(s, x) = Append(s, y)
  PROVE  x = y
<1>1. Append(s, x)[Len(s) + 1] = x /\ Append(s, y)[Len(s) + 1] = y
  BY Extended
<1> QED
  BY <1>1

-----------------------------------------------------------------------------
(* Numbers and sets of numbers.                                            *)

LEMMA LeastOf ==
  ASSUME NEW I \in SUBSET Nat, I # {}
  PROVE  \E i \in I : \A k \in I : i <= k
<1> DEFINE R == {ss \in Nat \X Nat : ss[1] < ss[2]}
<1>1. IsWellFoundedOn(R, Nat)
  BY NatLessThanWellFounded DEF OpToRel
<1>2. PICK i \in I : \A k \in I : ~ (<<k, i>> \in R)
  <2> HIDE DEF R
  <2> QED
    BY <1>1, WFMin
<1>3. ASSUME NEW k \in I PROVE i <= k
  <2>1. i \in Nat /\ k \in Nat /\ ~(<<k, i>> \in R)
    BY <1>2
  <2> QED
    BY <2>1
<1> QED
  BY <1>3

LEMMA GreatestOf ==
  ASSUME NEW N \in Nat, NEW I \in SUBSET (0 .. N), I # {}
  PROVE  \E i \in I : \A k \in I : k <= i
<1>1. PICK J : J = {N - i : i \in I}
  OBVIOUS
<1>2. J \in SUBSET Nat /\ J # {}
  <2>1. ASSUME NEW i \in I PROVE N - i \in Nat
    OBVIOUS
  <2>2. J \subseteq Nat
    BY <1>1, <2>1
  <2> QED
    BY <1>1, <2>2
<1>3. PICK j \in J : \A k \in J : j <= k
  BY <1>2, LeastOf
<1>4. PICK i \in I : j = N - i
  BY <1>1, <1>3
<1>5. ASSUME NEW k \in I PROVE k <= i
  <2>1. N - k \in J /\ N - i <= N - k
    BY <1>1, <1>3, <1>4
  <2> QED
    BY <2>1
<1> QED
  BY <1>4, <1>5

LEMMA FiniteBelow ==
  ASSUME NEW N \in Nat, NEW I \in SUBSET (0 .. N)
  PROVE  IsFiniteSet(I) /\ Cardinality(I) \in Nat
<1>1. 0 \in Int /\ N \in Int
  OBVIOUS
<1>2. IsFiniteSet(0 .. N)
  BY <1>1, FS_Interval
<1>3. IsFiniteSet(I)
  BY <1>2, FS_Subset
<1> QED
  BY <1>3, FS_CardinalityType

LEMMA IntervalCount ==
  ASSUME NEW a \in Int, NEW b \in Int, a <= b + 1
  PROVE  IsFiniteSet(a .. b) /\ Cardinality(a .. b) = b - a + 1
<1>1. CASE a > b
  <2>1. a .. b = {} /\ b - a + 1 = 0
    BY <1>1
  <2> QED
    BY <2>1, FS_EmptySet
<1>2. CASE ~(a > b)
  BY <1>2, FS_Interval
<1> QED
  BY <1>1, <1>2

LEMMA IntervalGrows ==
  ASSUME NEW N \in Nat, NEW f \in 1 .. (N + 1)
  PROVE  (f .. N) \cup {N + 1} = f .. (N + 1)
  OBVIOUS

-----------------------------------------------------------------------------
(* The table and the ledger.                                               *)

LEMMA Sizes == /\ Retention \in Nat /\ PruneChunk \in Nat \ {0} /\ MaxPerRun \in Nat \ {0}
               /\ Chunk \in Nat \ {0} /\ RowLimits \subseteq Nat \ {0} /\ Skew \in Nat
               /\ MaxSeq \in Nat /\ MaxTime \in Nat /\ MaxEdits \in Nat /\ MaxLost \in Nat
  BY SizesAssumption

LEMMA LedgerType ==
  ASSUME NEW L, LedgerOK(L)
  PROVE  /\ L \in Seq(Entries(L)) /\ Len(L) \in Nat /\ Len(L) <= MaxSeq
         /\ \A n \in 0 .. Len(L) : Len(Prefix(L, n)) = n
         /\ \A n \in 1 .. Len(L) : /\ L[n].seq = n
                                   /\ L[n].at \in 0 .. (MaxTime + Skew)
                                   /\ L[n].detail.seq \in 0 .. (n - 1)
<1>1. L \in Seq(Entries(L)) /\ Len(L) \in Nat /\ Len(L) <= MaxSeq
  BY DEF LedgerOK
<1>2. \A n \in 0 .. Len(L) : Len(Prefix(L, n)) = n
  BY <1>1, PrefixType
<1>3. ASSUME NEW n \in 1 .. Len(L)
      PROVE  L[n].seq = n /\ L[n].at \in 0 .. (MaxTime + Skew) /\ L[n].detail.seq \in 0 .. (n - 1)
  <2>1. EntryOK(L, n)
    BY DEF LedgerOK
  <2>2. PICK x : x = L[n]
    OBVIOUS
  <2>3. x = Content(L, n, L[n].detail.hash)
    BY <2>1, <2>2 DEF EntryOK
  <2>4. x.seq = n
    BY <2>3 DEF Content
  <2> QED
    BY <2>1, <2>2, <2>4 DEF EntryOK
<1> QED
  BY <1>1, <1>2, <1>3

(* What a row says, whether somebody changed it or not.                    *)
LEMMA RowSays ==
  ASSUME NEW L, NEW t, NEW b, LedgerOK(L), TableOK(t, L, b), NEW n \in DOMAIN t
  PROVE  /\ n \in 1 .. Len(L)
         /\ t[n].content.seq = n /\ t[n].content.source = L[n].source /\ t[n].content.at = L[n].at
         /\ t[n].content.detail.seq = L[n].detail.seq
         /\ t[n].prev = Prefix(L, n - 1) /\ t[n].hash = Prefix(L, n)
         /\ ~b => t[n].content = L[n]
<1>1. n \in 1 .. Len(L)
  BY DEF TableOK
<1>2. PICK h : /\ t[n] = Row(L, n, h)
               /\ ~b => h = L[n].detail.hash
  BY DEF TableOK
<1>3. EntryOK(L, n)
  BY <1>1 DEF LedgerOK
<1>4. L[n] = Content(L, n, L[n].detail.hash)
  BY <1>3 DEF EntryOK
<1>5. /\ t[n].content = Content(L, n, h)
      /\ t[n].prev = Prefix(L, n - 1) /\ t[n].hash = Prefix(L, n)
  BY <1>2 DEF Row
<1>6. PICK x : x = t[n].content
  OBVIOUS
<1>7. x = Content(L, n, h)
  BY <1>5, <1>6
<1>8. x.seq = n /\ x.source = L[n].source /\ x.at = L[n].at /\ x.detail.seq = L[n].detail.seq
  BY <1>7 DEF Content
<1>9. ~b => t[n].content = L[n]
  BY <1>2, <1>4, <1>5
<1> QED
  BY <1>1, <1>5, <1>6, <1>8, <1>9

(* Nobody changed a row.                                                   *)
IsRecorded(L, t, n) == t[n].content = L[n] /\ t[n].prev = Prefix(L, n - 1) /\ t[n].hash = Prefix(L, n)

LEMMA RowIntact ==
  ASSUME NEW L, NEW t, LedgerOK(L), TableOK(t, L, FALSE), NEW n \in DOMAIN t
  PROVE  IsRecorded(L, t, n)
<1>1. n \in 1 .. Len(L) /\ t[n] = Row(L, n, L[n].detail.hash)
  BY DEF TableOK
<1>2. L[n] = Content(L, n, L[n].detail.hash)
  BY <1>1 DEF LedgerOK, EntryOK
<1> QED
  BY <1>1, <1>2 DEF Row, IsRecorded

(* The last row of the table is the last of the ledger, and its hash is    *)
(* the ledger.                                                             *)
LEMMA TableEnds ==
  ASSUME NEW L, NEW t, NEW b, LedgerOK(L), TableOK(t, L, b)
  PROVE  LastSeq(t) = Len(L) /\ HeadHash(t) = L /\ (DOMAIN t = {} <=> Len(L) = 0)
<1>1. L \in Seq(Entries(L)) /\ Len(L) \in Nat
  BY LedgerType
<1>2. DOMAIN t \subseteq 1 .. Len(L) /\ (Len(L) > 0 => Len(L) \in DOMAIN t)
  BY DEF TableOK
<1>3. DOMAIN t = {} <=> Len(L) = 0
  BY <1>1, <1>2
<1>4. CASE Len(L) = 0
  <2>1. L = <<>>
    BY <1>1, <1>4
  <2> QED
    BY <1>3, <1>4, <2>1 DEF LastSeq, HeadHash, Genesis
<1>5. CASE Len(L) # 0
  <2>1. Len(L) \in DOMAIN t /\ DOMAIN t # {}
    BY <1>1, <1>2, <1>5
  <2>2. \A m \in DOMAIN t : m <= Len(L)
    BY <1>1, <1>2
  <2>3. \A n \in DOMAIN t : (\A m \in DOMAIN t : m <= n) => n = Len(L)
    BY <1>1, <1>2, <2>1, <2>2
  <2>4. LastSeq(t) = Len(L)
    BY <2>1, <2>2, <2>3 DEF LastSeq
  <2>5. t[Len(L)].hash = L
    BY <1>1, <2>1, RowSays, WholePrefix
  <2> QED
    BY <1>3, <2>1, <2>4, <2>5 DEF HeadHash
<1> QED
  BY <1>4, <1>5

(* The first row of a table.                                               *)
LEMMA TableBegins ==
  ASSUME NEW L, NEW t, NEW b, LedgerOK(L), TableOK(t, L, b), DOMAIN t # {}
  PROVE  FirstSeq(t) \in DOMAIN t /\ \A m \in DOMAIN t : FirstSeq(t) <= m
<1>1. DOMAIN t \in SUBSET Nat
  BY LedgerType DEF TableOK
<1>2. \E n \in DOMAIN t : \A m \in DOMAIN t : n <= m
  BY <1>1, LeastOf
<1> QED
  BY <1>2 DEF FirstSeq

(* recorded_at never goes back.                                            *)
LEMMA NextAtType ==
  ASSUME NEW L, NEW t, NEW b, LedgerOK(L), TableOK(t, L, b), NEW clock \in 0 .. (MaxTime + Skew)
  PROVE  /\ NextAt(t, clock) \in 0 .. (MaxTime + Skew)
         /\ \A m \in 1 .. Len(L) : L[m].at <= NextAt(t, clock)
<1>1. /\ LastSeq(t) = Len(L) /\ Len(L) \in Nat /\ (DOMAIN t = {} <=> Len(L) = 0)
  BY TableEnds, LedgerType
<1>2. CASE Len(L) = 0
  BY <1>1, <1>2 DEF NextAt
<1>3. CASE Len(L) # 0
  <2>1. Len(L) \in DOMAIN t /\ Len(L) \in 1 .. Len(L)
    BY <1>1, <1>3 DEF TableOK
  <2>2. PICK a : a = L[Len(L)].at
    OBVIOUS
  <2>3. t[Len(L)].content.at = a
    BY <2>1, <2>2, RowSays
  <2>4. a \in 0 .. (MaxTime + Skew) /\ \A m \in 1 .. Len(L) : L[m].at <= a
    BY <2>1, <2>2 DEF LedgerOK, EntryOK
  <2>5. NextAt(t, clock) = MaxOf(clock, a)
    BY <1>1, <1>3, <2>3 DEF NextAt
  <2>6. PICK x : x = MaxOf(clock, a)
    OBVIOUS
  <2>7. x \in {clock, a} /\ clock <= x /\ a <= x /\ MaxTime + Skew \in Nat
    BY <2>4, <2>6, Sizes DEF MaxOf
  <2>8. \A m \in 1 .. Len(L) : L[m].at \in Int
    BY LedgerType
  <2> QED
    BY <2>4, <2>5, <2>6, <2>7, <2>8
<1> QED
  BY <1>2, <1>3

(* A ledger that is extended keeps what it says of the rows before.        *)
LEMMA Kept ==
  ASSUME NEW L, LedgerOK(L), NEW c, NEW M, M = RowHash(L, c)
  PROVE  /\ M \in Seq(Entries(M)) /\ Len(M) = Len(L) + 1 /\ M[Len(M)] = c
         /\ \A n \in 1 .. Len(L) : M[n] = L[n]
         /\ \A n \in 0 .. Len(L) : Prefix(M, n) = Prefix(L, n)
         /\ \A n \in 1 .. Len(L) : EntryOK(M, n)
         /\ \A n \in 1 .. Len(L) : \A h : Row(M, n, h) = Row(L, n, h)
         /\ Marks(L) \subseteq Marks(M)
<1>1. L \in Seq(Entries(L)) /\ Len(L) \in Nat
  BY LedgerType
<1>2. /\ M \in Seq(Entries(M)) /\ Len(M) = Len(L) + 1 /\ M[Len(M)] = c
      /\ \A n \in 1 .. Len(L) : M[n] = L[n]
  BY <1>1, Extended DEF RowHash
<1>3. \A n \in 0 .. Len(L) : Prefix(M, n) = Prefix(L, n)
  BY <1>1, PrefixGrows DEF RowHash
<1>4. ASSUME NEW n \in 1 .. Len(L) PROVE EntryOK(M, n)
  <2>1. EntryOK(L, n) /\ M[n] = L[n]
    BY <1>2 DEF LedgerOK
  <2>2. Content(M, n, M[n].detail.hash) = Content(L, n, L[n].detail.hash)
    BY <2>1 DEF Content
  <2>3. \A m \in 1 .. n : M[m] = L[m]
    BY <1>1, <1>2
  <2>4. L[n].detail.seq \in 0 .. (n - 1) /\ Prefix(M, L[n].detail.seq) = Prefix(L, L[n].detail.seq)
    <3>1. L[n].detail.seq \in 0 .. (n - 1)
      BY <2>1 DEF EntryOK
    <3>2. L[n].detail.seq \in 0 .. Len(L)
      BY <1>1, <3>1
    <3> QED
      BY <1>3, <3>1, <3>2
  <2> QED
    BY <2>1, <2>2, <2>3, <2>4 DEF EntryOK
<1>5. ASSUME NEW n \in 1 .. Len(L), NEW h PROVE Row(M, n, h) = Row(L, n, h)
  <2>1. n - 1 \in 0 .. Len(L) /\ n \in 0 .. Len(L)
    BY <1>1
  <2>2. Content(M, n, h) = Content(L, n, h)
    BY <1>2 DEF Content
  <2> QED
    BY <1>3, <2>1, <2>2 DEF Row
<1>6. Marks(L) \subseteq Marks(M)
  <2>1. \A n \in 1 .. Len(L) : n \in 1 .. Len(M) /\ M[n].detail.seq = L[n].detail.seq
    BY <1>1, <1>2
  <2> QED
    BY <2>1 DEF Marks
<1> QED
  BY <1>2, <1>3, <1>4, <1>5, <1>6

(* What may be written after the ledger: an event, or the checkpoint of a  *)
(* row.                                                                    *)
Writable(L, source, detail) ==
  \/ source \in Events /\ detail = Plain
  \/ \E n \in 1 .. Len(L) : /\ source = CheckpointSource(n)
                            /\ detail = [seq |-> n, hash |-> Prefix(L, n)]

LEMMA LedgerGrows ==
  ASSUME NEW L, LedgerOK(L), Len(L) < MaxSeq, NEW source, NEW detail, Writable(L, source, detail),
         NEW a \in 0 .. (MaxTime + Skew), \A m \in 1 .. Len(L) : L[m].at <= a,
         NEW c, c = [seq |-> Len(L) + 1, source |-> source, at |-> a, detail |-> detail],
         NEW M, M = RowHash(L, c)
  PROVE  LedgerOK(M)
<1>1. L \in Seq(Entries(L)) /\ Len(L) \in Nat
  BY LedgerType
<1>2. /\ M \in Seq(Entries(M)) /\ Len(M) = Len(L) + 1 /\ M[Len(M)] = c
      /\ \A n \in 1 .. Len(L) : M[n] = L[n]
      /\ \A n \in 0 .. Len(L) : Prefix(M, n) = Prefix(L, n)
      /\ \A n \in 1 .. Len(L) : EntryOK(M, n)
  BY Kept
<1>3. PICK d, h : /\ detail = [seq |-> d, hash |-> h] /\ d \in 0 .. Len(L)
                  /\ d = 0 => source \in Events
                  /\ d > 0 => source = CheckpointSource(d) /\ h = Prefix(L, d)
  <2>1. CASE source \in Events /\ detail = Plain
    <3>1. detail = [seq |-> 0, hash |-> Genesis] /\ 0 \in 0 .. Len(L) /\ ~(0 > 0)
      BY <1>1, <2>1 DEF Plain
    <3> QED
      BY <2>1, <3>1, Zenon
  <2>2. CASE \E n \in 1 .. Len(L) : /\ source = CheckpointSource(n)
                                    /\ detail = [seq |-> n, hash |-> Prefix(L, n)]
    <3>1. PICK n \in 1 .. Len(L) : /\ source = CheckpointSource(n)
                                   /\ detail = [seq |-> n, hash |-> Prefix(L, n)]
      BY <2>2
    <3>2. n \in 0 .. Len(L) /\ n # 0
      BY <1>1
    <3> QED
      BY <3>1, <3>2
  <2> QED
    BY <2>1, <2>2 DEF Writable
<1>4. PICK N : N = Len(L) + 1
  OBVIOUS
<1>5. EntryOK(M, N)
  <2>1. M[N] = c
    BY <1>2, <1>4
  <2>2. /\ c.seq = N /\ c.source = source /\ c.at = a /\ c.detail = detail
    BY <1>4
  <2>3. c.detail.seq = d /\ c.detail.hash = h
    BY <1>3, <2>2
  <2>4. M[N] = Content(M, N, M[N].detail.hash)
    BY <1>3, <1>4, <2>1, <2>2, <2>3 DEF Content
  <2>5. \A m \in 1 .. N : M[m].at <= a
    <3>1. ASSUME NEW m \in 1 .. N PROVE M[m].at <= a
      <4>1. CASE m = N
        <5>1. a <= a
          OBVIOUS
        <5> QED
          BY <2>1, <2>2, <4>1, <5>1
      <4>2. CASE m # N
        <5>1. m \in 1 .. Len(L)
          BY <1>1, <1>4, <4>2
        <5> QED
          BY <1>2, <5>1
      <4> QED
        BY <4>1, <4>2
    <3> QED
      BY <3>1
  <2>6. d \in 0 .. (N - 1) /\ Prefix(M, d) = Prefix(L, d)
    BY <1>1, <1>2, <1>3, <1>4
  <2> QED
    BY <1>3, <2>1, <2>2, <2>3, <2>4, <2>5, <2>6 DEF EntryOK
<1>6. \A n \in 1 .. N : n \in 1 .. Len(L) \/ n = N
  BY <1>1, <1>4
<1>7. Len(M) = N /\ N <= MaxSeq
  BY <1>1, <1>2, <1>4, Sizes
<1> QED
  BY <1>2, <1>5, <1>6, <1>7 DEF LedgerOK

(* A row is appended to the table.                                         *)
Addable(L, t, b, source, detail) ==
  /\ LedgerOK(L) /\ TableOK(t, L, b) /\ Len(L) < MaxSeq
  /\ Writable(L, source, detail) /\ ~Recorded(t, source)
  /\ detail.seq \in 0 .. Len(L) /\ \A n \in DOMAIN t : detail.seq < n
Added(L, t, b, source, detail, u) ==
  \E c : /\ c.source = source /\ c.detail = detail
         /\ LedgerOK(RowHash(L, c)) /\ TableOK(u, RowHash(L, c), b)
         /\ DOMAIN u = DOMAIN t \cup {Len(L) + 1}

LEMMA TableGrows ==
  ASSUME NEW L, NEW t, NEW b, NEW source, NEW detail, Addable(L, t, b, source, detail),
         NEW clock \in 0 .. (MaxTime + Skew)
  PROVE  Added(L, t, b, source, detail, AppendLocked(t, source, detail, clock))
<1> SUFFICES ASSUME NEW u, u = AppendLocked(t, source, detail, clock)
             PROVE  Added(L, t, b, source, detail, u)
  OBVIOUS
<1>0. /\ LedgerOK(L) /\ TableOK(t, L, b) /\ Len(L) < MaxSeq
      /\ Writable(L, source, detail) /\ ~Recorded(t, source)
      /\ detail.seq \in 0 .. Len(L) /\ \A n \in DOMAIN t : detail.seq < n
  BY DEF Addable
<1>1. L \in Seq(Entries(L)) /\ Len(L) \in Nat
  BY <1>0, LedgerType
<1>2. LastSeq(t) = Len(L) /\ HeadHash(t) = L
  BY <1>0, TableEnds
<1>3. PICK a : a = NextAt(t, clock)
  OBVIOUS
<1>4. a \in 0 .. (MaxTime + Skew) /\ \A m \in 1 .. Len(L) : L[m].at <= a
  BY <1>0, <1>3, NextAtType
<1>5. PICK N, c : N = Len(L) + 1 /\ c = [seq |-> N, source |-> source, at |-> a, detail |-> detail]
  OBVIOUS
<1>6. PICK M : M = RowHash(L, c)
  OBVIOUS
<1>7. LedgerOK(M)
  BY <1>0, <1>4, <1>5, <1>6, LedgerGrows
<1>8. /\ M \in Seq(Entries(M)) /\ Len(M) = N /\ M[N] = c
      /\ \A n \in 1 .. Len(L) : M[n] = L[n]
      /\ \A n \in 0 .. Len(L) : Prefix(M, n) = Prefix(L, n)
      /\ \A n \in 1 .. Len(L) : \A h : Row(M, n, h) = Row(L, n, h)
  BY <1>0, <1>5, <1>6, Kept
<1>9. NewRow(t, source, detail, clock) = [content |-> c, prev |-> L, hash |-> M]
  BY <1>2, <1>3, <1>5, <1>6 DEF NewRow
<1>10. /\ DOMAIN u = DOMAIN t \cup {N}
       /\ \A n \in DOMAIN t : u[n] = t[n]
       /\ N \notin DOMAIN t => u[N] = [content |-> c, prev |-> L, hash |-> M]
  BY <1>0, <1>2, <1>5, <1>9 DEF AppendLocked
<1>11. N \notin DOMAIN t /\ DOMAIN t \subseteq 1 .. Len(L) /\ DOMAIN t \subseteq 1 .. N /\ N \in 1 .. N
  BY <1>0, <1>1, <1>5 DEF TableOK
<1>12. u[N] = Row(M, N, M[N].detail.hash)
  <2>1. Prefix(M, N - 1) = L
    <3>1. N - 1 = Len(L) /\ Len(L) \in 0 .. Len(L)
      BY <1>1, <1>5
    <3> QED
      BY <1>1, <1>8, <3>1, WholePrefix
  <2>2. Prefix(M, N) = M
    BY <1>8, WholePrefix
  <2>3. c = Content(M, N, M[N].detail.hash)
    BY <1>7, <1>8, <1>11 DEF LedgerOK, EntryOK
  <2> QED
    BY <1>10, <1>11, <2>1, <2>2, <2>3 DEF Row
<1>13. ASSUME NEW n \in DOMAIN u
       PROVE  u[n] = Row(M, n, M[n].detail.hash) \/ (b /\ u[n] = Row(M, n, Forged))
  <2>1. CASE n = N
    BY <1>12, <2>1
  <2>2. CASE n # N
    <3>1. n \in DOMAIN t /\ u[n] = t[n] /\ n \in 1 .. Len(L)
      BY <1>10, <1>11, <2>2
    <3> QED
      BY <1>0, <1>8, <3>1 DEF TableOK
  <2> QED
    BY <2>1, <2>2
<1>14. ASSUME NEW m \in 1 .. N, NEW n \in DOMAIN u PROVE M[m].detail.seq < n
  <2>1. CASE n = N
    <3>1. M[m].detail.seq \in 0 .. (m - 1)
      BY <1>7, <1>8, LedgerType
    <3> QED
      BY <1>1, <1>5, <2>1, <3>1
  <2>2. CASE n \in DOMAIN t
    <3>1. CASE m = N
      BY <1>0, <1>5, <1>8, <2>2, <3>1
    <3>2. CASE m # N
      <4>1. m \in 1 .. Len(L)
        BY <1>1, <1>5, <3>2
      <4> QED
        BY <1>0, <1>8, <2>2, <4>1 DEF TableOK
    <3> QED
      BY <3>1, <3>2
  <2> QED
    BY <1>10, <2>1, <2>2
<1>15. TableOK(u, M, b)
  BY <1>8, <1>10, <1>11, <1>13, <1>14 DEF TableOK
<1>16. c.source = source /\ c.detail = detail
  BY <1>5
<1> QED
  BY <1>5, <1>6, <1>7, <1>10, <1>15, <1>16 DEF Added

-----------------------------------------------------------------------------
(* The invariant before and after a step.                                  *)

LEMMA Before ==
  ASSUME AuditInv
  PROVE  \E L : /\ L = HeadHash(table) /\ LedgerOK(L) /\ TableOK(table, L, edits > 0)
                /\ edits = 0 => Whole(table, L) /\ OnceOK(L)
                /\ \A e \in Events : outbox[e] = "processed" => \E n \in 1 .. Len(L) : L[n].source = e
                /\ ReadOK(verifier, L)
                /\ edits = 0 => Quiet(verifier, table, L)
  BY DEF AuditInv, ChainInv, VerifierInv, Ledger, SettledOK

LEMMA After ==
  ASSUME NEW M, LedgerOK(M), TableOK(table', M, edits' > 0),
         edits' = 0 => Whole(table', M) /\ OnceOK(M),
         \A e \in Events : outbox'[e] = "processed" => \E n \in 1 .. Len(M) : M[n].source = e,
         CountersOK', ReadOK(verifier', M), edits' = 0 => Quiet(verifier', table', M), BrokenIsRight'
  PROVE  AuditInv' /\ HeadHash(table') = M
<1>1. HeadHash(table') = M
  <2>1. PICK t, b : t = table' /\ b = (edits' > 0)
    OBVIOUS
  <2>2. TableOK(t, M, b)
    BY <2>1
  <2> QED
    BY <2>1, <2>2, TableEnds
<1>2. Ledger' = M
  BY <1>1 DEF Ledger, HeadHash, LastSeq
<1>3. ChainInv'
  BY <1>2 DEF ChainInv, LedgerOK, TableOK, Whole, OnceOK, SettledOK
<1>4. VerifierInv'
  BY <1>2 DEF VerifierInv, ReadOK, Quiet
<1> QED
  BY <1>1, <1>3, <1>4 DEF AuditInv

(* A verification goes on as it was while the ledger grows.                *)
LEMMA ReadKept ==
  ASSUME NEW L, LedgerOK(L), NEW M, M = L \/ \E c : M = RowHash(L, c), NEW v, ReadOK(v, L)
  PROVE  ReadOK(v, M)
<1>1. CASE M = L
  BY <1>1
<1>2. CASE \E c : M = RowHash(L, c)
  <2>1. PICK c : M = RowHash(L, c)
    BY <1>2
  <2>2. /\ Len(M) = Len(L) + 1 /\ Len(L) \in Nat
        /\ \A n \in 1 .. Len(L) : M[n] = L[n]
        /\ \A n \in 0 .. Len(L) : Prefix(M, n) = Prefix(L, n)
        /\ Marks(L) \subseteq Marks(M)
    <3>1. Len(L) \in Nat
      BY LedgerType
    <3>2. Len(M) = Len(L) + 1 /\ \A n \in 1 .. Len(L) : M[n] = L[n]
      BY <2>1, Kept
    <3>3. (\A n \in 0 .. Len(L) : Prefix(M, n) = Prefix(L, n)) /\ Marks(L) \subseteq Marks(M)
      BY <2>1, Kept
    <3> QED
      BY <3>1, <3>2, <3>3
  <2>3. PICK x, s : x = v.expected /\ s = v.seen
    OBVIOUS
  <2>4. /\ x \in Nat /\ s \in Seq(Entries(s)) /\ x >= Len(s) + 1 /\ x <= Len(L) + 1
        /\ v.prev = Prefix(L, x - 1) /\ v.head \in Nat /\ v.head <= Len(L)
        /\ \A i \in 1 .. Len(s) : s[i] = L[x - Len(s) + i - 1]
    BY <2>3, Sizes DEF ReadOK, Verifiers
  <2>5. Len(s) \in Nat /\ x - 1 \in 0 .. Len(L)
    BY <2>2, <2>4
  <2>6. \A i \in 1 .. Len(s) : s[i] = M[x - Len(s) + i - 1]
    <3>1. ASSUME NEW i \in 1 .. Len(s) PROVE s[i] = M[x - Len(s) + i - 1]
      <4>1. x - Len(s) + i - 1 \in 1 .. Len(L)
        BY <2>2, <2>4, <2>5
      <4> QED
        BY <2>2, <2>4, <4>1
    <3> QED
      BY <3>1
  <2>7. v.prev = Prefix(M, x - 1)
    BY <2>2, <2>4, <2>5
  <2>8. v.head <= Len(M) /\ x <= Len(M) + 1
    BY <2>2, <2>4
  <2>9. v.from <= v.min => x - Len(s) - 1 \in Marks(M)
    BY <2>2, <2>3 DEF ReadOK
  <2> QED
    BY <2>3, <2>6, <2>7, <2>8, <2>9 DEF ReadOK
<1> QED
  BY <1>1, <1>2

(* One source is recorded again only after a boundary.                     *)
LEMMA OnceGrows ==
  ASSUME NEW L, LedgerOK(L), OnceOK(L), NEW c, NEW M, M = RowHash(L, c),
         \A n \in 1 .. Len(L) : L[n].source = c.source => \E k \in n .. Len(L) : k \in Marks(L)
  PROVE  OnceOK(M)
<1>1. /\ Len(M) = Len(L) + 1 /\ Len(L) \in Nat /\ M[Len(M)] = c
      /\ \A n \in 1 .. Len(L) : M[n] = L[n]
      /\ Marks(L) \subseteq Marks(M)
  BY Kept, LedgerType
<1> SUFFICES ASSUME NEW n \in 1 .. Len(M), NEW m \in 1 .. Len(M), n < m, M[n].source = M[m].source
             PROVE  \E k \in n .. (m - 1) : k \in Marks(M)
  BY DEF OnceOK
<1>2. n \in 1 .. Len(L) /\ M[n] = L[n]
  BY <1>1
<1>3. CASE m = Len(M)
  <2>1. PICK k \in n .. Len(L) : k \in Marks(L)
    BY <1>1, <1>2, <1>3
  <2>2. k \in n .. (m - 1)
    BY <1>1, <1>3
  <2> QED
    BY <1>1, <2>1, <2>2
<1>4. CASE m # Len(M)
  <2>1. m \in 1 .. Len(L) /\ M[m] = L[m]
    BY <1>1, <1>4
  <2>2. PICK k \in n .. (m - 1) : k \in Marks(L)
    BY <1>2, <2>1 DEF OnceOK
  <2> QED
    BY <1>1, <2>2
<1> QED
  BY <1>3, <1>4

-----------------------------------------------------------------------------
(* Steps that leave the table alone, or add a row to it.                   *)

LEMMA StepStill ==
  ASSUME AuditInv, UNCHANGED <<table, verifier, edits>>, CountersOK',
         \A e \in Events : outbox'[e] = "processed" => outbox[e] = "processed"
  PROVE  AuditInv'
<1>1. PICK L : /\ L = HeadHash(table) /\ LedgerOK(L) /\ TableOK(table, L, edits > 0)
               /\ edits = 0 => Whole(table, L) /\ OnceOK(L)
               /\ \A e \in Events : outbox[e] = "processed" => \E n \in 1 .. Len(L) : L[n].source = e
               /\ ReadOK(verifier, L)
               /\ edits = 0 => Quiet(verifier, table, L)
  BY Before
<1>2. BrokenIsRight'
  BY DEF AuditInv, VerifierInv, BrokenIsRight, Beyond
<1>3. /\ TableOK(table', L, edits' > 0)
      /\ edits' = 0 => Whole(table', L) /\ OnceOK(L) /\ Quiet(verifier', table', L)
      /\ ReadOK(verifier', L)
  BY <1>1
<1> QED
  BY <1>1, <1>2, <1>3, After

LEMMA StepRetention ==
  ASSUME AuditInv, StartRetention \/ NothingToPrune \/ Tick \/ \E e \in Events : RejectUnreadable(e)
  PROVE  AuditInv'
<1>1. UNCHANGED <<table, verifier, edits>>
  BY DEF StartRetention, NothingToPrune, Tick, RejectUnreadable
<1>2. CountersOK
  BY DEF AuditInv, ChainInv
<1>3. CASE StartRetention \/ NothingToPrune
  BY <1>1, <1>2, <1>3, StepStill, Sizes DEF StartRetention, NothingToPrune, CountersOK
<1>4. CASE Tick
  <2>1. now' \in 0 .. MaxTime
    BY <1>2, <1>4, Sizes DEF Tick, CountersOK
  <2> QED
    BY <1>1, <1>2, <1>4, <2>1, StepStill DEF Tick, CountersOK
<1>5. CASE \E e \in Events : RejectUnreadable(e)
  <2>1. PICK e \in Events : RejectUnreadable(e)
    BY <1>5
  <2>2. /\ outbox' \in [Events -> {"pending", "processed", "dead"}]
        /\ \A i \in Events : outbox'[i] = "processed" => outbox[i] = "processed"
    BY <1>2, <2>1 DEF RejectUnreadable, CountersOK
  <2> QED
    BY <1>1, <1>2, <2>1, <2>2, StepStill DEF RejectUnreadable, CountersOK
<1> QED
  BY <1>3, <1>4, <1>5

LEMMA ClockType ==
  ASSUME CountersOK, NEW clock \in Clocks
  PROVE  clock \in 0 .. (MaxTime + Skew)
<1>1. now \in Nat /\ now <= MaxTime /\ MaxTime \in Nat /\ Skew \in Nat
  BY Sizes DEF CountersOK
<1>2. clock \in Int /\ clock >= 0 /\ clock <= now + Skew
  BY <1>1 DEF Clocks
<1> QED
  BY <1>1, <1>2

(* An event is recorded, unless it is there already.                       *)
LEMMA StepDeliver ==
  ASSUME AuditInv, NEW e \in Events, Deliver(e)
  PROVE  /\ AuditInv'
         /\ HeadHash(table') = HeadHash(table) \/ \E c : HeadHash(table') = RowHash(HeadHash(table), c)
         /\ DOMAIN table \subseteq DOMAIN table'
<1>1. PICK L : /\ L = HeadHash(table) /\ LedgerOK(L) /\ TableOK(table, L, edits > 0)
               /\ edits = 0 => Whole(table, L) /\ OnceOK(L)
               /\ \A i \in Events : outbox[i] = "processed" => \E n \in 1 .. Len(L) : L[n].source = i
               /\ ReadOK(verifier, L)
               /\ edits = 0 => Quiet(verifier, table, L)
  BY Before
<1>2. CountersOK
  BY DEF AuditInv, ChainInv
<1>3. PICK clock \in Clocks : table' = AppendLocked(table, e, Plain, clock)
  BY DEF Deliver
<1>4. /\ LastSeq(table) < MaxSeq /\ UNCHANGED <<now, run, verifier, edits>>
      /\ \/ outbox' = [outbox EXCEPT ![e] = "processed"] /\ UNCHANGED lost
         \/ lost < MaxLost /\ lost' = lost + 1 /\ UNCHANGED outbox
  BY DEF Deliver
<1>5. /\ CountersOK' 
      /\ \A i \in Events \ {e} : outbox'[i] = outbox[i]
  <2>1. CASE outbox' = [outbox EXCEPT ![e] = "processed"] /\ UNCHANGED lost
    BY <1>2, <1>4, <2>1 DEF CountersOK
  <2>2. CASE lost < MaxLost /\ lost' = lost + 1 /\ UNCHANGED outbox
    <3>1. lost' \in 0 .. MaxLost
      BY <1>2, <2>2, Sizes DEF CountersOK
    <3> QED
      BY <1>2, <1>4, <2>2, <3>1 DEF CountersOK
  <2> QED
    BY <1>4, <2>1, <2>2
<1>6. BrokenIsRight'
  BY <1>4 DEF AuditInv, VerifierInv, BrokenIsRight, Beyond
<1>7. CASE Recorded(table, e)
  <2>1. table' = table
    BY <1>3, <1>7 DEF AppendLocked
  <2>2. \E n \in 1 .. Len(L) : L[n].source = e
    <3>1. PICK n \in DOMAIN table : table[n].content.source = e
      BY <1>7 DEF Recorded
    <3>2. n \in 1 .. Len(L) /\ table[n].content.source = L[n].source
      BY <1>1, RowSays
    <3> QED
      BY <3>1, <3>2
  <2>3. \A i \in Events : outbox'[i] = "processed" => \E n \in 1 .. Len(L) : L[n].source = i
    BY <1>1, <1>5, <2>2
  <2>4. /\ TableOK(table', L, edits' > 0)
        /\ edits' = 0 => Whole(table', L) /\ OnceOK(L) /\ Quiet(verifier', table', L)
        /\ ReadOK(verifier', L)
    BY <1>1, <1>4, <2>1
  <2>5. AuditInv' /\ HeadHash(table') = L
    BY <1>1, <1>5, <1>6, <2>3, <2>4, After
  <2> QED
    BY <1>1, <2>1, <2>5
<1>8. CASE ~Recorded(table, e)
  <2>1. PICK t, u, b, v : t = table /\ u = table' /\ b = (edits > 0) /\ v = verifier
    OBVIOUS
  <2>2. /\ TableOK(t, L, b) /\ ~Recorded(t, e) /\ u = AppendLocked(t, e, Plain, clock)
        /\ LastSeq(t) < MaxSeq
    BY <1>1, <1>3, <1>4, <1>8, <2>1
  <2>3. Len(L) \in Nat /\ Len(L) < MaxSeq /\ (DOMAIN t = {} <=> Len(L) = 0) /\ DOMAIN t \subseteq 1 .. Len(L)
    <3>1. LastSeq(t) = Len(L) /\ (DOMAIN t = {} <=> Len(L) = 0)
      BY <1>1, <2>2, TableEnds
    <3>2. Len(L) \in Nat /\ DOMAIN t \subseteq 1 .. Len(L)
      BY <1>1, <2>2, LedgerType DEF TableOK
    <3> QED
      BY <2>2, <3>1, <3>2
  <2>4. Writable(L, e, Plain) /\ Plain.seq \in 0 .. Len(L) /\ \A n \in DOMAIN t : Plain.seq < n
    <3>1. Plain.seq = 0
      BY DEF Plain
    <3>2. 0 \in 0 .. Len(L) /\ \A n \in DOMAIN t : 0 < n
      BY <2>3
    <3> QED
      BY <3>1, <3>2 DEF Writable
  <2>5. clock \in 0 .. (MaxTime + Skew)
    BY <1>2, ClockType
  <2>6. PICK c : /\ c.source = e /\ c.detail = Plain
                 /\ LedgerOK(RowHash(L, c)) /\ TableOK(u, RowHash(L, c), b)
                 /\ DOMAIN u = DOMAIN t \cup {Len(L) + 1}
    <3>1. Addable(L, t, b, e, Plain)
      BY <1>1, <2>2, <2>3, <2>4 DEF Addable
    <3>2. Added(L, t, b, e, Plain, u)
      BY <2>2, <2>5, <3>1, TableGrows
    <3> QED
      BY <3>2 DEF Added
  <2>7. PICK M : M = RowHash(L, c)
    OBVIOUS
  <2>8. Len(M) = Len(L) + 1 /\ M[Len(M)] = c /\ \A n \in 1 .. Len(L) : M[n] = L[n]
    BY <1>1, <2>7, Kept
  <2>9. ReadOK(v, M)
    BY <1>1, <2>1, <2>7, ReadKept
  <2>10. ASSUME edits = 0 PROVE Whole(u, M) /\ OnceOK(M) /\ Quiet(v, u, M)
    <3>1. Whole(t, L) /\ OnceOK(L) /\ Quiet(v, t, L)
      BY <1>1, <2>1, <2>10
    <3>2. Whole(u, M)
      <4>1. CASE Len(L) = 0
        <5>1. Len(M) = 1 /\ 1 \in 1 .. Len(M) /\ DOMAIN u = 1 .. Len(M)
          BY <2>3, <2>6, <2>8, <4>1
        <5> QED
          BY <5>1 DEF Whole
      <4>2. CASE Len(L) > 0
        <5>1. PICK f \in 1 .. Len(L) : /\ DOMAIN t = f .. Len(L)
                                       /\ f = 1 \/ \E n \in f .. Len(L) : L[n].detail.seq = f - 1
          BY <3>1, <4>2 DEF Whole
        <5>2. f \in 1 .. Len(M) /\ DOMAIN u = f .. Len(M)
          <6>1. f \in 1 .. Len(L) + 1
            BY <2>3, <5>1
          <6> QED
            BY <2>3, <2>6, <2>8, <5>1, <6>1, IntervalGrows
        <5>3. f = 1 \/ \E n \in f .. Len(M) : M[n].detail.seq = f - 1
          <6>1. ASSUME NEW n \in f .. Len(L) PROVE n \in f .. Len(M) /\ M[n] = L[n]
            BY <2>3, <2>8
          <6> QED
            BY <5>1, <6>1
        <5> QED
          BY <5>2, <5>3 DEF Whole
      <4> QED
        BY <2>3, <4>1, <4>2
    <3>3. OnceOK(M)
      <4>1. ASSUME NEW n \in 1 .. Len(L), L[n].source = c.source
            PROVE  \E k \in n .. Len(L) : k \in Marks(L)
        <5>1. n \notin DOMAIN t
          BY <1>1, <2>2, <2>6, <4>1, RowSays DEF Recorded
        <5>2. PICK f \in 1 .. Len(L) : /\ DOMAIN t = f .. Len(L)
                                       /\ f = 1 \/ \E i \in f .. Len(L) : L[i].detail.seq = f - 1
          BY <2>3, <3>1, <4>1 DEF Whole
        <5>3. n < f
          BY <2>3, <5>1, <5>2
        <5>4. PICK i \in f .. Len(L) : L[i].detail.seq = f - 1
          BY <2>3, <5>2, <5>3
        <5>5. f - 1 \in n .. Len(L) /\ i \in 1 .. Len(L)
          BY <2>3, <5>2, <5>3
        <5> QED
          BY <5>4, <5>5 DEF Marks
      <4> QED
        BY <1>1, <2>7, <3>1, <4>1, OnceGrows
    <3>4. Quiet(v, u, M)
      <4> SUFFICES ASSUME v.phase \in {"anchor", "read"}, ~v.raced
                   PROVE  /\ v.min \in 1 .. Len(M) /\ DOMAIN u = v.min .. Len(M)
                          /\ v.phase = "read" => v.min <= v.expected
        BY DEF Quiet
      <4>1. /\ v.min \in 1 .. Len(L) /\ DOMAIN t = v.min .. Len(L)
            /\ v.phase = "read" => v.min <= v.expected
        BY <3>1 DEF Quiet
      <4> QED
        BY <2>3, <2>6, <2>8, <4>1
    <3> QED
      BY <3>2, <3>3, <3>4
  <2>11. \A i \in Events : outbox'[i] = "processed" => \E n \in 1 .. Len(M) : M[n].source = i
    <3>1. ASSUME NEW i \in Events, outbox'[i] = "processed" PROVE \E n \in 1 .. Len(M) : M[n].source = i
      <4>1. CASE i = e
        <5>1. Len(M) \in 1 .. Len(M)
          BY <2>3, <2>8
        <5> QED
          BY <2>6, <2>8, <4>1, <5>1
      <4>2. CASE i # e
        <5>1. PICK n \in 1 .. Len(L) : L[n].source = i
          BY <1>1, <1>5, <3>1, <4>2
        <5>2. n \in 1 .. Len(M) /\ M[n] = L[n]
          BY <2>3, <2>8
        <5> QED
          BY <5>1, <5>2
      <4> QED
        BY <4>1, <4>2
    <3> QED
      BY <3>1
  <2>12. /\ LedgerOK(M) /\ TableOK(table', M, edits' > 0) /\ ReadOK(verifier', M)
         /\ edits' = 0 => Whole(table', M) /\ OnceOK(M) /\ Quiet(verifier', table', M)
    BY <1>4, <2>1, <2>6, <2>7, <2>9, <2>10
  <2>13. AuditInv' /\ HeadHash(table') = M
    BY <1>5, <1>6, <2>11, <2>12, After
  <2>14. DOMAIN table \subseteq DOMAIN table'
    BY <2>1, <2>6
  <2> QED
    BY <1>1, <2>7, <2>13, <2>14
<1> QED
  BY <1>7, <1>8

-----------------------------------------------------------------------------
(* Retention.                                                              *)

(* Of the prunable rows, there is a last one of the first few.             *)
LEMMA RankedLast ==
  ASSUME NEW N \in Nat, NEW P \in SUBSET (1 .. N), P # {}, NEW limit \in Nat \ {0}
  PROVE  \E n \in P :
           LET upTo == Cardinality({m \in P : m <= n})
           IN  upTo <= limit /\ (upTo = limit \/ \A m \in P : m <= n)
<1> DEFINE Below(n) == {m \in P : m <= n}
<1>0. P \in SUBSET (0 .. N) /\ P \subseteq Nat
  OBVIOUS
<1>1. \A n \in P : Below(n) \in SUBSET (0 .. N) /\ IsFiniteSet(Below(n)) /\ Cardinality(Below(n)) \in Nat
  <2>1. ASSUME NEW n \in P
        PROVE  Below(n) \in SUBSET (0 .. N) /\ IsFiniteSet(Below(n)) /\ Cardinality(Below(n)) \in Nat
    <3>1. Below(n) \in SUBSET (0 .. N)
      BY <1>0, Zenon
    <3> HIDE DEF Below
    <3> QED
      BY <3>1, FiniteBelow
  <2> QED
    BY <2>1
<1>2. CASE \A n \in P : Cardinality(Below(n)) <= limit
  <2>1. P \in SUBSET (0 .. N)
    OBVIOUS
  <2>2. PICK n \in P : \A m \in P : m <= n
    BY <2>1, GreatestOf
  <2> QED
    BY <1>2, <2>2
<1>3. CASE \E n \in P : Cardinality(Below(n)) > limit
  <2>1. PICK S : S = {n \in P : Cardinality(Below(n)) >= limit}
    OBVIOUS
  <2>2. S \in SUBSET Nat /\ S # {}
    <3>1. PICK n \in P : Cardinality(Below(n)) > limit
      BY <1>3
    <3>2. Cardinality(Below(n)) \in Nat
      BY <1>1
    <3>3. n \in S
      <4> HIDE DEF Below
      <4> QED
        BY <2>1, <3>1, <3>2
    <3>4. S \subseteq P /\ P \subseteq Nat
      BY <2>1
    <3> QED
      BY <3>3, <3>4
  <2>3. PICK n \in S : \A k \in S : n <= k
    BY <2>2, LeastOf
  <2>4. n \in P /\ n \in Nat /\ Cardinality(Below(n)) >= limit
    BY <2>1, <2>3
  <2>5. PICK Q : Q = {m \in P : m < n}
    OBVIOUS
  <2>6. Below(n) = Q \cup {n} /\ n \notin Q /\ Q \in SUBSET (0 .. N)
    <3>1. \A m \in P : m <= n <=> m < n \/ m = n
      BY <1>0, <2>4
    <3>2. Below(n) = Q \cup {n}
      BY <2>4, <2>5, <3>1
    <3>3. n \notin Q
      BY <2>4, <2>5
    <3>4. Q \in SUBSET (0 .. N)
      BY <1>0, <2>5
    <3> QED
      BY <3>2, <3>3, <3>4
  <2>7. /\ IsFiniteSet(Q) /\ Cardinality(Q) \in Nat
        /\ Cardinality(Below(n)) = Cardinality(Q) + 1
    <3>1. IsFiniteSet(Q) /\ Cardinality(Q) \in Nat
      BY <2>6, FiniteBelow
    <3>2. Cardinality(Q \cup {n}) = Cardinality(Q) + 1
      BY <2>6, <3>1, FS_AddElement
    <3> QED
      BY <2>6, <3>1, <3>2
  <2>8. Cardinality(Q) < limit
    <3>1. CASE Q = {}
      BY <3>1, FS_EmptySet
    <3>2. CASE Q # {}
      <4>1. PICK q \in Q : \A k \in Q : k <= q
        BY <2>6, <3>2, GreatestOf
      <4>2. q \in P /\ q < n /\ q \in Nat
        BY <2>4, <2>5, <4>1
      <4>3. Below(q) = Q
        <5>1. ASSUME NEW m \in P, m <= q PROVE m \in Q
          BY <2>4, <2>5, <4>2, <5>1
        <5>2. ASSUME NEW m \in Q PROVE m \in P /\ m <= q
          BY <2>5, <4>1
        <5> QED
          BY <5>1, <5>2
      <4>4. q \notin S
        BY <2>3, <2>4, <4>2
      <4>5. ~(Cardinality(Q) >= limit)
        BY <2>1, <4>2, <4>3, <4>4
      <4> QED
        BY <2>7, <4>5
    <3> QED
      BY <3>1, <3>2
  <2>9. Cardinality(Below(n)) = limit /\ limit <= limit
    <3> HIDE DEF Below
    <3> QED
      BY <2>4, <2>7, <2>8
  <2> QED
    BY <2>4, <2>9
<1>4. ASSUME NEW n \in P, ~(Cardinality(Below(n)) <= limit) PROVE Cardinality(Below(n)) > limit
  <2>1. Cardinality(Below(n)) \in Nat
    BY <1>1
  <2> HIDE DEF Below
  <2> QED
    BY <1>4, <2>1
<1> QED
  <2> HIDE DEF Below
  <2>1. (\A n \in P : Cardinality(Below(n)) <= limit) \/ \E n \in P : Cardinality(Below(n)) > limit
    BY <1>4
  <2> QED
    BY <1>2, <1>3, <2>1

LEMMA BoundaryIs ==
  ASSUME NEW L, NEW t, NEW b, LedgerOK(L), TableOK(t, L, b), Prunable(t) # {}, NEW limit \in Nat \ {0}
  PROVE  /\ Boundary(t, limit) \in DOMAIN t
         /\ Boundary(t, limit) < Len(L)
         /\ t[Boundary(t, limit)].content.at < now - Retention
<1>1. /\ Len(L) \in Nat /\ LastSeq(t) = Len(L) /\ DOMAIN t \subseteq 1 .. Len(L)
  BY TableEnds, LedgerType DEF TableOK
<1>2. PICK P : P = Prunable(t)
  OBVIOUS
<1>3. P \subseteq DOMAIN t /\ \A n \in P : n < Len(L) /\ t[n].content.at < now - Retention
  BY <1>1, <1>2 DEF Prunable
<1>4. P \in SUBSET (1 .. Len(L)) /\ P # {}
  BY <1>1, <1>2, <1>3
<1>5. \E n \in P : LET upTo == Cardinality({m \in P : m <= n})
                   IN  upTo <= limit /\ (upTo = limit \/ \A m \in P : m <= n)
  BY <1>1, <1>4, RankedLast
<1>6. Boundary(t, limit) \in P
  BY <1>2, <1>5 DEF Boundary
<1> QED
  BY <1>3, <1>6

(* No checkpoint names a row that is still there.                          *)
LEMMA CutIsFresh ==
  ASSUME NEW L, NEW t, NEW b, LedgerOK(L), TableOK(t, L, b), NEW cut \in DOMAIN t
  PROVE  \A n \in 1 .. Len(L) : L[n].source # CheckpointSource(cut)
<1> SUFFICES ASSUME NEW n \in 1 .. Len(L), L[n].source = CheckpointSource(cut)
             PROVE  FALSE
  OBVIOUS
<1>1. cut \in 1 .. MaxSeq
  BY LedgerType, Sizes DEF TableOK
<1>2. PICK d : d = L[n].detail.seq
  OBVIOUS
<1>3. d < cut /\ d \in Nat
  BY <1>2, LedgerType DEF TableOK
<1>4. EntryOK(L, n)
  BY DEF LedgerOK
<1>5. CASE d = 0
  <2>1. L[n].source \in Events
    BY <1>2, <1>4, <1>5 DEF EntryOK
  <2> QED
    BY <1>1, <2>1, SourceAssumption
<1>6. CASE d > 0
  <2>1. CheckpointSource(d) = CheckpointSource(cut)
    BY <1>2, <1>4, <1>6 DEF EntryOK
  <2>2. d = cut
    BY <2>1 DEF CheckpointSource
  <2> QED
    BY <1>1, <1>3, <2>2
<1> QED
  BY <1>3, <1>5, <1>6

(* The table without its first rows takes the checkpoint of the last of    *)
(* them.                                                                   *)
Rest(t, cut) == Without(t, {n \in DOMAIN t : n <= cut})

LEMMA Shortened ==
  ASSUME NEW L, NEW t, NEW b, LedgerOK(L), TableOK(t, L, b), Len(L) < MaxSeq,
         NEW cut \in DOMAIN t, cut < Len(L)
  PROVE  /\ Addable(L, Rest(t, cut), b, CheckpointSource(cut), Checkpoint(t, cut))
         /\ \A n : n \in DOMAIN Rest(t, cut) <=> n \in DOMAIN t /\ cut < n
<1> SUFFICES ASSUME NEW w, w = Rest(t, cut)
             PROVE  /\ Addable(L, w, b, CheckpointSource(cut), Checkpoint(t, cut))
                    /\ \A n : n \in DOMAIN w <=> n \in DOMAIN t /\ cut < n
  OBVIOUS
<1>1. Len(L) \in Nat /\ DOMAIN t \subseteq 1 .. Len(L) /\ cut \in 1 .. Len(L)
  BY LedgerType DEF TableOK
<1>2. /\ \A n : n \in DOMAIN w <=> n \in DOMAIN t /\ cut < n
      /\ \A n \in DOMAIN w : w[n] = t[n]
  BY <1>1 DEF Rest, Without
<1>3. TableOK(w, L, b)
  <2>1. DOMAIN w \subseteq DOMAIN t
    BY <1>2
  <2>2. Len(L) > 0 => Len(L) \in DOMAIN w
    BY <1>2 DEF TableOK
  <2> QED
    BY <1>2, <2>1, <2>2 DEF TableOK
<1>4. PICK detail : detail = Checkpoint(t, cut)
  OBVIOUS
<1>5. detail = [seq |-> cut, hash |-> Prefix(L, cut)] /\ detail.seq = cut
  <2>1. t[cut].hash = Prefix(L, cut)
    BY RowSays
  <2> QED
    BY <1>4, <2>1 DEF Checkpoint
<1>6. Writable(L, CheckpointSource(cut), detail)
  BY <1>1, <1>5 DEF Writable
<1>7. ~Recorded(w, CheckpointSource(cut))
  <2>1. ASSUME NEW n \in DOMAIN w PROVE w[n].content.source # CheckpointSource(cut)
    <3>1. n \in 1 .. Len(L) /\ w[n].content.source = L[n].source
      BY <1>3, RowSays
    <3> QED
      BY <3>1, CutIsFresh
  <2> QED
    BY <2>1 DEF Recorded
<1>8. detail.seq \in 0 .. Len(L) /\ \A n \in DOMAIN w : detail.seq < n
  <2>1. cut \in 0 .. Len(L) /\ \A n \in DOMAIN w : cut < n
    BY <1>1, <1>2
  <2> QED
    BY <1>5, <2>1
<1> QED
  BY <1>2, <1>3, <1>4, <1>6, <1>7, <1>8 DEF Addable

(* Retention did not run: a verification finds out what is so.             *)
Raced(v) == [v EXCEPT !.raced = @ \/ v.phase \in {"anchor", "read"}]

LEMMA RacedKept ==
  ASSUME NEW L, NEW v, NEW u, ReadOK(v, L), u = Raced(v)
  PROVE  /\ ReadOK(u, L)
         /\ u.phase \in {"anchor", "read"} => u.raced
         /\ u.broken = v.broken /\ u.from = v.from /\ u.head = v.head
         /\ v.broken # "none" => u.raced = v.raced
<1>1. PICK r : r = (v.raced \/ v.phase \in {"anchor", "read"})
  OBVIOUS
<1>2. v \in Verifiers(v.prev, v.seen)
  BY DEF ReadOK
<1>3. v.raced \in BOOLEAN
  BY <1>2 DEF Verifiers
<1>4. r \in BOOLEAN
  BY <1>1, <1>3
<1>5. u = [v EXCEPT !.raced = r]
  BY <1>1, Zenon DEF Raced
<1>6. /\ u \in Verifiers(v.prev, v.seen)
      /\ u.phase = v.phase /\ u.from = v.from /\ u.min = v.min /\ u.prev = v.prev
      /\ u.expected = v.expected /\ u.seen = v.seen /\ u.complete = v.complete
      /\ u.broken = v.broken /\ u.head = v.head /\ u.raced = r
  BY <1>2, <1>4, <1>5 DEF Verifiers
<1>7. ReadOK(u, L)
  BY <1>6 DEF ReadOK
<1>8. v.broken # "none" => v.phase = "done"
  BY DEF ReadOK
<1>9. u.phase \in {"anchor", "read"} => r
  BY <1>1, <1>6
<1>10. v.broken # "none" => r = v.raced
  BY <1>1, <1>3, <1>8
<1> QED
  BY <1>6, <1>7, <1>9, <1>10

(* The prefix goes up to a prunable row, whose checkpoint is appended.     *)
LEMMA StepCleanup ==
  ASSUME AuditInv, Cleanup
  PROVE  /\ AuditInv'
         /\ \E c : HeadHash(table') = RowHash(HeadHash(table), c)
         /\ \A n \in DOMAIN table \ DOMAIN table' : table[n].content.at < now - Retention
<1>1. PICK L : /\ L = HeadHash(table) /\ LedgerOK(L) /\ TableOK(table, L, edits > 0)
               /\ edits = 0 => Whole(table, L) /\ OnceOK(L)
               /\ \A e \in Events : outbox[e] = "processed" => \E n \in 1 .. Len(L) : L[n].source = e
               /\ ReadOK(verifier, L)
               /\ edits = 0 => Quiet(verifier, table, L)
  BY Before
<1>2. CountersOK
  BY DEF AuditInv, ChainInv
<1>3. run # Idle /\ run < MaxPerRun /\ Prunable(table) # {} /\ LastSeq(table) < MaxSeq
  BY DEF Cleanup
<1>4. PICK limit : limit = MinOf(PruneChunk, MaxPerRun - run)
  OBVIOUS
<1>5. limit \in Nat \ {0}
  <2>1. run \in Nat /\ MaxPerRun - run \in Nat \ {0}
    BY <1>2, <1>3, Sizes DEF CountersOK
  <2> QED
    BY <1>4, <2>1, Sizes DEF MinOf
<1>6. PICK cut : cut = Boundary(table, limit)
  OBVIOUS
<1>7. PICK gone : gone = {n \in DOMAIN table : n <= cut}
  OBVIOUS
<1>8. PICK clock \in Clocks :
        table' = AppendLocked(Without(table, gone), CheckpointSource(cut), Checkpoint(table, cut), clock)
  BY <1>4, <1>6, <1>7 DEF Cleanup
<1>9. /\ run' = IF Cardinality(gone) < limit \/ run + Cardinality(gone) >= MaxPerRun
                THEN Idle ELSE run + Cardinality(gone)
      /\ verifier' = [verifier EXCEPT !.raced = @ \/ verifier.phase \in {"anchor", "read"}]
      /\ UNCHANGED <<outbox, now, edits, lost>>
  BY <1>4, <1>6, <1>7 DEF Cleanup
<1>10. PICK t, u, v, b : t = table /\ u = table' /\ v = verifier' /\ b = (edits > 0)
  OBVIOUS
<1>11. /\ TableOK(t, L, b) /\ Prunable(t) # {} /\ cut = Boundary(t, limit)
       /\ gone = {n \in DOMAIN t : n <= cut}
       /\ u = AppendLocked(Without(t, gone), CheckpointSource(cut), Checkpoint(t, cut), clock)
  BY <1>1, <1>3, <1>6, <1>7, <1>8, <1>10
<1>12. cut \in DOMAIN t /\ cut < Len(L) /\ t[cut].content.at < now - Retention
  BY <1>1, <1>5, <1>11, BoundaryIs
<1>13. /\ Len(L) \in Nat /\ Len(L) < MaxSeq /\ DOMAIN t \subseteq 1 .. Len(L) /\ cut \in 1 .. Len(L)
  <2>1. LastSeq(t) = Len(L)
    BY <1>1, <1>11, TableEnds
  <2>2. Len(L) \in Nat /\ DOMAIN t \subseteq 1 .. Len(L)
    BY <1>1, <1>11, LedgerType DEF TableOK
  <2> QED
    BY <1>3, <1>10, <1>12, <2>1, <2>2
<1>14. PICK w : w = Without(t, gone)
  OBVIOUS
<1>15. /\ Addable(L, w, b, CheckpointSource(cut), Checkpoint(t, cut))
       /\ \A n : n \in DOMAIN w <=> n \in DOMAIN t /\ cut < n
  <2>1. w = Rest(t, cut)
    BY <1>11, <1>14 DEF Rest
  <2> QED
    <3>1. LedgerOK(L) /\ TableOK(t, L, b) /\ Len(L) < MaxSeq /\ cut \in DOMAIN t /\ cut < Len(L)
      BY <1>1, <1>11, <1>12, <1>13
    <3>2. /\ Addable(L, Rest(t, cut), b, CheckpointSource(cut), Checkpoint(t, cut))
          /\ \A n : n \in DOMAIN Rest(t, cut) <=> n \in DOMAIN t /\ cut < n
      BY <3>1, Shortened
    <3> QED
      BY <2>1, <3>2
<1>16. PICK c : /\ c.source = CheckpointSource(cut) /\ c.detail = Checkpoint(t, cut)
                /\ LedgerOK(RowHash(L, c)) /\ TableOK(u, RowHash(L, c), b)
                /\ DOMAIN u = DOMAIN w \cup {Len(L) + 1}
  <2>1. clock \in 0 .. (MaxTime + Skew)
    BY <1>2, ClockType
  <2>2. Added(L, w, b, CheckpointSource(cut), Checkpoint(t, cut), u)
    BY <1>11, <1>14, <1>15, <2>1, TableGrows
  <2> QED
    BY <2>2 DEF Added
<1>17. PICK M : M = RowHash(L, c)
  OBVIOUS
<1>18. Len(M) = Len(L) + 1 /\ M[Len(M)] = c /\ \A n \in 1 .. Len(L) : M[n] = L[n]
  BY <1>1, <1>17, Kept
<1>19. /\ ReadOK(v, L)
       /\ v.phase \in {"anchor", "read"} => v.raced
       /\ v.broken = verifier.broken /\ v.from = verifier.from /\ v.head = verifier.head
       /\ verifier.broken # "none" => v.raced = verifier.raced
  <2>1. PICK o : o = verifier
    OBVIOUS
  <2>2. ReadOK(o, L) /\ v = Raced(o)
    BY <1>1, <1>9, <1>10, <2>1 DEF Raced
  <2>3. /\ ReadOK(v, L)
        /\ v.phase \in {"anchor", "read"} => v.raced
        /\ v.broken = o.broken /\ v.from = o.from /\ v.head = o.head
        /\ o.broken # "none" => v.raced = o.raced
    BY <2>2, RacedKept
  <2> QED
    BY <2>1, <2>3
<1>20. ReadOK(v, M)
  BY <1>1, <1>17, <1>19, ReadKept
<1>21. BrokenIsRight'
  <2>1. BrokenIsRight
    BY DEF AuditInv, VerifierInv
  <2>2. verifier'.broken = verifier.broken /\ verifier'.from = verifier.from /\ verifier'.head = verifier.head
        /\ (verifier.broken # "none" => verifier'.raced = verifier.raced)
    BY <1>10, <1>19
  <2> QED
    BY <1>9, <2>1, <2>2 DEF BrokenIsRight, Beyond
<1>22. CountersOK'
  <2>1. Cardinality(gone) \in Nat
    <3>1. gone \in SUBSET (0 .. Len(L))
      BY <1>11, <1>13
    <3> QED
      BY <1>13, <3>1, FiniteBelow
  <2>2. run \in Nat
    BY <1>2, <1>3 DEF CountersOK
  <2>3. run' \in {Idle} \cup 0 .. MaxPerRun
    <3>1. CASE Cardinality(gone) < limit \/ run + Cardinality(gone) >= MaxPerRun
      BY <1>9, <3>1
    <3>2. CASE ~(Cardinality(gone) < limit \/ run + Cardinality(gone) >= MaxPerRun)
      <4>1. PICK k : k = Cardinality(gone)
        OBVIOUS
      <4>2. run' = run + k /\ k \in Nat /\ ~(run + k >= MaxPerRun)
        BY <1>9, <2>1, <3>2, <4>1
      <4> QED
        BY <2>2, <4>2, Sizes
    <3> QED
      BY <3>1, <3>2
  <2> QED
    BY <1>2, <1>9, <2>3 DEF CountersOK
<1>23. ASSUME edits = 0 PROVE Whole(u, M) /\ OnceOK(M) /\ Quiet(v, u, M)
  <2>1. Whole(u, M)
    <3>1. PICK f \in 1 .. Len(L) : DOMAIN t = f .. Len(L)
      BY <1>1, <1>10, <1>13, <1>23 DEF Whole
    <3>2. DOMAIN w = (cut + 1) .. Len(L)
      <4>1. \A n : n \in f .. Len(L) /\ cut < n <=> n \in (cut + 1) .. Len(L)
        BY <1>12, <1>13, <3>1
      <4>2. \A n : n \in DOMAIN w <=> n \in (cut + 1) .. Len(L)
        BY <1>15, <3>1, <4>1
      <4> QED
        BY <4>2
    <3>3. cut + 1 \in 1 .. (Len(L) + 1)
      BY <1>13
    <3>4. DOMAIN u = (cut + 1) .. Len(M)
      BY <1>13, <1>16, <1>18, <3>2, <3>3, IntervalGrows
    <3>5. M[Len(M)].detail.seq = cut
      BY <1>16, <1>18 DEF Checkpoint
    <3>6. cut + 1 \in 1 .. Len(M) /\ Len(M) \in (cut + 1) .. Len(M) /\ cut = (cut + 1) - 1
      BY <1>13, <1>18
    <3> QED
      BY <3>4, <3>5, <3>6 DEF Whole
  <2>2. OnceOK(M)
    <3>1. \A n \in 1 .. Len(L) : L[n].source # c.source
      BY <1>1, <1>11, <1>12, <1>16, CutIsFresh
    <3> QED
      BY <1>1, <1>17, <1>23, <3>1, OnceGrows
  <2>3. Quiet(v, u, M)
    BY <1>19 DEF Quiet
  <2> QED
    BY <2>1, <2>2, <2>3
<1>24. \A e \in Events : outbox'[e] = "processed" => \E n \in 1 .. Len(M) : M[n].source = e
  <2>1. ASSUME NEW e \in Events, outbox'[e] = "processed" PROVE \E n \in 1 .. Len(M) : M[n].source = e
    <3>1. PICK n \in 1 .. Len(L) : L[n].source = e
      BY <1>1, <1>9, <2>1
    <3>2. n \in 1 .. Len(M) /\ M[n] = L[n]
      BY <1>13, <1>18
    <3> QED
      BY <3>1, <3>2
  <2> QED
    BY <2>1
<1>25. AuditInv' /\ HeadHash(table') = M
  <2>1. /\ LedgerOK(M) /\ TableOK(table', M, edits' > 0) /\ ReadOK(verifier', M)
        /\ edits' = 0 => Whole(table', M) /\ OnceOK(M) /\ Quiet(verifier', table', M)
    BY <1>9, <1>10, <1>16, <1>17, <1>20, <1>23
  <2> QED
    BY <1>21, <1>22, <1>24, <2>1, After
<1>26. ASSUME NEW n \in DOMAIN table \ DOMAIN table'
       PROVE  table[n].content.at < now - Retention
  <2>1. n \in DOMAIN t /\ n \notin DOMAIN u /\ t[n] = table[n]
    BY <1>10
  <2>2. n \in 1 .. Len(L) /\ n \in 1 .. cut
    BY <1>13, <1>15, <1>16, <2>1
  <2>3. t[n].content.at = L[n].at /\ t[cut].content.at = L[cut].at
    BY <1>1, <1>11, <1>12, <2>1, RowSays
  <2>4. L[n].at <= L[cut].at
    BY <1>1, <1>13, <2>2 DEF LedgerOK, EntryOK
  <2>5. L[n].at \in Int /\ L[cut].at \in Int /\ now \in Int /\ Retention \in Int
    <3>1. L[n].at \in 0 .. (MaxTime + Skew) /\ L[cut].at \in 0 .. (MaxTime + Skew)
      BY <1>1, <1>13, <2>2, LedgerType
    <3>2. now \in 0 .. MaxTime
      BY <1>2 DEF CountersOK
    <3> QED
      BY <3>1, <3>2, Sizes
  <2> QED
    BY <1>12, <2>1, <2>3, <2>4, <2>5
<1> QED
  BY <1>1, <1>17, <1>25, <1>26

-----------------------------------------------------------------------------
(* Rows changed or removed behind the program's back.                      *)

LEMMA StepMeddle ==
  ASSUME AuditInv, NEW n \in DOMAIN table, EditRow(n) \/ RemoveRow(n)
  PROVE  AuditInv' /\ HeadHash(table') = HeadHash(table) /\ edits' # edits
<1>1. PICK L : /\ L = HeadHash(table) /\ LedgerOK(L) /\ TableOK(table, L, edits > 0)
               /\ edits = 0 => Whole(table, L) /\ OnceOK(L)
               /\ \A e \in Events : outbox[e] = "processed" => \E m \in 1 .. Len(L) : L[m].source = e
               /\ ReadOK(verifier, L)
               /\ edits = 0 => Quiet(verifier, table, L)
  BY Before
<1>2. CountersOK
  BY DEF AuditInv, ChainInv
<1>3. /\ edits' = edits + 1 /\ edits < MaxEdits /\ UNCHANGED <<outbox, now, run, verifier, lost>>
  BY DEF EditRow, RemoveRow
<1>4. edits' \in 0 .. MaxEdits /\ edits' > 0 /\ edits' # 0 /\ edits' # edits
  BY <1>2, <1>3, Sizes DEF CountersOK
<1>5. CountersOK'
  BY <1>2, <1>3, <1>4 DEF CountersOK
<1>6. BrokenIsRight'
  BY <1>4 DEF BrokenIsRight
<1>7. PICK t, u, b : t = table /\ u = table' /\ b = (edits > 0)
  OBVIOUS
<1>8. /\ TableOK(t, L, b) /\ n \in DOMAIN t
      /\ DOMAIN t \subseteq 1 .. Len(L) /\ Len(L) \in Nat /\ LastSeq(t) = Len(L)
  BY <1>1, <1>7, TableEnds, LedgerType DEF TableOK
<1>9. TableOK(u, L, TRUE)
  <2>1. CASE EditRow(n)
    <3>1. u = [t EXCEPT ![n].content.detail.hash = Forged]
      BY <1>7, <2>1 DEF EditRow
    <3>2. DOMAIN u = DOMAIN t
      BY <3>1
    <3>3. u[n] = Row(L, n, Forged)
      <4>1. PICK h : t[n] = Row(L, n, h)
        BY <1>8 DEF TableOK
      <4>2. u[n] = [t[n] EXCEPT !.content.detail.hash = Forged]
        BY <1>8, <3>1
      <4> QED
        BY <4>1, <4>2 DEF Row, Content
    <3>4. \A m \in DOMAIN t : m # n => u[m] = t[m]
      BY <3>1
    <3> QED
      BY <1>8, <3>2, <3>3, <3>4 DEF TableOK
  <2>2. CASE RemoveRow(n)
    <3>1. u = Without(t, {n}) /\ n # LastSeq(t)
      BY <1>7, <2>2 DEF RemoveRow
    <3>2. /\ \A m : m \in DOMAIN u <=> m \in DOMAIN t /\ m # n
          /\ \A m \in DOMAIN u : u[m] = t[m]
      BY <3>1 DEF Without
    <3>3. Len(L) > 0 => Len(L) \in DOMAIN u
      BY <1>8, <3>1, <3>2 DEF TableOK
    <3>4. DOMAIN u \subseteq DOMAIN t
      BY <3>2
    <3> QED
      BY <1>8, <3>2, <3>3, <3>4 DEF TableOK
  <2> QED
    BY <2>1, <2>2
<1>10. TableOK(table', L, edits' > 0)
  BY <1>4, <1>7, <1>9
<1>11. \A e \in Events : outbox'[e] = "processed" => \E m \in 1 .. Len(L) : L[m].source = e
  BY <1>1, <1>3
<1>12. ReadOK(verifier', L)
  BY <1>1, <1>3
<1> QED
  BY <1>1, <1>4, <1>5, <1>6, <1>10, <1>11, <1>12, After

-----------------------------------------------------------------------------
(* Verification.                                                           *)

LEMMA StepVerify ==
  ASSUME AuditInv, UNCHANGED <<table, outbox, now, run, edits, lost>>,
         \A L : LedgerOK(L) /\ TableOK(table, L, edits > 0) /\ ReadOK(verifier, L)
                /\ (edits = 0 => Whole(table, L) /\ Quiet(verifier, table, L))
                => /\ ReadOK(verifier', L)
                   /\ edits = 0 => Quiet(verifier', table, L)
                   /\ verifier'.broken # "none" /\ ~verifier'.raced
                      /\ ~(verifier'.from > verifier'.head + 1) => edits > 0
  PROVE  AuditInv' /\ HeadHash(table') = HeadHash(table)
<1>1. PICK L : /\ L = HeadHash(table) /\ LedgerOK(L) /\ TableOK(table, L, edits > 0)
               /\ edits = 0 => Whole(table, L) /\ OnceOK(L)
               /\ \A e \in Events : outbox[e] = "processed" => \E m \in 1 .. Len(L) : L[m].source = e
               /\ ReadOK(verifier, L)
               /\ edits = 0 => Quiet(verifier, table, L)
  BY Before
<1>2. /\ ReadOK(verifier', L)
      /\ edits = 0 => Quiet(verifier', table, L)
      /\ verifier'.broken # "none" /\ ~verifier'.raced
         /\ ~(verifier'.from > verifier'.head + 1) => edits > 0
  BY <1>1
<1>3. CountersOK'
  BY DEF AuditInv, ChainInv, CountersOK
<1>4. BrokenIsRight'
  BY <1>2 DEF BrokenIsRight, Beyond
<1>5. /\ TableOK(table', L, edits' > 0)
      /\ edits' = 0 => Whole(table', L) /\ OnceOK(L) /\ Quiet(verifier', table', L)
      /\ \A e \in Events : outbox'[e] = "processed" => \E m \in 1 .. Len(L) : L[m].source = e
  BY <1>1, <1>2
<1> QED
  BY <1>1, <1>2, <1>3, <1>4, <1>5, After

(* Numbers that each follow the number of those below them.                *)
LEMMA Consecutive ==
  ASSUME NEW N \in Nat, NEW R \in SUBSET (0 .. N), NEW a \in Nat,
         \A n \in R : n = a + Cardinality({m \in R : m < n})
  PROVE  Cardinality(R) \in Nat /\ R = a .. (a + Cardinality(R) - 1)
<1>1. IsFiniteSet(R) /\ Cardinality(R) \in Nat
  BY FiniteBelow
<1>2. PICK c \in Nat : c = Cardinality(R)
  BY <1>1
<1>3. ASSUME NEW n \in R PROVE n \in a .. (a + c - 1)
  <2>1. PICK Q : Q = {m \in R : m < n}
    OBVIOUS
  <2>2. n = a + Cardinality(Q) /\ n \in Nat
    BY <2>1
  <2>3. Q \subseteq R /\ Q # R
    <3>1. ~(n < n)
      BY <2>2
    <3>2. n \notin Q
      BY <2>1, <3>1
    <3> QED
      BY <2>1, <3>2
  <2>4. IsFiniteSet(Q) /\ Cardinality(Q) \in Nat /\ Cardinality(Q) <= c /\ Cardinality(Q) # c
    BY <1>1, <1>2, <2>3, FS_Subset, FS_CardinalityType
  <2> QED
    BY <2>2, <2>4
<1>4. PICK I : I = a .. (a + c - 1)
  OBVIOUS
<1>5. IsFiniteSet(I) /\ Cardinality(I) = c /\ R \subseteq I
  <2>1. a \in Int /\ a + c - 1 \in Int /\ a <= (a + c - 1) + 1 /\ (a + c - 1) - a + 1 = c
    OBVIOUS
  <2> QED
    BY <1>3, <1>4, <2>1, IntervalCount
<1>6. R = I
  BY <1>2, <1>5, FS_Subset
<1> QED
  BY <1>1, <1>2, <1>4, <1>6

(* The first statement of a verification.                                  *)
LEMMA StepBegin ==
  ASSUME AuditInv, NEW from \in 0 .. MaxSeq, NEW maxRows \in RowLimits, VerifyBegin(from, maxRows)
  PROVE  AuditInv' /\ HeadHash(table') = HeadHash(table)
<1>1. UNCHANGED <<table, outbox, now, run, edits, lost>>
  BY DEF VerifyBegin
<1>2. ASSUME NEW L, LedgerOK(L), TableOK(table, L, edits > 0), ReadOK(verifier, L),
             edits = 0 => Whole(table, L) /\ Quiet(verifier, table, L)
      PROVE  /\ ReadOK(verifier', L)
             /\ edits = 0 => Quiet(verifier', table, L)
             /\ verifier'.broken # "none" /\ ~verifier'.raced
                /\ ~(verifier'.from > verifier'.head + 1) => edits > 0
  <2>1. PICK t, u, b, first : t = table /\ u = verifier' /\ b = (edits > 0) /\ first = FirstSeq(t)
    OBVIOUS
  <2>2. /\ L \in Seq(Entries(L)) /\ Len(L) \in Nat /\ Len(L) <= MaxSeq /\ MaxSeq \in Nat
        /\ LastSeq(t) = Len(L) /\ DOMAIN t \subseteq 1 .. Len(L)
        /\ DOMAIN t = {} <=> Len(L) = 0
    <3>1. TableOK(t, L, b)
      BY <1>2, <2>1
    <3> QED
      BY <1>2, <3>1, TableEnds, LedgerType, Sizes DEF TableOK
  <2>3. /\ DOMAIN t = {} => first = 0
        /\ DOMAIN t # {} => first \in DOMAIN t /\ \A m \in DOMAIN t : first <= m
    <3>1. DOMAIN t = {} => first = 0
      BY <2>1 DEF FirstSeq
    <3>2. DOMAIN t # {} => first \in DOMAIN t /\ \A m \in DOMAIN t : first <= m
      BY <1>2, <2>1, TableBegins
    <3> QED
      BY <3>1, <3>2
  <2>4. first \in 0 .. MaxSeq /\ (first = 0 <=> Len(L) = 0)
    <3>1. CASE DOMAIN t = {}
      BY <2>2, <2>3, <3>1
    <3>2. CASE DOMAIN t # {}
      <4>1. first \in 1 .. Len(L) /\ Len(L) # 0
        BY <2>2, <2>3, <3>2
      <4> QED
        BY <2>2, <4>1
    <3> QED
      BY <3>1, <3>2
  <2>5. PICK p, k :
          /\ u = [phase |-> p, from |-> from, maxRows |-> maxRows, min |-> first, prev |-> Genesis,
                  expected |-> 1, seen |-> <<>>, complete |-> k, broken |-> "none",
                  head |-> Len(L), raced |-> FALSE]
          /\ \/ p = "done" /\ k = TRUE /\ first = 0
             \/ p = "anchor" /\ k = FALSE /\ first # 0 /\ (from > first \/ first # 1)
             \/ p = "read" /\ k = FALSE /\ first = 1
    <3>1. CASE first = 0
      BY <2>1, <2>2, <3>1 DEF VerifyBegin, NoVerification
    <3>2. CASE first # 0 /\ (from > first \/ first # 1)
      BY <2>1, <2>2, <3>2 DEF VerifyBegin, NoVerification
    <3>3. CASE first # 0 /\ ~(from > first \/ first # 1)
      BY <2>1, <2>2, <3>3 DEF VerifyBegin, NoVerification
    <3> QED
      BY <3>1, <3>2, <3>3
  <2>6. /\ u.phase = p /\ u.from = from /\ u.min = first /\ u.prev = Genesis /\ u.expected = 1
        /\ u.seen = <<>> /\ u.complete = k /\ u.broken = "none" /\ u.head = Len(L) /\ u.raced = FALSE
    BY <2>5
  <2>7. u \in Verifiers(u.prev, u.seen)
    <3>1. Len(L) \in 0 .. MaxSeq /\ maxRows \in RowLimits \cup {1}
      BY <2>2
    <3>2. p \in {"idle", "anchor", "read", "done"} /\ k \in BOOLEAN
      BY <2>5
    <3>3. /\ Genesis \in {u.prev} /\ <<>> \in {u.seen} /\ 1 \in Nat
          /\ "none" \in Reasons \cup {"none"} /\ FALSE \in BOOLEAN
      BY <2>6
    <3> QED
      BY <2>4, <2>5, <3>1, <3>2, <3>3, Zenon DEF Verifiers
  <2>8. ReadOK(u, L)
    <3>1. Len(<<>>) = 0 /\ <<>> \in Seq(Entries(<<>>))
      OBVIOUS
    <3>2. Genesis = Prefix(L, 0)
      BY <2>2, WholePrefix DEF Genesis
    <3>3. 0 \in Marks(L)
      BY DEF Marks
    <3>4. k => Len(L) < 1
      BY <2>4, <2>5
    <3>5. p = "anchor" /\ from <= first => first > 1
      BY <2>4, <2>5
    <3>6. p # "done" => ~k
      BY <2>5
    <3>7. /\ u.expected >= Len(u.seen) + 1 /\ u.expected <= Len(L) + 1
          /\ u.expected - 1 = 0 /\ u.expected - Len(u.seen) - 1 = 0
          /\ u.head <= Len(L) /\ \A i : ~(i \in 1 .. Len(u.seen))
      <4>1. PICK x, j : x = u.expected /\ j = Len(u.seen)
        OBVIOUS
      <4>2. x = 1 /\ j = 0 /\ u.head = Len(L)
        BY <2>6, <3>1, <4>1
      <4>3. /\ x >= j + 1 /\ x <= Len(L) + 1 /\ x - 1 = 0 /\ x - j - 1 = 0
            /\ Len(L) <= Len(L) /\ \A i : ~(i \in 1 .. j)
        BY <2>2, <4>2
      <4> QED
        BY <4>1, <4>2, <4>3
    <3> QED
      BY <2>6, <2>7, <3>1, <3>2, <3>3, <3>4, <3>5, <3>6, <3>7 DEF ReadOK
  <2>9. edits = 0 => Quiet(u, t, L)
    <3> SUFFICES ASSUME edits = 0, u.phase \in {"anchor", "read"}
                 PROVE  /\ u.min \in 1 .. Len(L) /\ DOMAIN t = u.min .. Len(L)
                        /\ u.phase = "read" => u.min <= u.expected
      BY DEF Quiet
    <3>1. first # 0 /\ Len(L) > 0
      BY <2>2, <2>4, <2>5, <2>6
    <3>2. PICK f \in 1 .. Len(L) : DOMAIN t = f .. Len(L)
      BY <1>2, <2>1, <3>1 DEF Whole
    <3>3. f = first
      BY <2>2, <2>3, <3>1, <3>2
    <3> QED
      BY <2>5, <2>6, <3>2, <3>3
  <2> QED
    BY <2>1, <2>6, <2>8, <2>9
<1> QED
  BY <1>1, <1>2, StepVerify

(* A step of a verification that is under way, or ends, changes no more    *)
(* than where it is.                                                       *)
Stays(u, v) == u.from = v.from /\ u.min = v.min /\ u.maxRows = v.maxRows /\ u.head = v.head /\ u.raced = v.raced

Ended(v, reason)   == [v EXCEPT !.phase = "done", !.broken = reason]
From(v, prev, n)   == [v EXCEPT !.phase = "read", !.prev = prev, !.expected = n]

(* A fault ends it.                                                        *)
LEMMA Broken ==
  ASSUME NEW L, NEW v, ReadOK(v, L), NEW reason \in Reasons \cup {"none"},
         NEW u, u = Ended(v, reason)
  PROVE  ReadOK(u, L) /\ Stays(u, v) /\ u.phase = "done" /\ u.broken = reason
<1>1. v \in Verifiers(v.prev, v.seen)
  BY DEF ReadOK
<1>2. /\ u \in Verifiers(v.prev, v.seen)
      /\ u.phase = "done" /\ u.broken = reason
      /\ u.from = v.from /\ u.min = v.min /\ u.prev = v.prev /\ u.maxRows = v.maxRows
      /\ u.expected = v.expected /\ u.seen = v.seen /\ u.complete = v.complete
      /\ u.head = v.head /\ u.raced = v.raced
  BY <1>1 DEF Verifiers, Ended
<1> QED
  BY <1>2 DEF ReadOK, Stays

(* It has its anchor.                                                      *)
LEMMA Anchored ==
  ASSUME NEW L, LedgerOK(L), NEW v, ReadOK(v, L), v.phase = "anchor", NEW n \in 1 .. Len(L) + 1,
         v.from <= v.min => n - 1 \in Marks(L),
         NEW u, u = From(v, Prefix(L, n - 1), n)
  PROVE  ReadOK(u, L) /\ Stays(u, v) /\ u.phase = "read" /\ u.broken = "none" /\ u.expected = n
<1>1. v \in Verifiers(v.prev, v.seen) /\ v.seen = <<>> /\ Len(L) \in Nat /\ n \in Nat
  BY LedgerType DEF ReadOK
<1>2. PICK p : p = Prefix(L, n - 1)
  OBVIOUS
<1>3. /\ u \in Verifiers(p, v.seen)
      /\ u.phase = "read" /\ u.broken = v.broken
      /\ u.from = v.from /\ u.min = v.min /\ u.prev = p /\ u.maxRows = v.maxRows
      /\ u.expected = n /\ u.seen = v.seen /\ u.complete = v.complete
      /\ u.head = v.head /\ u.raced = v.raced
  BY <1>1, <1>2 DEF Verifiers, From
<1>4. v.broken = "none" /\ ~v.complete
  BY DEF ReadOK
<1>5. PICK s : s = u.seen
  OBVIOUS
<1>6. Len(s) = 0 /\ s \in Seq(Entries(s)) /\ \A i : ~(i \in 1 .. Len(s))
  <2>1. s = <<>>
    BY <1>1, <1>3, <1>5
  <2> QED
    BY <2>1
<1>7. n >= Len(s) + 1 /\ n <= Len(L) + 1 /\ n - Len(s) - 1 = n - 1
  BY <1>1, <1>6
<1> QED
  BY <1>1, <1>2, <1>3, <1>4, <1>5, <1>6, <1>7 DEF ReadOK, Stays

LEMMA StepAnchorAtRow ==
  ASSUME AuditInv, AnchorAtRow
  PROVE  AuditInv' /\ HeadHash(table') = HeadHash(table)
<1>1. UNCHANGED <<table, outbox, now, run, edits, lost>>
  BY DEF AnchorAtRow
<1>2. ASSUME NEW L, LedgerOK(L), TableOK(table, L, edits > 0), ReadOK(verifier, L),
             edits = 0 => Whole(table, L) /\ Quiet(verifier, table, L)
      PROVE  /\ ReadOK(verifier', L)
             /\ edits = 0 => Quiet(verifier', table, L)
             /\ verifier'.broken # "none" /\ ~verifier'.raced
                /\ ~(verifier'.from > verifier'.head + 1) => edits > 0
  <2>1. PICK t, u, v, n : t = table /\ u = verifier' /\ v = verifier /\ n = verifier.from - 1
    OBVIOUS
  <2>2. /\ v.phase = "anchor" /\ v.from > v.min
        /\ n \in DOMAIN t => u = From(v, t[n].hash, n + 1)
        /\ n \notin DOMAIN t => u = Ended(v, "seq_gap")
    BY <2>1 DEF AnchorAtRow, Break, From, Ended
  <2>3. /\ Len(L) \in Nat /\ DOMAIN t \subseteq 1 .. Len(L) /\ n = v.from - 1
        /\ v.from \in Nat /\ v.min \in Nat /\ v.head \in Nat /\ v.head <= Len(L)
    BY <1>2, <2>1, LedgerType, Sizes DEF TableOK, ReadOK, Verifiers
  <2>4. edits = 0 => Quiet(v, t, L)
    BY <1>2, <2>1
  <2>5. edits \in Nat
    BY Sizes DEF AuditInv, ChainInv, CountersOK
  <2>6. CASE n \in DOMAIN t
    <3>1. t[n].hash = Prefix(L, n) /\ n + 1 \in 1 .. Len(L) + 1 /\ (n + 1) - 1 = n
      <4>1. t[n].hash = Prefix(L, n)
        BY <1>2, <2>1, <2>6, RowSays
      <4> QED
        BY <2>3, <2>6, <4>1
    <3>2. ReadOK(u, L) /\ Stays(u, v) /\ u.phase = "read" /\ u.broken = "none" /\ u.expected = n + 1
      <4>1. PICK x : x = n + 1
        OBVIOUS
      <4>2. /\ x \in 1 .. Len(L) + 1 /\ ~(v.from <= v.min)
            /\ u = From(v, Prefix(L, x - 1), x)
        BY <2>2, <2>3, <2>6, <3>1, <4>1
      <4> QED
        BY <1>2, <2>1, <2>2, <4>1, <4>2, Anchored
    <3>3. edits = 0 => Quiet(u, t, L)
      BY <2>2, <2>3, <2>4, <3>2 DEF Quiet, Stays
    <3> QED
      BY <2>1, <3>2, <3>3
  <2>7. CASE n \notin DOMAIN t
    <3>1. ReadOK(u, L) /\ Stays(u, v) /\ u.phase = "done" /\ u.broken = "seq_gap"
      BY <1>2, <2>1, <2>2, <2>7, Broken DEF Reasons
    <3>2. ASSUME ~u.raced, ~(u.from > u.head + 1), edits = 0 PROVE FALSE
      <4>1. DOMAIN t = v.min .. Len(L)
        BY <2>2, <2>4, <3>1, <3>2 DEF Quiet, Stays
      <4>2. n <= v.head /\ n >= v.min
        BY <2>2, <2>3, <3>1, <3>2 DEF Stays
      <4> QED
        BY <2>3, <2>7, <4>1, <4>2
    <3>3. Quiet(u, t, L)
      BY <3>1 DEF Quiet
    <3> QED
      BY <2>1, <2>5, <3>1, <3>2, <3>3
  <2> QED
    BY <2>6, <2>7
<1> QED
  BY <1>1, <1>2, StepVerify

(* Before any statement, nothing is read.                                  *)
LEMMA NoneIsRead ==
  ASSUME NEW L, LedgerOK(L), NEW u, u = NoVerification
  PROVE  ReadOK(u, L) /\ u.phase = "idle" /\ u.broken = "none"
<1>1. /\ u.phase = "idle" /\ u.from = 0 /\ u.min = 0 /\ u.prev = Genesis /\ u.expected = 1
      /\ u.seen = <<>> /\ u.complete = FALSE /\ u.broken = "none" /\ u.head = 0 /\ u.raced = FALSE
  BY DEF NoVerification
<1>2. L \in Seq(Entries(L)) /\ Len(L) \in Nat /\ 0 \in 0 .. MaxSeq
  BY LedgerType, Sizes
<1>3. u \in Verifiers(u.prev, u.seen)
  BY <1>2, Sizes DEF Verifiers, NoVerification
<1>4. Genesis = Prefix(L, 0)
  BY <1>2, WholePrefix DEF Genesis
<1>5. 0 \in Marks(L)
  BY DEF Marks
<1>6. /\ u.expected >= Len(u.seen) + 1 /\ u.expected <= Len(L) + 1
      /\ u.expected - 1 = 0 /\ u.expected - Len(u.seen) - 1 = 0
      /\ u.head <= Len(L) /\ (\A i : ~(i \in 1 .. Len(u.seen))) /\ u.seen \in Seq(Entries(u.seen))
  <2>1. PICK x, s : x = u.expected /\ s = u.seen
    OBVIOUS
  <2>2. x = 1 /\ Len(s) = 0 /\ u.head = 0 /\ s \in Seq(Entries(s))
    <3>1. s = <<>>
      BY <1>1, <2>1
    <3> QED
      BY <1>1, <2>1, <3>1
  <2>3. /\ x >= Len(s) + 1 /\ x <= Len(L) + 1 /\ x - 1 = 0 /\ x - Len(s) - 1 = 0
        /\ 0 <= Len(L) /\ \A i : ~(i \in 1 .. Len(s))
    BY <1>2, <2>2
  <2> QED
    BY <2>1, <2>2, <2>3
<1> QED
  BY <1>1, <1>3, <1>4, <1>5, <1>6 DEF ReadOK

LEMMA StepAnchorAtCheckpoint ==
  ASSUME AuditInv, AnchorAtCheckpoint
  PROVE  AuditInv' /\ HeadHash(table') = HeadHash(table)
<1>1. UNCHANGED <<table, outbox, now, run, edits, lost>>
  BY DEF AnchorAtCheckpoint
<1>2. ASSUME NEW L, LedgerOK(L), TableOK(table, L, edits > 0), ReadOK(verifier, L),
             edits = 0 => Whole(table, L) /\ Quiet(verifier, table, L)
      PROVE  /\ ReadOK(verifier', L)
             /\ edits = 0 => Quiet(verifier', table, L)
             /\ verifier'.broken # "none" /\ ~verifier'.raced
                /\ ~(verifier'.from > verifier'.head + 1) => edits > 0
  <2>1. PICK t, u, v, n : t = table /\ u = verifier' /\ v = verifier /\ n = verifier.min
    OBVIOUS
  <2>2. PICK found, held :
          /\ found = CheckpointsFor(n)
          /\ held = t[CHOOSE m \in found : \A k \in found : k <= m].content.detail.hash
    OBVIOUS
  <2>3. /\ v.phase = "anchor" /\ v.from <= v.min
        /\ n \in DOMAIN t /\ found # {} /\ held = t[n].prev => u = From(v, held, n)
        /\ ~(n \in DOMAIN t /\ found # {} /\ held = t[n].prev) => u = Ended(v, "prefix_mismatch")
    BY <2>1, <2>2 DEF AnchorAtCheckpoint, Break, From, Ended
  <2>4. /\ Len(L) \in Nat /\ DOMAIN t \subseteq 1 .. Len(L) /\ v.min = n
        /\ n \in Nat /\ n > 1
    BY <1>2, <2>1, <2>3, LedgerType, Sizes DEF TableOK, ReadOK, Verifiers
  <2>5. edits = 0 => Quiet(v, t, L)
    BY <1>2, <2>1
  <2>6. edits \in Nat
    BY Sizes DEF AuditInv, ChainInv, CountersOK
  <2>7. \A m : m \in found <=> m \in DOMAIN t /\ t[m].content.detail.seq = n - 1
    BY <2>1, <2>2 DEF CheckpointsFor
  <2>8. found \in SUBSET (0 .. Len(L)) /\ \A m \in found : m \in 1 .. Len(L) /\ L[m].detail.seq = n - 1
    <3>1. ASSUME NEW m \in found PROVE m \in 1 .. Len(L) /\ L[m].detail.seq = n - 1
      BY <1>2, <2>1, <2>7, RowSays
    <3> QED
      BY <2>4, <3>1
  <2>9. CASE n \in DOMAIN t /\ found # {} /\ held = t[n].prev
    <3>1. held = Prefix(L, n - 1) /\ n \in 1 .. Len(L) + 1
      BY <1>2, <2>1, <2>4, <2>9, RowSays
    <3>2. n - 1 \in Marks(L)
      BY <2>8, <2>9 DEF Marks
    <3>3. ReadOK(u, L) /\ Stays(u, v) /\ u.phase = "read" /\ u.broken = "none" /\ u.expected = n
      <4>1. u = From(v, Prefix(L, n - 1), n)
        BY <2>3, <2>9, <3>1
      <4> QED
        BY <1>2, <2>1, <2>3, <3>1, <3>2, <4>1, Anchored
    <3>4. edits = 0 => Quiet(u, t, L)
      BY <2>3, <2>4, <2>5, <3>3 DEF Quiet, Stays
    <3> QED
      BY <2>1, <3>3, <3>4
  <2>10. CASE ~(n \in DOMAIN t /\ found # {} /\ held = t[n].prev)
    <3>1. ReadOK(u, L) /\ Stays(u, v) /\ u.phase = "done" /\ u.broken = "prefix_mismatch"
      BY <1>2, <2>1, <2>3, <2>10, Broken DEF Reasons
    <3>2. ASSUME ~u.raced, edits = 0 PROVE FALSE
      <4>1. n \in 1 .. Len(L) /\ DOMAIN t = n .. Len(L)
        BY <2>3, <2>4, <2>5, <3>1, <3>2 DEF Quiet, Stays
      <4>2. PICK f \in 1 .. Len(L) : /\ DOMAIN t = f .. Len(L)
                                     /\ f = 1 \/ \E m \in f .. Len(L) : L[m].detail.seq = f - 1
        BY <1>2, <2>1, <2>4, <3>2, <4>1 DEF Whole
      <4>3. f = n
        BY <2>4, <4>1, <4>2
      <4>4. PICK m \in DOMAIN t : L[m].detail.seq = n - 1
        BY <2>4, <4>2, <4>3
      <4>5. t[m].content.detail.seq = L[m].detail.seq
        BY <1>2, <2>1, <4>4, RowSays
      <4>6. found # {}
        BY <2>7, <4>4, <4>5
      <4>7. PICK last : last = CHOOSE x \in found : \A k \in found : k <= x
        OBVIOUS
      <4>8. last \in found
        <5>1. \E x \in found : \A k \in found : k <= x
          BY <2>4, <2>8, <4>6, GreatestOf
        <5> QED
          BY <4>7, <5>1
      <4>9. last \in DOMAIN t /\ last \in 1 .. Len(L) /\ L[last].detail.seq = n - 1
        BY <2>7, <2>8, <4>8
      <4>10. t[last].content = L[last]
        <5>1. (edits > 0) = FALSE
          BY <3>2
        <5>2. TableOK(t, L, FALSE)
          BY <1>2, <2>1, <5>1
        <5>3. IsRecorded(L, t, last)
          BY <1>2, <4>9, <5>2, RowIntact
        <5> QED
          BY <5>3 DEF IsRecorded
      <4>11. L[last].detail.hash = Prefix(L, n - 1)
        <5>1. EntryOK(L, last)
          BY <1>2, <4>9 DEF LedgerOK
        <5>2. n - 1 > 0
          BY <2>4
        <5> QED
          BY <4>9, <5>1, <5>2 DEF EntryOK
      <4>12. held = Prefix(L, n - 1)
        BY <2>2, <4>7, <4>10, <4>11
      <4>13. n \in DOMAIN t /\ t[n].prev = Prefix(L, n - 1)
        <5>1. n \in DOMAIN t
          BY <4>1
        <5> QED
          BY <1>2, <2>1, <5>1, RowSays
      <4> QED
        BY <2>10, <4>6, <4>12, <4>13
    <3>3. Quiet(u, t, L)
      BY <3>1 DEF Quiet
    <3> QED
      BY <2>1, <2>6, <3>1, <3>2, <3>3
  <2> QED
    BY <2>9, <2>10
<1> QED
  BY <1>1, <1>2, StepVerify

(* The end of a verification.                                              *)
LEMMA StepEnds ==
  ASSUME AuditInv, VerifyStops \/ VerifyReturns
  PROVE  AuditInv' /\ HeadHash(table') = HeadHash(table)
<1>1. UNCHANGED <<table, outbox, now, run, edits, lost>>
  BY DEF VerifyStops, VerifyReturns
<1>2. ASSUME NEW L, LedgerOK(L), TableOK(table, L, edits > 0), ReadOK(verifier, L),
             edits = 0 => Whole(table, L) /\ Quiet(verifier, table, L)
      PROVE  /\ ReadOK(verifier', L)
             /\ edits = 0 => Quiet(verifier', table, L)
             /\ verifier'.broken # "none" /\ ~verifier'.raced
                /\ ~(verifier'.from > verifier'.head + 1) => edits > 0
  <2>1. PICK u, v : u = verifier' /\ v = verifier
    OBVIOUS
  <2>2. CASE VerifyStops
    <3>1. v.phase = "read" /\ u = [v EXCEPT !.phase = "done"]
      BY <2>1, <2>2 DEF VerifyStops
    <3>2. ReadOK(v, L)
      BY <1>2, <2>1
    <3>3. v \in Verifiers(v.prev, v.seen) /\ v.broken = "none"
      BY <3>1, <3>2 DEF ReadOK
    <3>4. u = Ended(v, "none")
      BY <3>1, <3>3 DEF Ended, Verifiers
    <3>5. ReadOK(u, L) /\ u.phase = "done" /\ u.broken = "none"
      BY <3>2, <3>4, Broken
    <3> QED
      BY <2>1, <3>5 DEF Quiet
  <2>3. CASE VerifyReturns
    <3>1. u = NoVerification
      BY <2>1, <2>3 DEF VerifyReturns
    <3>2. ReadOK(u, L) /\ u.phase = "idle" /\ u.broken = "none"
      BY <1>2, <3>1, NoneIsRead
    <3> QED
      BY <2>1, <3>2 DEF Quiet
  <2> QED
    BY <2>2, <2>3
<1> QED
  BY <1>1, <1>2, StepVerify

(* The first rows of a set of rows, in order.                              *)
FirstOf(rest, limit) == {n \in rest : Cardinality({m \in rest : m <= n}) <= limit}

LEMMA FewAreAll ==
  ASSUME NEW N \in Nat, NEW S \in SUBSET (0 .. N), NEW limit \in Nat,
         Cardinality(FirstOf(S, limit)) < limit
  PROVE  FirstOf(S, limit) = S
<1>1. PICK R : R = FirstOf(S, limit)
  OBVIOUS
<1>2. R \subseteq S /\ R \in SUBSET (0 .. N)
  BY <1>1 DEF FirstOf
<1>3. IsFiniteSet(R) /\ Cardinality(R) \in Nat /\ Cardinality(R) < limit
  BY <1>1, <1>2, FiniteBelow
<1>4. ASSUME S \ R # {} PROVE FALSE
  <2>1. S \subseteq Nat /\ S \ R \in SUBSET Nat
    <3>1. \A k \in 0 .. N : k \in Nat
      OBVIOUS
    <3> QED
      BY <3>1
  <2>2. PICK q \in S \ R : \A k \in S \ R : q <= k
    BY <1>4, <2>1, LeastOf
  <2>3. q \in S /\ q \in Nat /\ q \notin R
    BY <2>1
  <2>4. PICK Q : Q = {m \in S : m < q}
    OBVIOUS
  <2>5. Q \subseteq R
    <3>1. ASSUME NEW m \in Q PROVE m \in R
      <4>1. m \in S /\ m < q /\ m \in Nat
        BY <2>4
      <4>2. ~(q <= m)
        BY <2>3, <4>1
      <4> QED
        BY <2>2, <4>1, <4>2
    <3> QED
      BY <3>1
  <2>6. IsFiniteSet(Q) /\ Cardinality(Q) \in Nat /\ Cardinality(Q) <= Cardinality(R)
    BY <1>3, <2>5, FS_Subset, FS_CardinalityType
  <2>7. {m \in S : m <= q} = Q \cup {q} /\ q \notin Q
    <3>1. \A m \in S : m <= q <=> m < q \/ m = q
      BY <2>3
    <3>2. {m \in S : m <= q} = Q \cup {q}
      BY <2>3, <2>4, <3>1
    <3>3. ~(q < q)
      BY <2>3
    <3> QED
      BY <2>4, <3>2, <3>3
  <2>8. Cardinality(Q \cup {q}) = Cardinality(Q) + 1
    BY <2>6, <2>7, FS_AddElement
  <2>9. Cardinality(Q \cup {q}) <= limit
    BY <1>3, <2>6, <2>8
  <2>10. q \in R
    BY <1>1, <2>3, <2>7, <2>9 DEF FirstOf
  <2> QED
    BY <2>3, <2>10
<1> QED
  BY <1>1, <1>2, <1>4

LEMMA FirstFollow ==
  ASSUME NEW N \in Nat, NEW due \in Nat, NEW limit \in Nat, NEW n \in FirstOf(due .. N, limit)
  PROVE  n = due + Cardinality({m \in FirstOf(due .. N, limit) : m < n})
<1>1. PICK S, R : S = due .. N /\ R = FirstOf(S, limit)
  OBVIOUS
<1>2. n \in S /\ n \in R /\ n \in Nat /\ due <= n /\ n <= N
  BY <1>1 DEF FirstOf
<1>3. ASSUME NEW m \in due .. n
      PROVE  m \in S /\ Cardinality({k \in S : k <= m}) = m - due + 1
  <2>1. m \in S /\ m \in Int /\ due <= m + 1
    BY <1>1, <1>2
  <2>2. {k \in S : k <= m} = due .. m
    BY <1>1, <1>2, <2>1
  <2>3. Cardinality(due .. m) = m - due + 1
    BY <2>1, IntervalCount
  <2> QED
    BY <2>1, <2>2, <2>3
<1>4. n - due + 1 <= limit
  <2>1. Cardinality({k \in S : k <= n}) <= limit
    BY <1>1, <1>2 DEF FirstOf
  <2>2. n \in due .. n
    BY <1>2
  <2>3. Cardinality({k \in S : k <= n}) = n - due + 1
    BY <1>3, <2>2
  <2> QED
    BY <2>1, <2>3
<1>5. ASSUME NEW m \in due .. n PROVE m \in R
  <2>1. m \in S /\ Cardinality({k \in S : k <= m}) = m - due + 1
    BY <1>3
  <2>2. m - due + 1 <= limit
    BY <1>2, <1>4
  <2>3. Cardinality({k \in S : k <= m}) <= limit
    BY <2>1, <2>2
  <2> QED
    BY <1>1, <2>1, <2>3 DEF FirstOf
<1>6. {m \in R : m < n} = due .. (n - 1)
  <2>1. ASSUME NEW m \in R, m < n PROVE m \in due .. (n - 1)
    <3>1. m \in S
      BY <1>1 DEF FirstOf
    <3> QED
      BY <1>1, <1>2, <2>1, <3>1
  <2>2. ASSUME NEW m \in due .. (n - 1) PROVE m \in R /\ m < n
    <3>1. m \in due .. n /\ m < n
      BY <1>2
    <3> QED
      BY <1>5, <3>1
  <2> QED
    BY <2>1, <2>2
<1>7. Cardinality(due .. (n - 1)) = n - due
  <2>1. due \in Int /\ n - 1 \in Int /\ due <= (n - 1) + 1 /\ (n - 1) - due + 1 = n - due
    BY <1>2
  <2> QED
    BY <2>1, IntervalCount
<1>8. Cardinality({m \in R : m < n}) = n - due
  BY <1>6, <1>7
<1>9. n = due + Cardinality({m \in R : m < n})
  BY <1>2, <1>8
<1> QED
  BY <1>1, <1>9

(* A row whose hash is right is as it was recorded.                        *)
LEMMA HashTells ==
  ASSUME NEW L, NEW t, NEW b, LedgerOK(L), TableOK(t, L, b), NEW n \in DOMAIN t,
         t[n].hash = RowHash(t[n].prev, t[n].content)
  PROVE  t[n].content = L[n]
<1>1. n \in 1 .. Len(L) /\ t[n].prev = Prefix(L, n - 1) /\ t[n].hash = Prefix(L, n)
  BY RowSays
<1>2. L \in Seq(Entries(L)) /\ n - 1 \in 0 .. Len(L)
  BY <1>1, LedgerType
<1>3. Prefix(L, n) = Append(Prefix(L, n - 1), L[n]) /\ Prefix(L, n - 1) \in Seq(Entries(L))
  BY <1>1, <1>2, NextPrefix, PrefixType
<1>4. PICK p, x : p = Prefix(L, n - 1) /\ x = t[n].content
  OBVIOUS
<1>5. p \in Seq(Entries(L)) /\ Append(p, x) = Append(p, L[n])
  BY <1>1, <1>3, <1>4 DEF RowHash
<1> QED
  BY <1>4, <1>5, SameLast

(* What was read goes on with what the ledger says next.                   *)
Following(L, due, c) == [i \in 1 .. c |-> L[due + i - 1]]

Continues(w, s, c, L, due) ==
  /\ w \in Seq(Entries(w)) /\ Len(w) = Len(s) + c
  /\ \A i \in 1 .. Len(s) : w[i] = s[i]
  /\ \A i \in 1 .. c : w[Len(s) + i] = L[due + i - 1]

LEMMA SeenGrows ==
  ASSUME NEW L, NEW s, s \in Seq(Entries(s)), NEW c \in Nat, NEW due \in Nat,
         NEW w, w = s \o Following(L, due, c)
  PROVE  Continues(w, s, c, L, due)
<1>1. PICK T : T = Entries(s) \cup {L[due + i - 1] : i \in 1 .. c}
  OBVIOUS
<1>2. PICK g : g = Following(L, due, c) /\ g = [i \in 1 .. c |-> L[due + i - 1]]
  BY DEF Following
<1>3. g \in Seq(T) /\ Len(g) = c /\ \A i \in 1 .. c : g[i] = L[due + i - 1]
  <2>1. g \in [1 .. c -> T]
    BY <1>1, <1>2
  <2>2. g \in Seq(T)
    BY <2>1, SeqDef
  <2>3. DOMAIN g = 1 .. c
    BY <1>2
  <2>4. Len(g) = c
    BY <2>2, <2>3
  <2> QED
    BY <1>2, <2>2, <2>4
<1>4. s \in Seq(T)
  <2>1. Len(s) \in Nat /\ s \in [1 .. Len(s) -> Entries(s)]
    OBVIOUS
  <2>2. s \in [1 .. Len(s) -> T]
    BY <1>1, <2>1
  <2> QED
    BY <2>1, <2>2, SeqDef
<1>5. w = s \o g
  BY <1>2
<1>6. w \in Seq(T) /\ Len(w) = Len(s) + c
  BY <1>3, <1>4, <1>5, ConcatProperties
<1>7. w \in Seq(Entries(w))
  BY <1>6, EntriesSuffice
<1>8. \A i \in 1 .. Len(s) : w[i] = s[i]
  BY <1>3, <1>4, <1>5, ConcatProperties
<1>9. \A i \in 1 .. c : w[Len(s) + i] = g[i]
  BY <1>3, <1>4, <1>5, ConcatProperties
<1> QED
  BY <1>3, <1>6, <1>7, <1>8, <1>9 DEF Continues

(* A verification has read the next c rows, as they are in the ledger.     *)
Went(u, v, L, c) ==
  /\ u \in Verifiers(u.prev, u.seen) /\ Stays(u, v)
  /\ u.seen = v.seen \o Following(L, v.expected, c)
  /\ u.prev = Prefix(L, v.expected + c - 1)
  /\ u.expected = v.expected + c /\ u.expected <= Len(L) + 1
  /\ u.phase \in {"read", "done"}
  /\ u.phase # "done" => u.broken = "none" /\ ~u.complete
  /\ u.complete => Len(L) < u.expected

LEMMA ReadOn ==
  ASSUME NEW L, LedgerOK(L), NEW v, ReadOK(v, L), NEW c \in Nat, NEW u, Went(u, v, L, c)
  PROVE  ReadOK(u, L)
<1>1. PICK s, w, x, y : s = v.seen /\ w = u.seen /\ x = v.expected /\ y = u.expected
  OBVIOUS
<1>2. /\ s \in Seq(Entries(s)) /\ x \in Nat /\ Len(L) \in Nat /\ x >= Len(s) + 1
      /\ \A i \in 1 .. Len(s) : s[i] = L[x - Len(s) + i - 1]
      /\ v.head \in Nat /\ v.head <= Len(L)
      /\ v.from <= v.min => x - Len(s) - 1 \in Marks(L)
  BY <1>1, LedgerType, Sizes DEF ReadOK, Verifiers
<1>3. Len(s) \in Nat
  BY <1>2
<1>4. w = s \o Following(L, x, c) /\ y = x + c /\ y <= Len(L) + 1
  BY <1>1 DEF Went
<1>5. /\ w \in Seq(Entries(w)) /\ Len(w) = Len(s) + c
      /\ \A i \in 1 .. Len(s) : w[i] = s[i]
      /\ \A i \in 1 .. c : w[Len(s) + i] = L[x + i - 1]
  <2>1. s \in Seq(Entries(s)) /\ x \in Nat /\ w = s \o Following(L, x, c)
    BY <1>2, <1>4
  <2>2. Continues(w, s, c, L, x)
    BY <2>1, SeenGrows
  <2> QED
    BY <2>2 DEF Continues
<1>6. y - Len(w) = x - Len(s) /\ y >= Len(w) + 1 /\ y - 1 = x + c - 1
  BY <1>2, <1>3, <1>4, <1>5
<1>7. ASSUME NEW i \in 1 .. Len(w) PROVE w[i] = L[y - Len(w) + i - 1]
  <2>1. CASE i \in 1 .. Len(s)
    <3>1. w[i] = s[i] /\ s[i] = L[x - Len(s) + i - 1]
      BY <1>2, <1>5, <2>1
    <3> QED
      BY <1>6, <3>1
  <2>2. CASE ~(i \in 1 .. Len(s))
    <3>1. PICK j \in 1 .. c : i = Len(s) + j
      <4>1. i - Len(s) \in 1 .. c /\ i = Len(s) + (i - Len(s))
        BY <1>3, <1>5, <2>2
      <4> QED
        BY <4>1
    <3>2. w[i] = L[x + j - 1]
      BY <1>5, <3>1
    <3>3. y - Len(w) + i - 1 = x + j - 1
      BY <1>2, <1>3, <1>6, <3>1
    <3> QED
      BY <3>2, <3>3
  <2> QED
    BY <2>1, <2>2
<1>8. /\ u.head = v.head /\ u.from = v.from /\ u.min = v.min
      /\ u.prev = Prefix(L, y - 1)
      /\ u.phase \notin {"idle", "anchor"}
      /\ u.phase # "done" => u.broken = "none" /\ ~u.complete
      /\ u \in Verifiers(u.prev, u.seen)
  BY <1>1, <1>6 DEF Went, Stays
<1>9. u.complete => u.head < u.expected
  BY <1>1, <1>2, <1>4, <1>8 DEF Went
<1> QED
  BY <1>1, <1>2, <1>4, <1>5, <1>6, <1>7, <1>8, <1>9 DEF ReadOK

(* Rows without a fault up to some row each follow the row before.         *)
Placed(R, B, due) == \A n \in R \cap B : n = due + Cardinality({m \in R : m < n})
Run(G, due)       == Cardinality(G) \in Nat /\ G = due .. (due + Cardinality(G) - 1)
UpTo(R, B)        == {n \in R : \A m \in R : m <= n => m \in B}

LEMMA GoodRows ==
  ASSUME NEW N \in Nat, NEW R \in SUBSET (1 .. N), NEW due \in Nat, NEW B, Placed(R, B, due),
         NEW G, G = UpTo(R, B)
  PROVE  Run(G, due) /\ G \subseteq R \cap B
<1>0. /\ \A n \in R \cap B : n = due + Cardinality({m \in R : m < n})
      /\ G = {n \in R : \A m \in R : m <= n => m \in B}
  BY DEF Placed, UpTo
<1>1. R \subseteq Nat /\ G \subseteq R /\ G \in SUBSET (0 .. N)
  <2>1. \A n \in 1 .. N : n \in Nat /\ n \in 0 .. N
    OBVIOUS
  <2> QED
    BY <1>0, <2>1
<1>2. ASSUME NEW n \in G PROVE n = due + Cardinality({m \in G : m < n})
  <2>1. n \in Nat /\ n \in B
    <3>1. n \in Nat /\ n <= n
      BY <1>1
    <3> QED
      BY <1>0, <1>1, <3>1
  <2>2. n = due + Cardinality({m \in R : m < n})
    BY <1>0, <1>1, <2>1
  <2>3. ASSUME NEW m \in R, m < n PROVE m \in G
    <3>1. ASSUME NEW k \in R, k <= m PROVE k \in B
      <4>1. k <= n
        BY <1>1, <2>1, <2>3, <3>1
      <4> QED
        BY <1>0, <4>1
    <3> QED
      BY <1>0, <3>1
  <2>4. {m \in R : m < n} = {m \in G : m < n}
    BY <1>1, <2>3
  <2> QED
    BY <2>2, <2>4
<1>3. Cardinality(G) \in Nat /\ G = due .. (due + Cardinality(G) - 1)
  BY <1>1, <1>2, Consecutive
<1>4. ASSUME NEW n \in G PROVE n \in R \cap B
  <2>1. n <= n
    BY <1>1
  <2> QED
    BY <1>0, <1>1, <2>1
<1> QED
  BY <1>3, <1>4 DEF Run

LEMMA FaultKinds ==
  ASSUME NEW n, NEW R
  PROVE  /\ Fault(n, R) \in Reasons \cup {"none"}
         /\ Fault(n, R) = "none" <=> /\ n = DueSeq(n, R) /\ table[n].prev = PrevHash(n)
                                     /\ table[n].hash = RowHash(table[n].prev, table[n].content)
  BY DEF Fault, Reasons

(* How a chunk of rows leaves the verification.                            *)
Breaks(v, reason) == [v EXCEPT !.phase = "done", !.broken = reason]
Completes(v)      == [v EXCEPT !.phase = "done", !.complete = TRUE]

LEMMA ChunkIs ==
  ASSUME VerifyChunk
  PROVE  \E limit, R, G, x, reason :
           /\ limit = MinOf(Chunk, verifier.maxRows - Len(verifier.seen))
           /\ R = NextChunk(limit) /\ G = Intact(R) /\ x = Past(Cardinality(G))
           /\ reason \in Reasons \cup {"none"}
           /\ G # R => verifier' = Breaks(x, reason)
           /\ G = R /\ Cardinality(R) < limit => verifier' = Completes(x)
           /\ G = R /\ ~(Cardinality(R) < limit) => verifier' = x
<1>1. PICK limit : limit = MinOf(Chunk, verifier.maxRows - Len(verifier.seen))
  OBVIOUS
<1>2. PICK R : R = NextChunk(limit)
  OBVIOUS
<1>3. PICK G : G = Intact(R)
  OBVIOUS
<1>4. PICK x : x = Past(Cardinality(G))
  OBVIOUS
<1>5. PICK first : first = CHOOSE n \in R \ G : \A m \in R \ G : n <= m
  OBVIOUS
<1>6. PICK reason : reason = Fault(first, R)
  OBVIOUS
<1>7. reason \in Reasons \cup {"none"}
  BY <1>6, FaultKinds
<1>8. /\ G # R => verifier' = Breaks(x, reason)
      /\ G = R /\ Cardinality(R) < limit => verifier' = Completes(x)
      /\ G = R /\ ~(Cardinality(R) < limit) => verifier' = x
  BY <1>1, <1>2, <1>3, <1>4, <1>5, <1>6 DEF VerifyChunk, Breaks, Completes
<1> QED
  BY <1>1, <1>2, <1>3, <1>4, <1>7, <1>8

(* What is so of the rows of a chunk, whatever the ledger.                 *)
Told(L, t, G) == \A n \in G : n \in DOMAIN t /\ t[n].content = L[n]
ChunkOK(L, t, v, limit, R, G) ==
  /\ R \subseteq DOMAIN t /\ R \in SUBSET (1 .. Len(L))
  /\ R = FirstOf({n \in DOMAIN t : n >= v.expected}, limit)
  /\ Run(G, v.expected) /\ Told(L, t, G)

LEMMA ChunkRows ==
  ASSUME NEW L, LedgerOK(L), NEW t, NEW b, TableOK(t, L, b), t = table,
         NEW v, ReadOK(v, L), v = verifier, NEW limit, NEW R, R = NextChunk(limit),
         NEW G, G = Intact(R)
  PROVE  ChunkOK(L, t, v, limit, R, G)
<1>1. DOMAIN t \subseteq 1 .. Len(L) /\ Len(L) \in Nat /\ v.expected \in Nat
  BY LedgerType DEF TableOK, ReadOK, Verifiers
<1>2. R = FirstOf({n \in DOMAIN t : n >= v.expected}, limit)
  BY DEF NextChunk, FirstOf
<1>3. R \subseteq DOMAIN t /\ R \in SUBSET (1 .. Len(L))
  BY <1>1, <1>2 DEF FirstOf
<1>4. PICK B : B = {n \in R : Fault(n, R) = "none"}
  OBVIOUS
<1>5. Placed(R, B, v.expected)
  BY <1>4, FaultKinds DEF DueSeq, Placed
<1>6. G = UpTo(R, B)
  BY <1>4 DEF Intact, UpTo
<1>7. Run(G, v.expected) /\ G \subseteq R \cap B
  <2>1. Len(L) \in Nat /\ R \in SUBSET (1 .. Len(L)) /\ v.expected \in Nat
    BY <1>1, <1>3
  <2> QED
    BY <2>1, <1>5, <1>6, GoodRows
<1>8. ASSUME NEW n \in G PROVE n \in DOMAIN t /\ t[n].content = L[n]
  <2>1. n \in R /\ n \in DOMAIN t /\ Fault(n, R) = "none"
    BY <1>3, <1>4, <1>7
  <2>2. t[n].hash = RowHash(t[n].prev, t[n].content)
    BY <2>1, FaultKinds
  <2> QED
    BY <2>1, <2>2, HashTells
<1> QED
  BY <1>2, <1>3, <1>7, <1>8 DEF ChunkOK, Told

(* Without meddling and retention, a chunk has no fault.                   *)
LEMMA QuietRows ==
  ASSUME NEW L, LedgerOK(L), NEW t, TableOK(t, L, FALSE), t = table,
         NEW v, ReadOK(v, L), v = verifier, Quiet(v, t, L), ~v.raced, v.phase = "read",
         NEW limit \in Nat, NEW R, R = NextChunk(limit)
  PROVE  Intact(R) = R
<1>1. PICK due, N : due = v.expected /\ N = Len(L)
  OBVIOUS
<1>2. /\ due \in Nat /\ N \in Nat /\ due >= 1 /\ v.prev = Prefix(L, due - 1)
      /\ v.min \in 1 .. N /\ DOMAIN t = v.min .. N /\ v.min <= due
  <2>1. due \in Nat /\ N \in Nat /\ v.prev = Prefix(L, due - 1)
    BY <1>1, LedgerType DEF ReadOK, Verifiers
  <2>2. v.min \in 1 .. N /\ DOMAIN t = v.min .. N /\ v.min <= due
    BY <1>1 DEF Quiet
  <2> QED
    BY <2>1, <2>2
<1>3. R = FirstOf(due .. N, limit)
  <2>1. {n \in DOMAIN t : n >= due} = due .. N
    BY <1>2
  <2> QED
    BY <1>1, <2>1 DEF NextChunk, FirstOf
<1>4. ASSUME NEW n \in R PROVE Fault(n, R) = "none"
  <2>1. n \in due .. N
    BY <1>3 DEF FirstOf
  <2>2. n \in DOMAIN t /\ n \in 1 .. Len(L)
    BY <1>1, <1>2, <2>1
  <2>3. n = DueSeq(n, R)
    <3>1. n = due + Cardinality({m \in FirstOf(due .. N, limit) : m < n})
      BY <1>2, <1>3, FirstFollow
    <3> QED
      BY <1>1, <1>3, <3>1 DEF DueSeq
  <2>4. t[n].prev = Prefix(L, n - 1) /\ t[n].hash = Prefix(L, n) /\ t[n].content = L[n]
    <3>1. IsRecorded(L, t, n)
      BY <2>2, RowIntact
    <3> QED
      BY <3>1 DEF IsRecorded
  <2>5. t[n].prev = PrevHash(n)
    <3>1. CASE n = due
      BY <1>1, <1>2, <2>4, <3>1 DEF PrevHash
    <3>2. CASE n # due
      <4>1. n - 1 \in DOMAIN t
        BY <1>2, <2>1, <3>2
      <4>2. t[n - 1].hash = Prefix(L, n - 1)
        BY <4>1, RowIntact DEF IsRecorded
      <4> QED
        BY <1>1, <2>4, <3>2, <4>2 DEF PrevHash
    <3> QED
      BY <3>1, <3>2
  <2>6. t[n].hash = RowHash(t[n].prev, t[n].content)
    <3>1. L \in Seq(Entries(L))
      BY LedgerType
    <3>2. Prefix(L, n) = Append(Prefix(L, n - 1), L[n])
      BY <2>2, <3>1, NextPrefix
    <3> QED
      BY <2>4, <3>2 DEF RowHash
  <2> QED
    BY <2>3, <2>5, <2>6, FaultKinds
<1> QED
  BY <1>4 DEF Intact

(* A verification past a chunk's rows, before it is said how it goes on.   *)
LEMMA PastWent ==
  ASSUME NEW L, LedgerOK(L), NEW t, NEW b, TableOK(t, L, b), t = table,
         NEW v, ReadOK(v, L), v = verifier, v.phase = "read",
         NEW G, Run(G, v.expected), Told(L, t, G), NEW c, c = Cardinality(G), NEW x, x = Past(c)
  PROVE  Went(x, v, L, c) /\ x.phase = "read"
<1>0. /\ c \in Nat /\ G = v.expected .. (v.expected + c - 1)
      /\ \A n \in G : n \in DOMAIN t /\ t[n].content = L[n]
  BY DEF Run, Told
<1>1. /\ v \in Verifiers(v.prev, v.seen) /\ v.expected \in Nat /\ v.expected >= 1
      /\ v.expected <= Len(L) + 1 /\ Len(L) \in Nat /\ v.prev = Prefix(L, v.expected - 1)
      /\ v.broken = "none" /\ ~v.complete
  <2>1. v.seen \in Seq(Entries(v.seen)) /\ v.expected >= Len(v.seen) + 1 /\ v.expected \in Nat
    BY DEF ReadOK, Verifiers
  <2>2. v.expected >= 1
    BY <2>1
  <2> QED
    BY <2>1, <2>2, LedgerType DEF ReadOK
<1>2. PICK due : due = v.expected
  OBVIOUS
<1>range. due \in Nat /\ due >= 1 /\ c \in Nat /\ G = due .. (due + c - 1)
  BY <1>0, <1>1, <1>2
<1>last. c # 0 => due + c - 1 \in G
  <2>1. due \in Nat /\ c \in Nat
    BY <1>range
  <2>2. c # 0 => due + c - 1 \in due .. (due + c - 1)
    BY <2>1
  <2> QED
    BY <1>range, <2>2, Zenon
<1>3. PICK s, p : /\ s = v.seen \o Following(L, due, c)
                  /\ p = Prefix(L, due + c - 1)
  OBVIOUS
<1>4. [i \in 1 .. c |-> t[due + i - 1].content] = Following(L, due, c)
  <2>1. ASSUME NEW i \in 1 .. c PROVE t[due + i - 1].content = L[due + i - 1]
    <3>1. due + i - 1 \in G
      <4>1. due \in Nat /\ c \in Nat
        BY <1>range
      <4>2. due + i - 1 \in due .. (due + c - 1)
        BY <4>1
      <4> QED
        BY <1>range, <4>2, Zenon
    <3> QED
      BY <1>0, <3>1
  <2> QED
    BY <2>1 DEF Following
<1>5. (IF c = 0 THEN v.prev ELSE t[due + c - 1].hash) = p
  <2>1. CASE c = 0
    <3>1. due + c - 1 = due - 1
      BY <1>1, <1>2, <2>1
    <3> QED
      BY <1>1, <1>2, <1>3, <2>1, <3>1
  <2>2. CASE c # 0
    <3>1. due + c - 1 \in DOMAIN t
      <4>1. due + c - 1 \in G
        BY <1>last, <2>2
      <4> QED
        BY <1>0, <4>1
    <3>2. t[due + c - 1].hash = Prefix(L, due + c - 1)
      BY <3>1, RowSays
    <3> QED
      BY <1>3, <2>2, <3>2
  <2> QED
    BY <2>1, <2>2
<1>6. due + c <= Len(L) + 1
  <2>1. CASE c = 0
    BY <1>1, <1>2, <2>1
  <2>2. CASE c # 0
    <3>1. due + c - 1 \in G
      BY <1>last, <2>2
    <3>2. due + c - 1 \in 1 .. Len(L)
      BY <1>0, <3>1 DEF TableOK
    <3> QED
      BY <1>0, <1>1, <1>2, <3>2
  <2> QED
    BY <2>1, <2>2
<1>7. x = [v EXCEPT !.seen = s, !.prev = p, !.expected = due + c]
  <2>1. x = [v EXCEPT !.seen = v.seen \o [i \in 1 .. c |-> t[due + i - 1].content],
                      !.prev = IF c = 0 THEN v.prev ELSE t[due + c - 1].hash,
                      !.expected = due + c]
    BY <1>2, Zenon DEF Past
  <2> QED
    BY <1>3, <1>4, <1>5, <2>1, Zenon
<1>8. /\ x \in Verifiers(p, s) /\ Stays(x, v) /\ x.seen = s /\ x.prev = p /\ x.expected = due + c
      /\ x.phase = "read" /\ x.broken = v.broken /\ x.complete = v.complete
  <2>1. PICK e \in Nat : e = due + c
    BY <1>0, <1>1, <1>2
  <2>2. x = [v EXCEPT !.seen = s, !.prev = p, !.expected = e]
    BY <1>7, <2>1
  <2>3. v \in Verifiers(v.prev, v.seen)
    BY <1>1
  <2>4. /\ x \in Verifiers(p, s) /\ x.seen = s /\ x.prev = p /\ x.expected = e
        /\ x.phase = v.phase /\ x.broken = v.broken /\ x.complete = v.complete
        /\ x.from = v.from /\ x.min = v.min /\ x.maxRows = v.maxRows /\ x.head = v.head
        /\ x.raced = v.raced
    BY <2>2, <2>3 DEF Verifiers
  <2> QED
    BY <2>1, <2>4 DEF Stays
<1> QED
  BY <1>1, <1>2, <1>3, <1>6, <1>8 DEF Went

(* A fault ends the verification, and so does a chunk that is not full.    *)
LEMMA WentBreaks ==
  ASSUME NEW L, NEW v, NEW c, NEW x, Went(x, v, L, c), NEW reason \in Reasons \cup {"none"},
         NEW u, u = Breaks(x, reason)
  PROVE  Went(u, v, L, c) /\ u.phase = "done" /\ u.broken = reason
<1>1. x \in Verifiers(x.prev, x.seen)
  BY DEF Went
<1>2. /\ u \in Verifiers(x.prev, x.seen) /\ u.seen = x.seen /\ u.prev = x.prev /\ u.expected = x.expected
      /\ u.phase = "done" /\ u.broken = reason /\ u.complete = x.complete
      /\ u.from = x.from /\ u.min = x.min /\ u.maxRows = x.maxRows /\ u.head = x.head
      /\ u.raced = x.raced
  BY <1>1 DEF Verifiers, Breaks
<1> QED
  BY <1>2 DEF Went, Stays

LEMMA WentCompletes ==
  ASSUME NEW L, NEW v, NEW c, NEW x, Went(x, v, L, c), Len(L) < x.expected, x.phase = "read",
         NEW u, u = Completes(x)
  PROVE  Went(u, v, L, c) /\ u.phase = "done" /\ u.broken = "none"
<1>1. x \in Verifiers(x.prev, x.seen) /\ x.broken = "none"
  BY DEF Went
<1>2. /\ u \in Verifiers(x.prev, x.seen) /\ u.seen = x.seen /\ u.prev = x.prev /\ u.expected = x.expected
      /\ u.phase = "done" /\ u.broken = "none" /\ u.complete = TRUE
      /\ u.from = x.from /\ u.min = x.min /\ u.maxRows = x.maxRows /\ u.head = x.head
      /\ u.raced = x.raced
  BY <1>1 DEF Verifiers, Completes
<1> QED
  BY <1>2 DEF Went, Stays

LEMMA StepChunk ==
  ASSUME AuditInv, VerifyChunk
  PROVE  AuditInv' /\ HeadHash(table') = HeadHash(table)
<1>1. UNCHANGED <<table, outbox, now, run, edits, lost>>
  BY DEF VerifyChunk
<1>2. ASSUME NEW L, LedgerOK(L), TableOK(table, L, edits > 0), ReadOK(verifier, L),
             edits = 0 => Whole(table, L) /\ Quiet(verifier, table, L)
      PROVE  /\ ReadOK(verifier', L)
             /\ edits = 0 => Quiet(verifier', table, L)
             /\ verifier'.broken # "none" /\ ~verifier'.raced
                /\ ~(verifier'.from > verifier'.head + 1) => edits > 0
  <2>1. PICK t, u, v, b : t = table /\ u = verifier' /\ v = verifier /\ b = (edits > 0)
    OBVIOUS
  <2>2. TableOK(t, L, b) /\ ReadOK(v, L) /\ (edits = 0 => Quiet(v, t, L)) /\ edits \in Nat
    BY <1>2, <2>1, Sizes DEF AuditInv, ChainInv, CountersOK
  <2>3. PICK limit, R, G, x, reason :
          /\ limit = MinOf(Chunk, v.maxRows - Len(v.seen))
          /\ R = NextChunk(limit) /\ G = Intact(R) /\ x = Past(Cardinality(G))
          /\ reason \in Reasons \cup {"none"}
          /\ G # R => u = Breaks(x, reason)
          /\ G = R /\ Cardinality(R) < limit => u = Completes(x)
          /\ G = R /\ ~(Cardinality(R) < limit) => u = x
    BY <2>1, ChunkIs
  <2>4. v.phase = "read" /\ Len(v.seen) < v.maxRows
    BY <2>1 DEF VerifyChunk
  <2>5. limit \in Nat \ {0}
    <3>1. v.maxRows \in Nat
      <4>1. v \in Verifiers(v.prev, v.seen)
        BY <2>2 DEF ReadOK
      <4>2. v.maxRows \in RowLimits \cup {1}
        BY <4>1 DEF Verifiers
      <4>3. RowLimits \subseteq Nat /\ 1 \in Nat
        BY Sizes
      <4> QED
        BY <4>2, <4>3
    <3>2. Len(v.seen) \in Nat
      BY <2>2 DEF ReadOK
    <3>3. v.maxRows - Len(v.seen) \in Nat \ {0}
      BY <2>4, <3>1, <3>2
    <3> QED
      BY <2>3, <3>3, Sizes DEF MinOf
  <2>6. PICK c : c = Cardinality(G)
    OBVIOUS
  <2>7. /\ R \in SUBSET (1 .. Len(L)) /\ R = FirstOf({n \in DOMAIN t : n >= v.expected}, limit)
        /\ c \in Nat /\ G = v.expected .. (v.expected + c - 1)
        /\ Run(G, v.expected) /\ Told(L, t, G)
    <3>1. ChunkOK(L, t, v, limit, R, G)
      BY <1>2, <2>1, <2>2, <2>3, ChunkRows
    <3> QED
      BY <2>6, <3>1 DEF ChunkOK, Run
  <2>8. Went(x, v, L, c) /\ x.phase = "read"
    BY <1>2, <2>1, <2>2, <2>3, <2>4, <2>6, <2>7, PastWent
  <2>9. ASSUME edits = 0, ~v.raced PROVE G = R
    <3>1. TableOK(t, L, FALSE)
      <4>1. (edits > 0) = FALSE
        BY <2>9
      <4> QED
        BY <1>2, <2>1, <4>1
    <3> QED
      BY <1>2, <2>1, <2>2, <2>3, <2>4, <2>5, <2>9, <3>1, QuietRows
  <2>10. Len(L) \in Nat /\ DOMAIN t \subseteq 1 .. Len(L) /\ (Len(L) > 0 => Len(L) \in DOMAIN t)
         /\ v.expected \in Nat
    BY <1>2, <2>2, LedgerType DEF TableOK, ReadOK, Verifiers
  <2>11. Went(u, v, L, c) /\ u.phase \in {"read", "done"}
         /\ (u.broken = "none" \/ G # R)
    <3>1. CASE G # R
      BY <2>3, <2>8, <3>1, WentBreaks
    <3>2. CASE G = R /\ Cardinality(R) < limit
      <4>1. Len(L) < x.expected
        <5>1. x.expected = v.expected + c
          BY <2>8 DEF Went
        <5>2. PICK S : S = {n \in DOMAIN t : n >= v.expected}
          OBVIOUS
        <5>3. S \in SUBSET (0 .. Len(L)) /\ R = FirstOf(S, limit)
          BY <2>7, <2>10, <5>2
        <5>4. R = S
          BY <2>5, <2>10, <3>2, <5>3, FewAreAll
        <5>5. ASSUME Len(L) >= v.expected + c PROVE FALSE
          <6>1. v.expected >= 1
            BY <2>2, <2>10 DEF ReadOK
          <6>2. Len(L) \in S
            BY <2>7, <2>10, <5>2, <5>5, <6>1
          <6>3. Len(L) \in v.expected .. (v.expected + c - 1)
            BY <2>7, <3>2, <5>4, <6>2
          <6> QED
            BY <2>7, <2>10, <5>5, <6>3
        <5> QED
          BY <2>7, <2>10, <5>1, <5>5
      <4> QED
        BY <2>3, <2>8, <3>2, <4>1, WentCompletes
    <3>3. CASE G = R /\ ~(Cardinality(R) < limit)
      BY <2>3, <2>8, <3>3 DEF Went
    <3> QED
      BY <3>1, <3>2, <3>3
  <2>12. ReadOK(u, L)
    BY <1>2, <2>2, <2>7, <2>11, ReadOn
  <2>13. u.raced = v.raced /\ u.min = v.min /\ u.expected = v.expected + c
    BY <2>11 DEF Went, Stays
  <2>14. edits = 0 => Quiet(u, t, L)
    <3> SUFFICES ASSUME edits = 0, ~u.raced
                 PROVE  /\ u.min \in 1 .. Len(L) /\ DOMAIN t = u.min .. Len(L)
                        /\ u.min <= u.expected
      BY DEF Quiet
    <3>1. v.min \in 1 .. Len(L) /\ DOMAIN t = v.min .. Len(L) /\ v.min <= v.expected
      BY <2>2, <2>4, <2>13 DEF Quiet
    <3> QED
      BY <2>7, <2>10, <2>13, <3>1
  <2>15. u.broken # "none" /\ ~u.raced => edits > 0
    BY <2>2, <2>9, <2>11, <2>13
  <2> QED
    BY <2>1, <2>12, <2>14, <2>15
<1> QED
  BY <1>1, <1>2, StepVerify

-----------------------------------------------------------------------------
(* The invariant holds, and what follows from it.                          *)

LEMMA AuditInvInit == Init => AuditInv
<1> SUFFICES ASSUME Init PROVE AuditInv
  OBVIOUS
<1>1. PICK L : L = <<>>
  OBVIOUS
<1>2. Len(L) = 0 /\ L \in Seq(Entries(L)) /\ \A n : ~(n \in 1 .. Len(L))
  BY <1>1
<1>3. /\ table = <<>> /\ outbox = [e \in Events |-> "pending"] /\ now = 0 /\ run = Idle
      /\ verifier = NoVerification /\ edits = 0 /\ lost = 0
  BY DEF Init
<1>4. DOMAIN table = {} /\ Ledger = L
  <2>1. DOMAIN table = {}
    BY <1>3
  <2> QED
    BY <1>1, <2>1 DEF Ledger, HeadHash, Genesis
<1>5. LedgerOK(L) /\ TableOK(table, L, edits > 0) /\ Whole(table, L) /\ OnceOK(L)
  BY <1>2, <1>4, Sizes DEF LedgerOK, TableOK, Whole, OnceOK
<1>6. SettledOK(L)
  BY <1>3 DEF SettledOK
<1>7. CountersOK
  BY <1>3, Sizes DEF CountersOK
<1>8. ReadOK(verifier, L) /\ verifier.phase = "idle" /\ verifier.broken = "none"
  BY <1>3, <1>5, NoneIsRead
<1>9. Quiet(verifier, table, L) /\ BrokenIsRight
  BY <1>8 DEF Quiet, BrokenIsRight
<1> QED
  BY <1>4, <1>5, <1>6, <1>7, <1>8, <1>9 DEF AuditInv, ChainInv, VerifierInv

(* What a step does to the ledger and the rows.                            *)
Goes ==
  /\ HeadHash(table') = HeadHash(table) \/ \E c : HeadHash(table') = RowHash(HeadHash(table), c)
  /\ edits' = edits => \A n \in DOMAIN table \ DOMAIN table' : table[n].content.at < now - Retention

LEMMA Still == ASSUME table' = table PROVE Goes
  BY DEF Goes, HeadHash, LastSeq

LEMMA AuditInvStep == ASSUME AuditInv, Next PROVE AuditInv' /\ Goes
<1>1. CASE Consume
  <2>1. PICK e \in Events : Deliver(e) \/ RejectUnreadable(e)
    BY <1>1 DEF Consume
  <2>2. CASE Deliver(e)
    BY <2>2, StepDeliver DEF Goes
  <2>3. CASE RejectUnreadable(e)
    BY <2>3, StepRetention, Still DEF RejectUnreadable
  <2> QED
    BY <2>1, <2>2, <2>3
<1>2. CASE Retain
  <2>1. CASE Cleanup
    BY <2>1, StepCleanup DEF Goes
  <2>2. CASE StartRetention \/ NothingToPrune
    BY <2>2, StepRetention, Still DEF StartRetention, NothingToPrune
  <2> QED
    BY <1>2, <2>1, <2>2 DEF Retain
<1>3. CASE Verify
  <2>1. CASE \E from \in 0 .. MaxSeq, maxRows \in RowLimits : VerifyBegin(from, maxRows)
    BY <2>1, StepBegin, Still DEF VerifyBegin
  <2>2. CASE AnchorAtRow
    BY <2>2, StepAnchorAtRow, Still DEF AnchorAtRow
  <2>3. CASE AnchorAtCheckpoint
    BY <2>3, StepAnchorAtCheckpoint, Still DEF AnchorAtCheckpoint
  <2>4. CASE VerifyChunk
    BY <2>4, StepChunk, Still DEF VerifyChunk
  <2>5. CASE VerifyStops \/ VerifyReturns
    BY <2>5, StepEnds, Still DEF VerifyStops, VerifyReturns
  <2> QED
    BY <1>3, <2>1, <2>2, <2>3, <2>4, <2>5 DEF Verify
<1>4. CASE Meddle
  <2>1. PICK n \in DOMAIN table : EditRow(n) \/ RemoveRow(n)
    BY <1>4 DEF Meddle
  <2> QED
    BY <2>1, StepMeddle DEF Goes
<1>5. CASE Tick
  BY <1>5, StepRetention, Still DEF Tick
<1> QED
  BY <1>1, <1>2, <1>3, <1>4, <1>5 DEF Next

LEMMA AuditInvAlways == Spec => []AuditInv
<1>1. ASSUME AuditInv, UNCHANGED vars PROVE AuditInv'
  <2>1. UNCHANGED <<table, verifier, edits>> /\ CountersOK'
        /\ \A e \in Events : outbox'[e] = "processed" => outbox[e] = "processed"
    BY <1>1 DEF vars, AuditInv, ChainInv, CountersOK
  <2> QED
    BY <1>1, <2>1, StepStill
<1>2. AuditInv /\ [Next]_vars => AuditInv'
  BY <1>1, AuditInvStep
<1> QED
  BY AuditInvInit, <1>2, PTL DEF Spec

LEMMA TypesFollow == AuditInv => TypeOK
<1> SUFFICES ASSUME AuditInv PROVE TypeOK
  OBVIOUS
<1>1. PICK L : /\ L = HeadHash(table) /\ LedgerOK(L) /\ TableOK(table, L, edits > 0) /\ ReadOK(verifier, L)
  BY Before
<1>2. CountersOK
  BY DEF AuditInv, ChainInv
<1>3. /\ L \in Seq(Entries(L)) /\ Len(L) \in Nat /\ Len(L) <= MaxSeq /\ MaxSeq \in Nat
      /\ DOMAIN table \subseteq 1 .. Len(L)
  BY <1>1, LedgerType, Sizes DEF TableOK
<1>4. DOMAIN table \subseteq Seqs
  BY <1>3 DEF Seqs
<1>5. ASSUME NEW n \in DOMAIN table
      PROVE  /\ ContentOK(n, table[n].content)
             /\ Len(table[n].prev) = n - 1 /\ Len(table[n].hash) = n
  <2>1. PICK t, b, d : t = table /\ b = (edits > 0) /\ d = L[n].detail.seq
    OBVIOUS
  <2>2. TableOK(t, L, b) /\ n \in DOMAIN t
    BY <1>1, <2>1
  <2>3. n \in 1 .. Len(L) /\ n \in 0 .. Len(L) /\ n - 1 \in 0 .. Len(L)
    BY <1>3, <2>1, <2>2
  <2>4. /\ t[n].content.seq = n /\ t[n].content.source = L[n].source /\ t[n].content.at = L[n].at
        /\ t[n].content.detail.seq = d
        /\ t[n].prev = Prefix(L, n - 1) /\ t[n].hash = Prefix(L, n)
    BY <1>1, <2>1, <2>2, RowSays
  <2>5. Len(Prefix(L, n - 1)) = n - 1 /\ Len(Prefix(L, n)) = n
    BY <1>1, <2>3, LedgerType
  <2>6. EntryOK(L, n)
    BY <1>1, <2>3 DEF LedgerOK
  <2>7. d \in 0 .. (n - 1) /\ d \in 0 .. MaxSeq /\ (d > 0 => d \in Seqs)
    <3>1. d \in 0 .. (n - 1)
      BY <2>1, <2>6 DEF EntryOK
    <3> QED
      BY <1>3, <2>3, <3>1 DEF Seqs
  <2>8. L[n].source \in Sources
    <3>1. CASE d = 0
      BY <2>1, <2>6, <3>1 DEF EntryOK, Sources
    <3>2. CASE d > 0
      BY <2>1, <2>6, <2>7, <3>2 DEF EntryOK, Sources
    <3> QED
      BY <2>7, <3>1, <3>2
  <2>9. L[n].at \in 0 .. (MaxTime + Skew)
    BY <2>6 DEF EntryOK
  <2> QED
    BY <2>1, <2>4, <2>5, <2>7, <2>8, <2>9 DEF ContentOK
<1>6. /\ verifier.phase \in {"idle", "anchor", "read", "done"}
      /\ verifier.broken \in Reasons \cup {"none"}
      /\ verifier.min \in 0 .. MaxSeq /\ verifier.head \in 0 .. MaxSeq
      /\ verifier.from \in 0 .. MaxSeq /\ verifier.maxRows \in RowLimits \cup {1}
      /\ verifier.expected \in Nat
      /\ verifier.complete \in BOOLEAN /\ verifier.raced \in BOOLEAN
  <2>1. verifier \in Verifiers(verifier.prev, verifier.seen)
    BY <1>1 DEF ReadOK
  <2> QED
    BY <2>1 DEF Verifiers
<1>7. verifier.expected \in 1 .. (MaxSeq + 1) /\ Len(verifier.seen) <= MaxSeq
  <2>1. /\ Len(verifier.seen) \in Nat /\ verifier.expected >= Len(verifier.seen) + 1
        /\ verifier.expected <= Len(L) + 1
    BY <1>1 DEF ReadOK
  <2> QED
    BY <1>3, <1>6, <2>1
<1> QED
  BY <1>2, <1>4, <1>5, <1>6, <1>7 DEF TypeOK, CountersOK

LEMMA ChainFollows == AuditInv => ChainHolds
<1> SUFFICES ASSUME AuditInv, edits = 0, DOMAIN table # {}
             PROVE  LET first == FirstSeq(table)
                        last  == LastSeq(table)
                    IN  /\ DOMAIN table = first..last
                        /\ \A n \in (first + 1)..last :
                              /\ table[n].prev = table[n - 1].hash
                              /\ table[n - 1].content.at <= table[n].content.at
                        /\ first = 1 => table[1].prev = Genesis
                        /\ first > 1 => \E n \in DOMAIN table :
                              table[n].content.detail = [seq |-> first - 1, hash |-> table[first].prev]
  BY DEF ChainHolds
<1>1. PICK L : /\ L = HeadHash(table) /\ LedgerOK(L) /\ TableOK(table, L, edits > 0)
               /\ edits = 0 => Whole(table, L)
  BY Before
<1>2. PICK t : t = table
  OBVIOUS
<1>3. TableOK(t, L, FALSE) /\ DOMAIN t # {} /\ Whole(t, L)
  <2>1. (edits > 0) = FALSE
    OBVIOUS
  <2> QED
    BY <1>1, <1>2, <2>1
<1>4. L \in Seq(Entries(L)) /\ Len(L) \in Nat /\ LastSeq(t) = Len(L) /\ Len(L) > 0
  <2>1. PICK b : b = (edits > 0)
    OBVIOUS
  <2>2. TableOK(t, L, b)
    BY <1>1, <1>2, <2>1
  <2>3. LastSeq(t) = Len(L) /\ (DOMAIN t = {} <=> Len(L) = 0)
    BY <1>1, <2>2, TableEnds
  <2>4. L \in Seq(Entries(L)) /\ Len(L) \in Nat
    BY <1>1, LedgerType
  <2> QED
    BY <1>3, <2>3, <2>4
<1>5. PICK f \in 1 .. Len(L) : /\ DOMAIN t = f .. Len(L)
                               /\ f = 1 \/ \E n \in f .. Len(L) : L[n].detail.seq = f - 1
  BY <1>3, <1>4 DEF Whole
<1>6. FirstSeq(t) = f
  <2>1. FirstSeq(t) \in DOMAIN t /\ \A m \in DOMAIN t : FirstSeq(t) <= m
    BY <1>1, <1>3, TableBegins
  <2> QED
    BY <1>4, <1>5, <2>1
<1>7. ASSUME NEW n \in f .. Len(L)
      PROVE  /\ IsRecorded(L, t, n) /\ n \in 1 .. Len(L) /\ n \in Int
             /\ \A m \in 1 .. n : L[m].at <= L[n].at
             /\ L[n] = Content(L, n, L[n].detail.hash)
             /\ L[n].detail.seq > 0 => L[n].detail.hash = Prefix(L, L[n].detail.seq)
  <2>1. IsRecorded(L, t, n)
    BY <1>1, <1>3, <1>5, RowIntact
  <2>2. n \in 1 .. Len(L) /\ n \in Int
    BY <1>4, <1>5
  <2> QED
    BY <1>1, <2>1, <2>2 DEF LedgerOK, EntryOK
<1>8. ASSUME NEW n \in (f + 1) .. Len(L)
      PROVE  t[n].prev = t[n - 1].hash /\ t[n - 1].content.at <= t[n].content.at
  <2>1. n \in f .. Len(L) /\ n - 1 \in f .. Len(L) /\ n - 1 \in 1 .. n
    BY <1>4, <1>5
  <2>2. IsRecorded(L, t, n) /\ IsRecorded(L, t, n - 1) /\ L[n - 1].at <= L[n].at
    BY <1>7, <2>1
  <2> QED
    BY <2>2 DEF IsRecorded
<1>9. f = 1 => t[1].prev = Genesis
  <2>1. f \in f .. Len(L) /\ 1 - 1 = 0
    BY <1>4, <1>5
  <2>2. IsRecorded(L, t, f)
    BY <1>7, <2>1
  <2>3. f = 1 => t[1].prev = Prefix(L, 0)
    BY <2>1, <2>2 DEF IsRecorded
  <2> QED
    BY <1>4, <2>3, WholePrefix DEF Genesis
<1>10. f > 1 => \E n \in DOMAIN t : t[n].content.detail = [seq |-> f - 1, hash |-> t[f].prev]
  <2>1. SUFFICES ASSUME f > 1
                 PROVE  \E n \in DOMAIN t : t[n].content.detail = [seq |-> f - 1, hash |-> t[f].prev]
    OBVIOUS
  <2>2. PICK n \in f .. Len(L) : L[n].detail.seq = f - 1
    BY <1>5, <2>1
  <2>3. f - 1 > 0 /\ f \in f .. Len(L)
    BY <1>4, <1>5, <2>1
  <2>4. PICK h : h = L[n].detail.hash
    OBVIOUS
  <2>5. IsRecorded(L, t, n) /\ L[n] = Content(L, n, h) /\ h = Prefix(L, f - 1)
    BY <1>7, <2>2, <2>3, <2>4
  <2>6. t[f].prev = Prefix(L, f - 1)
    BY <1>7, <2>3 DEF IsRecorded
  <2>7. t[n].content.detail = [seq |-> f - 1, hash |-> h]
    <3>1. PICK x : x = L[n]
      OBVIOUS
    <3>2. x = Content(L, n, h) /\ t[n].content = x
      BY <2>5, <3>1 DEF IsRecorded
    <3>3. x.detail = [seq |-> f - 1, hash |-> h]
      BY <2>2, <3>2 DEF Content
    <3> QED
      BY <3>2, <3>3
  <2> QED
    BY <1>5, <2>2, <2>5, <2>6, <2>7
<1>11. FirstSeq(table) = f /\ LastSeq(table) = Len(L) /\ DOMAIN table = f .. Len(L)
  BY <1>2, <1>4, <1>5, <1>6
<1> QED
  BY <1>2, <1>8, <1>9, <1>10, <1>11

LEMMA SettledFollows == AuditInv => SettledIsRecordedOnce
<1> SUFFICES ASSUME AuditInv PROVE SettledIsRecordedOnce
  OBVIOUS
<1>1. PICK L : /\ L = HeadHash(table) /\ LedgerOK(L)
               /\ edits = 0 => OnceOK(L)
               /\ \A e \in Events : outbox[e] = "processed" => \E n \in 1 .. Len(L) : L[n].source = e
  BY Before
<1>2. Ledger = L /\ DOMAIN L = 1 .. Len(L)
  BY <1>1, LedgerType DEF Ledger
<1>3. Boundaries = Marks(L)
  BY <1>2 DEF Boundaries, Marks
<1> QED
  BY <1>1, <1>2, <1>3 DEF SettledIsRecordedOnce, OnceOK

LEMMA IntactFollows == AuditInv => IntactIsTrue
<1> SUFFICES ASSUME AuditInv PROVE IntactIsTrue
  OBVIOUS
<1>1. PICK L : L = HeadHash(table) /\ LedgerOK(L) /\ ReadOK(verifier, L)
  BY Before
<1>2. PICK v, s, x, k : v = verifier /\ s = verifier.seen /\ x = verifier.expected /\ k = Len(verifier.seen)
  OBVIOUS
<1>3. /\ Ledger = L /\ Len(L) \in Nat /\ DOMAIN L = 1 .. Len(L)
      /\ \A n \in 1 .. Len(L) : L[n].seq = n
  BY <1>1, LedgerType DEF Ledger
<1>4. Boundaries = Marks(L)
  BY <1>3 DEF Boundaries, Marks
<1>5. /\ k \in Nat /\ x \in Nat /\ x >= k + 1 /\ x <= Len(L) + 1
      /\ \A i \in 1 .. k : s[i] = L[x - k + i - 1]
      /\ v.from <= v.min => x - k - 1 \in Marks(L)
      /\ v.complete => v.head < x
      /\ v.head \in Nat
  <2>1. ReadOK(v, L)
    BY <1>1, <1>2
  <2>2. v \in Verifiers(v.prev, v.seen)
    BY <2>1 DEF ReadOK
  <2>3. v.head \in 0 .. MaxSeq /\ x \in Nat
    BY <1>2, <2>2 DEF Verifiers
  <2>4. v.head \in Nat
    BY <2>3, Sizes
  <2> QED
    BY <1>2, <2>1, <2>3, <2>4 DEF ReadOK
<1>6. ASSUME NEW i \in 1 .. k
      PROVE  s[i].seq = x - k + i - 1 /\ s[i] = L[s[i].seq]
  <2>1. PICK j : j = x - k + i - 1
    OBVIOUS
  <2>2. j \in 1 .. Len(L) /\ s[i] = L[j]
    BY <1>3, <1>5, <2>1
  <2>3. L[j].seq = j
    BY <1>3, <2>2
  <2> QED
    BY <2>1, <2>2, <2>3
<1>7. ASSUME NEW i \in 1 .. k PROVE s[i].seq = s[1].seq + i - 1
  <2>1. 1 \in 1 .. k
    BY <1>5
  <2>2. s[1].seq = x - k /\ s[i].seq = x - k + i - 1
    <3>1. s[1].seq = x - k + 1 - 1
      BY <1>6, <2>1
    <3> QED
      BY <1>5, <1>6, <3>1
  <2> QED
    BY <1>5, <2>2
<1>8. ASSUME k > 0
      PROVE  /\ v.from <= v.min => s[1].seq - 1 \in Boundaries
             /\ v.complete => s[k].seq >= v.head
  <2>1. 1 \in 1 .. k /\ k \in 1 .. k
    BY <1>5, <1>8
  <2>2. s[1].seq = x - k + 1 - 1 /\ s[k].seq = x - k + k - 1
    BY <1>6, <2>1
  <2>3. s[1].seq - 1 = x - k - 1 /\ s[k].seq = x - 1
    BY <1>5, <2>2
  <2> QED
    BY <1>4, <1>5, <2>3
<1> QED
  BY <1>2, <1>3, <1>6, <1>7, <1>8 DEF IntactIsTrue

-----------------------------------------------------------------------------
(* The theorems.                                                           *)

(* The rows, the outbox and the verification keep their types; a row has   *)
(* the seq it is stored under and the hash of a chain of that length       *)
(* (AuditStore._appendLocked).                                             *)
THEOREM AuditTypes == Spec => []TypeOK
  BY AuditInvAlways, TypesFollow, PTL

(* However appends and retention alternate, an unmeddled table is one      *)
(* linked chain, that starts at seq 1 or after a boundary whose checkpoint *)
(* is still there (AuditStore.cleanup).                                    *)
THEOREM ChainHoldsAlways == Spec => []ChainHolds
  BY AuditInvAlways, ChainFollows, PTL

(* An event the outbox calls processed is in the history, and is there     *)
(* twice only if retention removed the first row in between, whatever      *)
(* replies were lost (AuditStore._appendLocked looks for the source).      *)
THEOREM SettledIsRecordedOnceHolds == Spec => []SettledIsRecordedOnce
  BY AuditInvAlways, SettledFollows, PTL

(* The verdict that the chain is intact vouches for the rows it read, for  *)
(* every interleaving of the statements of verify with appends, retention  *)
(* and direct changes.                                                     *)
THEOREM IntactIsTrueHolds == Spec => []IntactIsTrue
  BY AuditInvAlways, IntactFollows, PTL

(* Without retention in between, the verdict that the chain is broken      *)
(* means that somebody meddled (verify, verifyChainRows).                  *)
THEOREM BrokenIsRightHolds == Spec => []BrokenIsRight
<1>1. AuditInv => BrokenIsRight
  BY DEF AuditInv, VerifierInv
<1> QED
  BY AuditInvAlways, <1>1, PTL

(* The hash at the head is only ever extended, by a row at a time: neither *)
(* retention nor a direct change starts the chain over (_appendLocked).    *)
THEOREM HeadOnlyGrowsHolds == Spec => HeadOnlyGrows
<1>1. ASSUME AuditInv, [Next]_vars
      PROVE  [\/ HeadHash(table') = HeadHash(table)
              \/ \E c \in {HeadHash(table')[Len(HeadHash(table'))]} :
                    HeadHash(table') = Append(HeadHash(table), c)]_vars
  <2>1. CASE Next
    <3>1. Goes
      BY <1>1, <2>1, AuditInvStep
    <3>2. PICK L, M : L = HeadHash(table) /\ M = HeadHash(table') /\ LedgerOK(L)
      BY <1>1, Before
    <3>3. CASE M = L
      BY <3>2, <3>3
    <3>4. CASE \E c : M = RowHash(L, c)
      <4>1. PICK c : M = RowHash(L, c)
        BY <3>4
      <4>2. M[Len(M)] = c
        BY <3>2, <4>1, Kept
      <4> QED
        BY <3>2, <4>1, <4>2 DEF RowHash
    <3> QED
      BY <3>1, <3>2, <3>3, <3>4 DEF Goes
  <2> QED
    BY <1>1, <2>1
<1> QED
  BY AuditInvAlways, <1>1, PTL DEF Spec, HeadOnlyGrows

(* Retention deletes by seq, and yet only rows past retention, although    *)
(* the clocks that stamp recorded_at disagree (nextRecordedAt, cleanup).   *)
THEOREM PrunesOnlyExpiredHolds == Spec => PrunesOnlyExpired
<1>1. ASSUME AuditInv, [Next]_vars
      PROVE  [edits' = edits => \A n \in DOMAIN table \ DOMAIN table' :
                table[n].content.at < now - Retention]_vars
  BY <1>1, AuditInvStep DEF Goes
<1> QED
  BY AuditInvAlways, <1>1, PTL DEF Spec, PrunesOnlyExpired
===============================================================================
