--------------------------- MODULE LongPollProofs ---------------------------
(***************************************************************************)
(* Theorems about the long poll, for any number of partitions, producers,  *)
(* consumers and requests.                                                 *)
(***************************************************************************)
EXTENDS LongPoll, LogProofs

----------------------------------------------------------------------------
(* The snapshot a request would take now *)

\* g[i] is the snapshot that has read the first i partitions of the request.
TakesUpTo(r, n, g) ==
  /\ g[0] = EmptySnapshot
  /\ \A i \in 1..n : g[i] = ReadPartition(g[i - 1], r.parts[i], r)

\* There are such snapshots.
LEMMA SnapshotsExist ==
  ASSUME NEW r, NEW n \in Nat
  PROVE  \E g : g = [i \in 0..n |-> g[i]] /\ TakesUpTo(r, n, g)
<1> DEFINE P == {m \in Nat : \E g : g = [i \in 0..m |-> g[i]] /\ TakesUpTo(r, m, g)}
<1>1. 0 \in P
  <2> DEFINE g == [i \in 0..0 |-> EmptySnapshot]
  <2>1. g = [i \in 0..0 |-> g[i]] /\ TakesUpTo(r, 0, g)
    BY DEF TakesUpTo
  <2> QED
    BY <2>1
<1>2. ASSUME NEW m \in Nat, m \in P
      PROVE  m + 1 \in P
  <2>1. PICK f : f = [i \in 0..m |-> f[i]] /\ TakesUpTo(r, m, f)
    BY <1>2
  <2> DEFINE last == ReadPartition(f[m], r.parts[m + 1], r)
             g == [i \in 0..(m + 1) |-> IF i = m + 1 THEN last ELSE f[i]]
  <2>2. /\ g[m + 1] = last
        /\ \A i \in 0..m : g[i] = f[i]
        /\ g = [i \in 0..(m + 1) |-> g[i]]
    <3> HIDE DEF last
    <3> QED
      OBVIOUS
  <2> HIDE DEF g
  <2>3. ASSUME NEW i \in 1..(m + 1)
        PROVE  g[i] = ReadPartition(g[i - 1], r.parts[i], r)
    <3>1. CASE i = m + 1
      <4>1. i - 1 = m /\ g[m] = f[m]
        BY <2>2, <3>1
      <4> QED
        BY <2>2, <3>1, <4>1
    <3>2. CASE i # m + 1
      <4>1. i \in 1..m /\ i \in 0..m /\ i - 1 \in 0..m
        BY <3>2
      <4>2. f[i] = ReadPartition(f[i - 1], r.parts[i], r)
        BY <2>1, <4>1 DEF TakesUpTo
      <4> QED
        BY <2>2, <4>1, <4>2
    <3> QED
      BY <3>1, <3>2
  <2>4. g[0] = EmptySnapshot
    <3>1. f[0] = EmptySnapshot /\ 0 \in 0..m
      BY <2>1 DEF TakesUpTo
    <3> QED
      BY <2>2, <3>1
  <2>5. TakesUpTo(r, m + 1, g)
    BY <2>3, <2>4 DEF TakesUpTo
  <2> QED
    BY <2>2, <2>5
<1>3. Nat \subseteq P
  <2> HIDE DEF P
  <2> QED
    BY <1>1, <1>2, InductionOverNat
<1> QED
  BY <1>3

\* SnapshotNow is the last of them.
LEMMA SnapshotIsLast ==
  ASSUME NEW r, Len(r.parts) \in Nat
  PROVE  \E g : TakesUpTo(r, Len(r.parts), g) /\ SnapshotNow(r) = g[Len(r.parts)]
<1> DEFINE Q(g) == g = [n \in 0..Len(r.parts) |->
                          IF n = 0 THEN EmptySnapshot ELSE ReadPartition(g[n - 1], r.parts[n], r)]
           h == CHOOSE g : Q(g)
<1>1. PICK f : f = [i \in 0..Len(r.parts) |-> f[i]] /\ TakesUpTo(r, Len(r.parts), f)
  BY SnapshotsExist
<1>2. \A n \in 0..Len(r.parts) : n # 0 => n \in 1..Len(r.parts)
  OBVIOUS
<1>3. \A n \in 0..Len(r.parts) :
        f[n] = IF n = 0 THEN EmptySnapshot ELSE ReadPartition(f[n - 1], r.parts[n], r)
  BY <1>1, <1>2 DEF TakesUpTo
<1>4. Q(f)
  BY <1>1, <1>3
<1>5. Q(h)
  BY <1>4
<1>6. SnapshotNow(r) = h[Len(r.parts)]
  BY DEF SnapshotNow
<1> HIDE DEF h
<1>7. TakesUpTo(r, Len(r.parts), h)
  BY <1>5 DEF TakesUpTo
<1> QED
  BY <1>6, <1>7

----------------------------------------------------------------------------
(* The long poll: the invariant *)

Growing(l) == IsLog(l) /\ Contiguous(l)

\* The records answered for a partition with log l are a run of it.
RunOf(got, offset, l) ==
  /\ got.records[1].base_offset <= offset
  /\ offset <= got.records[1].last_offset
  /\ got.records[Len(got.records)].last_offset < got.high_watermark
  /\ \E from \in DOMAIN l.batches :
       /\ from + Len(got.records) - 1 \in DOMAIN l.batches
       /\ got.records = SubSeq(l.batches, from, from + Len(got.records) - 1)

\* An answer for one partition is empty or a run of its log.
AnswerFits(got, part, ls) ==
  /\ got.records \in Seq(Range(got.records))
  /\ got.records # <<>> =>
       part.partition \in Partition /\ RunOf(got, part.offset, ls[part.partition])

\* The number of batches answered.
BatchesIn(response) ==
  SumFunction([i \in 1..Len(response) |-> Len(response[i].records)])

\* A snapshot holds answers for the first partitions of its request, and has
\* no bytes only if there were none to read.
SnapshotFits(s, r, ls) ==
  /\ s.response \in Seq(Range(s.response))
  /\ Len(s.response) <= Len(r.parts)
  /\ s.bytes \in Nat
  /\ \A i \in 1..Len(s.response) : AnswerFits(s.response[i], r.parts[i], ls)
  /\ s.bytes = 0 =>
       /\ BatchesIn(s.response) = 0
       /\ \A i \in 1..Len(s.response) :
            s.response[i].error = "None" => s.response[i].high_watermark = r.parts[i].offset
  /\ s.bytes <= r.max \/ BatchesIn(s.response) = 1

\* A Fetch waits only when it has read everything and has too little.
FetchInv(f, ls) ==
  /\ f \in [pc : {"idle", "register", "read", "wait", "done"}, request : FetchRequest,
            snapshot : {f.snapshot}, woken : BOOLEAN, left : Nat]
  /\ f.left <= f.request.wait
  /\ SnapshotFits(f.snapshot, f.request, ls)
  /\ f.pc = "wait" => /\ Len(f.snapshot.response) = Len(f.request.parts)
                      /\ f.snapshot.bytes < f.request.min

\* What was read so far for a request is what would be read now.
Current(s, r) ==
  \A g : TakesUpTo(r, Len(r.parts), g) => s = g[Len(s.response)]

Notifying == \E p \in Producer : produce[p].pc = "notify"

\* A request that was not notified since it registered has current answers,
\* unless a producer is about to notify it.
UpToDate(f) == Registered(f) /\ ~f.woken => Notifying \/ Current(f.snapshot, f.request)

\* The record sets that requests carry.
RecordData == UNION {Range(r.data) : r \in ProduceRequest}

\* The inductive invariant.
PollInv ==
  /\ logs = [p \in Partition |-> logs[p]] /\ \A p \in Partition : Growing(logs[p])
  /\ produce \in [Producer -> [pc : {"idle", "append", "notify"}, data : Seq(RecordData),
                               made : 0..MaxProduces]]
  /\ fetch = [c \in Consumer |-> fetch[c]]
  /\ \A c \in Consumer : FetchInv(fetch[c], logs) /\ UpToDate(fetch[c])
----------------------------------------------------------------------------
(* What fetch returns *)

\* The elements of a part of a sequence.
LEMMA SubSeqElements ==
  ASSUME NEW s, s \in Seq(Range(s)), NEW m \in 1..(Len(s) + 1), NEW n \in (m - 1)..Len(s)
  PROVE  /\ SubSeq(s, m, n) \in Seq(Range(SubSeq(s, m, n)))
         /\ Len(SubSeq(s, m, n)) = n - m + 1
         /\ DOMAIN SubSeq(s, m, n) = 1..(n - m + 1)
         /\ \A i \in 1..(n - m + 1) : SubSeq(s, m, n)[i] = s[m + i - 1]
<1>1. Len(s) \in Nat /\ m \in Int /\ n \in Int /\ n - m + 1 \in Nat
  OBVIOUS
<1>2. SubSeq(s, m, n) = [i \in 1..(n - m + 1) |-> s[m + i - 1]]
  BY <1>1
<1> DEFINE t == [i \in 1..(n - m + 1) |-> s[m + i - 1]]
<1>3. t \in [1..(n - m + 1) -> Range(t)]
  BY DEF Range
<1>4. t \in Seq(Range(t)) /\ Len(t) = n - m + 1
  <2> HIDE DEF t
  <2>1. PICK k \in Nat : k = n - m + 1
    BY <1>1
  <2>2. t \in [1..k -> Range(t)]
    BY <1>3, <2>1
  <2>3. t \in Seq(Range(t)) /\ Len(t) = k
    BY <2>2
  <2> QED
    BY <2>1, <2>3
<1> QED
  BY <1>2, <1>4

\* The elements of a prefix of a sequence.
LEMMA PrefixElements ==
  ASSUME NEW s, s \in Seq(Range(s)), NEW n \in 0..Len(s)
  PROVE  /\ SubSeq(s, 1, n) \in Seq(Range(SubSeq(s, 1, n)))
         /\ Len(SubSeq(s, 1, n)) = n
         /\ DOMAIN SubSeq(s, 1, n) = 1..n
         /\ \A i \in 1..n : SubSeq(s, 1, n)[i] = s[i]
<1>1. PICK m \in 1..(Len(s) + 1) : m = 1
  OBVIOUS
<1>2. n \in (m - 1)..Len(s) /\ n - m + 1 = n /\ \A i \in 1..n : m + i - 1 = i
  BY <1>1
<1>3. /\ SubSeq(s, m, n) \in Seq(Range(SubSeq(s, m, n)))
      /\ Len(SubSeq(s, m, n)) = n - m + 1
      /\ DOMAIN SubSeq(s, m, n) = 1..(n - m + 1)
      /\ \A i \in 1..(n - m + 1) : SubSeq(s, m, n)[i] = s[m + i - 1]
  BY <1>2, SubSeqElements
<1> DEFINE t == SubSeq(s, m, n)
<1> HIDE DEF t
<1>4. /\ t \in Seq(Range(t)) /\ Len(t) = n /\ DOMAIN t = 1..n
      /\ \A i \in 1..n : t[i] = s[i]
  BY <1>2, <1>3 DEF t
<1> QED
  BY <1>1, <1>4 DEF t

\* The bytes of a sequence of batches: none only for no batches.
LEMMA SizeOfBatches ==
  ASSUME NEW batches, batches \in Seq(Range(batches)),
         \A i \in DOMAIN batches : batches[i].size \in Nat \ {0}
  PROVE  /\ SizeOf(batches) \in Nat
         /\ SizeOf(batches) = 0 <=> batches = <<>>
<1> DEFINE n == Len(batches)
           f == [i \in DOMAIN batches |-> batches[i].size]
<1>1. n \in Nat /\ DOMAIN batches = 1..n /\ (batches = <<>> <=> n = 0)
  OBVIOUS
<1>2. \A i \in 1..n : f[i] \in Nat \ {0}
  BY <1>1
<1>3. SizeOf(batches) = SumFunctionOnSet(f, 1..n)
  BY <1>1 DEF SizeOf, SumFunction
<1> HIDE DEF f, n
<1>4. /\ SumFunctionOnSet(f, 1..0) = 0
      /\ SumFunctionOnSet(f, 1..n) \in Nat
      /\ n > 0 => SumFunctionOnSet(f, 1..n) = SumFunctionOnSet(f, 1..(n - 1)) + f[n]
  BY <1>1, <1>2, SumOfPrefix
<1>5. n > 0 => SumFunctionOnSet(f, 1..(n - 1)) \in Nat
  <2>1. ASSUME n > 0 PROVE n - 1 \in Nat /\ \A i \in 1..(n - 1) : f[i] \in Nat
    BY <1>1, <1>2, <2>1
  <2> QED
    BY <2>1, SumOfPrefix
<1>6. n > 0 => f[n] \in Nat \ {0}
  BY <1>1, <1>2
<1> QED
  BY <1>1, <1>3, <1>4, <1>5, <1>6

\* What is within the limit is a prefix, of at least one batch when there is
\* one, and of more only within the limit.
LEMMA WithinIsPrefix ==
  ASSUME NEW batches, batches \in Seq(Range(batches)), NEW limit
  PROVE  \E n \in 0..Len(batches) :
           /\ Within(batches, limit) = SubSeq(batches, 1, n)
           /\ batches # <<>> => n >= 1
           /\ n <= 1 \/ SizeOf(SubSeq(batches, 1, n)) <= limit
<1> DEFINE S == {n \in 0..Len(batches) : n <= 1 \/ SizeOf(SubSeq(batches, 1, n)) <= limit}
<1>1. Len(batches) \in Nat /\ (batches # <<>> => Len(batches) >= 1)
  OBVIOUS
<1>2. 0 \in S /\ (batches # <<>> => 1 \in S) /\ S \subseteq 0..Len(batches)
  BY <1>1
<1>3. Within(batches, limit) = SubSeq(batches, 1, Max(S))
  BY DEF Within
<1>4. \A n \in S : n <= 1 \/ SizeOf(SubSeq(batches, 1, n)) <= limit
  OBVIOUS
<1> HIDE DEF S
<1>5. Max(S) \in S /\ \A y \in S : Max(S) >= y
  BY <1>1, <1>2, MaxOfBounded
<1> QED
  BY <1>2, <1>3, <1>4, <1>5

\* Every stored offset is below the next one.
LEMMA OffsetsBelowNext ==
  ASSUME NEW l, Growing(l), NEW i \in DOMAIN l.batches
  PROVE  l.batches[i].last_offset < l.next_offset
<1> DEFINE m == Len(l.batches)
           b == l.batches
           P == {k \in Nat : k < m => b[m - k].last_offset < l.next_offset}
<1>1. m \in Nat /\ DOMAIN b = 1..m /\ i \in 1..m /\ l.next_offset \in Nat
  BY DEF Growing, IsLog
<1>2. \A j \in 1..m : b[j].base_offset \in Nat /\ b[j].last_offset \in Nat
  BY <1>1 DEF Growing, IsLog
<1>3. b # <<>>
  BY <1>1
<1>4. b[m].last_offset + 1 = l.next_offset
  BY <1>3 DEF Growing, Contiguous
<1>5. \A j \in 1..m : /\ b[j].base_offset = IF j = 1 THEN 0 ELSE b[j - 1].last_offset + 1
                      /\ b[j].base_offset <= b[j].last_offset
  BY <1>1 DEF Growing, Contiguous
<1> HIDE DEF m, b
<1>6. 0 \in P
  BY <1>1, <1>2, <1>4
<1>7. ASSUME NEW k \in Nat, k \in P
      PROVE  k + 1 \in P
  <2>1. SUFFICES ASSUME k + 1 < m PROVE b[m - (k + 1)].last_offset < l.next_offset
    OBVIOUS
  <2> DEFINE j == m - k
  <2>2. j \in 1..m /\ j - 1 \in 1..m /\ j - 1 = m - (k + 1) /\ j # 1
    BY <1>1, <2>1
  <2>3. b[j].last_offset < l.next_offset
    BY <1>1, <1>7, <2>1
  <2> HIDE DEF j
  <2>4. b[j - 1].last_offset < l.next_offset
    BY <1>1, <1>2, <1>5, <2>2, <2>3
  <2> QED
    BY <2>2, <2>4
<1>8. Nat \subseteq P
  <2> HIDE DEF P
  <2> QED
    BY <1>6, <1>7, InductionOverNat
<1>9. m - i \in Nat /\ m - i < m /\ m - (m - i) = i
  BY <1>1
<1>10. b[m - (m - i)].last_offset < l.next_offset
  BY <1>8, <1>9
<1> QED
  BY <1>9, <1>10 DEF b

\* The batches from an offset on: there are none only at the end of the log,
\* and the first one holds the offset.
LEMMA FromIsRun ==
  ASSUME NEW l, Growing(l), NEW offset \in 0..l.next_offset
  PROVE  \/ From(l, offset) = <<>> /\ offset = l.next_offset
         \/ \E first \in DOMAIN l.batches :
              /\ From(l, offset) = SubSeq(l.batches, first, Len(l.batches))
              /\ l.batches[first].base_offset <= offset
              /\ offset <= l.batches[first].last_offset
<1> DEFINE b == l.batches
           m == Len(b)
           kept == {i \in DOMAIN b : b[i].last_offset >= offset}
<1>1. m \in Nat /\ DOMAIN b = 1..m /\ l.next_offset \in Nat /\ (b = <<>> <=> m = 0)
  BY DEF Growing, IsLog
<1>2. \A j \in 1..m : b[j].base_offset \in Nat /\ b[j].last_offset \in Nat
  BY <1>1 DEF Growing, IsLog
<1>3. CASE kept = {}
  <2>1. From(l, offset) = <<>>
    BY <1>3 DEF From
  <2>2. m = 0 => l.next_offset = 0
    BY <1>1 DEF Growing, Contiguous
  <2>3. m # 0 => b[m].last_offset + 1 = l.next_offset /\ m \in DOMAIN b
    BY <1>1 DEF Growing, Contiguous
  <2>4. m # 0 => ~(b[m].last_offset >= offset)
    BY <1>3, <2>3
  <2> HIDE DEF b, m, kept
  <2>5. offset = l.next_offset
    BY <1>1, <1>2, <2>2, <2>3, <2>4
  <2> QED
    BY <2>1, <2>5
<1>4. CASE kept # {}
  <2> DEFINE first == Min(kept)
  <2>1. kept \subseteq Nat
    BY <1>1
  <2>2. first \in kept /\ \A y \in kept : first <= y
    <3> HIDE DEF kept
    <3> QED
      BY <1>4, <2>1, MinOfNaturals
  <2>3. From(l, offset) = SubSeq(b, first, m)
    BY <1>4 DEF From
  <2> HIDE DEF first
  <2>4. first \in 1..m /\ b[first].last_offset >= offset
    BY <1>1, <2>2
  <2>5. first # 1 => first - 1 \in 1..m /\ ~(b[first - 1].last_offset >= offset)
    <3>1. SUFFICES ASSUME first # 1 PROVE first - 1 \in 1..m /\ first - 1 \notin kept
      BY <1>1
    <3> QED
      BY <1>1, <2>2, <2>4, <3>1
  <2>6. b[first].base_offset = IF first = 1 THEN 0 ELSE b[first - 1].last_offset + 1
    BY <1>1, <2>4 DEF Growing, Contiguous
  <2> HIDE DEF b, m, kept
  <2>7. b[first].base_offset <= offset /\ offset <= b[first].last_offset
    BY <1>1, <1>2, <2>4, <2>5, <2>6
  <2> QED
    BY <1>1, <2>3, <2>4, <2>7 DEF b, m
<1> QED
  BY <1>3, <1>4

\* What fetch promises of an answer, whatever the limit: an error or a run of
\* the log from the offset on, of more than one batch only within the limit,
\* and of none only at the end of the log.
Fetched(got, l, offset, limit) ==
  /\ got.records \in Seq(Range(got.records))
  /\ got.records # <<>> => RunOf(got, offset, l)
  /\ \A i \in DOMAIN got.records : got.records[i].size \in Nat \ {0}
  /\ Len(got.records) <= 1 \/ SizeOf(got.records) <= limit
  /\ got.error = "None" /\ got.records = <<>> => got.high_watermark = offset

\* It keeps that promise.
LEMMA FetchIsRun ==
  ASSUME NEW l, Growing(l), NEW offset \in Int, NEW limit
  PROVE  Fetched(FetchRecords(l, offset, limit), l, offset, limit)
<1> DEFINE got == FetchRecords(l, offset, limit)
           b == l.batches
           m == Len(b)
<1>1. /\ m \in Nat /\ DOMAIN b = 1..m /\ l.next_offset \in Nat
      /\ b \in Seq(Range(b))
      /\ \A i \in 1..m : b[i].size \in Nat \ {0}
  BY DEF Growing, IsLog
<1>2. ASSUME offset < 0 \/ offset > l.next_offset
      PROVE  got.records = <<>> /\ got.error = "OutOfRange"
  BY <1>2 DEF FetchRecords
<1>3. ASSUME ~(offset < 0 \/ offset > l.next_offset)
      PROVE  /\ got.records = Within(From(l, offset), limit)
             /\ got.high_watermark = l.next_offset
  BY <1>3 DEF FetchRecords
<1>4. CASE offset < 0 \/ offset > l.next_offset
  <2>1. <<>> \in Seq(Range(<<>>)) /\ Len(<<>>) = 0 /\ DOMAIN <<>> = {}
    OBVIOUS
  <2>2. got.records = <<>> /\ got.error # "None"
    BY <1>2, <1>4
  <2>3. got = FetchRecords(l, offset, limit)
    OBVIOUS
  <2> HIDE DEF got
  <2>4. Fetched(got, l, offset, limit)
    BY <2>1, <2>2 DEF Fetched
  <2> QED
    BY <2>3, <2>4
<1>5. CASE ~(offset < 0 \/ offset > l.next_offset) /\ From(l, offset) = <<>>
  <2>1. <<>> \in Seq(Range(<<>>)) /\ Len(<<>>) = 0 /\ DOMAIN <<>> = {}
    OBVIOUS
  <2>2. offset \in 0..l.next_offset
    BY <1>1, <1>5
  <2>3. offset = l.next_offset
    <3>1. ASSUME NEW first \in DOMAIN b, From(l, offset) = SubSeq(b, first, m)
          PROVE  FALSE
      <4>1. Len(SubSeq(b, first, m)) = m - first + 1
        BY <1>1, SubSeqElements
      <4>2. m - first + 1 # 0
        <5> HIDE DEF m
        <5> QED
          BY <1>1
      <4> QED
        BY <1>5, <2>1, <3>1, <4>1, <4>2
    <3> QED
      BY <2>2, <3>1, FromIsRun
  <2>4. got.records = <<>>
    <3>1. PICK n \in 0..Len(<<>>) : Within(<<>>, limit) = SubSeq(<<>>, 1, n)
      BY <2>1, WithinIsPrefix
    <3>2. SubSeq(<<>>, 1, n) = <<>>
      BY <2>1, <3>1
    <3> QED
      BY <1>3, <1>5, <3>1, <3>2
  <2>5. got.high_watermark = offset
    BY <1>3, <1>5, <2>3
  <2>6. got = FetchRecords(l, offset, limit)
    OBVIOUS
  <2> HIDE DEF got
  <2>7. Fetched(got, l, offset, limit)
    BY <2>1, <2>4, <2>5 DEF Fetched
  <2> QED
    BY <2>6, <2>7
<1>6. CASE ~(offset < 0 \/ offset > l.next_offset) /\ From(l, offset) # <<>>
  <2>1. offset \in 0..l.next_offset
    BY <1>1, <1>6
  <2>2. PICK first \in DOMAIN b :
          /\ From(l, offset) = SubSeq(b, first, m)
          /\ b[first].base_offset <= offset
          /\ offset <= b[first].last_offset
    BY <1>6, <2>1, FromIsRun
  <2> DEFINE rest == SubSeq(b, first, m)
  <2>3. /\ rest \in Seq(Range(rest)) /\ Len(rest) = m - first + 1
        /\ DOMAIN rest = 1..(m - first + 1)
        /\ \A i \in 1..(m - first + 1) : rest[i] = b[first + i - 1]
    BY <1>1, SubSeqElements
  <2>4. rest # <<>> /\ first \in 1..m
    BY <1>1, <1>6, <2>2
  <2> HIDE DEF rest
  <2>5. PICK n \in 0..Len(rest) :
          /\ Within(rest, limit) = SubSeq(rest, 1, n)
          /\ n >= 1
          /\ n <= 1 \/ SizeOf(SubSeq(rest, 1, n)) <= limit
    BY <2>3, <2>4, WithinIsPrefix
  <2>6. n \in 1..(m - first + 1) /\ n \in Nat /\ first + n - 1 \in 1..m
    BY <1>1, <2>3, <2>4, <2>5
  <2> DEFINE part == SubSeq(rest, 1, n)
             same == SubSeq(b, first, first + n - 1)
  <2>7. /\ part \in Seq(Range(part)) /\ Len(part) = n /\ DOMAIN part = 1..n
        /\ \A i \in 1..n : part[i] = rest[i]
    BY <2>3, <2>5, PrefixElements
  <2>8. /\ same \in Seq(Range(same)) /\ Len(same) = n /\ DOMAIN same = 1..n
        /\ \A i \in 1..n : same[i] = b[first + i - 1]
    <3>1. /\ first \in 1..(m + 1) /\ first + n - 1 \in (first - 1)..m
          /\ (first + n - 1) - first + 1 = n
      BY <1>1, <2>4, <2>6
    <3>2. /\ same \in Seq(Range(same)) /\ Len(same) = (first + n - 1) - first + 1
          /\ DOMAIN same = 1..((first + n - 1) - first + 1)
          /\ \A i \in 1..((first + n - 1) - first + 1) : same[i] = b[first + i - 1]
      BY <1>1, <3>1, SubSeqElements
    <3> HIDE DEF same
    <3> QED
      BY <3>1, <3>2
  <2>9. part = same
    <3> HIDE DEF part, same
    <3>1. \A i \in 1..n : i \in 1..(m - first + 1)
      <4> HIDE DEF m
      <4> QED
        BY <1>1, <2>4, <2>6
    <3>2. \A i \in 1..n : part[i] = same[i]
      <4> HIDE DEF m, b
      <4> QED
        BY <2>3, <2>7, <2>8, <3>1
    <3> QED
      BY <2>7, <2>8, <3>2
  <2>10. got.records = part /\ got.high_watermark = l.next_offset
    BY <1>3, <1>6, <2>2, <2>5 DEF rest
  <2>11. SizeOf(part) <= limit \/ n <= 1
    BY <2>5
  <2>12. b[first + n - 1].last_offset < l.next_offset
    BY <1>1, <2>6, OffsetsBelowNext
  <2> HIDE DEF got, part
  <2>13. /\ part[1] = b[first] /\ part[n] = b[first + n - 1] /\ part # <<>>
         /\ \A i \in 1..n : part[i].size \in Nat \ {0}
    <3>1. \A i \in 1..n : first + i - 1 \in 1..m
      BY <1>1, <2>4, <2>6
    <3>2. 1 \in 1..n /\ n \in 1..n /\ first + 1 - 1 = first
      BY <2>4, <2>6
    <3> HIDE DEF same, b, m
    <3>3. \A i \in 1..n : part[i] = b[first + i - 1]
      BY <2>8, <2>9
    <3>4. \A i \in 1..n : part[i].size \in Nat \ {0}
      BY <1>1, <3>1, <3>3
    <3>5. part # <<>>
      BY <2>6, <2>7
    <3> QED
      BY <3>2, <3>3, <3>4, <3>5
  <2>14. RunOf(got, offset, l)
    <3>1. got.records = SubSeq(l.batches, first, first + Len(got.records) - 1)
      BY <2>7, <2>9, <2>10
    <3>2. first \in DOMAIN l.batches /\ first + Len(got.records) - 1 \in DOMAIN l.batches
      BY <1>1, <2>4, <2>6, <2>7, <2>10
    <3>3. /\ got.records[1].base_offset <= offset
          /\ offset <= got.records[1].last_offset
          /\ got.records[Len(got.records)].last_offset < got.high_watermark
      BY <2>2, <2>7, <2>10, <2>12, <2>13
    <3> QED
      BY <3>1, <3>2, <3>3 DEF RunOf
  <2>15. Fetched(got, l, offset, limit)
    BY <2>7, <2>10, <2>11, <2>13, <2>14 DEF Fetched
  <2> QED
    BY <2>15 DEF got
<1> QED
  BY <1>4, <1>5, <1>6

----------------------------------------------------------------------------
(* Snapshots *)

\* The number of batches answered, partition by partition.
LEMMA BatchesStep ==
  ASSUME NEW response, response \in Seq(Range(response)), NEW got,
         \A i \in 1..Len(response) : Len(response[i].records) \in Nat,
         Len(got.records) \in Nat
  PROVE  /\ BatchesIn(response) \in Nat
         /\ BatchesIn(Append(response, got)) = BatchesIn(response) + Len(got.records)
<1> DEFINE n == Len(response)
           more == Append(response, got)
           f == [i \in 1..n |-> Len(response[i].records)]
           g == [i \in 1..Len(more) |-> Len(more[i].records)]
<1>1. n \in Nat /\ Len(more) = n + 1 /\ more[n + 1] = got /\ \A i \in 1..n : more[i] = response[i]
  BY AppendElements
<1>2. BatchesIn(response) = SumFunctionOnSet(f, 1..n)
  BY DEF BatchesIn, SumFunction
<1>3. BatchesIn(more) = SumFunctionOnSet(g, 1..(n + 1))
  BY <1>1 DEF BatchesIn, SumFunction
<1> HIDE DEF more, n
<1>4. /\ \A i \in 1..n : f[i] \in Nat /\ g[i] = f[i]
      /\ g[n + 1] = Len(got.records)
  BY <1>1 DEF n
<1> HIDE DEF f, g
<1>5. \A i \in 1..(n + 1) : g[i] \in Nat
  <2>1. \A i \in 1..(n + 1) : i \in 1..n \/ i = n + 1
    BY <1>1
  <2> QED
    BY <1>4, <2>1
<1>6. PICK k \in Nat : k = n + 1
  BY <1>1
<1>7. SumFunctionOnSet(g, 1..k) = SumFunctionOnSet(g, 1..(k - 1)) + g[k]
  BY <1>1, <1>5, <1>6, SumOfPrefix
<1>8. SumFunctionOnSet(f, 1..n) \in Nat
  BY <1>1, <1>4, SumOfPrefix
<1>9. SumFunctionOnSet(g, 1..n) = SumFunctionOnSet(f, 1..n)
  <2>1. IsFiniteSet(1..n)
    BY <1>1, FS_Interval
  <2>2. \A i \in 1..n : g[i] = f[i]
    BY <1>4
  <2> QED
    BY <2>1, <2>2, SumDependsOnValues
<1>10. k - 1 = n
  BY <1>1, <1>6
<1> QED
  BY <1>2, <1>3, <1>4, <1>6, <1>7, <1>8, <1>9, <1>10 DEF more

\* A new snapshot fits.
LEMMA EmptyFits ==
  ASSUME NEW r \in FetchRequest, NEW ls
  PROVE  SnapshotFits(EmptySnapshot, r, ls)
<1>1. /\ <<>> \in Seq(Range(<<>>)) /\ Len(<<>>) = 0
      /\ Len(r.parts) \in Nat /\ r.max \in Nat
  BY FetchAssumption
<1>2. BatchesIn(<<>>) = 0
  <2> DEFINE f == [i \in 1..Len(<<>>) |-> Len(<<>>[i].records)]
  <2>1. DOMAIN f = 1..0
    BY <1>1
  <2>2. BatchesIn(<<>>) = SumFunctionOnSet(f, 1..0)
    BY <2>1 DEF BatchesIn, SumFunction
  <2> HIDE DEF f
  <2>3. SumFunctionOnSet(f, 1..0) = 0
    BY SumUnfolds, FS_EmptySet
  <2> QED
    BY <2>2, <2>3
<1> QED
  BY <1>1, <1>2 DEF SnapshotFits, EmptySnapshot

\* What partition_response answers.
LEMMA ResponseIsRun ==
  ASSUME NEW part, part.offset \in Int, NEW limit,
         \A p \in Partition : Growing(logs[p])
  PROVE  LET got == PartitionResponse(part, limit)
         IN  /\ AnswerFits(got, part, logs)
             /\ \A i \in DOMAIN got.records : got.records[i].size \in Nat \ {0}
             /\ Len(got.records) <= 1 \/ SizeOf(got.records) <= limit
             /\ got.error = "None" /\ got.records = <<>> => got.high_watermark = part.offset
             /\ got \in [error : {got.error}, records : {got.records},
                         high_watermark : {got.high_watermark}]
<1> DEFINE got == PartitionResponse(part, limit)
<1>1. CASE part.partition \notin Partition
  <2>1. got = [error |-> "UnknownTopicOrPartition", records |-> <<>>, high_watermark |-> -1]
    BY <1>1 DEF PartitionResponse
  <2>2. <<>> \in Seq(Range(<<>>)) /\ Len(<<>>) = 0 /\ DOMAIN <<>> = {}
    OBVIOUS
  <2>3. got.error = "UnknownTopicOrPartition" /\ got.records = <<>>
        /\ got \in [error : {got.error}, records : {got.records},
                    high_watermark : {got.high_watermark}]
    BY <2>1
  <2>4. AnswerFits(got, part, logs)
    BY <2>2, <2>3 DEF AnswerFits
  <2> QED
    BY <2>2, <2>3, <2>4
<1>2. CASE part.partition \in Partition
  <2> DEFINE l == logs[part.partition]
  <2>1. got = FetchRecords(l, part.offset, limit)
    BY <1>2 DEF PartitionResponse
  <2>2. Fetched(got, l, part.offset, limit)
    BY <1>2, <2>1, FetchIsRun
  <2>3. got \in [error : {got.error}, records : {got.records},
                 high_watermark : {got.high_watermark}]
    BY <2>1 DEF FetchRecords
  <2>4. AnswerFits(got, part, logs)
    BY <1>2, <2>2 DEF Fetched, AnswerFits
  <2> QED
    BY <2>2, <2>3, <2>4 DEF Fetched
<1> QED
  BY <1>1, <1>2

\* A snapshot with the answer for one more partition, which is without records
\* if they would not fit.
ReadsAs(new, s, part, r, kept) ==
  /\ new.response = Append(s.response, kept)
  /\ new.bytes = s.bytes + SizeOf(kept.records)
  /\ AnswerFits(kept, part, logs)
  /\ SizeOf(kept.records) \in Nat /\ (SizeOf(kept.records) = 0 <=> kept.records = <<>>)
  /\ s.bytes = 0 => Len(kept.records) <= 1 \/ SizeOf(kept.records) <= r.max
  /\ s.bytes > 0 => kept.records = <<>> \/ s.bytes + SizeOf(kept.records) <= r.max
  /\ s.bytes = 0 /\ kept.records = <<>> /\ kept.error = "None"
       => kept.high_watermark = part.offset

\* That is what reading a partition gives.
LEMMA ReadAdds ==
  ASSUME NEW s, NEW r \in FetchRequest, s.bytes \in Nat, NEW part, part.offset \in Int,
         part.max \in Nat, \A p \in Partition : Growing(logs[p])
  PROVE  \E kept : ReadsAs(ReadPartition(s, part, r), s, part, r, kept)
<1> DEFINE remaining == Max({0, r.max - s.bytes})
           limit == Min({part.max, remaining})
           got == PartitionResponse(part, limit)
           over == ExceedsRequestLimit(s.bytes, got.records, r)
           kept == IF over THEN [got EXCEPT !.records = <<>>] ELSE got
<1>1. r.max \in Nat
  BY FetchAssumption
<1>2. s.bytes = 0 => limit \in Nat /\ limit <= r.max
  <2>1. remaining = IF 0 > r.max - s.bytes THEN 0 ELSE r.max - s.bytes
    BY <1>1, OfTwo
  <2> HIDE DEF remaining
  <2>3. remaining \in Int /\ part.max \in Int
    BY <1>1, <2>1
  <2>2. limit = IF part.max < remaining THEN part.max ELSE remaining
    BY <2>3, OfTwo
  <2> QED
    BY <1>1, <2>1, <2>2
<1> HIDE DEF limit
<1>3. /\ AnswerFits(got, part, logs)
      /\ \A i \in DOMAIN got.records : got.records[i].size \in Nat \ {0}
      /\ Len(got.records) <= 1 \/ SizeOf(got.records) <= limit
      /\ got.error = "None" /\ got.records = <<>> => got.high_watermark = part.offset
      /\ got \in [error : {got.error}, records : {got.records},
                  high_watermark : {got.high_watermark}]
  BY ResponseIsRun
<1>4. /\ ReadPartition(s, part, r).response = Append(s.response, kept)
      /\ ReadPartition(s, part, r).bytes = s.bytes + SizeOf(kept.records)
  BY DEF ReadPartition, limit
<1> HIDE DEF got
<1>5. /\ SizeOf(got.records) \in Nat
      /\ SizeOf(got.records) = 0 <=> got.records = <<>>
      /\ Len(got.records) \in Nat
  <2>1. got.records \in Seq(Range(got.records))
    BY <1>3 DEF AnswerFits
  <2> QED
    BY <1>3, <2>1, SizeOfBatches
<1>6. CASE over
  <2>1. s.bytes > 0
    BY <1>6 DEF ExceedsRequestLimit
  <2>2. kept.records = <<>> /\ s.bytes # 0
    BY <1>3, <1>6, <2>1
  <2> HIDE DEF kept
  <2>3. <<>> \in Seq(Range(<<>>)) /\ DOMAIN <<>> = {}
    OBVIOUS
  <2>4. SizeOf(<<>>) = 0
    BY <2>3, SizeOfBatches
  <2>5. AnswerFits(kept, part, logs)
    BY <2>2, <2>3 DEF AnswerFits
  <2> QED
    BY <1>4, <2>1, <2>2, <2>4, <2>5 DEF ReadsAs
<1>7. CASE ~over
  <2>1. kept = got
    BY <1>7
  <2>2. s.bytes > 0 => s.bytes + SizeOf(got.records) <= r.max
    BY <1>1, <1>5, <1>7 DEF ExceedsRequestLimit
  <2>3. s.bytes = 0 => Len(got.records) <= 1 \/ SizeOf(got.records) <= r.max
    BY <1>1, <1>2, <1>3, <1>5
  <2> HIDE DEF kept, over
  <2> QED
    BY <1>3, <1>4, <1>5, <2>1, <2>2, <2>3 DEF ReadsAs
<1> QED
  BY <1>6, <1>7

\* A snapshot that fits still does with one more partition read.
LEMMA ReadFits ==
  ASSUME NEW r \in FetchRequest, NEW s, SnapshotFits(s, r, logs),
         \A p \in Partition : Growing(logs[p]), Len(s.response) < Len(r.parts)
  PROVE  SnapshotFits(ReadPartition(s, r.parts[Len(s.response) + 1], r), r, logs)
<1> DEFINE n == Len(s.response)
           part == r.parts[n + 1]
           new == ReadPartition(s, part, r)
<1>1. /\ s.response \in Seq(Range(s.response)) /\ n \in Nat /\ s.bytes \in Nat
      /\ \A i \in 1..n : AnswerFits(s.response[i], r.parts[i], logs)
      /\ s.bytes <= r.max \/ BatchesIn(s.response) = 1
      /\ s.bytes = 0 => BatchesIn(s.response) = 0
      /\ s.bytes = 0 => \A i \in 1..n :
           s.response[i].error = "None" => s.response[i].high_watermark = r.parts[i].offset
  BY DEF SnapshotFits
<1>2. /\ r.max \in Nat /\ Len(r.parts) \in Nat
      /\ n + 1 \in DOMAIN r.parts
  BY <1>1, FetchAssumption
<1>3. part.offset \in Int /\ part.max \in Nat
  BY <1>2, FetchAssumption
<1> HIDE DEF part
<1>0. PICK kept : ReadsAs(new, s, part, r, kept)
  <2> HIDE DEF n
  <2> QED
    BY <1>1, <1>3, ReadAdds
<1> HIDE DEF new
<1>4. /\ new.response = Append(s.response, kept)
      /\ new.bytes = s.bytes + SizeOf(kept.records)
      /\ AnswerFits(kept, part, logs)
      /\ SizeOf(kept.records) \in Nat /\ (SizeOf(kept.records) = 0 <=> kept.records = <<>>)
      /\ s.bytes = 0 => Len(kept.records) <= 1 \/ SizeOf(kept.records) <= r.max
      /\ s.bytes > 0 => kept.records = <<>> \/ s.bytes + SizeOf(kept.records) <= r.max
      /\ s.bytes = 0 /\ kept.records = <<>> /\ kept.error = "None"
           => kept.high_watermark = part.offset
  BY <1>0 DEF ReadsAs
<1>5. /\ new.response \in Seq(Range(new.response)) /\ Len(new.response) = n + 1
      /\ new.response[n + 1] = kept
      /\ \A i \in 1..n : new.response[i] = s.response[i]
  BY <1>1, <1>4, AppendElements
<1>6. /\ Len(kept.records) \in Nat /\ (Len(kept.records) = 0 <=> kept.records = <<>>)
      /\ \A i \in 1..n : Len(s.response[i].records) \in Nat
  <2>1. kept.records \in Seq(Range(kept.records))
    BY <1>4 DEF AnswerFits
  <2>2. \A i \in 1..n : s.response[i].records \in Seq(Range(s.response[i].records))
    BY <1>1 DEF AnswerFits
  <2> QED
    BY <2>1, <2>2
<1>7. /\ BatchesIn(s.response) \in Nat
      /\ BatchesIn(new.response) = BatchesIn(s.response) + Len(kept.records)
  BY <1>1, <1>4, <1>6, BatchesStep
<1> HIDE DEF n
<1>8. \A i \in 1..(n + 1) : i \in 1..n \/ i = n + 1
  BY <1>1
<1>9. \A i \in 1..(n + 1) : AnswerFits(new.response[i], r.parts[i], logs)
  BY <1>1, <1>4, <1>5, <1>8 DEF part
<1>10. new.bytes = 0 => s.bytes = 0 /\ kept.records = <<>>
  BY <1>1, <1>4
<1>11. new.bytes = 0 => BatchesIn(new.response) = 0
  BY <1>1, <1>6, <1>7, <1>10
<1>12. new.bytes = 0 => \A i \in 1..(n + 1) :
         new.response[i].error = "None" => new.response[i].high_watermark = r.parts[i].offset
  <2> SUFFICES ASSUME new.bytes = 0, NEW i \in 1..(n + 1), new.response[i].error = "None"
               PROVE  new.response[i].high_watermark = r.parts[i].offset
    OBVIOUS
  <2>1. CASE i \in 1..n
    BY <1>1, <1>5, <1>10, <2>1
  <2>2. CASE i = n + 1
    BY <1>4, <1>5, <1>10, <2>2 DEF part
  <2> QED
    BY <1>8, <2>1, <2>2
<1>13. new.bytes <= r.max \/ BatchesIn(new.response) = 1
  <2>1. CASE s.bytes = 0
    BY <1>1, <1>2, <1>4, <1>6, <1>7, <2>1
  <2>2. CASE s.bytes > 0
    BY <1>1, <1>2, <1>4, <1>6, <1>7, <2>2
  <2> QED
    BY <1>1, <2>1, <2>2
<1>14. new.bytes \in Nat /\ n + 1 <= Len(r.parts)
  BY <1>1, <1>2, <1>4 DEF n
<1>15. SnapshotFits(new, r, logs)
  BY <1>5, <1>9, <1>11, <1>12, <1>13, <1>14 DEF SnapshotFits
<1> QED
  BY <1>15 DEF new, part, n

----------------------------------------------------------------------------
(* What appends leave as it was *)

\* Log m starts with the batches of log l.
Continues(m, l) ==
  \A i \in DOMAIN l.batches : i \in DOMAIN m.batches /\ m.batches[i] = l.batches[i]

\* An append continues a log, and the log is the same unless the append is
\* announced.
LEMMA AppendContinues ==
  ASSUME NEW l, Growing(l), NEW records, RecordSet(records)
  PROVE  /\ Growing(AppendRecords(l, records).log)
         /\ Continues(AppendRecords(l, records).log, l)
         /\ AppendRecords(l, records).reply.appended \/ AppendRecords(l, records).log = l
<1>1. IsLog(l) /\ Contiguous(l) /\ l.next_offset \in Nat
  BY DEF Growing, IsLog
<1>2. CASE ~Accepted(l, records)
  <2>1. AppendRecords(l, records).log = l
    BY <1>1, <1>2, AppendOutcome
  <2> QED
    BY <2>1 DEF Continues
<1>3. CASE Accepted(l, records)
  <2>1. AppendRecords(l, records) = [log |-> Grown(l, records), reply |-> AppendResult(l, records)]
    BY <1>1, <1>3, AppendOutcome
  <2>2. ValidateRecordSet(records) = "None"
    BY <1>3 DEF Accepted
  <2>3. Growing(Grown(l, records))
    BY <1>1, <2>2, GrownIsContiguous DEF Growing
  <2>4. Continues(Grown(l, records), l)
    <3>1. /\ DOMAIN l.batches = 1..Len(l.batches)
          /\ \A i \in 1..Len(l.batches) :
               /\ i \in DOMAIN Grown(l, records).batches
               /\ Grown(l, records).batches[i] = l.batches[i]
      BY <1>1, <2>2, GrownBatches
    <3> QED
      BY <3>1 DEF Continues
  <2>5. AppendResult(l, records).appended
    BY DEF AppendResult
  <2> QED
    BY <2>1, <2>3, <2>4, <2>5
<1> QED
  BY <1>2, <1>3

\* A run of a log is one of its continuations.
LEMMA RunsStay ==
  ASSUME NEW l, Growing(l), NEW m, Growing(m), Continues(m, l), NEW offset,
         NEW got, got.records \in Seq(Range(got.records)), RunOf(got, offset, l)
  PROVE  RunOf(got, offset, m)
<1> DEFINE n == Len(got.records)
           b == l.batches
           d == m.batches
<1>1. PICK from \in DOMAIN b : from + n - 1 \in DOMAIN b /\ got.records = SubSeq(b, from, from + n - 1)
  BY DEF RunOf
<1>2. /\ b \in Seq(Range(b)) /\ DOMAIN b = 1..Len(b) /\ Len(b) \in Nat
      /\ d \in Seq(Range(d)) /\ DOMAIN d = 1..Len(d) /\ Len(d) \in Nat
      /\ \A i \in DOMAIN b : i \in DOMAIN d /\ d[i] = b[i]
  BY DEF Growing, IsLog, Continues
<1>3. n \in Nat
  OBVIOUS
<1>4. from \in DOMAIN d /\ from + n - 1 \in DOMAIN d
  BY <1>1, <1>2
<1> HIDE DEF b, d, n
<1>5. PICK to \in 1..Len(b) : to = from + n - 1 /\ to \in 1..Len(d) /\ from \in 1..Len(b)
                              /\ from \in 1..Len(d) /\ to - from + 1 = n
  BY <1>1, <1>2, <1>3, <1>4
<1>6. SubSeq(b, from, to) = SubSeq(d, from, to)
  <2>1. /\ from \in 1..(Len(b) + 1) /\ to \in (from - 1)..Len(b)
        /\ from \in 1..(Len(d) + 1) /\ to \in (from - 1)..Len(d)
    BY <1>2, <1>3, <1>5
  <2> DEFINE x == SubSeq(b, from, to)
             y == SubSeq(d, from, to)
  <2>2. /\ x \in Seq(Range(x)) /\ Len(x) = n /\ DOMAIN x = 1..n
        /\ \A i \in 1..n : x[i] = b[from + i - 1]
    <3>1. /\ x \in Seq(Range(x)) /\ Len(x) = to - from + 1 /\ DOMAIN x = 1..(to - from + 1)
          /\ \A i \in 1..(to - from + 1) : x[i] = b[from + i - 1]
      BY <1>2, <2>1, SubSeqElements
    <3> HIDE DEF x
    <3> QED
      BY <1>5, <3>1
  <2>3. /\ y \in Seq(Range(y)) /\ Len(y) = n /\ DOMAIN y = 1..n
        /\ \A i \in 1..n : y[i] = d[from + i - 1]
    <3>1. /\ y \in Seq(Range(y)) /\ Len(y) = to - from + 1 /\ DOMAIN y = 1..(to - from + 1)
          /\ \A i \in 1..(to - from + 1) : y[i] = d[from + i - 1]
      BY <1>2, <2>1, SubSeqElements
    <3> HIDE DEF y
    <3> QED
      BY <1>5, <3>1
  <2> HIDE DEF x, y
  <2>4. \A i \in 1..n : from + i - 1 \in DOMAIN b
    BY <1>2, <1>3, <1>5
  <2>5. \A i \in 1..n : x[i] = y[i]
    BY <1>2, <2>2, <2>3, <2>4
  <2>6. x = y
    <3>1. x = [i \in 1..n |-> x[i]] /\ y = [i \in 1..n |-> y[i]]
      BY <2>2, <2>3
    <3> QED
      BY <2>5, <3>1
  <2> QED
    BY <2>6 DEF x, y
<1>7. got.records = SubSeq(d, from, from + n - 1)
  BY <1>1, <1>5, <1>6
<1> QED
  BY <1>4, <1>7 DEF RunOf, d, n

\* A snapshot that fits the logs fits their continuations.
LEMMA SnapshotStaysFit ==
  ASSUME NEW s, NEW r, NEW ls, NEW ms, SnapshotFits(s, r, ls),
         \A p \in Partition : Growing(ls[p]) /\ Growing(ms[p]) /\ Continues(ms[p], ls[p])
  PROVE  SnapshotFits(s, r, ms)
<1>1. ASSUME NEW i \in 1..Len(s.response)
      PROVE  AnswerFits(s.response[i], r.parts[i], ms)
  <2> DEFINE got == s.response[i]
             part == r.parts[i]
  <2>1. /\ got.records \in Seq(Range(got.records))
        /\ got.records # <<>> => /\ part.partition \in Partition
                                 /\ RunOf(got, part.offset, ls[part.partition])
    BY DEF SnapshotFits, AnswerFits
  <2> HIDE DEF got, part
  <2>2. got.records # <<>> => RunOf(got, part.offset, ms[part.partition])
    BY <2>1, RunsStay
  <2>3. AnswerFits(got, part, ms)
    BY <2>1, <2>2 DEF AnswerFits
  <2> QED
    BY <2>3 DEF got, part
<1> QED
  BY <1>1 DEF SnapshotFits

----------------------------------------------------------------------------
(* The steps of a Fetch *)

\* The fields of a Fetch after each of its assignments.
LEMMA FetchFields ==
  ASSUME NEW f, NEW P, NEW R, NEW W, NEW L,
         f \in [pc : P, request : R, snapshot : {f.snapshot}, woken : W, left : L],
         NEW pc, NEW snapshot, NEW woken, NEW left
  PROVE  /\ [f EXCEPT !.pc = pc] =
              [pc |-> pc, request |-> f.request, snapshot |-> f.snapshot,
               woken |-> f.woken, left |-> f.left]
         /\ [f EXCEPT !.snapshot = snapshot] =
              [pc |-> f.pc, request |-> f.request, snapshot |-> snapshot,
               woken |-> f.woken, left |-> f.left]
         /\ [f EXCEPT !.woken = woken] =
              [pc |-> f.pc, request |-> f.request, snapshot |-> f.snapshot,
               woken |-> woken, left |-> f.left]
         /\ [f EXCEPT !.left = left] =
              [pc |-> f.pc, request |-> f.request, snapshot |-> f.snapshot,
               woken |-> f.woken, left |-> left]
<1>1. DOMAIN f = {"pc", "request", "snapshot", "woken", "left"} /\ f = [x \in DOMAIN f |-> f[x]]
  OBVIOUS
<1>2. [f EXCEPT !.pc = pc] =
         [pc |-> pc, request |-> f.request, snapshot |-> f.snapshot,
          woken |-> f.woken, left |-> f.left]
  BY <1>1
<1>4. [f EXCEPT !.snapshot = snapshot] =
         [pc |-> f.pc, request |-> f.request, snapshot |-> snapshot,
          woken |-> f.woken, left |-> f.left]
  BY <1>1
<1>5. [f EXCEPT !.woken = woken] =
         [pc |-> f.pc, request |-> f.request, snapshot |-> f.snapshot,
          woken |-> woken, left |-> f.left]
  BY <1>1
<1>6. [f EXCEPT !.left = left] =
         [pc |-> f.pc, request |-> f.request, snapshot |-> f.snapshot,
          woken |-> f.woken, left |-> left]
  BY <1>1
<1> QED
  BY <1>2, <1>4, <1>5, <1>6, Zenon

\* A Fetch that registers.
Renewed(f, pc, snapshot, woken) ==
  [f EXCEPT !.pc = pc, !.snapshot = snapshot, !.woken = woken]

\* Its fields.
LEMMA RegisteredFields ==
  ASSUME NEW f, NEW P, NEW R, NEW W, NEW L,
         f \in [pc : P, request : R, snapshot : {f.snapshot}, woken : W, left : L],
         NEW pc, NEW snapshot, NEW woken
  PROVE  Renewed(f, pc, snapshot, woken) =
           [pc |-> pc, request |-> f.request, snapshot |-> snapshot,
            woken |-> woken, left |-> f.left]
<1>1. DOMAIN f = {"pc", "request", "snapshot", "woken", "left"} /\ f = [x \in DOMAIN f |-> f[x]]
  OBVIOUS
<1> DEFINE h == [f EXCEPT !.pc = pc, !.snapshot = snapshot, !.woken = woken]
<1>2. DOMAIN h = {"pc", "request", "snapshot", "woken", "left"} /\ h = [x \in DOMAIN h |-> h[x]]
  BY <1>1
<1>3. h.woken = woken /\ h.request = f.request /\ h.left = f.left
  BY <1>1
<1>4. h.snapshot = snapshot
  BY <1>1
<1>5. h.pc = pc
  BY <1>1
<1> HIDE DEF h
<1>6. h = [pc |-> pc, request |-> f.request, snapshot |-> snapshot,
           woken |-> woken, left |-> f.left]
  BY <1>2, <1>3, <1>4, <1>5
<1> QED
  BY <1>6 DEF h, Renewed

\* While the logs stay as they are, so does what a request would read.
LEMMA CurrentStays ==
  ASSUME logs' = logs
  PROVE  \A s, r : Current(s, r)' <=> Current(s, r)
<1>1. \A part, limit : PartitionResponse(part, limit)' = PartitionResponse(part, limit)
  BY DEF PartitionResponse
<1>2. \A s, part, r : ReadPartition(s, part, r)' = ReadPartition(s, part, r)
  BY DEF ReadPartition, PartitionResponse
<1>3. \A r, n, g : TakesUpTo(r, n, g)' <=> TakesUpTo(r, n, g)
  BY <1>2 DEF TakesUpTo
<1> QED
  BY <1>3 DEF Current

\* A step of one Fetch keeps the invariant if it keeps that of the Fetch.
LEMMA FetchStepKeeps ==
  ASSUME PollInv, NEW c \in Consumer, NEW h, fetch' = [fetch EXCEPT ![c] = h],
         UNCHANGED <<logs, produce>>, FetchInv(h, logs), UpToDate(h)
  PROVE  PollInv'
<1>1. \A d \in Consumer : fetch'[d] = IF d = c THEN h ELSE fetch[d]
  BY DEF PollInv
<1>2. fetch' = [d \in Consumer |-> fetch'[d]]
  BY DEF PollInv
<1>3. \A d \in Consumer : FetchInv(fetch'[d], logs)
  BY <1>1 DEF PollInv
<1>4. \A f : UpToDate(f) => UpToDate(f)'
  <2>1. \A s, r : Current(s, r)' <=> Current(s, r)
    BY CurrentStays
  <2>2. Notifying' <=> Notifying
    BY DEF Notifying
  <2> QED
    BY <2>1, <2>2 DEF UpToDate, Registered
<1>5. \A d \in Consumer : UpToDate(fetch[d])'
  <2>1. \A d \in Consumer : UpToDate(fetch[d])
    BY DEF PollInv
  <2> TAKE d \in Consumer
  <2>2. PICK f : f = fetch'[d]
    OBVIOUS
  <2>3. UpToDate(f)'
    BY <1>1, <1>4, <2>1, <2>2
  <2> QED
    BY <2>2, <2>3 DEF UpToDate, Registered
<1> QED
  BY <1>2, <1>3, <1>5, Zenon DEF PollInv

\* The step gives the Fetch these fields, and that keeps its invariant.
Becomes(c, pc, r, s, woken, left) ==
  fetch' = [fetch EXCEPT ![c] = [pc |-> pc, request |-> r, snapshot |-> s,
                                 woken |-> woken, left |-> left]]

FieldsFit(pc, r, s, woken, left) ==
  /\ pc \in {"idle", "register", "read", "wait", "done"}
  /\ r \in FetchRequest /\ woken \in BOOLEAN
  /\ left \in Nat /\ left <= r.wait
  /\ SnapshotFits(s, r, logs)
  /\ pc = "wait" => Len(s.response) = Len(r.parts) /\ s.bytes < r.min
  /\ pc \in {"read", "wait"} /\ ~woken => Notifying \/ Current(s, r)

\* In terms of the fields of the Fetch.
LEMMA FetchBecomes ==
  ASSUME PollInv, NEW c \in Consumer, UNCHANGED <<logs, produce>>,
         NEW pc, NEW r, NEW s, NEW woken, NEW left,
         Becomes(c, pc, r, s, woken, left), FieldsFit(pc, r, s, woken, left)
  PROVE  PollInv'
<1> DEFINE h == [pc |-> pc, request |-> r, snapshot |-> s, woken |-> woken, left |-> left]
<1>1. h.pc = pc /\ h.request = r /\ h.snapshot = s /\ h.woken = woken /\ h.left = left
  OBVIOUS
<1>2. h \in [pc : {"idle", "register", "read", "wait", "done"}, request : FetchRequest,
             snapshot : {h.snapshot}, woken : BOOLEAN, left : Nat]
  BY DEF FieldsFit
<1>3. fetch' = [fetch EXCEPT ![c] = h]
  BY DEF Becomes
<1> HIDE DEF h
<1>4. FetchInv(h, logs)
  BY <1>1, <1>2 DEF FetchInv, FieldsFit
<1>5. UpToDate(h)
  BY <1>1 DEF UpToDate, Registered, FieldsFit
<1> QED
  BY <1>3, <1>4, <1>5, FetchStepKeeps

\* A new Fetch.
LEMMA FetchStartKeeps ==
  ASSUME PollInv, NEW c \in Consumer, NEW r \in FetchRequest, FetchStart(c, r)
  PROVE  PollInv'
<1>1. Becomes(c, "register", r, EmptySnapshot, FALSE, r.wait)
  BY DEF FetchStart, Becomes
<1>2. UNCHANGED <<logs, produce>>
  BY DEF FetchStart
<1>3. r.wait \in Nat /\ r.wait <= r.wait
  BY FetchAssumption
<1>4. SnapshotFits(EmptySnapshot, r, logs)
  BY EmptyFits
<1>5. FieldsFit("register", r, EmptySnapshot, FALSE, r.wait)
  BY <1>3, <1>4 DEF FieldsFit
<1> QED
  BY <1>1, <1>2, <1>5, FetchBecomes, Zenon

\* What is known of a Fetch before its step.
LEMMA FetchBefore ==
  ASSUME PollInv, NEW c \in Consumer
  PROVE  LET f == fetch[c]
         IN  /\ FetchInv(f, logs) /\ UpToDate(f)
             /\ f \in [pc : {"idle", "register", "read", "wait", "done"},
                       request : FetchRequest, snapshot : {f.snapshot}, woken : BOOLEAN,
                       left : Nat]
             /\ f.pc \in {"idle", "register", "read", "wait", "done"}
             /\ f.request \in FetchRequest /\ f.woken \in BOOLEAN
             /\ f.left \in Nat /\ f.left <= f.request.wait
             /\ SnapshotFits(f.snapshot, f.request, logs)
             /\ f.snapshot.bytes \in Nat /\ Len(f.snapshot.response) \in Nat
             /\ Len(f.request.parts) \in Nat
<1> DEFINE f == fetch[c]
<1>1. FetchInv(f, logs) /\ UpToDate(f)
  BY DEF PollInv
<1>2. f \in [pc : {"idle", "register", "read", "wait", "done"}, request : FetchRequest,
             snapshot : {f.snapshot}, woken : BOOLEAN, left : Nat]
  BY <1>1, Zenon DEF FetchInv
<1>3. f.left <= f.request.wait /\ SnapshotFits(f.snapshot, f.request, logs)
  BY <1>1, Zenon DEF FetchInv
<1>4. f.snapshot.bytes \in Nat /\ Len(f.snapshot.response) \in Nat
  BY <1>3 DEF SnapshotFits
<1>5. /\ f.pc \in {"idle", "register", "read", "wait", "done"}
      /\ f.request \in FetchRequest /\ f.woken \in BOOLEAN /\ f.left \in Nat
  BY <1>2, Zenon
<1>6. Len(f.request.parts) \in Nat
  BY <1>5, FetchAssumption
<1> QED
  BY <1>1, <1>2, <1>3, <1>4, <1>5, <1>6, Zenon

\* A step that only moves a Fetch on: into the wait only from the reads, with
\* everything read and too little found.
LEMMA FetchMoves ==
  ASSUME PollInv, NEW c \in Consumer, UNCHANGED <<logs, produce>>,
         NEW pc \in {"register", "wait", "done"}, fetch' = [fetch EXCEPT ![c].pc = pc],
         pc = "wait" => /\ fetch[c].pc = "read"
                        /\ Len(fetch[c].snapshot.response) = Len(fetch[c].request.parts)
                        /\ fetch[c].snapshot.bytes < fetch[c].request.min
  PROVE  PollInv'
<1>1. PICK f : f = fetch[c]
  OBVIOUS
<1>2. /\ f \in [pc : {"idle", "register", "read", "wait", "done"},
                request : FetchRequest, snapshot : {f.snapshot}, woken : BOOLEAN, left : Nat]
      /\ f.request \in FetchRequest /\ f.woken \in BOOLEAN
      /\ f.left \in Nat /\ f.left <= f.request.wait
      /\ SnapshotFits(f.snapshot, f.request, logs)
      /\ UpToDate(f)
  BY <1>1, FetchBefore, Zenon
<1>3. [f EXCEPT !.pc = pc] = [pc |-> pc, request |-> f.request, snapshot |-> f.snapshot,
                              woken |-> f.woken, left |-> f.left]
  BY <1>2, FetchFields, Zenon
<1>4. fetch' = [fetch EXCEPT ![c] = [f EXCEPT !.pc = pc]]
  BY <1>1
<1>5. pc \in {"idle", "register", "read", "wait", "done"}
  OBVIOUS
<1>6. pc \in {"read", "wait"} /\ ~f.woken => Notifying \/ Current(f.snapshot, f.request)
  <2>1. pc \in {"read", "wait"} => f.pc = "read"
    BY <1>1
  <2> QED
    BY <1>2, <2>1 DEF UpToDate, Registered
<1>7. Becomes(c, pc, f.request, f.snapshot, f.woken, f.left)
  BY <1>3, <1>4, Zenon DEF Becomes
<1>8. pc = "wait" => /\ Len(f.snapshot.response) = Len(f.request.parts)
                     /\ f.snapshot.bytes < f.request.min
  BY <1>1, Zenon
<1>9. FieldsFit(pc, f.request, f.snapshot, f.woken, f.left)
  BY <1>2, <1>5, <1>6, <1>8, Zenon DEF FieldsFit
<1> QED
  BY <1>7, <1>9, FetchBecomes, Zenon

\* A decision to wait is taken when there is too little.
LEMMA FetchDecideKeeps ==
  ASSUME PollInv, NEW c \in Consumer, FetchDecide(c)
  PROVE  PollInv'
<1>1. PICK pc : pc = IF MayAnswer(fetch[c]) THEN "done" ELSE "wait"
  OBVIOUS
<1>2. /\ fetch[c].pc = "read" /\ Read(fetch[c]) = Len(fetch[c].request.parts)
      /\ fetch' = [fetch EXCEPT ![c].pc = pc] /\ UNCHANGED <<logs, produce>>
  BY <1>1, Zenon DEF FetchDecide
<1>3. fetch[c].snapshot.bytes \in Nat /\ fetch[c].request.min \in Nat
  BY FetchBefore, FetchAssumption
<1>4. pc \in {"register", "wait", "done"}
  BY <1>1
<1>5. pc = "wait" => fetch[c].snapshot.bytes < fetch[c].request.min
  BY <1>1, <1>3 DEF MayAnswer
<1> QED
  BY <1>2, <1>4, <1>5, FetchMoves, Zenon DEF Read

\* Waking up, and giving up.
LEMMA FetchEndsWait ==
  ASSUME PollInv, NEW c \in Consumer, FetchWake(c) \/ FetchTimeout(c)
  PROVE  PollInv'
<1>1. PICK pc \in {"register", "done"} : fetch' = [fetch EXCEPT ![c].pc = pc]
  BY DEF FetchWake, FetchTimeout
<1>2. UNCHANGED <<logs, produce>>
  BY DEF FetchWake, FetchTimeout
<1>3. pc \in {"register", "wait", "done"} /\ pc # "wait"
  OBVIOUS
<1> QED
  BY <1>1, <1>2, <1>3, FetchMoves, Zenon

\* Nothing has been read, which is what the first snapshot says.
LEMMA FetchRegisterKeeps ==
  ASSUME PollInv, NEW c \in Consumer, FetchRegister(c)
  PROVE  PollInv'
<1>1. PICK f : f = fetch[c]
  OBVIOUS
<1>2. /\ f \in [pc : {"idle", "register", "read", "wait", "done"},
                request : FetchRequest, snapshot : {f.snapshot}, woken : BOOLEAN, left : Nat]
      /\ f.request \in FetchRequest
      /\ f.left \in Nat /\ f.left <= f.request.wait
  BY <1>1, FetchBefore, Zenon
<1>3. /\ fetch' = [fetch EXCEPT ![c].pc = "read", ![c].snapshot = EmptySnapshot,
                                ![c].woken = FALSE]
      /\ UNCHANGED <<logs, produce>>
  BY DEF FetchRegister
<1>4. Becomes(c, "read", f.request, EmptySnapshot, FALSE, f.left)
  <2>1. PICK w : w = FALSE
    OBVIOUS
  <2>2. fetch' = [fetch EXCEPT ![c] = Renewed(f, "read", EmptySnapshot, w)]
    BY <1>1, <1>3, <2>1 DEF PollInv, Renewed
  <2>3. PICK s : s = EmptySnapshot
    OBVIOUS
  <2>4. Renewed(f, "read", s, w)
          = [pc |-> "read", request |-> f.request, snapshot |-> s, woken |-> w, left |-> f.left]
    BY <1>2, RegisteredFields
  <2>5. Becomes(c, "read", f.request, s, w, f.left)
    BY <2>2, <2>3, <2>4, Zenon DEF Becomes
  <2> QED
    BY <2>1, <2>3, <2>5, Zenon
<1>5. Current(EmptySnapshot, f.request)
  <2>1. Len(EmptySnapshot.response) = 0
    BY DEF EmptySnapshot
  <2> QED
    BY <2>1 DEF Current, TakesUpTo
<1>6. SnapshotFits(EmptySnapshot, f.request, logs)
  BY <1>2, EmptyFits
<1>7. FieldsFit("read", f.request, EmptySnapshot, FALSE, f.left)
  BY <1>2, <1>5, <1>6 DEF FieldsFit
<1> QED
  BY <1>3, <1>4, <1>7, FetchBecomes, Zenon

\* One more partition is read as it is now.
LEMMA FetchReadKeeps ==
  ASSUME PollInv, NEW c \in Consumer, FetchRead(c)
  PROVE  PollInv'
<1>1. PICK f : f = fetch[c]
  OBVIOUS
<1>2. /\ f \in [pc : {"idle", "register", "read", "wait", "done"},
                request : FetchRequest, snapshot : {f.snapshot}, woken : BOOLEAN, left : Nat]
      /\ f.request \in FetchRequest /\ f.woken \in BOOLEAN
      /\ f.left \in Nat /\ f.left <= f.request.wait
      /\ SnapshotFits(f.snapshot, f.request, logs)
      /\ UpToDate(f)
      /\ Len(f.snapshot.response) \in Nat /\ Len(f.request.parts) \in Nat
  BY <1>1, FetchBefore, Zenon
<1>3. PICK n \in Nat : n = Len(f.snapshot.response)
  BY <1>2
<1>4. PICK s : s = ReadPartition(f.snapshot, f.request.parts[n + 1], f.request)
  OBVIOUS
<1>5. f.pc = "read" /\ n < Len(f.request.parts) /\ UNCHANGED <<logs, produce>>
  BY <1>1, <1>3 DEF FetchRead, Read
<1>6. fetch' = [fetch EXCEPT ![c] = [f EXCEPT !.snapshot = s]]
  BY <1>1, <1>3, <1>4 DEF FetchRead, Read
<1>7. [f EXCEPT !.snapshot = s] = [pc |-> f.pc, request |-> f.request, snapshot |-> s,
                                   woken |-> f.woken, left |-> f.left]
  BY <1>2, FetchFields, Zenon
<1>8. SnapshotFits(s, f.request, logs) /\ Len(s.response) = n + 1
  <2>1. \A p \in Partition : Growing(logs[p])
    BY DEF PollInv
  <2>2. SnapshotFits(s, f.request, logs)
    BY <1>2, <1>3, <1>4, <1>5, <2>1, ReadFits
  <2>3. f.snapshot.response \in Seq(Range(f.snapshot.response))
    BY <1>2 DEF SnapshotFits
  <2>4. \E kept : s.response = Append(f.snapshot.response, kept)
    BY <1>4 DEF ReadPartition
  <2> QED
    BY <1>3, <2>2, <2>3, <2>4, AppendElements
<1>9. ~f.woken => Notifying \/ Current(s, f.request)
  <2>1. ~f.woken => Notifying \/ Current(f.snapshot, f.request)
    BY <1>2, <1>5 DEF UpToDate, Registered
  <2>2. ASSUME Current(f.snapshot, f.request) PROVE Current(s, f.request)
    <3> SUFFICES ASSUME NEW g, TakesUpTo(f.request, Len(f.request.parts), g)
                 PROVE  s = g[n + 1]
      BY <1>8 DEF Current
    <3>1. f.snapshot = g[n]
      BY <1>3, <2>2 DEF Current
    <3>2. n + 1 \in 1..Len(f.request.parts) /\ (n + 1) - 1 = n
      BY <1>2, <1>5
    <3>3. g[n + 1] = ReadPartition(g[(n + 1) - 1], f.request.parts[n + 1], f.request)
      BY <3>2 DEF TakesUpTo
    <3> QED
      BY <1>4, <3>1, <3>2, <3>3
  <2> QED
    BY <2>1, <2>2
<1>10. Becomes(c, f.pc, f.request, s, f.woken, f.left)
  BY <1>6, <1>7, Zenon DEF Becomes
<1>11. f.pc \in {"idle", "register", "read", "wait", "done"} /\ f.pc # "wait"
  BY <1>5
<1>12. FieldsFit(f.pc, f.request, s, f.woken, f.left)
  BY <1>2, <1>8, <1>9, <1>11, Zenon DEF FieldsFit
<1> QED
  BY <1>5, <1>10, <1>12, FetchBecomes, Zenon

\* Any number of Fetches take steps that keep their invariants.
LEMMA FetchesKeep ==
  ASSUME PollInv, UNCHANGED logs,
         produce' \in [Producer -> [pc : {"idle", "append", "notify"}, data : Seq(RecordData),
                                    made : 0..MaxProduces]],
         fetch' = [c \in Consumer |-> fetch'[c]],
         \A c \in Consumer : FetchInv(fetch'[c], logs),
         \A c \in Consumer : UpToDate(fetch[c])'
  PROVE  PollInv'
BY Zenon DEF PollInv

\* Time passes for every Fetch.
LEMMA TickKeeps ==
  ASSUME PollInv, Tick
  PROVE  PollInv'
<1>1. /\ fetch' = [c \in Consumer |-> [fetch[c] EXCEPT !.left = Max({0, @ - 1})]]
      /\ UNCHANGED <<logs, produce>>
  BY DEF Tick
<1>2. ASSUME NEW c \in Consumer
      PROVE  FetchInv(fetch'[c], logs) /\ UpToDate(fetch[c])'
  <2>1. PICK f : f = fetch[c]
    OBVIOUS
  <2>2. /\ FetchInv(f, logs) /\ UpToDate(f)
        /\ f \in [pc : {"idle", "register", "read", "wait", "done"},
                  request : FetchRequest, snapshot : {f.snapshot}, woken : BOOLEAN, left : Nat]
        /\ f.pc \in {"idle", "register", "read", "wait", "done"}
        /\ f.request \in FetchRequest /\ f.woken \in BOOLEAN
        /\ f.left \in Nat /\ f.left <= f.request.wait
    BY <2>1, FetchBefore, Zenon
  <2>3. PICK left : left = Max({0, f.left - 1})
    OBVIOUS
  <2>4. left \in Nat /\ left <= f.request.wait
    <3>1. f.request.wait \in Nat
      BY <2>2, FetchAssumption
    <3>2. left = IF 0 > f.left - 1 THEN 0 ELSE f.left - 1
      BY <2>2, <2>3, OfTwo
    <3> QED
      BY <2>2, <3>1, <3>2
  <2>5. fetch'[c] = [f EXCEPT !.left = left]
    BY <1>1, <2>1, <2>3
  <2>6. fetch'[c] = [pc |-> f.pc, request |-> f.request, snapshot |-> f.snapshot,
                     woken |-> f.woken, left |-> left]
    BY <2>2, <2>5, FetchFields, Zenon
  <2>7. PICK h : h = fetch'[c]
    OBVIOUS
  <2>8. /\ h.pc = f.pc /\ h.request = f.request /\ h.snapshot = f.snapshot
        /\ h.woken = f.woken /\ h.left = left
    BY <2>6, <2>7
  <2>9. h \in [pc : {"idle", "register", "read", "wait", "done"},
               request : FetchRequest, snapshot : {h.snapshot}, woken : BOOLEAN, left : Nat]
    BY <2>2, <2>4, <2>6, <2>7, <2>8
  <2>10. FetchInv(h, logs)
    BY <2>2, <2>4, <2>8, <2>9, Zenon DEF FetchInv
  <2>11. UpToDate(h)'
    <3>1. Current(f.snapshot, f.request)' <=> Current(f.snapshot, f.request)
      BY <1>1, CurrentStays
    <3>2. Notifying' <=> Notifying
      BY <1>1 DEF Notifying
    <3> QED
      BY <2>2, <2>8, <3>1, <3>2 DEF UpToDate, Registered
  <2> QED
    BY <2>7, <2>10, <2>11 DEF UpToDate, Registered
<1>3. fetch' = [c \in Consumer |-> fetch'[c]]
  BY <1>1
<1>4. produce' \in [Producer -> [pc : {"idle", "append", "notify"}, data : Seq(RecordData),
                                 made : 0..MaxProduces]]
  BY <1>1 DEF PollInv
<1> QED
  BY <1>1, <1>2, <1>3, <1>4, FetchesKeep

----------------------------------------------------------------------------
(* The steps of a Produce *)

\* A notification reaches every registered Fetch.
LEMMA NotifyKeeps ==
  ASSUME PollInv, NEW p \in Producer, ProduceNotify(p)
  PROVE  PollInv'
<1>1. /\ fetch' = [c \in Consumer |-> IF Registered(fetch[c])
                                      THEN [fetch[c] EXCEPT !.woken = TRUE] ELSE fetch[c]]
      /\ produce' = [produce EXCEPT ![p].pc = "append"]
      /\ UNCHANGED logs
  BY DEF ProduceNotify, NotifyAppend
<1>2. ASSUME NEW c \in Consumer
      PROVE  FetchInv(fetch'[c], logs) /\ UpToDate(fetch[c])'
  <2>1. PICK f : f = fetch[c]
    OBVIOUS
  <2>2. /\ FetchInv(f, logs) /\ UpToDate(f)
        /\ f \in [pc : {"idle", "register", "read", "wait", "done"},
                  request : FetchRequest, snapshot : {f.snapshot}, woken : BOOLEAN, left : Nat]
        /\ f.pc \in {"idle", "register", "read", "wait", "done"}
        /\ f.request \in FetchRequest /\ f.left \in Nat
    BY <2>1, FetchBefore, Zenon
  <2>3. CASE ~Registered(f)
    <3>1. fetch'[c] = f
      BY <1>1, <2>1, <2>3
    <3> QED
      BY <2>2, <2>3, <3>1 DEF UpToDate, Registered
  <2>4. CASE Registered(f)
    <3>1. PICK w : w = TRUE
      OBVIOUS
    <3>2. fetch'[c] = [f EXCEPT !.woken = w]
      BY <1>1, <2>1, <2>4, <3>1
    <3>3. fetch'[c] = [pc |-> f.pc, request |-> f.request, snapshot |-> f.snapshot,
                       woken |-> w, left |-> f.left]
      BY <2>2, <3>2, FetchFields, Zenon
    <3>4. PICK h : h = fetch'[c]
      OBVIOUS
    <3>5. /\ h.pc = f.pc /\ h.request = f.request /\ h.snapshot = f.snapshot
          /\ h.woken = w /\ h.left = f.left
      BY <3>3, <3>4
    <3>6. w \in BOOLEAN /\ h.woken
      BY <3>1, <3>5
    <3>7. h \in [pc : {"idle", "register", "read", "wait", "done"},
                 request : FetchRequest, snapshot : {h.snapshot}, woken : BOOLEAN, left : Nat]
      BY <2>2, <3>3, <3>4, <3>5, <3>6
    <3>8. FetchInv(h, logs)
      BY <2>2, <3>5, <3>7, Zenon DEF FetchInv
    <3> QED
      BY <3>4, <3>6, <3>8 DEF UpToDate
  <2> QED
    BY <2>3, <2>4
<1>3. fetch' = [c \in Consumer |-> fetch'[c]]
  BY <1>1
<1>4. produce' \in [Producer -> [pc : {"idle", "append", "notify"}, data : Seq(RecordData),
                                 made : 0..MaxProduces]]
  BY <1>1 DEF PollInv
<1> QED
  BY <1>1, <1>2, <1>3, <1>4, FetchesKeep

\* A step that leaves the logs and the Fetches alone, and takes no producer
\* from its notification.
LEMMA QuietProduceKeeps ==
  ASSUME PollInv, UNCHANGED <<logs, fetch>>,
         produce' \in [Producer -> [pc : {"idle", "append", "notify"}, data : Seq(RecordData),
                                    made : 0..MaxProduces]],
         \A p \in Producer : produce[p].pc = "notify" => produce'[p].pc = "notify"
  PROVE  PollInv'
<1>1. fetch' = [c \in Consumer |-> fetch'[c]]
  BY DEF PollInv
<1>2. \A c \in Consumer : FetchInv(fetch'[c], logs)
  BY DEF PollInv
<1>3. \A s, r : Current(s, r)' <=> Current(s, r)
  BY CurrentStays
<1>4. Notifying => Notifying'
  BY DEF Notifying
<1>5. \A f : UpToDate(f) => UpToDate(f)'
  BY <1>3, <1>4 DEF UpToDate, Registered
<1>6. ASSUME NEW c \in Consumer PROVE UpToDate(fetch[c])'
  <2>1. PICK f : f = fetch'[c]
    OBVIOUS
  <2>2. UpToDate(f)'
    BY <1>5, <2>1 DEF PollInv
  <2> QED
    BY <2>1, <2>2 DEF UpToDate, Registered
<1> QED
  BY <1>1, <1>2, <1>6, FetchesKeep

\* The record sets of a request are those that requests may carry.
LEMMA RequestData ==
  /\ \A r \in ProduceRequest : r.data \in Seq(RecordData)
  /\ \A d \in RecordData : RecordSet(d.records)
<1>1. ASSUME NEW r \in ProduceRequest PROVE r.data \in Seq(RecordData)
  <2>1. Range(r.data) \subseteq RecordData
    BY DEF RecordData
  <2>2. r.data \in Seq(Range(r.data))
    BY RecordsAssumption
  <2> QED
    BY <2>1, <2>2
<1>2. ASSUME NEW d \in RecordData PROVE RecordSet(d.records)
  <2>1. PICK r \in ProduceRequest : d \in Range(r.data)
    BY DEF RecordData
  <2>2. PICK i \in DOMAIN r.data : d = r.data[i]
    BY <2>1 DEF Range
  <2> QED
    BY <2>2, RecordsAssumption
<1> QED
  BY <1>1, <1>2

\* A request starts.
LEMMA ProduceStartKeeps ==
  ASSUME PollInv, NEW p \in Producer, NEW r \in ProduceRequest, ProduceStart(p, r)
  PROVE  PollInv'
<1>1. PICK data : data = IF r.refused THEN <<>> ELSE r.data
  OBVIOUS
<1>2. data \in Seq(RecordData)
  BY <1>1, RequestData
<1>3. /\ produce[p].pc = "idle" /\ produce[p].made < MaxProduces
      /\ produce' = [produce EXCEPT ![p] = [pc |-> "append", data |-> data,
                                            made |-> produce[p].made + 1]]
      /\ UNCHANGED <<logs, fetch>>
  BY <1>1 DEF ProduceStart
<1>4. produce[p].made + 1 \in 0..MaxProduces
  BY <1>3, ProducesAssumption DEF PollInv
<1>5. produce' \in [Producer -> [pc : {"idle", "append", "notify"}, data : Seq(RecordData),
                                 made : 0..MaxProduces]]
  BY <1>2, <1>3, <1>4 DEF PollInv
<1>6. \A q \in Producer : produce[q].pc = "notify" => produce'[q].pc = "notify"
  BY <1>3 DEF PollInv
<1> QED
  BY <1>3, <1>5, <1>6, QuietProduceKeeps

\* The request is answered.
LEMMA ProduceDoneKeeps ==
  ASSUME PollInv, NEW p \in Producer, ProduceDone(p)
  PROVE  PollInv'
<1>1. /\ produce[p].pc = "append" /\ produce' = [produce EXCEPT ![p].pc = "idle"]
      /\ UNCHANGED <<logs, fetch>>
  BY DEF ProduceDone
<1>2. produce' \in [Producer -> [pc : {"idle", "append", "notify"}, data : Seq(RecordData),
                                 made : 0..MaxProduces]]
  BY <1>1 DEF PollInv
<1>3. \A q \in Producer : produce[q].pc = "notify" => produce'[q].pc = "notify"
  BY <1>1 DEF PollInv
<1> QED
  BY <1>1, <1>2, <1>3, QuietProduceKeeps

\* One round of the loop over the partitions: the log is as it was, or the
\* producer goes on to notify.
LEMMA ProduceAppendKeeps ==
  ASSUME PollInv, NEW p \in Producer, ProduceAppend(p)
  PROVE  PollInv'
<1>1. PICK d : d = Head(produce[p].data)
  OBVIOUS
<1>2. /\ produce[p].pc = "append" /\ produce[p].data # <<>> /\ UNCHANGED fetch
      /\ \/ /\ d.partition \notin Partition
            /\ produce' = [produce EXCEPT ![p].data = Tail(@)]
            /\ UNCHANGED logs
         \/ /\ d.partition \in Partition
            /\ logs' = [logs EXCEPT ![d.partition] =
                          AppendRecords(logs[d.partition], d.records).log]
            /\ produce' = [produce EXCEPT ![p].data = Tail(@),
                 ![p].pc = IF AppendRecords(logs[d.partition], d.records).reply.appended
                           THEN "notify" ELSE "append"]
  BY <1>1 DEF ProduceAppend
<1>3. produce[p].data \in Seq(RecordData)
  BY DEF PollInv
<1>4. d \in RecordData /\ Tail(produce[p].data) \in Seq(RecordData)
  <2>1. PICK s \in Seq(RecordData) : s = produce[p].data
    BY <1>3
  <2>2. s # <<>> /\ d = Head(s)
    BY <1>1, <1>2, <2>1
  <2>3. Head(s) \in RecordData /\ Tail(s) \in Seq(RecordData)
    BY <2>2
  <2> QED
    BY <2>1, <2>2, <2>3
<1>5. RecordSet(d.records)
  BY <1>4, RequestData
<1>6. CASE d.partition \notin Partition
  <2>1. produce' = [produce EXCEPT ![p].data = Tail(@)] /\ UNCHANGED <<logs, fetch>>
    BY <1>2, <1>6
  <2>2. produce' \in [Producer -> [pc : {"idle", "append", "notify"}, data : Seq(RecordData),
                                   made : 0..MaxProduces]]
    BY <1>4, <2>1 DEF PollInv
  <2>3. \A q \in Producer : produce[q].pc = "notify" => produce'[q].pc = "notify"
    BY <2>1 DEF PollInv
  <2> QED
    BY <2>1, <2>2, <2>3, QuietProduceKeeps
<1>7. CASE d.partition \in Partition
  <2>1. PICK q \in Partition : q = d.partition
    BY <1>7
  <2>2. PICK new : new = AppendRecords(logs[q], d.records).log
    OBVIOUS
  <2>3. PICK pc \in {"notify", "append"} :
          /\ produce' = [produce EXCEPT ![p].data = Tail(@), ![p].pc = pc]
          /\ pc = IF AppendRecords(logs[q], d.records).reply.appended THEN "notify" ELSE "append"
    BY <1>2, <2>1
  <2>4. logs' = [logs EXCEPT ![q] = new]
    BY <1>2, <2>1, <2>2
  <2>5. Growing(new) /\ Continues(new, logs[q]) /\ (pc = "notify" \/ new = logs[q])
    <3>1. Growing(logs[q])
      BY DEF PollInv
    <3> QED
      BY <1>5, <2>2, <2>3, <3>1, AppendContinues
  <2>6. produce' \in [Producer -> [pc : {"idle", "append", "notify"}, data : Seq(RecordData),
                                   made : 0..MaxProduces]]
    <3>1. produce \in [Producer -> [pc : {"idle", "append", "notify"},
                                    data : Seq(RecordData), made : 0..MaxProduces]]
      BY DEF PollInv
    <3>2. PICK rest \in Seq(RecordData) : rest = Tail(produce[p].data)
      BY <1>4
    <3>3. produce' = [produce EXCEPT ![p].data = rest, ![p].pc = pc]
      BY <2>3, <3>2
    <3> QED
      BY <3>1, <3>3
  <2>7. /\ produce'[p].pc = pc
        /\ \A o \in Producer : produce[o].pc = "notify" => produce'[o].pc = "notify"
    BY <1>2, <2>3 DEF PollInv
  <2>8. CASE new = logs[q]
    <3>1. UNCHANGED <<logs, fetch>>
      BY <1>2, <2>4, <2>8 DEF PollInv
    <3> QED
      BY <2>6, <2>7, <3>1, QuietProduceKeeps
  <2>9. CASE pc = "notify"
    <3>1. Notifying'
      BY <2>7, <2>9 DEF Notifying
    <3>2. /\ logs' = [o \in Partition |-> logs'[o]]
          /\ \A o \in Partition : logs'[o] = IF o = q THEN new ELSE logs[o]
      BY <2>4 DEF PollInv
    <3>3. \A o \in Partition :
            Growing(logs[o]) /\ Growing(logs'[o]) /\ Continues(logs'[o], logs[o])
      <4>1. \A o \in Partition : Growing(logs[o])
        BY DEF PollInv
      <4>2. \A l : Continues(l, l)
        BY DEF Continues
      <4> QED
        BY <2>5, <3>2, <4>1, <4>2
    <3>4. ASSUME NEW c \in Consumer PROVE FetchInv(fetch'[c], logs')
      <4>1. PICK f : f = fetch[c] /\ f = fetch'[c]
        BY <1>2
      <4>2. FetchInv(f, logs)
        BY <4>1 DEF PollInv
      <4>3. SnapshotFits(f.snapshot, f.request, logs)
        BY <4>2 DEF FetchInv
      <4>4. SnapshotFits(f.snapshot, f.request, logs')
        BY <3>3, <4>3, SnapshotStaysFit
      <4>5. FetchInv(f, logs')
        BY <4>2, <4>4, Zenon DEF FetchInv
      <4> QED
        BY <4>1, <4>5
    <3>5. \A c \in Consumer : UpToDate(fetch[c])'
      BY <3>1 DEF UpToDate
    <3>6. fetch' = [c \in Consumer |-> fetch'[c]]
      BY <1>2 DEF PollInv
    <3> QED
      BY <2>6, <3>2, <3>3, <3>4, <3>5, <3>6, Zenon DEF PollInv
  <2> QED
    BY <2>5, <2>8, <2>9
<1> QED
  BY <1>6, <1>7

----------------------------------------------------------------------------
(* The long poll: the theorems *)

\* The invariant holds at first.
LEMMA PollInvStarts == PollInit => PollInv
<1> SUFFICES ASSUME PollInit PROVE PollInv
  OBVIOUS
<1>1. Growing(NewLog)
  <2>1. NewLog.next_offset = 0 /\ NewLog.batches = <<>>
    BY DEF NewLog
  <2>2. <<>> \in Seq(Range(<<>>)) /\ DOMAIN <<>> = {}
    OBVIOUS
  <2> QED
    BY <2>1, <2>2 DEF Growing, IsLog, Contiguous
<1>2. logs = [p \in Partition |-> logs[p]] /\ \A p \in Partition : Growing(logs[p])
  BY <1>1 DEF PollInit
<1>3. produce \in [Producer -> [pc : {"idle", "append", "notify"}, data : Seq(RecordData),
                                made : 0..MaxProduces]]
  BY ProducesAssumption DEF PollInit
<1>4. fetch = [c \in Consumer |-> fetch[c]]
  BY DEF PollInit
<1>5. PICK r \in FetchRequest : r = CHOOSE q \in FetchRequest : TRUE
  BY FetchAssumption
<1>6. ASSUME NEW c \in Consumer PROVE FetchInv(fetch[c], logs) /\ UpToDate(fetch[c])
  <2>1. PICK f : f = fetch[c]
    OBVIOUS
  <2>2. f = [pc |-> "idle", request |-> r, snapshot |-> EmptySnapshot, woken |-> FALSE,
             left |-> 0]
    BY <1>5, <2>1 DEF PollInit
  <2>3. f.pc = "idle" /\ f.request = r /\ f.snapshot = EmptySnapshot /\ f.left = 0
    BY <2>2
  <2>4. f \in [pc : {"idle", "register", "read", "wait", "done"},
               request : FetchRequest, snapshot : {f.snapshot}, woken : BOOLEAN, left : Nat]
    BY <2>2, <2>3
  <2>5. 0 <= r.wait
    BY FetchAssumption
  <2>6. SnapshotFits(EmptySnapshot, r, logs)
    BY EmptyFits
  <2>7. FetchInv(f, logs)
    BY <2>3, <2>4, <2>5, <2>6 DEF FetchInv
  <2>8. UpToDate(f)
    BY <2>3 DEF UpToDate, Registered
  <2> QED
    BY <2>1, <2>7, <2>8
<1> QED
  BY <1>2, <1>3, <1>4, <1>6 DEF PollInv

\* Every step preserves it.
LEMMA PollInvStep == PollInv /\ [PollNext]_poll_vars => PollInv'
<1> SUFFICES ASSUME PollInv, [PollNext]_poll_vars PROVE PollInv'
  OBVIOUS
<1>1. ASSUME NEW p \in Producer, ProduceStep(p) PROVE PollInv'
  BY <1>1, ProduceAppendKeeps, NotifyKeeps, ProduceDoneKeeps DEF ProduceStep
<1>2. ASSUME NEW p \in Producer, NEW r \in ProduceRequest, ProduceStart(p, r) PROVE PollInv'
  BY <1>2, ProduceStartKeeps
<1>3. ASSUME NEW c \in Consumer, FetchStep(c) PROVE PollInv'
  BY <1>3, FetchRegisterKeeps, FetchReadKeeps, FetchDecideKeeps, FetchEndsWait DEF FetchStep
<1>4. ASSUME NEW c \in Consumer, NEW r \in FetchRequest, FetchStart(c, r) PROVE PollInv'
  BY <1>4, FetchStartKeeps
<1>5. CASE Tick
  BY <1>5, TickKeeps
<1>6. CASE UNCHANGED poll_vars
  <2>1. UNCHANGED <<logs, fetch>> /\ UNCHANGED produce
    BY <1>6 DEF poll_vars
  <2>2. produce' \in [Producer -> [pc : {"idle", "append", "notify"}, data : Seq(RecordData),
                                   made : 0..MaxProduces]]
    BY <2>1 DEF PollInv
  <2> QED
    BY <2>1, <2>2, QuietProduceKeeps
<1> QED
  BY <1>1, <1>2, <1>3, <1>4, <1>5, <1>6 DEF PollNext

\* So it always holds.
LEMMA PollInvariance == PollSpec => []PollInv
BY PollInvStarts, PollInvStep, PTL DEF PollSpec

\* A Fetch never sleeps through the append it waits for: whatever it has not
\* seen of the logs was appended by a producer that has still to notify it.
THEOREM AppendsAreNotLost == PollSpec => []NoLostAppend
<1>1. PollInv => NoLostAppend
  <2> SUFFICES ASSUME PollInv, NEW c \in Consumer, fetch[c].pc = "wait", ~fetch[c].woken,
                      SnapshotNow(fetch[c].request).bytes >= fetch[c].request.min
               PROVE  Notifying
    BY DEF NoLostAppend, Notifying
  <2>1. PICK f : f = fetch[c]
    OBVIOUS
  <2>2. /\ FetchInv(f, logs) /\ UpToDate(f) /\ f.request \in FetchRequest
        /\ f.snapshot.bytes \in Nat /\ Len(f.request.parts) \in Nat
    BY <2>1, FetchBefore, Zenon
  <2>3. Len(f.snapshot.response) = Len(f.request.parts) /\ f.snapshot.bytes < f.request.min
    BY <2>1, <2>2 DEF FetchInv
  <2>4. Notifying \/ Current(f.snapshot, f.request)
    BY <2>1, <2>2 DEF UpToDate, Registered
  <2>5. ASSUME Current(f.snapshot, f.request) PROVE FALSE
    <3>1. PICK g : /\ TakesUpTo(f.request, Len(f.request.parts), g)
                   /\ SnapshotNow(f.request) = g[Len(f.request.parts)]
      BY <2>2, SnapshotIsLast
    <3>2. f.snapshot = SnapshotNow(f.request)
      BY <2>3, <2>5, <3>1 DEF Current
    <3>3. f.request.min \in Nat
      BY <2>2, FetchAssumption
    <3> QED
      BY <2>1, <2>2, <2>3, <3>2, <3>3
  <2> QED
    BY <2>4, <2>5
<1> QED
  BY <1>1, PollInvariance, PTL

\* Whatever is appended between the reads of a Fetch, its answers are runs of
\* the logs from the asked offsets on; they keep within the limit of the
\* request save for a single first batch, and are empty only for a consumer
\* that has read everything.
THEOREM AnswersAlwaysFit == PollSpec => []AnswersFit
<1>1. PollInv => AnswersFit
  <2> SUFFICES ASSUME PollInv PROVE AnswersFit
    OBVIOUS
  <2>1. PollTypeOK
    <3>1. \A p \in Partition : Contiguous(logs[p])
      BY DEF PollInv, Growing
    <3>2. \A p \in Producer : /\ produce[p].pc \in {"idle", "append", "notify"}
                              /\ produce[p].made \in 0..MaxProduces
      BY DEF PollInv
    <3>3. ASSUME NEW c \in Consumer
          PROVE  /\ fetch[c].pc \in {"idle", "register", "read", "wait", "done"}
                 /\ fetch[c].request \in FetchRequest
                 /\ fetch[c].woken \in BOOLEAN
                 /\ fetch[c].left \in 0..fetch[c].request.wait
                 /\ Read(fetch[c]) <= Len(fetch[c].request.parts)
      <4>1. PICK f : f = fetch[c]
        OBVIOUS
      <4>2. /\ f.pc \in {"idle", "register", "read", "wait", "done"}
            /\ f.request \in FetchRequest /\ f.woken \in BOOLEAN
            /\ f.left \in Nat /\ f.left <= f.request.wait
            /\ SnapshotFits(f.snapshot, f.request, logs)
        BY <4>1, FetchBefore, Zenon
      <4>3. f.left \in 0..f.request.wait
        BY <4>2, FetchAssumption
      <4>4. Len(f.snapshot.response) <= Len(f.request.parts)
        BY <4>2 DEF SnapshotFits
      <4> QED
        BY <4>1, <4>2, <4>3, <4>4, Zenon DEF Read
    <3> QED
      BY <3>1, <3>2, <3>3, Zenon DEF PollTypeOK
  <2>2. ASSUME NEW c \in Consumer
        PROVE  SnapshotFits(fetch[c].snapshot, fetch[c].request, logs)
    BY FetchBefore
  <2>3. AnswersAreRuns
    <3> SUFFICES ASSUME NEW c \in Consumer, NEW i \in 1..Read(fetch[c]),
                        fetch[c].snapshot.response[i].records # <<>>
                 PROVE  LET part == fetch[c].request.parts[i]
                            got  == fetch[c].snapshot.response[i]
                        IN  RunOf(got, part.offset, logs[part.partition])
      BY DEF AnswersAreRuns, RunOf
    <3>1. AnswerFits(fetch[c].snapshot.response[i], fetch[c].request.parts[i], logs)
      BY <2>2 DEF SnapshotFits, Read
    <3> QED
      BY <3>1 DEF AnswerFits
  <2>4. WithinRequestLimit
    BY <2>2 DEF WithinRequestLimit, SnapshotFits, BatchesIn, Read
  <2>5. EmptyMeansCaughtUp
    <3> SUFFICES ASSUME NEW c \in Consumer, fetch[c].snapshot.bytes = 0,
                        NEW i \in DOMAIN fetch[c].snapshot.response,
                        fetch[c].snapshot.response[i].error = "None"
                 PROVE  fetch[c].snapshot.response[i].high_watermark
                          = fetch[c].request.parts[i].offset
      BY DEF EmptyMeansCaughtUp
    <3>1. PICK s, r : s = fetch[c].snapshot /\ r = fetch[c].request
      OBVIOUS
    <3>2. SnapshotFits(s, r, logs) /\ s.bytes = 0
      BY <2>2, <3>1
    <3>3. /\ s.response \in Seq(Range(s.response))
          /\ \A j \in 1..Len(s.response) :
               s.response[j].error = "None" => s.response[j].high_watermark = r.parts[j].offset
      BY <3>2 DEF SnapshotFits
    <3>4. DOMAIN s.response = 1..Len(s.response)
      BY <3>3
    <3> QED
      BY <3>1, <3>3, <3>4
  <2> QED
    BY <2>1, <2>3, <2>4, <2>5 DEF AnswersFit
<1> QED
  BY <1>1, PollInvariance, PTL
=============================================================================
