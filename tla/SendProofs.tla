----------------------------- MODULE SendProofs -----------------------------
(***************************************************************************)
(* Lemmas about idempotent production, for any number of clients, sends    *)
(* and batches: the inductive invariant, the record sets that clients      *)
(* send, what the partition answers to them, and what an append leaves as  *)
(* it was. The theorems are in ProduceProofs.                              *)
(***************************************************************************)
EXTENDS IdempotentProduce, LogProofs

----------------------------------------------------------------------------
(* Idempotent production: the invariant *)

\* The sequence number of the first record of send n.
FirstSequence(n) == RecordsUpTo(n - 1) % SequenceModulus

\* What the retry history keeps of send n.
SendCode(n) ==
  [i \in DOMAIN Layout[n] |->
     <<(RecordsUpTo(n - 1) + SumFunctionOnSet(Layout[n], 1..(i - 1))) % SequenceModulus,
       Layout[n][i], Layout[n][i], "x">>]

Entry(c, n) ==
  [base_sequence |-> FirstSequence(n), encoded |-> SendCode(n),
   result |-> [error |-> "None", base_offset |-> OffsetOf(c, n),
               last_offset |-> OffsetOf(c, n) + RecordsIn(n) - 1, appended |-> TRUE]]

Keep(k) == IF k < RecentAppendLimit THEN k ELSE RecentAppendLimit

\* The state of the producer of c when the first k sends are stored: it expects
\* the next one, and remembers the last ones with their offsets.
StateAfter(c, k) ==
  [producer_epoch |-> 0, next_sequence |-> FirstSequence(k + 1),
   recent |-> [j \in 1..Keep(k) |-> Entry(c, k - Keep(k) + j)]]

\* Of client c the first k sends are stored, and nothing else.
HasStored(c, k) ==
  /\ \A j \in DOMAIN log.batches :
       log.batches[j].origin[1] = c =>
         \E n \in 1..k : \E i \in DOMAIN Layout[n] : log.batches[j].origin = <<c, n, i>>
  /\ \A n \in 1..k : IsStored(c, n)
  /\ k = 0 => client[c].id \notin DOMAIN log.producers
  /\ k > 0 => /\ client[c].id \in DOMAIN log.producers
              /\ log.producers[client[c].id] = StateAfter(c, k)

\* Every send that is answered is stored.
Progress(c) ==
  \E k \in 0..client[c].sent :
    /\ HasStored(c, k)
    /\ \A n \in 1..client[c].sent : n \notin client[c].unanswered => n <= k

\* The sends of a client that are unanswered are the latest ones; copies on
\* their way are not much older.
ClientInv(c) ==
  /\ client[c].id \in 0..next_id
  /\ client[c].sent \in 0..Sends[c]
  /\ client[c].sent > 0 => client[c].id # NoId
  /\ client[c].unanswered \subseteq 1..client[c].sent
  /\ \A n \in client[c].unanswered : client[c].sent - n < MaxInFlight
  /\ wire[c] \subseteq 1..client[c].sent
  /\ \A m \in wire[c] : m >= Oldest(c) - MaxDelay

\* No batch of a client is stored twice.
OriginsDiffer(l) ==
  \A i, j \in DOMAIN l.batches :
    l.batches[i].origin = l.batches[j].origin /\ l.batches[i].origin[1] # NoId => i = j

LogInv ==
  /\ IsLog(log) /\ Contiguous(log) /\ log.next_offset <= MaxOffset
  /\ OriginsDiffer(log)
  /\ \A p \in DOMAIN log.producers : p # NoId /\ \E c \in Client : client[c].id = p

\* The inductive invariant.
ProduceInv ==
  /\ next_id \in 0..MaxProducerId
  /\ epochs \in [1..next_id -> {0}]
  /\ client \in [Client -> [id : Nat, sent : Nat, unanswered : SUBSET Nat]]
  /\ wire \in [Client -> SUBSET Nat]
  /\ LogInv
  /\ \A c \in Client : ClientInv(c) /\ Progress(c)
  /\ IdsAreUnique
  /\ ConfirmedOffsetIsTrue
  /\ \A x \in confirmed : x[1] \in Client /\ x[2] \in DOMAIN Layout

----------------------------------------------------------------------------
(* The sends of a client *)

\* A send holds at least one batch, and a batch at least one record.
LEMMA SendsHoldRecords ==
  ASSUME NEW n \in DOMAIN Layout
  PROVE  /\ Len(Layout) \in Nat /\ DOMAIN Layout = 1..Len(Layout) /\ n \in 1..Len(Layout)
         /\ Len(Layout[n]) \in Nat \ {0} /\ DOMAIN Layout[n] = 1..Len(Layout[n])
         /\ \A i \in DOMAIN Layout[n] : Layout[n][i] \in Nat \ {0}
         /\ RecordsIn(n) = SumFunctionOnSet(Layout[n], 1..Len(Layout[n]))
         /\ RecordsIn(n) \in Nat \ {0}
<1>1. Len(Layout) \in Nat /\ DOMAIN Layout = 1..Len(Layout) /\ n \in 1..Len(Layout)
  BY LayoutAssumption
<1>2. Layout[n] \in Seq(Nat \ {0}) /\ Layout[n] # <<>>
  BY LayoutAssumption
<1> DEFINE k == Len(Layout[n])
           f == Layout[n]
<1>3. k \in Nat \ {0} /\ DOMAIN f = 1..k
  BY <1>2
<1>4. \A i \in 1..k : f[i] \in Nat \ {0}
  BY <1>2, <1>3
<1>5. RecordsIn(n) = SumFunctionOnSet(f, 1..k)
  BY <1>3 DEF RecordsIn, SumFunction
<1> HIDE DEF f, k
<1>6. /\ SumFunctionOnSet(f, 1..k) = SumFunctionOnSet(f, 1..(k - 1)) + f[k]
      /\ SumFunctionOnSet(f, 1..(k - 1)) \in Nat
  <2>1. \A i \in 1..k : f[i] \in Nat
    BY <1>4
  <2>2. k - 1 \in Nat /\ \A i \in 1..(k - 1) : f[i] \in Nat
    BY <1>3, <2>1
  <2>3. SumFunctionOnSet(f, 1..(k - 1)) \in Nat
    BY <2>2, SumOfPrefix
  <2>4. k \in Nat /\ k > 0
    BY <1>3
  <2>5. SumFunctionOnSet(f, 1..k) = SumFunctionOnSet(f, 1..(k - 1)) + f[k]
    BY <2>1, <2>4, SumOfPrefix
  <2> QED
    BY <2>3, <2>5
<1>7. SumFunctionOnSet(f, 1..k) \in Nat \ {0}
  BY <1>3, <1>4, <1>6
<1> QED
  BY <1>1, <1>3, <1>4, <1>5, <1>7 DEF f, k

\* The records up to a send are those up to the send before, and its own.
LEMMA RecordsUpToStep ==
  ASSUME NEW n \in DOMAIN Layout
  PROVE  /\ RecordsUpTo(0) = 0
         /\ RecordsUpTo(n - 1) \in Nat /\ RecordsUpTo(n) \in Nat
         /\ RecordsUpTo(n) = RecordsUpTo(n - 1) + RecordsIn(n)
<1> DEFINE f == [m \in DOMAIN Layout |-> RecordsIn(m)]
<1>1. n \in Nat \ {0} /\ \A m \in 1..n : m \in DOMAIN Layout
  BY SendsHoldRecords
<1>2. \A m \in 1..n : f[m] = RecordsIn(m) /\ f[m] \in Nat
  BY <1>1, SendsHoldRecords
<1> HIDE DEF f
<1>3. n - 1 \in Nat /\ (\A m \in 1..(n - 1) : f[m] \in Nat) /\ n \in 1..n
  BY <1>1, <1>2
<1>4. /\ SumFunctionOnSet(f, 1..0) = 0
      /\ SumFunctionOnSet(f, 1..n) \in Nat
      /\ SumFunctionOnSet(f, 1..(n - 1)) \in Nat
      /\ SumFunctionOnSet(f, 1..n) = SumFunctionOnSet(f, 1..(n - 1)) + f[n]
  BY <1>1, <1>2, <1>3, SumOfPrefix
<1> QED
  BY <1>2, <1>3, <1>4 DEF RecordsUpTo, f

\* More sends hold more records.
LEMMA RecordsUpToGrows ==
  ASSUME NEW a \in Nat, NEW b \in Nat, a < b, b <= Len(Layout)
  PROVE  /\ RecordsUpTo(a) \in Nat /\ RecordsUpTo(b) \in Nat
         /\ RecordsUpTo(a) < RecordsUpTo(b)
<1>1. Len(Layout) \in Nat /\ DOMAIN Layout = 1..Len(Layout)
  BY LayoutAssumption
<1> DEFINE P == {d \in Nat : a + d + 1 <= Len(Layout) =>
                   /\ RecordsUpTo(a) \in Nat /\ RecordsUpTo(a + d + 1) \in Nat
                   /\ RecordsUpTo(a) < RecordsUpTo(a + d + 1)}
<1>2. 0 \in P
  <2>1. SUFFICES ASSUME a + 1 <= Len(Layout)
                 PROVE  /\ RecordsUpTo(a) \in Nat /\ RecordsUpTo(a + 1) \in Nat
                        /\ RecordsUpTo(a) < RecordsUpTo(a + 1)
    OBVIOUS
  <2>2. PICK n \in DOMAIN Layout : n = a + 1 /\ n - 1 = a
    BY <1>1, <2>1
  <2> QED
    BY <2>2, RecordsUpToStep, SendsHoldRecords
<1>3. ASSUME NEW d \in Nat, d \in P
      PROVE  d + 1 \in P
  <2>1. SUFFICES ASSUME a + d + 2 <= Len(Layout)
                 PROVE  /\ RecordsUpTo(a) \in Nat /\ RecordsUpTo(a + d + 2) \in Nat
                        /\ RecordsUpTo(a) < RecordsUpTo(a + d + 2)
    <3>1. a + (d + 1) + 1 = a + d + 2
      OBVIOUS
    <3> QED
      BY <2>1, <3>1
  <2>2. PICK n \in DOMAIN Layout : n = a + d + 2 /\ n - 1 = a + d + 1
    BY <1>1, <2>1
  <2>3. RecordsUpTo(n) = RecordsUpTo(n - 1) + RecordsIn(n) /\ RecordsUpTo(n) \in Nat
        /\ RecordsIn(n) \in Nat \ {0}
    BY RecordsUpToStep, SendsHoldRecords
  <2>4. RecordsUpTo(a) \in Nat /\ RecordsUpTo(n - 1) \in Nat /\ RecordsUpTo(a) < RecordsUpTo(n - 1)
    BY <1>1, <1>3, <2>1, <2>2
  <2> QED
    BY <2>2, <2>3, <2>4
<1>4. b - a - 1 \in P
  <2> HIDE DEF P
  <2> QED
    BY <1>2, <1>3, InductionOverNat
<1>5. a + (b - a - 1) + 1 = b
  OBVIOUS
<1> QED
  BY <1>4, <1>5

\* Some sends are always close together.
LEMMA SpanIsPositive == Span \in Nat \ {0}
<1>1. MaxInFlight \in Nat \ {0} /\ MaxDelay \in Nat /\ RecentAppendLimit - 1 \in Nat
  BY ClientAssumption, RecentAssumption
<1>2. PICK m : m = Max({MaxDelay, RecentAppendLimit - 1})
  OBVIOUS
<1>3. m \in Nat
  BY <1>1, <1>2, OfTwo
<1> QED
  BY <1>1, <1>2, <1>3 DEF Span

\* Two sends that can meet in the broker have different sequence numbers.
LEMMA FirstSequencesDiffer ==
  ASSUME NEW a \in Nat \ {0}, NEW b \in Nat, a < b, b <= Len(Layout) + 1, b - a <= Span
  PROVE  FirstSequence(a) # FirstSequence(b)
<1>1. Len(Layout) \in Nat /\ DOMAIN Layout = 1..Len(Layout)
  BY LayoutAssumption
<1>2. Span \in Int
  BY SpanIsPositive
<1>3. a \in DOMAIN Layout /\ b - 1 \in DOMAIN Layout /\ a <= b - 1 /\ (b - 1) - a < Span
  BY <1>1, <1>2
<1>4. RecordsUpTo(b - 1) - RecordsUpTo(a - 1) < SequenceModulus
  BY <1>3, SpanAssumption
<1>5. /\ RecordsUpTo(a - 1) \in Nat /\ RecordsUpTo(b - 1) \in Nat
      /\ RecordsUpTo(a - 1) < RecordsUpTo(b - 1)
  <2>1. a - 1 \in Nat /\ b - 1 \in Nat /\ a - 1 < b - 1 /\ b - 1 <= Len(Layout)
    BY <1>1
  <2> QED
    BY <2>1, RecordsUpToGrows
<1>6. SequenceModulus \in Int /\ SequenceModulus > 0
  BY SequenceAssumption
<1>7. RecordsUpTo(a - 1) % SequenceModulus # RecordsUpTo(b - 1) % SequenceModulus
  <2> DEFINE x == RecordsUpTo(a - 1)
             y == RecordsUpTo(b - 1)
  <2>1. x \in Int /\ y \in Int /\ x < y /\ y - x < SequenceModulus
    BY <1>4, <1>5
  <2> HIDE DEF x, y
  <2>2. x % SequenceModulus # y % SequenceModulus
    BY <2>1, <1>6, RemaindersDiffer
  <2> QED
    BY <2>2 DEF x, y
<1> QED
  BY <1>7 DEF FirstSequence

\* A send passes validate_record_set; the records before each of its batches,
\* its records and its code are those of the layout.
LEMMA SendIsValid ==
  ASSUME NEW c, client[c].id \in Nat, NEW n \in DOMAIN Layout
  PROVE  /\ RecordSet(SendOf(c, n))
         /\ DOMAIN SendOf(c, n) = DOMAIN Layout[n] /\ Len(SendOf(c, n)) = Len(Layout[n])
         /\ \A i \in DOMAIN Layout[n] :
              /\ BatchError(SendOf(c, n)[i]) = "None"
              /\ SendOf(c, n)[i].producer = client[c].id /\ SendOf(c, n)[i].epoch = 0
              /\ SendOf(c, n)[i].count = Layout[n][i]
              /\ SendOf(c, n)[i].origin = <<c, n, i>>
         /\ ValidateRecordSet(SendOf(c, n)) = "None"
<1> DEFINE records == SendOf(c, n)
<1>1. /\ Len(Layout[n]) \in Nat \ {0} /\ DOMAIN Layout[n] = 1..Len(Layout[n])
      /\ \A i \in DOMAIN Layout[n] : Layout[n][i] \in Nat \ {0}
      /\ RecordsUpTo(n - 1) \in Nat
  BY SendsHoldRecords, RecordsUpToStep
<1>2. \A i \in DOMAIN Layout[n] :
        (RecordsUpTo(n - 1) + SumFunctionOnSet(Layout[n], 1..(i - 1))) % SequenceModulus \in Nat
  <2> TAKE i \in DOMAIN Layout[n]
  <2> DEFINE y == SumFunctionOnSet(Layout[n], 1..(i - 1))
  <2>1. i - 1 \in Nat /\ \A j \in 1..(i - 1) : Layout[n][j] \in Nat
    BY <1>1
  <2>2. y \in Nat
    BY <2>1, SumOfPrefix
  <2> HIDE DEF y
  <2>3. RecordsUpTo(n - 1) + y \in Int /\ SequenceModulus \in Int /\ SequenceModulus > 0
    BY <1>1, <2>2, SequenceAssumption
  <2>4. (RecordsUpTo(n - 1) + y) % SequenceModulus \in Nat
    BY <2>3
  <2> QED
    BY <2>4 DEF y
<1>3. \A i \in DOMAIN Layout[n] :
        /\ records[i].producer = client[c].id /\ records[i].epoch = 0
        /\ records[i].sequence \in Nat /\ records[i].shape = "sound"
        /\ records[i].count = Layout[n][i] /\ records[i].size = Layout[n][i]
        /\ records[i].origin = <<c, n, i>>
  BY <1>2 DEF SendOf
<1>4. records = [i \in DOMAIN Layout[n] |-> records[i]] /\ DOMAIN records = DOMAIN Layout[n]
  BY DEF SendOf
<1>5. records \in Seq(Range(records)) /\ Len(records) = Len(Layout[n])
  BY <1>1, <1>4 DEF Range
<1> HIDE DEF records
<1>6. \A i \in DOMAIN Layout[n] : BatchError(records[i]) = "None"
  BY <1>3 DEF BatchError, Idempotent, NoProducerId
<1>7. OneProducer(records) /\ records # <<>>
  <2>1. 1 \in DOMAIN Layout[n]
    BY <1>1
  <2>2. records # <<>>
    BY <2>1, <1>4
  <2>3. OneProducer(records)
    BY <2>1, <1>3, <1>4 DEF OneProducer
  <2> QED
    BY <2>2, <2>3
<1>8. ValidateRecordSet(records) = "None"
  BY <1>4, <1>6, <1>7 DEF ValidateRecordSet
<1>9. RecordSet(records)
  BY <1>1, <1>3, <1>4, <1>5 DEF RecordSet
<1> QED
  BY <1>3, <1>4, <1>5, <1>6, <1>8, <1>9 DEF records

\* The records before each batch of a send.
LEMMA SendCounts ==
  ASSUME NEW c, client[c].id \in Nat, NEW n \in DOMAIN Layout
  PROVE  /\ \A i \in 1..(Len(Layout[n]) + 1) :
              RecordsBefore(SendOf(c, n), i) = SumFunctionOnSet(Layout[n], 1..(i - 1))
         /\ RecordCount(SendOf(c, n)) = RecordsIn(n)
         /\ RecordCount(SendOf(c, n)) < SequenceModulus
         /\ SendOf(c, n)[1].sequence = FirstSequence(n)
         /\ Encoded(SendOf(c, n)) = SendCode(n)
<1> DEFINE records == SendOf(c, n)
           k == Len(Layout[n])
<1>1. /\ k \in Nat \ {0} /\ DOMAIN Layout[n] = 1..k
      /\ DOMAIN records = DOMAIN Layout[n] /\ Len(records) = k
      /\ \A i \in DOMAIN Layout[n] : records[i].count = Layout[n][i]
      /\ RecordsIn(n) = SumFunctionOnSet(Layout[n], 1..k)
  BY SendsHoldRecords, SendIsValid
<1>2. ASSUME NEW i \in 1..(k + 1)
      PROVE  RecordsBefore(records, i) = SumFunctionOnSet(Layout[n], 1..(i - 1))
  <2> DEFINE f == [j \in DOMAIN records |-> records[j].count]
  <2>1. IsFiniteSet(1..(i - 1)) /\ \A j \in 1..(i - 1) : f[j] = Layout[n][j]
    <3>1. 1 \in Int /\ i - 1 \in Int /\ \A j \in 1..(i - 1) : j \in 1..k
      BY <1>1
    <3>2. \A j \in 1..k : f[j] = Layout[n][j]
      BY <1>1
    <3> QED
      BY <3>1, <3>2, FS_Interval
  <2>2. RecordsBefore(records, i) = SumFunctionOnSet(f, 1..(i - 1))
    BY DEF RecordsBefore
  <2> HIDE DEF f, records
  <2> QED
    BY <2>1, <2>2, SumDependsOnValues
<1>3. RecordCount(records) = RecordsIn(n)
  <2>1. k + 1 \in 1..(k + 1) /\ (k + 1) - 1 = k
    BY <1>1
  <2>2. RecordsBefore(records, k + 1) = SumFunctionOnSet(Layout[n], 1..((k + 1) - 1))
    BY <1>2, <2>1
  <2> QED
    BY <1>1, <2>1, <2>2 DEF RecordCount
<1>4. RecordsIn(n) < SequenceModulus
  <2>1. n \in Int
    BY LayoutAssumption
  <2>2. n <= n /\ n - n < Span
    BY <2>1, SpanIsPositive
  <2>3. RecordsUpTo(n) - RecordsUpTo(n - 1) < SequenceModulus
    BY <2>2, SpanAssumption
  <2> QED
    BY <2>3, RecordsUpToStep, SendsHoldRecords
<1>5. records[1].sequence = FirstSequence(n)
  <2>1. 1 \in DOMAIN Layout[n] /\ 1..(1 - 1) = {}
    BY <1>1
  <2>2. SumFunctionOnSet(Layout[n], {}) = 0
    BY SumUnfolds, FS_EmptySet
  <2>3. records[1].sequence
          = (RecordsUpTo(n - 1) + SumFunctionOnSet(Layout[n], 1..(1 - 1))) % SequenceModulus
    BY <2>1 DEF SendOf
  <2>4. RecordsUpTo(n - 1) + 0 = RecordsUpTo(n - 1)
    BY RecordsUpToStep
  <2> QED
    BY <2>1, <2>2, <2>3, <2>4 DEF FirstSequence
<1>6. Encoded(records) = SendCode(n)
  BY <1>1 DEF Encoded, SendCode, SendOf
<1> QED
  BY <1>2, <1>3, <1>4, <1>5, <1>6

\* Sequence numbers are below the modulus; the first one is 0.
LEMMA FirstSequenceRange ==
  ASSUME NEW n \in 1..(Len(Layout) + 1)
  PROVE  FirstSequence(n) \in 0..(SequenceModulus - 1) /\ FirstSequence(1) = 0
<1>1. SequenceModulus \in Int /\ SequenceModulus > 0
  BY SequenceAssumption
<1>2. Len(Layout) \in Nat /\ DOMAIN Layout = 1..Len(Layout)
  BY LayoutAssumption
<1>3. RecordsUpTo(0) = 0
  <2>1. SumFunctionOnSet([m \in DOMAIN Layout |-> RecordsIn(m)], {}) = 0
    BY SumUnfolds, FS_EmptySet
  <2>2. 1..0 = {}
    OBVIOUS
  <2> QED
    BY <2>1, <2>2 DEF RecordsUpTo
<1>4. RecordsUpTo(n - 1) \in Int
  <2>1. CASE n = 1
    BY <1>3, <2>1
  <2>2. CASE n > 1
    <3>1. n - 1 \in DOMAIN Layout
      BY <1>2, <2>2
    <3> QED
      BY <3>1, RecordsUpToStep
  <2> QED
    BY <1>2, <2>1, <2>2
<1>5. RecordsUpTo(n - 1) % SequenceModulus \in 0..(SequenceModulus - 1)
  BY <1>1, <1>4
<1>6. 0 % SequenceModulus = 0
  BY <1>1, SmallRemainder
<1> QED
  BY <1>3, <1>5, <1>6 DEF FirstSequence

\* The sequence number after a send is the one of the next send.
LEMMA NextFirstSequence ==
  ASSUME NEW n \in DOMAIN Layout
  PROVE  NextSequence(FirstSequence(n), RecordsIn(n)) = FirstSequence(n + 1)
<1> DEFINE x == RecordsUpTo(n - 1)
           r == RecordsIn(n)
<1>1. SequenceModulus \in Int /\ SequenceModulus > 0
  BY SequenceAssumption
<1>2. x \in Int /\ r \in Int /\ RecordsUpTo(n) = x + r /\ (n + 1) - 1 = n
  BY RecordsUpToStep, SendsHoldRecords
<1> HIDE DEF x, r
<1>3. ((x % SequenceModulus) + r) % SequenceModulus = (x + r) % SequenceModulus
  BY <1>1, <1>2, RemainderOfSum
<1> QED
  BY <1>2, <1>3 DEF NextSequence, FirstSequence, x, r

\* A send whose first sequence number is the expected one passes
\* validate_sequences with all its batches.
LEMMA SendInTurn ==
  ASSUME NEW c, client[c].id \in Nat, NEW n \in DOMAIN Layout
  PROVE  ValidateSequences(SendOf(c, n), FirstSequence(n)) = "None"
<1> DEFINE records == SendOf(c, n)
           x == RecordsUpTo(n - 1)
           bad == {i \in DOMAIN records :
                     records[i].sequence
                       # NextSequence(FirstSequence(n), RecordsBefore(records, i))}
<1>1. /\ Len(Layout[n]) \in Nat \ {0} /\ DOMAIN Layout[n] = 1..Len(Layout[n])
      /\ \A i \in DOMAIN Layout[n] : Layout[n][i] \in Nat
      /\ DOMAIN records = DOMAIN Layout[n] /\ x \in Int
  BY SendsHoldRecords, SendIsValid, RecordsUpToStep
<1>2. ASSUME NEW i \in DOMAIN records
      PROVE  records[i].sequence = NextSequence(FirstSequence(n), RecordsBefore(records, i))
  <2> DEFINE y == SumFunctionOnSet(Layout[n], 1..(i - 1))
  <2>1. i \in 1..(Len(Layout[n]) + 1) /\ i - 1 \in Nat /\ \A j \in 1..(i - 1) : Layout[n][j] \in Nat
    BY <1>1
  <2>2. y \in Int
    BY <2>1, SumOfPrefix
  <2>3. RecordsBefore(records, i) = y
    BY <2>1, SendCounts
  <2>4. records[i].sequence = (x + y) % SequenceModulus
    BY <1>1 DEF SendOf
  <2> HIDE DEF y
  <2>5. SequenceModulus \in Int /\ SequenceModulus > 0 /\ x \in Int
    BY <1>1, SequenceAssumption
  <2> HIDE DEF x
  <2>6. ((x % SequenceModulus) + y) % SequenceModulus = (x + y) % SequenceModulus
    BY <2>2, <2>5, RemainderOfSum
  <2> QED
    BY <2>3, <2>4, <2>6 DEF NextSequence, FirstSequence, x
<1>3. bad = {}
  BY <1>2
<1> QED
  BY <1>3 DEF ValidateSequences

\* A send whose first sequence number is not the expected one is refused for it.
LEMMA SendOutOfTurn ==
  ASSUME NEW c, client[c].id \in Nat, NEW n \in DOMAIN Layout,
         NEW e \in 0..(SequenceModulus - 1), FirstSequence(n) # e
  PROVE  ValidateSequences(SendOf(c, n), e) = ClassifySequenceMismatch(FirstSequence(n), e)
<1> DEFINE records == SendOf(c, n)
           Expected(i) == NextSequence(e, RecordsBefore(records, i))
           bad == {i \in DOMAIN records : records[i].sequence # Expected(i)}
<1>1. /\ DOMAIN records = 1..Len(Layout[n]) /\ Len(Layout[n]) \in Nat \ {0}
      /\ records[1].sequence = FirstSequence(n)
  BY SendsHoldRecords, SendIsValid, SendCounts
<1>2. Expected(1) = e
  <2>1. RecordsBefore(records, 1) = SumFunctionOnSet(Layout[n], 1..(1 - 1)) /\ 1..(1 - 1) = {}
    BY <1>1, SendCounts
  <2>2. SumFunctionOnSet(Layout[n], {}) = 0
    BY SumUnfolds, FS_EmptySet
  <2>3. e + 0 = e /\ e % SequenceModulus = e
    BY SequenceAssumption, SmallRemainder
  <2> QED
    BY <2>1, <2>2, <2>3 DEF NextSequence
<1>3. 1 \in bad /\ bad \subseteq Nat /\ \A i \in bad : i >= 1
  BY <1>1, <1>2
<1>4. Min(bad) = 1
  <2> HIDE DEF bad
  <2>1. Min(bad) \in bad /\ \A y \in bad : Min(bad) <= y
    BY <1>3, MinOfNaturals
  <2>2. Min(bad) \in Nat /\ Min(bad) >= 1 /\ Min(bad) <= 1
    BY <1>3, <2>1
  <2> QED
    BY <2>2
<1>5. bad # {}
  BY <1>3
<1>6. ValidateSequences(records, e)
        = ClassifySequenceMismatch(records[Min(bad)].sequence, Expected(Min(bad)))
  BY <1>5 DEF ValidateSequences
<1> HIDE DEF bad, Expected
<1> QED
  BY <1>1, <1>2, <1>4, <1>6

----------------------------------------------------------------------------
(* What the partition answers to a send *)

\* Client c has an id, and its first k sends are stored.
Ready(c, k) ==
  /\ next_id \in Nat /\ epochs \in [1..next_id -> {0}]
  /\ client[c].id \in 1..next_id
  /\ k \in 0..Len(Layout)
  /\ HasStored(c, k)
  /\ log.next_offset \in Nat

\* The numbers involved.
LEMMA ReadyNumbers ==
  ASSUME NEW c, NEW k, Ready(c, k), NEW n \in DOMAIN Layout
  PROVE  /\ k \in Nat /\ n \in Nat /\ n # 0
         /\ client[c].id \in Nat /\ log.next_offset \in Nat
<1>1. Len(Layout) \in Nat /\ n \in 1..Len(Layout)
  BY SendsHoldRecords
<1>2. k \in 0..Len(Layout) /\ next_id \in Nat /\ client[c].id \in 1..next_id
      /\ log.next_offset \in Nat
  BY DEF Ready
<1> QED
  BY <1>1, <1>2

\* The handler passes a send of a client with an id on to the log.
LEMMA SendReachesLog ==
  ASSUME NEW c, NEW k, Ready(c, k), NEW n \in DOMAIN Layout
  PROVE  /\ ProducePartition(SendOf(c, n)) = AppendRecords(log, SendOf(c, n))
         /\ SendOf(c, n)[1].producer = client[c].id /\ SendOf(c, n)[1].epoch = 0
         /\ client[c].id # NoProducerId /\ client[c].id \in Nat
<1>1. client[c].id \in Nat /\ client[c].id # NoProducerId
  BY DEF Ready, NoProducerId
<1>2. 1 \in DOMAIN Layout[n]
  BY SendsHoldRecords
<1>3. SendOf(c, n)[1].producer = client[c].id /\ SendOf(c, n)[1].epoch = 0
  BY <1>1, <1>2, SendIsValid
<1>4. ValidateRecordSet(SendOf(c, n)) = "None"
  BY <1>1, SendIsValid
<1>5. ValidateProducer(client[c].id, 0) = "None"
  BY DEF ValidateProducer, Ready
<1> QED
  BY <1>1, <1>3, <1>4, <1>5 DEF ProducePartition

\* What the log knows of the producer of a send.
LEMMA SendIsKnown ==
  ASSUME NEW c, NEW k, Ready(c, k), NEW n \in DOMAIN Layout
  PROVE  /\ KnownProducer(log, SendOf(c, n)) <=> k > 0
         /\ ExpectedSequence(log, SendOf(c, n)) = FirstSequence(k + 1)
         /\ ~WrongEpoch(log, SendOf(c, n))
<1>1. SendOf(c, n)[1].producer = client[c].id /\ SendOf(c, n)[1].epoch = 0
  BY SendReachesLog
<1>2. k = 0 \/ (k > 0 /\ k # 0)
  BY LayoutAssumption DEF Ready
<1>3. KnownProducer(log, SendOf(c, n)) <=> k > 0
  BY <1>1, <1>2 DEF KnownProducer, Ready, HasStored
<1>4. FirstSequence(1) = 0
  <2>1. 1 \in 1..(Len(Layout) + 1)
    BY LayoutAssumption
  <2> QED
    BY <2>1, FirstSequenceRange
<1>5. k > 0 => /\ log.producers[client[c].id].producer_epoch = 0
               /\ log.producers[client[c].id].next_sequence = FirstSequence(k + 1)
  BY DEF Ready, HasStored, StateAfter
<1>6. ExpectedSequence(log, SendOf(c, n)) = FirstSequence(k + 1)
  <2>1. CASE k = 0
    BY <2>1, <1>3, <1>4 DEF ExpectedSequence
  <2>2. CASE k > 0
    BY <2>2, <1>1, <1>3, <1>5 DEF ExpectedSequence
  <2> QED
    BY <2>1, <2>2, <1>2
<1>7. ~WrongEpoch(log, SendOf(c, n))
  BY <1>1, <1>3, <1>5 DEF WrongEpoch
<1> QED
  BY <1>3, <1>6, <1>7

\* Of the remembered sends, a send repeats itself only.
LEMMA SendRepeatsItself ==
  ASSUME NEW c, NEW k, Ready(c, k), NEW n \in DOMAIN Layout,
         k - n <= Span, n - (k - Keep(k) + 1) <= Span
  PROVE  Retries(log, SendOf(c, n)) = {j \in 1..Keep(k) : n = k - Keep(k) + j}
<1> DEFINE records == SendOf(c, n)
           older == k - Keep(k)
<1>1. k \in Nat /\ k <= Len(Layout) /\ Len(Layout) \in Nat
  BY LayoutAssumption DEF Ready
<1>2. Keep(k) \in Nat /\ older \in Nat /\ (k = 0 => Keep(k) = 0) /\ Keep(k) <= k
  BY <1>1, RecentAssumption DEF Keep
<1>3. Span \in Int
  BY ClientAssumption, RecentAssumption, OfTwo DEF Span
<1>4. /\ n \in Nat \ {0} /\ n <= Len(Layout)
      /\ records[1].sequence = FirstSequence(n) /\ Encoded(records) = SendCode(n)
      /\ records[1].producer = client[c].id
      /\ KnownProducer(log, records) <=> k > 0
  BY SendReachesLog, SendCounts, SendIsKnown, SendsHoldRecords
<1>5. CASE k = 0
  <2>1. Retries(log, records) = {}
    BY <1>4, <1>5 DEF Retries
  <2>2. 1..Keep(k) = {}
    BY <1>2, <1>5
  <2> QED
    BY <2>1, <2>2
<1>6. CASE k > 0
  <2> DEFINE recent == log.producers[client[c].id].recent
  <2>1. recent = [j \in 1..Keep(k) |-> Entry(c, older + j)]
    <3>1. log.producers[client[c].id] = StateAfter(c, k)
      BY <1>6 DEF Ready, HasStored
    <3>2. StateAfter(c, k).recent = [j \in 1..Keep(k) |-> Entry(c, older + j)]
      BY DEF StateAfter
    <3> QED
      BY <3>1, <3>2
  <2>2. Retries(log, records) = {j \in DOMAIN recent :
                                   /\ recent[j].base_sequence = FirstSequence(n)
                                   /\ recent[j].encoded = SendCode(n)}
    BY <1>4, <1>6 DEF Retries
  <2>3. DOMAIN recent = 1..Keep(k)
        /\ \A j \in 1..Keep(k) : /\ recent[j].base_sequence = FirstSequence(older + j)
                                 /\ recent[j].encoded = SendCode(older + j)
    BY <2>1 DEF Entry
  <2> HIDE DEF recent, older, records
  <2>4. ASSUME NEW j \in 1..Keep(k), n # older + j
        PROVE  FirstSequence(n) # FirstSequence(older + j)
    <3>1. PICK e \in Nat : e = older + j /\ e >= 1 /\ e <= k /\ e >= older + 1
      BY <1>1, <1>2 DEF older
    <3>2. k - n <= Span /\ n - (older + 1) <= Span /\ older \in Nat
      BY <1>2 DEF older
    <3>3. n - e <= Span /\ e - n <= Span
      BY <3>1, <3>2, <1>1, <1>3, <1>4
    <3>4. CASE n < e
      <4>1. FirstSequence(n) # FirstSequence(e)
        BY <3>1, <3>3, <3>4, <1>1, <1>4, FirstSequencesDiffer
      <4> QED
        BY <3>1, <4>1
    <3>5. CASE e < n
      <4>1. FirstSequence(e) # FirstSequence(n)
        BY <3>1, <3>3, <3>5, <1>1, <1>4, FirstSequencesDiffer
      <4> QED
        BY <3>1, <4>1
    <3> QED
      BY <3>1, <3>4, <3>5, <1>4, <2>4
  <2>5. Retries(log, records) = {j \in 1..Keep(k) : n = older + j}
    BY <2>2, <2>3, <2>4
  <2> QED
    BY <2>5 DEF older, records
<1> QED
  BY <1>1, <1>5, <1>6

\* The sequence check of a send: in turn, or classified by its distance.
LEMMA SendSequenceError ==
  ASSUME NEW c, NEW k, Ready(c, k), NEW n \in DOMAIN Layout
  PROVE  /\ n = k + 1 => SequenceError(log, SendOf(c, n)) = "None"
         /\ FirstSequence(n) # FirstSequence(k + 1) =>
              SequenceError(log, SendOf(c, n)) =
                IF k = 0 THEN "OutOfOrderSequence"
                ELSE ClassifySequenceMismatch(FirstSequence(n), FirstSequence(k + 1))
<1> DEFINE records == SendOf(c, n)
<1>1. /\ client[c].id \in Nat /\ records[1].producer # NoProducerId
      /\ records[1].sequence = FirstSequence(n)
      /\ KnownProducer(log, records) <=> k > 0
      /\ ExpectedSequence(log, records) = FirstSequence(k + 1)
  BY SendReachesLog, SendCounts, SendIsKnown
<1>2. k \in Nat /\ k + 1 \in 1..(Len(Layout) + 1)
  BY LayoutAssumption DEF Ready
<1>3. FirstSequence(1) = 0 /\ FirstSequence(k + 1) \in 0..(SequenceModulus - 1)
  BY <1>2, FirstSequenceRange
<1>4. ASSUME n = k + 1 PROVE SequenceError(log, records) = "None"
  <2>1. ValidateSequences(records, FirstSequence(k + 1)) = "None"
    BY <1>1, <1>4, SendInTurn
  <2>2. k = 0 => records[1].sequence = 0
    BY <1>1, <1>3, <1>4
  <2> HIDE DEF records
  <2> QED
    BY <1>1, <1>2, <2>1, <2>2 DEF SequenceError
<1>5. ASSUME FirstSequence(n) # FirstSequence(k + 1)
      PROVE  SequenceError(log, records) =
                IF k = 0 THEN "OutOfOrderSequence"
                ELSE ClassifySequenceMismatch(FirstSequence(n), FirstSequence(k + 1))
  <2>1. ValidateSequences(records, FirstSequence(k + 1))
          = ClassifySequenceMismatch(FirstSequence(n), FirstSequence(k + 1))
    BY <1>1, <1>3, <1>5, SendOutOfTurn
  <2>2. k = 0 => records[1].sequence # 0
    BY <1>1, <1>3, <1>5
  <2> HIDE DEF records
  <2> QED
    BY <1>1, <1>2, <2>1, <2>2 DEF SequenceError
<1> QED
  BY <1>4, <1>5

\* The distances that the outcomes below depend on.
LEMMA SpanCovers ==
  ASSUME NEW k \in Nat
  PROVE  /\ Span \in Nat /\ Span >= 1
         /\ Span >= MaxInFlight + MaxDelay
         /\ Span >= MaxInFlight + RecentAppendLimit - 1
         /\ Keep(k) \in Nat /\ Keep(k) <= k /\ Keep(k) <= RecentAppendLimit
         /\ Keep(k) <= Span /\ (k > 0 => Keep(k) > 0)
         /\ (Keep(k) = k \/ Keep(k) = RecentAppendLimit)
         /\ MaxInFlight \in Nat \ {0} /\ MaxDelay \in Nat /\ RecentAppendLimit \in Nat \ {0}
<1>1. MaxInFlight \in Nat \ {0} /\ MaxDelay \in Nat /\ RecentAppendLimit \in Nat \ {0}
  BY ClientAssumption, RecentAssumption
<1>2. Span = MaxInFlight + (IF MaxDelay > RecentAppendLimit - 1 THEN MaxDelay
                            ELSE RecentAppendLimit - 1)
  BY <1>1, OfTwo DEF Span
<1> QED
  BY <1>1, <1>2 DEF Keep

\* The next send is stored if there are offsets for it.
LEMMA NextSendOutcome ==
  ASSUME NEW c, NEW k, Ready(c, k), NEW n \in DOMAIN Layout, n = k + 1
  PROVE  /\ log.next_offset + RecordsIn(n) <= MaxOffset => Accepted(log, SendOf(c, n))
         /\ ~Accepted(log, SendOf(c, n)) =>
              AppendRecords(log, SendOf(c, n))
                = [log |-> log, reply |-> Refused("OffsetOverflow")]
<1> DEFINE records == SendOf(c, n)
<1>1. k \in Nat /\ n \in Nat
  BY ReadyNumbers
<1>2. k - n <= Span /\ n - (k - Keep(k) + 1) <= Span
  BY <1>1, SpanCovers
<1>3. Retries(log, records) = {}
  <2>1. \A j \in 1..Keep(k) : n # k - Keep(k) + j
    BY <1>1, SpanCovers
  <2> QED
    BY <1>2, <2>1, SendRepeatsItself
<1>4. /\ ValidateRecordSet(records) = "None"
      /\ RecordCount(records) = RecordsIn(n) /\ RecordsIn(n) \in Nat
      /\ RecordCount(records) < SequenceModulus
      /\ ~WrongEpoch(log, records)
      /\ SequenceError(log, records) = "None"
      /\ log.next_offset \in Nat
  <2>1. client[c].id \in Nat /\ log.next_offset \in Nat
    BY ReadyNumbers
  <2>2. ValidateRecordSet(records) = "None"
    BY <2>1, SendIsValid
  <2>3. RecordCount(records) = RecordsIn(n) /\ RecordCount(records) < SequenceModulus
    BY <2>1, SendCounts
  <2>4. ~WrongEpoch(log, records)
    BY SendIsKnown
  <2>5. SequenceError(log, records) = "None"
    BY SendSequenceError
  <2>6. RecordsIn(n) \in Nat
    BY SendsHoldRecords
  <2> QED
    BY <2>1, <2>2, <2>3, <2>4, <2>5, <2>6
<1> HIDE DEF records
<1>5. log.next_offset + RecordsIn(n) <= MaxOffset => Accepted(log, records)
  BY <1>3, <1>4 DEF Accepted
<1>6. ASSUME ~Accepted(log, records)
      PROVE  AppendRecords(log, records) = [log |-> log, reply |-> Refused("OffsetOverflow")]
  <2>1. log.next_offset + RecordCount(records) > MaxOffset
    BY <1>4, <1>5, <1>6, OffsetAssumption
  <2>2. ~(RecordCount(records) >= SequenceModulus)
    BY <1>4, SequenceAssumption
  <2> QED
    BY <1>3, <1>4, <2>1, <2>2 DEF AppendRecords
<1> QED
  BY <1>5, <1>6 DEF records

\* A send that is remembered is answered with its own offset again.
LEMMA RepeatedSendOutcome ==
  ASSUME NEW c, NEW k, Ready(c, k), NEW n \in DOMAIN Layout, n <= k, n > k - Keep(k)
  PROVE  AppendRecords(log, SendOf(c, n)) =
           [log |-> log,
            reply |-> [error |-> "None", base_offset |-> OffsetOf(c, n),
                       last_offset |-> OffsetOf(c, n) + RecordsIn(n) - 1, appended |-> FALSE]]
<1> DEFINE records == SendOf(c, n)
           i == n - (k - Keep(k))
<1>1. k \in Nat /\ k > 0 /\ n \in Nat \ {0}
  BY ReadyNumbers
<1>2. k - n <= Span /\ n - (k - Keep(k) + 1) <= Span
  BY <1>1, SpanCovers
<1>3. i \in 1..Keep(k) /\ k - Keep(k) + i = n /\ \A j \in 1..Keep(k) : n = k - Keep(k) + j => j = i
  BY <1>1, SpanCovers
<1> HIDE DEF i
<1>4. Retries(log, records) = {i}
  BY <1>2, <1>3, SendRepeatsItself
<1>5. Min({i}) = i
  <2>1. {i} \subseteq Nat /\ {i} # {}
    BY <1>1, <1>3, SpanCovers
  <2>2. Min({i}) \in {i}
    BY <2>1, MinOfNaturals
  <2> QED
    BY <2>2
<1>6. log.producers[client[c].id].recent[i] = Entry(c, n)
  <2>1. log.producers[client[c].id] = StateAfter(c, k)
    BY <1>1 DEF Ready, HasStored
  <2>2. StateAfter(c, k).recent[i] = Entry(c, k - Keep(k) + i)
    BY <1>3 DEF StateAfter
  <2> QED
    BY <1>3, <2>1, <2>2
<1>7. /\ ValidateRecordSet(records) = "None"
      /\ ~(RecordCount(records) >= SequenceModulus)
      /\ ~WrongEpoch(log, records)
      /\ records[1].producer = client[c].id
  <2>1. client[c].id \in Nat
    BY ReadyNumbers
  <2>2. ValidateRecordSet(records) = "None"
    BY <2>1, SendIsValid
  <2>3. RecordCount(records) = RecordsIn(n) /\ RecordCount(records) < SequenceModulus
    BY <2>1, SendCounts
  <2>4. RecordsIn(n) \in Nat
    BY SendsHoldRecords
  <2>5. ~(RecordCount(records) >= SequenceModulus)
    BY <2>3, <2>4, SequenceAssumption
  <2>6. ~WrongEpoch(log, records)
    BY SendIsKnown
  <2>7. records[1].producer = client[c].id
    BY SendReachesLog
  <2> QED
    BY <2>2, <2>5, <2>6, <2>7
<1> HIDE DEF records
<1>8. AppendRecords(log, records) =
        [log |-> log, reply |-> [Entry(c, n).result EXCEPT !.appended = FALSE]]
  BY <1>4, <1>5, <1>6, <1>7 DEF AppendRecords
<1>9. [Entry(c, n).result EXCEPT !.appended = FALSE] =
        [error |-> "None", base_offset |-> OffsetOf(c, n),
         last_offset |-> OffsetOf(c, n) + RecordsIn(n) - 1, appended |-> FALSE]
  <2> DEFINE o == OffsetOf(c, n)
             last == o + RecordsIn(n) - 1
  <2>1. Entry(c, n).result
          = [error |-> "None", base_offset |-> o, last_offset |-> last, appended |-> TRUE]
    BY DEF Entry
  <2> HIDE DEF o, last
  <2>2. \A t, f : [[error |-> "None", base_offset |-> o, last_offset |-> last, appended |-> t]
                     EXCEPT !.appended = f]
                   = [error |-> "None", base_offset |-> o, last_offset |-> last, appended |-> f]
    OBVIOUS
  <2>3. [[error |-> "None", base_offset |-> o, last_offset |-> last, appended |-> TRUE]
           EXCEPT !.appended = FALSE]
          = [error |-> "None", base_offset |-> o, last_offset |-> last, appended |-> FALSE]
    BY <2>2, Zenon
  <2> QED
    BY <2>1, <2>3, Zenon DEF o, last
<1> QED
  BY <1>8, <1>9 DEF records

\* A send that is stored and no longer remembered is refused.
LEMMA OldSendOutcome ==
  ASSUME NEW c, NEW k, Ready(c, k), NEW n \in DOMAIN Layout, n <= k - Keep(k), k + 1 - n <= Span
  PROVE  /\ AppendRecords(log, SendOf(c, n)).log = log
         /\ AppendRecords(log, SendOf(c, n)).reply.error # "None"
<1> DEFINE records == SendOf(c, n)
<1>a. k \in Nat /\ k <= Len(Layout) /\ Len(Layout) \in Nat /\ n \in Nat \ {0}
  <2>1. Len(Layout) \in Nat /\ DOMAIN Layout = 1..Len(Layout)
    BY LayoutAssumption
  <2> QED
    BY <2>1 DEF Ready
<1>b. Keep(k) \in Nat /\ Span \in Nat
  BY <1>a, SpanCovers
<1>1. k \in Nat /\ k <= Len(Layout) /\ Len(Layout) \in Nat /\ n \in Nat \ {0} /\ n < k + 1
  BY <1>a, <1>b
<1>2. k - n <= Span /\ n - (k - Keep(k) + 1) <= Span
  BY <1>1, <1>b
<1>3. Retries(log, records) = {}
  <2>1. \A j \in 1..Keep(k) : n # k - Keep(k) + j
    BY <1>1, <1>b
  <2> QED
    BY <1>2, <2>1, SendRepeatsItself
<1>4. FirstSequence(n) # FirstSequence(k + 1)
  BY <1>1, FirstSequencesDiffer
<1>5. SequenceError(log, records) # "None"
  BY <1>4, SendSequenceError DEF ClassifySequenceMismatch
<1>6. /\ ValidateRecordSet(records) = "None"
      /\ ~(RecordCount(records) >= SequenceModulus)
      /\ ~WrongEpoch(log, records)
  BY SequenceAssumption, SendReachesLog, SendIsValid, SendCounts, SendIsKnown, SendsHoldRecords
<1> HIDE DEF records
<1> QED
  BY <1>3, <1>5, <1>6 DEF AppendRecords, Refused, records

\* A send ahead of its turn is refused, and not as a duplicate.
LEMMA EarlySendOutcome ==
  ASSUME NEW c, NEW k, Ready(c, k), NEW n \in DOMAIN Layout, n > k + 1, n - k <= MaxInFlight
  PROVE  AppendRecords(log, SendOf(c, n)) = [log |-> log, reply |-> Refused("OutOfOrderSequence")]
<1> DEFINE records == SendOf(c, n)
           x == RecordsUpTo(n - 1)
           y == RecordsUpTo(k)
<1>1. k \in Nat /\ n <= Len(Layout) /\ Len(Layout) \in Nat /\ n \in Nat \ {0}
      /\ DOMAIN Layout = 1..Len(Layout)
  <2>1. Len(Layout) \in Nat /\ DOMAIN Layout = 1..Len(Layout)
    BY LayoutAssumption
  <2> QED
    BY <2>1 DEF Ready
<1>a. /\ Keep(k) \in Nat /\ Keep(k) <= RecentAppendLimit
      /\ MaxInFlight \in Nat \ {0} /\ RecentAppendLimit \in Nat \ {0}
      /\ Span \in Nat /\ Span >= MaxInFlight + RecentAppendLimit - 1
  BY <1>1, SpanCovers
<1>2. k - n <= Span /\ n - (k - Keep(k) + 1) <= Span /\ n - (k + 1) <= Span
  BY <1>1, <1>a
<1>3. Retries(log, records) = {}
  <2>1. \A j \in 1..Keep(k) : n # k - Keep(k) + j
    BY <1>1, <1>a
  <2> QED
    BY <1>2, <2>1, SendRepeatsItself
<1>4. FirstSequence(n) # FirstSequence(k + 1)
  <2>1. k + 1 \in Nat \ {0} /\ k + 1 < n /\ n <= Len(Layout) + 1
    BY <1>1
  <2> QED
    BY <1>1, <1>2, <2>1, FirstSequencesDiffer
<1>5. x \in Int /\ y \in Int /\ y < x /\ x - y < SequenceModulus \div 2
  <2>1. k \in Nat /\ n - 1 \in Nat /\ k < n - 1 /\ n - 1 <= Len(Layout)
    BY <1>1
  <2>2. x \in Nat /\ y \in Nat /\ y < x
    BY <2>1, RecordsUpToGrows
  <2>3. /\ k + 1 \in DOMAIN Layout /\ n - 1 \in DOMAIN Layout
        /\ k + 1 <= n - 1 /\ (n - 1) - (k + 1) < MaxInFlight - 1 /\ (k + 1) - 1 = k
    BY <1>1, <1>a
  <2>4. RecordsUpTo(n - 1) - RecordsUpTo((k + 1) - 1) < SequenceModulus \div 2
    BY <2>3, SpanAssumption
  <2> QED
    BY <2>2, <2>3, <2>4
<1>6. SequenceModulus \in Int /\ SequenceModulus > 0
      /\ SequenceModulus \div 2 \in Int /\ SequenceModulus \div 2 <= SequenceModulus
  BY SequenceAssumption
<1> HIDE DEF x, y
<1>7. ((x % SequenceModulus) - (y % SequenceModulus)) % SequenceModulus = x - y
  <2>1. x >= y /\ x - y < SequenceModulus
    BY <1>5, <1>6
  <2> QED
    BY <1>5, <1>6, <2>1, RemainderOfDifference
<1>8. ClassifySequenceMismatch(FirstSequence(n), FirstSequence(k + 1)) = "OutOfOrderSequence"
  <2>1. FirstSequence(n) = x % SequenceModulus /\ FirstSequence(k + 1) = y % SequenceModulus
    <3>1. (k + 1) - 1 = k
      BY <1>1
    <3> QED
      BY <3>1 DEF FirstSequence, x, y
  <2> QED
    BY <2>1, <1>5, <1>7 DEF ClassifySequenceMismatch
<1>9. SequenceError(log, records) = "OutOfOrderSequence"
  BY <1>4, <1>8, SendSequenceError
<1>10. /\ ValidateRecordSet(records) = "None"
       /\ ~(RecordCount(records) >= SequenceModulus)
       /\ ~WrongEpoch(log, records)
  BY SequenceAssumption, SendReachesLog, SendIsValid, SendCounts, SendIsKnown, SendsHoldRecords
<1> HIDE DEF records
<1> QED
  BY <1>3, <1>9, <1>10 DEF AppendRecords, records

----------------------------------------------------------------------------
(* What an append leaves as it was *)

\* The offset of a stored send.
OffsetIn(l, c, n) == (CHOOSE b \in Range(l.batches) : b.origin = <<c, n, 1>>).base_offset

\* Where a send is stored is where OffsetOf finds it.
LEMMA OffsetIsThere ==
  ASSUME NEW l, OriginsDiffer(l), NEW c, c # NoId, NEW n, NEW j \in DOMAIN l.batches,
         l.batches[j].origin = <<c, n, 1>>
  PROVE  OffsetIn(l, c, n) = l.batches[j].base_offset
<1> DEFINE b == CHOOSE e \in Range(l.batches) : e.origin = <<c, n, 1>>
<1>1. \E e \in Range(l.batches) : e.origin = <<c, n, 1>>
  BY DEF Range
<1>2. b \in Range(l.batches) /\ b.origin = <<c, n, 1>>
  BY <1>1
<1>3. OffsetIn(l, c, n) = b.base_offset
  BY DEF OffsetIn
<1> HIDE DEF b
<1>4. PICK i \in DOMAIN l.batches : l.batches[i] = b
  BY <1>2 DEF Range
<1>5. <<c, n, 1>>[1] = c
  OBVIOUS
<1>6. i = j
  BY <1>2, <1>4, <1>5 DEF OriginsDiffer
<1> QED
  BY <1>3, <1>4, <1>6

\* An append leaves the offsets of what is stored.
LEMMA GrownKeepsOffsets ==
  ASSUME NEW l, IsLog(l), OriginsDiffer(l), NEW records, RecordSet(records),
         ValidateRecordSet(records) = "None", OriginsDiffer(Grown(l, records)),
         NEW c, c # NoId, NEW n, NEW j \in DOMAIN l.batches, l.batches[j].origin = <<c, n, 1>>
  PROVE  /\ j \in DOMAIN Grown(l, records).batches
         /\ Grown(l, records).batches[j].origin = <<c, n, 1>>
         /\ OffsetIn(Grown(l, records), c, n) = OffsetIn(l, c, n)
<1> DEFINE new == Grown(l, records)
<1>1. j \in DOMAIN new.batches /\ new.batches[j] = l.batches[j]
  <2>1. /\ DOMAIN l.batches = 1..Len(l.batches)
        /\ \A i \in 1..Len(l.batches) : i \in DOMAIN new.batches /\ new.batches[i] = l.batches[i]
    BY GrownBatches
  <2> QED
    BY <2>1, Zenon
<1> HIDE DEF new
<1>2. OffsetIn(l, c, n) = l.batches[j].base_offset
  BY OffsetIsThere
<1>3. OffsetIn(new, c, n) = new.batches[j].base_offset
  BY <1>1, OffsetIsThere DEF new
<1> QED
  BY <1>1, <1>2, <1>3 DEF new

\* Where a batch of the grown log comes from.
LEMMA GrownOrigins ==
  ASSUME NEW l, IsLog(l), NEW records, RecordSet(records), ValidateRecordSet(records) = "None",
         NEW j \in DOMAIN Grown(l, records).batches
  PROVE  \/ j \in DOMAIN l.batches /\ Grown(l, records).batches[j] = l.batches[j]
         \/ \E i \in DOMAIN records :
              /\ j = Len(l.batches) + i
              /\ Grown(l, records).batches[j].origin = records[i].origin
<1> DEFINE new == Grown(l, records).batches
           m == Len(l.batches)
<1>1. /\ DOMAIN l.batches = 1..m /\ DOMAIN records = 1..Len(records)
      /\ \A i \in 1..m : new[i] = l.batches[i]
      /\ \A i \in 1..Len(records) : new[m + i].origin = records[i].origin
      /\ j \in 1..m \/ \E i \in 1..Len(records) : j = m + i
  <2>1. /\ m \in Nat /\ DOMAIN l.batches = 1..m
        /\ Len(records) \in Nat /\ DOMAIN records = 1..Len(records)
        /\ DOMAIN new = 1..(m + Len(records))
    BY GrownBatches, Zenon
  <2>2. \A i \in 1..m : new[i] = l.batches[i]
    BY GrownBatches
  <2>3. \A i \in 1..Len(records) : new[m + i].origin = records[i].origin
    BY GrownBatches
  <2>4. j \in DOMAIN new
    OBVIOUS
  <2> HIDE DEF new, m
  <2>5. j \in 1..m \/ (j - m \in 1..Len(records) /\ j = m + (j - m))
    BY <2>1, <2>4
  <2> QED
    BY <2>1, <2>2, <2>3, <2>5
<1> HIDE DEF new, m
<1>2. \/ j \in DOMAIN l.batches /\ new[j] = l.batches[j]
      \/ \E i \in DOMAIN records : j = m + i /\ new[j].origin = records[i].origin
  BY <1>1
<1> QED
  BY <1>2 DEF new, m

\* Record sets whose batches are new leave every batch stored once.
LEMMA GrownOriginsDiffer ==
  ASSUME NEW l, IsLog(l), OriginsDiffer(l), NEW records, RecordSet(records),
         ValidateRecordSet(records) = "None",
         \A i \in DOMAIN records : records[i].origin[1] # NoId =>
           /\ \A j \in DOMAIN l.batches : l.batches[j].origin # records[i].origin
           /\ \A h \in DOMAIN records : records[h].origin = records[i].origin => h = i
  PROVE  OriginsDiffer(Grown(l, records))
<1> DEFINE new == Grown(l, records).batches
           m == Len(l.batches)
<1>1. SUFFICES ASSUME NEW i \in DOMAIN new, NEW j \in DOMAIN new,
                      new[i].origin = new[j].origin, new[i].origin[1] # NoId
               PROVE  i = j
  BY DEF OriginsDiffer
<1>2. \/ i \in DOMAIN l.batches /\ new[i] = l.batches[i]
      \/ \E g \in DOMAIN records : i = m + g /\ new[i].origin = records[g].origin
  BY GrownOrigins
<1>3. \/ j \in DOMAIN l.batches /\ new[j] = l.batches[j]
      \/ \E h \in DOMAIN records : j = m + h /\ new[j].origin = records[h].origin
  BY GrownOrigins
<1> HIDE DEF new, m
<1> QED
  BY <1>1, <1>2, <1>3 DEF OriginsDiffer

\* An append leaves the history of every producer but its own.
LEMMA OthersKeepHistory ==
  ASSUME IsLog(log), OriginsDiffer(log), NEW records, RecordSet(records),
         ValidateRecordSet(records) = "None", log' = Grown(log, records), OriginsDiffer(log'),
         NEW d \in Client, NEW k \in Nat, client'[d].id = client[d].id,
         client[d].id # records[1].producer,
         \A i \in DOMAIN records : records[i].origin[1] # d,
         HasStored(d, k)
  PROVE  HasStored(d, k)'
<1>1. d # NoId
  BY ClientAssumption
<1>2. ASSUME NEW n \in 1..k
      PROVE  IsStored(d, n)' /\ OffsetOf(d, n)' = OffsetOf(d, n)
  <2>1. PICK j \in DOMAIN log.batches : log.batches[j].origin = <<d, n, 1>>
    BY DEF HasStored, IsStored
  <2>2. OriginsDiffer(Grown(log, records))
    BY DEF OriginsDiffer
  <2>3. /\ j \in DOMAIN Grown(log, records).batches
        /\ Grown(log, records).batches[j].origin = <<d, n, 1>>
        /\ OffsetIn(Grown(log, records), d, n) = OffsetIn(log, d, n)
    BY <1>1, <2>1, <2>2, GrownKeepsOffsets
  <2> QED
    BY <2>3 DEF IsStored, OffsetOf, OffsetIn
<1>3. ASSUME NEW j \in DOMAIN log'.batches, log'.batches[j].origin[1] = d
      PROVE  \E n \in 1..k : \E i \in DOMAIN Layout[n] : log'.batches[j].origin = <<d, n, i>>
  <2>1. j \in DOMAIN log.batches /\ log'.batches[j] = log.batches[j]
    BY <1>3, GrownOrigins
  <2> QED
    BY <1>3, <2>1 DEF HasStored
<1>4. /\ client[d].id \in DOMAIN log'.producers <=> client[d].id \in DOMAIN log.producers
      /\ client[d].id \in DOMAIN log.producers =>
           log'.producers[client[d].id] = log.producers[client[d].id]
  BY DEF Grown
<1>5. k > 0 => StateAfter(d, k)' = StateAfter(d, k)
  <2>1. Keep(k) \in Nat /\ Keep(k) <= k
    BY SpanCovers
  <2>2. \A j \in 1..Keep(k) : k - Keep(k) + j \in 1..k
    BY <2>1
  <2>3. \A j \in 1..Keep(k) : Entry(d, k - Keep(k) + j)' = Entry(d, k - Keep(k) + j)
    BY <2>2, <1>2 DEF Entry
  <2> QED
    BY <2>3 DEF StateAfter
<1> QED
  BY <1>2, <1>3, <1>4, <1>5 DEF HasStored

\* The retry history holds the latest entries after each append.
LEMMA RememberLatest ==
  ASSUME NEW k \in Nat, NEW f, DOMAIN f = 1..(k + 1)
  PROVE  Remember([j \in 1..Keep(k) |-> f[k - Keep(k) + j]], f[k + 1])
           = [j \in 1..Keep(k + 1) |-> f[(k + 1) - Keep(k + 1) + j]]
<1> DEFINE K == Keep(k)
           recent == [j \in 1..K |-> f[k - K + j]]
           lo == IF 1 > K - RecentAppendLimit + 2 THEN 1 ELSE K - RecentAppendLimit + 2
           kept == SubSeq(recent, lo, K)
           all == Range(f)
<1>1. /\ K \in Nat /\ K <= k /\ RecentAppendLimit \in Nat \ {0}
      /\ K = (IF k < RecentAppendLimit THEN k ELSE RecentAppendLimit)
      /\ Keep(k + 1) = (IF k + 1 < RecentAppendLimit THEN k + 1 ELSE RecentAppendLimit)
  BY RecentAssumption DEF Keep
<1> HIDE DEF K
<1>2. \A j \in 1..K : k - K + j \in 1..(k + 1)
  BY <1>1
<1>3. recent \in Seq(all) /\ Len(recent) = K
  BY <1>1, <1>2 DEF Range
<1>4. Max({1, Len(recent) - RecentAppendLimit + 2}) = lo
  BY <1>1, <1>3, OfTwo
<1>5. lo \in 1..2 /\ (k < RecentAppendLimit => lo = 1) /\ (k >= RecentAppendLimit => lo = 2)
  BY <1>1
<1>6. Remember(recent, f[k + 1]) = Append(kept, f[k + 1])
  BY <1>3, <1>4 DEF Remember
<1> HIDE DEF lo, recent
<1>7. /\ kept \in Seq(all) /\ Len(kept) = K + 1 - lo
      /\ \A j \in 1..Len(kept) : kept[j] = recent[lo + j - 1]
  BY <1>1, <1>3, <1>5
<1> HIDE DEF kept, all
<1>8. Keep(k + 1) = Len(kept) + 1 /\ Len(kept) \in Nat
  BY <1>1, <1>5, <1>7
<1>9. /\ Append(kept, f[k + 1]) = [j \in 1..(Len(kept) + 1) |->
                                     IF j = Len(kept) + 1 THEN f[k + 1] ELSE kept[j]]
  BY <1>7
<1>10. ASSUME NEW j \in 1..Keep(k + 1)
       PROVE  (IF j = Len(kept) + 1 THEN f[k + 1] ELSE kept[j]) = f[(k + 1) - Keep(k + 1) + j]
  <2>1. CASE j = Len(kept) + 1
    <3>1. (k + 1) - Keep(k + 1) + j = k + 1
      BY <2>1, <1>8
    <3> QED
      BY <2>1, <3>1
  <2>2. CASE j # Len(kept) + 1
    <3>1. j \in 1..Len(kept) /\ lo + j - 1 \in 1..K
          /\ k - K + (lo + j - 1) = (k + 1) - Keep(k + 1) + j
      <4>1. Len(kept) = K + 1 - lo
        BY <1>7
      <4> QED
        BY <2>2, <4>1, <1>1, <1>5, <1>8
    <3>2. kept[j] = recent[lo + j - 1]
      BY <3>1, <1>7
    <3>3. recent[lo + j - 1] = f[k - K + (lo + j - 1)]
      BY <3>1 DEF recent
    <3> QED
      BY <2>2, <3>1, <3>2, <3>3
  <2> QED
    BY <2>1, <2>2
<1> QED
  BY <1>6, <1>8, <1>9, <1>10 DEF recent, K

\* An accepted send is stored under the next offset.
LEMMA SendGetsNextOffset ==
  ASSUME IsLog(log), NEW c, c # NoId, NEW k, Ready(c, k), NEW n \in DOMAIN Layout,
         log' = Grown(log, SendOf(c, n)), OriginsDiffer(log')
  PROVE  IsStored(c, n)' /\ OffsetOf(c, n)' = log.next_offset
<1> DEFINE records == SendOf(c, n)
           new == Grown(log, records)
           j == Len(log.batches) + 1
<1>1. /\ client[c].id \in Nat /\ RecordSet(records) /\ ValidateRecordSet(records) = "None"
      /\ 1 \in DOMAIN Layout[n] /\ DOMAIN records = DOMAIN Layout[n]
      /\ records[1].origin = <<c, n, 1>>
  BY SendReachesLog, SendIsValid, SendsHoldRecords
<1>2. RecordsBefore(records, 1) = 0
  <2>1. /\ records \in Seq(Range(records)) /\ 1 \in DOMAIN records
        /\ \A i \in DOMAIN records : records[i].count \in Nat
    BY <1>1, ValidSets
  <2> HIDE DEF records
  <2> QED
    BY <2>1, RecordsBeforeStep
<1> HIDE DEF records
<1>3. /\ j \in DOMAIN new.batches
      /\ new.batches[j].origin = records[1].origin
      /\ new.batches[j].base_offset = log.next_offset + 0
  <2>1. 1 \in 1..Len(records)
    BY <1>1, ValidSets
  <2> QED
    BY <1>1, <1>2, <2>1, GrownBatches
<1>4. log.next_offset + 0 = log.next_offset
  BY DEF IsLog
<1>5. log' = new
  BY DEF records
<1> HIDE DEF new, j
<1>6. OriginsDiffer(new)
  BY <1>5 DEF OriginsDiffer
<1>7. OffsetIn(new, c, n) = log.next_offset
  BY <1>1, <1>3, <1>4, <1>6, OffsetIsThere
<1> QED
  BY <1>1, <1>3, <1>5, <1>7 DEF IsStored, OffsetOf, OffsetIn

\* An accepted send extends the history of its producer by one.
LEMMA SenderGainsHistory ==
  ASSUME IsLog(log), OriginsDiffer(log), NEW c \in Client, NEW k, Ready(c, k),
         NEW n \in DOMAIN Layout, n = k + 1,
         log' = Grown(log, SendOf(c, n)), OriginsDiffer(log'), client'[c].id = client[c].id
  PROVE  HasStored(c, n)'
<1> DEFINE records == SendOf(c, n)
           p == client[c].id
<1>1. c # NoId /\ k \in Nat /\ HasStored(c, k)
  BY ClientAssumption, LayoutAssumption DEF Ready
<1>2. /\ p \in Nat /\ p # NoProducerId
      /\ RecordSet(records) /\ ValidateRecordSet(records) = "None"
      /\ DOMAIN records = DOMAIN Layout[n]
      /\ \A i \in DOMAIN Layout[n] : records[i].origin = <<c, n, i>>
      /\ records[1].producer = p /\ records[1].epoch = 0
  BY SendReachesLog, SendIsValid
<1>3. /\ RecordCount(records) = RecordsIn(n) /\ records[1].sequence = FirstSequence(n)
      /\ Encoded(records) = SendCode(n)
  BY <1>2, SendCounts
<1>4. ASSUME NEW m \in 1..k
      PROVE  IsStored(c, m)' /\ OffsetOf(c, m)' = OffsetOf(c, m)
  <2>1. PICK j \in DOMAIN log.batches : log.batches[j].origin = <<c, m, 1>>
    BY <1>1 DEF HasStored, IsStored
  <2>2. OriginsDiffer(Grown(log, records))
    BY DEF OriginsDiffer
  <2> HIDE DEF records
  <2>3. c # NoId /\ RecordSet(records) /\ ValidateRecordSet(records) = "None"
    BY <1>1, <1>2
  <2>4. /\ j \in DOMAIN Grown(log, records).batches
        /\ Grown(log, records).batches[j].origin = <<c, m, 1>>
        /\ OffsetIn(Grown(log, records), c, m) = OffsetIn(log, c, m)
    BY <2>1, <2>2, <2>3, GrownKeepsOffsets
  <2> QED
    BY <2>4 DEF IsStored, OffsetOf, OffsetIn, records
<1>5. IsStored(c, n)' /\ OffsetOf(c, n)' = log.next_offset
  BY <1>1, SendGetsNextOffset
<1>6. ASSUME NEW j \in DOMAIN log'.batches, log'.batches[j].origin[1] = c
      PROVE  \E m \in 1..n : \E i \in DOMAIN Layout[m] : log'.batches[j].origin = <<c, m, i>>
  <2>1. \/ j \in DOMAIN log.batches /\ log'.batches[j] = log.batches[j]
        \/ \E i \in DOMAIN records : log'.batches[j].origin = records[i].origin
    BY <1>2, GrownOrigins
  <2>2. CASE j \in DOMAIN log.batches /\ log'.batches[j] = log.batches[j]
    <3>1. PICK m \in 1..k : \E i \in DOMAIN Layout[m] : log.batches[j].origin = <<c, m, i>>
      BY <1>1, <1>6, <2>2 DEF HasStored
    <3>2. m \in 1..n
      BY <1>1
    <3> QED
      BY <2>2, <3>1, <3>2
  <2>3. CASE \E i \in DOMAIN records : log'.batches[j].origin = records[i].origin
    <3>1. n \in 1..n
      BY <1>1
    <3> QED
      BY <1>2, <2>3, <3>1
  <2> QED
    BY <2>1, <2>2, <2>3
<1>7. \A m \in 1..n : IsStored(c, m)'
  <2>1. \A m \in 1..n : m \in 1..k \/ m = n
    BY <1>1
  <2> QED
    BY <1>4, <1>5, <2>1
<1>8. p \in DOMAIN log'.producers
      /\ log'.producers[p] = ProducerStateAfter(log, records, AppendResult(log, records))
  BY <1>2 DEF Grown
<1>9. ProducerStateAfter(log, records, AppendResult(log, records)) = StateAfter(c, n)'
  <2> DEFINE f == [m \in 1..(k + 1) |-> Entry(c, m)']
             recent == [j \in 1..Keep(k) |-> f[k - Keep(k) + j]]
  <2>1. (IF KnownProducer(log, records) THEN log.producers[p].recent ELSE <<>>) = recent
    <3>1. Keep(k) \in Nat /\ Keep(k) <= k /\ (k = 0 => Keep(k) = 0)
      BY <1>1, SpanCovers
    <3>2. KnownProducer(log, records) <=> k > 0
      BY SendIsKnown
    <3>3. CASE k = 0
      <4>1. ~(k > 0) /\ 1..Keep(k) = {}
        BY <3>1, <3>3
      <4>2. recent = <<>>
        BY <4>1
      <4> QED
        BY <3>2, <4>1, <4>2
    <3>4. CASE k > 0
      <4>1. log.producers[p].recent = [j \in 1..Keep(k) |-> Entry(c, k - Keep(k) + j)]
        <5>1. log.producers[p] = StateAfter(c, k)
          BY <1>1, <3>4 DEF HasStored
        <5>2. StateAfter(c, k).recent = [j \in 1..Keep(k) |-> Entry(c, k - Keep(k) + j)]
          BY DEF StateAfter
        <5> QED
          BY <5>1, <5>2
      <4>2. \A j \in 1..Keep(k) : k - Keep(k) + j \in 1..k /\ k - Keep(k) + j \in 1..(k + 1)
        BY <1>1, <3>1
      <4>3. \A j \in 1..Keep(k) : Entry(c, k - Keep(k) + j)' = Entry(c, k - Keep(k) + j)
        BY <4>2, <1>4 DEF Entry
      <4>4. \A j \in 1..Keep(k) : f[k - Keep(k) + j] = Entry(c, k - Keep(k) + j)
        BY <4>2, <4>3
      <4> HIDE DEF f
      <4> QED
        BY <3>2, <3>4, <4>1, <4>4
    <3> QED
      BY <1>1, <3>3, <3>4
  <2>2. f[k + 1] = [base_sequence |-> records[1].sequence, encoded |-> Encoded(records),
                    result |-> AppendResult(log, records)]
    <3>1. k + 1 \in 1..(k + 1)
      BY <1>1
    <3>2. Entry(c, n)' = [base_sequence |-> FirstSequence(n), encoded |-> SendCode(n),
                          result |-> AppendResult(log, records)]
      BY <1>3, <1>5 DEF Entry, AppendResult
    <3> QED
      BY <1>3, <3>1, <3>2
  <2>3. DOMAIN f = 1..(k + 1)
    OBVIOUS
  <2> HIDE DEF f
  <2>4. Remember(recent, f[k + 1]) = [j \in 1..Keep(k + 1) |-> f[(k + 1) - Keep(k + 1) + j]]
    BY <1>1, <2>3, RememberLatest
  <2>5. \A j \in 1..Keep(k + 1) : f[(k + 1) - Keep(k + 1) + j] = Entry(c, n - Keep(n) + j)'
    <3>1. k + 1 \in Nat
      BY <1>1
    <3>2. Keep(k + 1) \in Nat /\ Keep(k + 1) <= k + 1
      BY <3>1, SpanCovers
    <3>3. \A j \in 1..Keep(k + 1) : (k + 1) - Keep(k + 1) + j \in 1..(k + 1)
      BY <3>1, <3>2
    <3> QED
      BY <3>3 DEF f
  <2>6. NextSequence(FirstSequence(n), RecordsIn(n)) = FirstSequence(n + 1)
    BY NextFirstSequence
  <2> HIDE DEF recent
  <2>7. StateAfter(c, n)' = [producer_epoch |-> 0, next_sequence |-> FirstSequence(n + 1),
                             recent |-> Remember(recent, f[k + 1])]
    BY <2>4, <2>5 DEF StateAfter
  <2>8. ProducerStateAfter(log, records, AppendResult(log, records))
          = [producer_epoch |-> 0, next_sequence |-> FirstSequence(n + 1),
             recent |-> Remember(recent, f[k + 1])]
    BY <1>2, <1>3, <2>1, <2>2, <2>6 DEF ProducerStateAfter
  <2> QED
    BY <2>7, <2>8
<1>10. n # 0 /\ n > 0
  BY <1>1
<1> QED
  BY <1>6, <1>7, <1>8, <1>9, <1>10 DEF HasStored
----------------------------------------------------------------------------
(* Record sets that no correct client sends *)

\* What a record set must have to pass validate_record_set.
LEMMA ValidNeeds ==
  ASSUME NEW records, DOMAIN records \subseteq Nat, ValidateRecordSet(records) = "None"
  PROVE  /\ records # <<>> /\ OneProducer(records)
         /\ \A i \in DOMAIN records : BatchError(records[i]) = "None"
<1> DEFINE bad == {i \in DOMAIN records : BatchError(records[i]) # "None"}
<1>1. bad = {}
  <2>1. SUFFICES ASSUME bad # {} PROVE FALSE
    OBVIOUS
  <2>2. bad \subseteq Nat
    OBVIOUS
  <2>3. Min(bad) \in bad
    <3> HIDE DEF bad
    <3> QED
      BY <2>1, <2>2, MinOfNaturals
  <2> QED
    BY <2>1, <2>3 DEF ValidateRecordSet
<1> QED
  BY <1>1 DEF ValidateRecordSet

\* Record sets that the handler or the log refuses leave the log alone.
LEMMA RefusedSets ==
  ASSUME NEW records,
         \/ ValidateRecordSet(records) # "None"
         \/ /\ records[1].producer # NoProducerId
            /\ ValidateProducer(records[1].producer, records[1].epoch) # "None"
         \/ SequenceError(log, records) # "None"
  PROVE  ProducePartition(records).log = log
<1>1. SequenceError(log, records) # "None" => AppendRecords(log, records).log = log
  BY DEF AppendRecords
<1> QED
  BY <1>1 DEF ProducePartition

\* Two record sets one after the other.
Joined(c, n, d, m) == SendOf(c, n) \o SendOf(d, m)

\* The batches of a joined record set, and the records before them.
LEMMA JoinedSends ==
  ASSUME NEW c, client[c].id \in Nat, NEW n \in DOMAIN Layout,
         NEW d, client[d].id \in Nat, NEW m \in DOMAIN Layout
  PROVE  /\ DOMAIN Joined(c, n, d, m) \subseteq Nat
         /\ 1 \in DOMAIN Joined(c, n, d, m)
         /\ Len(SendOf(c, n)) + 1 \in DOMAIN Joined(c, n, d, m)
         /\ Joined(c, n, d, m)[1] = SendOf(c, n)[1]
         /\ Joined(c, n, d, m)[Len(SendOf(c, n)) + 1] = SendOf(d, m)[1]
         /\ RecordsBefore(Joined(c, n, d, m), 1) = 0
         /\ RecordsBefore(Joined(c, n, d, m), Len(SendOf(c, n)) + 1) = RecordsIn(n)
<1> DEFINE s == SendOf(c, n)
           t == SendOf(d, m)
           both == s \o t
           next == Len(s) + 1
<1>1. /\ s \in Seq(Range(s)) /\ Len(s) \in Nat \ {0} /\ DOMAIN s = 1..Len(s)
      /\ t \in Seq(Range(t)) /\ Len(t) \in Nat \ {0}
      /\ \A i \in DOMAIN s : s[i].count \in Nat
  BY SendIsValid, ValidSets
<1>2. RecordCount(s) = RecordsIn(n)
  BY SendCounts
<1> HIDE DEF s, t
<1>3. /\ DOMAIN both = 1..(Len(s) + Len(t))
      /\ \A i \in 1..Len(s) : both[i] = s[i]
      /\ \A i \in (Len(s) + 1)..(Len(s) + Len(t)) : both[i] = t[i - Len(s)]
  BY <1>1, ConcatElements
<1>4. 1 \in 1..Len(s) /\ next \in (Len(s) + 1)..(Len(s) + Len(t)) /\ next - Len(s) = 1
      /\ 1 \in 1..(Len(s) + Len(t)) /\ next \in 1..(Len(s) + Len(t)) /\ next - 1 = Len(s)
      /\ 1..(1 - 1) = {}
  BY <1>1
<1>5. both[next] = t[next - Len(s)]
  BY <1>3, <1>4
<1> HIDE DEF both, next
<1>6. RecordsBefore(both, 1) = 0
  BY <1>4, SumUnfolds, FS_EmptySet DEF RecordsBefore
<1>7. RecordsBefore(both, next) = RecordCount(s)
  <2> DEFINE f == [j \in DOMAIN both |-> both[j].count]
             g == [j \in DOMAIN s |-> s[j].count]
  <2>1. \A i \in 1..Len(s) : i \in DOMAIN both
    BY <1>1, <1>3
  <2>2. \A i \in 1..Len(s) : f[i] = g[i]
    BY <2>1, <1>1, <1>3
  <2>3. IsFiniteSet(1..Len(s))
    BY <1>1, FS_Interval
  <2> HIDE DEF f, g
  <2>4. SumFunctionOnSet(f, 1..Len(s)) = SumFunctionOnSet(g, 1..Len(s))
    BY <2>2, <2>3, SumDependsOnValues
  <2>5. (Len(s) + 1) - 1 = Len(s)
    BY <1>1
  <2> QED
    BY <1>4, <2>4, <2>5 DEF RecordsBefore, RecordCount, f, g
<1>8. DOMAIN both \subseteq Nat
  BY <1>1, <1>3
<1> QED
  BY <1>2, <1>3, <1>4, <1>5, <1>6, <1>7, <1>8 DEF both, next, s, t, Joined

\* A record set of two producers is refused.
LEMMA TwoProducersAreRefused ==
  ASSUME NEW c, client[c].id \in Nat, NEW n \in DOMAIN Layout,
         NEW d, client[d].id \in Nat, NEW m \in DOMAIN Layout, client[c].id # client[d].id
  PROVE  ValidateRecordSet(SendOf(c, n) \o SendOf(d, m)) # "None"
<1> DEFINE both == Joined(c, n, d, m)
           next == Len(SendOf(c, n)) + 1
<1>1. /\ DOMAIN both \subseteq Nat /\ next \in DOMAIN both
      /\ both[1] = SendOf(c, n)[1] /\ both[next] = SendOf(d, m)[1]
  BY JoinedSends
<1>2. SendOf(c, n)[1].producer = client[c].id /\ SendOf(d, m)[1].producer = client[d].id
  BY SendsHoldRecords, SendIsValid
<1> HIDE DEF both, next
<1>3. ~OneProducer(both)
  BY <1>1, <1>2 DEF OneProducer
<1> QED
  BY <1>1, <1>3, ValidNeeds DEF both, Joined

\* A send followed by the one after the next one does not continue its sequence.
LEMMA GapIsRefused ==
  ASSUME NEW c, NEW k, Ready(c, k), NEW n \in DOMAIN Layout, n + 2 \in DOMAIN Layout
  PROVE  SequenceError(log, SendOf(c, n) \o SendOf(c, n + 2)) # "None"
<1> DEFINE s == SendOf(c, n)
           both == Joined(c, n, c, n + 2)
           next == Len(s) + 1
           e == FirstSequence(k + 1)
           r == RecordsIn(n)
           bad == {i \in DOMAIN both : both[i].sequence # NextSequence(e, RecordsBefore(both, i))}
<1>1. client[c].id \in Nat /\ client[c].id # NoProducerId /\ s[1].producer = client[c].id
  BY SendReachesLog
<1>2. /\ 1 \in DOMAIN both /\ next \in DOMAIN both
      /\ both[1] = s[1] /\ both[next] = SendOf(c, n + 2)[1]
      /\ RecordsBefore(both, 1) = 0 /\ RecordsBefore(both, next) = r
  BY <1>1, JoinedSends
<1>3. s[1].sequence = FirstSequence(n) /\ SendOf(c, n + 2)[1].sequence = FirstSequence(n + 2)
  BY <1>1, SendCounts
<1>4. ExpectedSequence(log, both) = e
  <2>1. ExpectedSequence(log, s) = e
    BY SendIsKnown
  <2> HIDE DEF both, s
  <2> QED
    BY <1>2, <2>1 DEF ExpectedSequence, KnownProducer
<1>5. e \in Int /\ e % SequenceModulus = e
  <2>1. k + 1 \in 1..(Len(Layout) + 1)
    BY LayoutAssumption DEF Ready
  <2>2. e \in 0..(SequenceModulus - 1)
    BY <2>1, FirstSequenceRange
  <2> HIDE DEF e
  <2> QED
    BY <2>2, SequenceAssumption, SmallRemainder
<1>6. r \in Int /\ NextSequence(FirstSequence(n), r) = FirstSequence(n + 1)
  BY NextFirstSequence, SendsHoldRecords
<1>7. FirstSequence(n + 1) # FirstSequence(n + 2)
  <2>a. Len(Layout) \in Nat /\ DOMAIN Layout = 1..Len(Layout)
    BY LayoutAssumption
  <2>1. n + 1 \in Nat \ {0} /\ n + 2 \in Nat /\ n + 1 < n + 2 /\ n + 2 <= Len(Layout) + 1
    BY <2>a
  <2>2. Span \in Nat /\ Span >= 1
    BY SpanCovers, <2>1
  <2>3. (n + 2) - (n + 1) <= Span
    BY <2>1, <2>2
  <2> QED
    BY <2>1, <2>3, FirstSequencesDiffer
<1> HIDE DEF both, next, s, e, r
<1>8. bad # {}
  <2>1. SUFFICES ASSUME bad = {} PROVE FALSE
    OBVIOUS
  <2>2. FirstSequence(n) = NextSequence(e, 0) /\ FirstSequence(n + 2) = NextSequence(e, r)
    BY <1>2, <1>3, <2>1
  <2>3. NextSequence(e, 0) = e
    BY <1>5 DEF NextSequence
  <2> QED
    BY <1>6, <1>7, <2>2, <2>3
<1>9. ValidateSequences(both, e)
        = ClassifySequenceMismatch(both[Min(bad)].sequence, NextSequence(e, RecordsBefore(both, Min(bad))))
  BY <1>8 DEF ValidateSequences
<1> HIDE DEF bad
<1>10. ValidateSequences(both, e) # "None"
  BY <1>9 DEF ClassifySequenceMismatch
<1>11. SequenceError(log, both) # "None"
  BY <1>1, <1>2, <1>4, <1>10 DEF SequenceError
<1> QED
  BY <1>11 DEF both, Joined

\* Of a client with an id, the log is ready for the sends.
LEMMA ClientIsReady ==
  ASSUME ProduceInv, NEW c \in Client, client[c].id # NoId, NEW k \in 0..client[c].sent,
         HasStored(c, k)
  PROVE  /\ Ready(c, k) /\ client[c].id \in Nat /\ client[c].id # NoProducerId
         /\ client[c].sent \in Nat /\ client[c].sent <= Len(Layout) /\ Len(Layout) \in Nat
         /\ DOMAIN Layout = 1..Len(Layout)
<1>1. Len(Layout) \in Nat /\ DOMAIN Layout = 1..Len(Layout) /\ Sends[c] \in 0..Len(Layout)
  BY LayoutAssumption, SendsAssumption
<1>2. client[c].id \in 0..next_id /\ client[c].sent \in 0..Sends[c]
  BY DEF ProduceInv, ClientInv
<1>3. next_id \in Nat /\ epochs \in [1..next_id -> {0}] /\ log.next_offset \in Nat
  BY DEF ProduceInv, LogInv, IsLog
<1>4. client[c].id \in 1..next_id /\ k \in 0..Len(Layout)
  BY <1>1, <1>2, <1>3 DEF NoId
<1> QED
  BY <1>1, <1>2, <1>3, <1>4 DEF Ready, NoProducerId

\* Nothing of what no correct client sends is stored.
LEMMA OddSendsAreRefused ==
  ASSUME ProduceInv, NEW c \in Client, client[c].id # NoId, client[c].sent < Sends[c],
         NEW records \in OddSends(c)
  PROVE  ProducePartition(records).log = log
<1> DEFINE n == client[c].sent + 1
           good == SendOf(c, n)
           p == client[c].id
<1>1. PICK k \in 0..client[c].sent : HasStored(c, k)
  BY DEF ProduceInv, Progress
<1>2. /\ Ready(c, k) /\ p \in Nat /\ p # NoProducerId
      /\ client[c].sent \in Nat /\ Len(Layout) \in Nat /\ DOMAIN Layout = 1..Len(Layout)
  BY <1>1, ClientIsReady
<1>3. \A d \in Client : client[d].sent < Sends[d] => client[d].sent + 1 \in DOMAIN Layout
  <2>1. \A d \in Client : client[d].sent \in Nat /\ Sends[d] \in 0..Len(Layout)
    BY SendsAssumption DEF ProduceInv
  <2> QED
    BY <1>2, <2>1
<1>4. n \in DOMAIN Layout
  BY <1>3
<1>5. /\ DOMAIN good = 1..Len(good) /\ Len(good) \in Nat \ {0}
      /\ good = [i \in DOMAIN good |-> good[i]]
      /\ \A i \in DOMAIN good : good[i].producer = p /\ good[i].epoch = 0
                                /\ DOMAIN good[i] = {"shape", "producer", "epoch", "sequence",
                                                     "count", "size", "payload", "origin"}
  <2>1. DOMAIN good = DOMAIN Layout[n] /\ Len(good) = Len(Layout[n])
        /\ \A i \in DOMAIN Layout[n] : good[i].producer = p /\ good[i].epoch = 0
    BY <1>2, <1>4, SendIsValid
  <2>2. Len(Layout[n]) \in Nat \ {0} /\ DOMAIN Layout[n] = 1..Len(Layout[n])
    BY <1>4, SendsHoldRecords
  <2>3. good = [i \in DOMAIN good |-> good[i]]
        /\ \A i \in DOMAIN good : DOMAIN good[i] = {"shape", "producer", "epoch", "sequence",
                                                    "count", "size", "payload", "origin"}
    BY DEF SendOf
  <2> HIDE DEF good, n
  <2> QED
    BY <2>1, <2>2, <2>3
<1>6. epochs \in [1..next_id -> {0}] /\ next_id \in Nat /\ p \in 1..next_id
  BY <1>2 DEF Ready
<1>7. CASE records = <<>>
  BY <1>7, RefusedSets DEF ValidateRecordSet
<1>8. ASSUME NEW d \in Client \ {c}, client[d].id # NoId, client[d].sent < Sends[d],
             records = good \o SendOf(d, client[d].sent + 1)
      PROVE  ProducePartition(records).log = log
  <2> DEFINE m == client[d].sent + 1
  <2>1. client[d].id \in Nat /\ client[d].id # p
    BY <1>8 DEF ProduceInv, IdsAreUnique
  <2>2. m \in DOMAIN Layout
    BY <1>3, <1>8
  <2> HIDE DEF n, m
  <2>3. ValidateRecordSet(SendOf(c, n) \o SendOf(d, m)) # "None"
    BY <1>2, <1>4, <2>1, <2>2, TwoProducersAreRefused
  <2> QED
    BY <1>8, <2>3, RefusedSets DEF m
<1>9. ASSUME n + 2 <= Len(Layout), records = good \o SendOf(c, n + 2)
      PROVE  ProducePartition(records).log = log
  <2>1. n + 2 \in DOMAIN Layout
    BY <1>2, <1>9
  <2> HIDE DEF n
  <2>2. SequenceError(log, records) # "None"
    BY <1>2, <1>4, <1>9, <2>1, GapIsRefused
  <2> QED
    BY <2>2, RefusedSets
<1> HIDE DEF good
<1>10. ASSUME NEW epoch \in {1, NoProducerEpoch}, records = [good EXCEPT ![1].epoch = epoch]
       PROVE  ProducePartition(records).log = log
  <2>1. records[1].producer = p /\ records[1].epoch = epoch
    <3>1. 1 \in DOMAIN good
      BY <1>5
    <3>2. records[1] = [good[1] EXCEPT !.epoch = epoch]
      BY <1>5, <1>10, <3>1
    <3> QED
      BY <1>5, <3>1, <3>2
  <2>2. ValidateProducer(p, epoch) # "None"
    BY <1>6 DEF ValidateProducer, NoProducerEpoch
  <2> QED
    BY <1>2, <2>1, <2>2, RefusedSets
<1>11. ASSUME records = [i \in DOMAIN good |-> [good[i] EXCEPT !.producer = next_id + 1]]
       PROVE  ProducePartition(records).log = log
  <2>1. records[1].producer = next_id + 1
    <3>1. 1 \in DOMAIN good
      BY <1>5
    <3>2. records[1] = [good[1] EXCEPT !.producer = next_id + 1]
      BY <1>11, <3>1
    <3> QED
      BY <1>5, <3>1, <3>2
  <2>2. next_id + 1 \notin DOMAIN epochs /\ next_id + 1 # NoProducerId
    BY <1>6 DEF NoProducerId
  <2>3. ValidateProducer(next_id + 1, records[1].epoch) # "None"
    BY <2>2 DEF ValidateProducer
  <2> QED
    BY <2>1, <2>2, <2>3, RefusedSets
<1>12. ASSUME NEW shape \in {"torn", "magic", "transactional", "miscounted"},
              records = [good EXCEPT ![Len(good)].shape = shape]
       PROVE  ProducePartition(records).log = log
  <2>1. Len(good) \in DOMAIN good
    BY <1>5
  <2>2. DOMAIN records = DOMAIN good /\ records[Len(good)] = [good[Len(good)] EXCEPT !.shape = shape]
    BY <1>5, <1>12, <2>1
  <2>3. records[Len(good)].shape = shape
    BY <1>5, <2>1, <2>2
  <2>4. BatchError(records[Len(good)]) # "None"
    BY <2>3 DEF BatchError
  <2>5. DOMAIN records \subseteq Nat
    BY <1>5, <2>2
  <2>6. ValidateRecordSet(records) # "None"
    BY <2>1, <2>2, <2>4, <2>5, ValidNeeds
  <2> QED
    BY <2>6, RefusedSets
<1>13. \/ records = <<>>
       \/ \E d \in Client \ {c} : /\ client[d].id # NoId /\ client[d].sent < Sends[d]
                                  /\ records = good \o SendOf(d, client[d].sent + 1)
       \/ n + 2 <= Len(Layout) /\ records = good \o SendOf(c, n + 2)
       \/ \E epoch \in {1, NoProducerEpoch} : records = [good EXCEPT ![1].epoch = epoch]
       \/ records = [i \in DOMAIN good |-> [good[i] EXCEPT !.producer = next_id + 1]]
       \/ \E shape \in {"torn", "magic", "transactional", "miscounted"} :
            records = [good EXCEPT ![Len(good)].shape = shape]
  BY DEF OddSends, good
<1> QED
  BY <1>7, <1>8, <1>9, <1>10, <1>11, <1>12, <1>13
=============================================================================
