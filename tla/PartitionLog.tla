---------------------------- MODULE PartitionLog ----------------------------
(***************************************************************************)
(* One partition of a topic: the log of stored batches and, for every      *)
(* producer id, the next sequence number and a short history of appends    *)
(* (src/broker/partition.rs).  The log is a record; every operation is     *)
(* an operator on it, because the code runs each one under the log's       *)
(* mutex and without an await in between.                                  *)
(*                                                                         *)
(* A record set is the sequence of batches of one Produce request for the  *)
(* partition.  A batch keeps the header fields the code looks at; `shape`  *)
(* stands for how its encoding fares in validate_record_set, `size` for    *)
(* its length in bytes and `payload` for its bytes (the records and        *)
(* everything the retry fingerprint covers).  `origin` is a ghost: which   *)
(* send of which client it is; no operator looks at it.                    *)
(*                                                                         *)
(* The operators named Faulty... are slips the code avoids; they show      *)
(* which property would notice.                                            *)
(***************************************************************************)
EXTENDS Integers, Sequences, FiniteSetsExt, Functions

CONSTANTS
  SequenceModulus,    \* 2^31: sequence numbers wrap from i32::MAX to 0
  RecentAppendLimit,  \* 5: appends remembered for each producer
  MaxOffset           \* i64::MAX

ASSUME SequenceAssumption ==
  SequenceModulus \in Nat \ {0} /\ SequenceModulus % 2 = 0
ASSUME RecentAssumption == RecentAppendLimit \in Nat \ {0}
ASSUME OffsetAssumption == MaxOffset \in Nat

NoProducerId    == -1
NoProducerEpoch == -1
NoSequence      == -1

NewLog == [next_offset |-> 0, batches |-> <<>>, producers |-> [p \in {} |-> p]]

----------------------------------------------------------------------------
(* validate_record_set *)

NonIdempotent(b) ==
  /\ b.producer = NoProducerId
  /\ b.epoch = NoProducerEpoch
  /\ b.sequence \in {NoSequence, 0}

Idempotent(b) == b.producer # NoProducerId /\ b.epoch >= 0 /\ b.sequence >= 0

\* "torn": too short, a bad length, or not exactly one decodable batch;
\* "magic", "transactional": another format, a transactional or control batch;
\* "miscounted": the record count is not positive or the headers disagree.
BatchError(b) ==
  CASE b.shape = "torn" -> "Malformed"
    [] b.shape \in {"magic", "transactional"} -> "UnsupportedBatch"
    [] ~NonIdempotent(b) /\ ~Idempotent(b) -> "Malformed"
    [] b.shape = "miscounted" -> "Malformed"
    [] OTHER -> "None"

OneProducer(records) ==
  \A i \in DOMAIN records :
    records[i].producer = records[1].producer /\ records[i].epoch = records[1].epoch

\* The first batch that fails decides the error.
ValidateRecordSet(records) ==
  LET bad == {i \in DOMAIN records : BatchError(records[i]) # "None"}
  IN  IF records = <<>> THEN "Malformed"
      ELSE IF bad # {} THEN BatchError(records[Min(bad)])
      ELSE IF ~OneProducer(records) THEN "Malformed"
      ELSE "None"

\* A record set as a request carries it: a batch that passes the checks holds
\* at least one record and, with its header, at least one byte.
RecordSet(records) ==
  /\ records \in Seq(Range(records))
  /\ \A i \in DOMAIN records :
       BatchError(records[i]) = "None" =>
         records[i].count \in Nat \ {0} /\ records[i].size \in Nat \ {0}

----------------------------------------------------------------------------
(* Sequence numbers *)

NextSequence(base_sequence, record_count) ==
  (base_sequence + record_count) % SequenceModulus

\* The records of the batches before the i-th.
RecordsBefore(records, i) ==
  SumFunctionOnSet([j \in DOMAIN records |-> records[j].count], 1..(i - 1))

RecordCount(records) == RecordsBefore(records, Len(records) + 1)

ClassifySequenceMismatch(received, expected) ==
  IF (received - expected) % SequenceModulus < SequenceModulus \div 2
  THEN "OutOfOrderSequence" ELSE "DuplicateSequence"

\* A slip: only the first batch of a record set is looked at.
FaultyValidateSequences(records, expected_sequence) ==
  IF records[1].sequence = expected_sequence THEN "None"
  ELSE ClassifySequenceMismatch(records[1].sequence, expected_sequence)

\* Every batch continues the sequence of the batch before.
ValidateSequences(records, expected_sequence) ==
  LET expected(i) == NextSequence(expected_sequence, RecordsBefore(records, i))
      bad == {i \in DOMAIN records : records[i].sequence # expected(i)}
  IN  IF bad = {} THEN "None"
      ELSE ClassifySequenceMismatch(records[Min(bad)].sequence, expected(Min(bad)))

----------------------------------------------------------------------------
(* append *)

\* What the retry history keeps of a record set and compares: the lengths,
\* counts and checksums of the batches, and their bytes.
Encoded(records) ==
  [i \in DOMAIN records |->
     <<records[i].sequence, records[i].count, records[i].size, records[i].payload>>]

KnownProducer(log, records) == records[1].producer \in DOMAIN log.producers

ExpectedSequence(log, records) ==
  IF KnownProducer(log, records)
  THEN log.producers[records[1].producer].next_sequence ELSE 0

\* A slip: the bytes decide, whatever the sequence number.
FaultyRetries(log, records) ==
  IF ~KnownProducer(log, records) THEN {}
  ELSE LET recent == log.producers[records[1].producer].recent
       IN  {i \in DOMAIN recent :
              /\ Len(recent[i].encoded) = Len(records)
              /\ \A j \in DOMAIN records : records[j].payload = recent[i].encoded[j][4]}

\* The positions in the retry history that this record set repeats exactly.
Retries(log, records) ==
  IF ~KnownProducer(log, records) THEN {}
  ELSE LET recent == log.producers[records[1].producer].recent
       IN  {i \in DOMAIN recent :
              /\ recent[i].base_sequence = records[1].sequence
              /\ recent[i].encoded = Encoded(records)}

\* Why a record set that is not a retry is refused, in the order of the checks.
SequenceError(log, records) ==
  IF records[1].producer = NoProducerId THEN "None"
  ELSE IF ~KnownProducer(log, records) /\ records[1].sequence # 0
       THEN "OutOfOrderSequence"
  ELSE ValidateSequences(records, ExpectedSequence(log, records))

WrongEpoch(log, records) ==
  /\ KnownProducer(log, records)
  /\ log.producers[records[1].producer].producer_epoch # records[1].epoch

\* A slip: every batch of the record set gets the offset of the first.
FaultyStoredBatches(log, records) ==
  [i \in DOMAIN records |->
     [base_offset |-> log.next_offset,
      last_offset |-> log.next_offset + records[i].count - 1,
      size |-> records[i].size, origin |-> records[i].origin]]

\* The batches of a record set, with the offsets they are given.
StoredBatches(log, records) ==
  [i \in DOMAIN records |->
     LET base == log.next_offset + RecordsBefore(records, i)
     IN  [base_offset |-> base, last_offset |-> base + records[i].count - 1,
          size |-> records[i].size, origin |-> records[i].origin]]

\* A slip: the history is trimmed to one entry less than the limit.
FaultyRemember(recent, entry) ==
  LET kept == SubSeq(recent, Max({1, Len(recent) - RecentAppendLimit + 3}), Len(recent))
  IN  Append(kept, entry)

\* The oldest entries make room for the new one.
Remember(recent, entry) ==
  LET kept == SubSeq(recent, Max({1, Len(recent) - RecentAppendLimit + 2}), Len(recent))
  IN  Append(kept, entry)

ProducerStateAfter(log, records, result) ==
  [producer_epoch |-> records[1].epoch,
   next_sequence |-> NextSequence(records[1].sequence, RecordCount(records)),
   recent |->
     Remember(IF KnownProducer(log, records)
              THEN log.producers[records[1].producer].recent ELSE <<>>,
              [base_sequence |-> records[1].sequence,
               encoded |-> Encoded(records), result |-> result])]

AppendResult(log, records) ==
  [error |-> "None", base_offset |-> log.next_offset,
   last_offset |-> log.next_offset + RecordCount(records) - 1, appended |-> TRUE]

\* The log with a record set more.
Grown(log, records) ==
  [next_offset |-> log.next_offset + RecordCount(records),
   batches |-> log.batches \o StoredBatches(log, records),
   producers |->
     IF records[1].producer = NoProducerId THEN log.producers
     ELSE [p \in DOMAIN log.producers \cup {records[1].producer} |->
             IF p = records[1].producer
             THEN ProducerStateAfter(log, records, AppendResult(log, records))
             ELSE log.producers[p]]]

Refused(error) ==
  [error |-> error, base_offset |-> -1, last_offset |-> -1, appended |-> FALSE]

\* PartitionLog::append: the log after it, and the answer.
AppendRecords(log, records) ==
  IF ValidateRecordSet(records) # "None"
  THEN [log |-> log, reply |-> Refused(ValidateRecordSet(records))]
  ELSE IF RecordCount(records) >= SequenceModulus   \* the total is an i32
  THEN [log |-> log, reply |-> Refused("OffsetOverflow")]
  ELSE IF WrongEpoch(log, records)
  THEN [log |-> log, reply |-> Refused("OutOfOrderSequence")]
  ELSE IF Retries(log, records) # {}
  THEN [log |-> log,
        reply |-> [log.producers[records[1].producer].recent[Min(Retries(log, records))].result
                     EXCEPT !.appended = FALSE]]
  ELSE IF SequenceError(log, records) # "None"
  THEN [log |-> log, reply |-> Refused(SequenceError(log, records))]
  ELSE IF log.next_offset + RecordCount(records) > MaxOffset
  THEN [log |-> log, reply |-> Refused("OffsetOverflow")]
  ELSE [log |-> Grown(log, records), reply |-> AppendResult(log, records)]

----------------------------------------------------------------------------
(* fetch *)

SizeOf(batches) == SumFunction([i \in DOMAIN batches |-> batches[i].size])

\* A slip: a first batch over the limit is not returned either.
FaultyWithin(batches, limit) ==
  SubSeq(batches, 1, Max({n \in 0..Len(batches) : SizeOf(SubSeq(batches, 1, n)) <= limit}))

\* The longest prefix within the limit, and never less than the first batch.
Within(batches, limit) ==
  SubSeq(batches, 1, Max({n \in 0..Len(batches) :
                            n <= 1 \/ SizeOf(SubSeq(batches, 1, n)) <= limit}))

\* The batches from the first one on that does not end before the offset.
From(log, offset) ==
  LET kept == {i \in DOMAIN log.batches : log.batches[i].last_offset >= offset}
  IN  IF kept = {} THEN <<>> ELSE SubSeq(log.batches, Min(kept), Len(log.batches))

\* PartitionLog::fetch.
FetchRecords(log, offset, partition_max_bytes) ==
  IF offset < 0 \/ offset > log.next_offset
  THEN [error |-> "OutOfRange", records |-> <<>>, high_watermark |-> -1]
  ELSE [error |-> "None", records |-> Within(From(log, offset), partition_max_bytes),
        high_watermark |-> log.next_offset]

----------------------------------------------------------------------------
(* What a log looks like *)

\* The batches cover the offsets below next_offset, each exactly once and in
\* order.
Contiguous(log) ==
  /\ log.next_offset =
       IF log.batches = <<>> THEN 0 ELSE log.batches[Len(log.batches)].last_offset + 1
  /\ \A i \in DOMAIN log.batches :
       /\ log.batches[i].base_offset =
            IF i = 1 THEN 0 ELSE log.batches[i - 1].last_offset + 1
       /\ log.batches[i].base_offset <= log.batches[i].last_offset
=============================================================================
