----------------------------- MODULE MCLongPoll -----------------------------
(***************************************************************************)
(* A small instance of LongPoll: two partitions; record sets of one and    *)
(* two bytes, one of them of an idempotent producer, so that a repeat is   *)
(* not announced; Fetches over both partitions with tight limits, over     *)
(* one, over unknown partitions and offsets out of range.                  *)
(***************************************************************************)
EXTENDS LongPoll

Batch(producer, size) ==
  <<[shape |-> "sound", producer |-> producer,
     epoch |-> IF producer = NoProducerId THEN NoProducerEpoch ELSE 0,
     sequence |-> 0, count |-> size, size |-> size, payload |-> "x",
     origin |-> <<producer, size>>]>>

To(p, records) == [partition |-> p, records |-> records]

MCProduceRequest ==
  {[refused |-> FALSE, data |-> <<To(1, Batch(NoProducerId, 1) \o Batch(NoProducerId, 1)),
                                 To(2, Batch(NoProducerId, 1))>>],
   [refused |-> FALSE, data |-> <<To(3, Batch(NoProducerId, 1)), To(2, Batch(1, 2))>>],
   [refused |-> TRUE,  data |-> <<To(1, Batch(NoProducerId, 1))>>]}

Part(p, offset, max) == [partition |-> p, offset |-> offset, max |-> max]

MCFetchRequest ==
  {[parts |-> <<Part(1, 0, 3), Part(2, 0, 3)>>, max |-> 3, min |-> 3, wait |-> 1],
   [parts |-> <<Part(2, 1, 1), Part(3, 0, 9)>>, max |-> 1, min |-> 1, wait |-> 1],
   [parts |-> <<Part(1, 9, 9), Part(3, 0, 9)>>, max |-> 9, min |-> 1, wait |-> 1],
   [parts |-> <<Part(2, 0, 9)>>, max |-> 9, min |-> 1, wait |-> 0]}
=============================================================================
