------------------------------ MODULE LongPoll ------------------------------
(***************************************************************************)
(* Produce and Fetch requests over the partitions of a topic.  A Fetch     *)
(* waits until enough bytes have arrived or its time is up                 *)
(* (src/kafka/fetch.rs); a Produce appends partition by partition and      *)
(* after each append notifies the waiting Fetches                          *)
(* (src/kafka/produce.rs).  Every partition has its own mutex, so the      *)
(* tasks interleave between the partitions, and between an append and its  *)
(* notification.                                                           *)
(*                                                                         *)
(* Producer ids are validated in IdempotentProduce; the record sets here   *)
(* are those of known producers.  Instants are counted down: `left` is the *)
(* time until the deadline of a Fetch.                                     *)
(***************************************************************************)
EXTENDS PartitionLog

CONSTANTS
  Partition,       \* the partitions there are
  Producer,        \* connections that produce
  Consumer,        \* connections that fetch
  ProduceRequest,  \* [refused : BOOLEAN, data : Seq([partition, records])]
  FetchRequest,    \* [parts : Seq([partition, offset, max]), max, min, wait]
  MaxProduces      \* bound on the Produce requests of each connection

ASSUME ProducesAssumption == MaxProduces \in Nat
ASSUME RecordsAssumption ==
  \A r \in ProduceRequest :
    r.data \in Seq(Range(r.data)) /\ \A i \in DOMAIN r.data : RecordSet(r.data[i].records)
\* Limits and times below 0 are taken for 0.
ASSUME FetchAssumption ==
  /\ FetchRequest # {}
  /\ \A r \in FetchRequest :
       /\ r.max \in Nat /\ r.min \in Nat /\ r.wait \in Nat
       /\ r.parts \in Seq(Range(r.parts))
       /\ \A i \in DOMAIN r.parts : r.parts[i].offset \in Int /\ r.parts[i].max \in Nat

VARIABLES
  logs,     \* logs[p]: partition p
  produce,  \* produce[c]: the Produce request of connection c
  fetch     \* fetch[c]: the Fetch request of connection c

poll_vars == <<logs, produce, fetch>>

EmptySnapshot == [response |-> <<>>, bytes |-> 0, valid |-> 0]

PollInit ==
  /\ logs = [p \in Partition |-> NewLog]
  /\ produce = [c \in Producer |-> [pc |-> "idle", data |-> <<>>, made |-> 0]]
  /\ fetch = [c \in Consumer |->
                [pc |-> "idle", request |-> CHOOSE r \in FetchRequest : TRUE,
                 snapshot |-> EmptySnapshot, woken |-> FALSE, left |-> 0]]

----------------------------------------------------------------------------
(* Produce *)

\* A request with bad acks, a transactional id or an unknown topic is answered
\* with an error for every partition.
ProduceStart(c, r) ==
  /\ produce[c].pc = "idle"
  /\ produce[c].made < MaxProduces
  /\ produce' = [produce EXCEPT ![c] =
                   [pc |-> "append", data |-> IF r.refused THEN <<>> ELSE r.data,
                    made |-> @.made + 1]]
  /\ UNCHANGED <<logs, fetch>>

\* A Fetch is registered with the Notify from before its snapshot until it is
\* answered.
Registered(f) == f.pc \in {"read", "wait"}

NotifyAppend ==
  fetch' = [c \in Consumer |->
              IF Registered(fetch[c]) THEN [fetch[c] EXCEPT !.woken = TRUE] ELSE fetch[c]]

\* One round of the loop over the partitions, up to the release of the log.
ProduceAppend(c) ==
  /\ produce[c].pc = "append"
  /\ produce[c].data # <<>>
  /\ \E d \in {Head(produce[c].data)} :
       \/ /\ d.partition \notin Partition
          /\ produce' = [produce EXCEPT ![c].data = Tail(@)]
          /\ UNCHANGED logs
       \/ /\ d.partition \in Partition
          /\ \E outcome \in {AppendRecords(logs[d.partition], d.records)} :
               /\ logs' = [logs EXCEPT ![d.partition] = outcome.log]
               /\ produce' = [produce EXCEPT ![c].data = Tail(@),
                                ![c].pc = IF outcome.reply.appended THEN "notify" ELSE "append"]
  /\ UNCHANGED fetch

\* A slip: only an append to a partition that was empty is announced.
FaultyProduceNotify(c) ==
  /\ produce[c].pc = "notify"
  /\ IF \E p \in Partition : logs[p].next_offset = 0 THEN NotifyAppend ELSE UNCHANGED fetch
  /\ produce' = [produce EXCEPT ![c].pc = "append"]
  /\ UNCHANGED logs

ProduceNotify(c) ==
  /\ produce[c].pc = "notify"
  /\ NotifyAppend
  /\ produce' = [produce EXCEPT ![c].pc = "append"]
  /\ UNCHANGED logs

ProduceDone(c) ==
  /\ produce[c].pc = "append"
  /\ produce[c].data = <<>>
  /\ produce' = [produce EXCEPT ![c].pc = "idle"]
  /\ UNCHANGED <<logs, fetch>>

----------------------------------------------------------------------------
(* Fetch *)

ExceedsRequestLimit(bytes, records, r) ==
  bytes > 0 /\ bytes + SizeOf(records) > r.max

PartitionResponse(part, limit) ==
  IF part.partition \notin Partition
  THEN [error |-> "UnknownTopicOrPartition", records |-> <<>>, high_watermark |-> -1]
  ELSE FetchRecords(logs[part.partition], part.offset, limit)

\* The snapshot with one more partition read.
ReadPartition(snapshot, part, r) ==
  LET remaining == Max({0, r.max - snapshot.bytes})
      got  == PartitionResponse(part, Min({part.max, remaining}))
      kept == IF ExceedsRequestLimit(snapshot.bytes, got.records, r)
              THEN [got EXCEPT !.records = <<>>] ELSE got
  IN  [response |-> Append(snapshot.response, kept),
       bytes |-> snapshot.bytes + SizeOf(kept.records),
       valid |-> IF got.error = "None" THEN snapshot.valid + 1 ELSE snapshot.valid]

FetchStart(c, r) ==
  /\ fetch[c].pc \in {"idle", "done"}
  /\ fetch' = [fetch EXCEPT ![c] = [pc |-> "register", request |-> r,
                 snapshot |-> EmptySnapshot, woken |-> FALSE, left |-> r.wait]]
  /\ UNCHANGED <<logs, produce>>

\* notified_owned and enable, before the snapshot is taken.
FetchRegister(c) ==
  /\ fetch[c].pc = "register"
  /\ fetch' = [fetch EXCEPT ![c].pc = "read", ![c].snapshot = EmptySnapshot,
                            ![c].woken = FALSE]
  /\ UNCHANGED <<logs, produce>>

Read(f) == Len(f.snapshot.response)

FetchRead(c) ==
  /\ fetch[c].pc = "read"
  /\ Read(fetch[c]) < Len(fetch[c].request.parts)
  /\ fetch' = [fetch EXCEPT ![c].snapshot =
                 ReadPartition(@, fetch[c].request.parts[Read(fetch[c]) + 1],
                               fetch[c].request)]
  /\ UNCHANGED <<logs, produce>>

MayAnswer(f) ==
  \/ f.snapshot.bytes >= f.request.min
  \/ f.request.min = 0
  \/ f.request.wait = 0
  \/ f.snapshot.valid = 0
  \/ f.left = 0

\* A slip: the request registers only when it goes to sleep.
FaultyFetchDecide(c) ==
  /\ fetch[c].pc = "read"
  /\ Read(fetch[c]) = Len(fetch[c].request.parts)
  /\ fetch' = [fetch EXCEPT ![c].pc = IF MayAnswer(fetch[c]) THEN "done" ELSE "wait",
                            ![c].woken = FALSE]
  /\ UNCHANGED <<logs, produce>>

FetchDecide(c) ==
  /\ fetch[c].pc = "read"
  /\ Read(fetch[c]) = Len(fetch[c].request.parts)
  /\ fetch' = [fetch EXCEPT ![c].pc = IF MayAnswer(fetch[c]) THEN "done" ELSE "wait"]
  /\ UNCHANGED <<logs, produce>>

\* select!: a notification starts another round, the deadline ends the request
\* with the snapshot it has; when both are there, either may win.
FetchWake(c) ==
  /\ fetch[c].pc = "wait"
  /\ fetch[c].woken
  /\ fetch' = [fetch EXCEPT ![c].pc = "register"]
  /\ UNCHANGED <<logs, produce>>

FetchTimeout(c) ==
  /\ fetch[c].pc = "wait"
  /\ fetch[c].left = 0
  /\ fetch' = [fetch EXCEPT ![c].pc = "done"]
  /\ UNCHANGED <<logs, produce>>

Tick ==
  /\ \E c \in Consumer : fetch[c].left > 0
  /\ fetch' = [c \in Consumer |-> [fetch[c] EXCEPT !.left = Max({0, @ - 1})]]
  /\ UNCHANGED <<logs, produce>>

----------------------------------------------------------------------------
ProduceStep(c) == ProduceAppend(c) \/ ProduceNotify(c) \/ ProduceDone(c)

FetchStep(c) ==
  FetchRegister(c) \/ FetchRead(c) \/ FetchDecide(c) \/ FetchWake(c) \/ FetchTimeout(c)

PollNext ==
  \/ \E c \in Producer : ProduceStep(c) \/ \E r \in ProduceRequest : ProduceStart(c, r)
  \/ \E c \in Consumer : FetchStep(c) \/ \E r \in FetchRequest : FetchStart(c, r)
  \/ Tick

PollSpec == PollInit /\ [][PollNext]_poll_vars

\* The runtime polls every ready task.  That time passes is left to the
\* properties that need it.
TasksRun ==
  /\ \A c \in Producer : WF_poll_vars(ProduceStep(c))
  /\ \A c \in Consumer : WF_poll_vars(FetchStep(c))

FairSpec == PollSpec /\ TasksRun

----------------------------------------------------------------------------
(* Properties *)

\* Every variable has its type; a snapshot never holds more partitions than
\* the request names.
PollTypeOK ==
  /\ \A p \in Partition : Contiguous(logs[p])
  /\ \A c \in Producer :
       /\ produce[c].pc \in {"idle", "append", "notify"}
       /\ produce[c].made \in 0..MaxProduces
  /\ \A c \in Consumer :
       /\ fetch[c].pc \in {"idle", "register", "read", "wait", "done"}
       /\ fetch[c].request \in FetchRequest
       /\ fetch[c].woken \in BOOLEAN
       /\ fetch[c].left \in 0..fetch[c].request.wait
       /\ Read(fetch[c]) <= Len(fetch[c].request.parts)

\* What the request would get if it read all its partitions now.
SnapshotNow(r) ==
  LET upTo[n \in 0..Len(r.parts)] ==
        IF n = 0 THEN EmptySnapshot ELSE ReadPartition(upTo[n - 1], r.parts[n], r)
  IN  upTo[Len(r.parts)]

Complete(f) == f.pc \in {"wait", "done"}

\* A Fetch never sleeps through the append it waits for: if enough bytes are
\* there, it has been notified, or the producer that appended is about to.
NoLostAppend ==
  \A c \in Consumer :
    /\ fetch[c].pc = "wait"
    /\ ~fetch[c].woken
    /\ SnapshotNow(fetch[c].request).bytes >= fetch[c].request.min
    => \E p \in Producer : produce[p].pc = "notify"

\* Whatever was appended between the reads, the records answered for a
\* partition are a run of its log that starts with the batch that holds the
\* asked offset, below the high watermark answered with them.
AnswersAreRuns ==
  \A c \in Consumer :
    \A i \in 1..Read(fetch[c]) :
      LET part == fetch[c].request.parts[i]
          got  == fetch[c].snapshot.response[i]
      IN  got.records # <<>> =>
            /\ got.records[1].base_offset <= part.offset
            /\ part.offset <= got.records[1].last_offset
            /\ got.records[Len(got.records)].last_offset < got.high_watermark
            /\ \E from \in DOMAIN logs[part.partition].batches :
                 got.records = SubSeq(logs[part.partition].batches,
                                      from, from + Len(got.records) - 1)

\* A consumer is never stuck in front of a batch: an answer without records
\* means that there was none to give in any partition, however small the
\* limits are.
EmptyMeansCaughtUp ==
  \A c \in Consumer :
    Complete(fetch[c]) /\ fetch[c].snapshot.bytes = 0 =>
      \A i \in DOMAIN fetch[c].snapshot.response :
        fetch[c].snapshot.response[i].error = "None" =>
          fetch[c].snapshot.response[i].high_watermark = fetch[c].request.parts[i].offset

\* An answer exceeds the limit of the request only by a single first batch.
WithinRequestLimit ==
  \A c \in Consumer :
    \/ fetch[c].snapshot.bytes <= fetch[c].request.max
    \/ SumFunction([i \in 1..Read(fetch[c]) |-> Len(fetch[c].snapshot.response[i].records)]) = 1

\* What a Fetch has read fits its request and the logs: it consists of runs of
\* the logs, of no more bytes than asked for, save one batch, and of none only
\* when there were none.
AnswersFit == PollTypeOK /\ AnswersAreRuns /\ WithinRequestLimit /\ EmptyMeansCaughtUp

\* If time passes, every Fetch is answered, however often appends wake it in
\* vain (the loop of `response` in fetch.rs).
FetchAnswered ==
  WF_poll_vars(Tick) => \A c \in Consumer : fetch[c].pc = "register" ~> fetch[c].pc = "done"

\* A Fetch does not keep waiting while enough bytes are there, even if its
\* deadline never comes.
EnoughIsAnswered ==
  \A c \in Consumer :
    []<>~(/\ fetch[c].pc = "wait"
          /\ SnapshotNow(fetch[c].request).bytes >= fetch[c].request.min)

\* A Fetch is answered as soon as it can be and as late as it must be: by the
\* appends it waits for, and by its deadline.
FetchEnds == FetchAnswered /\ EnoughIsAnswered
=============================================================================
