------------------------- MODULE IdempotentProduce -------------------------
(***************************************************************************)
(* Idempotent production: clients that ask for a producer id, number their *)
(* sends and repeat those whose answer they miss, over connections that    *)
(* lose requests and answers and delay copies, against the Produce handler *)
(* (src/kafka/produce.rs), the producer ids                                *)
(* (src/broker/producers.rs) and one partition log.                        *)
(*                                                                         *)
(* The clients are the environment, as the Kafka protocol has them: a      *)
(* client keeps at most MaxInFlight sends unanswered and repeats a send    *)
(* unchanged.  A copy that the network delays is gone when the client is   *)
(* MaxDelay answered sends ahead of it.                                    *)
(***************************************************************************)
EXTENDS PartitionLog

CONSTANTS
  Client,         \* the idempotent producers
  Layout,         \* Layout[n]: the record counts of the batches of the n-th send
  Sends,          \* Sends[c]: bound on the sends of client c
  MaxProducerId,  \* i64::MAX
  MaxInFlight,    \* max.in.flight.requests.per.connection of the clients
  MaxDelay,       \* bound on the age of a delayed copy, in answered sends
  MaxPlain        \* bound on the batches without a producer id

\* The client of the producers without an id, and the id of a client that has
\* none yet.
NoId == 0

ASSUME ClientAssumption ==
  /\ NoId \notin Client
  /\ MaxProducerId \in Nat /\ MaxInFlight \in Nat \ {0} /\ MaxDelay \in Nat
\* Clients with idempotence keep at most five sends in flight.
ASSUME WindowAssumption == MaxInFlight <= RecentAppendLimit
ASSUME LayoutAssumption == Layout \in Seq(Seq(Nat \ {0}) \ {<<>>})
ASSUME SendsAssumption == Sends \in [Client -> 0..Len(Layout)]

RecordsIn(n) == SumFunction(Layout[n])

\* The records of the first n sends of a client.
RecordsUpTo(n) == SumFunctionOnSet([m \in DOMAIN Layout |-> RecordsIn(m)], 1..n)

\* The sends that can be on their way or in the retry history at one time lie
\* this close together.
Span == MaxInFlight + Max({MaxDelay, RecentAppendLimit - 1})

\* What a client must see to for its sequence numbers to mean anything: sends
\* so close together do not take a full turn of them, and those in flight not
\* half a turn.
ASSUME SpanAssumption ==
  \A a, b \in DOMAIN Layout :
    /\ a <= b /\ b - a < Span
         => RecordsUpTo(b) - RecordsUpTo(a - 1) < SequenceModulus
    /\ a <= b /\ b - a < MaxInFlight - 1
         => RecordsUpTo(b) - RecordsUpTo(a - 1) < SequenceModulus \div 2

VARIABLES
  next_id, epochs,  \* ProducerCoordinatorInner
  log,              \* the partition
  client,           \* client[c]: its id, how many sends it made, those unanswered
  wire,             \* wire[c]: the sends of which a copy is on its way
  confirmed         \* <<c, n, base offset>> of every send a client saw confirmed

vars == <<next_id, epochs, log, client, wire, confirmed>>

----------------------------------------------------------------------------
(* ProducerCoordinator *)

\* allocate: the next id, at epoch 0, unless the ids are exhausted.
Allocate ==
  /\ next_id + 1 <= MaxProducerId
  /\ next_id' = next_id + 1
  /\ epochs' = [p \in DOMAIN epochs \cup {next_id + 1} |->
                  IF p = next_id + 1 THEN 0 ELSE epochs[p]]

ValidateProducer(producer, epoch) ==
  IF producer \notin DOMAIN epochs THEN "UnknownProducerId"
  ELSE IF epochs[producer] # epoch THEN "InvalidProducerEpoch"
  ELSE "None"

----------------------------------------------------------------------------
(* produce_partition *)

ProducePartition(records) ==
  LET invalid == ValidateRecordSet(records)
      refused == IF invalid # "None" THEN invalid
                 ELSE IF records[1].producer = NoProducerId THEN "None"
                 ELSE ValidateProducer(records[1].producer, records[1].epoch)
  IN  IF refused # "None" THEN [log |-> log, reply |-> Refused(refused)]
      ELSE AppendRecords(log, records)

----------------------------------------------------------------------------
(* The clients *)

\* The record set of the n-th send of client c.
SendOf(c, n) ==
  [i \in DOMAIN Layout[n] |->
     [shape |-> "sound", producer |-> client[c].id, epoch |-> 0,
      sequence |-> (RecordsUpTo(n - 1) + SumFunctionOnSet(Layout[n], 1..(i - 1)))
                     % SequenceModulus,
      count |-> Layout[n][i], size |-> Layout[n][i], payload |-> "x",
      origin |-> <<c, n, i>>]]

Plain ==
  <<[shape |-> "sound", producer |-> NoProducerId, epoch |-> NoProducerEpoch,
     sequence |-> NoSequence, count |-> 1, size |-> 1, payload |-> "x",
     origin |-> <<NoId, 1, 1>>]>>

Oldest(c) == Min(client[c].unanswered \cup {client[c].sent + 1})

Init ==
  /\ next_id = 0
  /\ epochs = [p \in {} |-> 0]
  /\ log = NewLog
  /\ client = [c \in Client |-> [id |-> NoId, sent |-> 0, unanswered |-> {}]]
  /\ wire = [c \in Client |-> {}]
  /\ confirmed = {}

\* If the answer is lost, nobody ever uses the id.
InitProducerId(c) ==
  /\ client[c].id = NoId
  /\ Allocate
  /\ client' \in {client, [client EXCEPT ![c].id = next_id + 1]}
  /\ UNCHANGED <<log, wire, confirmed>>

Send(c) ==
  /\ client[c].id # NoId
  /\ client[c].sent < Sends[c]
  /\ client[c].sent + 1 - Oldest(c) < MaxInFlight
  /\ client' = [client EXCEPT ![c].sent = @ + 1, ![c].unanswered = @ \cup {client[c].sent + 1}]
  /\ wire' = [wire EXCEPT ![c] = @ \cup {client[c].sent + 1}]
  /\ UNCHANGED <<next_id, epochs, log, confirmed>>

\* A client that misses an answer repeats the send.
Resend(c, n) ==
  /\ n \in client[c].unanswered \ wire[c]
  /\ wire' = [wire EXCEPT ![c] = @ \cup {n}]
  /\ UNCHANGED <<next_id, epochs, log, client, confirmed>>

\* The broker handles a copy.  Another copy may stay behind, and the answer may
\* be lost.  A client takes a duplicate error for an answer, an error for a
\* sequence out of turn for a reason to repeat.
Deliver(c, n, another, lost) ==
  /\ n \in wire[c]
  /\ \E outcome \in {ProducePartition(SendOf(c, n))} :
       LET done == outcome.reply.error \in {"None", "DuplicateSequence"} /\ ~lost
       IN  /\ log' = outcome.log
           /\ client' = IF done THEN [client EXCEPT ![c].unanswered = @ \ {n}] ELSE client
           /\ confirmed' =
                IF outcome.reply.error = "None" /\ ~lost
                THEN confirmed \cup {<<c, n, outcome.reply.base_offset>>} ELSE confirmed
  /\ wire' = [wire EXCEPT ![c] =
                {m \in IF another THEN @ ELSE @ \ {n} : m >= Oldest(c)' - MaxDelay}]
  /\ UNCHANGED <<next_id, epochs>>

Lose(c) ==
  \E n \in wire[c] :
    /\ wire' = [wire EXCEPT ![c] = @ \ {n}]
    /\ UNCHANGED <<next_id, epochs, log, client, confirmed>>

\* A producer without idempotence, whose every repeat is stored.
ProducePlain ==
  /\ Cardinality({i \in DOMAIN log.batches : log.batches[i].origin[1] = NoId}) < MaxPlain
  /\ log' = ProducePartition(Plain).log
  /\ UNCHANGED <<next_id, epochs, client, wire, confirmed>>

\* Record sets that no correct client sends, built from the next send of c: of
\* two producers, with a gap inside, under another epoch or id, or damaged.
OddSends(c) ==
  LET n == client[c].sent + 1
      good == SendOf(c, n)
  IN  {<<>>}
      \cup {good \o SendOf(d, client[d].sent + 1) :
              d \in {e \in Client \ {c} : client[e].id # NoId /\ client[e].sent < Sends[e]}}
      \cup {good \o SendOf(c, n + 2) : x \in {y \in {1} : n + 2 <= Len(Layout)}}
      \cup {[good EXCEPT ![1].epoch = 1], [good EXCEPT ![1].epoch = NoProducerEpoch],
            [i \in DOMAIN good |-> [good[i] EXCEPT !.producer = next_id + 1]]}
      \cup {[good EXCEPT ![Len(good)].shape = shape] :
              shape \in {"torn", "magic", "transactional", "miscounted"}}

ProduceOdd(c) ==
  /\ client[c].id # NoId
  /\ client[c].sent < Sends[c]
  /\ \E records \in OddSends(c) : log' = ProducePartition(records).log
  /\ UNCHANGED <<next_id, epochs, client, wire, confirmed>>

Next ==
  \/ \E c \in Client :
       \/ InitProducerId(c) \/ Send(c) \/ Lose(c) \/ ProduceOdd(c)
       \/ \E n \in DOMAIN Layout :
            \/ Resend(c, n)
            \/ \E another, lost \in BOOLEAN : Deliver(c, n, another, lost)
  \/ ProducePlain

Spec == Init /\ [][Next]_vars

----------------------------------------------------------------------------
(* Properties *)

\* Every variable has its type.
TypeOK ==
  /\ next_id \in 0..MaxProducerId
  /\ epochs \in [1..next_id -> {0}]
  /\ log.next_offset \in 0..MaxOffset
  /\ \A p \in DOMAIN log.producers :
       /\ log.producers[p].next_sequence \in 0..(SequenceModulus - 1)
       /\ Len(log.producers[p].recent) \in 1..RecentAppendLimit
  /\ \A c \in Client :
       /\ client[c].id \in 0..next_id
       /\ client[c].unanswered \subseteq 1..client[c].sent
       /\ wire[c] \subseteq 1..client[c].sent

IsStored(c, n) == \E i \in DOMAIN log.batches : log.batches[i].origin = <<c, n, 1>>

OffsetOf(c, n) ==
  (CHOOSE b \in Range(log.batches) : b.origin = <<c, n, 1>>).base_offset

\* A client that repeats a stored send because its answer was lost is told the
\* original offset, whichever of its other sends were stored in between: the
\* history of RECENT_APPEND_LIMIT appends covers the sends in flight.
RetryGetsOriginalOffset ==
  \A c \in Client : \A n \in client[c].unanswered :
    IsStored(c, n) =>
      ProducePartition(SendOf(c, n)).reply =
        [error |-> "None", base_offset |-> OffsetOf(c, n),
         last_offset |-> OffsetOf(c, n) + RecordsIn(n) - 1, appended |-> FALSE]

\* The next send of a client is always accepted while there are offsets for it:
\* neither a wrapped sequence number, nor a retry, nor a refused record set
\* makes the partition refuse it or take it for one it has.
NextSendIsAccepted ==
  \A c \in Client :
    \A n \in 1..Sends[c] :
      /\ client[c].id # NoId
      /\ ~IsStored(c, n)
      /\ n > 1 => IsStored(c, n - 1)
      /\ log.next_offset + RecordsIn(n) <= MaxOffset
      => ProducePartition(SendOf(c, n)).reply.appended

\* The offset that a client was told is where its send is.
ConfirmedOffsetIsTrue ==
  \A x \in confirmed : IsStored(x[1], x[2]) /\ OffsetOf(x[1], x[2]) = x[3]

\* Two clients never share a producer id, also when an answer was lost.
IdsAreUnique ==
  \A c, d \in Client : client[c].id = client[d].id /\ client[c].id # NoId => c = d

\* Which sends are stored, batch by batch in the order of the log.
Origins(batches) ==
  LET upTo[i \in 0..Len(batches)] ==
        IF i = 0 THEN <<>>
        ELSE IF batches[i].origin[1] = NoId THEN upTo[i - 1]
        ELSE Append(upTo[i - 1], batches[i].origin)
  IN  upTo[Len(batches)]

\* The sends of every idempotent producer are stored whole, in order and
\* exactly once, whatever is lost, delayed or repeated (ExactlyOnceLog).
Promise == INSTANCE ExactlyOnceLog WITH
  entries <- Origins(log.batches),
  confirmed <- {<<x[1], x[2]>> : x \in confirmed}

ExactlyOnce == Promise!Spec

\* The log is in order and says what the clients were told: the stored batches
\* cover the offsets from 0 to next_offset, each exactly once, also after record
\* sets of several batches and refused ones; the offsets that clients were told
\* are where their sends are, and no two clients share a producer id.
LogInOrder == TypeOK /\ Contiguous(log) /\ ConfirmedOffsetIsTrue /\ IdsAreUnique
=============================================================================
