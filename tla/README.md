# MemKafka in TLA+

MemKafka is a single-process, in-memory broker that speaks the Kafka protocol
and serves a schema registry over HTTP. This directory models its stateful parts
and its wire format in TLA+, checks the models with TLC on small instances, and
proves the most important results with TLAPS for every instance.

Source paths in the modules are relative to the repository (`src/broker/...`);
`PROJECT.json` names the same files with the checkout's directory in front
(`src/src/broker/...`). Its `map` gives, for every definition that models code,
the lines it models.

## 1. The system

One Tokio runtime runs everything. `serve` binds the listeners and starts a task
for each; a Kafka listener starts a task for every connection; a connection
serves one request after the other. All connections share one `BrokerState`:

| Part | State | Operations | Guarded by |
|---|---|---|---|
| Consumer group (`broker/groups.rs`) | phase, generation, epoch, members with deadlines, leader, assignments, offsets; pending member ids | join, sync, heartbeat, leave, commit, describe; a deadline driver for each group | one mutex per group, a mutex for pending ids, `Notify` |
| Group registry (`broker/groups.rs`) | group id -> `Arc<Mutex<Group>>` | look up, look up or insert and spawn the driver | `RwLock` |
| Partition log (`broker/partition.rs`) | batches, next offset, sequence state of each producer with its last five appends | append, fetch, next offset | one mutex per partition |
| Producer ids (`broker/producers.rs`) | next id, epochs | allocate, validate | mutex |
| Topic catalogue (`broker/topics.rs`) | topics by name, names by id | get, list, create, get or create | `RwLock` |
| Append notification (`broker/mod.rs`) | waiting Fetch requests | notify, wait | `Notify` |
| Schema registry (`schema_registry.rs`) | schemas by text and id, versions by subject | register, reads | `RwLock` |
| Connection (`kafka/connection.rs`) | position in the stream | read, decode, route, dispatch, write | owned by its task |
| Wire format (`crates/kafka-protocol`, `kafka/codec.rs`) | none | encode, compute_size, decode of every message in every version | |
| Routing and responses (`kafka/request_router.rs`, `capabilities.rs`, `error_response.rs`, the handlers) | none of their own | look the version up, dispatch or reject, build a response that the version can say | |
| Server (`server.rs`) | listener and connection tasks, the shutdown channel | accept, drain, abort | owned by its tasks |

How they interact. A handler calls several of these objects one after the other
and holds no lock across two calls; everything that can go wrong between two
locks is therefore possible, and is what the models are about. JoinGroup and
SyncGroup sleep until the group changes or a deadline passes. Fetch sleeps until
something is appended or its time is up. Produce looks its topic up (and may
create it), validates the producer, appends, and only then notifies.

What is hard:

- *Interleavings.* Double-checked creation of topics and groups; flags read
  before a lock and used after it; an append and its notification; a sleeping
  request and the change it sleeps for.
- *Time.* Session and rebalance deadlines are enforced both by requests and by a
  driver; a fetch deadline races an append; a grace period races the drain.
- *Delivery.* Produce requests are lost, delayed, repeated and overtaken;
  clients pipeline requests; consumers return from an old generation.
- *Boundaries.* Sequence numbers wrap, the retry history has five entries, a
  byte limit is shared by partitions, pages end exactly at a topic's end, ids
  run out.
- *Versions.* A message has up to twenty versions, which differ in their fields
  and in how these are written. encode, compute_size and decode each decide
  again which fields a version has; handlers choose by hand what to set; a
  response that its version cannot say closes the connection after the request
  had its effect.
- *Partial failure.* A listener fails, a handler is dropped half-way at
  shutdown, one topic or one batch of a request is refused.

`PROJECT.json` lists these under `hazards`, each at the line where it bites and
with the properties that would notice.

What makes each part correct:

- a group: its phase, members, leader and plan fit together; a generation has
  one membership and one plan; old generations cannot commit; nobody waits for
  ever unless newcomers keep coming, and silent members are removed;
- a log: contiguous offsets; each send of an idempotent producer stored once, in
  order, at the offset that the producer is told;
- a fetch: an unbroken run of the log, within the limits, never stuck, never
  asleep while enough is there;
- the catalogue: topics never change once created, and both indexes agree;
- the schema registry: ids and versions are valid for ever;
- a connection: effects and answers in the order of the requests;
- an exchange: what is read is what was written, damage is noticed, every
  answer but that with a new member id can be written, answers are about what was
  asked, a rejection is seen as one, and what is advertised is what is served;
- the server: every task ends and every error is reported.

## 2. The modules

| Module | Models | Composes |
|---|---|---|
| `Group` | the functions of `groups.rs` that run under a group's mutex, as operators on a record | |
| `GroupCoordinator` | the requests, the driver and the clock, interleaved at the mutexes | `Group` |
| `ConsumerGroup` | abstract: what a group promises its clients | |
| `GroupRegistry` | how requests come by a group object | |
| `PartitionLog` | append and fetch, as operators on a record | |
| `IdempotentProduce` | producers, an unreliable network, InitProducerId and Produce | `PartitionLog` |
| `ExactlyOnceLog` | abstract: the sends of each client, once and in order | |
| `LongPoll` | Produce and Fetch over several partitions, with the notification and the clock | `PartitionLog` |
| `Topics` | the functions of `topics.rs` that run under its lock | |
| `TopicCatalog` | Metadata, Produce's topic lookup and CreateTopics, interleaved at the lock | `Topics` |
| `TopicPages` | DescribeTopicPartitions, page after page, while topics are created | `Topics` |
| `SchemaRegistry` | register and the reads | |
| `Connection` | one connection's loop, from bytes to response | |
| `Server` | listener and connection tasks, shutdown, grace period and abort | |
| `WireCodec` | the types of `protocol/types.rs`, and encode, compute_size and decode as `protocol_codegen` generates them, as operators on the schema of a struct | |
| `MsgData`, `MsgGroups`, `MsgNextGroups`, `MsgShare`, `MsgTopics`, `MsgAdmin`, `MsgCluster` | the schemas: one definition for each struct of `messages/*.rs` | `WireCodec` |
| `ApiKeys` | `messages.rs`: API keys, which struct belongs to which, valid versions, header versions | `Msg*` |
| `RequestRouter` | `codec.rs`, `capabilities.rs`, `request_router.rs`: from bytes to a decision | `ApiKeys` |
| `ErrorResponse` | `error_response.rs`: the rejections | `RequestRouter` |
| `TopicHandlers` | the responses of the handlers for topics and records | `ErrorResponse` |
| `Dispatcher` | the responses of the other handlers, and `dispatcher.rs` | `TopicHandlers` |
| `Exchange` | one exchange between a client and the broker, bytes included; and any other message between two peers | `Dispatcher` |

`MC*.tla` and `*.cfg` are the instances for TLC. `*Proofs.tla` hold the theorems.

Conventions. What the code does under one lock is one step (or an operator that
a step applies); each further acquisition is a step of its own. A task that may
be between two locks has a record with `pc` and its local variables. An
`Instant` is the time left until it, 0 once it has come, and `Tick` counts all
of them down; nothing says that a task whose timer is due runs before more time
passes. A definition called `Faulty...` is a slip that the code avoids; nothing
uses it except the mutants of `PROJECT.json`, each of which shows that a
property notices that slip.

### Groups

`group` is the `Group` struct. Each `fn f(group: &mut Group, ..)` is an operator
from record to record: `BeginRebalance`, `CompleteRebalanceIfReady`,
`ExpireStaleMembers`, `TransitionAfterRemoval` and so on. In `GroupCoordinator`
a JoinGroup is four steps (pending ids; membership; the join under the group's
mutex; removal of the pending id) followed by sleeping and polling; SyncGroup is
one step and sleeping; Heartbeat, LeaveGroup, OffsetCommit and DescribeGroups
are one step each. `Unlock` is the release of the mutex, with the wake-up of
everyone who was waiting if `notify_waiters` was called. The driver is a process
like any other. A member's data (timeouts, protocols) is a `Profile`, assignment
bytes are a `Plan`. `allocate_member_id` has a counter that does not run out; the
model has finitely many ids and gives out again those that nothing refers to any
more (`NewIds`), so that newcomers do not run out either.

The model starts with the group in the map. `GroupRegistry` shows that this is
sound: all requests for a group id meet in one object, which has one driver.

### Produce and fetch

A batch is a record with the header fields that the code reads, its size, and a
value for its bytes. `AppendRecords` is `append` with all its refusals in
order; `FetchRecords` is `fetch`. `IdempotentProduce` takes the clients from the
Kafka protocol (external): they number their sends, repeat a send unchanged, and
keep at most `MaxInFlight` unanswered. The handler is a step of `Deliver`; the
answer may be lost, and the request may stay on the wire to arrive again.

`LongPoll` splits a Produce between partitions and between append and
notification, and a Fetch between `enable`, the read of each partition, the
decision and the sleep.

### The wire

All generated codecs have one shape, which the fields of a struct determine:
`generate.rs` writes it, and the 190 files under `messages/` are its results. A
module for each would repeat that shape hundreds of times, so `WireCodec` has it
once, as `Encode`, `ComputeSize`, `Bails` and `Decode` of a schema, and a struct
is its schema: for each field the name, the type (by version, where the code
asks for the version to choose compact or plain), the versions that have it, the
tag if it is a tagged field, its default, and what happens if it is set in a
version that does not have it. The schemas are taken from the Rust files, field
by field in the order in which encode writes them, and not from the JSON
descriptions.

In `Exchange` a client writes a request of some API and version (`WriteRequest`),
the network may damage it (`Damage`), the broker decodes the frame
(`ReceiveFrame`), and dispatches, rejects or drops it (`ServeRequest`,
`RejectRequest`, `DropRequest`); the client reads the response
(`ReadResponse`). A frame above `MAX_FRAME_SIZE` is neither read nor written, and a
response that cannot be encoded is not written either; both close the connection
(stages `too large` and `unwritable`). A handler is the set of all responses that it can build for a
request, with the outcomes of groups, logs and catalogue left open: those are
the subject of the other modules. Messages that the broker does not use
(headers, and the requests and responses of the other APIs) go from one peer
to another (`WriteMessage`, `ReadMessage`).

### Topics, schemas, connections, server

`TopicCatalog` has a step for each acquisition of the catalogue's lock: the look
and the insertion of `get_or_auto_create`, each lookup of Metadata,
`create_explicit`; `config` holds the two settings about automatic creation, in
all four combinations. `TopicPages` keeps the order of names, because cursors
depend on it: `names` is the code's `BTreeSet`, visited from its least name on.
`SchemaRegistry` has one step for each way through `register`, and the reads are
operators. `Connection` tells frames apart by length, key,
version, whether they decode, and acks. `Server` has the main task's `select!`,
drain, timeout and abort; listener tasks; connections; and the schema registry's
HTTP server, whose open connections may keep it from ending. Writing a response
may fail at any time (`WriteFails`): the peer is gone, or the response cannot be
encoded or is too large. With an empty list of listeners `Bind` can only fail.

## 3. The runs

| Run | Shows |
|---|---|
| `group_safety` | Two members with different timeouts and preferences, one of which may share no protocol with the other and the other be of another protocol type; two connections: phase, membership, leader and plan fit; everyone in a generation was told the same; no wake-up is lost; the driver is never late; pending ids are consumed; one plan per generation; members share a protocol; sleeping members are not expired; and the coordinator implements `ConsumerGroup`, where one plan covers a generation and only the current generation commits. |
| `group_liveness` | Every JoinGroup and SyncGroup is answered, unless newcomers put the deadline of a rebalance off for ever; once all clients are silent, the deadlines alone empty the group. |
| `group_registry` | Three connections race to create two groups: one object and one driver each. |
| `produce_exactly_once` | Two producers, sends of several batches, loss, delay and repetition, numbers that wrap: implements `ExactlyOnceLog`; retries get the original offset; the next send is never refused; offsets have no gap, confirmed offsets are true, and ids are unique. |
| `fetch` | Two producers, a consumer of two partitions with tight limits: no append is slept through; answers are runs of the log within the limits, and an empty one means there was nothing; if time passes, every Fetch is answered, and without the clock's help none keeps waiting while enough is there. |
| `topics_safety` | Three connections race Metadata, Produce and CreateTopics: indexes agree, no topic is replaced, responses stay true, a request that may create finds, one answer per name; with `auto_create_topics` off, only CreateTopics creates, also when forcing is on. |
| `topic_pages` | A listing by cursors returns every partition that was there at its start once, and ends. |
| `schemas_safety` | Ids and versions agree and are what every read returns, for ever; at the end of the id space nothing is half-stored. |
| `server_shutdown` | serve returns, leaves no task, and reports errors; the Kafka listeners drain without the abort. |
| `connection` | Up to three pipelined frames of every kind: effects and answers once and in order; the connection closes after the end of the stream. |
| `wire_exchange` | Every request and response of every API, and every other message, in every version of its schema and one beyond: what is read is what was written, as far as the version can say it, and of the size that was computed; a damaged frame is never served; no answer of any handler, and no rejection, fails to encode, except for a new member id that is too long; a rejected client sees UNSUPPORTED_VERSION, once for all of its request or at each thing that it asked about; answers are about what was asked, those to DescribeTopicPartitions and rejections included; and exactly the versions that ApiVersions lists reach a handler. |
| `rejected_metadata` | A counterexample, see below. |

Where a property is a conjunction (`LogInOrder`, `AnswersFit`, `ResponsesFit`,
`ListedOnce`, `StoreAgrees`, `StopsClean`, `InOrder`), its first conjunct is the
type invariant of the module and the others are defined and explained one by
one. The type invariant of `GroupCoordinator` is in no run; it is proved
(`TypeCorrect`).

One run shows a disagreement between the code and its documentation. The design
of the protocol foundation (`docs/2026-08-30-kafka-4.3-protocol-foundation-design.md:240`)
says that "every schema-known adjacent unsupported version returns a decodable
`UNSUPPORTED_VERSION` response". `AdjacentRejectionSaysSo` says so of every request
that asks about anything, and TLC finds a Metadata request of version 3 for all
topics (`rejected_metadata`). `unsupported_metadata` puts the code at each topic
that the request names, of which there is none, and at the response as a whole,
where only versions from 13 on write it. The client reads a response without
brokers, topics or error. `RejectionIsTold`, which holds, therefore asks for one
code for everything or for one at each thing that the request names.

### Bounds, and why they are enough

- *Groups.* For safety, two members, two connections, epochs up to 2. Two
  members are needed for a leader and a follower, and for one to expire while the
  other waits; two connections for a request that overtakes another of the same
  member. `MaxEpoch` bounds the rebalances that JoinGroups start (`MayJoin`), not
  the group: removals still raise the epoch, and newcomers may join the last
  rebalance as often as they like. Timeouts of 1 and 2 ticks distinguish "due",
  "not yet due" and "extended". 706 258 states. The proofs lift all these bounds
  for the invariants that they cover.
- *Groups, liveness.* Three ids: a member that does not rejoin, one whose
  JoinGroup waits for it, and a newcomer that comes, extends the deadline, leaves
  and comes again under another name, for ever. A rebalance timeout of 2 ticks, so
  that there is time for this between two deadlines. Requests that do no more to
  the membership than the driver does are left out (`LiveRequest`). 235 124 states.
- *Produce.* The retry history is two instead of five, and as long as the sends
  in flight, so that it overflows; the sequence modulus is 6 instead of 2^31, so
  that numbers wrap within five sends. Two facts about real clients are assumed:
  at most `RECENT_APPEND_LIMIT` sends are unanswered, and a copy is not delayed
  for so long that the numbers have come round again (`MaxDelay`).
- *Fetch.* Two partitions, sizes of one and two bytes against limits of one to
  four: the first batch that exceeds the limit, the second that no longer fits,
  and the exact fit all occur. Each producer produces once
  (`MaxProduces`): one append before the Fetch registers or while it reads, and
  one while it sleeps.
- *Topics.* Two valid names with an id each and an invalid one, three
  connections: two that race, and one that observes.
- *Pages.* Topics of one or three partitions against limits 0, 2 and 3: pages
  that end inside a topic, at its end, and at the end of the listing.
- *Schemas.* One schema more than there are ids. Finite without a bound.
- *Server.* Two listeners, the registry, two connections at a time. Finite
  without a bound. *Connection.* Three frames (`MaxFrames`): one in progress,
  one before and one after.

- *Wire.* For every message and version, a message with all fields at their
  defaults and one with all of them set; then each field in turn, in both, with
  the values at the ends of its type: extreme integers, no bytes, one byte, 127
  bytes (whose compact length needs two), null, no item, one item of every such
  kind, two equal items, a filled and an empty one; and an unknown tagged field. An encoder and a decoder treat
  fields one after the other and independently of each other, except for the
  count of a tag buffer, which all-set, none-set and one-set messages vary.
  Damage is the loss of the last byte, the loss of the second half, or a byte
  more. Clients of JoinGroup have a name, none, or one of 32 765 bytes, which a
  number of one digit makes an id of the longest string and one of two digits an
  id that is too long. `MAX_FRAME_SIZE` is 32 900 instead of 100 MiB, so that
  both a string and a frame that are too long occur. 448 129 states.

Symmetry is used for connections and for values that are only compared; never
in a run with a liveness property.

Deadlock is not checked where the system may rightly stop: when the server has
stopped, a connection is closed, or all sends are answered.

### Fairness

- Weak fairness of every task's step: the Tokio runtime polls every task that
  is ready. This includes the steps after a wake-up and the deadline driver.
- Weak fairness of `Tick` in the group: time passes. In `LongPoll` it is a
  premise of the first half of `FetchEnds` only (`FetchAnswered`); the second,
  `EnoughIsAnswered`, does without.
- Clients owe nothing: no request is ever assumed to come, and none of the
  failures is assumed to happen or not to happen. That clients fall silent is a
  premise of `SilentMembersReclaimed`.
- `RequestsAnswered` has as its premise that from some time on no newcomer puts the
  deadline of a rebalance off (`DeadlinePutOff`). The code does not ensure this:
  each new member extends the deadline (`extend_rebalance_deadline`), and until then
  a member that does not rejoin is not expired. Without the premise TLC finds the
  newcomers that keep a waiting JoinGroup waiting for ever.
- In `group_liveness` weak fairness is written with the conditions under which a
  task can run (`LiveFairness`) instead of ENABLED, which TLC evaluates slowly.
- `Connection` assumes that its handler makes progress, which is what the
  liveness properties of groups and fetches show of the handlers that wait.
- The first half of `ShutdownEnds`, `ServeReturns`, has the end of the grace
  period as its premise, and not that HTTP connections end; the second,
  `DrainsAlone`, has it the other way round.

## 4. The theorems

All proofs are for arbitrary constants that satisfy the named assumptions of the
modules (finitely many member ids, timeouts in `Nat`, non-empty protocol lists,
`NotFound` and `NoGroup` distinct from real values, and the like). TLC evaluates
them in the runs of those modules. Those that say more than a type are named
below.

**Groups** (`GroupCoordinatorProofs`). The inductive invariant is

    IInv == TypeOK /\ GroupOK(group) /\ \A c \in Connection : Carries(task[c])

`GroupOK` collects what the functions of `groups.rs` rely on of a group whose
mutex they take: phase, members and plan fit, joins of a formed generation
agree, a rebalance has a deadline, protocols are shared. None of these is
inductive alone: that joins agree rests on phase and membership changing
together, that a rebalance is timed on the leader being a member. `Carries` says
that a task past its first step has a member and a profile. The first half of the
module shows for each operator of `Group` that it takes a `GroupOK` group to a
`GroupOK` group; the second composes these along each request, one lemma per
action, and concludes `TypeCorrect`, `PhaseAlwaysConsistent`,
`GenerationAlwaysAgreed`, `RebalanceAlwaysTimed`, `ProtocolAlwaysShared`, and
`Refinement`: the coordinator implements `ConsumerGroup`, with the phase, the
generation, the set of members and the assignments as its refinement mapping.

**Waiting in groups** (`GroupMemberProofs`): `WakeupsAreNeverLost`,
`DriverIsNeverLate` and `SleepersAreNeverExpired`. The first two rest on one
relation between the group before and after a critical section (`Continues`):
either `notify_waiters` was called, or nothing that a waiter looks at has
changed (`Undisturbed`: phase, generation, epoch and leader are the same, no
member is gone, no deadline has come nearer). It is reflexive and transitive,
and holds of each function of `groups.rs`; so it holds of each action, and
releasing the mutex then keeps

    WInv == IInv /\ WaitsOK

where `WaitsOK` says of every sleeper what `NoLostWakeup` says, of the driver what
`DriverNeverLate` says, and two things without which neither is inductive: a
session never has more time left than the member's timeout (so a heartbeat
cannot bring a deadline nearer), and a JoinGroup that was accepted is
counted as joined as long as its epoch lasts (so that the step between the two
critical sections of a join cannot lose it). That sleepers are not expired
follows from `WInv` and from which members a step may remove (`NextMembers`).

**Ids and plans** (also `GroupMemberProofs`): `PendingIsAlwaysConsumed` and
`OnePlanInEveryGeneration`. The first is inductive together with `IInv`: a new id is
one that no member and no task has, and the step that adds a member leaves its
task at the removal of the pending id. The second adds `PlanInv`: nothing
was delivered while a generation waits for its plan, and what was delivered in a
stable one is what is assigned.

**The log** (`LogProofs`). Lemmas about `PartitionLog` that the next two parts
share: how a sum over batches grows, which remainders differ, that an accepted
record set leaves the log contiguous and its batches where they were. The
community modules define sums by recursion over a set. What such a function
computes is shown by induction over finite sets, with the property as a set of
sets (`FiniteInduction`) or of numbers (`InductionOverNat`), because the provers
cannot instantiate the library's rules, which have an operator parameter.

**Idempotent production** (`SendProofs`, `ProduceProofs`): `LogAlwaysInOrder`,
`RetriesGetOriginalOffset`, `NextSendsAreAccepted`, and
`SendsAreStoredExactlyOnce`, the refinement of `ExactlyOnceLog` with the origins
of the stored batches as its entries. The inductive invariant is `ProduceInv`. At
its heart is `Progress`: of each client the first `k` sends are stored, nothing
else, and every answered send is among them; the partition's state of the
producer is exactly `StateAfter(c, k)`, which expects send `k + 1` and remembers
the last `RecentAppendLimit` sends with their offsets. The properties alone do
not fix that state, and the induction needs it. `ClientInv` bounds how old a copy on the wire
can be. A delivered copy is then one of four: the next send, which is stored
(`NextSendOutcome`); one in the history, which gets its old offset
(`RepeatedSendOutcome`); an older one, refused as a duplicate
(`OldSendOutcome`); or one ahead of its turn, refused as out of order
(`EarlySendOutcome`). Only the first changes the log. Record sets that no
correct client sends are refused (`OddSendsAreRefused`).

What is assumed of clients, beyond types: at most `RecentAppendLimit` sends are
in flight (`WindowAssumption`; Kafka clients refuse more with idempotence on);
and sends that can meet on the wire or in the history span less than one turn of
the sequence numbers, those in flight less than half a turn (`SpanAssumption`).
How many sends that are, `Span`, follows from the window, from the history and
from `MaxDelay`, how far behind the oldest unanswered send a copy on the wire may
be. With the code's 2^31 sequence numbers, a window of five and a `MaxDelay` of at
most four, `Span` is nine, and sends of up to two hundred million records each
satisfy the assumption. Something like it is needed:
`classify_sequence_mismatch` tells old from early by half a turn, and the history
compares first sequence numbers.

**The long poll** (`LongPollProofs`): `AppendsAreNotLost` and
`AnswersAlwaysFit`. In `PollInv`, `UpToDate` says more than `NoLostAppend`: from
the moment a Fetch has registered, as long as it is not notified, what it has
read is what it would read now, unless some producer has appended and is yet to
notify. It holds at every step of the reading and not only asleep, which is what
makes it inductive: the snapshot of the partitions read so far is compared with
the function of `SnapshotNow` at the same index. `SnapshotFits` says what
`AnswersFit` says of a snapshot while it is still growing; that logs only grow
keeps it true of what was read earlier. Two facts about batches matter: a batch
that passes `validate_record_set` has at least one record and at least one byte
(`RecordSet`; the code refuses less than 61 bytes and counts below 1). Limits and
waits are natural numbers: a request's negative ones count as 0 in the code.

**Server** (`ServiceProofs`): `AlwaysStopsClean`. The invariant adds who owns a
connection, which tasks are joined or aborted in which phase of `serve`, that
only aborted tasks are cancelled, that a listener which ended well has drained
its connections, and that an error once joined is kept.

**Connection** (also `ServiceProofs`): `AlwaysInOrder`. The invariant adds that the
request in progress is the last one read, that it is neither answered nor,
before dispatch, in effect, and that no frame before it was an error.

**Group registry** (also `ServiceProofs`): `AlwaysOneObjectPerGroup` and
`AlwaysOneDriverPerObject`. Inductive together with the types and with the fact
that a request past its look carries a group id. The step that matters is the
insertion: the number of the new object is not in use, and nobody holds an
object for a group id that the map does not have.

**Topic catalogue** (`TopicCatalogProofs`): `IndexAlwaysAgrees`,
`AnswersAreAlwaysTrue`, `TopicsAreAlwaysForever`,
`AlwaysOnlyExplicitlyCreated` and `ResponsesAlwaysFit`. The key lemma is that `insert_topic` with a new
name and a new id keeps the indexes inverse and all topics as they were; every
path to it has looked under the same lock that it inserts under. That answers
stay true follows from topics being for ever. For `AlwaysOnlyExplicitlyCreated`
the invariant adds that with `auto_create_topics` off no task is on its way to an
insertion. For `ResponsesAlwaysFit`, `FitInv` adds how far each request has come: a request that may
create topics has in the catalogue every valid name it is past, and answers are
only about topics that were reached. Since topics stay, its second loop finds
what its first one created, and `seen` leaves one answer for a name.

**Schema registry** (also `ServiceProofs`): `StoreAlwaysAgrees`,
`ReadsAlwaysReturnTold`, and two that no run needs to check besides:
`ToldAlwaysAgrees` and `StoreAlwaysOnlyGrows`. The invariant adds to the types
and the two agreements that whatever a client was told is stored at its version;
the reads then find it, because no other version of the subject has the same
schema or number.

**Topic pages** (also `ServiceProofs`): `PagesListOnce`, for any set of names that
are natural numbers (so that a set of them has a least one), any limits and any
first cursors, negative ones included. `PagesInv` says where a listing stands in
the order of topics and partitions. Inside a page, everything returned comes before
every name still to be visited, at the partition where that name would start, and
everything promised and not yet returned belongs to a name still to be visited.
Between two pages the cursor parts the two in the same way. A topic that is created
meanwhile can only add names, and what was promised stays in the catalogue. The
lemma that carries the weight is `ReturnMore`: partitions appended from the
position on were not returned before.

**Only model-checked.** All liveness properties, because the prover does not
handle fairness: those of groups, of `FetchEnds`, `ListingEnds`,
`ClosedAfterEof` and `ShutdownEnds`. The wire format: its codecs are recursive
operators over schemas and bytes, which the prover does not accept; this leaves
the invariants of `Exchange` to TLC.

## 5. What is not modelled

- Of the wire format: the UTF-8 check of strings (the models' strings are
  ASCII), lengths beyond 2^31, the overflow of a varint of five bytes, and
  record batches (`records.rs`), with their compression and checksums.
- Record batch parsing in the broker: a batch is sound or fails in one of the
  ways that `validate_record_set` tells apart.
- The generator `protocol_codegen` as a program: what it writes is modelled, not
  how it reads JSON.
- Which of the possible outcomes a handler's response has is not connected to the
  state of groups, logs and catalogue in `Exchange`; which partitions a page holds
  is in `TopicPages` only.
- Which characters make a topic name valid, and what makes an Avro schema valid:
  constant sets.
- Saturation of generation and epoch at the end of their integer types.
- The values of committed offsets: `GroupCoordinator` keeps the generation of the
  last commit, and the response of OffsetFetch has any offset.
- Configuration, logging, the entry point, benchmarks and examples.
- Crash recovery: nothing is persisted.

## 6. Plan

Done, in this order: groups with their abstract specification and proofs;
produce and fetch; topics and pages; schema registry; group registry; server and
connection; proofs of the registries and the catalogue; the wire format, routing
and responses; proofs of waiting in groups, of the server and of the connection;
proofs of idempotent production, of the long poll, of the catalogue's responses
and of its pages.

Next:

1. Committed offsets as data: OffsetCommit of several partitions and
   OffsetFetch, so that a consumer's restart position is covered, composed with
   `ConsumerGroup`.
2. A composition of `TopicCatalog` and `LongPoll`: a Fetch that waits on a topic
   which is created meanwhile.
3. `Server` together with `Connection`, so that the abort of a listener and the
   request in progress are one model.
4. Record batches: the header that the broker reads, byte by byte.
5. A theorem that `PartitionLog` in `LongPoll` keeps the promises shown for one
   producer in `IdempotentProduce`.
