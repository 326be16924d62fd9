---------------------------- MODULE TopicCatalog ----------------------------
(***************************************************************************)
(* Requests that look topics up and create them, concurrently: Metadata    *)
(* (src/kafka/metadata.rs), the topics of a Produce request                *)
(* (src/kafka/produce.rs) and CreateTopics                                 *)
(* (src/kafka/create_topics.rs).  Every step below takes the lock of       *)
(* the catalogue at most once.  Automatic creation looks under the read    *)
(* lock, releases it, and looks again under the write lock; Metadata       *)
(* creates all its topics first and reads them back one by one.            *)
(***************************************************************************)
EXTENDS Topics, Sequences

CONSTANTS
  Connection,
  NoName, NilId,          \* a null name, the nil UUID
  MetadataRequest,        \* [version, all, allow, topics : Seq([name, id])]
  ProduceTopic,           \* [name, partition]
  CreatableTopic          \* [name, partitions, replication, error, validate_only]

ASSUME NoNameAssumption == NoName \notin Name /\ NilId \notin TopicId

\* A topic of a Metadata request: a name or none, an id or the nil UUID.
RequestedTopic == [name : Name \cup {NoName}, id : TopicId \cup {NilId}]

ASSUME RequestAssumption ==
  /\ \A r \in MetadataRequest : r.topics \in Seq(RequestedTopic)
  /\ \A r \in CreatableTopic : r.partitions \in Int

VARIABLES
  config,   \* what the broker was started with
  catalog,  \* CatalogState
  task      \* task[c]: the request that connection c is serving

vars == <<config, catalog, task>>

Idle == [pc |-> "idle", topics |-> <<>>, i |-> 1, partition |-> 0,
         auto |-> FALSE, answers |-> {}]

\* The two settings of the configuration that decide about automatic creation.
Config == [auto_create_topics : BOOLEAN, force_auto_create_topics : BOOLEAN]

Init ==
  /\ config \in Config
  /\ catalog = NewCatalog
  /\ task = [c \in Connection |-> Idle]

AutoCreateTopics == config.auto_create_topics

ForceAutoCreateTopics == config.force_auto_create_topics

\* The topic that the loop of the task has reached.
Current(c) == task[c].topics[task[c].i]

AtEnd(c) == task[c].i > Len(task[c].topics)

\* A connection serves one request after the other.
Free(c) == task[c].pc \in {"idle", "answered"}

Answered(answers, auto) ==
  [Idle EXCEPT !.pc = "answered", !.answers = answers, !.auto = auto]

SuccessTopic(name) ==
  [error |-> "None", name |-> name, id |-> catalog.topics[name].id,
   partitions |-> catalog.topics[name].partitions]

ErrorTopic(error, name, id) ==
  [error |-> error, name |-> name, id |-> id, partitions |-> 0]

----------------------------------------------------------------------------
(* Metadata *)

Elements(topics) == {topics[i] : i \in DOMAIN topics}

HasId(r) == \E t \in Elements(r.topics) : t.id # NilId

HasNull(r) == \E t \in Elements(r.topics) : t.name = NoName

RequestError(r) ==
  CASE ~r.all /\ r.version \in 10..11 /\ (HasId(r) \/ HasNull(r)) -> "InvalidRequest"
    [] ~r.all /\ r.version >= 12 /\ ~HasId(r) /\ HasNull(r) -> "UnknownServerError"
    [] OTHER -> "None"

\* A slip: forcing does not need the permission of auto_create_topics.
FaultyAllowAutoCreate(r) == (AutoCreateTopics /\ r.allow) \/ ForceAutoCreateTopics

AllowAutoCreate(r) == AutoCreateTopics /\ (r.allow \/ ForceAutoCreateTopics)

UuidMode(r) == r.version >= 12 /\ HasId(r)

MetadataRefused(c, r) ==
  /\ Free(c)
  /\ RequestError(r) # "None"
  /\ task' = [task EXCEPT ![c] =
                Answered({ErrorTopic(RequestError(r), t.name, t.id)
                            : t \in Elements(r.topics)}, FALSE)]
  /\ UNCHANGED <<config, catalog>>

MetadataAll(c, r) ==
  /\ Free(c)
  /\ r.all
  /\ task' = [task EXCEPT ![c] =
                Answered({SuccessTopic(n) : n \in DOMAIN catalog.topics}, FALSE)]
  /\ UNCHANGED <<config, catalog>>

MetadataStart(c, r) ==
  /\ Free(c)
  /\ ~r.all
  /\ RequestError(r) = "None"
  /\ task' = [task EXCEPT ![c] =
                [Idle EXCEPT !.pc = IF UuidMode(r) THEN "by_id"
                                    ELSE IF AllowAutoCreate(r) THEN "create"
                                    ELSE "by_name",
                             !.topics = r.topics,
                             !.auto = ~UuidMode(r) /\ AllowAutoCreate(r)]]
  /\ UNCHANGED <<config, catalog>>

\* A slip: a name that is not valid ends the loop.
FaultyCreateLook(c) ==
  /\ task[c].pc = "create"
  /\ ~AtEnd(c)
  /\ task' = [task EXCEPT ![c] =
                CASE Current(c).name \notin ValidName -> [@ EXCEPT !.pc = "by_name", !.i = 1]
                  [] Found(catalog, Current(c).name) -> [@ EXCEPT !.i = task[c].i + 1]
                  [] OTHER -> [@ EXCEPT !.pc = "insert"]]
  /\ UNCHANGED <<config, catalog>>

\* topics_for_request: get_or_auto_create, up to the release of the read lock.
CreateLook(c) ==
  /\ task[c].pc = "create"
  /\ ~AtEnd(c)
  /\ task' = [task EXCEPT ![c] =
                IF Current(c).name \in ValidName /\ ~Exists(catalog, Current(c).name)
                THEN [@ EXCEPT !.pc = "insert"]
                ELSE [@ EXCEPT !.i = task[c].i + 1]]
  /\ UNCHANGED <<config, catalog>>

CreateDone(c) ==
  /\ task[c].pc = "create"
  /\ AtEnd(c)
  /\ task' = [task EXCEPT ![c] = [@ EXCEPT !.pc = "by_name", !.i = 1]]
  /\ UNCHANGED <<config, catalog>>

\* A slip: the name is created without a second look.
FaultyInsertIfAbsent(name) ==
  \E id \in FreshIds(catalog) :
    catalog' = InsertTopic(catalog, name, DefaultPartitions, id)

\* get_or_auto_create, under the write lock.
InsertIfAbsent(name) ==
  \/ Exists(catalog, name) /\ UNCHANGED catalog
  \/ /\ ~Exists(catalog, name)
     /\ \E id \in FreshIds(catalog) :
          catalog' = InsertTopic(catalog, name, DefaultPartitions, id)

CreateInsert(c) ==
  /\ task[c].pc = "insert"
  /\ InsertIfAbsent(Current(c).name)
  /\ task' = [task EXCEPT ![c] = [@ EXCEPT !.pc = "create", !.i = task[c].i + 1]]
  /\ UNCHANGED config

\* An earlier topic of the request has the same name, or the same id.
Repeated(c, field) ==
  \E j \in 1..(task[c].i - 1) : task[c].topics[j][field] = Current(c)[field]

TopicByName(name) ==
  CASE name = NoName -> ErrorTopic("InvalidTopicException", NoName, NilId)
    [] Found(catalog, name) -> SuccessTopic(name)
    [] name \in ValidName /\ ~Exists(catalog, name)
         -> ErrorTopic("UnknownTopicOrPartition", name, NilId)
    [] OTHER -> ErrorTopic("InvalidTopicException", name, NilId)

\* topics_by_name: one iteration.
LookByName(c) ==
  /\ task[c].pc = "by_name"
  /\ ~AtEnd(c)
  /\ task' = [task EXCEPT ![c] =
                [@ EXCEPT !.i = task[c].i + 1,
                          !.answers = task[c].answers
                             \cup (IF Repeated(c, "name") THEN {}
                                   ELSE {TopicByName(Current(c).name)})]]
  /\ UNCHANGED <<config, catalog>>

TopicById(id) ==
  IF id \in DOMAIN catalog.names_by_id
  THEN SuccessTopic(catalog.names_by_id[id])
  ELSE ErrorTopic("UnknownTopicId", NoName, id)

\* topics_by_id: one iteration.
LookById(c) ==
  /\ task[c].pc = "by_id"
  /\ ~AtEnd(c)
  /\ task' = [task EXCEPT ![c] =
                [@ EXCEPT !.i = task[c].i + 1,
                          !.answers = task[c].answers
                             \cup (IF Current(c).id = NilId \/ Repeated(c, "id") THEN {}
                                   ELSE {TopicById(Current(c).id)})]]
  /\ UNCHANGED <<config, catalog>>

MetadataDone(c) ==
  /\ task[c].pc \in {"by_name", "by_id"}
  /\ AtEnd(c)
  /\ task' = [task EXCEPT ![c] = Answered(task[c].answers, task[c].auto)]
  /\ UNCHANGED <<config, catalog>>

----------------------------------------------------------------------------
(* Produce: one topic of the request, and one partition of it.             *)

\* produce_topic: get_or_auto_create, up to the release of the read lock.
ProduceLook(c, p) ==
  /\ Free(c)
  /\ task' = [task EXCEPT ![c] =
       CASE p.name \notin ValidName ->
              Answered({ErrorTopic("InvalidTopicException", p.name, NilId)}, FALSE)
         [] p.name \in ValidName /\ ~Exists(catalog, p.name) /\ ~AutoCreateTopics ->
              Answered({ErrorTopic("UnknownTopicOrPartition", p.name, NilId)}, FALSE)
         [] OTHER ->
              [Idle EXCEPT !.pc = IF Exists(catalog, p.name) THEN "partition"
                                  ELSE "produce_insert",
                           !.topics = <<[name |-> p.name, id |-> NilId]>>,
                           !.partition = p.partition,
                           !.auto = AutoCreateTopics]]
  /\ UNCHANGED <<config, catalog>>

ProduceInsert(c) ==
  /\ task[c].pc = "produce_insert"
  /\ InsertIfAbsent(Current(c).name)
  /\ task' = [task EXCEPT ![c] = [@ EXCEPT !.pc = "partition"]]
  /\ UNCHANGED config

\* produce_partition: TopicCatalog::partition finds the log, or does not.
ProducePartition(c) ==
  /\ task[c].pc = "partition"
  /\ LET name == Current(c).name IN
       task' = [task EXCEPT ![c] =
         Answered({IF /\ Exists(catalog, name)
                      /\ task[c].partition \in 0..(catalog.topics[name].partitions - 1)
                   THEN SuccessTopic(name)
                   ELSE ErrorTopic("UnknownTopicOrPartition", name, NilId)},
                  task[c].auto /\ task[c].partition = 0)]
  /\ UNCHANGED <<config, catalog>>

----------------------------------------------------------------------------
(* CreateTopics: one topic of the request.  r.error is the refusal of a    *)
(* topic with assignments or configurations, which come first.             *)

CreateOneError(r) ==
  IF r.error # "None" THEN r.error
  ELSE ExplicitError(catalog, r.name, r.partitions, r.replication)

CreateRefused(c, r) ==
  /\ Free(c)
  /\ CreateOneError(r) # "None"
  /\ task' = [task EXCEPT ![c] =
                Answered({ErrorTopic(CreateOneError(r), r.name, NilId)}, FALSE)]
  /\ UNCHANGED <<config, catalog>>

CreateValidated(c, r) ==
  /\ Free(c)
  /\ CreateOneError(r) = "None"
  /\ r.validate_only
  /\ task' = [task EXCEPT ![c] = Answered({}, FALSE)]
  /\ UNCHANGED <<config, catalog>>

CreateExplicit(c, r) ==
  /\ Free(c)
  /\ CreateOneError(r) = "None"
  /\ ~r.validate_only
  /\ \E id \in FreshIds(catalog) :
       /\ catalog' = InsertTopic(catalog, r.name, r.partitions, id)
       /\ task' = [task EXCEPT ![c] =
                     Answered({[error |-> "None", name |-> r.name, id |-> id,
                                partitions |-> r.partitions]}, FALSE)]
  /\ UNCHANGED config

----------------------------------------------------------------------------
Metadata(c) ==
  \/ \E r \in MetadataRequest : MetadataRefused(c, r) \/ MetadataAll(c, r) \/ MetadataStart(c, r)
  \/ CreateLook(c) \/ CreateInsert(c) \/ CreateDone(c)
  \/ LookByName(c) \/ LookById(c) \/ MetadataDone(c)

Produce(c) ==
  \/ \E p \in ProduceTopic : ProduceLook(c, p)
  \/ ProduceInsert(c)
  \/ ProducePartition(c)

CreateTopics(c) ==
  \E r \in CreatableTopic : CreateRefused(c, r) \/ CreateValidated(c, r) \/ CreateExplicit(c, r)

Next == \E c \in Connection : Metadata(c) \/ Produce(c) \/ CreateTopics(c)

Spec == Init /\ [][Next]_vars

----------------------------------------------------------------------------
\* The catalogue and the tasks have the shapes that the code declares.
TypeOK ==
  /\ config \in Config
  /\ DOMAIN catalog.topics \subseteq ValidName
  /\ \A n \in DOMAIN catalog.topics :
       catalog.topics[n].id \in TopicId /\ catalog.topics[n].partitions \in Nat \ {0}
  /\ DOMAIN catalog.names_by_id \subseteq TopicId
  /\ \A c \in Connection :
       /\ task[c].pc \in {"idle", "create", "insert", "by_name", "by_id",
                          "produce_insert", "partition", "answered"}
       /\ task[c].i \in 1..(Len(task[c].topics) + 1)

\* The two maps of CatalogState are each other's inverse: every topic is
\* found by its id, and no id leads to another topic or to none
\* (insert_topic, get_by_id).
IndexAgrees ==
  /\ \A n \in DOMAIN catalog.topics :
       /\ catalog.topics[n].id \in DOMAIN catalog.names_by_id
       /\ catalog.names_by_id[catalog.topics[n].id] = n
  /\ \A i \in DOMAIN catalog.names_by_id :
       /\ catalog.names_by_id[i] \in DOMAIN catalog.topics
       /\ catalog.topics[catalog.names_by_id[i]].id = i

\* A topic, once created, keeps its id and its partitions, whichever of the
\* racing requests created it; so a log that a Produce request obtained from
\* `partition` is never replaced by an empty one.
TopicsAreForever ==
  [][\A n \in DOMAIN catalog.topics :
       n \in DOMAIN catalog'.topics /\ catalog'.topics[n] = catalog.topics[n]]_vars

\* With auto_create_topics off, a topic appears only in the step of a
\* CreateTopics request that reports it, whatever Metadata and Produce ask
\* for and whether or not force_auto_create_topics is set.
OnlyExplicitlyCreated ==
  [][~AutoCreateTopics =>
       \A n \in DOMAIN catalog'.topics \ DOMAIN catalog.topics :
         \E c \in Connection :
           /\ Free(c)
           /\ \E a \in task'[c].answers : a.name = n /\ a.error = "None"]_vars

\* What a response says of a topic is what the catalogue holds, also after
\* the response was sent.
AnswersAreTrue ==
  \A c \in Connection : \A a \in task[c].answers :
    a.error = "None" => /\ a.name \in DOMAIN catalog.topics
                        /\ catalog.topics[a.name] = [id |-> a.id, partitions |-> a.partitions]

\* A request that may create its topics finds every one whose name is valid:
\* for a Metadata request, and for a Produce request to partition 0.
CreatedIsFound ==
  \A c \in Connection : task[c].pc = "answered" /\ task[c].auto =>
    \A a \in task[c].answers :
      a.error \in {"None", "InvalidTopicException"} /\ (a.name \in ValidName => a.error = "None")

\* A response to a request that is not refused as a whole has one answer for
\* a name, although the topic may be created while the request is served
\* (`seen` in topics_by_name and topics_by_id).
OneAnswerPerName ==
  \A c \in Connection : \A a, b \in task[c].answers :
    /\ a.name = b.name
    /\ a.name # NoName
    /\ a.error \notin {"InvalidRequest", "UnknownServerError"}
    => a = b

\* Responses are complete and free of contradictions: with the types, a
\* request finds what it created (the second loop of topics_for_request) and
\* says one thing of a topic.
ResponsesFit == TypeOK /\ CreatedIsFound /\ OneAnswerPerName
=============================================================================
