------------------------- MODULE TopicCatalogProofs -------------------------
(***************************************************************************)
(* Theorems about TopicCatalog, for any connections, names, topic ids and  *)
(* requests.                                                               *)
(***************************************************************************)
EXTENDS TopicCatalog, TLAPS

TopicRecord(t) == t = [id |-> t.id, partitions |-> t.partitions]

Fields == {"pc", "topics", "i", "partition", "auto", "answers"}

\* The shapes that the argument needs, weaker than TypeOK.
Shapes ==
  /\ config \in Config
  /\ \A n \in DOMAIN catalog.topics : TopicRecord(catalog.topics[n])
  /\ DOMAIN task = Connection
  /\ \A c \in Connection : Fields \subseteq DOMAIN task[c]

\* With auto_create_topics off, no request is on its way to create a topic
\* automatically.
NoAutoCreation ==
  ~AutoCreateTopics =>
    \A c \in Connection : task[c].pc \notin {"create", "insert", "produce_insert"}

\* The inductive invariant.
IInv == IndexAgrees /\ Shapes /\ AnswersAreTrue /\ NoAutoCreation

\* What a step may do to the topics.
Grows ==
  \A n \in DOMAIN catalog.topics :
    n \in DOMAIN catalog'.topics /\ catalog'.topics[n] = catalog.topics[n]

\* The step leaves the maps in agreement, and every topic as it is.
CatalogKept ==
  /\ IndexAgrees'
  /\ Grows
  /\ \A n \in DOMAIN catalog'.topics : TopicRecord(catalog'.topics[n])

\* An answer is true in the next state.
TrueAfter(a) ==
  a.error = "None" => /\ a.name \in DOMAIN catalog'.topics
                      /\ catalog'.topics[a.name] = [id |-> a.id, partitions |-> a.partitions]

\* insert_topic keeps the maps in agreement if the name and the id are new.
LEMMA InsertKeeps ==
  ASSUME IInv, NEW name, NEW count, NEW id \in FreshIds(catalog),
         ~Exists(catalog, name),
         catalog' = InsertTopic(catalog, name, count, id)
  PROVE  /\ CatalogKept
         /\ DOMAIN catalog'.topics = DOMAIN catalog.topics \cup {name}
         /\ catalog'.topics[name] = [id |-> id, partitions |-> count]
<1> DEFINE new == [id |-> id, partitions |-> count]
<1>1. new.id = id /\ new.partitions = count /\ TopicRecord(new)
  BY DEF TopicRecord
<1>2. /\ catalog'.topics = [n \in DOMAIN catalog.topics \cup {name} |->
                              IF n = name THEN new ELSE catalog.topics[n]]
      /\ catalog'.names_by_id = [i \in DOMAIN catalog.names_by_id \cup {id} |->
                                   IF i = id THEN name ELSE catalog.names_by_id[i]]
  BY DEF InsertTopic
<1> HIDE DEF new
<1>3. name \notin DOMAIN catalog.topics /\ id \notin DOMAIN catalog.names_by_id
  BY DEF Exists, FreshIds
<1>4. /\ DOMAIN catalog'.topics = DOMAIN catalog.topics \cup {name}
      /\ catalog'.topics[name] = new
      /\ DOMAIN catalog'.names_by_id = DOMAIN catalog.names_by_id \cup {id}
      /\ catalog'.names_by_id[id] = name
      /\ \A i \in DOMAIN catalog.names_by_id : catalog'.names_by_id[i] = catalog.names_by_id[i]
  BY <1>2, <1>3
<1>5. Grows
  BY <1>2, <1>3 DEF Grows
<1>6. IndexAgrees'
  <2>1. ASSUME NEW n \in DOMAIN catalog'.topics
        PROVE  /\ catalog'.topics[n].id \in DOMAIN catalog'.names_by_id
               /\ catalog'.names_by_id[catalog'.topics[n].id] = n
    BY <1>1, <1>3, <1>4, <1>5 DEF IInv, IndexAgrees, Grows
  <2>2. ASSUME NEW i \in DOMAIN catalog'.names_by_id
        PROVE  /\ catalog'.names_by_id[i] \in DOMAIN catalog'.topics
               /\ catalog'.topics[catalog'.names_by_id[i]].id = i
    BY <1>1, <1>3, <1>4, <1>5 DEF IInv, IndexAgrees, Grows
  <2> QED
    BY <2>1, <2>2 DEF IndexAgrees
<1>7. \A n \in DOMAIN catalog'.topics : TopicRecord(catalog'.topics[n])
  BY <1>1, <1>4, <1>5 DEF IInv, Shapes, Grows
<1> QED
  BY <1>4, <1>5, <1>6, <1>7 DEF CatalogKept, new

\* A step that leaves the catalogue alone keeps it.
LEMMA IdleKeeps ==
  ASSUME IInv, UNCHANGED catalog
  PROVE  CatalogKept
BY DEF IInv, IndexAgrees, Shapes, CatalogKept, Grows

\* Automatic creation keeps it, whoever was faster.
LEMMA InsertIfAbsentKeeps ==
  ASSUME IInv, NEW name, InsertIfAbsent(name)
  PROVE  CatalogKept
BY InsertKeeps, IdleKeeps DEF InsertIfAbsent

\* The answer for a topic that exists is true.
LEMMA SuccessIsTrue ==
  ASSUME IInv, UNCHANGED catalog, NEW name \in DOMAIN catalog.topics
  PROVE  TrueAfter(SuccessTopic(name))
<1>1. /\ SuccessTopic(name).name = name
      /\ SuccessTopic(name).id = catalog.topics[name].id
      /\ SuccessTopic(name).partitions = catalog.topics[name].partitions
  BY DEF SuccessTopic
<1>2. TopicRecord(catalog.topics[name])
  BY DEF IInv, Shapes
<1> QED
  BY <1>1, <1>2 DEF TrueAfter, TopicRecord

\* An error claims nothing of the catalogue.
LEMMA ErrorIsTrue ==
  ASSUME NEW error, error # "None", NEW name, NEW id
  PROVE  TrueAfter(ErrorTopic(error, name, id))
<1>1. ErrorTopic(error, name, id).error = error
  BY DEF ErrorTopic
<1> QED
  BY <1>1 DEF TrueAfter

\* A step of one request keeps the invariant, if it keeps the catalogue and
\* leaves the request with true answers.
LEMMA TaskKeeps ==
  ASSUME IInv, CatalogKept, UNCHANGED config, NEW c \in Connection, NEW new,
         task' = [task EXCEPT ![c] = new],
         Fields \subseteq DOMAIN new,
         \A a \in new.answers : TrueAfter(a),
         ~AutoCreateTopics => new.pc \notin {"create", "insert", "produce_insert"}
  PROVE  IInv'
<1>1. DOMAIN task = Connection
  BY DEF IInv, Shapes
<1>2. /\ DOMAIN task' = Connection /\ task'[c] = new
      /\ \A d \in Connection : d # c => task'[d] = task[d]
  BY <1>1
<1>3. Shapes'
  BY <1>2 DEF IInv, Shapes, CatalogKept
<1>4. AnswersAreTrue'
  <2> SUFFICES ASSUME NEW d \in Connection, NEW a \in task'[d].answers, a.error = "None"
               PROVE  /\ a.name \in DOMAIN catalog'.topics
                      /\ catalog'.topics[a.name] = [id |-> a.id, partitions |-> a.partitions]
    BY DEF AnswersAreTrue
  <2>1. CASE d = c
    BY <2>1, <1>2 DEF TrueAfter
  <2>2. CASE d # c
    BY <2>2, <1>2 DEF IInv, AnswersAreTrue, CatalogKept, Grows
  <2> QED
    BY <2>1, <2>2
<1>5. NoAutoCreation'
  BY <1>2 DEF IInv, NoAutoCreation, AutoCreateTopics
<1> QED
  BY <1>3, <1>4, <1>5 DEF IInv, CatalogKept

\* What Answered makes of a request.
LEMMA AnsweredFacts ==
  ASSUME NEW answers, NEW auto
  PROVE  /\ Fields \subseteq DOMAIN Answered(answers, auto)
         /\ Answered(answers, auto).answers = answers
         /\ Answered(answers, auto).pc = "answered"
BY DEF Answered, Idle, Fields

\* A step that answers truly and leaves the catalogue alone.
LEMMA AnswerKeeps ==
  ASSUME IInv, UNCHANGED <<config, catalog>>, NEW c \in Connection,
         NEW answers, NEW auto,
         task' = [task EXCEPT ![c] = Answered(answers, auto)],
         \A a \in answers : TrueAfter(a)
  PROVE  IInv'
<1> DEFINE new == Answered(answers, auto)
<1>1. /\ Fields \subseteq DOMAIN new
      /\ new.answers = answers /\ new.pc = "answered"
  BY AnsweredFacts
<1>2. CatalogKept
  BY IdleKeeps
<1> HIDE DEF new
<1> QED
  BY <1>1, <1>2, TaskKeeps DEF new

\* The answers a request has already stay true.
LEMMA AnswersStayTrue ==
  ASSUME IInv, CatalogKept, NEW c \in Connection, NEW a \in task[c].answers
  PROVE  TrueAfter(a)
BY DEF IInv, AnswersAreTrue, CatalogKept, Grows, TrueAfter

\* A step of the loops that adds true answers.
LEMMA LoopKeeps ==
  ASSUME IInv, CatalogKept, UNCHANGED config, NEW c \in Connection, NEW new,
         task' = [task EXCEPT ![c] = new],
         DOMAIN new = DOMAIN task[c],
         \A a \in new.answers : a \in task[c].answers \/ TrueAfter(a),
         ~AutoCreateTopics => new.pc \notin {"create", "insert", "produce_insert"}
  PROVE  IInv'
<1>1. Fields \subseteq DOMAIN new
  BY DEF IInv, Shapes
<1>2. \A a \in new.answers : TrueAfter(a)
  BY AnswersStayTrue
<1> QED
  BY <1>1, <1>2, TaskKeeps

\* Metadata keeps the invariant.
LEMMA MetadataKeeps ==
  ASSUME IInv, UNCHANGED config, NEW c \in Connection, Metadata(c)
  PROVE  IInv'
<1>0. /\ {"pc", "i", "answers"} \subseteq DOMAIN task[c]
      /\ IndexAgrees
      /\ ~AutoCreateTopics => task[c].pc \notin {"create", "insert", "produce_insert"}
      /\ AutoCreateTopics \in BOOLEAN
  BY DEF IInv, Shapes, Fields, NoAutoCreation, Config, AutoCreateTopics
<1>1. ASSUME NEW r \in MetadataRequest, MetadataRefused(c, r)
      PROVE  IInv'
  <2> DEFINE answers == {ErrorTopic(RequestError(r), t.name, t.id) : t \in Elements(r.topics)}
  <2>1. task' = [task EXCEPT ![c] = Answered(answers, FALSE)] /\ UNCHANGED catalog
    BY <1>1 DEF MetadataRefused
  <2>2. \A a \in answers : TrueAfter(a)
    BY <1>1, ErrorIsTrue DEF MetadataRefused
  <2> HIDE DEF answers
  <2> QED
    BY <2>1, <2>2, AnswerKeeps
<1>2. ASSUME NEW r \in MetadataRequest, MetadataAll(c, r)
      PROVE  IInv'
  <2> DEFINE answers == {SuccessTopic(n) : n \in DOMAIN catalog.topics}
  <2>1. task' = [task EXCEPT ![c] = Answered(answers, FALSE)] /\ UNCHANGED catalog
    BY <1>2 DEF MetadataAll
  <2>2. \A a \in answers : TrueAfter(a)
    BY <2>1, SuccessIsTrue
  <2> HIDE DEF answers
  <2> QED
    BY <2>1, <2>2, AnswerKeeps
<1>3. ASSUME NEW r \in MetadataRequest, MetadataStart(c, r)
      PROVE  IInv'
  <2> DEFINE pc == IF UuidMode(r) THEN "by_id"
                   ELSE IF AllowAutoCreate(r) THEN "create" ELSE "by_name"
             new == [Idle EXCEPT !.pc = pc, !.topics = r.topics,
                                 !.auto = ~UuidMode(r) /\ AllowAutoCreate(r)]
  <2>1. /\ Fields \subseteq DOMAIN new /\ new.answers = {} /\ new.pc = pc
    BY DEF Idle, Fields
  <2>2. ~AutoCreateTopics => pc \notin {"create", "insert", "produce_insert"}
    BY DEF AllowAutoCreate
  <2>3. task' = [task EXCEPT ![c] = new] /\ CatalogKept
    BY <1>3, IdleKeeps DEF MetadataStart
  <2> HIDE DEF new, pc
  <2> QED
    BY <2>1, <2>2, <2>3, TaskKeeps
<1>4. CASE CreateLook(c)
  <2> DEFINE new == IF Current(c).name \in ValidName /\ ~Exists(catalog, Current(c).name)
                    THEN [task[c] EXCEPT !.pc = "insert"]
                    ELSE [task[c] EXCEPT !.i = task[c].i + 1]
  <2>1. /\ DOMAIN new = DOMAIN task[c] /\ new.answers = task[c].answers
    BY <1>0
  <2>2. AutoCreateTopics
    BY <1>0, <1>4 DEF CreateLook
  <2>3. task' = [task EXCEPT ![c] = new] /\ CatalogKept
    BY <1>4, IdleKeeps DEF CreateLook
  <2> HIDE DEF new
  <2> QED
    BY <2>1, <2>2, <2>3, LoopKeeps
<1>5. CASE CreateInsert(c)
  <2> DEFINE new == [task[c] EXCEPT !.pc = "create", !.i = task[c].i + 1]
  <2>1. /\ DOMAIN new = DOMAIN task[c] /\ new.answers = task[c].answers
    BY <1>0
  <2>2. AutoCreateTopics
    BY <1>0, <1>5 DEF CreateInsert
  <2>3. task' = [task EXCEPT ![c] = new] /\ CatalogKept
    BY <1>5, InsertIfAbsentKeeps DEF CreateInsert
  <2> HIDE DEF new
  <2> QED
    BY <2>1, <2>2, <2>3, LoopKeeps
<1>6. CASE CreateDone(c)
  <2> DEFINE new == [task[c] EXCEPT !.pc = "by_name", !.i = 1]
  <2>1. /\ DOMAIN new = DOMAIN task[c] /\ new.answers = task[c].answers
        /\ new.pc = "by_name"
    BY <1>0
  <2>2. task' = [task EXCEPT ![c] = new] /\ CatalogKept
    BY <1>6, IdleKeeps DEF CreateDone
  <2> HIDE DEF new
  <2> QED
    BY <2>1, <2>2, LoopKeeps
<1>7. CASE LookByName(c)
  <2> DEFINE more == IF Repeated(c, "name") THEN {} ELSE {TopicByName(Current(c).name)}
             new == [task[c] EXCEPT !.i = task[c].i + 1,
                                    !.answers = task[c].answers \cup more]
  <2>1. /\ DOMAIN new = DOMAIN task[c] /\ new.answers = task[c].answers \cup more
        /\ new.pc = task[c].pc
    BY <1>0
  <2>2. task' = [task EXCEPT ![c] = new] /\ UNCHANGED catalog
    BY <1>7 DEF LookByName
  <2>3. \A n : TrueAfter(TopicByName(n))
    BY <2>2, SuccessIsTrue, ErrorIsTrue DEF TopicByName, Found, Exists
  <2>4. \A a \in more : TrueAfter(a)
    BY <2>3
  <2> HIDE DEF new, more
  <2> QED
    BY <1>0, <2>1, <2>2, <2>4, IdleKeeps, LoopKeeps
<1>8. CASE LookById(c)
  <2> DEFINE more == IF Current(c).id = NilId \/ Repeated(c, "id") THEN {}
                     ELSE {TopicById(Current(c).id)}
             new == [task[c] EXCEPT !.i = task[c].i + 1,
                                    !.answers = task[c].answers \cup more]
  <2>1. /\ DOMAIN new = DOMAIN task[c] /\ new.answers = task[c].answers \cup more
        /\ new.pc = task[c].pc
    BY <1>0
  <2>2. task' = [task EXCEPT ![c] = new] /\ UNCHANGED catalog
    BY <1>8 DEF LookById
  <2>3. \A i : TrueAfter(TopicById(i))
    BY <1>0, <2>2, SuccessIsTrue, ErrorIsTrue DEF TopicById, IndexAgrees
  <2>4. \A a \in more : TrueAfter(a)
    BY <2>3
  <2> HIDE DEF new, more
  <2> QED
    BY <1>0, <2>1, <2>2, <2>4, IdleKeeps, LoopKeeps
<1>9. CASE MetadataDone(c)
  <2>1. /\ task' = [task EXCEPT ![c] = Answered(task[c].answers, task[c].auto)]
        /\ UNCHANGED catalog
    BY <1>9 DEF MetadataDone
  <2>2. \A a \in task[c].answers : TrueAfter(a)
    BY <2>1, IdleKeeps, AnswersStayTrue
  <2> QED
    BY <2>1, <2>2, AnswerKeeps
<1> QED
  BY <1>1, <1>2, <1>3, <1>4, <1>5, <1>6, <1>7, <1>8, <1>9 DEF Metadata

\* Produce keeps the invariant.
LEMMA ProduceKeeps ==
  ASSUME IInv, UNCHANGED config, NEW c \in Connection, Produce(c)
  PROVE  IInv'
<1>0. /\ {"pc", "i", "answers"} \subseteq DOMAIN task[c]
      /\ ~AutoCreateTopics => task[c].pc \notin {"create", "insert", "produce_insert"}
      /\ AutoCreateTopics \in BOOLEAN
  BY DEF IInv, Shapes, Fields, NoAutoCreation, Config, AutoCreateTopics
<1>1. ASSUME NEW p \in ProduceTopic, ProduceLook(c, p)
      PROVE  IInv'
  <2> DEFINE invalid == {ErrorTopic("InvalidTopicException", p.name, NilId)}
             unknown == {ErrorTopic("UnknownTopicOrPartition", p.name, NilId)}
             pc == IF Exists(catalog, p.name) THEN "partition" ELSE "produce_insert"
             going == [Idle EXCEPT !.pc = pc,
                                   !.topics = <<[name |-> p.name, id |-> NilId]>>,
                                   !.partition = p.partition,
                                   !.auto = AutoCreateTopics]
  <2>1. UNCHANGED catalog /\ CatalogKept
    BY <1>1, IdleKeeps DEF ProduceLook
  <2>2. CASE p.name \notin ValidName
    <3>1. task' = [task EXCEPT ![c] = Answered(invalid, FALSE)]
      BY <1>1, <2>2 DEF ProduceLook
    <3>2. \A a \in invalid : TrueAfter(a)
      BY ErrorIsTrue
    <3> HIDE DEF invalid
    <3> QED
      BY <2>1, <3>1, <3>2, AnswerKeeps
  <2>3. CASE p.name \in ValidName /\ ~Exists(catalog, p.name) /\ ~AutoCreateTopics
    <3>1. task' = [task EXCEPT ![c] = Answered(unknown, FALSE)]
      BY <1>1, <2>3 DEF ProduceLook
    <3>2. \A a \in unknown : TrueAfter(a)
      BY ErrorIsTrue
    <3> HIDE DEF unknown
    <3> QED
      BY <2>1, <3>1, <3>2, AnswerKeeps
  <2>4. CASE p.name \in ValidName /\ (Exists(catalog, p.name) \/ AutoCreateTopics)
    <3>1. task' = [task EXCEPT ![c] = going]
      BY <1>1, <2>4 DEF ProduceLook
    <3>2. Fields \subseteq DOMAIN going /\ going.answers = {} /\ going.pc = pc
      BY DEF Idle, Fields
    <3>3. ~AutoCreateTopics => pc = "partition"
      BY <2>4
    <3> HIDE DEF going, pc
    <3> QED
      BY <2>1, <3>1, <3>2, <3>3, TaskKeeps
  <2> QED
    BY <2>2, <2>3, <2>4
<1>2. CASE ProduceInsert(c)
  <2> DEFINE new == [task[c] EXCEPT !.pc = "partition"]
  <2>1. DOMAIN new = DOMAIN task[c] /\ new.answers = task[c].answers /\ new.pc = "partition"
    BY <1>0
  <2>2. task' = [task EXCEPT ![c] = new] /\ CatalogKept
    BY <1>2, InsertIfAbsentKeeps DEF ProduceInsert
  <2> HIDE DEF new
  <2> QED
    BY <2>1, <2>2, LoopKeeps
<1>3. CASE ProducePartition(c)
  <2> DEFINE name == Current(c).name
             answer == IF /\ Exists(catalog, name)
                          /\ task[c].partition \in 0..(catalog.topics[name].partitions - 1)
                       THEN SuccessTopic(name)
                       ELSE ErrorTopic("UnknownTopicOrPartition", name, NilId)
             answers == {answer}
             auto == task[c].auto /\ task[c].partition = 0
  <2>1. task' = [task EXCEPT ![c] = Answered(answers, auto)] /\ UNCHANGED catalog
    BY <1>3 DEF ProducePartition
  <2>2. TrueAfter(answer)
    BY <2>1, SuccessIsTrue, ErrorIsTrue DEF Exists
  <2>3. \A a \in answers : TrueAfter(a)
    BY <2>2
  <2> HIDE DEF answers, auto
  <2> QED
    BY <2>1, <2>3, AnswerKeeps
<1> QED
  BY <1>1, <1>2, <1>3 DEF Produce

\* create_explicit creates a name that is not there yet.
LEMMA ExplicitIsNew ==
  ASSUME NEW r, CreateOneError(r) = "None"
  PROVE  ~Exists(catalog, r.name)
BY DEF CreateOneError, ExplicitError

\* CreateTopics keeps the invariant.
LEMMA CreateTopicsKeeps ==
  ASSUME IInv, UNCHANGED config, NEW c \in Connection, CreateTopics(c)
  PROVE  IInv'
<1>1. ASSUME NEW r \in CreatableTopic, CreateRefused(c, r)
      PROVE  IInv'
  <2> DEFINE answers == {ErrorTopic(CreateOneError(r), r.name, NilId)}
  <2>1. task' = [task EXCEPT ![c] = Answered(answers, FALSE)] /\ UNCHANGED catalog
    BY <1>1 DEF CreateRefused
  <2>2. \A a \in answers : TrueAfter(a)
    BY <1>1, ErrorIsTrue DEF CreateRefused
  <2> HIDE DEF answers
  <2> QED
    BY <2>1, <2>2, AnswerKeeps
<1>2. ASSUME NEW r \in CreatableTopic, CreateValidated(c, r)
      PROVE  IInv'
  <2> DEFINE answers == {}
  <2>1. task' = [task EXCEPT ![c] = Answered(answers, FALSE)] /\ UNCHANGED catalog
    BY <1>2 DEF CreateValidated
  <2>2. \A a \in answers : TrueAfter(a)
    OBVIOUS
  <2> HIDE DEF answers
  <2> QED
    BY <2>1, <2>2, AnswerKeeps
<1>3. ASSUME NEW r \in CreatableTopic, CreateExplicit(c, r)
      PROVE  IInv'
  <2>1. PICK id \in FreshIds(catalog) :
          /\ catalog' = InsertTopic(catalog, r.name, r.partitions, id)
          /\ task' = [task EXCEPT ![c] =
                        Answered({[error |-> "None", name |-> r.name, id |-> id,
                                   partitions |-> r.partitions]}, FALSE)]
    BY <1>3 DEF CreateExplicit
  <2> DEFINE answer == [error |-> "None", name |-> r.name, id |-> id,
                        partitions |-> r.partitions]
             new == Answered({answer}, FALSE)
  <2>2. ~Exists(catalog, r.name)
    BY <1>3, ExplicitIsNew DEF CreateExplicit
  <2>3. /\ CatalogKept
        /\ r.name \in DOMAIN catalog'.topics
        /\ catalog'.topics[r.name] = [id |-> id, partitions |-> r.partitions]
    BY <2>1, <2>2, InsertKeeps
  <2>4. /\ answer.name = r.name /\ answer.id = id /\ answer.partitions = r.partitions
    OBVIOUS
  <2>5. TrueAfter(answer)
    BY <2>3, <2>4 DEF TrueAfter
  <2> HIDE DEF answer
  <2>6. Fields \subseteq DOMAIN new /\ new.answers = {answer} /\ new.pc = "answered"
    BY AnsweredFacts
  <2>7. task' = [task EXCEPT ![c] = new]
    BY <2>1 DEF answer
  <2> HIDE DEF new
  <2> QED
    BY <2>3, <2>5, <2>6, <2>7, TaskKeeps
<1> QED
  BY <1>1, <1>2, <1>3 DEF CreateTopics

\* No step changes the configuration.
LEMMA ConfigKept ==
  ASSUME Next
  PROVE  UNCHANGED config
<1>1. PICK c \in Connection : Metadata(c) \/ Produce(c) \/ CreateTopics(c)
  BY DEF Next
<1>2. CASE Metadata(c)
  BY <1>2
  DEF Metadata, MetadataRefused, MetadataAll, MetadataStart, CreateLook, CreateInsert,
      CreateDone, LookByName, LookById, MetadataDone
<1>3. CASE Produce(c)
  BY <1>3 DEF Produce, ProduceLook, ProduceInsert, ProducePartition
<1>4. CASE CreateTopics(c)
  BY <1>4 DEF CreateTopics, CreateRefused, CreateValidated, CreateExplicit
<1> QED
  BY <1>1, <1>2, <1>3, <1>4

\* The invariant holds in every state.
THEOREM Invariance == Spec => []IInv
<1>1. Init => IInv
  <2> SUFFICES ASSUME Init
               PROVE  IInv
    OBVIOUS
  <2>1. /\ DOMAIN catalog.topics = {} /\ DOMAIN catalog.names_by_id = {}
        /\ config \in Config /\ task = [c \in Connection |-> Idle]
        /\ Fields \subseteq DOMAIN Idle /\ Idle.answers = {} /\ Idle.pc = "idle"
    BY DEF Init, NewCatalog, Idle, Fields
  <2> QED
    BY <2>1 DEF IInv, IndexAgrees, Shapes, AnswersAreTrue, NoAutoCreation
<1>2. IInv /\ [Next]_vars => IInv'
  <2> SUFFICES ASSUME IInv, [Next]_vars
               PROVE  IInv'
    OBVIOUS
  <2>1. CASE Next
    BY <2>1, ConfigKept, MetadataKeeps, ProduceKeeps, CreateTopicsKeeps DEF Next
  <2>2. CASE UNCHANGED vars
    BY <2>2
    DEF vars, IInv, IndexAgrees, Shapes, AnswersAreTrue, NoAutoCreation, AutoCreateTopics
  <2> QED
    BY <2>1, <2>2
<1> QED
  BY <1>1, <1>2, PTL DEF Spec

\* topics and names_by_id stay each other's inverse.
THEOREM IndexAlwaysAgrees == Spec => []IndexAgrees
BY Invariance, PTL DEF IInv

\* No response says of a topic what the catalogue does not hold, or ceases
\* to hold.
THEOREM AnswersAreAlwaysTrue == Spec => []AnswersAreTrue
BY Invariance, PTL DEF IInv

\* get_or_auto_create and create_explicit never replace a topic, however
\* their looks at the catalogue interleave.
THEOREM TopicsAreAlwaysForever == Spec => TopicsAreForever
<1>1. ASSUME IInv, Next
      PROVE  Grows
  <2>1. PICK c \in Connection : Metadata(c) \/ Produce(c) \/ CreateTopics(c)
    BY <1>1 DEF Next
  <2>2. CASE UNCHANGED catalog
    BY <2>2 DEF Grows
  <2>3. ASSUME NEW name, InsertIfAbsent(name)
        PROVE  Grows
    BY <1>1, <2>3, InsertIfAbsentKeeps DEF CatalogKept
  <2>4. ASSUME NEW r \in CreatableTopic, CreateExplicit(c, r)
        PROVE  Grows
    BY <1>1, <2>4, ExplicitIsNew, InsertKeeps DEF CreateExplicit, CatalogKept
  <2>5. CASE Metadata(c)
    BY <2>2, <2>3, <2>5
    DEF Metadata, MetadataRefused, MetadataAll, MetadataStart, CreateLook, CreateInsert,
        CreateDone, LookByName, LookById, MetadataDone
  <2>6. CASE Produce(c)
    BY <2>2, <2>3, <2>6 DEF Produce, ProduceLook, ProduceInsert, ProducePartition
  <2>7. CASE CreateTopics(c)
    BY <2>2, <2>4, <2>7 DEF CreateTopics, CreateRefused, CreateValidated
  <2> QED
    BY <2>1, <2>5, <2>6, <2>7
<1>2. IInv /\ [Next]_vars => [Grows]_vars
  BY <1>1
<1> QED
  BY <1>2, Invariance, PTL DEF Spec, TopicsAreForever, Grows

\* auto_create_topics = false leaves the creation of topics to CreateTopics,
\* for every request and whatever force_auto_create_topics says.
THEOREM AlwaysOnlyExplicitlyCreated == Spec => OnlyExplicitlyCreated
<1> DEFINE Explicit ==
             ~AutoCreateTopics =>
               \A n \in DOMAIN catalog'.topics \ DOMAIN catalog.topics :
                 \E c \in Connection :
                   /\ Free(c)
                   /\ \E a \in task'[c].answers : a.name = n /\ a.error = "None"
<1>1. ASSUME IInv, Next
      PROVE  Explicit
  <2> SUFFICES ASSUME ~AutoCreateTopics
               PROVE  Explicit
    OBVIOUS
  <2>1. PICK c \in Connection : Metadata(c) \/ Produce(c) \/ CreateTopics(c)
    BY <1>1 DEF Next
  <2>2. CASE UNCHANGED catalog
    BY <2>2
  <2>3. task[c].pc \notin {"insert", "produce_insert"}
    BY <1>1 DEF IInv, NoAutoCreation
  <2>4. ASSUME NEW r \in CreatableTopic, CreateExplicit(c, r)
        PROVE  Explicit
    <3>1. PICK id \in FreshIds(catalog) :
            /\ catalog' = InsertTopic(catalog, r.name, r.partitions, id)
            /\ task' = [task EXCEPT ![c] =
                          Answered({[error |-> "None", name |-> r.name, id |-> id,
                                     partitions |-> r.partitions]}, FALSE)]
      BY <2>4 DEF CreateExplicit
    <3> DEFINE answer == [error |-> "None", name |-> r.name, id |-> id,
                          partitions |-> r.partitions]
               answers == {answer}
    <3>2. answer.name = r.name /\ answer.error = "None" /\ answer \in answers
      OBVIOUS
    <3>3. task' = [task EXCEPT ![c] = Answered(answers, FALSE)]
      BY <3>1
    <3> HIDE DEF answers, answer
    <3>4. task'[c].answers = answers
      BY <1>1, <3>3, AnsweredFacts DEF IInv, Shapes
    <3>5. DOMAIN catalog'.topics = DOMAIN catalog.topics \cup {r.name}
      BY <1>1, <2>4, <3>1, ExplicitIsNew, InsertKeeps DEF CreateExplicit
    <3>6. Free(c)
      BY <2>4 DEF CreateExplicit
    <3> QED
      BY <3>2, <3>4, <3>5, <3>6
  <2> HIDE DEF Explicit
  <2>5. CASE Metadata(c)
    BY <2>2, <2>3, <2>5
    DEF Metadata, MetadataRefused, MetadataAll, MetadataStart, CreateLook, CreateInsert,
        CreateDone, LookByName, LookById, MetadataDone
  <2>6. CASE Produce(c)
    BY <2>2, <2>3, <2>6 DEF Produce, ProduceLook, ProduceInsert, ProducePartition
  <2>7. CASE CreateTopics(c)
    BY <2>2, <2>4, <2>7 DEF CreateTopics, CreateRefused, CreateValidated
  <2> QED
    BY <2>1, <2>5, <2>6, <2>7
<1>2. IInv /\ [Next]_vars => [Explicit]_vars
  BY <1>1
<1> QED
  BY <1>2, Invariance, PTL DEF Spec, OnlyExplicitlyCreated

----------------------------------------------------------------------------
(* Responses are complete and free of contradictions *)

\* The catalogue holds what the code puts there.
CatalogTyped(cat) ==
  /\ DOMAIN cat.topics \subseteq ValidName
  /\ \A n \in DOMAIN cat.topics :
       cat.topics[n].id \in TopicId /\ cat.topics[n].partitions \in Nat \ {0}
  /\ DOMAIN cat.names_by_id \subseteq TopicId

AnswerRecord(a) ==
  a = [error |-> a.error, name |-> a.name, id |-> a.id, partitions |-> a.partitions]

\* CreatedIsFound of one answer.
FoundAnswer(a) ==
  a.error \in {"None", "InvalidTopicException"} /\ (a.name \in ValidName => a.error = "None")

WholeRefusal == {"InvalidRequest", "UnknownServerError"}

\* OneAnswerPerName of the answers of one request.
OneAnswer(answers) ==
  \A a, b \in answers :
    a.name = b.name /\ a.name # NoName /\ a.error \notin WholeRefusal => a = b

\* The first n topics of a request exist, as far as their names are valid.
FirstExist(topics, n, cat) ==
  \A j \in 1..n : topics[j].name \in ValidName => Exists(cat, topics[j].name)

\* How far a request has come: what it has looked up or created exists, and its
\* answers are about the topics it has reached.
Progress(t, cat) ==
  /\ t.pc \in {"create", "insert"} => FirstExist(t.topics, t.i - 1, cat)
  /\ t.pc \in {"insert", "produce_insert", "partition"} =>
       t.i <= Len(t.topics) /\ t.topics[t.i].name \in ValidName
  /\ t.pc = "partition" => Exists(cat, t.topics[t.i].name)
  /\ t.pc = "by_name" /\ t.auto => FirstExist(t.topics, Len(t.topics), cat)
  /\ t.pc = "by_id" => ~t.auto
  /\ t.pc \in {"by_name", "answered"} /\ t.auto => \A a \in t.answers : FoundAnswer(a)
  /\ t.pc = "by_name" =>
       \A a \in t.answers : \E j \in 1..(t.i - 1) : a.name = t.topics[j].name
  /\ t.pc = "by_id" => \A a \in t.answers : a.error # "None" => a.name = NoName
  /\ t.pc \notin {"by_name", "by_id", "answered"} => t.answers = {}

Steps == {"idle", "create", "insert", "by_name", "by_id", "produce_insert",
          "partition", "answered"}

\* The invariant of one request.
TaskFits(t, cat) ==
  /\ t.pc \in Steps
  /\ t.topics \in Seq(RequestedTopic)
  /\ t.i \in 1..(Len(t.topics) + 1)
  /\ \A a \in t.answers : AnswerRecord(a)
  /\ OneAnswer(t.answers)
  /\ Progress(t, cat)

\* The inductive invariant, relative to IInv.
FitInv == CatalogTyped(catalog) /\ \A c \in Connection : TaskFits(task[c], catalog)

\* A request fits a catalogue that has grown.
LEMMA FitsGrown ==
  ASSUME NEW t, TaskFits(t, catalog), Grows
  PROVE  TaskFits(t, catalog')
<1>1. \A n : Exists(catalog, n) => Exists(catalog', n)
  BY DEF Grows, Exists
<1>2. \A n : FirstExist(t.topics, n, catalog) => FirstExist(t.topics, n, catalog')
  BY <1>1 DEF FirstExist
<1>3. Progress(t, catalog')
  BY <1>1, <1>2 DEF TaskFits, Progress
<1> QED
  BY <1>3 DEF TaskFits

\* A step of one request keeps the invariant, if it leaves a typed catalogue
\* that has only grown and the request fits it.
LEMMA FitKeeps ==
  ASSUME IInv, FitInv, Grows, CatalogTyped(catalog'), NEW c \in Connection, NEW new,
         task' = [task EXCEPT ![c] = new], TaskFits(new, catalog')
  PROVE  FitInv'
<1>1. DOMAIN task = Connection
  BY DEF IInv, Shapes
<1>2. ASSUME NEW d \in Connection
      PROVE  TaskFits(task'[d], catalog')
  <2>1. CASE d = c
    BY <1>1, <2>1
  <2>2. CASE d # c
    BY <1>1, <2>2, FitsGrown DEF FitInv
  <2> QED
    BY <2>1, <2>2
<1> QED
  BY <1>2 DEF FitInv

\* The fields of the two kinds of answers.
LEMMA AnswerFields ==
  /\ \A name : /\ AnswerRecord(SuccessTopic(name))
               /\ SuccessTopic(name).error = "None" /\ SuccessTopic(name).name = name
  /\ \A error, name, id : /\ AnswerRecord(ErrorTopic(error, name, id))
                          /\ ErrorTopic(error, name, id).error = error
                          /\ ErrorTopic(error, name, id).name = name
BY DEF AnswerRecord, SuccessTopic, ErrorTopic

\* A request without answers fits, if it has made the progress its step says.
LEMMA UnansweredFits ==
  ASSUME NEW t, NEW cat, t.pc \in Steps, t.topics \in Seq(RequestedTopic),
         t.i \in 1..(Len(t.topics) + 1), t.answers = {}, Progress(t, cat)
  PROVE  TaskFits(t, cat)
<1>1. OneAnswer(t.answers) /\ \A a \in t.answers : AnswerRecord(a)
  BY Zenon DEF OneAnswer
<1> QED
  BY <1>1 DEF TaskFits

\* A finished request fits any catalogue, if its answers do not contradict each
\* other and a request that may create topics found them.
LEMMA AnsweredFits ==
  ASSUME NEW answers, NEW auto, NEW cat,
         \A a \in answers : AnswerRecord(a), OneAnswer(answers),
         auto => \A a \in answers : FoundAnswer(a)
  PROVE  TaskFits(Answered(answers, auto), cat)
<1> DEFINE t == Answered(answers, auto)
<1>1. /\ t.pc = "answered" /\ t.topics = <<>> /\ t.i = 1
      /\ t.answers = answers /\ t.auto = auto
  BY DEF Answered, Idle
<1>2. t.topics \in Seq(RequestedTopic) /\ Len(t.topics) = 0
  BY <1>1
<1> HIDE DEF t
<1>3. Progress(t, cat)
  BY <1>1 DEF Progress
<1>4. TaskFits(t, cat)
  BY <1>1, <1>2, <1>3 DEF TaskFits, Steps
<1> QED
  BY <1>4 DEF t

\* A response with one answer does not contradict itself.
LEMMA OneIsOne ==
  ASSUME NEW a, AnswerRecord(a), NEW auto, auto => FoundAnswer(a), NEW cat
  PROVE  TaskFits(Answered({a}, auto), cat)
BY AnsweredFits DEF OneAnswer

\* Two answers that both report the topic of a name are the same.
LEMMA ReportsAgree ==
  ASSUME NEW a, NEW b, AnswerRecord(a), AnswerRecord(b), TrueAfter(a), TrueAfter(b),
         a.error = "None", b.error = "None", a.name = b.name
  PROVE  a = b
<1>1. [id |-> a.id, partitions |-> a.partitions] = [id |-> b.id, partitions |-> b.partitions]
  BY DEF TrueAfter
<1>2. a.id = b.id /\ a.partitions = b.partitions
  BY <1>1
<1> QED
  BY <1>2 DEF AnswerRecord

\* A new topic with a valid name and at least one partition leaves the
\* catalogue typed.
LEMMA InsertTyped ==
  ASSUME IInv, FitInv, NEW name \in ValidName, NEW count \in Nat \ {0},
         NEW id \in FreshIds(catalog), ~Exists(catalog, name),
         catalog' = InsertTopic(catalog, name, count, id)
  PROVE  CatalogTyped(catalog')
<1>1. /\ CatalogKept
      /\ DOMAIN catalog'.topics = DOMAIN catalog.topics \cup {name}
      /\ catalog'.topics[name] = [id |-> id, partitions |-> count]
  BY InsertKeeps
<1>2. DOMAIN catalog'.names_by_id = DOMAIN catalog.names_by_id \cup {id}
  BY DEF InsertTopic
<1>3. id \in TopicId
  BY DEF FreshIds
<1>4. catalog'.topics[name].id = id /\ catalog'.topics[name].partitions = count
  BY <1>1
<1>5. ASSUME NEW n \in DOMAIN catalog'.topics
      PROVE  catalog'.topics[n].id \in TopicId /\ catalog'.topics[n].partitions \in Nat \ {0}
  BY <1>1, <1>3, <1>4 DEF FitInv, CatalogTyped, CatalogKept, Grows
<1> QED
  BY <1>1, <1>2, <1>3, <1>5 DEF FitInv, CatalogTyped

\* Automatic creation of a valid name leaves a typed catalogue that has it.
LEMMA InsertIfAbsentFits ==
  ASSUME IInv, FitInv, NEW name \in ValidName, InsertIfAbsent(name)
  PROVE  CatalogTyped(catalog') /\ Grows /\ Exists(catalog', name)
<1>1. Grows
  BY InsertIfAbsentKeeps DEF CatalogKept
<1>2. CASE Exists(catalog, name)
  BY <1>1, <1>2 DEF InsertIfAbsent, FitInv
<1>3. CASE ~Exists(catalog, name)
  <2>1. PICK id \in FreshIds(catalog) :
          catalog' = InsertTopic(catalog, name, DefaultPartitions, id)
    BY <1>3 DEF InsertIfAbsent
  <2>2. CatalogTyped(catalog')
    BY <1>3, <2>1, InsertTyped, DefaultAssumption
  <2>3. Exists(catalog', name)
    BY <1>3, <2>1, InsertKeeps DEF Exists
  <2> QED
    BY <1>1, <2>2, <2>3
<1> QED
  BY <1>2, <1>3

\* A step that leaves the catalogue alone leaves it typed.
LEMMA IdleTyped ==
  ASSUME IInv, FitInv, UNCHANGED catalog
  PROVE  CatalogTyped(catalog') /\ Grows
BY IdleKeeps DEF FitInv, CatalogKept

\* Metadata answers what it created, and one thing of a topic.
LEMMA MetadataFits ==
  ASSUME IInv, FitInv, NEW c \in Connection, Metadata(c)
  PROVE  FitInv'
<1> DEFINE t == task[c]
           cat == catalog'
<1>0. Fields \subseteq DOMAIN t /\ TaskFits(t, catalog)
  BY DEF IInv, Shapes, FitInv
<1>t. t.topics \in Seq(RequestedTopic) /\ t.i \in 1..(Len(t.topics) + 1)
  BY <1>0 DEF TaskFits
<1>n. t.i \in Nat /\ 1 <= t.i /\ t.i <= Len(t.topics) + 1 /\ Len(t.topics) \in Nat
  BY <1>t
<1>1. ASSUME NEW r \in MetadataRequest, MetadataRefused(c, r)
      PROVE  FitInv'
  <2> DEFINE answers == {ErrorTopic(RequestError(r), x.name, x.id) : x \in Elements(r.topics)}
  <2>1. task' = [task EXCEPT ![c] = Answered(answers, FALSE)] /\ UNCHANGED catalog
    BY <1>1 DEF MetadataRefused
  <2>2. RequestError(r) \in WholeRefusal
    BY <1>1 DEF MetadataRefused, RequestError, WholeRefusal
  <2>3. \A a \in answers : AnswerRecord(a) /\ a.error \in WholeRefusal
    BY <2>2, AnswerFields
  <2>4. OneAnswer(answers)
    BY <2>3 DEF OneAnswer
  <2> HIDE DEF answers
  <2>5. TaskFits(Answered(answers, FALSE), cat)
    BY <2>3, <2>4, AnsweredFits
  <2> QED
    BY <2>1, <2>5, IdleTyped, FitKeeps
<1>2. ASSUME NEW r \in MetadataRequest, MetadataAll(c, r)
      PROVE  FitInv'
  <2> DEFINE answers == {SuccessTopic(n) : n \in DOMAIN catalog.topics}
  <2>1. task' = [task EXCEPT ![c] = Answered(answers, FALSE)] /\ UNCHANGED catalog
    BY <1>2 DEF MetadataAll
  <2>2. \A a \in answers : AnswerRecord(a)
    BY AnswerFields
  <2>3. OneAnswer(answers)
    BY AnswerFields DEF OneAnswer
  <2> HIDE DEF answers
  <2>4. TaskFits(Answered(answers, FALSE), cat)
    BY <2>2, <2>3, AnsweredFits
  <2> QED
    BY <2>1, <2>4, IdleTyped, FitKeeps
<1>3. ASSUME NEW r \in MetadataRequest, MetadataStart(c, r)
      PROVE  FitInv'
  <2> DEFINE pc == IF UuidMode(r) THEN "by_id"
                   ELSE IF AllowAutoCreate(r) THEN "create" ELSE "by_name"
             auto == ~UuidMode(r) /\ AllowAutoCreate(r)
             new == [Idle EXCEPT !.pc = pc, !.topics = r.topics, !.auto = auto]
  <2>1. /\ new.pc = pc /\ new.topics = r.topics /\ new.i = 1 /\ new.answers = {}
        /\ new.auto = auto
    BY DEF Idle
  <2>2. task' = [task EXCEPT ![c] = new] /\ UNCHANGED catalog
    BY <1>3 DEF MetadataStart
  <2>3. r.topics \in Seq(RequestedTopic) /\ Len(r.topics) \in Nat
    BY RequestAssumption
  <2>4. /\ pc \in {"by_id", "create", "by_name"}
        /\ pc = "by_name" => ~auto
        /\ pc = "by_id" => ~auto
    OBVIOUS
  <2> HIDE DEF new, pc, auto
  <2>5. FirstExist(new.topics, new.i - 1, cat)
    BY <2>1 DEF FirstExist
  <2>6. new.pc \in {"by_id", "by_name"} => ~new.auto
    BY <2>1, <2>4, Zenon
  <2>7. Progress(new, cat)
    BY <2>1, <2>4, <2>5, <2>6 DEF Progress
  <2>8. TaskFits(new, cat)
    <3>1. new.pc \in Steps
      BY <2>1, <2>4 DEF Steps
    <3>2. new.topics \in Seq(RequestedTopic) /\ new.i \in 1..(Len(new.topics) + 1)
      BY <2>1, <2>3
    <3> QED
      BY <2>1, <2>7, <3>1, <3>2, UnansweredFits
  <2> QED
    BY <2>2, <2>8, IdleTyped, FitKeeps
<1>4. CASE CreateLook(c)
  <2>1. /\ t.pc = "create" /\ UNCHANGED catalog /\ t.i \in 1..Len(t.topics)
        /\ t.answers = {} /\ FirstExist(t.topics, t.i - 1, catalog)
    BY <1>0, <1>n, <1>4 DEF CreateLook, AtEnd, TaskFits, Progress
  <2>2. CASE Current(c).name \in ValidName /\ ~Exists(catalog, Current(c).name)
    <3> DEFINE new == [t EXCEPT !.pc = "insert"]
    <3>1. task' = [task EXCEPT ![c] = new]
      BY <1>4, <2>2 DEF CreateLook
    <3>2. /\ new.pc = "insert" /\ new.topics = t.topics /\ new.i = t.i
          /\ new.answers = t.answers /\ new.auto = t.auto
      BY <1>0 DEF Fields
    <3> HIDE DEF new
    <3>3. Progress(new, cat)
      BY <2>1, <2>2, <3>2 DEF Progress, Current
    <3>4. TaskFits(new, cat)
      BY <1>0, <1>t, <2>1, <3>2, <3>3 DEF TaskFits, Steps
    <3> QED
      BY <2>1, <3>1, <3>4, IdleTyped, FitKeeps
  <2>3. CASE ~(Current(c).name \in ValidName /\ ~Exists(catalog, Current(c).name))
    <3> DEFINE new == [t EXCEPT !.i = t.i + 1]
    <3>1. task' = [task EXCEPT ![c] = new]
      BY <1>4, <2>3 DEF CreateLook
    <3>2. /\ new.pc = t.pc /\ new.topics = t.topics /\ new.i = t.i + 1
          /\ new.answers = t.answers /\ new.auto = t.auto
      BY <1>0 DEF Fields
    <3>3. FirstExist(t.topics, t.i, cat)
      BY <1>0, <2>1, <2>3 DEF FirstExist, Current
    <3> HIDE DEF new
    <3>4. (t.i + 1) - 1 = t.i /\ t.i + 1 \in 1..(Len(t.topics) + 1)
      BY <1>n, <2>1
    <3>5. Progress(new, cat)
      BY <2>1, <3>2, <3>3, <3>4 DEF Progress
    <3>6. TaskFits(new, cat)
      BY <1>0, <1>t, <2>1, <3>2, <3>4, <3>5 DEF TaskFits, Steps
    <3> QED
      BY <2>1, <3>1, <3>6, IdleTyped, FitKeeps
  <2> QED
    BY <2>2, <2>3
<1>5. CASE CreateInsert(c)
  <2> DEFINE new == [t EXCEPT !.pc = "create", !.i = t.i + 1]
  <2>1. /\ t.pc = "insert" /\ InsertIfAbsent(Current(c).name)
        /\ task' = [task EXCEPT ![c] = new]
    BY <1>5 DEF CreateInsert
  <2>2. /\ t.i \in 1..Len(t.topics) /\ Current(c).name \in ValidName /\ t.answers = {}
        /\ FirstExist(t.topics, t.i - 1, catalog)
    BY <1>0, <2>1 DEF TaskFits, Progress, Current
  <2>3. CatalogTyped(cat) /\ Grows /\ Exists(cat, Current(c).name)
    BY <2>1, <2>2, InsertIfAbsentFits
  <2>4. /\ new.pc = "create" /\ new.topics = t.topics /\ new.i = t.i + 1
        /\ new.answers = t.answers /\ new.auto = t.auto
    BY <1>0 DEF Fields
  <2>5. FirstExist(t.topics, t.i - 1, cat)
    BY <2>2, <2>3 DEF FirstExist, Grows, Exists
  <2>6. FirstExist(t.topics, t.i, cat)
    BY <1>0, <2>2, <2>3, <2>5 DEF FirstExist, Current
  <2> HIDE DEF new
  <2>7. (t.i + 1) - 1 = t.i /\ t.i + 1 \in 1..(Len(t.topics) + 1)
    BY <1>n, <2>2
  <2>8. Progress(new, cat)
    BY <2>2, <2>4, <2>6, <2>7 DEF Progress
  <2>9. TaskFits(new, cat)
    BY <1>0, <1>t, <2>2, <2>4, <2>7, <2>8 DEF TaskFits, Steps
  <2> QED
    BY <2>1, <2>3, <2>9, FitKeeps
<1>6. CASE CreateDone(c)
  <2> DEFINE new == [t EXCEPT !.pc = "by_name", !.i = 1]
  <2>1. /\ t.pc = "create" /\ UNCHANGED catalog /\ t.i > Len(t.topics)
        /\ task' = [task EXCEPT ![c] = new]
    BY <1>6 DEF CreateDone, AtEnd
  <2>2. t.i - 1 = Len(t.topics)
    BY <1>n, <2>1
  <2>3. t.answers = {} /\ FirstExist(t.topics, Len(t.topics), cat)
    BY <1>0, <2>1, <2>2 DEF TaskFits, Progress
  <2>4. /\ new.pc = "by_name" /\ new.topics = t.topics /\ new.i = 1
        /\ new.answers = {} /\ new.auto = t.auto
    BY <1>0, <2>3 DEF Fields
  <2> HIDE DEF new
  <2>5. Progress(new, cat)
    BY <2>3, <2>4 DEF Progress
  <2>6. TaskFits(new, cat)
    <3>1. new.pc \in Steps
      BY <2>4 DEF Steps
    <3>2. new.topics \in Seq(RequestedTopic) /\ new.i \in 1..(Len(new.topics) + 1)
      BY <1>t, <1>n, <2>4
    <3> QED
      BY <2>4, <2>5, <3>1, <3>2, UnansweredFits
  <2> QED
    BY <2>1, <2>6, IdleTyped, FitKeeps
<1>7. CASE LookByName(c)
  <2> DEFINE name == Current(c).name
             answer == TopicByName(name)
             more == IF Repeated(c, "name") THEN {} ELSE {answer}
             new == [t EXCEPT !.i = t.i + 1, !.answers = t.answers \cup more]
  <2>0. task' = [task EXCEPT ![c] = new]
    BY <1>7 DEF LookByName
  <2>1. t.pc = "by_name" /\ UNCHANGED catalog /\ t.i \in 1..Len(t.topics)
    <3>1. t.pc = "by_name" /\ UNCHANGED catalog /\ ~AtEnd(c)
      BY <1>7 DEF LookByName
    <3> HIDE DEF new, more, answer
    <3> QED
      BY <1>n, <3>1 DEF AtEnd
  <2>2. /\ new.pc = "by_name" /\ new.topics = t.topics /\ new.i = t.i + 1
        /\ new.answers = t.answers \cup more /\ new.auto = t.auto
    BY <1>0, <2>1 DEF Fields
  <2> HIDE DEF new
  <2>3. (t.i + 1) - 1 = t.i /\ t.i + 1 \in 1..(Len(t.topics) + 1)
    BY <1>n, <2>1
  <2>4. AnswerRecord(answer) /\ answer.name = name
    BY AnswerFields DEF TopicByName
  <2>5. t.auto => FoundAnswer(answer)
    <3>1. t.auto /\ name \in ValidName => Exists(catalog, name)
      BY <1>0, <2>1 DEF TaskFits, Progress, FirstExist, Current
    <3>2. name = NoName => name \notin ValidName
      BY NoNameAssumption DEF ValidName
    <3> QED
      BY <3>1, <3>2, AnswerFields DEF TopicByName, FoundAnswer, Found
  <2>6. name = t.topics[t.i].name
    BY DEF Current
  <2>7. ~Repeated(c, "name") => \A j \in 1..(t.i - 1) : t.topics[j].name # name
    BY DEF Repeated, Current
  <2>8. ~Repeated(c, "name") => \A a \in t.answers : a.name # name
    BY <1>0, <2>1, <2>7 DEF TaskFits, Progress
  <2> HIDE DEF answer, name
  <2>9. /\ \A a \in new.answers : AnswerRecord(a)
        /\ OneAnswer(new.answers)
    BY <1>0, <2>2, <2>4, <2>8 DEF TaskFits, OneAnswer
  <2>10. \A a \in new.answers : \E j \in 1..t.i : a.name = t.topics[j].name
    <3>1. \A a \in t.answers : \E j \in 1..(t.i - 1) : a.name = t.topics[j].name
      BY <1>0, <2>1 DEF TaskFits, Progress
    <3>2. t.i \in 1..t.i /\ \A j \in 1..(t.i - 1) : j \in 1..t.i
      BY <1>n
    <3> QED
      BY <2>2, <2>4, <2>6, <3>1, <3>2, Zenon
  <2>11. t.auto => \A a \in new.answers : FoundAnswer(a)
    BY <1>0, <2>1, <2>2, <2>5 DEF TaskFits, Progress
  <2>12. t.auto => FirstExist(t.topics, Len(t.topics), cat)
    BY <1>0, <2>1 DEF TaskFits, Progress
  <2>13. Progress(new, cat)
    BY <2>2, <2>3, <2>10, <2>11, <2>12 DEF Progress
  <2>14. TaskFits(new, cat)
    BY <1>0, <1>t, <2>2, <2>3, <2>9, <2>13 DEF TaskFits, Steps
  <2> QED
    BY <2>0, <2>1, <2>14, IdleTyped, FitKeeps
<1>8. CASE LookById(c)
  <2> DEFINE answer == TopicById(Current(c).id)
             more == IF Current(c).id = NilId \/ Repeated(c, "id") THEN {} ELSE {answer}
             new == [t EXCEPT !.i = t.i + 1, !.answers = t.answers \cup more]
  <2>0. task' = [task EXCEPT ![c] = new]
    BY <1>8 DEF LookById
  <2>1. t.pc = "by_id" /\ UNCHANGED catalog /\ t.i \in 1..Len(t.topics)
    <3>1. t.pc = "by_id" /\ UNCHANGED catalog /\ ~AtEnd(c)
      BY <1>8 DEF LookById
    <3> HIDE DEF new, more, answer
    <3> QED
      BY <1>n, <3>1 DEF AtEnd
  <2>2. /\ new.pc = "by_id" /\ new.topics = t.topics /\ new.i = t.i + 1
        /\ new.answers = t.answers \cup more /\ new.auto = t.auto
    BY <1>0, <2>1 DEF Fields
  <2> HIDE DEF new
  <2>3. t.i + 1 \in 1..(Len(t.topics) + 1)
    BY <1>n, <2>1
  <2>4. AnswerRecord(answer) /\ (answer.error # "None" => answer.name = NoName)
    BY AnswerFields DEF TopicById
  <2>5. TrueAfter(answer)
    BY <2>1, SuccessIsTrue, ErrorIsTrue DEF TopicById, IInv, IndexAgrees
  <2> HIDE DEF answer
  <2>6. \A a \in new.answers : /\ AnswerRecord(a) /\ TrueAfter(a)
                               /\ a.error # "None" => a.name = NoName
    BY <1>0, <2>1, <2>2, <2>4, <2>5, IdleKeeps, AnswersStayTrue DEF TaskFits, Progress
  <2>7. OneAnswer(new.answers)
    BY <2>6, ReportsAgree DEF OneAnswer
  <2>8. ~t.auto
    BY <1>0, <2>1 DEF TaskFits, Progress
  <2>9. Progress(new, cat)
    BY <2>2, <2>6, <2>8 DEF Progress
  <2>10. TaskFits(new, cat)
    BY <1>0, <1>t, <2>2, <2>3, <2>6, <2>7, <2>9 DEF TaskFits, Steps
  <2> QED
    BY <2>0, <2>1, <2>10, IdleTyped, FitKeeps
<1>9. CASE MetadataDone(c)
  <2>1. /\ task' = [task EXCEPT ![c] = Answered(t.answers, t.auto)]
        /\ UNCHANGED catalog /\ t.pc \in {"by_name", "by_id"}
    BY <1>9 DEF MetadataDone
  <2>2. /\ \A a \in t.answers : AnswerRecord(a)
        /\ OneAnswer(t.answers)
        /\ t.auto => \A a \in t.answers : FoundAnswer(a)
    BY <1>0, <2>1 DEF TaskFits, Progress
  <2>3. TaskFits(Answered(t.answers, t.auto), cat)
    BY <2>2, AnsweredFits
  <2> QED
    BY <2>1, <2>3, IdleTyped, FitKeeps
<1> QED
  BY <1>1, <1>2, <1>3, <1>4, <1>5, <1>6, <1>7, <1>8, <1>9 DEF Metadata

\* Produce reaches partition 0 of a topic that it may create.
LEMMA ProduceFits ==
  ASSUME IInv, FitInv, NEW c \in Connection, Produce(c)
  PROVE  FitInv'
<1> DEFINE t == task[c]
           cat == catalog'
<1>0. Fields \subseteq DOMAIN t /\ TaskFits(t, catalog)
  BY DEF IInv, Shapes, FitInv
<1>t. t.topics \in Seq(RequestedTopic) /\ t.i \in 1..(Len(t.topics) + 1)
  BY <1>0 DEF TaskFits
<1>n. t.i \in Nat /\ 1 <= t.i /\ t.i <= Len(t.topics) + 1 /\ Len(t.topics) \in Nat
  BY <1>t
<1>1. ASSUME NEW p \in ProduceTopic, ProduceLook(c, p)
      PROVE  FitInv'
  <2> DEFINE pc == IF Exists(catalog, p.name) THEN "partition" ELSE "produce_insert"
             asked == [name |-> p.name, id |-> NilId]
             going == [Idle EXCEPT !.pc = pc, !.topics = <<asked>>,
                                   !.partition = p.partition, !.auto = AutoCreateTopics]
  <2>1. UNCHANGED catalog
    BY <1>1 DEF ProduceLook
  <2>2. CASE p.name \notin ValidName
    <3>1. task' = [task EXCEPT ![c] =
                     Answered({ErrorTopic("InvalidTopicException", p.name, NilId)}, FALSE)]
      BY <1>1, <2>2 DEF ProduceLook
    <3> QED
      BY <2>1, <3>1, AnswerFields, OneIsOne, IdleTyped, FitKeeps
  <2>3. CASE p.name \in ValidName /\ ~Exists(catalog, p.name) /\ ~AutoCreateTopics
    <3>1. task' = [task EXCEPT ![c] =
                     Answered({ErrorTopic("UnknownTopicOrPartition", p.name, NilId)}, FALSE)]
      BY <1>1, <2>3 DEF ProduceLook
    <3> QED
      BY <2>1, <3>1, AnswerFields, OneIsOne, IdleTyped, FitKeeps
  <2>4. CASE p.name \in ValidName /\ (Exists(catalog, p.name) \/ AutoCreateTopics)
    <3>1. task' = [task EXCEPT ![c] = going]
      BY <1>1, <2>4 DEF ProduceLook
    <3>2. /\ going.pc = pc /\ going.topics = <<asked>> /\ going.i = 1 /\ going.answers = {}
      BY DEF Idle
    <3>3. asked \in RequestedTopic /\ asked.name = p.name
      BY <2>4 DEF RequestedTopic, ValidName
    <3> HIDE DEF asked
    <3>4. /\ <<asked>> \in Seq(RequestedTopic) /\ Len(<<asked>>) = 1 /\ <<asked>>[1] = asked
      BY <3>3
    <3>5. pc \in {"partition", "produce_insert"} /\ (pc = "partition" => Exists(cat, p.name))
      BY <2>1
    <3> HIDE DEF going, pc
    <3>6. going.topics[going.i].name = p.name /\ going.i <= Len(going.topics)
      BY <3>2, <3>3, <3>4
    <3>7. Progress(going, cat)
      BY <2>4, <3>2, <3>5, <3>6 DEF Progress
    <3>8. TaskFits(going, cat)
      <4>1. going.pc \in Steps
        BY <3>2, <3>5 DEF Steps
      <4>2. going.topics \in Seq(RequestedTopic) /\ going.i \in 1..(Len(going.topics) + 1)
        BY <3>2, <3>4
      <4> QED
        BY <3>2, <3>7, <4>1, <4>2, UnansweredFits
    <3> QED
      BY <2>1, <3>1, <3>8, IdleTyped, FitKeeps
  <2> QED
    BY <2>2, <2>3, <2>4
<1>2. CASE ProduceInsert(c)
  <2> DEFINE new == [t EXCEPT !.pc = "partition"]
  <2>1. /\ t.pc = "produce_insert" /\ InsertIfAbsent(Current(c).name)
        /\ task' = [task EXCEPT ![c] = new]
    BY <1>2 DEF ProduceInsert
  <2>2. /\ t.i <= Len(t.topics) /\ Current(c).name \in ValidName /\ t.answers = {}
    BY <1>0, <2>1 DEF TaskFits, Progress, Current
  <2>3. CatalogTyped(cat) /\ Grows /\ Exists(cat, Current(c).name)
    BY <2>1, <2>2, InsertIfAbsentFits
  <2>4. /\ new.pc = "partition" /\ new.topics = t.topics /\ new.i = t.i
        /\ new.answers = t.answers /\ new.auto = t.auto
    BY <1>0 DEF Fields
  <2> HIDE DEF new
  <2>5. Progress(new, cat)
    BY <2>2, <2>3, <2>4 DEF Progress, Current
  <2>6. TaskFits(new, cat)
    BY <1>0, <1>t, <2>2, <2>4, <2>5 DEF TaskFits, Steps
  <2> QED
    BY <2>1, <2>3, <2>6, FitKeeps
<1>3. CASE ProducePartition(c)
  <2> DEFINE name == Current(c).name
             reached == /\ Exists(catalog, name)
                        /\ t.partition \in 0..(catalog.topics[name].partitions - 1)
             answer == IF reached THEN SuccessTopic(name)
                       ELSE ErrorTopic("UnknownTopicOrPartition", name, NilId)
             auto == t.auto /\ t.partition = 0
  <2>1. /\ task' = [task EXCEPT ![c] = Answered({answer}, auto)] /\ UNCHANGED catalog
        /\ t.pc = "partition"
    BY <1>3 DEF ProducePartition
  <2>2. Exists(catalog, name)
    BY <1>0, <2>1 DEF TaskFits, Progress, Current
  <2>3. catalog.topics[name].partitions \in Nat \ {0}
    BY <2>2 DEF FitInv, CatalogTyped, Exists
  <2>4. auto => reached
    BY <2>2, <2>3
  <2>5. AnswerRecord(answer) /\ (auto => answer.error = "None")
    BY <2>4, AnswerFields
  <2> HIDE DEF answer, auto
  <2>6. TaskFits(Answered({answer}, auto), cat)
    BY <2>5, OneIsOne DEF FoundAnswer
  <2> QED
    BY <2>1, <2>6, IdleTyped, FitKeeps
<1> QED
  BY <1>1, <1>2, <1>3 DEF Produce

\* CreateTopics creates topics that are valid.
LEMMA CreateTopicsFits ==
  ASSUME IInv, FitInv, NEW c \in Connection, CreateTopics(c)
  PROVE  FitInv'
<1> DEFINE cat == catalog'
<1>1. ASSUME NEW r \in CreatableTopic, CreateRefused(c, r)
      PROVE  FitInv'
  <2>1. /\ task' = [task EXCEPT ![c] =
                      Answered({ErrorTopic(CreateOneError(r), r.name, NilId)}, FALSE)]
        /\ UNCHANGED catalog
    BY <1>1 DEF CreateRefused
  <2> QED
    BY <2>1, AnswerFields, OneIsOne, IdleTyped, FitKeeps
<1>2. ASSUME NEW r \in CreatableTopic, CreateValidated(c, r)
      PROVE  FitInv'
  <2>1. task' = [task EXCEPT ![c] = Answered({}, FALSE)] /\ UNCHANGED catalog
    BY <1>2 DEF CreateValidated
  <2> DEFINE answers == {}
  <2>2. OneAnswer(answers) /\ \A a \in answers : AnswerRecord(a)
    BY Zenon DEF OneAnswer
  <2>3. TaskFits(Answered(answers, FALSE), cat)
    BY <2>2, AnsweredFits
  <2> QED
    BY <2>1, <2>3, IdleTyped, FitKeeps
<1>3. ASSUME NEW r \in CreatableTopic, CreateExplicit(c, r)
      PROVE  FitInv'
  <2>1. PICK id \in FreshIds(catalog) :
          /\ catalog' = InsertTopic(catalog, r.name, r.partitions, id)
          /\ task' = [task EXCEPT ![c] =
                        Answered({[error |-> "None", name |-> r.name, id |-> id,
                                   partitions |-> r.partitions]}, FALSE)]
    BY <1>3 DEF CreateExplicit
  <2> DEFINE answer == [error |-> "None", name |-> r.name, id |-> id,
                        partitions |-> r.partitions]
  <2>2. ~Exists(catalog, r.name)
    BY <1>3, ExplicitIsNew DEF CreateExplicit
  <2>3. r.name \in ValidName /\ r.partitions > 0
    <3>1. CreateOneError(r) = "None"
      BY <1>3 DEF CreateExplicit
    <3>2. DefinitionError(r.name, r.partitions, r.replication) = "None"
      BY <3>1 DEF CreateOneError, ExplicitError
    <3>3. r.name \in ValidName
      BY <3>2 DEF DefinitionError
    <3>4. ~(r.partitions <= 0)
      BY <3>2, <3>3 DEF DefinitionError
    <3> QED
      BY <3>3, <3>4, RequestAssumption
  <2>4. r.partitions \in Nat \ {0}
    BY <2>3, RequestAssumption
  <2>5. CatalogTyped(cat)
    BY <2>1, <2>2, <2>3, <2>4, InsertTyped
  <2>6. Grows
    BY <2>1, <2>2, InsertKeeps DEF CatalogKept
  <2>7. AnswerRecord(answer)
    BY DEF AnswerRecord
  <2>8. task' = [task EXCEPT ![c] = Answered({answer}, FALSE)]
    BY <2>1
  <2> HIDE DEF answer
  <2>9. TaskFits(Answered({answer}, FALSE), cat)
    BY <2>7, OneIsOne
  <2> QED
    BY <2>5, <2>6, <2>8, <2>9, FitKeeps
<1> QED
  BY <1>1, <1>2, <1>3 DEF CreateTopics

\* Responses are complete and do not contradict themselves, for any requests
\* and however the steps of the connections interleave: a request that may
\* create topics finds all its valid ones, because nothing ever removes a
\* topic between the two loops of topics_for_request.
THEOREM ResponsesAlwaysFit == Spec => []ResponsesFit
<1>1. Init => FitInv
  <2> SUFFICES ASSUME Init
               PROVE  FitInv
    OBVIOUS
  <2>1. /\ DOMAIN catalog.topics = {} /\ DOMAIN catalog.names_by_id = {}
        /\ task = [c \in Connection |-> Idle]
        /\ Idle.answers = {} /\ Idle.pc = "idle" /\ Idle.topics = <<>> /\ Idle.i = 1
    BY DEF Init, NewCatalog, Idle
  <2>2. CatalogTyped(catalog)
    BY <2>1 DEF CatalogTyped
  <2>3. Progress(Idle, catalog)
    BY <2>1 DEF Progress
  <2>4. TaskFits(Idle, catalog)
    <3>1. Idle.topics \in Seq(RequestedTopic) /\ Idle.i \in 1..(Len(Idle.topics) + 1)
      BY <2>1
    <3>2. Idle.pc \in Steps
      BY <2>1 DEF Steps
    <3> QED
      BY <2>1, <2>3, <3>1, <3>2, UnansweredFits
  <2> QED
    BY <2>1, <2>2, <2>4 DEF FitInv
<1>2. IInv /\ FitInv /\ [Next]_vars => FitInv'
  <2> SUFFICES ASSUME IInv, FitInv, [Next]_vars
               PROVE  FitInv'
    OBVIOUS
  <2>1. CASE Next
    BY <2>1, MetadataFits, ProduceFits, CreateTopicsFits DEF Next
  <2>2. CASE UNCHANGED vars
    BY <2>2 DEF vars, FitInv
  <2> QED
    BY <2>1, <2>2
<1>3. IInv /\ FitInv => ResponsesFit
  <2> SUFFICES ASSUME IInv, FitInv
               PROVE  ResponsesFit
    OBVIOUS
  <2>1. TypeOK
    BY DEF TypeOK, IInv, Shapes, FitInv, CatalogTyped, TaskFits, Steps
  <2>2. CreatedIsFound
    BY DEF CreatedIsFound, FitInv, TaskFits, Progress, FoundAnswer
  <2>3. OneAnswerPerName
    BY DEF OneAnswerPerName, FitInv, TaskFits, OneAnswer, WholeRefusal
  <2> QED
    BY <2>1, <2>2, <2>3 DEF ResponsesFit
<1> QED
  BY <1>1, <1>2, <1>3, Invariance, PTL DEF Spec
=============================================================================
