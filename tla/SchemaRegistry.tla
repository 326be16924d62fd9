--------------------------- MODULE SchemaRegistry ---------------------------
(***************************************************************************)
(* The schema registry (src/schema_registry.rs).  Each operation holds     *)
(* the registry's lock from its first read to its last write, so it is one *)
(* step.  Only register changes the store; the reads are operators, and a  *)
(* request that is refused changes nothing.                                *)
(*                                                                         *)
(* `told` remembers every registration that was answered: serializers      *)
(* cache the id of a schema, deserializers the schema of an id, for as     *)
(* long as they live.                                                      *)
(*                                                                         *)
(* The operators named Faulty... are slips the code avoids; they show      *)
(* which property would notice.                                            *)
(***************************************************************************)
EXTENDS Integers, Sequences

CONSTANTS
  Subject,
  Schema,        \* texts
  ValidSchema,   \* those that SchemaRequest::validate accepts
  MaxSchemaId,   \* i32::MAX
  NotFound       \* SubjectNotFound, VersionNotFound, SchemaNotFound

ASSUME MaxAssumption == MaxSchemaId \in Nat \ {0}
ASSUME SchemaAssumption == ValidSchema \subseteq Schema

VARIABLES
  next_schema_id,
  schemas_by_text,
  schemas_by_id,
  subjects,   \* subjects[s]: the versions of s; an absent subject has none
  told        \* the registrations that clients know of

schema_vars == <<next_schema_id, schemas_by_text, schemas_by_id, subjects, told>>

RegisteredSchema ==
  [subject : Subject, version : Nat \ {0}, id : 1..MaxSchemaId, schema : Schema]

ASSUME NotFoundAssumption == NotFound \notin RegisteredSchema

SchemaInit ==
  /\ next_schema_id = 1
  /\ schemas_by_text = [t \in {} |-> 0]
  /\ schemas_by_id = [i \in {} |-> i]
  /\ subjects = [s \in Subject |-> <<>>]
  /\ told = {}

----------------------------------------------------------------------------
(* The reads.  Where the code takes the first element that fits, so does   *)
(* First.                                                                  *)

First(versions, Fits(_)) ==
  IF \E v \in 1..Len(versions) : Fits(versions[v])
  THEN versions[CHOOSE v \in 1..Len(versions) :
                  Fits(versions[v]) /\ \A w \in 1..(v - 1) : ~Fits(versions[w])]
  ELSE NotFound

\* A slip: the subject's schema is looked for in its last version only.
FaultyLookup(s, t) ==
  IF subjects[s] # <<>> /\ subjects[s][Len(subjects[s])].schema = t
  THEN subjects[s][Len(subjects[s])] ELSE NotFound

Lookup(s, t) == First(subjects[s], LAMBDA r : r.schema = t)

Version(s, n) == First(subjects[s], LAMBDA r : r.version = n)

Latest(s) == IF subjects[s] = <<>> THEN NotFound ELSE subjects[s][Len(subjects[s])]

SchemaById(i) == IF i \in DOMAIN schemas_by_id THEN schemas_by_id[i] ELSE NotFound

SchemaVersionsById(i) ==
  UNION {{r \in {subjects[s][v] : v \in 1..Len(subjects[s])} : r.id = i} : s \in Subject}

----------------------------------------------------------------------------
(* register *)

\* The subject has the schema: it is returned as it is.
RegisterAgain(s, t) ==
  /\ Lookup(s, t) # NotFound
  /\ told' = told \cup {Lookup(s, t)}
  /\ UNCHANGED <<next_schema_id, schemas_by_text, schemas_by_id, subjects>>

NextVersion(s) == Len(subjects[s]) + 1

AddVersion(s, t, id) ==
  LET registered == [subject |-> s, version |-> NextVersion(s), id |-> id, schema |-> t]
  IN  /\ subjects' = [subjects EXCEPT ![s] = Append(subjects[s], registered)]
      /\ told' = told \cup {registered}

\* The schema takes the next id in both indexes.
NewId(t) ==
  /\ next_schema_id' = next_schema_id + 1
  /\ schemas_by_text' = [u \in DOMAIN schemas_by_text \cup {t} |->
                           IF u = t THEN next_schema_id ELSE schemas_by_text[u]]
  /\ schemas_by_id' = [i \in DOMAIN schemas_by_id \cup {next_schema_id} |->
                         IF i = next_schema_id THEN t ELSE schemas_by_id[i]]

\* A slip: the subject's new version takes a new id.
FaultyRegisterShared(s, t) ==
  /\ Lookup(s, t) = NotFound
  /\ t \in DOMAIN schemas_by_text
  /\ next_schema_id < MaxSchemaId
  /\ NewId(t)
  /\ AddVersion(s, t, next_schema_id)

\* Another subject has the schema, and with it an id.
RegisterShared(s, t) ==
  /\ Lookup(s, t) = NotFound
  /\ t \in DOMAIN schemas_by_text
  /\ AddVersion(s, t, schemas_by_text[t])
  /\ UNCHANGED <<next_schema_id, schemas_by_text, schemas_by_id>>

\* The schema is new.  At the end of the id space checked_add fails, and the
\* handler panics before it has stored anything: the last id is never used.
RegisterNew(s, t) ==
  /\ Lookup(s, t) = NotFound
  /\ t \notin DOMAIN schemas_by_text
  /\ next_schema_id < MaxSchemaId
  /\ NewId(t)
  /\ AddVersion(s, t, next_schema_id)

Validate(t) == t \in ValidSchema

Register(s, t) ==
  Validate(t) /\ (RegisterAgain(s, t) \/ RegisterShared(s, t) \/ RegisterNew(s, t))

SchemaNext == \E s \in Subject, t \in Schema : Register(s, t)

SchemaSpec == SchemaInit /\ [][SchemaNext]_schema_vars

----------------------------------------------------------------------------
\* The store and the replies have the types that the code declares; no id
\* overflows.
SchemaTypeOK ==
  /\ next_schema_id \in 1..MaxSchemaId
  /\ schemas_by_text \in [DOMAIN schemas_by_text -> 1..MaxSchemaId]
  /\ DOMAIN schemas_by_text \subseteq ValidSchema
  /\ schemas_by_id \in [DOMAIN schemas_by_id -> ValidSchema]
  /\ subjects \in [Subject -> Seq(RegisteredSchema)]
  /\ told \subseteq RegisteredSchema

\* The two indexes are each other's inverse, and the ids handed out are the
\* ones below the next.
IdsAgree ==
  /\ DOMAIN schemas_by_id = 1..(next_schema_id - 1)
  /\ \A t \in DOMAIN schemas_by_text :
       /\ schemas_by_text[t] \in DOMAIN schemas_by_id
       /\ schemas_by_id[schemas_by_text[t]] = t
  /\ \A i \in DOMAIN schemas_by_id :
       /\ schemas_by_id[i] \in DOMAIN schemas_by_text
       /\ schemas_by_text[schemas_by_id[i]] = i

\* Versions of a subject are numbered 1, 2, ... without a gap, no two of
\* them have the same schema, and each has the id of its schema.
VersionsAgree ==
  \A s \in Subject : \A v \in 1..Len(subjects[s]) :
    LET r == subjects[s][v]
    IN  /\ r.subject = s /\ r.version = v
        /\ r.schema \in DOMAIN schemas_by_text /\ r.id = schemas_by_text[r.schema]
        /\ \A w \in 1..(v - 1) : subjects[s][w].schema # r.schema

\* The indexes that register updates one by one never drift apart, up to the
\* last id.
StoreAgrees == SchemaTypeOK /\ IdsAgree /\ VersionsAgree

\* Every read gives a client what its registration told it, however many
\* schemas and subjects were registered since.
ReadsReturnTold ==
  \A r \in told :
    /\ Lookup(r.subject, r.schema) = r
    /\ Version(r.subject, r.version) = r
    /\ SchemaById(r.id) = r.schema
    /\ r \in SchemaVersionsById(r.id)
    /\ Latest(r.subject).version >= r.version

\* Two clients that registered the same schema were told the same id,
\* whatever the subject, and different schemas have different ids; within a
\* subject the same holds of versions.
ToldAgree ==
  \A r, q \in told :
    /\ (r.id = q.id) <=> (r.schema = q.schema)
    /\ r.subject = q.subject => ((r.version = q.version) <=> (r.schema = q.schema))

\* The versions of a subject only grow at the end, and no schema changes its
\* id.
StoreOnlyGrows ==
  [][/\ \A s \in Subject : \A v \in 1..Len(subjects[s]) :
          v <= Len(subjects'[s]) /\ subjects'[s][v] = subjects[s][v]
     /\ \A i \in DOMAIN schemas_by_id :
          i \in DOMAIN schemas_by_id' /\ schemas_by_id'[i] = schemas_by_id[i]]_schema_vars
=============================================================================
