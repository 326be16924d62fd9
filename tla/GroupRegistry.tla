--------------------------- MODULE GroupRegistry ----------------------------
(***************************************************************************)
(* How requests come by the group they act on (src/broker/groups.rs):      *)
(* `group` finds it under the read lock of the map, and group_or_insert,   *)
(* used by JoinGroup, creates it under the write lock together with the    *)
(* call that drives its deadlines.  A group is an Arc, so the requests     *)
(* that hold it go on with it whatever happens to the map; the module      *)
(* numbers these objects.  GroupCoordinator describes what happens inside  *)
(* one group, and starts from what is shown here: that all requests for a  *)
(* group id meet in one object, which has one driver.                      *)
(***************************************************************************)
EXTENDS Integers

CONSTANTS
  Caller,       \* the connections whose requests look for a group
  GroupId,
  NoGroup,
  MaxObjects    \* bounds the objects ever created

ASSUME ObjectsAssumption == MaxObjects \in Nat
ASSUME NoGroupAssumption == NoGroup \notin Nat /\ NoGroup \notin GroupId

VARIABLES
  groups,    \* groups[g]: the object that the map holds for g, or NoGroup
  objects,   \* how many objects were created
  drivers,   \* drivers[o]: how many deadline drivers were started for object o
  call       \* call[c]: the request that connection c is serving

groups_vars == <<groups, objects, drivers, call>>

Object == 1..MaxObjects

NoCall == [pc |-> "idle", group_id |-> NoGroup, holds |-> NoGroup]

GroupsInit ==
  /\ groups = [g \in GroupId |-> NoGroup]
  /\ objects = 0
  /\ drivers = [o \in Object |-> 0]
  /\ call = [c \in Caller |-> NoCall]

Step(c, pc, g, o) ==
  call' = [call EXCEPT ![c] = [pc |-> pc, group_id |-> g, holds |-> o]]

\* join: group_or_insert finds the group, or goes on to the write lock.
JoinLook(c, g) ==
  /\ call[c].pc = "idle"
  /\ IF groups[g] # NoGroup THEN Step(c, "holds", g, groups[g])
     ELSE Step(c, "insert", g, NoGroup)
  /\ UNCHANGED <<groups, objects, drivers>>

\* Group::new, the insertion, and tokio::spawn of the driver.
NewGroup(g) ==
  /\ objects < MaxObjects
  /\ objects' = objects + 1
  /\ groups' = [groups EXCEPT ![g] = objects + 1]
  /\ drivers' = [drivers EXCEPT ![objects + 1] = 1]

\* A slip: the entry is overwritten, without a look whether it is vacant.
FaultyJoinInsert(c) ==
  /\ call[c].pc = "insert"
  /\ NewGroup(call[c].group_id)
  /\ Step(c, "holds", call[c].group_id, objects + 1)

\* A slip: every request that comes here starts a driver.
FaultyOccupied(c) ==
  /\ groups[call[c].group_id] # NoGroup
  /\ drivers' = [drivers EXCEPT ![groups[call[c].group_id]] = @ + 1]
  /\ Step(c, "holds", call[c].group_id, groups[call[c].group_id])
  /\ UNCHANGED <<groups, objects>>

\* The entry is occupied by now.
Occupied(c) ==
  /\ groups[call[c].group_id] # NoGroup
  /\ Step(c, "holds", call[c].group_id, groups[call[c].group_id])
  /\ UNCHANGED <<groups, objects, drivers>>

\* The entry is vacant.
Vacant(c) ==
  /\ groups[call[c].group_id] = NoGroup
  /\ NewGroup(call[c].group_id)
  /\ Step(c, "holds", call[c].group_id, objects + 1)

JoinInsert(c) == call[c].pc = "insert" /\ (Occupied(c) \/ Vacant(c))

\* sync, heartbeat, leave, commit_offsets, describe, fetch_offsets: a group
\* that is not there is an error, which changes nothing.
Find(c, g) ==
  /\ call[c].pc = "idle"
  /\ groups[g] # NoGroup
  /\ Step(c, "holds", g, groups[g])
  /\ UNCHANGED <<groups, objects, drivers>>

\* The request is answered, and the object dropped.
Answer(c) ==
  /\ call[c].pc = "holds"
  /\ call' = [call EXCEPT ![c] = NoCall]
  /\ UNCHANGED <<groups, objects, drivers>>

GroupsNext ==
  \E c \in Caller :
    \/ \E g \in GroupId : JoinLook(c, g) \/ Find(c, g)
    \/ JoinInsert(c) \/ Answer(c)

GroupsSpec == GroupsInit /\ [][GroupsNext]_groups_vars

----------------------------------------------------------------------------
\* The map, the objects and the tasks have their types; a request that goes
\* on has an object to go on with.
GroupsTypeOK ==
  /\ objects \in 0..MaxObjects
  /\ groups \in [GroupId -> (1..objects) \cup {NoGroup}]
  /\ drivers \in [Object -> Nat]
  /\ call \in [Caller -> [pc : {"idle", "insert", "holds"},
                             group_id : GroupId \cup {NoGroup},
                             holds : (1..objects) \cup {NoGroup}]]
  /\ \A c \in Caller : call[c].pc = "holds" => call[c].holds # NoGroup

\* Two requests for one group id hold the same object, the one in the map,
\* also when both found the map without it and raced to create it; and
\* different group ids have different objects.
OneObjectPerGroup ==
  /\ \A c \in Caller : call[c].pc = "holds" => call[c].holds = groups[call[c].group_id]
  /\ \A g, h \in GroupId : groups[g] = groups[h] /\ groups[g] # NoGroup => g = h

\* Every object that was created is in the map and has one deadline driver:
\* none is left without, and none has two.
OneDriverPerObject ==
  \A o \in Object :
    IF o <= objects THEN drivers[o] = 1 /\ \E g \in GroupId : groups[g] = o
    ELSE drivers[o] = 0
=============================================================================
