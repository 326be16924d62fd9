------------------------------- MODULE Group -------------------------------
(***************************************************************************)
(* The state of one consumer group and the functions of                    *)
(* src/broker/groups.rs that change it while the group's mutex is held.    *)
(* Each function `fn f(group: &mut Group, ...)` is an operator that takes  *)
(* the group as a record and returns the group it leaves behind.           *)
(*                                                                         *)
(* Abstractions.                                                           *)
(*  - An `Instant` is kept as the time left until it: a deadline is a      *)
(*    natural number, 0 once it has passed, NoDeadline for `None`.  The    *)
(*    member field session stands for last_heartbeat + session_timeout.    *)
(*  - What a JoinGroup request says about its member (client id, timeouts, *)
(*    protocol list with metadata) is a Profile.                           *)
(*  - Member ids and protocol names are numbers, ordered as the code       *)
(*    orders the strings.  The empty string is 0.                          *)
(*  - An assignment's bytes are the Plan of the SyncGroup that carried it. *)
(*  - generation_id and rebalance_epoch are unbounded: the code saturates  *)
(*    them at i32::MAX and u64::MAX.                                       *)
(*  - `notified` says that change.notify_waiters() was called since the    *)
(*    mutex was taken.  It is FALSE whenever the mutex is free.            *)
(*                                                                         *)
(* A definition whose name starts with Faulty is a slip that the operator  *)
(* after it could have had.  No specification uses it: it is substituted   *)
(* for the operator to see that a property notices.                        *)
(***************************************************************************)
EXTENDS Integers, FiniteSets, FiniteSetsExt, Sequences

CONSTANTS
  MemberId,          \* the ids that allocate_member_id can hand out
  Profile,           \* what a member can tell the group about itself
  SessionTimeout,    \* SessionTimeout[p]: session_timeout_ms of profile p
  RebalanceTimeout,  \* RebalanceTimeout[p]: rebalance_timeout_ms of profile p
  Protocols,         \* Protocols[p]: protocol names of profile p, best first
  ProtocolType,      \* the protocol types clients use
  Plan               \* the assignments a leader can compute

ASSUME MemberIdAssumption == MemberId \subseteq Nat \ {0} /\ IsFiniteSet(MemberId)
ASSUME TimeoutAssumption ==
  /\ SessionTimeout \in [Profile -> Nat]
  /\ RebalanceTimeout \in [Profile -> Nat]
ASSUME ProtocolAssumption == Protocols \in [Profile -> Seq(Nat \ {0}) \ {<<>>}]
ASSUME TypeAssumption == ProtocolType \subseteq STRING \ {""}

NoMember   == 0
NoProtocol == 0
NoType     == ""
NoDeadline == -1

EmptyMap == [x \in {} |-> x]
Without(f, S) == [x \in DOMAIN f \ S |-> f[x]]
PartialMaps(S, T) == UNION {[D -> T] : D \in SUBSET S}

GroupState == {"Empty", "PreparingRebalance", "CompletingRebalance", "Stable"}
Deadline   == Nat \cup {NoDeadline}

\* struct CompletedJoin with the JoinedGroup in it; epoch 0 stands for None.
CompletedJoin ==
  [epoch : Nat, generation : Nat, protocol : Nat,
   leader : MemberId \cup {NoMember}, members : SUBSET MemberId]
NoJoin ==
  [epoch |-> 0, generation |-> 0, protocol |-> NoProtocol,
   leader |-> NoMember, members |-> {}]

Member ==
  [profile : Profile, session : Nat, joined : Nat, synced : Int,
   completed : CompletedJoin]

IsGroup(g) ==
  /\ g \in [state : GroupState, generation : Nat, epoch : Nat,
            type : ProtocolType \cup {NoType}, selected : Nat,
            leader : MemberId \cup {NoMember}, members : {g.members},
            assignments : PartialMaps(MemberId, Plan),
            deadline : Deadline, notified : BOOLEAN]
  /\ DOMAIN g.members \subseteq MemberId
  /\ g.members \in [DOMAIN g.members -> Member]

NewGroup ==
  [state |-> "Empty", generation |-> 0, epoch |-> 0, type |-> NoType,
   selected |-> NoProtocol, leader |-> NoMember, members |-> EmptyMap,
   assignments |-> EmptyMap, deadline |-> NoDeadline, notified |-> FALSE]

----------------------------------------------------------------------------
(***************************************************************************)
(* select_protocol: every member votes for the first protocol of its list  *)
(* that all members support; most votes win, then the smallest name.       *)
(***************************************************************************)
Supported(member) == {Protocols[member.profile][i] :
                        i \in DOMAIN Protocols[member.profile]}

CommonProtocols(members) ==
  {p \in UNION {Supported(members[m]) : m \in DOMAIN members} :
     \A m \in DOMAIN members : p \in Supported(members[m])}

Preferred(member, common) ==
  LET list == Protocols[member.profile]
  IN  list[Min({i \in DOMAIN list : list[i] \in common})]

Votes(members, p) ==
  Cardinality({m \in DOMAIN members :
                 Preferred(members[m], CommonProtocols(members)) = p})

SelectProtocol(members) ==
  CHOOSE p \in CommonProtocols(members) :
    \A q \in CommonProtocols(members) :
      \/ Votes(members, p) > Votes(members, q)
      \/ Votes(members, p) = Votes(members, q) /\ p <= q

----------------------------------------------------------------------------
GroupRebalanceTimeout(g) ==
  Max({RebalanceTimeout[g.members[m].profile] : m \in DOMAIN g.members} \cup {0})

\* Slip: notify_waiters is forgotten.
FaultyBeginRebalance(g) ==
  [g EXCEPT !.epoch = @ + 1,
            !.state = "PreparingRebalance",
            !.assignments = EmptyMap,
            !.deadline = GroupRebalanceTimeout(g)]

BeginRebalance(g) ==
  [g EXCEPT !.epoch = @ + 1,
            !.state = "PreparingRebalance",
            !.assignments = EmptyMap,
            !.deadline = GroupRebalanceTimeout(g),
            !.notified = TRUE]

Ready(g) ==
  /\ g.state = "PreparingRebalance"
  /\ g.members # EmptyMap
  /\ \A m \in DOMAIN g.members : g.members[m].joined = g.epoch

\* The members with the JoinedGroup each of them is to be answered with: only
\* the leader is told who the members are (members_for_leader).
WithCompletedJoins(g, generation, protocol) ==
  [m \in DOMAIN g.members |->
     [g.members[m] EXCEPT !.completed =
        [epoch |-> g.epoch, generation |-> generation, protocol |-> protocol,
         leader |-> g.leader,
         members |-> IF m = g.leader
                     THEN {n \in DOMAIN g.members :
                             protocol \in Supported(g.members[n])}
                     ELSE {}]]]

\* The `?` of complete_rebalance_if_ready: no protocol can be selected.
CompletionFails(g) == Ready(g) /\ CommonProtocols(g.members) = {}

\* Slip: notify_waiters is forgotten.
FaultyCompleteSilently(g) ==
  IF ~Ready(g) \/ CompletionFails(g) THEN g
  ELSE LET protocol == SelectProtocol(g.members)
       IN  [g EXCEPT !.selected = protocol,
                     !.generation = @ + 1,
                     !.assignments = EmptyMap,
                     !.state = "CompletingRebalance",
                     !.deadline = GroupRebalanceTimeout(g),
                     !.members = WithCompletedJoins(g, g.generation + 1, protocol)]

\* Slip: the deadline for the SyncGroups is not set.
FaultyCompleteUntimed(g) ==
  IF ~Ready(g) \/ CompletionFails(g) THEN g
  ELSE LET protocol == SelectProtocol(g.members)
       IN  [g EXCEPT !.selected = protocol,
                     !.generation = @ + 1,
                     !.assignments = EmptyMap,
                     !.state = "CompletingRebalance",
                     !.deadline = NoDeadline,
                     !.members = WithCompletedJoins(g, g.generation + 1, protocol),
                     !.notified = TRUE]

CompleteRebalanceIfReady(g) ==
  IF ~Ready(g) \/ CompletionFails(g) THEN g
  ELSE LET protocol == SelectProtocol(g.members)
       IN  [g EXCEPT !.selected = protocol,
                     !.generation = @ + 1,
                     !.assignments = EmptyMap,
                     !.state = "CompletingRebalance",
                     !.deadline = GroupRebalanceTimeout(g),
                     !.members = WithCompletedJoins(g, g.generation + 1, protocol),
                     !.notified = TRUE]

\* Slip: the group keeps a leader that was removed.
FaultyTransitionKeepsLeader(g) ==
  IF g.members = EmptyMap
  THEN [g EXCEPT !.state = "Empty", !.leader = NoMember, !.type = NoType,
                 !.selected = NoProtocol, !.assignments = EmptyMap,
                 !.deadline = NoDeadline, !.notified = TRUE]
  ELSE IF g.state # "PreparingRebalance" THEN BeginRebalance(g)
       ELSE [g EXCEPT !.assignments = EmptyMap, !.notified = TRUE]

\* Slip: only a stable group rebalances when a member goes.
FaultyTransitionOnlyWhenStable(g) ==
  IF g.members = EmptyMap
  THEN [g EXCEPT !.state = "Empty", !.leader = NoMember, !.type = NoType,
                 !.selected = NoProtocol, !.assignments = EmptyMap,
                 !.deadline = NoDeadline, !.notified = TRUE]
  ELSE LET led == [g EXCEPT !.leader = IF @ \in DOMAIN g.members THEN @
                                       ELSE Min(DOMAIN g.members)]
       IN  IF g.state = "Stable" THEN BeginRebalance(led)
           ELSE [led EXCEPT !.assignments = EmptyMap, !.notified = TRUE]

TransitionAfterRemoval(g) ==
  IF g.members = EmptyMap
  THEN [g EXCEPT !.state = "Empty", !.leader = NoMember, !.type = NoType,
                 !.selected = NoProtocol, !.assignments = EmptyMap,
                 !.deadline = NoDeadline, !.notified = TRUE]
  ELSE LET led == [g EXCEPT !.leader = IF @ \in DOMAIN g.members THEN @
                                       ELSE Min(DOMAIN g.members)]
       IN  IF g.state # "PreparingRebalance" THEN BeginRebalance(led)
           ELSE [led EXCEPT !.assignments = EmptyMap, !.notified = TRUE]

Remove(g, S) ==
  [g EXCEPT !.members = Without(@, S), !.assignments = Without(@, S)]

----------------------------------------------------------------------------
(***************************************************************************)
(* A member is late when the current phase still waits for something from  *)
(* it: its rejoin, then its SyncGroup.                                     *)
(***************************************************************************)
Late(g, m) ==
  CASE g.state = "Empty" -> FALSE
    [] g.state = "PreparingRebalance" -> g.members[m].joined # g.epoch
    [] OTHER -> g.members[m].synced # g.generation

\* Slip: the rebalance deadline expires everyone, on time or not.
FaultyExpired(g, active) ==
  {m \in DOMAIN g.members \ {active} :
     \/ g.deadline = 0
     \/ g.state = "Stable" /\ ~Late(g, m) /\ g.members[m].session = 0}

\* expire_stale_members' filter: `active` is never expired.
Expired(g, active) ==
  {m \in DOMAIN g.members \ {active} :
     \/ g.deadline = 0 /\ Late(g, m)
     \/ g.state = "Stable" /\ ~Late(g, m) /\ g.members[m].session = 0}

ExpireStaleMembers(g, active) ==
  IF Expired(g, active) = {} THEN g
  ELSE TransitionAfterRemoval(Remove(g, Expired(g, active)))

ExtendRebalanceDeadline(g) ==
  IF GroupRebalanceTimeout(g) > g.deadline
  THEN [g EXCEPT !.deadline = GroupRebalanceTimeout(g)]
  ELSE g

\* Slip: the deadline is cleared with members still to synchronise.
FaultyClearRebalanceDeadline(g) == [g EXCEPT !.deadline = NoDeadline]

ClearRebalanceDeadlineIfAllSynced(g) ==
  IF \A m \in DOMAIN g.members : g.members[m].synced = g.generation
  THEN [g EXCEPT !.deadline = NoDeadline]
  ELSE g

\* Slip: only the sessions are watched.
FaultyExpiryDeadlines(g, active) ==
  {g.members[m].session :
     m \in {n \in DOMAIN g.members \ {active} : g.state = "Stable" /\ ~Late(g, n)}}

\* What next_expiry_deadline takes the minimum of.
ExpiryDeadlines(g, active) ==
  LET others == DOMAIN g.members \ {active}
  IN  {d \in {g.deadline} : d # NoDeadline /\ \E m \in others : Late(g, m)}
        \cup {g.members[m].session :
                m \in {n \in others : g.state = "Stable" /\ ~Late(g, n)}}

NextExpiryDeadline(g, active) ==
  IF ExpiryDeadlines(g, active) = {} THEN NoDeadline
  ELSE Min(ExpiryDeadlines(g, active))

----------------------------------------------------------------------------
RefreshHeartbeat(g, m) ==
  [g EXCEPT !.members[m].session = SessionTimeout[g.members[m].profile]]

----------------------------------------------------------------------------
(* What holds of a group whenever its mutex is free *)

Formed(g) == g.state \in {"CompletingRebalance", "Stable"}

PhaseFits(g) ==
  /\ g.state = "Empty" <=> DOMAIN g.members = {}
  /\ DOMAIN g.members # {} => g.leader \in DOMAIN g.members
  /\ DOMAIN g.assignments = IF g.state = "Stable" THEN DOMAIN g.members ELSE {}

\* Every member's last JoinGroup answer is the current generation's.
JoinsAgree(g) ==
  \A m \in DOMAIN g.members :
    /\ g.members[m].joined = g.epoch
    /\ g.members[m].completed =
         [epoch |-> g.epoch, generation |-> g.generation,
          protocol |-> g.selected, leader |-> g.leader,
          members |-> IF m = g.leader THEN DOMAIN g.members ELSE {}]

Timed(g) ==
  /\ g.state \in {"PreparingRebalance", "CompletingRebalance"} =>
       g.deadline # NoDeadline
  /\ g.state = "CompletingRebalance" =>
       g.members[g.leader].synced # g.generation
  /\ g.state = "Stable" /\ g.deadline = NoDeadline =>
       \A m \in DOMAIN g.members : g.members[m].synced = g.generation

SharesProtocol(g) ==
  /\ DOMAIN g.members # {} => CommonProtocols(g.members) # {}
  /\ Formed(g) => g.selected \in CommonProtocols(g.members)
=============================================================================
