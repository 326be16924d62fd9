-------------------------- MODULE GroupCoordinator --------------------------
(***************************************************************************)
(* GroupCoordinator of src/broker/groups.rs for one group: the requests of *)
(* concurrent connections, the deadline driver and the passing of time.    *)
(*                                                                         *)
(* A connection serves one request at a time.  JoinGroup and SyncGroup may *)
(* wait, so a connection has a task record that says how far its request   *)
(* has come; the other requests hold the group's mutex once, from start to *)
(* end, and are single steps.  Between two locks anything may happen: the  *)
(* pending-id lookup, the membership lookup, the join itself and the       *)
(* removal of the pending id are four separate steps, as in the code.      *)
(*                                                                         *)
(* A waiting task holds a `notified_owned()` future, created before the    *)
(* mutex is released, and the deadline computed with it: woken says that   *)
(* notify_waiters() was called since, wait is the time left.               *)
(*                                                                         *)
(* An intermediate state of the group is bound with \E g \in {...} and not *)
(* with LET, which means the same but makes TLC compute it once.           *)
(***************************************************************************)
EXTENDS Group

CONSTANTS
  NoProfile,    \* the profile of a task without a JoinGroup
  Connection,   \* the connections that carry JoinGroup and SyncGroup
  MaxEpoch      \* clients start no JoinGroup once this epoch's rebalance is over

ASSUME NoProfileAssumption == NoProfile \notin Profile
ASSUME MaxEpochAssumption == MaxEpoch \in Nat

VARIABLES
  group,      \* the group, as its mutex guards it
  pending,    \* pending_member_ids
  task,       \* task[c]: the request connection c is serving
  driver,     \* drive_group_deadlines' wait
  committed,  \* generation named by the last accepted OffsetCommit, 0 if none
  delivered   \* history: plans that SyncGroup answered with, this generation

vars == <<group, pending, task, driver, committed, delivered>>

NoPlan == [plans |-> EmptyMap, repeated |-> FALSE]

Idle ==
  [pc |-> "idle", member |-> NoMember, profile |-> NoProfile, type |-> NoType,
   mayAdd |-> FALSE, epoch |-> 0, generation |-> 0, plan |-> NoPlan,
   wait |-> NoDeadline, woken |-> FALSE]

Init ==
  /\ group = NewGroup
  /\ pending = {}
  /\ task = [c \in Connection |-> Idle]
  /\ driver = [wait |-> NoDeadline, woken |-> TRUE]
  /\ committed = 0
  /\ delivered = {}

----------------------------------------------------------------------------
Asleep(t) == t.pc \in {"joining", "syncing"}
Awake(w) == w.woken \/ w.wait = 0

(***************************************************************************)
(* Releasing the mutex with the group in state g: everyone who was waiting *)
(* is woken when notify_waiters() was called.  The task of c becomes t.    *)
(***************************************************************************)
Woken(w, g) == [w EXCEPT !.woken = @ \/ g.notified]

Unlock(g, answers) ==
  /\ group' = [g EXCEPT !.notified = FALSE]
  /\ delivered' = (IF g.generation = group.generation THEN delivered ELSE {})
                    \cup answers

Notified(g) == [d \in Connection |->
                  IF Asleep(task[d]) THEN Woken(task[d], g) ELSE task[d]]

UnlockFrom(c, t, g) ==
  \E left \in {g} :
    /\ Unlock(left, {})
    /\ task' = [Notified(left) EXCEPT ![c] = t]
    /\ driver' = Woken(driver, left)

\* UnlockFrom for an answer that carries m's assignment.
UnlockWithAssignment(c, m, g) ==
  \E left \in {g} :
    /\ Unlock(left, {left.assignments[n] : n \in {m} \cap DOMAIN left.assignments})
    /\ task' = [Notified(left) EXCEPT ![c] = Idle]
    /\ driver' = Woken(driver, left)

\* The single-step requests: no connection's task is involved.
UnlockRequest(g) ==
  \E left \in {g} :
    /\ Unlock(left, {})
    /\ task' = Notified(left)
    /\ driver' = Woken(driver, left)

\* Waits for a notification or the next expiry that concerns someone else.
Sleeping(t, g) ==
  [t EXCEPT !.woken = FALSE, !.wait = NextExpiryDeadline(g, t.member)]

----------------------------------------------------------------------------
(* JoinGroup *)

StartsRebalance(g) == g.state # "PreparingRebalance"

\* The bound on the rebalances that clients cause.  Newcomers that find the
\* last one in progress may still join it, as often as they like.
MayJoin ==
  \/ group.epoch < MaxEpoch
  \/ group.epoch = MaxEpoch /\ ~StartsRebalance(group)

\* allocate_member_id's counter never repeats an id.  Of the finitely many ids
\* here, one that nothing names any more stands for the next new one: no later
\* answer depends on what a member was called that is gone.
NewIds ==
  MemberId \ (pending \cup DOMAIN group.members
                 \cup {task[c].member : c \in Connection})

\* Without a member id: allocate one, remember it and answer MemberIdRequired.
JoinWithoutId ==
  /\ MayJoin
  /\ \E m \in NewIds : pending' = pending \cup {m}
  /\ UNCHANGED <<group, task, driver, committed, delivered>>

\* With one: look it up among the pending ids.
JoinStart(c, m, p, type) ==
  /\ task[c] = Idle
  /\ MayJoin
  /\ task' = [task EXCEPT ![c] =
                [Idle EXCEPT !.pc = IF m \in pending THEN "lock" ELSE "known",
                             !.member = m, !.profile = p, !.type = type,
                             !.mayAdd = m \in pending]]
  /\ UNCHANGED <<group, pending, driver, committed, delivered>>

\* An id that is not pending must be a member's.
JoinCheckKnown(c) ==
  /\ task[c].pc = "known"
  /\ task' = [task EXCEPT ![c] =
                IF task[c].member \in DOMAIN group.members
                THEN [@ EXCEPT !.pc = "lock"] ELSE Idle]
  /\ UNCHANGED <<group, pending, driver, committed, delivered>>

JoinRefused(g, t) ==
  \/ ~t.mayAdd /\ t.member \notin DOMAIN g.members
  \/ g.members # EmptyMap /\ g.type # t.type

HasCachedJoin(g, t) ==
  /\ \/ g.state = "CompletingRebalance"
     \/ g.state = "Stable" /\ g.leader # t.member
  /\ t.member \in DOMAIN g.members
  /\ g.members[t.member].profile = t.profile
  /\ g.members[t.member].completed.epoch = g.epoch

TargetEpoch(g) == IF StartsRebalance(g) THEN g.epoch + 1 ELSE g.epoch

\* The members once t's member has (re)joined.
ProspectiveMembers(g, t) ==
  LET m == t.member
      prior == m \in DOMAIN g.members
      joiner == [profile |-> t.profile,
                 session |-> SessionTimeout[t.profile],
                 joined |-> TargetEpoch(g),
                 synced |-> IF prior THEN g.members[m].synced ELSE -1,
                 completed |-> IF prior THEN g.members[m].completed ELSE NoJoin]
  IN  [n \in DOMAIN g.members \cup {m} |->
         IF n = m THEN joiner ELSE g.members[n]]

\* The group once they are installed, before complete_rebalance_if_ready.
WithJoiner(g, t) ==
  LET installed == [g EXCEPT !.members = ProspectiveMembers(g, t)]
      timed == IF StartsRebalance(g) THEN BeginRebalance(installed)
               ELSE IF t.mayAdd THEN ExtendRebalanceDeadline(installed)
               ELSE installed
  IN  [timed EXCEPT !.type = t.type,
                    !.leader = IF @ = NoMember THEN t.member ELSE @]

\* Slip: the members before the join are checked.
FaultyNoCommonProtocol(g, t) ==
  DOMAIN g.members # {} /\ CommonProtocols(g.members) = {}

NoCommonProtocol(g, t) == CommonProtocols(ProspectiveMembers(g, t)) = {}

Join(c) ==
  /\ task[c].pc = "lock"
  /\ \E t \in {task[c]}, g \in {ExpireStaleMembers(group, NoMember)} :
         \/ /\ JoinRefused(g, t)
            /\ UnlockFrom(c, Idle, g)
         \/ /\ ~JoinRefused(g, t)
            /\ HasCachedJoin(g, t)
            /\ UnlockFrom(c, Idle, RefreshHeartbeat(g, t.member))
         \/ /\ ~JoinRefused(g, t)
            /\ ~HasCachedJoin(g, t)
            /\ NoCommonProtocol(g, t)
            /\ UnlockFrom(c, Idle, g)
         \/ /\ ~JoinRefused(g, t)
            /\ ~HasCachedJoin(g, t)
            /\ ~NoCommonProtocol(g, t)
            /\ \E joined \in {WithJoiner(g, t)} :
                 UnlockFrom(c, IF CompletionFails(joined) THEN Idle
                               ELSE [t EXCEPT !.pc = "unpend",
                                              !.epoch = TargetEpoch(g)],
                            CompleteRebalanceIfReady(joined))
  /\ UNCHANGED <<pending, committed>>

\* Slip: the id stays pending.
FaultyJoinUnpend(c) ==
  /\ task[c].pc = "unpend"
  /\ task' = [task EXCEPT ![c].pc = "joining", ![c].woken = TRUE]
  /\ UNCHANGED <<group, pending, driver, committed, delivered>>

\* The id is no longer pending; the first round of the waiting loop is next.
JoinUnpend(c) ==
  /\ task[c].pc = "unpend"
  /\ pending' = pending \ {task[c].member}
  /\ task' = [task EXCEPT ![c].pc = "joining", ![c].woken = TRUE]
  /\ UNCHANGED <<group, driver, committed, delivered>>

HasCompletedJoin(g, t) ==
  /\ t.member \in DOMAIN g.members
  /\ g.members[t.member].completed.epoch = t.epoch

\* One round of the waiting loop of join.
JoinPoll(c) ==
  /\ task[c].pc = "joining"
  /\ Awake(task[c])
  /\ \E t \in {task[c]} :
         \/ /\ \/ HasCompletedJoin(group, t)
               \/ t.member \notin DOMAIN group.members
               \/ group.epoch # t.epoch
            /\ UnlockFrom(c, Idle, group)
         \/ /\ ~HasCompletedJoin(group, t)
            /\ t.member \in DOMAIN group.members
            /\ group.epoch = t.epoch
            /\ \E expired \in {ExpireStaleMembers(group, t.member)} :
               \E g \in {CompleteRebalanceIfReady(expired)} :
                 UnlockFrom(c, IF CompletionFails(expired) \/ HasCompletedJoin(g, t)
                               THEN Idle ELSE Sleeping(t, g), g)
  /\ UNCHANGED <<pending, committed>>

----------------------------------------------------------------------------
(* SyncGroup *)

\* Slip: an earlier generation is accepted.
FaultyValidMemberAndGeneration(g, m, generation) ==
  m \in DOMAIN g.members /\ generation <= g.generation

ValidMemberAndGeneration(g, m, generation) ==
  m \in DOMAIN g.members /\ g.generation = generation

\* The leader must assign to every member, to nobody else, and once.
ValidAssignment(g, plan) ==
  ~plan.repeated /\ DOMAIN plan.plans = DOMAIN g.members

MarkSynced(g, m) == [g EXCEPT !.members[m].synced = g.generation]

\* The leader's assignments make the generation stable; the sessions of the
\* members that are already waiting for them start now.
InstallAssignments(g, t) ==
  LET synced == MarkSynced(g, t.member).members
  IN  ClearRebalanceDeadlineIfAllSynced(
        [g EXCEPT !.members =
                    [m \in DOMAIN g.members |->
                       IF synced[m].synced = g.generation
                       THEN [synced[m] EXCEPT !.session =
                               SessionTimeout[synced[m].profile]]
                       ELSE synced[m]],
                  !.assignments = t.plan.plans,
                  !.state = "Stable",
                  !.notified = TRUE])

\* Slip: a leader that synchronises again replaces the plan.
FaultySyncStableReplaces(g, t) ==
  [ClearRebalanceDeadlineIfAllSynced(MarkSynced(g, t.member))
     EXCEPT !.notified = TRUE,
            !.assignments = IF t.member = g.leader /\ ValidAssignment(g, t.plan)
                            THEN t.plan.plans ELSE @]

\* A member that synchronises with a generation that is already stable.  What
\* it sends is ignored.
SyncStable(g, t) ==
  [ClearRebalanceDeadlineIfAllSynced(MarkSynced(g, t.member))
     EXCEPT !.notified = TRUE]

\* One round of sync's loop, once the stale members are gone and, in the first
\* round, the caller's heartbeat is refreshed.
SyncRound(c, t, g) ==
  \/ /\ \/ ~ValidMemberAndGeneration(g, t.member, t.generation)
        \/ g.state \in {"Empty", "PreparingRebalance"}
     /\ UnlockFrom(c, Idle, g)
  \/ /\ ValidMemberAndGeneration(g, t.member, t.generation)
     /\ g.state = "Stable"
     /\ UnlockWithAssignment(c, t.member, SyncStable(g, t))
  \/ /\ ValidMemberAndGeneration(g, t.member, t.generation)
     /\ g.state = "CompletingRebalance"
     /\ t.member = g.leader
     /\ IF ValidAssignment(g, t.plan)
        THEN UnlockWithAssignment(c, t.member, InstallAssignments(g, t))
        ELSE UnlockFrom(c, Idle, g)
  \/ /\ ValidMemberAndGeneration(g, t.member, t.generation)
     /\ g.state = "CompletingRebalance"
     /\ t.member # g.leader
     /\ \E synced \in {MarkSynced(g, t.member)} :
            UnlockFrom(c, Sleeping(t, synced), synced)

Sync(c, m, generation, plan) ==
  /\ task[c] = Idle
  /\ \E g \in {ExpireStaleMembers(group, NoMember)} :
     \E refreshed \in {IF ValidMemberAndGeneration(g, m, generation)
                       THEN RefreshHeartbeat(g, m) ELSE g} :
       SyncRound(c, [Idle EXCEPT !.pc = "syncing", !.member = m,
                                 !.generation = generation, !.plan = plan],
                 refreshed)
  /\ UNCHANGED <<pending, committed>>

SyncPoll(c) ==
  /\ task[c].pc = "syncing"
  /\ Awake(task[c])
  /\ \E g \in {ExpireStaleMembers(group, task[c].member)} :
       SyncRound(c, task[c], g)
  /\ UNCHANGED <<pending, committed>>

----------------------------------------------------------------------------
(* The requests that lock the group once *)

Heartbeat(m, generation) ==
  /\ \E g \in {ExpireStaleMembers(group, NoMember)} :
         UnlockRequest(IF ValidMemberAndGeneration(g, m, generation)
                       THEN RefreshHeartbeat(g, m) ELSE g)
  /\ UNCHANGED <<pending, committed>>

Leave(m) ==
  /\ \E g \in {ExpireStaleMembers(group, NoMember)} :
         UnlockRequest(
           IF m \in DOMAIN g.members
           THEN CompleteRebalanceIfReady(TransitionAfterRemoval(Remove(g, {m})))
           ELSE g)
  /\ UNCHANGED <<pending, committed>>

CommitOffsets(m, generation) ==
  /\ \E g \in {ExpireStaleMembers(group, NoMember)} :
         /\ UnlockRequest(g)
         /\ committed' = IF /\ ValidMemberAndGeneration(g, m, generation)
                            /\ g.state = "Stable"
                         THEN generation ELSE committed
  /\ UNCHANGED pending

\* describe: a read that expires stale members first.
Describe ==
  /\ UnlockRequest(ExpireStaleMembers(group, NoMember))
  /\ UNCHANGED <<pending, committed>>

----------------------------------------------------------------------------
\* One round of drive_group_deadlines.
DriveDeadlines ==
  /\ Awake(driver)
  /\ \E expired \in {ExpireStaleMembers(group, NoMember)} :
     \E g \in {CompleteRebalanceIfReady(expired)} :
         /\ Unlock(g, {})
         /\ task' = Notified(g)
         /\ driver' = [wait |-> NextExpiryDeadline(g, NoMember), woken |-> FALSE]
  /\ UNCHANGED <<pending, committed>>

Elapsed(d) == IF d > 0 THEN d - 1 ELSE d

Tick ==
  /\ group' = [group EXCEPT
       !.deadline = Elapsed(@),
       !.members = [m \in DOMAIN group.members |->
                      [group.members[m] EXCEPT !.session = Elapsed(@)]]]
  /\ task' = [c \in Connection |-> [task[c] EXCEPT !.wait = Elapsed(@)]]
  /\ driver' = [driver EXCEPT !.wait = Elapsed(@)]
  /\ <<group, task, driver>>' # <<group, task, driver>>
  /\ UNCHANGED <<pending, committed, delivered>>

----------------------------------------------------------------------------
\* What a SyncGroup carries: the leader of the named generation sends a plan
\* for some members, or one that names a member twice; the others send none.
SyncPlans(m, generation) ==
  {NoPlan} \cup
  {plan \in
     [plans : UNION {PartialMaps(MemberId, {p}) : p \in Plan}, repeated : {FALSE}]
     \cup [plans : UNION {[DOMAIN group.members -> {p}] : p \in Plan},
           repeated : {TRUE}] :
     m = group.leader /\ generation = group.generation}

MembershipRequest ==
  \/ JoinWithoutId
  \/ \E c \in Connection, m \in MemberId, p \in Profile, type \in ProtocolType :
       JoinStart(c, m, p, type)
  \/ \E c \in Connection, m \in MemberId, generation \in 0..group.generation :
       \E plan \in SyncPlans(m, generation) : Sync(c, m, generation, plan)
  \/ \E m \in MemberId, generation \in 0..group.generation : Heartbeat(m, generation)
  \/ \E m \in MemberId : Leave(m)

Request ==
  \/ MembershipRequest
  \/ \E m \in MemberId, generation \in 0..group.generation :
       CommitOffsets(m, generation)
  \/ Describe

Progress(c) == JoinCheckKnown(c) \/ Join(c) \/ JoinUnpend(c) \/ JoinPoll(c) \/ SyncPoll(c)

Next ==
  \/ Request
  \/ \E c \in Connection : Progress(c)
  \/ DriveDeadlines
  \/ Tick

Spec == Init /\ [][Next]_vars

\* The runtime polls every ready task, and time passes; clients owe nothing.
Fairness ==
  /\ \A c \in Connection : WF_vars(Progress(c))
  /\ WF_vars(DriveDeadlines)
  /\ WF_vars(Tick)

FairSpec == Spec /\ Fairness

----------------------------------------------------------------------------
(* Safety *)

Task ==
  [pc : {"idle", "known", "lock", "unpend", "joining", "syncing"},
   member : MemberId \cup {NoMember}, profile : Profile \cup {NoProfile},
   type : ProtocolType \cup {NoType}, mayAdd : BOOLEAN, epoch : Nat,
   generation : Nat,
   plan : [plans : PartialMaps(MemberId, Plan), repeated : BOOLEAN],
   wait : Deadline, woken : BOOLEAN]

\* Every variable has its type, and the mutex is free between steps.
TypeOK ==
  /\ IsGroup(group)
  /\ ~group.notified
  /\ pending \subseteq MemberId
  /\ task \in [Connection -> Task]
  /\ driver \in [wait : Deadline, woken : BOOLEAN]
  /\ committed \in Nat
  /\ delivered \subseteq Plan

\* The phase, the membership, the leader and the assignments always fit
\* together: a group is Empty exactly when it has no member, a group with
\* members is led by one of them, and a Stable group has an assignment for
\* each member and for nobody else, whatever joins, leaves and expiries
\* transition_after_removal and begin_rebalance handled in between.
PhaseConsistent == PhaseFits(group)

\* Once a generation is formed, every member holds the same answer to its
\* JoinGroup (epoch, generation, leader, protocol), and the list the leader
\* was given to assign to is exactly the membership: a leader that assigns to
\* everyone it was told of is never refused (groups.rs:488-496).
GenerationAgreed == Formed(group) => JoinsAgree(group)

\* A rebalance in progress always has a deadline, and a generation that waits
\* for assignments waits for a leader that the deadline can still remove: a
\* group cannot wait forever for a member that is gone.
RebalanceIsTimed == Timed(group)

\* Members always share a protocol, so the `?` after a completed rebalance
\* never fires, and the protocol of a formed generation is one that every
\* member supports.
ProtocolShared == SharesProtocol(group)

\* A task that sleeps without having been notified waits for something that is
\* still to come: a JoinGroup for the completion of its own rebalance, with
\* its member counted as joined; a SyncGroup for the leader of its own
\* generation, with its member counted as synchronised.
NoLostWakeup ==
  \A c \in Connection :
    LET t == task[c]
    IN  Asleep(t) /\ ~t.woken =>
          /\ t.member \in DOMAIN group.members
          /\ t.pc = "joining" =>
               /\ group.state = "PreparingRebalance"
               /\ group.epoch = t.epoch
               /\ group.members[t.member].joined = t.epoch
          /\ t.pc = "syncing" =>
               /\ group.state = "CompletingRebalance"
               /\ group.generation = t.generation
               /\ group.leader # t.member
               /\ group.members[t.member].synced = t.generation

\* The driver's sleep never outlasts the next expiry, whatever the requests did
\* to deadlines and heartbeats since it last looked, and it does not sleep
\* through a rebalance that is ready to complete.
DriverNeverLate ==
  ~driver.woken =>
    /\ ~Ready(group)
    /\ \A d \in ExpiryDeadlines(group, NoMember) :
         driver.wait # NoDeadline /\ driver.wait <= d

\* An id stays pending only until its first join has been accepted: a member
\* whose id is still pending has a JoinGroup that is about to remove it.
PendingIsConsumed ==
  \A m \in pending \cap DOMAIN group.members :
    \E c \in Connection : task[c].pc = "unpend" /\ task[c].member = m

\* Every SyncGroup answered in a generation got its part of one and the same
\* plan, also when the leader synchronises again with another one.
OnePlanPerGeneration == \A p, q \in delivered : p = q

\* Only its own LeaveGroup removes a member whose JoinGroup or SyncGroup sleeps
\* and was not notified; no deadline does.
SleepersAreNotExpired ==
  [][\A c \in Connection :
       LET t == task[c]
       IN  Asleep(t) /\ ~t.woken /\ t.member \notin DOMAIN group'.members
             => Leave(t.member)]_vars

\* The coordinator implements the promise of ConsumerGroup: one frozen
\* membership and one covering plan per generation, generations numbered
\* consecutively, commits only under a stable generation.
Promise == INSTANCE ConsumerGroup WITH
  phase <- group.state, generation <- group.generation,
  members <- DOMAIN group.members, plan <- group.assignments,
  committed <- committed

KeepsPromise == Promise!Spec

(* Liveness *)

\* A newcomer joins a rebalance in progress and thereby puts its deadline off.
DeadlinePutOff ==
  /\ group.state = "PreparingRebalance"
  /\ group'.epoch = group.epoch
  /\ group'.deadline > group.deadline

\* If newcomers do not put the deadline of a rebalance off forever, every
\* JoinGroup and every SyncGroup is eventually answered, whatever else the
\* clients do or fail to do.  The premise is needed: extend_rebalance_deadline
\* has no limit, and until the deadline nobody removes a member that does not
\* rejoin, so a stream of newcomers that come and go keeps the JoinGroups of
\* all the others waiting.
RequestsAnswered ==
  <>[][~DeadlinePutOff]_vars =>
    \A c \in Connection : task[c] # Idle ~> task[c] = Idle
=============================================================================
