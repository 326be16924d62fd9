------------------------------ MODULE MCGroup ------------------------------
(***************************************************************************)
(* Instances of GroupCoordinator for TLC.  Two profiles share protocols    *)
(* and differ in their timeouts and in their order of preference; a third  *)
(* shares no protocol with them.  Of two members one may be of another     *)
(* protocol type, and the other one may have the third profile.            *)
(***************************************************************************)
EXTENDS GroupCoordinator, TLC

CONSTANTS eager, sticky, lone

MCSessionTimeout == [p \in Profile |-> 1]
MCRebalanceTimeout == [p \in Profile |-> IF p = sticky THEN 2 ELSE 1]
MCProtocols == [p \in Profile |-> CASE p = eager  -> <<1, 2>>
                                     [] p = sticky -> <<2, 1>>
                                     [] p = lone   -> <<3>>]

Symmetry == Permutations(Connection) \cup Permutations(Plan)

Offers == \A c \in Connection :
  /\ task[c].type = "connect" => task[c].member = 1 /\ task[c].profile = eager
  /\ task[c].profile = lone => task[c].member = 2
OffersSpec == Init /\ [][Next /\ Offers']_vars

----------------------------------------------------------------------------
(***************************************************************************)
(* Liveness, with three ids: one member that does not rejoin, one whose    *)
(* JoinGroup waits for it, and a newcomer that comes and goes.  Only the   *)
(* requests that matter to it are made, and none once the group is past    *)
(* MaxEpoch.  A request from an unknown member or for an earlier           *)
(* generation, OffsetCommit and DescribeGroups do no more to the           *)
(* membership than the driver does; a Heartbeat during a rebalance renews  *)
(* a session that is renewed again before it counts.  Newcomers ask for    *)
(* their ids one after the other.                                          *)
(***************************************************************************)
LivePlans(m) ==
  {NoPlan} \cup {plan \in [plans : [DOMAIN group.members -> Plan], repeated : {FALSE}] :
                   m = group.leader}

LiveRequest ==
  \/ /\ group.epoch <= MaxEpoch
     /\ \/ JoinWithoutId /\ pending = {} /\ pending' = {Min(NewIds)}
        \/ \E c \in Connection, m \in pending \cup DOMAIN group.members,
              p \in Profile, type \in ProtocolType : JoinStart(c, m, p, type)
        \/ \E c \in Connection, m \in DOMAIN group.members :
             \E plan \in LivePlans(m) : Sync(c, m, group.generation, plan)
        \/ \E m \in DOMAIN group.members : Leave(m)
  \/ /\ group.state \in {"Empty", "Stable"}
     /\ \E m \in MemberId : Heartbeat(m, group.generation)

Coordinate == (\E c \in Connection : Progress(c)) \/ DriveDeadlines \/ Tick

\* Fairness with ENABLED written out, which takes TLC a fraction of the time: a
\* task can run unless it is idle or sleeps, the driver unless it sleeps.
CanRun(t) == t.pc # "idle" /\ (Asleep(t) => Awake(t))

LiveFairness ==
  /\ \A c \in Connection : []<>~CanRun(task[c]) \/ []<><<Progress(c)>>_vars
  /\ []<>~Awake(driver) \/ []<><<DriveDeadlines>>_vars
  /\ WF_vars(Tick)

MembershipSpec == Init /\ [][LiveRequest \/ Coordinate]_vars /\ LiveFairness

\* Members that fall silent are removed by the deadlines alone: when no request
\* comes any more, drive_group_deadlines empties the group for good, whatever
\* phase and whatever waiting requests the clients left behind.
SilentMembersReclaimed == <>[][Coordinate]_vars => <>[](group.state = "Empty")
=============================================================================
