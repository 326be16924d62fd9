----------------------- MODULE GroupCoordinatorProofs -----------------------
(***************************************************************************)
(* Lemmas about the operators of Group, and theorems about                 *)
(* GroupCoordinator: the group is in order whenever its mutex is free, and *)
(* the coordinator implements ConsumerGroup.  At the end, lemmas about who *)
(* is a member after a step, which other proofs use.                       *)
(***************************************************************************)
EXTENDS GroupCoordinator, FiniteSetTheorems, TLAPS

----------------------------------------------------------------------------
(* Minima and maxima *)

\* A non-empty set of naturals has a minimum, and Min returns it: the leader
\* and the deadline that groups.rs takes with `min()` exist.
LEMMA MinOfNaturals ==
  ASSUME NEW S \in SUBSET Nat, S # {}
  PROVE  Min(S) \in S /\ \A y \in S : Min(S) <= y
<1>1. PICK x \in S : \A y \in S : ~(<<y, x>> \in OpToRel(<, Nat))
  BY NatLessThanWellFounded, WFMin
<1>2. ASSUME NEW y \in S PROVE x <= y
  <2>1. y < x => <<y, x>> \in {ss \in Nat \X Nat : ss[1] < ss[2]}
    OBVIOUS
  <2>2. QED
    BY <1>1, <2>1 DEF OpToRel
<1>3. QED
  BY <1>2 DEF Min

\* A non-empty finite set of naturals has a maximum, and Max returns it.
LEMMA MaxOfNaturals ==
  ASSUME NEW S \in SUBSET Nat, S # {}, IsFiniteSet(S)
  PROVE  Max(S) \in S /\ \A y \in S : Max(S) >= y
<1> DEFINE Bounded(T) == \E x \in T : \A y \in T : x >= y
           Bad == {T \in FiniteSubsetsOf(S) : T # {} /\ ~Bounded(T)}
<1>1. SUFFICES Bad = {}
  <2>1. S \in FiniteSubsetsOf(S)
    BY DEF FiniteSubsetsOf
  <2>2. Bounded(S)
    BY <1>1, <2>1
  <2>3. QED
    BY <2>2 DEF Max
<1>2. SUFFICES ASSUME Bad # {} PROVE FALSE
  OBVIOUS
<1>3. PICK T \in Bad : \A U \in Bad : ~(<<U, T>> \in StrictSubsetOrdering(S))
  <2>1. Bad \subseteq FiniteSubsetsOf(S)
    OBVIOUS
  <2>2. QED
    BY <1>2, <2>1, WFMin, FS_StrictSubsetOrderingWellFounded
<1>4. T \subseteq S /\ T # {} /\ IsFiniteSet(T) /\ ~Bounded(T)
  BY <1>3 DEF FiniteSubsetsOf
<1>5. PICK x \in T : TRUE
  BY <1>4
<1> DEFINE U == T \ {x}
<1>6. U \in FiniteSubsetsOf(S) /\ <<U, T>> \in StrictSubsetOrdering(S)
  BY <1>4, <1>5, FS_Subset DEF FiniteSubsetsOf, StrictSubsetOrdering
<1>7. U = {} \/ Bounded(U)
  BY <1>3, <1>6
<1>8. CASE U = {}
  BY <1>4, <1>5, <1>8
<1>9. CASE Bounded(U)
  <2>1. PICK y \in U : \A z \in U : y >= z
    BY <1>9
  <2>2. x \in Nat /\ y \in Nat /\ U \subseteq Nat
    BY <1>4, <1>5, <2>1
  <2>3. CASE x >= y
    BY <1>4, <1>5, <2>1, <2>2, <2>3
  <2>4. CASE ~(x >= y)
    BY <1>4, <1>5, <2>1, <2>2, <2>4
  <2>5. QED
    BY <2>3, <2>4
<1>10. QED
  BY <1>7, <1>8, <1>9

----------------------------------------------------------------------------
(* Protocols and timeouts *)

MembersOK(f) == DOMAIN f \subseteq MemberId /\ f \in [DOMAIN f -> Member]

\* The members of a group are a finite set of ids.
LEMMA MembersFinite ==
  ASSUME NEW f, MembersOK(f), NEW S \in SUBSET DOMAIN f
  PROVE  IsFiniteSet(S) /\ Cardinality(S) \in Nat
                        /\ Cardinality(S) <= Cardinality(MemberId)
<1>1. S \in SUBSET MemberId
  BY DEF MembersOK
<1>2. QED
  BY <1>1, MemberIdAssumption, FS_Subset, FS_CardinalityType

\* Protocol names are naturals: those of a member, and those all members share.
LEMMA ProtocolNames ==
  ASSUME NEW f, MembersOK(f)
  PROVE  /\ \A m \in DOMAIN f : Supported(f[m]) \in SUBSET Nat
         /\ CommonProtocols(f) \in SUBSET Nat
<1>1. ASSUME NEW m \in DOMAIN f PROVE Supported(f[m]) \in SUBSET Nat
  <2>1. f[m].profile \in Profile
    BY DEF MembersOK, Member
  <2>2. Protocols[f[m].profile] \in Seq(Nat)
    BY <2>1, ProtocolAssumption
  <2>3. QED
    BY <2>2 DEF Supported
<1>2. QED
  BY <1>1 DEF CommonProtocols

\* select_protocol returns a protocol that all members support, when there is
\* one: the vote has a winner.
LEMMA SelectedIsCommon ==
  ASSUME NEW f, MembersOK(f), CommonProtocols(f) # {}
  PROVE  SelectProtocol(f) \in CommonProtocols(f)
<1> DEFINE C == CommonProtocols(f)
           V == {Votes(f, p) : p \in C}
<1>1. \A p \in C : Votes(f, p) \in 0..Cardinality(MemberId)
  BY MembersFinite DEF Votes
<1>2. V \in SUBSET Nat /\ V # {} /\ IsFiniteSet(V)
  <2>1. Cardinality(MemberId) \in Nat
    BY MemberIdAssumption, FS_CardinalityType
  <2>2. V \in SUBSET (0..Cardinality(MemberId)) /\ V # {}
    BY <1>1
  <2>3. IsFiniteSet(0..Cardinality(MemberId))
    BY <2>1, FS_Interval
  <2> HIDE DEF V
  <2>4. IsFiniteSet(V)
    BY <2>2, <2>3, FS_Subset
  <2>5. QED
    BY <2>1, <2>2, <2>4
<1>3. Max(V) \in V /\ \A y \in V : Max(V) >= y
  BY <1>2, MaxOfNaturals
<1> DEFINE W == {p \in C : Votes(f, p) = Max(V)}
<1>4. W \in SUBSET Nat /\ W # {}
  BY <1>3, ProtocolNames
<1>5. Min(W) \in W /\ \A y \in W : Min(W) <= y
  BY <1>4, MinOfNaturals
<1>6. ASSUME NEW q \in C
      PROVE  \/ Votes(f, Min(W)) > Votes(f, q)
             \/ Votes(f, Min(W)) = Votes(f, q) /\ Min(W) <= q
  <2>1. CASE Votes(f, q) = Max(V)
    BY <1>5, <2>1
  <2>2. CASE Votes(f, q) # Max(V)
    BY <1>1, <1>3, <1>5, <2>2
  <2>3. QED
    BY <2>1, <2>2
<1>7. QED
  <2>1. \E p \in C : \A q \in C :
          \/ Votes(f, p) > Votes(f, q)
          \/ Votes(f, p) = Votes(f, q) /\ p <= q
    BY <1>5, <1>6
  <2>2. QED
    BY <2>1 DEF SelectProtocol

\* The rebalance timeout of a group is a number of milliseconds, not negative.
LEMMA RebalanceTimeoutType ==
  ASSUME NEW g, MembersOK(g.members)
  PROVE  GroupRebalanceTimeout(g) \in Nat
<1> DEFINE D == DOMAIN g.members
           f == [m \in D |-> RebalanceTimeout[g.members[m].profile]]
           T == {RebalanceTimeout[g.members[m].profile] : m \in D}
<1>1. T \in SUBSET Nat
  BY TimeoutAssumption DEF MembersOK, Member
<1>2. IsFiniteSet(D)
  BY MembersFinite
<1>3. f \in Surjection(D, T)
  BY DEF Surjection
<1>4. IsFiniteSet(T)
  BY <1>2, <1>3, FS_Surjection
<1>5. IsFiniteSet(T \cup {0})
  BY <1>4, FS_AddElement
<1>6. QED
  BY <1>1, <1>5, MaxOfNaturals DEF GroupRebalanceTimeout

----------------------------------------------------------------------------
(* The invariant of a group *)

SyncedInPast(g) == \A m \in DOMAIN g.members : g.members[m].synced <= g.generation
LeaderlessWhenEmpty(g) == DOMAIN g.members = {} => g.leader = NoMember

\* Inductive: what holds of the group whenever its mutex is free.
GroupOK(g) ==
  /\ IsGroup(g)
  /\ PhaseFits(g)
  /\ Formed(g) => JoinsAgree(g)
  /\ Timed(g)
  /\ SharesProtocol(g)
  /\ SyncedInPast(g)
  /\ LeaderlessWhenEmpty(g)

\* What is left of it between a change of the membership and the transition.
Loose(g) ==
  /\ IsGroup(g)
  /\ SyncedInPast(g)
  /\ DOMAIN g.members # {} => CommonProtocols(g.members) # {}

\* The empty map is a partial map of any type.
LEMMA EmptyMapType ==
  ASSUME NEW S, NEW T
  PROVE  EmptyMap \in PartialMaps(S, T) /\ DOMAIN EmptyMap = {}
<1>1. EmptyMap \in [{} -> T] /\ DOMAIN EmptyMap = {}
  BY DEF EmptyMap
<1>2. QED
  BY <1>1 DEF PartialMaps

\* A map is empty exactly when its domain is.
LEMMA EmptyMapDomain ==
  ASSUME NEW f, NEW S, f \in [DOMAIN f -> S]
  PROVE  f = EmptyMap <=> DOMAIN f = {}
BY DEF EmptyMap

\* Group::new makes a group in order.
LEMMA NewGroupOK == GroupOK(NewGroup)
BY EmptyMapType
   DEF NewGroup, GroupOK, IsGroup, PhaseFits, Formed, Timed, SharesProtocol,
       SyncedInPast, LeaderlessWhenEmpty, GroupState, NoType, NoMember, NoProtocol,
       NoDeadline, Deadline, EmptyMap

\* begin_rebalance turns any membership with a leader into a group in order.
LEMMA BeginRebalanceOK ==
  ASSUME NEW g, Loose(g), g.leader \in DOMAIN g.members
  PROVE  /\ GroupOK(BeginRebalance(g))
         /\ BeginRebalance(g).state = "PreparingRebalance"
         /\ BeginRebalance(g).members = g.members
         /\ BeginRebalance(g).generation = g.generation
<1> DEFINE r == BeginRebalance(g)
<1>1. GroupRebalanceTimeout(g) \in Nat
  BY RebalanceTimeoutType DEF Loose, IsGroup, MembersOK
<1>2. IsGroup(r)
  <2>1. EmptyMap \in PartialMaps(MemberId, Plan)
    BY EmptyMapType
  <2>2. IsGroup(g)
    BY DEF Loose
  <2>3. g.epoch + 1 \in Nat
    BY <2>2 DEF IsGroup
  <2>4. QED
    BY <1>1, <2>1, <2>2, <2>3 DEF IsGroup, BeginRebalance, GroupState, Deadline
<1>3. /\ r.state = "PreparingRebalance" /\ r.members = g.members
      /\ r.generation = g.generation /\ r.leader = g.leader
      /\ r.assignments = EmptyMap /\ r.deadline = GroupRebalanceTimeout(g)
  BY DEF Loose, IsGroup, BeginRebalance
<1> HIDE DEF r
<1>4. PhaseFits(r) /\ LeaderlessWhenEmpty(r)
  BY <1>3, EmptyMapType DEF PhaseFits, LeaderlessWhenEmpty
<1>5. Timed(r)
  BY <1>1, <1>3 DEF Timed, NoDeadline
<1>6. SharesProtocol(r) /\ ~Formed(r) /\ SyncedInPast(r)
  BY <1>3 DEF Loose, SharesProtocol, Formed, SyncedInPast
<1>7. QED
  BY <1>2, <1>3, <1>4, <1>5, <1>6 DEF GroupOK, r

\* transition_after_removal puts a group whose membership shrank in order:
\* emptied, or gathering its remaining members under a leader among them.
LEMMA TransitionAfterRemovalOK ==
  ASSUME NEW g, Loose(g), g.state = "PreparingRebalance" => g.deadline # NoDeadline
  PROVE  LET r == TransitionAfterRemoval(g)
         IN  /\ GroupOK(r)
             /\ r.state \in {"Empty", "PreparingRebalance"}
             /\ r.members = g.members
             /\ r.generation = g.generation
             /\ r.notified
<1> DEFINE r == TransitionAfterRemoval(g)
<1>0. IsGroup(g) /\ (g.members = EmptyMap <=> DOMAIN g.members = {})
  BY EmptyMapDomain DEF Loose, IsGroup
<1>1. CASE DOMAIN g.members = {}
  <2>1. r = [g EXCEPT !.state = "Empty", !.leader = NoMember, !.type = NoType,
                      !.selected = NoProtocol, !.assignments = EmptyMap,
                      !.deadline = NoDeadline, !.notified = TRUE]
    BY <1>0, <1>1 DEF TransitionAfterRemoval
  <2>2. EmptyMap \in PartialMaps(MemberId, Plan) /\ DOMAIN EmptyMap = {}
    BY EmptyMapType
  <2>3. IsGroup(r)
    <3>1. "Empty" \in GroupState /\ NoDeadline \in Deadline /\ NoProtocol \in Nat
      BY DEF GroupState, Deadline, NoProtocol
    <3>2. QED
      BY <1>0, <2>1, <2>2, <3>1 DEF IsGroup
  <2>4. /\ r.state = "Empty" /\ r.members = g.members /\ r.generation = g.generation
        /\ r.leader = NoMember /\ r.assignments = EmptyMap /\ r.notified
    BY <1>0, <2>1 DEF IsGroup
  <2> HIDE DEF r
  <2>5. PhaseFits(r) /\ ~Formed(r) /\ Timed(r) /\ SharesProtocol(r)
    BY <1>1, <2>2, <2>4 DEF PhaseFits, Formed, Timed, SharesProtocol
  <2>6. SyncedInPast(r) /\ LeaderlessWhenEmpty(r)
    BY <1>1, <2>4 DEF SyncedInPast, LeaderlessWhenEmpty
  <2>7. QED
    BY <2>3, <2>4, <2>5, <2>6 DEF GroupOK, r
<1>2. CASE DOMAIN g.members # {}
  <2> DEFINE led == [g EXCEPT !.leader = IF @ \in DOMAIN g.members THEN @
                                         ELSE Min(DOMAIN g.members)]
  <2>1. r = IF g.state # "PreparingRebalance" THEN BeginRebalance(led)
            ELSE [led EXCEPT !.assignments = EmptyMap, !.notified = TRUE]
    BY <1>0, <1>2 DEF TransitionAfterRemoval
  <2>2. Min(DOMAIN g.members) \in DOMAIN g.members
    BY <1>0, <1>2, MinOfNaturals, MemberIdAssumption DEF IsGroup
  <2>3. /\ led.state = g.state /\ led.members = g.members
        /\ led.generation = g.generation /\ led.deadline = g.deadline
        /\ led.leader \in DOMAIN g.members
    BY <1>0, <2>2 DEF IsGroup
  <2>4. IsGroup(led)
    BY <1>0, <2>2 DEF IsGroup
  <2> HIDE DEF led
  <2>5. Loose(led)
    BY <2>3, <2>4 DEF Loose, SyncedInPast
  <2>6. CASE g.state # "PreparingRebalance"
    <3>1. r = BeginRebalance(led)
      BY <2>1, <2>6
    <3>2. BeginRebalance(led).notified
      BY <2>4 DEF IsGroup, BeginRebalance
    <3>3. QED
      BY <2>3, <2>5, <3>1, <3>2, BeginRebalanceOK
  <2>7. CASE g.state = "PreparingRebalance"
    <3>1. r = [led EXCEPT !.assignments = EmptyMap, !.notified = TRUE]
      BY <2>1, <2>7
    <3>2. EmptyMap \in PartialMaps(MemberId, Plan) /\ DOMAIN EmptyMap = {}
      BY EmptyMapType
    <3>3. IsGroup(r)
      BY <2>4, <3>1, <3>2 DEF IsGroup
    <3>4. /\ r.state = "PreparingRebalance" /\ r.members = g.members
          /\ r.generation = g.generation /\ r.deadline = g.deadline
          /\ r.leader \in DOMAIN r.members /\ r.assignments = EmptyMap /\ r.notified
      BY <2>3, <2>4, <2>7, <3>1 DEF IsGroup
    <3> HIDE DEF r
    <3>5. PhaseFits(r) /\ LeaderlessWhenEmpty(r)
      BY <3>2, <3>4 DEF PhaseFits, LeaderlessWhenEmpty
    <3>6. ~Formed(r) /\ Timed(r)
      BY <2>7, <3>4 DEF Formed, Timed
    <3>7. SharesProtocol(r) /\ SyncedInPast(r)
      BY <3>4 DEF Loose, SharesProtocol, Formed, SyncedInPast
    <3>8. QED
      BY <3>3, <3>4, <3>5, <3>6, <3>7 DEF GroupOK, r
  <2>8. QED
    BY <2>6, <2>7
<1>3. QED
  BY <1>1, <1>2

\* Members that remain still share a protocol.
LEMMA RemoveLoose ==
  ASSUME NEW g, GroupOK(g), NEW S
  PROVE  /\ Loose(Remove(g, S))
         /\ DOMAIN Remove(g, S).members = DOMAIN g.members \ S
         /\ Remove(g, S).state = g.state
         /\ Remove(g, S).deadline = g.deadline
         /\ Remove(g, S).generation = g.generation
<1> DEFINE r == Remove(g, S)
<1>1. IsGroup(g)
  BY DEF GroupOK
<1>2. /\ r.state = g.state /\ r.deadline = g.deadline /\ r.generation = g.generation
      /\ r.members = Without(g.members, S) /\ r.assignments = Without(g.assignments, S)
  BY <1>1 DEF IsGroup, Remove
<1>3. /\ DOMAIN r.members = DOMAIN g.members \ S
      /\ \A m \in DOMAIN r.members : r.members[m] = g.members[m]
  BY <1>2 DEF Without
<1>4. Without(g.assignments, S) \in PartialMaps(MemberId, Plan)
  <2>1. PICK D \in SUBSET MemberId : g.assignments \in [D -> Plan]
    BY <1>1 DEF IsGroup, PartialMaps
  <2>2. Without(g.assignments, S) \in [D \ S -> Plan]
    BY <2>1 DEF Without
  <2>3. D \ S \in SUBSET MemberId
    OBVIOUS
  <2>4. QED
    BY <2>2, <2>3 DEF PartialMaps
<1>5. DOMAIN r.members \subseteq MemberId /\ r.members \in [DOMAIN r.members -> Member]
  <2>1. g.members \in [DOMAIN g.members -> Member] /\ DOMAIN g.members \subseteq MemberId
    BY <1>1 DEF IsGroup
  <2>2. QED
    BY <1>2, <1>3, <2>1 DEF Without
<1>6. IsGroup(r)
  BY <1>1, <1>4, <1>5 DEF IsGroup, Remove
<1> HIDE DEF r
<1>7. SyncedInPast(r)
  BY <1>2, <1>3 DEF GroupOK, SyncedInPast
<1>8. ASSUME DOMAIN r.members # {} PROVE CommonProtocols(r.members) # {}
  <2>1. PICK p \in CommonProtocols(g.members) : TRUE
    BY <1>3, <1>8 DEF GroupOK, SharesProtocol
  <2>2. \A m \in DOMAIN r.members : p \in Supported(r.members[m])
    BY <1>3, <2>1 DEF CommonProtocols
  <2>3. QED
    BY <1>8, <2>2 DEF CommonProtocols
<1>9. QED
  BY <1>2, <1>3, <1>6, <1>7, <1>8 DEF Loose, r

\* The group after an expiry: untouched, or back to gathering or empty.
Receded(g, h) ==
  \/ h = g
  \/ /\ h.state \in {"Empty", "PreparingRebalance"}
     /\ h.generation = g.generation
     /\ DOMAIN h.members \subseteq DOMAIN g.members

\* expire_stale_members keeps a group in order: it removes members and then
\* moves the phase, or it changes nothing the promise sees.
LEMMA ExpireOK ==
  ASSUME NEW g, GroupOK(g), NEW active
  PROVE  /\ GroupOK(ExpireStaleMembers(g, active))
         /\ Receded(g, ExpireStaleMembers(g, active))
<1> DEFINE S == Expired(g, active)
<1>1. CASE S = {}
  BY <1>1 DEF ExpireStaleMembers, Receded
<1>2. CASE S # {}
  <2>1. ExpireStaleMembers(g, active) = TransitionAfterRemoval(Remove(g, S))
    BY <1>2 DEF ExpireStaleMembers
  <2> HIDE DEF S
  <2>2. Remove(g, S).state = "PreparingRebalance" => Remove(g, S).deadline # NoDeadline
    BY RemoveLoose DEF GroupOK, Timed
  <2>3. QED
    BY <2>1, <2>2, RemoveLoose, TransitionAfterRemovalOK DEF Receded
<1>3. QED
  BY <1>1, <1>2

\* complete_rebalance_if_ready forms a generation of all members, or leaves the
\* group alone; it never fails for lack of a common protocol.
LEMMA CompleteOK ==
  ASSUME NEW g, GroupOK(g)
  PROVE  LET r == CompleteRebalanceIfReady(g)
         IN  /\ GroupOK(r)
             /\ ~CompletionFails(g)
             /\ \/ r = g /\ ~Ready(g)
                \/ /\ Ready(g)
                   /\ r.state = "CompletingRebalance"
                   /\ r.generation = g.generation + 1
                   /\ r.epoch = g.epoch
                   /\ DOMAIN r.members = DOMAIN g.members
                   /\ r.notified
<1> DEFINE r == CompleteRebalanceIfReady(g)
<1>0. IsGroup(g) /\ MembersOK(g.members)
  BY DEF GroupOK, IsGroup, MembersOK
<1>1. ~CompletionFails(g)
  BY <1>0, EmptyMapDomain DEF GroupOK, SharesProtocol, CompletionFails, Ready, IsGroup
<1>2. CASE ~Ready(g)
  BY <1>1, <1>2 DEF CompleteRebalanceIfReady
<1>3. CASE Ready(g)
  <2> DEFINE protocol == SelectProtocol(g.members)
             members == WithCompletedJoins(g, g.generation + 1, protocol)
  <2>1. r = [g EXCEPT !.selected = protocol,
                      !.generation = @ + 1,
                      !.assignments = EmptyMap,
                      !.state = "CompletingRebalance",
                      !.deadline = GroupRebalanceTimeout(g),
                      !.members = members,
                      !.notified = TRUE]
    BY <1>1, <1>3 DEF CompleteRebalanceIfReady
  <2>2. /\ g.state = "PreparingRebalance" /\ DOMAIN g.members # {}
        /\ g.leader \in DOMAIN g.members
        /\ \A m \in DOMAIN g.members : g.members[m].joined = g.epoch
    BY <1>0, <1>3, EmptyMapDomain DEF Ready, IsGroup, GroupOK, PhaseFits
  <2>3. protocol \in CommonProtocols(g.members) /\ protocol \in Nat
    BY <1>0, <2>2, SelectedIsCommon, ProtocolNames DEF GroupOK, SharesProtocol
  <2>4. GroupRebalanceTimeout(g) \in Nat /\ g.generation \in Nat /\ g.epoch \in Nat
    BY <1>0, RebalanceTimeoutType DEF IsGroup
  <2> DEFINE answer(m) == [epoch |-> g.epoch, generation |-> g.generation + 1,
                           protocol |-> protocol, leader |-> g.leader,
                           members |-> IF m = g.leader THEN DOMAIN g.members ELSE {}]
  <2>5. /\ DOMAIN members = DOMAIN g.members
        /\ \A m \in DOMAIN g.members :
             members[m] = [g.members[m] EXCEPT !.completed = answer(m)]
    <3>1. {n \in DOMAIN g.members : protocol \in Supported(g.members[n])}
            = DOMAIN g.members
      BY <2>3 DEF CommonProtocols
    <3>2. QED
      BY <3>1 DEF WithCompletedJoins
  <2>5a. members = [m \in DOMAIN members |-> members[m]]
    BY DEF WithCompletedJoins
  <2> HIDE DEF protocol, members
  <2>6. ASSUME NEW m \in DOMAIN g.members PROVE answer(m) \in CompletedJoin
    BY <1>0, <2>2, <2>3, <2>4 DEF CompletedJoin, IsGroup
  <2> HIDE DEF answer
  <2>7. ASSUME NEW m \in DOMAIN g.members
        PROVE  /\ members[m] \in Member
               /\ members[m].profile = g.members[m].profile
               /\ members[m].joined = g.epoch
               /\ members[m].synced = g.members[m].synced
               /\ members[m].completed = answer(m)
    <3>1. g.members[m] \in Member /\ g.members[m].joined = g.epoch
      BY <1>0, <2>2 DEF MembersOK
    <3>2. answer(m) \in CompletedJoin
      BY <2>6
    <3>3. members[m] = [g.members[m] EXCEPT !.completed = answer(m)]
      BY <2>5
    <3>4. QED
      BY <3>1, <3>2, <3>3 DEF Member
  <2>8. members \in [DOMAIN members -> Member]
    BY <2>5, <2>5a, <2>7
  <2>9. EmptyMap \in PartialMaps(MemberId, Plan) /\ DOMAIN EmptyMap = {}
    BY EmptyMapType
  <2>10. IsGroup(r)
    <3>1. "CompletingRebalance" \in GroupState /\ GroupRebalanceTimeout(g) \in Deadline
      BY <2>4 DEF GroupState, Deadline
    <3>2. g.generation + 1 \in Nat
      BY <2>4
    <3>3. DOMAIN members \subseteq MemberId
      BY <1>0, <2>5 DEF IsGroup
    <3>4. QED
      BY <1>0, <2>1, <2>3, <2>8, <2>9, <3>1, <3>2, <3>3 DEF IsGroup
  <2>11. /\ r.state = "CompletingRebalance" /\ r.members = members
         /\ r.generation = g.generation + 1 /\ r.leader = g.leader
         /\ r.epoch = g.epoch /\ r.selected = protocol /\ r.assignments = EmptyMap
         /\ r.deadline = GroupRebalanceTimeout(g) /\ r.notified
    BY <1>0, <2>1 DEF IsGroup
  <2> HIDE DEF r
  <2>12. PhaseFits(r) /\ LeaderlessWhenEmpty(r)
    BY <2>2, <2>5, <2>9, <2>11 DEF PhaseFits, LeaderlessWhenEmpty
  <2>13. JoinsAgree(r)
    BY <2>5, <2>7, <2>11 DEF JoinsAgree, answer
  <2>14. \A m \in DOMAIN g.members : g.members[m].synced \in Int
                                 /\ g.members[m].synced <= g.generation
    BY <1>0 DEF GroupOK, SyncedInPast, MembersOK, Member
  <2>15. SyncedInPast(r) /\ Timed(r)
    BY <2>2, <2>4, <2>5, <2>7, <2>11, <2>14 DEF SyncedInPast, Timed, NoDeadline
  <2>16. SharesProtocol(r)
    <3>1. \A m \in DOMAIN g.members : Supported(members[m]) = Supported(g.members[m])
      BY <2>7 DEF Supported
    <3>2. CommonProtocols(members) = CommonProtocols(g.members)
      BY <2>5, <3>1 DEF CommonProtocols
    <3>3. QED
      BY <2>3, <2>11, <3>2 DEF SharesProtocol
  <2>17. QED
    BY <1>1, <1>3, <2>5, <2>10, <2>11, <2>12, <2>13, <2>15, <2>16 DEF GroupOK, r
<1>4. QED
  BY <1>2, <1>3

\* Two groups that differ in no more than the sessions of the members, and the
\* passing of the rebalance deadline, are equally in order.
LEMMA SessionsOK ==
  ASSUME NEW g, GroupOK(g), NEW h, IsGroup(h),
         h.state = g.state, h.generation = g.generation, h.epoch = g.epoch,
         h.leader = g.leader, h.selected = g.selected, h.assignments = g.assignments,
         h.deadline = NoDeadline <=> g.deadline = NoDeadline,
         DOMAIN h.members = DOMAIN g.members,
         \A m \in DOMAIN g.members :
           /\ h.members[m].profile = g.members[m].profile
           /\ h.members[m].joined = g.members[m].joined
           /\ h.members[m].synced = g.members[m].synced
           /\ h.members[m].completed = g.members[m].completed
  PROVE  GroupOK(h)
<1>1. PhaseFits(h) /\ LeaderlessWhenEmpty(h)
  BY DEF GroupOK, PhaseFits, LeaderlessWhenEmpty
<1>2. Formed(h) => JoinsAgree(h)
  BY DEF GroupOK, Formed, JoinsAgree
<1>3. Timed(h) /\ SyncedInPast(h)
  BY DEF GroupOK, Timed, SyncedInPast, PhaseFits
<1>4. SharesProtocol(h)
  <2>1. \A m \in DOMAIN g.members : Supported(h.members[m]) = Supported(g.members[m])
    BY DEF Supported
  <2>2. CommonProtocols(h.members) = CommonProtocols(g.members)
    BY <2>1 DEF CommonProtocols
  <2>3. QED
    BY <2>2 DEF GroupOK, SharesProtocol, Formed
<1>5. QED
  BY <1>1, <1>2, <1>3, <1>4 DEF GroupOK

\* Refreshing the heartbeat of a member keeps a group in order.
LEMMA RefreshHeartbeatOK ==
  ASSUME NEW g, GroupOK(g), NEW m \in DOMAIN g.members
  PROVE  LET h == RefreshHeartbeat(g, m)
         IN  /\ GroupOK(h)
             /\ h.state = g.state /\ h.generation = g.generation /\ h.epoch = g.epoch
             /\ h.leader = g.leader /\ h.assignments = g.assignments
             /\ h.deadline = g.deadline /\ h.notified = g.notified
             /\ DOMAIN h.members = DOMAIN g.members
<1> DEFINE h == RefreshHeartbeat(g, m)
           refreshed == [g.members EXCEPT ![m].session =
                           SessionTimeout[g.members[m].profile]]
<1>1. IsGroup(g) /\ g.members \in [DOMAIN g.members -> Member]
  BY DEF GroupOK, IsGroup
<1>2. h = [g EXCEPT !.members = refreshed]
  BY <1>1 DEF RefreshHeartbeat, IsGroup
<1>3. g.members[m] \in Member /\ SessionTimeout[g.members[m].profile] \in Nat
  BY <1>1, TimeoutAssumption DEF Member
<1>4. [g.members[m] EXCEPT !.session = SessionTimeout[g.members[m].profile]] \in Member
  BY <1>3 DEF Member
<1>5. /\ refreshed \in [DOMAIN g.members -> Member]
      /\ \A n \in DOMAIN g.members :
           /\ refreshed[n].profile = g.members[n].profile
           /\ refreshed[n].joined = g.members[n].joined
           /\ refreshed[n].synced = g.members[n].synced
           /\ refreshed[n].completed = g.members[n].completed
  BY <1>1, <1>3, <1>4 DEF Member
<1> HIDE DEF refreshed
<1>6. IsGroup(h)
  BY <1>1, <1>2, <1>5 DEF IsGroup
<1>7. /\ h.state = g.state /\ h.generation = g.generation /\ h.epoch = g.epoch
      /\ h.leader = g.leader /\ h.selected = g.selected /\ h.deadline = g.deadline
      /\ h.assignments = g.assignments /\ h.members = refreshed
      /\ h.notified = g.notified /\ DOMAIN h.members = DOMAIN g.members
  BY <1>1, <1>2, <1>5 DEF IsGroup
<1> HIDE DEF h
<1>8. GroupOK(h)
  BY <1>5, <1>6, <1>7, SessionsOK
<1>9. QED
  BY <1>7, <1>8 DEF h

----------------------------------------------------------------------------
(* One critical section *)

\* How a group may move in one critical section, as ConsumerGroup sees it.
Moves(g, h) ==
  \/ /\ h.state = g.state /\ h.generation = g.generation
     /\ DOMAIN h.members = DOMAIN g.members /\ h.assignments = g.assignments
  \/ h.state \in {"Empty", "PreparingRebalance"} /\ h.generation = g.generation
  \/ h.state = "CompletingRebalance" /\ h.generation = g.generation + 1
  \/ /\ g.state = "CompletingRebalance" /\ h.state = "Stable"
     /\ h.generation = g.generation /\ DOMAIN h.members = DOMAIN g.members

Fine(g, h) == GroupOK(h) /\ Moves(g, h)

\* expire_stale_members on a group in order.
LEMMA ExpireFine ==
  ASSUME NEW g, GroupOK(g), NEW active
  PROVE  Fine(g, ExpireStaleMembers(g, active))
BY ExpireOK DEF Fine, Moves, Receded

\* Completing a rebalance after anything that leaves the generation alone.
LEMMA CompleteFine ==
  ASSUME NEW g, NEW h, GroupOK(h), Moves(g, h), h.generation = g.generation
  PROVE  Fine(g, CompleteRebalanceIfReady(h))
BY CompleteOK DEF Fine, Moves

\* expire_stale_members, then complete_rebalance_if_ready, as the driver and
\* JoinGroup call them.
LEMMA ExpireCompleteFine ==
  ASSUME NEW g, GroupOK(g), NEW active
  PROVE  Fine(g, CompleteRebalanceIfReady(ExpireStaleMembers(g, active)))
<1>1. ExpireStaleMembers(g, active).generation = g.generation
  BY ExpireOK DEF Receded
<1>2. QED
  BY <1>1, ExpireFine, CompleteFine DEF Fine

\* Refreshing a heartbeat after an expiry.
LEMMA RefreshFine ==
  ASSUME NEW g, NEW h, Fine(g, h), NEW m \in DOMAIN h.members
  PROVE  Fine(g, RefreshHeartbeat(h, m))
BY RefreshHeartbeatOK DEF Fine, Moves

\* A member that leaves.
LEMMA LeaveFine ==
  ASSUME NEW g, NEW h, GroupOK(h), h.generation = g.generation, NEW m
  PROVE  Fine(g, CompleteRebalanceIfReady(TransitionAfterRemoval(Remove(h, {m}))))
<1> DEFINE r == TransitionAfterRemoval(Remove(h, {m}))
<1>1. Remove(h, {m}).state = "PreparingRebalance" => Remove(h, {m}).deadline # NoDeadline
  BY RemoveLoose DEF GroupOK, Timed
<1>2. /\ GroupOK(r) /\ r.state \in {"Empty", "PreparingRebalance"}
      /\ r.generation = g.generation
  BY <1>1, RemoveLoose, TransitionAfterRemovalOK
<1>3. QED
  BY <1>2, CompleteFine DEF Moves

\* What a task that carries a request knows of it.
Carries(t) ==
  /\ t.pc # "idle" => t.member \in MemberId
  /\ t.pc \in {"known", "lock", "unpend", "joining"} =>
       t.profile \in Profile /\ t.type \in ProtocolType

\* The members with the joiner among them have their type.
LEMMA ProspectiveOK ==
  ASSUME NEW g, GroupOK(g), NEW t \in Task, Carries(t), t.pc = "lock"
  PROVE  /\ MembersOK(ProspectiveMembers(g, t))
         /\ DOMAIN ProspectiveMembers(g, t) = DOMAIN g.members \cup {t.member}
         /\ \A m \in DOMAIN ProspectiveMembers(g, t) :
              ProspectiveMembers(g, t)[m].synced <= g.generation
<1> DEFINE f == ProspectiveMembers(g, t)
           prior == t.member \in DOMAIN g.members
           joiner == [profile |-> t.profile,
                      session |-> SessionTimeout[t.profile],
                      joined |-> TargetEpoch(g),
                      synced |-> IF prior THEN g.members[t.member].synced ELSE -1,
                      completed |-> IF prior THEN g.members[t.member].completed
                                    ELSE NoJoin]
<1>1. /\ DOMAIN g.members \subseteq MemberId /\ g.members \in [DOMAIN g.members -> Member]
      /\ g.epoch \in Nat /\ g.generation \in Nat
  BY DEF GroupOK, IsGroup
<1>2. /\ DOMAIN f = DOMAIN g.members \cup {t.member}
      /\ f = [n \in DOMAIN f |-> IF n = t.member THEN joiner ELSE g.members[n]]
  BY DEF ProspectiveMembers
<1>3. t.member \in MemberId /\ t.profile \in Profile /\ SessionTimeout[t.profile] \in Nat
  BY TimeoutAssumption DEF Carries
<1>4. TargetEpoch(g) \in Nat
  BY <1>1 DEF TargetEpoch
<1>5. NoJoin \in CompletedJoin
  BY DEF NoJoin, CompletedJoin, NoMember, NoProtocol
<1>6. joiner \in Member /\ joiner.synced <= g.generation
  <2>1. CASE prior
    <3>1. /\ g.members[t.member].synced \in Int
          /\ g.members[t.member].completed \in CompletedJoin
          /\ g.members[t.member].synced <= g.generation
      BY <1>1, <2>1 DEF Member, GroupOK, SyncedInPast
    <3>2. QED
      BY <1>3, <1>4, <2>1, <3>1 DEF Member
  <2>2. CASE ~prior
    BY <1>1, <1>3, <1>4, <1>5, <2>2 DEF Member
  <2>3. QED
    BY <2>1, <2>2
<1> HIDE DEF f, joiner
<1>7. MembersOK(f)
  BY <1>1, <1>2, <1>3, <1>6 DEF MembersOK
<1>8. \A m \in DOMAIN f : f[m].synced <= g.generation
  BY <1>2, <1>6 DEF GroupOK, SyncedInPast
<1>9. QED
  BY <1>2, <1>7, <1>8 DEF f

\* The group with the joiner installed is gathering its members.
LEMMA WithJoinerOK ==
  ASSUME NEW g, GroupOK(g), NEW t \in Task, Carries(t), t.pc = "lock",
         ~NoCommonProtocol(g, t)
  PROVE  LET r == WithJoiner(g, t)
         IN  /\ GroupOK(r)
             /\ r.state = "PreparingRebalance"
             /\ r.generation = g.generation
             /\ r.epoch = TargetEpoch(g)
             /\ r.members = ProspectiveMembers(g, t)
<1> DEFINE f == ProspectiveMembers(g, t)
           leader == IF g.leader = NoMember THEN t.member ELSE g.leader
           installed == [g EXCEPT !.members = f]
           r == WithJoiner(g, t)
<1>1. IsGroup(g) /\ t.member \in MemberId /\ t.type \in ProtocolType
  BY DEF GroupOK, Carries
<1>2. MembersOK(f) /\ DOMAIN f = DOMAIN g.members \cup {t.member}
  BY ProspectiveOK
<1>3. \A m \in DOMAIN f : f[m].synced <= g.generation
  BY ProspectiveOK
<1>4. CommonProtocols(f) # {}
  BY DEF NoCommonProtocol
<1> HIDE DEF f
<1>5. leader \in DOMAIN f /\ leader \in MemberId
  BY <1>1, <1>2 DEF GroupOK, PhaseFits, LeaderlessWhenEmpty, MembersOK
<1>6. /\ installed.members = f /\ installed.generation = g.generation
      /\ installed.epoch = g.epoch /\ installed.leader = g.leader
      /\ installed.deadline = g.deadline /\ installed.assignments = g.assignments
      /\ installed.state = g.state
  BY <1>1 DEF IsGroup
<1>7. IsGroup(installed)
  BY <1>1, <1>2 DEF IsGroup, MembersOK
<1> DEFINE timed == IF StartsRebalance(g) THEN BeginRebalance(installed)
                    ELSE IF t.mayAdd THEN ExtendRebalanceDeadline(installed)
                    ELSE installed
<1>8. r = [timed EXCEPT !.type = t.type, !.leader = IF @ = NoMember THEN t.member ELSE @]
  BY DEF WithJoiner, f
<1>9. GroupRebalanceTimeout(installed) \in Nat
  BY <1>2, <1>6, RebalanceTimeoutType
<1> HIDE DEF installed
<1>10. /\ IsGroup(timed) /\ timed.state = "PreparingRebalance"
       /\ timed.generation = g.generation /\ timed.epoch = TargetEpoch(g)
       /\ timed.leader = g.leader /\ timed.members = f
       /\ timed.deadline # NoDeadline /\ DOMAIN timed.assignments = {}
  <2>1. CASE StartsRebalance(g)
    <3>1. timed = BeginRebalance(installed)
      BY <2>1
    <3>2. EmptyMap \in PartialMaps(MemberId, Plan) /\ DOMAIN EmptyMap = {}
      BY EmptyMapType
    <3>3. /\ "PreparingRebalance" \in GroupState
          /\ GroupRebalanceTimeout(installed) \in Deadline
          /\ GroupRebalanceTimeout(installed) # NoDeadline
          /\ installed.epoch + 1 \in Nat
      BY <1>1, <1>6, <1>9 DEF GroupState, Deadline, NoDeadline, IsGroup
    <3>4. IsGroup(timed)
      BY <1>7, <3>1, <3>2, <3>3 DEF IsGroup, BeginRebalance
    <3>5. QED
      BY <1>6, <1>7, <2>1, <3>1, <3>2, <3>3, <3>4 DEF IsGroup, BeginRebalance, TargetEpoch
  <2>2. CASE ~StartsRebalance(g)
    <3>1. g.state = "PreparingRebalance" /\ g.deadline # NoDeadline /\ DOMAIN g.assignments = {}
      BY <2>2 DEF StartsRebalance, GroupOK, Timed, PhaseFits
    <3>2. CASE timed = installed
      BY <1>6, <1>7, <2>2, <3>1, <3>2 DEF TargetEpoch
    <3>3. CASE timed = [installed EXCEPT !.deadline = GroupRebalanceTimeout(installed)]
      <4>1. GroupRebalanceTimeout(installed) \in Deadline
            /\ GroupRebalanceTimeout(installed) # NoDeadline
        BY <1>9 DEF Deadline, NoDeadline
      <4>2. IsGroup(timed)
        BY <1>7, <3>3, <4>1 DEF IsGroup
      <4>3. QED
        BY <1>6, <1>7, <2>2, <3>1, <3>3, <4>1, <4>2 DEF IsGroup, TargetEpoch
    <3>4. QED
      BY <2>2, <3>2, <3>3 DEF ExtendRebalanceDeadline
  <2>3. QED
    BY <2>1, <2>2
<1> HIDE DEF timed
<1>11. IsGroup(r)
  BY <1>1, <1>5, <1>8, <1>10 DEF IsGroup
<1>12. /\ r.state = "PreparingRebalance" /\ r.generation = g.generation
       /\ r.epoch = TargetEpoch(g) /\ r.members = f /\ r.leader = leader
       /\ r.deadline # NoDeadline /\ DOMAIN r.assignments = {}
  BY <1>8, <1>10 DEF IsGroup
<1> HIDE DEF r, leader
<1>13. PhaseFits(r) /\ LeaderlessWhenEmpty(r) /\ ~Formed(r)
  BY <1>5, <1>12 DEF PhaseFits, LeaderlessWhenEmpty, Formed
<1>14. Timed(r) /\ SharesProtocol(r) /\ SyncedInPast(r)
  BY <1>3, <1>4, <1>12 DEF Timed, SharesProtocol, SyncedInPast, Formed
<1>15. QED
  BY <1>11, <1>12, <1>13, <1>14 DEF GroupOK, r, f

\* Marking a member synchronised changes nothing else.
LEMMA MarkSyncedFields ==
  ASSUME NEW g, GroupOK(g), NEW m \in DOMAIN g.members
  PROVE  LET h == MarkSynced(g, m)
         IN  /\ IsGroup(h)
             /\ h.state = g.state /\ h.generation = g.generation /\ h.epoch = g.epoch
             /\ h.leader = g.leader /\ h.selected = g.selected
             /\ h.deadline = g.deadline /\ h.assignments = g.assignments
             /\ h.notified = g.notified
             /\ DOMAIN h.members = DOMAIN g.members
             /\ h.members[m].synced = g.generation
             /\ \A n \in DOMAIN g.members :
                  /\ h.members[n].profile = g.members[n].profile
                  /\ h.members[n].joined = g.members[n].joined
                  /\ h.members[n].completed = g.members[n].completed
                  /\ n # m => h.members[n].synced = g.members[n].synced
<1> DEFINE h == MarkSynced(g, m)
           f == [g.members EXCEPT ![m].synced = g.generation]
<1>1. IsGroup(g) /\ g.members \in [DOMAIN g.members -> Member] /\ g.generation \in Nat
  BY DEF GroupOK, IsGroup
<1>2. h = [g EXCEPT !.members = f]
  BY <1>1 DEF MarkSynced, IsGroup
<1>3. [g.members[m] EXCEPT !.synced = g.generation] \in Member /\ g.members[m] \in Member
  BY <1>1 DEF Member
<1>4. /\ f \in [DOMAIN g.members -> Member] /\ f[m].synced = g.generation
      /\ \A n \in DOMAIN g.members :
           /\ f[n].profile = g.members[n].profile
           /\ f[n].joined = g.members[n].joined
           /\ f[n].completed = g.members[n].completed
           /\ n # m => f[n].synced = g.members[n].synced
  BY <1>1, <1>3 DEF Member
<1> HIDE DEF f
<1>5. IsGroup(h)
  BY <1>1, <1>2, <1>4 DEF IsGroup
<1>6. QED
  BY <1>1, <1>2, <1>4, <1>5 DEF IsGroup

\* Profiles decide which protocols the members share.
LEMMA SameProfiles ==
  ASSUME NEW f, NEW h, DOMAIN h = DOMAIN f,
         \A m \in DOMAIN f : h[m].profile = f[m].profile
  PROVE  CommonProtocols(h) = CommonProtocols(f)
<1>1. \A m \in DOMAIN f : Supported(h[m]) = Supported(f[m])
  BY DEF Supported
<1>2. QED
  BY <1>1 DEF CommonProtocols

\* A follower that waits, or any member of a stable group, is marked safely.
LEMMA MarkSyncedOK ==
  ASSUME NEW g, GroupOK(g), NEW m \in DOMAIN g.members,
         m # g.leader \/ g.state # "CompletingRebalance"
  PROVE  GroupOK(MarkSynced(g, m))
<1> DEFINE h == MarkSynced(g, m)
<1>1. /\ IsGroup(h) /\ g.generation \in Nat
      /\ h.state = g.state /\ h.generation = g.generation /\ h.epoch = g.epoch
      /\ h.leader = g.leader /\ h.selected = g.selected
      /\ h.deadline = g.deadline /\ h.assignments = g.assignments
      /\ DOMAIN h.members = DOMAIN g.members
      /\ h.members[m].synced = g.generation
      /\ \A n \in DOMAIN g.members :
           /\ h.members[n].profile = g.members[n].profile
           /\ h.members[n].joined = g.members[n].joined
           /\ h.members[n].completed = g.members[n].completed
           /\ n # m => h.members[n].synced = g.members[n].synced
  BY MarkSyncedFields DEF GroupOK, IsGroup
<1> HIDE DEF h
<1>2. PhaseFits(h) /\ LeaderlessWhenEmpty(h)
  BY <1>1 DEF GroupOK, PhaseFits, LeaderlessWhenEmpty
<1>3. Formed(h) => JoinsAgree(h)
  <2>1. Formed(h) => JoinsAgree(g)
    BY <1>1 DEF GroupOK, Formed
  <2>2. JoinsAgree(g) => JoinsAgree(h)
    BY <1>1 DEF JoinsAgree
  <2>3. QED
    BY <2>1, <2>2
<1>4. Timed(h) /\ SyncedInPast(h)
  BY <1>1 DEF GroupOK, Timed, SyncedInPast, PhaseFits
<1>5. SharesProtocol(h)
  BY <1>1, SameProfiles DEF GroupOK, SharesProtocol, Formed
<1>6. QED
  BY <1>1, <1>2, <1>3, <1>4, <1>5 DEF GroupOK, h

\* Clearing the rebalance deadline of a stable group whose members all
\* synchronised.
LEMMA ClearDeadlineOK ==
  ASSUME NEW g, GroupOK(g), g.state = "Stable"
  PROVE  LET h == ClearRebalanceDeadlineIfAllSynced(g)
         IN  /\ GroupOK(h)
             /\ h.state = g.state /\ h.generation = g.generation
             /\ h.members = g.members /\ h.assignments = g.assignments
<1> DEFINE h == ClearRebalanceDeadlineIfAllSynced(g)
<1>1. IsGroup(g)
  BY DEF GroupOK
<1>2. CASE \E m \in DOMAIN g.members : g.members[m].synced # g.generation
  <2>1. h = g
    BY <1>2 DEF ClearRebalanceDeadlineIfAllSynced
  <2>2. QED
    BY <2>1
<1>3. CASE \A m \in DOMAIN g.members : g.members[m].synced = g.generation
  <2>1. h = [g EXCEPT !.deadline = NoDeadline]
    BY <1>3 DEF ClearRebalanceDeadlineIfAllSynced
  <2>2. IsGroup(h)
    BY <1>1, <2>1 DEF IsGroup, Deadline
  <2>3. /\ h.state = g.state /\ h.generation = g.generation /\ h.epoch = g.epoch
        /\ h.leader = g.leader /\ h.selected = g.selected
        /\ h.members = g.members /\ h.assignments = g.assignments
    BY <1>1, <2>1 DEF IsGroup
  <2> HIDE DEF h
  <2>4. PhaseFits(h) /\ LeaderlessWhenEmpty(h) /\ (Formed(h) => JoinsAgree(h))
    BY <2>3 DEF GroupOK, PhaseFits, LeaderlessWhenEmpty, Formed, JoinsAgree
  <2>5. Timed(h) /\ SyncedInPast(h) /\ SharesProtocol(h)
    BY <1>3, <2>3 DEF GroupOK, Timed, SyncedInPast, SharesProtocol, Formed
  <2>6. QED
    BY <2>2, <2>3, <2>4, <2>5 DEF GroupOK, h
<1>4. QED
  BY <1>2, <1>3

\* Calling notify_waiters, or releasing the mutex, changes nothing else.
LEMMA NotifyOK ==
  ASSUME NEW g, GroupOK(g), NEW b \in BOOLEAN
  PROVE  LET h == [g EXCEPT !.notified = b]
         IN  /\ GroupOK(h) /\ h.notified = b
             /\ h.state = g.state /\ h.generation = g.generation /\ h.epoch = g.epoch
             /\ h.leader = g.leader
             /\ h.members = g.members /\ h.assignments = g.assignments
<1> DEFINE h == [g EXCEPT !.notified = b]
<1>1. IsGroup(g)
  BY DEF GroupOK
<1>2. IsGroup(h)
  BY <1>1 DEF IsGroup
<1>3. /\ h.state = g.state /\ h.generation = g.generation /\ h.epoch = g.epoch
      /\ h.leader = g.leader /\ h.selected = g.selected /\ h.deadline = g.deadline
      /\ h.members = g.members /\ h.assignments = g.assignments /\ h.notified = b
  BY <1>1 DEF IsGroup
<1> HIDE DEF h
<1>4. GroupOK(h)
  BY <1>2, <1>3, SessionsOK
<1>5. QED
  BY <1>3, <1>4 DEF h

\* A SyncGroup in a stable generation leaves the generation as it is.
LEMMA SyncStableFine ==
  ASSUME NEW g, GroupOK(g), g.state = "Stable", NEW t, t.member \in DOMAIN g.members
  PROVE  /\ GroupOK(SyncStable(g, t))
         /\ SyncStable(g, t).state = g.state
         /\ SyncStable(g, t).generation = g.generation
         /\ DOMAIN SyncStable(g, t).members = DOMAIN g.members
         /\ SyncStable(g, t).assignments = g.assignments
<1> DEFINE h == MarkSynced(g, t.member)
           k == ClearRebalanceDeadlineIfAllSynced(h)
<1>1. /\ GroupOK(h) /\ h.state = "Stable" /\ h.generation = g.generation
      /\ DOMAIN h.members = DOMAIN g.members /\ h.assignments = g.assignments
  BY MarkSyncedOK, MarkSyncedFields
<1>2. /\ GroupOK(k) /\ k.state = "Stable" /\ k.generation = g.generation
      /\ DOMAIN k.members = DOMAIN g.members /\ k.assignments = g.assignments
  <2> HIDE DEF h
  <2>1. QED
    BY <1>1, ClearDeadlineOK
<1>3. SyncStable(g, t) = [k EXCEPT !.notified = TRUE]
  BY DEF SyncStable
<1> HIDE DEF k
<1> DEFINE r == [k EXCEPT !.notified = TRUE]
<1>4. /\ GroupOK(r) /\ r.state = k.state /\ r.generation = k.generation
      /\ r.members = k.members /\ r.assignments = k.assignments
  BY <1>2, NotifyOK, Zenon
<1>5. QED
  BY <1>2, <1>3, <1>4

\* The leader's plan makes the generation stable and covers its members.
LEMMA InstallFine ==
  ASSUME NEW g, GroupOK(g), g.state = "CompletingRebalance",
         NEW t \in Task, t.member \in DOMAIN g.members, ValidAssignment(g, t.plan)
  PROVE  /\ GroupOK(InstallAssignments(g, t))
         /\ InstallAssignments(g, t).state = "Stable"
         /\ InstallAssignments(g, t).generation = g.generation
         /\ DOMAIN InstallAssignments(g, t).members = DOMAIN g.members
         /\ InstallAssignments(g, t).assignments = t.plan.plans
<1> DEFINE h == MarkSynced(g, t.member)
           f == [m \in DOMAIN g.members |->
                   IF h.members[m].synced = g.generation
                   THEN [h.members[m] EXCEPT !.session =
                           SessionTimeout[h.members[m].profile]]
                   ELSE h.members[m]]
           k == [g EXCEPT !.members = f, !.assignments = t.plan.plans,
                          !.state = "Stable", !.notified = TRUE]
<1>1. /\ IsGroup(g) /\ IsGroup(h) /\ DOMAIN h.members = DOMAIN g.members
      /\ g.generation \in Nat
      /\ h.members[t.member].synced = g.generation
      /\ \A n \in DOMAIN g.members :
           /\ h.members[n].profile = g.members[n].profile
           /\ h.members[n].joined = g.members[n].joined
           /\ h.members[n].completed = g.members[n].completed
           /\ n # t.member => h.members[n].synced = g.members[n].synced
  BY MarkSyncedFields DEF GroupOK, IsGroup
<1>2. InstallAssignments(g, t) = ClearRebalanceDeadlineIfAllSynced(k)
  BY DEF InstallAssignments
<1> HIDE DEF h
<1>3. ASSUME NEW m \in DOMAIN g.members
      PROVE  /\ f[m] \in Member
             /\ f[m].profile = g.members[m].profile
             /\ f[m].joined = g.members[m].joined
             /\ f[m].completed = g.members[m].completed
             /\ f[m].synced = h.members[m].synced
  <2>1. h.members[m] \in Member
    BY <1>1 DEF IsGroup
  <2>2. SessionTimeout[h.members[m].profile] \in Nat
    BY <2>1, TimeoutAssumption DEF Member
  <2>3. QED
    BY <1>1, <2>1, <2>2 DEF Member
<1>4. f \in [DOMAIN g.members -> Member] /\ DOMAIN f = DOMAIN g.members
  BY <1>3
<1> HIDE DEF f
<1>5. t.plan.plans \in PartialMaps(MemberId, Plan) /\ DOMAIN t.plan.plans = DOMAIN g.members
  BY DEF Task, ValidAssignment
<1>6. IsGroup(k)
  <2>1. "Stable" \in GroupState
    BY DEF GroupState
  <2>2. QED
    BY <1>1, <1>4, <1>5, <2>1 DEF IsGroup
<1>7. /\ k.state = "Stable" /\ k.generation = g.generation /\ k.epoch = g.epoch
      /\ k.leader = g.leader /\ k.selected = g.selected /\ k.deadline = g.deadline
      /\ k.members = f /\ k.assignments = t.plan.plans
  BY <1>1 DEF IsGroup
<1> HIDE DEF k
<1>8. PhaseFits(k) /\ LeaderlessWhenEmpty(k)
  BY <1>4, <1>5, <1>7 DEF GroupOK, PhaseFits, LeaderlessWhenEmpty
<1>9. JoinsAgree(k)
  <2>1. JoinsAgree(g)
    BY DEF GroupOK, Formed
  <2>2. \A m \in DOMAIN g.members :
          k.members[m].joined = g.members[m].joined
          /\ k.members[m].completed = g.members[m].completed
    BY <1>3, <1>7
  <2>3. DOMAIN k.members = DOMAIN g.members
    BY <1>4, <1>7
  <2>4. QED
    BY <1>7, <2>1, <2>2, <2>3 DEF JoinsAgree
<1>10. Timed(k)
  BY <1>7 DEF GroupOK, Timed
<1>11. SyncedInPast(k)
  BY <1>1, <1>3, <1>4, <1>7 DEF GroupOK, SyncedInPast
<1>12. SharesProtocol(k)
  BY <1>3, <1>4, <1>7, SameProfiles DEF GroupOK, SharesProtocol, Formed
<1>13. GroupOK(k)
  BY <1>6, <1>8, <1>9, <1>10, <1>11, <1>12 DEF GroupOK
<1>14. QED
  BY <1>2, <1>4, <1>7, <1>13, ClearDeadlineOK

\* The next expiry is a deadline.
LEMMA NextExpiryType ==
  ASSUME NEW g, GroupOK(g), NEW active
  PROVE  NextExpiryDeadline(g, active) \in Deadline
<1> DEFINE D == ExpiryDeadlines(g, active)
<1>1. g.members \in [DOMAIN g.members -> Member] /\ g.deadline \in Deadline
  BY DEF GroupOK, IsGroup
<1>2. D \in SUBSET Nat
  BY <1>1 DEF ExpiryDeadlines, Member, Deadline
<1> HIDE DEF D
<1>3. CASE D = {}
  BY <1>3 DEF NextExpiryDeadline, Deadline, D
<1>4. CASE D # {}
  <2>1. Min(D) \in Nat
    BY <1>2, <1>4, MinOfNaturals
  <2>2. QED
    BY <1>4, <2>1 DEF NextExpiryDeadline, Deadline, D
<1>5. QED
  BY <1>3, <1>4

----------------------------------------------------------------------------
(* Releasing the mutex *)

\* The inductive invariant.
IInv ==
  /\ TypeOK
  /\ GroupOK(group)
  /\ \A c \in Connection : Carries(task[c])

\* What every step has to show of the group and the tasks.
Released ==
  /\ GroupOK(group') /\ ~group'.notified
  /\ Moves(group, group')
  /\ task' \in [Connection -> Task]
  /\ \A c \in Connection : Carries(task'[c])
  /\ driver' \in [wait : Deadline, woken : BOOLEAN]
  /\ delivered' \subseteq Plan

\* A connection without a request has its type.
LEMMA IdleOK == Idle \in Task /\ Carries(Idle)
<1>1. EmptyMap \in PartialMaps(MemberId, Plan)
  BY EmptyMapType
<1>2. QED
  BY <1>1 DEF Idle, Task, Carries, NoPlan, NoMember, NoType, NoDeadline, Deadline

\* Waking a task or the driver keeps what it is about.
LEMMA WokenOK ==
  ASSUME NEW g, GroupOK(g)
  PROVE  /\ \A t \in Task : Woken(t, g) \in Task /\ (Carries(t) => Carries(Woken(t, g)))
         /\ \A d \in [wait : Deadline, woken : BOOLEAN] :
              Woken(d, g) \in [wait : Deadline, woken : BOOLEAN]
<1>1. g.notified \in BOOLEAN
  BY DEF GroupOK, IsGroup
<1>2. ASSUME NEW t \in Task
      PROVE  Woken(t, g) \in Task /\ (Carries(t) => Carries(Woken(t, g)))
  <2>1. t.woken \in BOOLEAN
    BY DEF Task
  <2>2. (t.woken \/ g.notified) \in BOOLEAN
    BY <1>1, <2>1
  <2>3. Woken(t, g) \in Task
    BY <2>2 DEF Woken, Task
  <2>4. /\ Woken(t, g).pc = t.pc /\ Woken(t, g).member = t.member
        /\ Woken(t, g).profile = t.profile /\ Woken(t, g).type = t.type
    BY DEF Woken, Task
  <2>5. QED
    BY <2>3, <2>4 DEF Carries
<1>3. ASSUME NEW d \in [wait : Deadline, woken : BOOLEAN]
      PROVE  Woken(d, g) \in [wait : Deadline, woken : BOOLEAN]
  <2>1. (d.woken \/ g.notified) \in BOOLEAN
    BY <1>1
  <2>2. QED
    BY <2>1 DEF Woken
<1>4. QED
  BY <1>2, <1>3

\* Sleeping on a group in order.
LEMMA SleepingOK ==
  ASSUME NEW g, GroupOK(g), NEW t \in Task, Carries(t)
  PROVE  Sleeping(t, g) \in Task /\ Carries(Sleeping(t, g))
<1>1. NextExpiryDeadline(g, t.member) \in Deadline
  BY NextExpiryType
<1>2. Sleeping(t, g) \in Task
  BY <1>1 DEF Sleeping, Task
<1>3. /\ Sleeping(t, g).pc = t.pc /\ Sleeping(t, g).member = t.member
      /\ Sleeping(t, g).profile = t.profile /\ Sleeping(t, g).type = t.type
  BY DEF Sleeping, Task
<1>4. QED
  BY <1>2, <1>3 DEF Carries

\* notify_waiters reaches tasks and driver and keeps their types.
LEMMA NotifiedOK ==
  ASSUME IInv, NEW g, GroupOK(g)
  PROVE  /\ Notified(g) \in [Connection -> Task]
         /\ \A c \in Connection : Carries(Notified(g)[c])
<1>1. ASSUME NEW c \in Connection
      PROVE  Notified(g)[c] \in Task /\ Carries(Notified(g)[c])
  <2>1. task[c] \in Task /\ Carries(task[c])
    BY DEF IInv, TypeOK
  <2>2. Notified(g)[c] = IF Asleep(task[c]) THEN Woken(task[c], g) ELSE task[c]
    BY DEF Notified
  <2>3. QED
    BY <2>1, <2>2, WokenOK
<1>2. QED
  BY <1>1 DEF Notified

\* Releasing the mutex over a group in order, with a task of its own type.
LEMMA UnlockOK ==
  ASSUME IInv, NEW g, Fine(group, g), NEW answers \in SUBSET Plan, Unlock(g, answers)
  PROVE  /\ GroupOK(group') /\ ~group'.notified
         /\ Moves(group, group')
         /\ delivered' \subseteq Plan
<1> DEFINE r == [g EXCEPT !.notified = FALSE]
<1>1. GroupOK(g)
  BY DEF Fine
<1>2. /\ GroupOK(r) /\ r.notified = FALSE /\ r.state = g.state
      /\ r.generation = g.generation /\ r.members = g.members
      /\ r.assignments = g.assignments
  BY <1>1, NotifyOK, Zenon
<1>3. group' = r
  BY DEF Unlock
<1> HIDE DEF r
<1>4. Moves(group, r)
  BY <1>2 DEF Fine, Moves
<1>5. delivered' \subseteq Plan
  BY DEF Unlock, IInv, TypeOK
<1>6. QED
  BY <1>2, <1>3, <1>4, <1>5

\* Releasing the mutex when the request ends or goes to sleep.
LEMMA UnlockFromOK ==
  ASSUME IInv, NEW c \in Connection, NEW t \in Task, Carries(t),
         NEW g, Fine(group, g), UnlockFrom(c, t, g)
  PROVE  Released
<1>1. /\ Unlock(g, {}) /\ task' = [Notified(g) EXCEPT ![c] = t]
      /\ driver' = Woken(driver, g)
  BY DEF UnlockFrom
<1>2. GroupOK(g) /\ driver \in [wait : Deadline, woken : BOOLEAN]
  BY DEF Fine, IInv, TypeOK
<1>3. driver' \in [wait : Deadline, woken : BOOLEAN]
  BY <1>1, <1>2, WokenOK
<1>4. task' \in [Connection -> Task] /\ \A d \in Connection : Carries(task'[d])
  BY <1>1, <1>2, NotifiedOK
<1>5. QED
  BY <1>1, <1>3, <1>4, UnlockOK DEF Released

\* Releasing the mutex after a SyncGroup has read its assignment.
LEMMA UnlockWithAssignmentOK ==
  ASSUME IInv, NEW c \in Connection, NEW m, NEW g, Fine(group, g),
         UnlockWithAssignment(c, m, g)
  PROVE  Released
<1> DEFINE answers == {g.assignments[n] : n \in {m} \cap DOMAIN g.assignments}
<1>1. /\ Unlock(g, answers) /\ task' = [Notified(g) EXCEPT ![c] = Idle]
      /\ driver' = Woken(driver, g)
  BY DEF UnlockWithAssignment
<1>2. GroupOK(g) /\ driver \in [wait : Deadline, woken : BOOLEAN]
  BY DEF Fine, IInv, TypeOK
<1>3. answers \in SUBSET Plan
  <2>1. g.assignments \in PartialMaps(MemberId, Plan)
    BY <1>2 DEF GroupOK, IsGroup
  <2>2. QED
    BY <2>1 DEF PartialMaps
<1> HIDE DEF answers
<1>4. driver' \in [wait : Deadline, woken : BOOLEAN]
  BY <1>1, <1>2, WokenOK
<1>5. task' \in [Connection -> Task] /\ \A d \in Connection : Carries(task'[d])
  BY <1>1, <1>2, NotifiedOK, IdleOK
<1>6. QED
  BY <1>1, <1>3, <1>4, <1>5, UnlockOK DEF Released

\* Releasing the mutex after a request that no connection task carries.
LEMMA UnlockRequestOK ==
  ASSUME IInv, NEW g, Fine(group, g), UnlockRequest(g)
  PROVE  Released
<1>1. Unlock(g, {}) /\ task' = Notified(g) /\ driver' = Woken(driver, g)
  BY DEF UnlockRequest
<1>2. GroupOK(g) /\ driver \in [wait : Deadline, woken : BOOLEAN]
  BY DEF Fine, IInv, TypeOK
<1>3. driver' \in [wait : Deadline, woken : BOOLEAN]
  BY <1>1, <1>2, WokenOK
<1>4. task' \in [Connection -> Task] /\ \A d \in Connection : Carries(task'[d])
  BY <1>1, <1>2, NotifiedOK
<1>5. QED
  BY <1>1, <1>3, <1>4, UnlockOK DEF Released

----------------------------------------------------------------------------
(* The actions *)

\* A step that only moves a task and leaves the group alone.
LEMMA TaskStepOK ==
  ASSUME IInv, NEW c \in Connection, NEW t \in Task, Carries(t),
         task' = [task EXCEPT ![c] = t], UNCHANGED <<group, driver, delivered>>
  PROVE  Released
<1>1. GroupOK(group') /\ ~group'.notified /\ Moves(group, group')
  BY DEF IInv, TypeOK, Moves
<1>2. task' \in [Connection -> Task] /\ \A d \in Connection : Carries(task'[d])
  BY DEF IInv, TypeOK
<1>3. QED
  BY <1>1, <1>2 DEF Released, IInv, TypeOK

\* Accepting a JoinGroup touches only the task.
LEMMA JoinStartOK ==
  ASSUME IInv, NEW c \in Connection, NEW m \in MemberId, NEW p \in Profile,
         NEW type \in ProtocolType, JoinStart(c, m, p, type)
  PROVE  Released
<1> DEFINE t == [Idle EXCEPT !.pc = IF m \in pending THEN "lock" ELSE "known",
                             !.member = m, !.profile = p, !.type = type,
                             !.mayAdd = m \in pending]
<1>1. (m \in pending) \in BOOLEAN
  OBVIOUS
<1>2. t \in Task
  BY <1>1, IdleOK DEF Task
<1>3. Carries(t)
  BY IdleOK DEF Carries, Task
<1> HIDE DEF t
<1>4. QED
  BY <1>2, <1>3, TaskStepOK DEF JoinStart, t

\* The membership check of a JoinGroup for an id that is not pending.
LEMMA JoinCheckKnownOK ==
  ASSUME IInv, NEW c \in Connection, JoinCheckKnown(c)
  PROVE  Released
<1> DEFINE t == IF task[c].member \in DOMAIN group.members
                THEN [task[c] EXCEPT !.pc = "lock"] ELSE Idle
<1>1. task[c] \in Task /\ Carries(task[c]) /\ task[c].pc = "known"
  BY DEF IInv, TypeOK, JoinCheckKnown
<1>2. t \in Task /\ Carries(t)
  BY <1>1, IdleOK DEF Task, Carries
<1>3. task' = [task EXCEPT ![c] = t]
  BY DEF JoinCheckKnown, IInv, TypeOK
<1> HIDE DEF t
<1>4. QED
  BY <1>2, <1>3, TaskStepOK DEF JoinCheckKnown

\* Removing the pending id after the group was unlocked.
LEMMA JoinUnpendOK ==
  ASSUME IInv, NEW c \in Connection, JoinUnpend(c)
  PROVE  Released
<1> DEFINE t == [task[c] EXCEPT !.pc = "joining", !.woken = TRUE]
<1>1. task[c] \in Task /\ Carries(task[c]) /\ task[c].pc = "unpend"
  BY DEF IInv, TypeOK, JoinUnpend
<1>2. t \in Task
  BY <1>1 DEF Task
<1>3. Carries(t)
  BY <1>1 DEF Task, Carries
<1>4. task' = [task EXCEPT ![c] = t]
  BY DEF JoinUnpend, IInv, TypeOK
<1> HIDE DEF t
<1>5. QED
  BY <1>2, <1>3, <1>4, TaskStepOK DEF JoinUnpend

\* The locked part of GroupCoordinator::join.
LEMMA JoinOK ==
  ASSUME IInv, NEW c \in Connection, Join(c)
  PROVE  Released
<1> DEFINE t == task[c]
           g == ExpireStaleMembers(group, NoMember)
<1>1. t \in Task /\ Carries(t) /\ t.pc = "lock"
  BY DEF IInv, TypeOK, Join
<1>2. /\ Fine(group, g) /\ GroupOK(g) /\ g.generation = group.generation
  BY ExpireFine, ExpireOK DEF IInv, Fine, Receded
<1>3. CASE UnlockFrom(c, Idle, g)
  BY <1>2, <1>3, IdleOK, UnlockFromOK
<1>4. CASE HasCachedJoin(g, t) /\ UnlockFrom(c, Idle, RefreshHeartbeat(g, t.member))
  <2>1. Fine(group, RefreshHeartbeat(g, t.member))
    BY <1>2, <1>4, RefreshFine DEF HasCachedJoin
  <2>2. QED
    BY <1>4, <2>1, IdleOK, UnlockFromOK
<1>5. CASE /\ ~NoCommonProtocol(g, t)
           /\ \E joined \in {WithJoiner(g, t)} :
                UnlockFrom(c, IF CompletionFails(joined) THEN Idle
                              ELSE [t EXCEPT !.pc = "unpend", !.epoch = TargetEpoch(g)],
                           CompleteRebalanceIfReady(joined))
  <2> DEFINE joined == WithJoiner(g, t)
             u == [t EXCEPT !.pc = "unpend", !.epoch = TargetEpoch(g)]
             v == IF CompletionFails(joined) THEN Idle ELSE u
  <2>1. UnlockFrom(c, v, CompleteRebalanceIfReady(joined))
    BY <1>5
  <2>2. TargetEpoch(g) \in Nat
    BY <1>2 DEF GroupOK, IsGroup, TargetEpoch
  <2>3. u \in Task /\ Carries(u)
    BY <1>1, <2>2 DEF Task, Carries
  <2> HIDE DEF u
  <2>4. v \in Task /\ Carries(v)
    BY <2>3, IdleOK
  <2>5. /\ GroupOK(joined) /\ joined.state = "PreparingRebalance"
        /\ joined.generation = group.generation
    BY <1>1, <1>2, <1>5, WithJoinerOK
  <2> HIDE DEF joined, v
  <2>6. Fine(group, CompleteRebalanceIfReady(joined))
    BY <2>5, CompleteFine DEF Moves
  <2>7. QED
    BY <2>1, <2>4, <2>6, UnlockFromOK
<1>6. QED
  BY <1>3, <1>4, <1>5 DEF Join

\* A JoinGroup that wakes and looks again.
LEMMA JoinPollOK ==
  ASSUME IInv, NEW c \in Connection, JoinPoll(c)
  PROVE  Released
<1> DEFINE t == task[c]
           expired == ExpireStaleMembers(group, t.member)
           g == CompleteRebalanceIfReady(expired)
           v == IF CompletionFails(expired) \/ HasCompletedJoin(g, t)
                THEN Idle ELSE Sleeping(t, g)
<1>1. t \in Task /\ Carries(t) /\ GroupOK(group)
  BY DEF IInv, TypeOK
<1>2. CASE UnlockFrom(c, Idle, group)
  <2>1. Fine(group, group)
    BY <1>1 DEF Fine, Moves
  <2>2. QED
    BY <1>2, <2>1, IdleOK, UnlockFromOK
<1>3. CASE UnlockFrom(c, v, g)
  <2>1. Fine(group, g) /\ GroupOK(g)
    BY <1>1, ExpireCompleteFine DEF Fine
  <2>2. v \in Task /\ Carries(v)
    BY <1>1, <2>1, IdleOK, SleepingOK
  <2> HIDE DEF v, g
  <2>3. QED
    BY <1>3, <2>1, <2>2, UnlockFromOK
<1>4. QED
  BY <1>2, <1>3 DEF JoinPoll

\* One round of sync, on a group that only expired members since it was free.
LEMMA SyncRoundOK ==
  ASSUME IInv, NEW c \in Connection, NEW t \in Task, Carries(t),
         NEW g, Fine(group, g), g.state \notin {"Empty", "PreparingRebalance"} =>
           /\ g.state = group.state /\ g.generation = group.generation
           /\ DOMAIN g.members = DOMAIN group.members /\ g.assignments = group.assignments,
         SyncRound(c, t, g)
  PROVE  Released
<1>1. GroupOK(g)
  BY DEF Fine
<1>2. CASE UnlockFrom(c, Idle, g)
  BY <1>2, IdleOK, UnlockFromOK
<1>3. CASE /\ ValidMemberAndGeneration(g, t.member, t.generation)
           /\ g.state = "Stable"
           /\ UnlockWithAssignment(c, t.member, SyncStable(g, t))
  <2>1. Fine(group, SyncStable(g, t))
    BY <1>1, <1>3, SyncStableFine DEF Fine, Moves, ValidMemberAndGeneration
  <2>2. QED
    BY <1>3, <2>1, UnlockWithAssignmentOK
<1>4. CASE /\ ValidMemberAndGeneration(g, t.member, t.generation)
           /\ g.state = "CompletingRebalance" /\ ValidAssignment(g, t.plan)
           /\ UnlockWithAssignment(c, t.member, InstallAssignments(g, t))
  <2>1. Fine(group, InstallAssignments(g, t))
    BY <1>1, <1>4, InstallFine DEF Fine, Moves, ValidMemberAndGeneration
  <2>2. QED
    BY <1>4, <2>1, UnlockWithAssignmentOK
<1>5. CASE /\ ValidMemberAndGeneration(g, t.member, t.generation)
           /\ g.state = "CompletingRebalance" /\ t.member # g.leader
           /\ UnlockFrom(c, Sleeping(t, MarkSynced(g, t.member)), MarkSynced(g, t.member))
  <2> DEFINE h == MarkSynced(g, t.member)
  <2>1. /\ GroupOK(h) /\ h.state = g.state /\ h.generation = g.generation
        /\ DOMAIN h.members = DOMAIN g.members /\ h.assignments = g.assignments
    BY <1>1, <1>5, MarkSyncedOK, MarkSyncedFields DEF ValidMemberAndGeneration
  <2> HIDE DEF h
  <2>2. Fine(group, h)
    BY <1>5, <2>1 DEF Fine, Moves
  <2>3. Sleeping(t, h) \in Task /\ Carries(Sleeping(t, h))
    BY <2>1, SleepingOK
  <2>4. QED
    BY <1>5, <2>2, <2>3, UnlockFromOK DEF h
<1>6. QED
  BY <1>2, <1>3, <1>4, <1>5 DEF SyncRound

\* A SyncGroup from its first lock on.
LEMMA SyncOK ==
  ASSUME IInv, NEW c \in Connection, NEW m \in MemberId, NEW generation \in Nat,
         NEW plan \in [plans : PartialMaps(MemberId, Plan), repeated : BOOLEAN],
         Sync(c, m, generation, plan)
  PROVE  Released
<1> DEFINE t == [Idle EXCEPT !.pc = "syncing", !.member = m,
                             !.generation = generation, !.plan = plan]
           g == ExpireStaleMembers(group, NoMember)
           r == IF ValidMemberAndGeneration(g, m, generation)
                THEN RefreshHeartbeat(g, m) ELSE g
<1>1. t \in Task
  BY IdleOK DEF Task
<1>2. Carries(t)
  BY IdleOK DEF Task, Carries
<1>3. SyncRound(c, t, r)
  BY DEF Sync
<1>4. Fine(group, g) /\ GroupOK(g) /\ Receded(group, g)
  BY ExpireFine, ExpireOK DEF IInv, Fine
<1> HIDE DEF t, g
<1>5. Fine(group, r)
  BY <1>4, RefreshFine DEF ValidMemberAndGeneration
<1>6. r.state \notin {"Empty", "PreparingRebalance"} =>
           /\ r.state = group.state /\ r.generation = group.generation
           /\ DOMAIN r.members = DOMAIN group.members /\ r.assignments = group.assignments
  <2>1. CASE r = g
    BY <1>4, <2>1 DEF Receded
  <2>2. CASE r # g
    <3>1. m \in DOMAIN g.members /\ r = RefreshHeartbeat(g, m)
      BY <2>2 DEF ValidMemberAndGeneration
    <3>2. /\ r.state = g.state /\ r.generation = g.generation
          /\ DOMAIN r.members = DOMAIN g.members /\ r.assignments = g.assignments
      BY <1>4, <3>1, RefreshHeartbeatOK
    <3> HIDE DEF r
    <3>3. QED
      BY <1>4, <3>2 DEF Receded
  <2>3. QED
    BY <2>1, <2>2
<1> HIDE DEF r
<1>7. QED
  BY <1>1, <1>2, <1>3, <1>5, <1>6, SyncRoundOK

\* A SyncGroup that wakes and looks again.
LEMMA SyncPollOK ==
  ASSUME IInv, NEW c \in Connection, SyncPoll(c)
  PROVE  Released
<1> DEFINE t == task[c]
           g == ExpireStaleMembers(group, t.member)
<1>1. t \in Task /\ Carries(t) /\ SyncRound(c, t, g)
  BY DEF IInv, TypeOK, SyncPoll
<1>2. Fine(group, g) /\ Receded(group, g)
  BY ExpireFine, ExpireOK DEF IInv, Fine
<1> HIDE DEF t, g
<1>3. QED
  BY <1>1, <1>2, SyncRoundOK DEF Receded

\* GroupCoordinator::heartbeat.
LEMMA HeartbeatOK ==
  ASSUME IInv, NEW m, NEW generation, Heartbeat(m, generation)
  PROVE  Released
<1> DEFINE g == ExpireStaleMembers(group, NoMember)
           r == IF ValidMemberAndGeneration(g, m, generation)
                THEN RefreshHeartbeat(g, m) ELSE g
<1>1. Fine(group, g)
  BY ExpireFine DEF IInv
<1>2. UnlockRequest(r)
  BY DEF Heartbeat
<1> HIDE DEF g
<1>3. Fine(group, r)
  BY <1>1, RefreshFine DEF ValidMemberAndGeneration
<1> HIDE DEF r
<1>4. QED
  BY <1>2, <1>3, UnlockRequestOK

\* GroupCoordinator::leave.
LEMMA LeaveOK ==
  ASSUME IInv, NEW m, Leave(m)
  PROVE  Released
<1> DEFINE g == ExpireStaleMembers(group, NoMember)
           r == IF m \in DOMAIN g.members
                THEN CompleteRebalanceIfReady(TransitionAfterRemoval(Remove(g, {m})))
                ELSE g
<1>1. Fine(group, g) /\ GroupOK(g) /\ g.generation = group.generation
  BY ExpireFine, ExpireOK DEF IInv, Fine, Receded
<1>2. UnlockRequest(r)
  BY DEF Leave
<1> HIDE DEF g
<1>3. Fine(group, r)
  BY <1>1, LeaveFine
<1> HIDE DEF r
<1>4. QED
  BY <1>2, <1>3, UnlockRequestOK

\* GroupCoordinator::describe, which expires members as it reads.
LEMMA DescribeOK ==
  ASSUME IInv, Describe
  PROVE  Released
BY ExpireFine, UnlockRequestOK DEF IInv, Describe

\* A commit is accepted only while the group is stable, for its generation.
LEMMA CommitOffsetsOK ==
  ASSUME IInv, NEW m, NEW generation, CommitOffsets(m, generation)
  PROVE  /\ Released
         /\ \/ committed' = committed
            \/ /\ committed' = group.generation /\ group.state = "Stable"
               /\ group' = [group EXCEPT !.notified = FALSE]
<1> DEFINE g == ExpireStaleMembers(group, NoMember)
<1>1. Fine(group, g) /\ Receded(group, g)
  BY ExpireFine, ExpireOK DEF IInv, Fine
<1>2. /\ UnlockRequest(g)
      /\ committed' = IF ValidMemberAndGeneration(g, m, generation) /\ g.state = "Stable"
                      THEN generation ELSE committed
  BY DEF CommitOffsets
<1> HIDE DEF g
<1>3. Released
  BY <1>1, <1>2, UnlockRequestOK
<1>4. CASE ValidMemberAndGeneration(g, m, generation) /\ g.state = "Stable"
  <2>1. g = group /\ generation = group.generation
    BY <1>1, <1>4 DEF Receded, ValidMemberAndGeneration
  <2>2. group' = [group EXCEPT !.notified = FALSE]
    BY <1>2, <2>1 DEF UnlockRequest, Unlock
  <2>3. QED
    BY <1>2, <1>3, <1>4, <2>1, <2>2
<1>5. CASE ~(ValidMemberAndGeneration(g, m, generation) /\ g.state = "Stable")
  BY <1>2, <1>3, <1>5
<1>6. QED
  BY <1>4, <1>5

\* One round of drive_group_deadlines.
LEMMA DriveDeadlinesOK ==
  ASSUME IInv, DriveDeadlines
  PROVE  Released
<1> DEFINE g == CompleteRebalanceIfReady(ExpireStaleMembers(group, NoMember))
<1>1. Fine(group, g) /\ GroupOK(g)
  BY ExpireCompleteFine DEF IInv, Fine
<1>2. /\ Unlock(g, {}) /\ task' = Notified(g)
      /\ driver' = [wait |-> NextExpiryDeadline(g, NoMember), woken |-> FALSE]
  BY DEF DriveDeadlines
<1> HIDE DEF g
<1>3. driver' \in [wait : Deadline, woken : BOOLEAN]
  BY <1>1, <1>2, NextExpiryType
<1>4. QED
  BY <1>1, <1>2, <1>3, UnlockOK, NotifiedOK DEF Released

\* A deadline stays a deadline as time passes.
LEMMA ElapsedType ==
  /\ \A d \in Deadline : Elapsed(d) \in Deadline /\ (Elapsed(d) = NoDeadline <=> d = NoDeadline)
  /\ \A d \in Nat : Elapsed(d) \in Nat
BY DEF Elapsed, Deadline, NoDeadline

\* The passing of time moves no part of the group that clients see.
LEMMA TickOK ==
  ASSUME IInv, Tick
  PROVE  Released
<1> DEFINE f == [m \in DOMAIN group.members |->
                   [group.members[m] EXCEPT !.session = Elapsed(@)]]
<1>1. IsGroup(group) /\ GroupOK(group) /\ ~group.notified
  BY DEF IInv, TypeOK
<1>2. group' = [group EXCEPT !.deadline = Elapsed(@), !.members = f]
  BY DEF Tick
<1>3. ASSUME NEW m \in DOMAIN group.members
      PROVE  /\ f[m] \in Member
             /\ f[m].profile = group.members[m].profile
             /\ f[m].joined = group.members[m].joined
             /\ f[m].synced = group.members[m].synced
             /\ f[m].completed = group.members[m].completed
  <2>1. group.members[m] \in Member
    BY <1>1 DEF IsGroup
  <2>2. Elapsed(group.members[m].session) \in Nat
    BY <2>1, ElapsedType DEF Member
  <2>3. QED
    BY <2>1, <2>2 DEF Member
<1>4. f \in [DOMAIN group.members -> Member] /\ DOMAIN f = DOMAIN group.members
  BY <1>3
<1> HIDE DEF f
<1>5. Elapsed(group.deadline) \in Deadline
      /\ (Elapsed(group.deadline) = NoDeadline <=> group.deadline = NoDeadline)
  BY <1>1, ElapsedType DEF IsGroup
<1>6. IsGroup(group')
  BY <1>1, <1>2, <1>4, <1>5 DEF IsGroup
<1>7. /\ group'.state = group.state /\ group'.generation = group.generation
      /\ group'.epoch = group.epoch /\ group'.leader = group.leader
      /\ group'.selected = group.selected /\ group'.assignments = group.assignments
      /\ group'.deadline = Elapsed(group.deadline) /\ group'.members = f
      /\ group'.notified = group.notified
  BY <1>1, <1>2 DEF IsGroup
<1>8. GroupOK(group')
  <2> DEFINE h == group'
  <2>1. /\ IsGroup(h) /\ h.state = group.state /\ h.generation = group.generation
        /\ h.epoch = group.epoch /\ h.leader = group.leader
        /\ h.selected = group.selected /\ h.assignments = group.assignments
        /\ (h.deadline = NoDeadline <=> group.deadline = NoDeadline) /\ h.members = f
    BY <1>5, <1>6, <1>7
  <2> HIDE DEF h
  <2>2. GroupOK(h)
    BY <1>1, <1>3, <1>4, <2>1, SessionsOK
  <2>3. QED
    BY <2>2 DEF h
<1>9. ASSUME NEW c \in Connection PROVE task'[c] \in Task /\ Carries(task'[c])
  <2>1. task[c] \in Task /\ Carries(task[c]) /\ Elapsed(task[c].wait) \in Deadline
    BY ElapsedType DEF IInv, TypeOK, Task
  <2>2. task'[c] = [task[c] EXCEPT !.wait = Elapsed(@)]
    BY DEF Tick
  <2>3. QED
    BY <2>1, <2>2 DEF Task, Carries
<1>10. task' \in [Connection -> Task]
  BY <1>9 DEF Tick
<1>11. driver' \in [wait : Deadline, woken : BOOLEAN]
  BY ElapsedType DEF IInv, TypeOK, Tick
<1>12. QED
  BY <1>1, <1>4, <1>7, <1>8, <1>9, <1>10, <1>11
     DEF Released, Moves, Tick, IInv, TypeOK

----------------------------------------------------------------------------
(* The invariant *)

\* The plans a SyncGroup may carry have the type of a task's plan.
LEMMA SyncPlansType ==
  ASSUME IInv, NEW m, NEW generation
  PROVE  SyncPlans(m, generation) \subseteq
           [plans : PartialMaps(MemberId, Plan), repeated : BOOLEAN]
<1>1. NoPlan \in [plans : PartialMaps(MemberId, Plan), repeated : BOOLEAN]
  BY EmptyMapType DEF NoPlan
<1>2. ASSUME NEW p \in Plan
      PROVE  PartialMaps(MemberId, {p}) \subseteq PartialMaps(MemberId, Plan)
  BY DEF PartialMaps
<1>3. ASSUME NEW p \in Plan
      PROVE  [DOMAIN group.members -> {p}] \subseteq PartialMaps(MemberId, Plan)
  BY DEF PartialMaps, IInv, GroupOK, IsGroup
<1> DEFINE A == UNION {PartialMaps(MemberId, {p}) : p \in Plan}
           B == UNION {[DOMAIN group.members -> {p}] : p \in Plan}
           F == [plans : A, repeated : {FALSE}] \cup [plans : B, repeated : {TRUE}]
<1>4. A \subseteq PartialMaps(MemberId, Plan) /\ B \subseteq PartialMaps(MemberId, Plan)
  BY <1>2, <1>3
<1>5. SyncPlans(m, generation) =
        {NoPlan} \cup {plan \in F : m = group.leader /\ generation = group.generation}
  BY DEF SyncPlans
<1> HIDE DEF A, B
<1>6. F \subseteq [plans : PartialMaps(MemberId, Plan), repeated : BOOLEAN]
  BY <1>4
<1> HIDE DEF F
<1>7. QED
  BY <1>1, <1>5, <1>6

\* Every step of the coordinator leaves the group and the tasks in order and
\* moves the group as ConsumerGroup may; it commits only for the current,
\* stable generation.
StepOK ==
  /\ IInv'
  /\ Moves(group, group')
  /\ \/ committed' = committed
     \/ /\ committed' = group.generation /\ group.state = "Stable"
        /\ group' = [group EXCEPT !.notified = FALSE]

\* A step that releases the mutex properly and leaves the rest typed is a step
\* of the kind StepOK describes.
LEMMA ReleasedStep ==
  ASSUME IInv, Released, pending' \subseteq MemberId,
         \/ committed' = committed
         \/ /\ committed' = group.generation /\ group.state = "Stable"
            /\ group' = [group EXCEPT !.notified = FALSE]
  PROVE  StepOK
<1>1. committed' \in Nat
  BY DEF IInv, TypeOK, IsGroup
<1>2. IsGroup(group')
  BY DEF Released, GroupOK
<1>3. TypeOK'
  BY <1>1, <1>2 DEF TypeOK, Released
<1>4. QED
  BY <1>3 DEF StepOK, IInv, Released

\* The coordinator starts in order.
LEMMA InitOK == Init => IInv
<1> SUFFICES ASSUME Init PROVE IInv
  OBVIOUS
<1>1. GroupOK(group) /\ ~group.notified
  BY NewGroupOK DEF Init, NewGroup
<1>2. \A c \in Connection : task[c] \in Task /\ Carries(task[c])
  BY IdleOK DEF Init
<1>3. driver \in [wait : Deadline, woken : BOOLEAN]
  BY DEF Init, Deadline
<1>4. QED
  BY <1>1, <1>2, <1>3 DEF Init, IInv, TypeOK, GroupOK

\* Every step keeps IInv and moves the group as Moves allows, one case for each
\* action.
LEMMA NextOK == IInv /\ [Next]_vars => StepOK
<1> SUFFICES ASSUME IInv, [Next]_vars PROVE StepOK
  OBVIOUS
<1>0. pending \subseteq MemberId
  BY DEF IInv, TypeOK
<1>1. CASE JoinWithoutId
  <2>1. Released
    BY <1>1 DEF JoinWithoutId, IInv, TypeOK, Released, Moves
  <2>2. QED
    BY <1>0, <1>1, <2>1, ReleasedStep DEF JoinWithoutId, NewIds
<1>2. ASSUME NEW c \in Connection, NEW m \in MemberId, NEW p \in Profile,
             NEW type \in ProtocolType, JoinStart(c, m, p, type)
      PROVE  StepOK
  BY <1>0, <1>2, JoinStartOK, ReleasedStep DEF JoinStart
<1>3. ASSUME NEW c \in Connection, NEW m \in MemberId,
             NEW generation \in 0..group.generation,
             NEW plan \in SyncPlans(m, generation), Sync(c, m, generation, plan)
      PROVE  StepOK
  <2>1. generation \in Nat
    BY DEF IInv, GroupOK, IsGroup
  <2>2. plan \in [plans : PartialMaps(MemberId, Plan), repeated : BOOLEAN]
    BY SyncPlansType
  <2>3. Released
    BY <1>3, <2>1, <2>2, SyncOK
  <2>4. QED
    BY <1>0, <1>3, <2>3, ReleasedStep DEF Sync
<1>4. ASSUME NEW m, NEW generation, Heartbeat(m, generation) PROVE StepOK
  BY <1>0, <1>4, HeartbeatOK, ReleasedStep DEF Heartbeat
<1>5. ASSUME NEW m, Leave(m) PROVE StepOK
  BY <1>0, <1>5, LeaveOK, ReleasedStep DEF Leave
<1>6. ASSUME NEW m, NEW generation, CommitOffsets(m, generation) PROVE StepOK
  BY <1>0, <1>6, CommitOffsetsOK, ReleasedStep DEF CommitOffsets
<1>7. CASE Describe
  BY <1>0, <1>7, DescribeOK, ReleasedStep DEF Describe
<1>8. ASSUME NEW c \in Connection, Progress(c) PROVE StepOK
  <2>1. CASE JoinCheckKnown(c)
    BY <1>0, <2>1, JoinCheckKnownOK, ReleasedStep DEF JoinCheckKnown
  <2>2. CASE Join(c)
    BY <1>0, <2>2, JoinOK, ReleasedStep DEF Join
  <2>3. CASE JoinUnpend(c)
    BY <1>0, <2>3, JoinUnpendOK, ReleasedStep DEF JoinUnpend
  <2>4. CASE JoinPoll(c)
    BY <1>0, <2>4, JoinPollOK, ReleasedStep DEF JoinPoll
  <2>5. CASE SyncPoll(c)
    BY <1>0, <2>5, SyncPollOK, ReleasedStep DEF SyncPoll
  <2>6. QED
    BY <1>8, <2>1, <2>2, <2>3, <2>4, <2>5 DEF Progress
<1>9. CASE DriveDeadlines
  BY <1>0, <1>9, DriveDeadlinesOK, ReleasedStep DEF DriveDeadlines
<1>10. CASE Tick
  BY <1>0, <1>10, TickOK, ReleasedStep DEF Tick
<1>11. CASE UNCHANGED vars
  <2>1. IInv'
    BY <1>11 DEF vars, IInv, TypeOK, Task, SyncPlans
  <2>2. QED
    BY <1>11, <2>1 DEF StepOK, Moves, vars
<1>12. QED
  BY <1>1, <1>2, <1>3, <1>4, <1>5, <1>6, <1>7, <1>8, <1>9, <1>10, <1>11
     DEF Next, Request, MembershipRequest

\* IInv is an invariant: the group is in order whenever its mutex is free.
THEOREM Invariance == Spec => []IInv
<1>1. IInv /\ [Next]_vars => IInv'
  BY NextOK DEF StepOK
<1>2. QED
  BY InitOK, <1>1, PTL DEF Spec

\* Every variable always has its type (TypeOK).
THEOREM TypeCorrect == Spec => []TypeOK
<1>1. IInv => TypeOK
  BY DEF IInv
<1>2. QED
  BY Invariance, <1>1, PTL

\* Phase, membership, leader and assignments always fit together, for any
\* number of members and connections and any timeouts (PhaseConsistent).
THEOREM PhaseAlwaysConsistent == Spec => []PhaseConsistent
<1>1. IInv => PhaseConsistent
  BY DEF IInv, GroupOK, PhaseConsistent
<1>2. QED
  BY Invariance, <1>1, PTL

\* All members of a formed generation hold the same answer, and the leader's
\* list is the membership (GenerationAgreed).
THEOREM GenerationAlwaysAgreed == Spec => []GenerationAgreed
<1>1. IInv => GenerationAgreed
  BY DEF IInv, GroupOK, GenerationAgreed
<1>2. QED
  BY Invariance, <1>1, PTL

\* A rebalance never waits without a deadline (RebalanceIsTimed).
THEOREM RebalanceAlwaysTimed == Spec => []RebalanceIsTimed
<1>1. IInv => RebalanceIsTimed
  BY DEF IInv, GroupOK, RebalanceIsTimed
<1>2. QED
  BY Invariance, <1>1, PTL

\* Members always share a protocol, and the selected one is shared
\* (ProtocolShared).
THEOREM ProtocolAlwaysShared == Spec => []ProtocolShared
<1>1. IInv => ProtocolShared
  BY DEF IInv, GroupOK, ProtocolShared
<1>2. QED
  BY Invariance, <1>1, PTL

(* Refinement *)

\* The state that ConsumerGroup sees of a group in order, in its terms.
LEMMA Seen ==
  ASSUME NEW g, GroupOK(g)
  PROVE  /\ DOMAIN g.members \in SUBSET MemberId
         /\ g.state = "Empty" <=> DOMAIN g.members = {}
         /\ g.state # "Stable" => g.assignments = EmptyMap
         /\ g.state = "Stable" => g.assignments \in [DOMAIN g.members -> Plan]
<1>1. DOMAIN g.members \in SUBSET MemberId /\ g.assignments \in PartialMaps(MemberId, Plan)
  BY DEF GroupOK, IsGroup
<1>2. g.assignments \in [DOMAIN g.assignments -> Plan]
  BY <1>1 DEF PartialMaps
<1>3. ASSUME DOMAIN g.assignments = {} PROVE g.assignments = EmptyMap
  BY <1>2, <1>3 DEF EmptyMap
<1>4. QED
  BY <1>1, <1>2, <1>3 DEF GroupOK, PhaseFits

\* The initial group is an initial state of ConsumerGroup.
LEMMA InitPromise == Init => Promise!Init
BY DEF Init, NewGroup, Promise!Init, Promise!NoPlan, EmptyMap

\* Every step is a step of ConsumerGroup or leaves its state alone.
LEMMA StepPromise ==
  ASSUME IInv, StepOK
  PROVE  [Promise!Next]_(Promise!vars)
<1>1. GroupOK(group) /\ GroupOK(group')
  BY DEF IInv, StepOK
<1>2. CASE committed' = committed
  <2>1. CASE /\ group'.state = group.state /\ group'.generation = group.generation
             /\ DOMAIN group'.members = DOMAIN group.members
             /\ group'.assignments = group.assignments
    BY <1>2, <2>1 DEF Promise!vars
  <2>2. CASE group'.state = "Empty" /\ group'.generation = group.generation
    <3>1. Promise!Disband
      BY <1>1, <1>2, <2>2, Seen DEF Promise!Disband, Promise!NoPlan, EmptyMap
    <3>2. QED
      BY <3>1 DEF Promise!Next
  <2>3. CASE group'.state = "PreparingRebalance" /\ group'.generation = group.generation
    <3>1. Promise!Reform(DOMAIN group'.members)
      BY <1>1, <1>2, <2>3, Seen DEF Promise!Reform, Promise!NoPlan, EmptyMap
    <3>2. QED
      BY <1>1, <3>1, Seen DEF Promise!Next
  <2>4. CASE /\ group'.state = "CompletingRebalance"
             /\ group'.generation = group.generation + 1
    <3>1. Promise!Form(DOMAIN group'.members)
      BY <1>1, <1>2, <2>4, Seen DEF Promise!Form, Promise!NoPlan, EmptyMap
    <3>2. QED
      BY <1>1, <3>1, Seen DEF Promise!Next
  <2>5. CASE /\ group.state = "CompletingRebalance" /\ group'.state = "Stable"
             /\ group'.generation = group.generation
             /\ DOMAIN group'.members = DOMAIN group.members
    <3>1. Promise!Assign
      BY <1>1, <1>2, <2>5, Seen DEF Promise!Assign
    <3>2. QED
      BY <3>1 DEF Promise!Next
  <2>6. QED
    BY <2>1, <2>2, <2>3, <2>4, <2>5 DEF StepOK, Moves
<1>3. CASE /\ committed' = group.generation /\ group.state = "Stable"
           /\ group' = [group EXCEPT !.notified = FALSE]
  <2>1. /\ group'.state = group.state /\ group'.generation = group.generation
        /\ group'.members = group.members /\ group'.assignments = group.assignments
    BY <1>1, <1>3 DEF GroupOK, IsGroup
  <2>2. Promise!Commit
    BY <1>3, <2>1 DEF Promise!Commit
  <2>3. QED
    BY <2>2 DEF Promise!Next
<1>4. QED
  BY <1>2, <1>3 DEF StepOK

\* The coordinator implements ConsumerGroup (KeepsPromise), for any number of
\* members and connections, any timeouts and any protocols.
THEOREM Refinement == Spec => KeepsPromise
<1>1. IInv /\ [Next]_vars => [Promise!Next]_(Promise!vars)
  BY NextOK, StepPromise
<1>2. QED
  BY InitPromise, Invariance, <1>1, PTL DEF Spec, KeepsPromise, Promise!Spec

----------------------------------------------------------------------------
(* Who is a member after a step *)

\* Who is left after a removal and the transition that follows it.
LEMMA RemovalDomain ==
  ASSUME NEW g, GroupOK(g), NEW S
  PROVE  LET h == TransitionAfterRemoval(Remove(g, S))
         IN  GroupOK(h) /\ DOMAIN h.members = DOMAIN g.members \ S
<1> DEFINE r == Remove(g, S)
<1>1. /\ Loose(r) /\ DOMAIN r.members = DOMAIN g.members \ S
      /\ r.state = g.state /\ r.deadline = g.deadline
  BY RemoveLoose
<1>2. r.state = "PreparingRebalance" => r.deadline # NoDeadline
  BY <1>1 DEF GroupOK, Timed
<1> HIDE DEF r
<1>3. GroupOK(TransitionAfterRemoval(r)) /\ TransitionAfterRemoval(r).members = r.members
  BY <1>1, <1>2, TransitionAfterRemovalOK
<1> QED
  BY <1>1, <1>3 DEF r

\* Who is left after expire_stale_members.
LEMMA ExpireDomain ==
  ASSUME NEW g, GroupOK(g), NEW active
  PROVE  DOMAIN ExpireStaleMembers(g, active).members = DOMAIN g.members \ Expired(g, active)
<1> DEFINE S == Expired(g, active)
<1>1. CASE S = {}
  BY <1>1 DEF ExpireStaleMembers
<1>2. CASE S # {}
  <2>1. ExpireStaleMembers(g, active) = TransitionAfterRemoval(Remove(g, S))
    BY <1>2 DEF ExpireStaleMembers
  <2> HIDE DEF S
  <2>2. DOMAIN TransitionAfterRemoval(Remove(g, S)).members = DOMAIN g.members \ S
    BY RemovalDomain
  <2> QED
    BY <2>1, <2>2 DEF S
<1> QED
  BY <1>1, <1>2

\* The members that one call of expire_stale_members leaves, if it is called.
Pruned(D) ==
  \/ D = DOMAIN group.members
  \/ \E active : D = DOMAIN group.members \ Expired(group, active)

\* expire_stale_members prunes.
LEMMA ExpirePrunes ==
  ASSUME IInv, NEW active
  PROVE  /\ GroupOK(ExpireStaleMembers(group, active))
         /\ Pruned(DOMAIN ExpireStaleMembers(group, active).members)
<1>1. GroupOK(group)
  BY DEF IInv
<1>2. /\ GroupOK(ExpireStaleMembers(group, active))
      /\ DOMAIN ExpireStaleMembers(group, active).members =
           DOMAIN group.members \ Expired(group, active)
  BY <1>1, ExpireOK, ExpireDomain
<1> QED
  BY <1>2 DEF Pruned

\* Completing a rebalance keeps everyone.
LEMMA CompleteDomain ==
  ASSUME NEW g, GroupOK(g)
  PROVE  /\ GroupOK(CompleteRebalanceIfReady(g))
         /\ DOMAIN CompleteRebalanceIfReady(g).members = DOMAIN g.members
BY CompleteOK

\* So does releasing the mutex.
LEMMA FreedDomain ==
  ASSUME NEW g, GroupOK(g), group' = [g EXCEPT !.notified = FALSE]
  PROVE  DOMAIN group'.members = DOMAIN g.members
<1>1. [g EXCEPT !.notified = FALSE].members = g.members
  BY DEF GroupOK, IsGroup
<1> QED
  BY <1>1

\* A JoinGroup adds its own member at most, and then is about to drop the
\* pending id.
JoinAdds(c) ==
  /\ task[c].mayAdd \/ task[c].member \in DOMAIN group.members
  /\ task'[c].pc = "unpend" /\ task'[c].member = task[c].member
  /\ task'[c].mayAdd = task[c].mayAdd
  /\ \E D : Pruned(D) /\ DOMAIN group'.members = D \cup {task[c].member}

\* A JoinGroup adds no other member.
LEMMA JoinMembers ==
  ASSUME IInv, NEW c \in Connection, Join(c)
  PROVE  \/ Pruned(DOMAIN group'.members) /\ task'[c] = Idle
         \/ JoinAdds(c)
<1> DEFINE t == task[c]
           g == ExpireStaleMembers(group, NoMember)
           D == DOMAIN g.members
<1>1. t \in Task /\ Carries(t) /\ t.pc = "lock"
  BY DEF IInv, TypeOK, Join
<1>2. GroupOK(g) /\ Pruned(D)
  BY ExpirePrunes
<1>3. D \subseteq DOMAIN group.members
  BY <1>2 DEF Pruned
<1>4. CASE UnlockFrom(c, Idle, g)
  <2>1. task'[c] = Idle /\ group' = [g EXCEPT !.notified = FALSE]
    BY <1>4 DEF UnlockFrom, Unlock, Notified
  <2> QED
    BY <1>2, <2>1, FreedDomain
<1>5. CASE HasCachedJoin(g, t) /\ UnlockFrom(c, Idle, RefreshHeartbeat(g, t.member))
  <2> DEFINE r == RefreshHeartbeat(g, t.member)
  <2>1. task'[c] = Idle /\ group' = [r EXCEPT !.notified = FALSE]
    BY <1>5 DEF UnlockFrom, Unlock, Notified
  <2>2. GroupOK(r) /\ DOMAIN r.members = D
    BY <1>2, <1>5, RefreshHeartbeatOK DEF HasCachedJoin
  <2> HIDE DEF r
  <2> QED
    BY <1>2, <2>1, <2>2, FreedDomain
<1>6. CASE /\ ~JoinRefused(g, t) /\ ~NoCommonProtocol(g, t)
           /\ \E joined \in {WithJoiner(g, t)} :
                UnlockFrom(c, IF CompletionFails(joined) THEN Idle
                              ELSE [t EXCEPT !.pc = "unpend", !.epoch = TargetEpoch(g)],
                           CompleteRebalanceIfReady(joined))
  <2> DEFINE joined == WithJoiner(g, t)
             u == [t EXCEPT !.pc = "unpend", !.epoch = TargetEpoch(g)]
             r == CompleteRebalanceIfReady(joined)
  <2>1. UnlockFrom(c, IF CompletionFails(joined) THEN Idle ELSE u, r)
    BY <1>6
  <2>2. u.pc = "unpend" /\ u.member = t.member /\ u.mayAdd = t.mayAdd
    BY <1>1 DEF Task
  <2> HIDE DEF t, g
  <2>3. GroupOK(joined) /\ joined.members = ProspectiveMembers(g, t)
    BY <1>1, <1>2, <1>6, WithJoinerOK
  <2>4. DOMAIN ProspectiveMembers(g, t) = D \cup {t.member}
    BY <1>1, <1>2, ProspectiveOK
  <2> HIDE DEF u, joined
  <2>5. ~CompletionFails(joined)
    BY <2>3, CompleteOK
  <2>6. UnlockFrom(c, u, r)
    BY <2>1, <2>5
  <2>7. task'[c] = u /\ group' = [r EXCEPT !.notified = FALSE]
    BY <2>6 DEF UnlockFrom, Unlock, Notified
  <2>8. GroupOK(r) /\ DOMAIN r.members = D \cup {t.member}
    BY <2>3, <2>4, CompleteDomain
  <2> HIDE DEF r
  <2>9. DOMAIN group'.members = D \cup {t.member}
    BY <2>7, <2>8, FreedDomain
  <2>10. t.mayAdd \/ t.member \in DOMAIN group.members
    BY <1>3, <1>6 DEF JoinRefused
  <2> HIDE DEF D
  <2> QED
    BY <1>2, <2>2, <2>7, <2>9, <2>10 DEF JoinAdds, t
<1> QED
  BY <1>4, <1>5, <1>6 DEF Join

\* One round of sync keeps everyone that was left.
LEMMA SyncRoundMembers ==
  ASSUME IInv, NEW c \in Connection, NEW t \in Task, NEW g, GroupOK(g),
         Pruned(DOMAIN g.members), SyncRound(c, t, g)
  PROVE  Pruned(DOMAIN group'.members)
<1>1. CASE UnlockFrom(c, Idle, g)
  BY <1>1, FreedDomain DEF UnlockFrom, Unlock
<1>2. CASE /\ ValidMemberAndGeneration(g, t.member, t.generation)
           /\ g.state = "Stable"
           /\ UnlockWithAssignment(c, t.member, SyncStable(g, t))
  <2>1. GroupOK(SyncStable(g, t)) /\ DOMAIN SyncStable(g, t).members = DOMAIN g.members
    BY <1>2, SyncStableFine DEF ValidMemberAndGeneration
  <2> QED
    BY <1>2, <2>1, FreedDomain DEF UnlockWithAssignment, Unlock
<1>3. CASE /\ ValidMemberAndGeneration(g, t.member, t.generation)
           /\ g.state = "CompletingRebalance" /\ ValidAssignment(g, t.plan)
           /\ UnlockWithAssignment(c, t.member, InstallAssignments(g, t))
  <2>1. /\ GroupOK(InstallAssignments(g, t))
        /\ DOMAIN InstallAssignments(g, t).members = DOMAIN g.members
    BY <1>3, InstallFine DEF ValidMemberAndGeneration
  <2> QED
    BY <1>3, <2>1, FreedDomain DEF UnlockWithAssignment, Unlock
<1>4. CASE /\ ValidMemberAndGeneration(g, t.member, t.generation)
           /\ g.state = "CompletingRebalance" /\ t.member # g.leader
           /\ UnlockFrom(c, Sleeping(t, MarkSynced(g, t.member)), MarkSynced(g, t.member))
  <2> DEFINE h == MarkSynced(g, t.member)
  <2>1. GroupOK(h) /\ DOMAIN h.members = DOMAIN g.members
    BY <1>4, MarkSyncedOK, MarkSyncedFields DEF ValidMemberAndGeneration
  <2>2. group' = [h EXCEPT !.notified = FALSE]
    BY <1>4 DEF UnlockFrom, Unlock
  <2> HIDE DEF h
  <2> QED
    BY <2>1, <2>2, FreedDomain
<1> QED
  BY <1>1, <1>2, <1>3, <1>4 DEF SyncRound

\* A SyncGroup from its first lock on adds and removes nobody else.
LEMMA SyncMembers ==
  ASSUME IInv, NEW c \in Connection, NEW m \in MemberId, NEW generation \in Nat,
         NEW plan \in [plans : PartialMaps(MemberId, Plan), repeated : BOOLEAN],
         Sync(c, m, generation, plan)
  PROVE  Pruned(DOMAIN group'.members)
<1> DEFINE t == [Idle EXCEPT !.pc = "syncing", !.member = m,
                             !.generation = generation, !.plan = plan]
           g == ExpireStaleMembers(group, NoMember)
           r == IF ValidMemberAndGeneration(g, m, generation)
                THEN RefreshHeartbeat(g, m) ELSE g
<1>1. t \in Task
  BY IdleOK DEF Task
<1>2. SyncRound(c, t, r)
  BY DEF Sync
<1>3. GroupOK(g) /\ Pruned(DOMAIN g.members)
  BY ExpirePrunes
<1> HIDE DEF t, g
<1>4. GroupOK(r) /\ DOMAIN r.members = DOMAIN g.members
  BY <1>3, RefreshHeartbeatOK DEF ValidMemberAndGeneration
<1> HIDE DEF r
<1> QED
  BY <1>1, <1>2, <1>3, <1>4, SyncRoundMembers

\* Nor does a request that wakes and looks again.
LEMMA PollMembers ==
  ASSUME IInv, NEW c \in Connection, JoinPoll(c) \/ SyncPoll(c)
  PROVE  Pruned(DOMAIN group'.members)
<1> DEFINE t == task[c]
           g == ExpireStaleMembers(group, t.member)
<1>1. t \in Task /\ GroupOK(group) /\ GroupOK(g) /\ Pruned(DOMAIN g.members)
  BY ExpirePrunes DEF IInv, TypeOK
<1>2. CASE SyncPoll(c)
  <2>1. SyncRound(c, t, g)
    BY <1>2 DEF SyncPoll
  <2> HIDE DEF t, g
  <2> QED
    BY <1>1, <2>1, SyncRoundMembers
<1>3. CASE group' = [group EXCEPT !.notified = FALSE]
  <2>1. [group EXCEPT !.notified = FALSE].members = group.members
    BY <1>1 DEF GroupOK, IsGroup
  <2> QED
    BY <1>3, <2>1 DEF Pruned
<1>4. CASE group' = [CompleteRebalanceIfReady(g) EXCEPT !.notified = FALSE]
  <2> HIDE DEF g
  <2> QED
    BY <1>1, <1>4, CompleteDomain, FreedDomain
<1>5. JoinPoll(c) => \/ group' = [group EXCEPT !.notified = FALSE]
                     \/ group' = [CompleteRebalanceIfReady(g) EXCEPT !.notified = FALSE]
  BY DEF JoinPoll, UnlockFrom, Unlock
<1> QED
  BY <1>2, <1>3, <1>4, <1>5

\* Nor do the requests that lock the group once, the driver and the clock.
LEMMA RequestMembers ==
  ASSUME IInv,
         \/ \E m, generation : Heartbeat(m, generation)
         \/ \E m, generation : CommitOffsets(m, generation)
         \/ Describe
         \/ DriveDeadlines
         \/ Tick
  PROVE  Pruned(DOMAIN group'.members)
<1> DEFINE g == ExpireStaleMembers(group, NoMember)
<1>1. GroupOK(group) /\ GroupOK(g) /\ Pruned(DOMAIN g.members)
  BY ExpirePrunes DEF IInv
<1>2. CASE \E m, generation : Heartbeat(m, generation)
  <2>1. PICK m, generation : Heartbeat(m, generation)
    BY <1>2
  <2> DEFINE r == IF ValidMemberAndGeneration(g, m, generation)
                  THEN RefreshHeartbeat(g, m) ELSE g
  <2>2. group' = [r EXCEPT !.notified = FALSE]
    BY <2>1 DEF Heartbeat, UnlockRequest, Unlock
  <2> HIDE DEF g
  <2>3. GroupOK(r) /\ DOMAIN r.members = DOMAIN g.members
    BY <1>1, RefreshHeartbeatOK DEF ValidMemberAndGeneration
  <2> HIDE DEF r
  <2> QED
    BY <1>1, <2>2, <2>3, FreedDomain
<1>3. CASE (\E m, generation : CommitOffsets(m, generation)) \/ Describe
  <2>1. group' = [g EXCEPT !.notified = FALSE]
    BY <1>3 DEF CommitOffsets, Describe, UnlockRequest, Unlock
  <2> HIDE DEF g
  <2> QED
    BY <1>1, <2>1, FreedDomain
<1>4. CASE DriveDeadlines
  <2>1. group' = [CompleteRebalanceIfReady(g) EXCEPT !.notified = FALSE]
    BY <1>4 DEF DriveDeadlines, Unlock
  <2> HIDE DEF g
  <2> QED
    BY <1>1, <2>1, CompleteDomain, FreedDomain
<1>5. CASE Tick
  <2>1. DOMAIN group'.members = DOMAIN group.members
    BY <1>1, <1>5 DEF Tick, GroupOK, IsGroup
  <2> QED
    BY <2>1 DEF Pruned
<1> QED
  BY <1>2, <1>3, <1>4, <1>5

\* A LeaveGroup removes its own member besides.
LEMMA LeaveMembers ==
  ASSUME IInv, NEW m, Leave(m)
  PROVE  \E D : Pruned(D) /\ DOMAIN group'.members = D \ {m}
<1> DEFINE g == ExpireStaleMembers(group, NoMember)
           D == DOMAIN g.members
           k == TransitionAfterRemoval(Remove(g, {m}))
           r == IF m \in D THEN CompleteRebalanceIfReady(k) ELSE g
<1>1. GroupOK(g) /\ Pruned(D)
  BY ExpirePrunes
<1>2. group' = [r EXCEPT !.notified = FALSE]
  BY DEF Leave, UnlockRequest, Unlock
<1> HIDE DEF g
<1>3. GroupOK(k) /\ DOMAIN k.members = D \ {m}
  BY <1>1, RemovalDomain
<1> HIDE DEF k
<1>4. GroupOK(r) /\ DOMAIN r.members = D \ {m}
  BY <1>1, <1>3, CompleteDomain
<1> HIDE DEF r, D
<1> QED
  BY <1>1, <1>2, <1>4, FreedDomain DEF D

\* How the membership moves in a step.
MembersMove ==
  \/ Pruned(DOMAIN group'.members)
  \/ \E c \in Connection : Join(c) /\ JoinAdds(c)
  \/ \E m \in MemberId : Leave(m) /\ \E D : Pruned(D) /\ DOMAIN group'.members = D \ {m}

\* Every step moves it so.
LEMMA NextMembers ==
  ASSUME IInv, [Next]_vars
  PROVE  MembersMove
<1>1. CASE UNCHANGED group
  BY <1>1 DEF MembersMove, Pruned
<1>2. ASSUME NEW c \in Connection, NEW m \in MemberId,
             NEW generation \in 0..group.generation,
             NEW plan \in SyncPlans(m, generation), Sync(c, m, generation, plan)
      PROVE  MembersMove
  <2>1. generation \in Nat
    BY DEF IInv, GroupOK, IsGroup
  <2>2. plan \in [plans : PartialMaps(MemberId, Plan), repeated : BOOLEAN]
    BY SyncPlansType
  <2> QED
    BY <1>2, <2>1, <2>2, SyncMembers DEF MembersMove
<1>3. CASE \/ \E m, generation : Heartbeat(m, generation)
           \/ \E m, generation : CommitOffsets(m, generation)
           \/ Describe
           \/ DriveDeadlines
           \/ Tick
  BY <1>3, RequestMembers DEF MembersMove
<1>4. ASSUME NEW m \in MemberId, Leave(m) PROVE MembersMove
  BY <1>4, LeaveMembers DEF MembersMove
<1>5. ASSUME NEW c \in Connection, Join(c) PROVE MembersMove
  BY <1>5, JoinMembers DEF MembersMove
<1>6. ASSUME NEW c \in Connection, JoinPoll(c) \/ SyncPoll(c) PROVE MembersMove
  BY <1>6, PollMembers DEF MembersMove
<1>7. ASSUME NEW c \in Connection, JoinCheckKnown(c) \/ JoinUnpend(c) PROVE UNCHANGED group
  BY <1>7 DEF JoinCheckKnown, JoinUnpend
<1>8. ASSUME NEW c, NEW m, NEW p, NEW type, JoinStart(c, m, p, type) PROVE UNCHANGED group
  BY <1>8 DEF JoinStart
<1>9. JoinWithoutId \/ UNCHANGED vars => UNCHANGED group
  BY DEF JoinWithoutId, vars
<1> QED
  BY <1>1, <1>2, <1>3, <1>4, <1>5, <1>6, <1>7, <1>8, <1>9
     DEF Next, Request, MembershipRequest, Progress
=============================================================================
