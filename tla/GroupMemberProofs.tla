------------------------- MODULE GroupMemberProofs --------------------------
(***************************************************************************)
(* Theorems about the members of GroupCoordinator: no request sleeps       *)
(* through the change it waits for, the driver is never late, no deadline  *)
(* removes a member whose request sleeps, a pending id lets a member in    *)
(* once, and a generation has one plan.                                    *)
(***************************************************************************)
EXTENDS GroupCoordinatorProofs

----------------------------------------------------------------------------
(* What a critical section may do without calling notify_waiters *)

\* No expiry has come nearer.
NoSooner(g, h) ==
  \A d \in ExpiryDeadlines(h, NoMember) : \E e \in ExpiryDeadlines(g, NoMember) : e <= d

\* Nothing that a sleeping request or the driver waits for has changed.
Undisturbed(g, h) ==
  /\ h.state = g.state /\ h.generation = g.generation
  /\ h.epoch = g.epoch /\ h.leader = g.leader
  /\ DOMAIN g.members \subseteq DOMAIN h.members
  /\ \A m \in DOMAIN g.members : h.members[m].synced \in {g.members[m].synced, g.generation}
  /\ NoSooner(g, h)

\* In an epoch, members only become joined.
JoinedKept(g, h) ==
  \A m \in DOMAIN h.members :
    \/ h.members[m].joined = h.epoch
    \/ m \in DOMAIN g.members /\ h.members[m].joined = g.members[m].joined

\* From g to h within one critical section.
Continues(g, h) ==
  /\ h.epoch >= g.epoch
  /\ h.epoch = g.epoch => JoinedKept(g, h)
  /\ g.notified => h.notified
  /\ h.notified \/ Undisturbed(g, h)

\* A session is never longer than the timeout of the member.
SessionsBounded(g) ==
  \A m \in DOMAIN g.members : g.members[m].session <= SessionTimeout[g.members[m].profile]

\* Parts of a critical section add up.
LEMMA ContinuesTransitive ==
  ASSUME NEW g, NEW h, NEW k, GroupOK(g), GroupOK(h), GroupOK(k),
         Continues(g, h), Continues(h, k)
  PROVE  Continues(g, k)
<1>1. g.epoch \in Nat /\ h.epoch \in Nat /\ k.epoch \in Nat
  BY DEF GroupOK, IsGroup
<1>2. k.epoch >= g.epoch /\ (g.notified => k.notified)
  BY <1>1 DEF Continues
<1>3. ASSUME k.epoch = g.epoch PROVE JoinedKept(g, k)
  <2>1. h.epoch = g.epoch /\ k.epoch = h.epoch
    BY <1>1, <1>3 DEF Continues
  <2> QED
    BY <2>1 DEF Continues, JoinedKept
<1>4. ASSUME ~k.notified PROVE Undisturbed(g, k)
  <2>1. Undisturbed(g, h) /\ Undisturbed(h, k)
    BY <1>4 DEF Continues
  <2>2. NoSooner(g, k)
    <3> SUFFICES ASSUME NEW d \in ExpiryDeadlines(k, NoMember)
                 PROVE  \E e \in ExpiryDeadlines(g, NoMember) : e <= d
      BY DEF NoSooner
    <3>1. PICK e \in ExpiryDeadlines(h, NoMember) : e <= d
      BY <2>1 DEF Undisturbed, NoSooner
    <3>2. PICK f \in ExpiryDeadlines(g, NoMember) : f <= e
      BY <2>1 DEF Undisturbed, NoSooner
    <3>3. d \in Int /\ e \in Int /\ f \in Int
      BY DEF ExpiryDeadlines, GroupOK, IsGroup, Member, Deadline, NoDeadline
    <3> QED
      BY <3>1, <3>2, <3>3
  <2> QED
    BY <2>1, <2>2 DEF Undisturbed
<1> QED
  BY <1>2, <1>3, <1>4 DEF Continues

\* The same group continues itself.
LEMMA ContinuesReflexive ==
  ASSUME NEW g, GroupOK(g)
  PROVE  Continues(g, g)
<1>1. \A d \in ExpiryDeadlines(g, NoMember) : d \in Int
  BY DEF ExpiryDeadlines, GroupOK, IsGroup, Member, Deadline, NoDeadline
<1>2. NoSooner(g, g)
  BY <1>1 DEF NoSooner
<1> QED
  BY <1>2 DEF Continues, JoinedKept, Undisturbed, GroupOK, IsGroup

\* What transition_after_removal does with the epoch, which counts the
\* rebalances.
LEMMA TransitionEpoch ==
  ASSUME NEW g, IsGroup(g)
  PROVE  LET r == TransitionAfterRemoval(g)
         IN  /\ r.epoch \in {g.epoch, g.epoch + 1}
             /\ g.state = "PreparingRebalance" => r.epoch = g.epoch
<1> DEFINE led == [g EXCEPT !.leader = IF @ \in DOMAIN g.members THEN @
                                       ELSE Min(DOMAIN g.members)]
<1>1. led.epoch = g.epoch /\ led = [led EXCEPT !.epoch = g.epoch]
  BY DEF IsGroup
<1>2. BeginRebalance(led).epoch = g.epoch + 1
  BY DEF BeginRebalance, IsGroup
<1>3. [led EXCEPT !.assignments = EmptyMap, !.notified = TRUE].epoch = g.epoch
  BY DEF IsGroup
<1>4. [g EXCEPT !.state = "Empty", !.leader = NoMember, !.type = NoType,
                !.selected = NoProtocol, !.assignments = EmptyMap,
                !.deadline = NoDeadline, !.notified = TRUE].epoch = g.epoch
  BY DEF IsGroup
<1> QED
  BY <1>2, <1>3, <1>4 DEF TransitionAfterRemoval

\* Removing members, then transition_after_removal: everyone is notified.
LEMMA RemovalContinues ==
  ASSUME NEW g, GroupOK(g), NEW S
  PROVE  LET h == TransitionAfterRemoval(Remove(g, S))
         IN  /\ GroupOK(h) /\ h.notified /\ Continues(g, h)
             /\ DOMAIN h.members = DOMAIN g.members \ S
             /\ \A m \in DOMAIN h.members : h.members[m] = g.members[m]
             /\ g.state = "PreparingRebalance" => h.epoch = g.epoch
<1> DEFINE r == Remove(g, S)
           h == TransitionAfterRemoval(r)
<1>1. /\ Loose(r) /\ DOMAIN r.members = DOMAIN g.members \ S
      /\ r.state = g.state /\ r.deadline = g.deadline
  BY RemoveLoose
<1>2. IsGroup(r) /\ IsGroup(g) /\ g.epoch \in Nat
  BY <1>1 DEF Loose, GroupOK, IsGroup
<1>3. r.epoch = g.epoch /\ \A m \in DOMAIN r.members : r.members[m] = g.members[m]
  BY <1>2 DEF Remove, Without, IsGroup
<1>4. r.state = "PreparingRebalance" => r.deadline # NoDeadline
  BY <1>1 DEF GroupOK, Timed
<1> HIDE DEF r
<1>5. GroupOK(h) /\ h.members = r.members /\ h.notified
  BY <1>1, <1>4, TransitionAfterRemovalOK
<1>6. h.epoch \in {g.epoch, g.epoch + 1} /\ (g.state = "PreparingRebalance" => h.epoch = g.epoch)
  BY <1>1, <1>2, <1>3, TransitionEpoch
<1> HIDE DEF h
<1>7. JoinedKept(g, h)
  BY <1>1, <1>3, <1>5 DEF JoinedKept
<1>8. Continues(g, h)
  BY <1>2, <1>5, <1>6, <1>7 DEF Continues
<1> QED
  BY <1>1, <1>3, <1>5, <1>6, <1>8 DEF h, r

\* expire_stale_members changes nothing or notifies everyone.
LEMMA ExpireContinues ==
  ASSUME NEW g, GroupOK(g), NEW active
  PROVE  LET h == ExpireStaleMembers(g, active)
         IN  /\ h = g \/ h.notified
             /\ Continues(g, h)
             /\ DOMAIN h.members = DOMAIN g.members \ Expired(g, active)
             /\ \A m \in DOMAIN h.members : h.members[m] = g.members[m]
             /\ g.state = "PreparingRebalance" => h.epoch = g.epoch
<1> DEFINE S == Expired(g, active)
<1>1. CASE S = {}
  <2>1. ExpireStaleMembers(g, active) = g
    BY <1>1 DEF ExpireStaleMembers
  <2> QED
    BY <1>1, <2>1, ContinuesReflexive
<1>2. CASE S # {}
  <2>1. ExpireStaleMembers(g, active) = TransitionAfterRemoval(Remove(g, S))
    BY <1>2 DEF ExpireStaleMembers
  <2> HIDE DEF S
  <2>2. LET h == TransitionAfterRemoval(Remove(g, S))
        IN  /\ GroupOK(h) /\ h.notified /\ Continues(g, h)
            /\ DOMAIN h.members = DOMAIN g.members \ S
            /\ \A m \in DOMAIN h.members : h.members[m] = g.members[m]
            /\ g.state = "PreparingRebalance" => h.epoch = g.epoch
    BY RemovalContinues
  <2> QED
    BY <2>1, <2>2 DEF S
<1> QED
  BY <1>1, <1>2

\* complete_rebalance_if_ready leaves alone a group that is not ready, and
\* notifies everyone otherwise.
LEMMA CompleteContinues ==
  ASSUME NEW g, GroupOK(g)
  PROVE  LET r == CompleteRebalanceIfReady(g)
         IN  /\ Continues(g, r)
             /\ r.notified \/ (r = g /\ ~Ready(r))
<1> DEFINE r == CompleteRebalanceIfReady(g)
<1>1. /\ GroupOK(r)
      /\ \/ r = g /\ ~Ready(g)
         \/ /\ Ready(g) /\ r.state = "CompletingRebalance" /\ r.epoch = g.epoch
            /\ DOMAIN r.members = DOMAIN g.members /\ r.notified
  BY CompleteOK
<1> HIDE DEF r
<1>2. CASE r = g /\ ~Ready(g)
  BY <1>2, ContinuesReflexive DEF r
<1>3. CASE /\ r.state = "CompletingRebalance" /\ r.epoch = g.epoch
           /\ DOMAIN r.members = DOMAIN g.members /\ r.notified
  <2>1. JoinsAgree(r)
    BY <1>1, <1>3 DEF GroupOK, Formed
  <2>2. JoinedKept(g, r)
    BY <2>1 DEF JoinsAgree, JoinedKept
  <2>3. r.epoch >= g.epoch
    BY <1>3 DEF GroupOK, IsGroup
  <2> QED
    BY <1>3, <2>2, <2>3 DEF Continues, r
<1> QED
  BY <1>1, <1>2, <1>3

\* A refreshed heartbeat only moves an expiry away.
LEMMA RefreshContinues ==
  ASSUME NEW g, GroupOK(g), SessionsBounded(g), NEW m \in DOMAIN g.members
  PROVE  LET h == RefreshHeartbeat(g, m)
         IN  Continues(g, h) /\ SessionsBounded(h) /\ (Ready(h) => Ready(g))
<1> DEFINE h == RefreshHeartbeat(g, m)
           refreshed == [g.members EXCEPT ![m].session =
                           SessionTimeout[g.members[m].profile]]
<1>1. /\ GroupOK(h)
      /\ h.state = g.state /\ h.generation = g.generation /\ h.epoch = g.epoch
      /\ h.leader = g.leader /\ h.deadline = g.deadline /\ h.notified = g.notified
      /\ DOMAIN h.members = DOMAIN g.members
  BY RefreshHeartbeatOK
<1>2. g.members \in [DOMAIN g.members -> Member] /\ g.epoch \in Nat
  BY DEF GroupOK, IsGroup
<1>3. h.members = refreshed
  BY DEF RefreshHeartbeat, GroupOK, IsGroup
<1>4. ASSUME NEW n \in DOMAIN g.members
      PROVE  /\ h.members[n].profile = g.members[n].profile
             /\ h.members[n].joined = g.members[n].joined
             /\ h.members[n].synced = g.members[n].synced
             /\ g.members[n].session <= h.members[n].session
             /\ h.members[n].session <= SessionTimeout[h.members[n].profile]
  <2>1. /\ g.members[n] \in Member /\ SessionTimeout[g.members[n].profile] \in Nat
        /\ g.members[n].session \in Nat
        /\ g.members[n].session <= SessionTimeout[g.members[n].profile]
    BY <1>2, TimeoutAssumption DEF Member, SessionsBounded
  <2>2. h.members[n] = IF n = m
                       THEN [g.members[n] EXCEPT !.session = SessionTimeout[g.members[n].profile]]
                       ELSE g.members[n]
    BY <1>2, <1>3
  <2> QED
    BY <2>1, <2>2 DEF Member
<1> HIDE DEF h, refreshed
<1>5. \A n \in DOMAIN g.members : Late(h, n) <=> Late(g, n)
  BY <1>1, <1>4 DEF Late
<1>6. NoSooner(g, h)
  <2>1. \A d \in {g.deadline} : d # NoDeadline => d \in Nat
    BY DEF GroupOK, IsGroup, Deadline
  <2>2. ASSUME NEW d \in ExpiryDeadlines(h, NoMember)
        PROVE  \E e \in ExpiryDeadlines(g, NoMember) : e <= d
    <3>1. CASE /\ d = h.deadline /\ d # NoDeadline
               /\ \E n \in DOMAIN h.members \ {NoMember} : Late(h, n)
      <4>1. d \in ExpiryDeadlines(g, NoMember) /\ d <= d
        BY <1>1, <1>5, <2>1, <3>1 DEF ExpiryDeadlines
      <4> QED
        BY <4>1
    <3>2. CASE \E n \in DOMAIN h.members \ {NoMember} :
                 h.state = "Stable" /\ ~Late(h, n) /\ d = h.members[n].session
      <4>1. PICK n \in DOMAIN h.members \ {NoMember} :
                 h.state = "Stable" /\ ~Late(h, n) /\ d = h.members[n].session
        BY <3>2
      <4>2. g.members[n].session \in ExpiryDeadlines(g, NoMember)
        BY <1>1, <1>5, <4>1 DEF ExpiryDeadlines
      <4> QED
        BY <1>1, <1>4, <4>1, <4>2
    <3> QED
      BY <3>1, <3>2 DEF ExpiryDeadlines
  <2> QED
    BY <2>2 DEF NoSooner
<1>7. JoinedKept(g, h) /\ SessionsBounded(h)
  BY <1>1, <1>4 DEF JoinedKept, SessionsBounded
<1>8. Undisturbed(g, h)
  BY <1>1, <1>4, <1>6 DEF Undisturbed
<1>9. ASSUME Ready(h) PROVE Ready(g)
  <2>1. h.members # EmptyMap => g.members # EmptyMap
    BY <1>1, EmptyMapDomain DEF GroupOK, IsGroup
  <2> QED
    BY <1>1, <1>4, <1>9, <2>1 DEF Ready
<1> QED
  BY <1>1, <1>2, <1>7, <1>8, <1>9 DEF Continues, h

\* Removing members leaves the sessions of the others alone.
LEMMA ExpireBounded ==
  ASSUME NEW g, GroupOK(g), SessionsBounded(g), NEW active
  PROVE  SessionsBounded(ExpireStaleMembers(g, active))
BY ExpireContinues DEF SessionsBounded

\* Completing a rebalance changes no session.
LEMMA CompleteBounded ==
  ASSUME NEW g, GroupOK(g), SessionsBounded(g)
  PROVE  SessionsBounded(CompleteRebalanceIfReady(g))
<1> DEFINE r == CompleteRebalanceIfReady(g)
<1>1. CASE r = g
  BY <1>1
<1>2. CASE r # g
  <2>1. r.members = WithCompletedJoins(g, g.generation + 1, SelectProtocol(g.members))
    BY <1>2 DEF CompleteRebalanceIfReady, GroupOK, IsGroup
  <2>2. ASSUME NEW m \in DOMAIN r.members
        PROVE  /\ m \in DOMAIN g.members
               /\ r.members[m].session = g.members[m].session
               /\ r.members[m].profile = g.members[m].profile
    <3>1. m \in DOMAIN g.members
      BY <2>1 DEF WithCompletedJoins
    <3>2. g.members[m] \in Member
      BY <3>1 DEF GroupOK, IsGroup
    <3> QED
      BY <2>1, <3>1, <3>2 DEF WithCompletedJoins, Member
  <2> QED
    BY <2>2 DEF SessionsBounded
<1> QED
  BY <1>1, <1>2

\* A follower that synchronises before the leader disturbs nobody.
LEMMA MarkSyncedContinues ==
  ASSUME NEW g, GroupOK(g), SessionsBounded(g), NEW m \in DOMAIN g.members,
         g.state = "CompletingRebalance", m # g.leader
  PROVE  LET h == MarkSynced(g, m)
         IN  Continues(g, h) /\ SessionsBounded(h) /\ ~Ready(h)
<1> DEFINE h == MarkSynced(g, m)
<1>1. /\ h.state = g.state /\ h.generation = g.generation /\ h.epoch = g.epoch
      /\ h.leader = g.leader /\ h.deadline = g.deadline /\ h.notified = g.notified
      /\ DOMAIN h.members = DOMAIN g.members
      /\ h.members[m].synced = g.generation
      /\ \A n \in DOMAIN g.members :
           /\ h.members[n].profile = g.members[n].profile
           /\ h.members[n].joined = g.members[n].joined
           /\ n # m => h.members[n].synced = g.members[n].synced
  BY MarkSyncedFields
<1>2. \A n \in DOMAIN g.members : h.members[n].session = g.members[n].session
  <2>1. g.members \in [DOMAIN g.members -> Member]
    BY DEF GroupOK, IsGroup
  <2>2. h.members = [g.members EXCEPT ![m].synced = g.generation]
    BY DEF MarkSynced, GroupOK, IsGroup
  <2> QED
    BY <2>1, <2>2 DEF Member
<1>3. g.epoch \in Nat /\ g.deadline \in Int
  BY DEF GroupOK, IsGroup, Deadline, NoDeadline
<1> HIDE DEF h
<1>4. \A n \in DOMAIN g.members : Late(h, n) => Late(g, n)
  BY <1>1 DEF Late
<1>5. NoSooner(g, h)
  <2>1. ASSUME NEW d \in ExpiryDeadlines(h, NoMember)
        PROVE  d \in ExpiryDeadlines(g, NoMember) /\ d <= d
    BY <1>1, <1>3, <1>4 DEF ExpiryDeadlines
  <2> QED
    BY <2>1 DEF NoSooner
<1>6. JoinedKept(g, h) /\ SessionsBounded(h) /\ ~Ready(h)
  BY <1>1, <1>2 DEF JoinedKept, SessionsBounded, Ready
<1>7. Undisturbed(g, h)
  BY <1>1, <1>5 DEF Undisturbed
<1> QED
  BY <1>1, <1>3, <1>6, <1>7 DEF Continues, h

\* Clearing the rebalance deadline touches neither members nor epoch.
LEMMA ClearDeadlineFields ==
  ASSUME NEW g, IsGroup(g)
  PROVE  LET h == ClearRebalanceDeadlineIfAllSynced(g)
         IN  h.epoch = g.epoch /\ h.members = g.members /\ h.notified = g.notified
BY DEF ClearRebalanceDeadlineIfAllSynced, IsGroup

\* A SyncGroup in a stable generation notifies everyone.
LEMMA SyncStableContinues ==
  ASSUME NEW g, GroupOK(g), SessionsBounded(g), NEW t, t.member \in DOMAIN g.members
  PROVE  LET h == SyncStable(g, t)
         IN  Continues(g, h) /\ SessionsBounded(h) /\ h.notified
<1> DEFINE marked == MarkSynced(g, t.member)
           k == ClearRebalanceDeadlineIfAllSynced(marked)
           h == SyncStable(g, t)
<1>1. /\ IsGroup(marked) /\ marked.epoch = g.epoch
      /\ DOMAIN marked.members = DOMAIN g.members
      /\ \A n \in DOMAIN g.members :
           /\ marked.members[n].profile = g.members[n].profile
           /\ marked.members[n].joined = g.members[n].joined
  BY MarkSyncedFields
<1>2. \A n \in DOMAIN g.members : marked.members[n].session = g.members[n].session
  <2>1. g.members \in [DOMAIN g.members -> Member]
    BY DEF GroupOK, IsGroup
  <2>2. marked.members = [g.members EXCEPT ![t.member].synced = g.generation]
    BY DEF MarkSynced, GroupOK, IsGroup
  <2> QED
    BY <2>1, <2>2 DEF Member
<1>3. h = [k EXCEPT !.notified = TRUE]
  BY DEF SyncStable
<1> HIDE DEF marked, h
<1>4. h.epoch = k.epoch /\ h.members = k.members /\ h.notified
  BY <1>1, <1>3 DEF ClearRebalanceDeadlineIfAllSynced, IsGroup
<1>5. k.epoch = marked.epoch /\ k.members = marked.members
  BY <1>1, ClearDeadlineFields
<1> HIDE DEF k
<1>6. h.epoch = g.epoch /\ h.members = marked.members /\ g.epoch \in Nat
  BY <1>1, <1>4, <1>5 DEF GroupOK, IsGroup
<1>7. JoinedKept(g, h) /\ SessionsBounded(h)
  BY <1>1, <1>2, <1>6 DEF JoinedKept, SessionsBounded
<1> QED
  BY <1>4, <1>6, <1>7 DEF Continues, h

\* The leader's plan notifies everyone.
LEMMA InstallContinues ==
  ASSUME NEW g, GroupOK(g), SessionsBounded(g), g.state = "CompletingRebalance",
         NEW t \in Task, t.member \in DOMAIN g.members, ValidAssignment(g, t.plan)
  PROVE  LET h == InstallAssignments(g, t)
         IN  Continues(g, h) /\ SessionsBounded(h) /\ h.notified
<1> DEFINE marked == MarkSynced(g, t.member)
           f == [m \in DOMAIN g.members |->
                   IF marked.members[m].synced = g.generation
                   THEN [marked.members[m] EXCEPT !.session =
                           SessionTimeout[marked.members[m].profile]]
                   ELSE marked.members[m]]
           k == [g EXCEPT !.members = f, !.assignments = t.plan.plans,
                          !.state = "Stable", !.notified = TRUE]
           h == InstallAssignments(g, t)
<1>1. /\ IsGroup(marked) /\ marked.epoch = g.epoch
      /\ DOMAIN marked.members = DOMAIN g.members
      /\ \A n \in DOMAIN g.members :
           /\ marked.members[n].profile = g.members[n].profile
           /\ marked.members[n].joined = g.members[n].joined
  BY MarkSyncedFields
<1>2. \A n \in DOMAIN g.members : marked.members[n].session = g.members[n].session
  <2>1. g.members \in [DOMAIN g.members -> Member]
    BY DEF GroupOK, IsGroup
  <2>2. marked.members = [g.members EXCEPT ![t.member].synced = g.generation]
    BY DEF MarkSynced, GroupOK, IsGroup
  <2> QED
    BY <2>1, <2>2 DEF Member
<1>3. h = ClearRebalanceDeadlineIfAllSynced(k)
  BY DEF InstallAssignments
<1> HIDE DEF marked, h
<1>4. ASSUME NEW m \in DOMAIN g.members
      PROVE  /\ f[m].profile = g.members[m].profile
             /\ f[m].joined = g.members[m].joined
             /\ f[m].session <= SessionTimeout[f[m].profile]
  <2>1. /\ marked.members[m] \in Member
        /\ SessionTimeout[marked.members[m].profile] \in Nat
    BY <1>1, TimeoutAssumption DEF IsGroup, Member
  <2>2. marked.members[m].session <= SessionTimeout[marked.members[m].profile]
    BY <1>1, <1>2 DEF SessionsBounded
  <2>3. f[m] = IF marked.members[m].synced = g.generation
               THEN [marked.members[m] EXCEPT !.session =
                       SessionTimeout[marked.members[m].profile]]
               ELSE marked.members[m]
    OBVIOUS
  <2> HIDE DEF f
  <2> QED
    BY <1>1, <2>1, <2>2, <2>3 DEF Member
<1>5. DOMAIN f = DOMAIN g.members
  OBVIOUS
<1> HIDE DEF f
<1>6. k.epoch = g.epoch /\ k.members = f /\ k.notified
  BY DEF GroupOK, IsGroup
<1>7. h.epoch = k.epoch /\ h.members = k.members /\ h.notified
  BY <1>3, <1>6 DEF ClearRebalanceDeadlineIfAllSynced, GroupOK, IsGroup
<1> HIDE DEF k
<1>8. JoinedKept(g, h) /\ SessionsBounded(h)
  BY <1>4, <1>5, <1>6, <1>7 DEF JoinedKept, SessionsBounded
<1>9. g.epoch \in Nat
  BY DEF GroupOK, IsGroup
<1> QED
  BY <1>6, <1>7, <1>8, <1>9 DEF Continues, h

\* A JoinGroup starts a rebalance and notifies everyone, or is one more member
\* of the rebalance in progress and disturbs nobody.
LEMMA JoinerContinues ==
  ASSUME NEW g, GroupOK(g), SessionsBounded(g), NEW t \in Task, Carries(t),
         t.pc = "lock", ~NoCommonProtocol(g, t)
  PROVE  LET h == WithJoiner(g, t)
         IN  /\ Continues(g, h) /\ SessionsBounded(h)
             /\ t.member \in DOMAIN h.members
             /\ h.members[t.member].joined = h.epoch
<1> DEFINE f == ProspectiveMembers(g, t)
           installed == [g EXCEPT !.members = f]
           timed == IF StartsRebalance(g) THEN BeginRebalance(installed)
                    ELSE IF t.mayAdd THEN ExtendRebalanceDeadline(installed)
                    ELSE installed
           h == WithJoiner(g, t)
<1>1. /\ GroupOK(h) /\ h.state = "PreparingRebalance" /\ h.generation = g.generation
      /\ h.epoch = TargetEpoch(g) /\ h.members = f
  BY WithJoinerOK
<1>2. h = [timed EXCEPT !.type = t.type, !.leader = IF @ = NoMember THEN t.member ELSE @]
  BY DEF WithJoiner
<1> HIDE DEF h
<1>3. /\ DOMAIN f = DOMAIN g.members \cup {t.member}
      /\ f[t.member].joined = TargetEpoch(g)
      /\ f[t.member].profile = t.profile
      /\ f[t.member].session = SessionTimeout[t.profile]
      /\ \A n \in DOMAIN g.members : n # t.member => f[n] = g.members[n]
      /\ \A n \in DOMAIN g.members : f[n].synced = g.members[n].synced
  BY DEF ProspectiveMembers
<1> HIDE DEF f
<1>4. IsGroup(g) /\ g.epoch \in Nat /\ g.deadline \in Deadline /\ SessionTimeout[t.profile] \in Nat
  BY TimeoutAssumption DEF GroupOK, IsGroup, Carries
<1>5. JoinedKept(g, h) /\ SessionsBounded(h)
  BY <1>1, <1>3, <1>4 DEF JoinedKept, SessionsBounded
<1>6. CASE StartsRebalance(g)
  <2>1. h.notified
    BY <1>2, <1>4, <1>6 DEF BeginRebalance, IsGroup
  <2> QED
    BY <1>1, <1>3, <1>4, <1>5, <1>6, <2>1 DEF Continues, TargetEpoch, h
<1>7. CASE ~StartsRebalance(g)
  <2>1. /\ g.state = "PreparingRebalance" /\ g.deadline \in Nat
        /\ g.leader \in DOMAIN g.members /\ g.leader # NoMember
    BY <1>4, <1>7, MemberIdAssumption
       DEF StartsRebalance, GroupOK, Timed, PhaseFits, Deadline, IsGroup, NoMember
  <2>2. IsGroup(installed)
        /\ installed.members = f /\ installed.deadline = g.deadline
        /\ installed.leader = g.leader /\ installed.notified = g.notified
    BY <1>1, <1>4 DEF IsGroup, GroupOK
  <2> HIDE DEF installed
  <2>3. GroupRebalanceTimeout(installed) \in Nat
    BY <2>2, RebalanceTimeoutType DEF IsGroup, MembersOK
  <2>4. /\ timed.leader = g.leader /\ timed.notified = g.notified
        /\ timed.deadline \in Nat /\ timed.deadline >= g.deadline
    BY <1>7, <2>1, <2>2, <2>3 DEF ExtendRebalanceDeadline, IsGroup
  <2>5. /\ h.leader = g.leader /\ h.notified = g.notified
        /\ h.deadline \in Nat /\ h.deadline >= g.deadline
    BY <1>2, <1>7, <2>1, <2>2, <2>4 DEF ExtendRebalanceDeadline, IsGroup
  <2>6. h.epoch = g.epoch
    BY <1>1, <1>7 DEF TargetEpoch
  <2>7. \A n \in DOMAIN h.members : Late(h, n) => n \in DOMAIN g.members /\ Late(g, n)
    BY <1>1, <1>3, <2>1, <2>6 DEF Late
  <2>8. NoSooner(g, h)
    <3>1. ASSUME NEW d \in ExpiryDeadlines(h, NoMember)
          PROVE  g.deadline \in ExpiryDeadlines(g, NoMember) /\ g.deadline <= d
      <4>1. d = h.deadline /\ \E n \in DOMAIN h.members \ {NoMember} : Late(h, n)
        BY <1>1 DEF ExpiryDeadlines
      <4> QED
        BY <2>1, <2>5, <2>7, <4>1 DEF ExpiryDeadlines, NoDeadline
    <3> QED
      BY <3>1 DEF NoSooner
  <2>9. Undisturbed(g, h)
    BY <1>1, <1>3, <2>1, <2>5, <2>6, <2>8 DEF Undisturbed
  <2> QED
    BY <1>1, <1>3, <1>4, <1>5, <2>5, <2>6, <2>9 DEF Continues, h
<1> QED
  BY <1>6, <1>7

----------------------------------------------------------------------------
(* Releasing the mutex *)

\* The mutex released.
Freed(g) == [g EXCEPT !.notified = FALSE]

\* What NoLostWakeup says of one task.
SleeperOK(t, g) ==
  Asleep(t) /\ ~t.woken =>
    /\ t.member \in DOMAIN g.members
    /\ t.pc = "joining" =>
         /\ g.state = "PreparingRebalance"
         /\ g.epoch = t.epoch
         /\ g.members[t.member].joined = t.epoch
    /\ t.pc = "syncing" =>
         /\ g.state = "CompletingRebalance"
         /\ g.generation = t.generation
         /\ g.leader # t.member
         /\ g.members[t.member].synced = t.generation

\* A JoinGroup that has joined is counted in its epoch, as long as that lasts.
JoinTaskOK(t, g) ==
  t.pc \in {"unpend", "joining"} =>
    /\ t.epoch <= g.epoch
    /\ t.epoch = g.epoch /\ t.member \in DOMAIN g.members =>
         g.members[t.member].joined = t.epoch

\* What DriverNeverLate says.
DriverOK(w, g) ==
  ~w.woken =>
    /\ ~Ready(g)
    /\ \A d \in ExpiryDeadlines(g, NoMember) : w.wait # NoDeadline /\ w.wait <= d

\* Inductive, with IInv.
WaitsOK ==
  /\ SessionsBounded(group)
  /\ \A c \in Connection : SleeperOK(task[c], group) /\ JoinTaskOK(task[c], group)
  /\ DriverOK(driver, group)

WInv == IInv /\ WaitsOK

\* Releasing the mutex changes nothing of what the waiters look at.
LEMMA FreedSame ==
  ASSUME NEW g, GroupOK(g)
  PROVE  /\ \A t : SleeperOK(t, g) <=> SleeperOK(t, Freed(g))
         /\ \A t : JoinTaskOK(t, g) <=> JoinTaskOK(t, Freed(g))
         /\ \A w : DriverOK(w, g) <=> DriverOK(w, Freed(g))
         /\ SessionsBounded(g) <=> SessionsBounded(Freed(g))
<1>1. /\ Freed(g).state = g.state /\ Freed(g).generation = g.generation
      /\ Freed(g).epoch = g.epoch /\ Freed(g).leader = g.leader
      /\ Freed(g).deadline = g.deadline /\ Freed(g).members = g.members
  BY DEF Freed, GroupOK, IsGroup
<1>2. Ready(g) <=> Ready(Freed(g))
  BY <1>1 DEF Ready
<1>3. \A n : Late(g, n) <=> Late(Freed(g), n)
  BY <1>1 DEF Late
<1>4. ExpiryDeadlines(g, NoMember) = ExpiryDeadlines(Freed(g), NoMember)
  BY <1>1, <1>3 DEF ExpiryDeadlines
<1> QED
  BY <1>1, <1>2, <1>4 DEF SleeperOK, JoinTaskOK, DriverOK, SessionsBounded

\* A task that slept before is woken, or what it waits for is still to come.
LEMMA TaskKept ==
  ASSUME NEW g, NEW h, GroupOK(g), GroupOK(h), Continues(g, h), NEW t \in Task,
         SleeperOK(t, g), JoinTaskOK(t, g),
         NEW u, u = IF Asleep(t) THEN Woken(t, h) ELSE t
  PROVE  SleeperOK(u, h) /\ JoinTaskOK(u, h)
<1>1. /\ u.pc = t.pc /\ u.member = t.member /\ u.epoch = t.epoch
      /\ u.generation = t.generation
      /\ Asleep(t) => (u.woken <=> t.woken \/ h.notified)
  BY DEF Woken, Task
<1>2. g.epoch \in Nat /\ h.epoch \in Nat /\ t.epoch \in Nat
  BY DEF GroupOK, IsGroup, Task
<1>3. JoinTaskOK(u, h)
  BY <1>1, <1>2 DEF JoinTaskOK, Continues, JoinedKept
<1>4. SleeperOK(u, h)
  <2> SUFFICES ASSUME Asleep(u), ~u.woken PROVE SleeperOK(u, h)
    BY DEF SleeperOK
  <2>1. Asleep(t) /\ ~t.woken /\ Undisturbed(g, h) /\ JoinedKept(g, h)
    BY <1>1 DEF Asleep, Continues, Undisturbed
  <2>2. t.member \in DOMAIN g.members /\ t.member \in DOMAIN h.members
    BY <2>1 DEF SleeperOK, Undisturbed
  <2>3. CASE t.pc = "joining"
    BY <1>1, <2>1, <2>2, <2>3 DEF SleeperOK, Undisturbed, JoinedKept
  <2>4. CASE t.pc = "syncing"
    BY <1>1, <2>1, <2>2, <2>4 DEF SleeperOK, Undisturbed
  <2> QED
    BY <2>1, <2>3, <2>4 DEF Asleep
<1> QED
  BY <1>3, <1>4

\* The driver is woken, or nothing it waits for has come nearer.
LEMMA DriverKept ==
  ASSUME NEW g, NEW h, GroupOK(g), GroupOK(h), Continues(g, h),
         h.notified \/ (Ready(h) => Ready(g)),
         NEW w \in [wait : Deadline, woken : BOOLEAN], DriverOK(w, g)
  PROVE  DriverOK(Woken(w, h), h)
<1>1. Woken(w, h).wait = w.wait /\ (Woken(w, h).woken <=> w.woken \/ h.notified)
  BY DEF Woken
<1> SUFFICES ASSUME ~w.woken, ~h.notified PROVE DriverOK(Woken(w, h), h)
  BY <1>1 DEF DriverOK
<1>2. ~Ready(h) /\ NoSooner(g, h)
  BY DEF DriverOK, Continues, Undisturbed
<1>3. ASSUME NEW d \in ExpiryDeadlines(h, NoMember)
      PROVE  w.wait # NoDeadline /\ w.wait <= d
  <2>1. PICK e \in ExpiryDeadlines(g, NoMember) : e <= d
    BY <1>2 DEF NoSooner
  <2>2. d \in Int /\ e \in Int /\ w.wait \in Int
    BY DEF ExpiryDeadlines, GroupOK, IsGroup, Member, Deadline, NoDeadline
  <2>3. w.wait # NoDeadline /\ w.wait <= e
    BY DEF DriverOK
  <2> QED
    BY <2>1, <2>2, <2>3
<1> QED
  BY <1>1, <1>2, <1>3 DEF DriverOK

\* A critical section that turns g into h and may release the mutex.
Settled(g, h) ==
  /\ GroupOK(h)
  /\ SessionsBounded(h)
  /\ Continues(g, h)
  /\ h.notified \/ (Ready(h) => Ready(g))

\* Releasing the mutex: a task that goes on may wait as it does, the others and
\* the driver are woken when notify_waiters was called.
LEMMA ReleaseKeeps ==
  ASSUME WInv, NEW h, Settled(group, h), group' = Freed(h),
         \A d \in Connection :
           \/ task'[d] = Notified(h)[d]
           \/ SleeperOK(task'[d], h) /\ JoinTaskOK(task'[d], h),
         driver' = Woken(driver, h) \/ DriverOK(driver', h)
  PROVE  WaitsOK'
<1>1. GroupOK(h) /\ GroupOK(group) /\ Continues(group, h)
  BY DEF Settled, WInv, IInv
<1>2. ASSUME NEW d \in Connection
      PROVE  SleeperOK(task'[d], h) /\ JoinTaskOK(task'[d], h)
  <2>1. CASE SleeperOK(task'[d], h) /\ JoinTaskOK(task'[d], h)
    BY <2>1
  <2>2. CASE task'[d] = Notified(h)[d]
    <3>1. task[d] \in Task /\ SleeperOK(task[d], group) /\ JoinTaskOK(task[d], group)
      BY DEF WInv, IInv, TypeOK, WaitsOK
    <3>2. task'[d] = IF Asleep(task[d]) THEN Woken(task[d], h) ELSE task[d]
      BY <2>2 DEF Notified
    <3> QED
      BY <1>1, <3>1, <3>2, TaskKept
  <2> QED
    BY <2>1, <2>2
<1>3. DriverOK(driver', h)
  BY <1>1, DriverKept DEF WInv, WaitsOK, IInv, TypeOK, Settled
<1>4. /\ \A d \in Connection : SleeperOK(task'[d], group') /\ JoinTaskOK(task'[d], group')
      /\ DriverOK(driver', group') /\ SessionsBounded(group')
  BY <1>1, <1>2, <1>3, FreedSame DEF Settled
<1> QED
  BY <1>4 DEF WaitsOK

\* An idle connection waits for nothing.
LEMMA IdleWaits == \A g : SleeperOK(Idle, g) /\ JoinTaskOK(Idle, g)
BY DEF SleeperOK, JoinTaskOK, Idle, Asleep

\* UnlockFrom, with a task that may wait as it does.
LEMMA UnlockFromKeeps ==
  ASSUME WInv, NEW c \in Connection, NEW t, NEW h, Settled(group, h),
         UnlockFrom(c, t, h), SleeperOK(t, h), JoinTaskOK(t, h)
  PROVE  WaitsOK'
<1>1. /\ group' = Freed(h) /\ task' = [Notified(h) EXCEPT ![c] = t]
      /\ driver' = Woken(driver, h)
  BY DEF UnlockFrom, Unlock, Freed
<1>2. \A d \in Connection :
        \/ task'[d] = Notified(h)[d]
        \/ SleeperOK(task'[d], h) /\ JoinTaskOK(task'[d], h)
  BY <1>1 DEF Notified
<1> QED
  BY <1>1, <1>2, ReleaseKeeps

\* UnlockWithAssignment, which ends the request.
LEMMA UnlockWithAssignmentKeeps ==
  ASSUME WInv, NEW c \in Connection, NEW m, NEW h, Settled(group, h),
         UnlockWithAssignment(c, m, h)
  PROVE  WaitsOK'
<1>1. /\ group' = Freed(h) /\ task' = [Notified(h) EXCEPT ![c] = Idle]
      /\ driver' = Woken(driver, h)
  BY DEF UnlockWithAssignment, Unlock, Freed
<1>2. \A d \in Connection :
        \/ task'[d] = Notified(h)[d]
        \/ SleeperOK(task'[d], h) /\ JoinTaskOK(task'[d], h)
  BY <1>1, IdleWaits DEF Notified
<1> QED
  BY <1>1, <1>2, ReleaseKeeps

\* UnlockRequest, which concerns no connection's task.
LEMMA UnlockRequestKeeps ==
  ASSUME WInv, NEW h, Settled(group, h), UnlockRequest(h)
  PROVE  WaitsOK'
<1>1. group' = Freed(h) /\ task' = Notified(h) /\ driver' = Woken(driver, h)
  BY DEF UnlockRequest, Unlock, Freed
<1>2. \A d \in Connection :
        \/ task'[d] = Notified(h)[d]
        \/ SleeperOK(task'[d], h) /\ JoinTaskOK(task'[d], h)
  BY <1>1
<1> QED
  BY <1>1, <1>2, ReleaseKeeps

\* Critical sections follow one another.
LEMMA SettledAfter ==
  ASSUME NEW g, NEW h, NEW k, GroupOK(g), Settled(g, h), Settled(h, k)
  PROVE  Settled(g, k)
<1>1. Continues(g, k)
  BY ContinuesTransitive DEF Settled
<1>2. k.notified \/ (Ready(k) => Ready(g))
  BY DEF Settled, Continues
<1> QED
  BY <1>1, <1>2 DEF Settled

\* expire_stale_members settles.
LEMMA ExpireSettles ==
  ASSUME NEW g, GroupOK(g), SessionsBounded(g), NEW active
  PROVE  Settled(g, ExpireStaleMembers(g, active))
BY ExpireOK, ExpireContinues, ExpireBounded DEF Settled

\* So does complete_rebalance_if_ready, after anything that continues.
LEMMA CompleteSettles ==
  ASSUME NEW g, GroupOK(g), NEW h, GroupOK(h), SessionsBounded(h), Continues(g, h)
  PROVE  Settled(g, CompleteRebalanceIfReady(h))
<1> DEFINE r == CompleteRebalanceIfReady(h)
<1>1. GroupOK(r) /\ SessionsBounded(r) /\ Continues(h, r) /\ (r.notified \/ ~Ready(r))
  BY CompleteOK, CompleteBounded, CompleteContinues
<1> HIDE DEF r
<1>2. Continues(g, r)
  BY <1>1, ContinuesTransitive
<1> QED
  BY <1>1, <1>2 DEF Settled, r

\* So does a refreshed heartbeat.
LEMMA RefreshSettles ==
  ASSUME NEW g, GroupOK(g), SessionsBounded(g), NEW m \in DOMAIN g.members
  PROVE  Settled(g, RefreshHeartbeat(g, m))
BY RefreshHeartbeatOK, RefreshContinues DEF Settled

----------------------------------------------------------------------------
(* The actions *)

\* A step that only moves a task.
LEMMA TaskStepKeeps ==
  ASSUME WInv, NEW c \in Connection, NEW t, SleeperOK(t, group), JoinTaskOK(t, group),
         task' = [task EXCEPT ![c] = t], UNCHANGED <<group, driver>>
  PROVE  WaitsOK'
<1>1. \A d \in Connection : SleeperOK(task'[d], group) /\ JoinTaskOK(task'[d], group)
  BY DEF WInv, WaitsOK, IInv, TypeOK
<1> QED
  BY <1>1 DEF WInv, WaitsOK

\* A JoinGroup before it has joined waits for nothing.
LEMMA JoinStartKeeps ==
  ASSUME WInv, NEW c \in Connection, NEW m, NEW p, NEW type, JoinStart(c, m, p, type)
  PROVE  WaitsOK'
<1> DEFINE t == [Idle EXCEPT !.pc = IF m \in pending THEN "lock" ELSE "known",
                             !.member = m, !.profile = p, !.type = type,
                             !.mayAdd = m \in pending]
<1>1. t.pc \in {"lock", "known"}
  BY DEF Idle
<1>2. task' = [task EXCEPT ![c] = t]
  BY DEF JoinStart
<1> HIDE DEF t
<1>3. SleeperOK(t, group) /\ JoinTaskOK(t, group)
  BY <1>1 DEF SleeperOK, JoinTaskOK, Asleep
<1> QED
  BY <1>2, <1>3, TaskStepKeeps DEF JoinStart

\* The membership check comes before the join too.
LEMMA JoinCheckKnownKeeps ==
  ASSUME WInv, NEW c \in Connection, JoinCheckKnown(c)
  PROVE  WaitsOK'
<1> DEFINE t == IF task[c].member \in DOMAIN group.members
                THEN [task[c] EXCEPT !.pc = "lock"] ELSE Idle
<1>1. task[c] \in Task
  BY DEF WInv, IInv, TypeOK
<1>2. t.pc \in {"lock", "idle"}
  BY <1>1 DEF Idle, Task
<1>3. task' = [task EXCEPT ![c] = t]
  BY DEF JoinCheckKnown, WInv, IInv, TypeOK
<1> HIDE DEF t
<1>4. SleeperOK(t, group) /\ JoinTaskOK(t, group)
  BY <1>2 DEF SleeperOK, JoinTaskOK, Asleep
<1> QED
  BY <1>3, <1>4, TaskStepKeeps DEF JoinCheckKnown

\* The waiting loop of join starts with a round, not with a sleep.
LEMMA JoinUnpendKeeps ==
  ASSUME WInv, NEW c \in Connection, JoinUnpend(c)
  PROVE  WaitsOK'
<1> DEFINE t == [task[c] EXCEPT !.pc = "joining", !.woken = TRUE]
<1>1. task[c] \in Task /\ task[c].pc = "unpend" /\ JoinTaskOK(task[c], group)
  BY DEF WInv, IInv, TypeOK, WaitsOK, JoinUnpend
<1>2. /\ t.pc = "joining" /\ t.woken /\ t.epoch = task[c].epoch
      /\ t.member = task[c].member
  BY <1>1 DEF Task
<1>3. task' = [task EXCEPT ![c] = t]
  BY DEF JoinUnpend, WInv, IInv, TypeOK
<1> HIDE DEF t
<1>4. SleeperOK(t, group) /\ JoinTaskOK(t, group)
  BY <1>1, <1>2 DEF SleeperOK, JoinTaskOK
<1> QED
  BY <1>3, <1>4, TaskStepKeeps DEF JoinUnpend

\* The locked part of join: its task is counted in the epoch it remembers.
LEMMA JoinKeeps ==
  ASSUME WInv, NEW c \in Connection, Join(c)
  PROVE  WaitsOK'
<1> DEFINE t == task[c]
           g == ExpireStaleMembers(group, NoMember)
<1>1. t \in Task /\ Carries(t) /\ t.pc = "lock"
  BY DEF WInv, IInv, TypeOK, Join
<1>2. GroupOK(group) /\ SessionsBounded(group)
  BY DEF WInv, IInv, WaitsOK
<1>3. Settled(group, g)
  BY <1>2, ExpireSettles
<1>4. GroupOK(g) /\ SessionsBounded(g) /\ Continues(group, g)
  BY <1>3 DEF Settled
<1>5. CASE UnlockFrom(c, Idle, g)
  BY <1>3, <1>5, IdleWaits, UnlockFromKeeps
<1>6. CASE HasCachedJoin(g, t) /\ UnlockFrom(c, Idle, RefreshHeartbeat(g, t.member))
  <2>1. t.member \in DOMAIN g.members
    BY <1>6 DEF HasCachedJoin
  <2> HIDE DEF g
  <2>2. Settled(group, RefreshHeartbeat(g, t.member))
    BY <1>2, <1>3, <1>4, <2>1, RefreshSettles, SettledAfter
  <2> QED
    BY <1>6, <2>2, IdleWaits, UnlockFromKeeps
<1>7. CASE /\ ~NoCommonProtocol(g, t)
           /\ \E joined \in {WithJoiner(g, t)} :
                UnlockFrom(c, IF CompletionFails(joined) THEN Idle
                              ELSE [t EXCEPT !.pc = "unpend", !.epoch = TargetEpoch(g)],
                           CompleteRebalanceIfReady(joined))
  <2> DEFINE joined == WithJoiner(g, t)
             u == [t EXCEPT !.pc = "unpend", !.epoch = TargetEpoch(g)]
             v == IF CompletionFails(joined) THEN Idle ELSE u
             r == CompleteRebalanceIfReady(joined)
  <2>1. UnlockFrom(c, v, r)
    BY <1>7
  <2>2. u.pc = "unpend" /\ u.epoch = TargetEpoch(g) /\ u.member = t.member
    BY <1>1 DEF Task
  <2> HIDE DEF u, g
  <2>3. GroupOK(joined) /\ joined.epoch = TargetEpoch(g)
    BY <1>1, <1>4, <1>7, WithJoinerOK
  <2>4. /\ Continues(g, joined) /\ SessionsBounded(joined)
        /\ t.member \in DOMAIN joined.members
        /\ joined.members[t.member].joined = joined.epoch
    BY <1>1, <1>4, <1>7, JoinerContinues
  <2> HIDE DEF joined
  <2>5. Continues(group, joined)
    BY <1>2, <1>4, <2>3, <2>4, ContinuesTransitive
  <2>6. Settled(group, r)
    BY <1>2, <2>3, <2>4, <2>5, CompleteSettles
  <2>7. Continues(joined, r) /\ r.epoch = joined.epoch
    BY <2>3, CompleteContinues, CompleteOK
  <2>8. GroupOK(r)
    BY <2>6 DEF Settled
  <2> HIDE DEF r
  <2>9. SleeperOK(u, r) /\ JoinTaskOK(u, r)
    <3>1. r.epoch \in Nat
      BY <2>8 DEF GroupOK, IsGroup
    <3>2. JoinedKept(joined, r)
      BY <2>7 DEF Continues
    <3> QED
      BY <2>2, <2>3, <2>4, <2>7, <3>1, <3>2 DEF SleeperOK, JoinTaskOK, Asleep, JoinedKept
  <2>10. SleeperOK(v, r) /\ JoinTaskOK(v, r)
    BY <2>9, IdleWaits
  <2> HIDE DEF v
  <2> QED
    BY <2>1, <2>6, <2>10, UnlockFromKeeps
<1> QED
  BY <1>5, <1>6, <1>7 DEF Join

\* Every member of a formed generation can be answered in its epoch.
LEMMA FormedIsCompleted ==
  ASSUME NEW g, GroupOK(g), Formed(g), NEW m \in DOMAIN g.members
  PROVE  g.members[m].completed.epoch = g.epoch
<1>1. g.members[m].completed =
        [epoch |-> g.epoch, generation |-> g.generation,
         protocol |-> g.selected, leader |-> g.leader,
         members |-> IF m = g.leader THEN DOMAIN g.members ELSE {}]
  BY DEF GroupOK, JoinsAgree
<1> QED
  BY <1>1

\* A JoinGroup goes back to sleep only while its own rebalance gathers members.
LEMMA JoinPollKeeps ==
  ASSUME WInv, NEW c \in Connection, JoinPoll(c)
  PROVE  WaitsOK'
<1> DEFINE t == task[c]
           expired == ExpireStaleMembers(group, t.member)
           g == CompleteRebalanceIfReady(expired)
           v == IF CompletionFails(expired) \/ HasCompletedJoin(g, t)
                THEN Idle ELSE Sleeping(t, g)
<1>1. /\ t \in Task /\ Carries(t) /\ JoinTaskOK(t, group) /\ t.pc = "joining"
      /\ GroupOK(group) /\ SessionsBounded(group)
  BY DEF WInv, IInv, TypeOK, WaitsOK, JoinPoll
<1>2. CASE UnlockFrom(c, Idle, group)
  <2>1. Settled(group, group)
    BY <1>1, ContinuesReflexive DEF Settled
  <2> QED
    BY <1>2, <2>1, IdleWaits, UnlockFromKeeps
<1>3. CASE /\ ~HasCompletedJoin(group, t) /\ t.member \in DOMAIN group.members
           /\ group.epoch = t.epoch
           /\ UnlockFrom(c, v, g)
  <2>1. group.state = "PreparingRebalance" /\ group.members[t.member].joined = t.epoch
    <3>1. ~Formed(group)
      BY <1>1, <1>3, FormedIsCompleted DEF HasCompletedJoin
    <3>2. group.state \in GroupState /\ group.state # "Empty"
      BY <1>1, <1>3 DEF GroupOK, IsGroup, PhaseFits
    <3> QED
      BY <1>1, <1>3, <3>1, <3>2 DEF Formed, GroupState, JoinTaskOK
  <2>2. /\ Settled(group, expired)
        /\ expired = group \/ expired.state \in {"Empty", "PreparingRebalance"}
    BY <1>1, ExpireSettles, ExpireOK DEF Receded
  <2>3. /\ DOMAIN expired.members = DOMAIN group.members \ Expired(group, t.member)
        /\ \A m \in DOMAIN expired.members : expired.members[m] = group.members[m]
        /\ expired.epoch = group.epoch
    BY <1>1, <2>1, ExpireContinues
  <2>4. t.member \in DOMAIN expired.members
    BY <1>3, <2>3 DEF Expired
  <2> HIDE DEF expired
  <2>5. /\ GroupOK(expired) /\ SessionsBounded(expired) /\ Continues(group, expired)
        /\ expired.state = "PreparingRebalance"
        /\ expired.members[t.member].joined = t.epoch
        /\ expired.epoch = t.epoch
    BY <1>3, <2>1, <2>2, <2>3, <2>4 DEF Settled, GroupOK, PhaseFits
  <2>6. Settled(group, g)
    BY <1>1, <2>5, CompleteSettles
  <2>7. /\ GroupOK(g) /\ g.epoch = t.epoch /\ DOMAIN g.members = DOMAIN expired.members
        /\ g = expired \/ g.state = "CompletingRebalance"
    BY <2>5, CompleteOK
  <2> HIDE DEF g
  <2>8. g # expired => HasCompletedJoin(g, t)
    BY <2>4, <2>7, FormedIsCompleted DEF Formed, HasCompletedJoin
  <2>9. /\ Sleeping(t, g).pc = t.pc /\ Sleeping(t, g).member = t.member
        /\ Sleeping(t, g).epoch = t.epoch
    BY <1>1 DEF Sleeping, Task
  <2>10. g = expired => SleeperOK(Sleeping(t, g), g) /\ JoinTaskOK(Sleeping(t, g), g)
    <3>1. t.epoch \in Nat
      BY <1>1 DEF Task
    <3> QED
      BY <1>1, <2>4, <2>5, <2>9, <3>1 DEF SleeperOK, JoinTaskOK
  <2>11. SleeperOK(v, g) /\ JoinTaskOK(v, g)
    BY <2>8, <2>10, IdleWaits
  <2> HIDE DEF v
  <2> QED
    BY <1>3, <2>6, <2>11, UnlockFromKeeps
<1> QED
  BY <1>2, <1>3 DEF JoinPoll

\* A SyncGroup goes to sleep only while the leader of its own generation is
\* awaited, and is counted as synchronised then.
LEMMA SyncRoundKeeps ==
  ASSUME WInv, NEW c \in Connection, NEW t \in Task, t.pc = "syncing",
         NEW g, Settled(group, g), SyncRound(c, t, g)
  PROVE  WaitsOK'
<1>1. GroupOK(g) /\ SessionsBounded(g) /\ GroupOK(group)
  BY DEF Settled, WInv, IInv
<1>2. CASE UnlockFrom(c, Idle, g)
  BY <1>2, IdleWaits, UnlockFromKeeps
<1>3. CASE /\ ValidMemberAndGeneration(g, t.member, t.generation)
           /\ g.state = "Stable"
           /\ UnlockWithAssignment(c, t.member, SyncStable(g, t))
  <2>1. t.member \in DOMAIN g.members
    BY <1>3 DEF ValidMemberAndGeneration
  <2>2. Settled(g, SyncStable(g, t))
    BY <1>1, <1>3, <2>1, SyncStableFine, SyncStableContinues DEF Settled
  <2>3. Settled(group, SyncStable(g, t))
    BY <1>1, <2>2, SettledAfter
  <2> QED
    BY <1>3, <2>3, UnlockWithAssignmentKeeps
<1>4. CASE /\ ValidMemberAndGeneration(g, t.member, t.generation)
           /\ g.state = "CompletingRebalance" /\ ValidAssignment(g, t.plan)
           /\ UnlockWithAssignment(c, t.member, InstallAssignments(g, t))
  <2>1. t.member \in DOMAIN g.members
    BY <1>4 DEF ValidMemberAndGeneration
  <2>2. Settled(g, InstallAssignments(g, t))
    BY <1>1, <1>4, <2>1, InstallFine, InstallContinues DEF Settled
  <2>3. Settled(group, InstallAssignments(g, t))
    BY <1>1, <2>2, SettledAfter
  <2> QED
    BY <1>4, <2>3, UnlockWithAssignmentKeeps
<1>5. CASE /\ ValidMemberAndGeneration(g, t.member, t.generation)
           /\ g.state = "CompletingRebalance" /\ t.member # g.leader
           /\ UnlockFrom(c, Sleeping(t, MarkSynced(g, t.member)), MarkSynced(g, t.member))
  <2> DEFINE h == MarkSynced(g, t.member)
             u == Sleeping(t, h)
  <2>1. t.member \in DOMAIN g.members /\ g.generation = t.generation
    BY <1>5 DEF ValidMemberAndGeneration
  <2>2. Settled(g, h)
    BY <1>1, <1>5, <2>1, MarkSyncedOK, MarkSyncedContinues DEF Settled
  <2>3. /\ h.state = g.state /\ h.generation = g.generation /\ h.leader = g.leader
        /\ DOMAIN h.members = DOMAIN g.members /\ h.members[t.member].synced = g.generation
    BY <1>1, <2>1, MarkSyncedFields
  <2> HIDE DEF h
  <2>4. u.pc = "syncing" /\ u.member = t.member /\ u.generation = t.generation
    BY DEF Sleeping, Task
  <2> HIDE DEF u
  <2>5. SleeperOK(u, h) /\ JoinTaskOK(u, h)
    BY <1>5, <2>1, <2>3, <2>4 DEF SleeperOK, JoinTaskOK
  <2>6. Settled(group, h)
    BY <1>1, <2>2, SettledAfter
  <2>7. UnlockFrom(c, u, h)
    BY <1>5 DEF h, u
  <2> QED
    BY <2>5, <2>6, <2>7, UnlockFromKeeps
<1> QED
  BY <1>2, <1>3, <1>4, <1>5 DEF SyncRound

\* A SyncGroup from its first lock on.
LEMMA SyncKeeps ==
  ASSUME WInv, NEW c \in Connection, NEW m \in MemberId, NEW generation \in Nat,
         NEW plan \in [plans : PartialMaps(MemberId, Plan), repeated : BOOLEAN],
         Sync(c, m, generation, plan)
  PROVE  WaitsOK'
<1> DEFINE t == [Idle EXCEPT !.pc = "syncing", !.member = m,
                             !.generation = generation, !.plan = plan]
           g == ExpireStaleMembers(group, NoMember)
           r == IF ValidMemberAndGeneration(g, m, generation)
                THEN RefreshHeartbeat(g, m) ELSE g
<1>1. t \in Task /\ t.pc = "syncing"
  BY IdleOK DEF Task
<1>2. SyncRound(c, t, r)
  BY DEF Sync
<1>3. GroupOK(group) /\ SessionsBounded(group)
  BY DEF WInv, IInv, WaitsOK
<1>4. Settled(group, g)
  BY <1>3, ExpireSettles
<1> HIDE DEF t, g
<1>5. Settled(group, r)
  <2>1. CASE m \in DOMAIN g.members
    <3>1. Settled(g, RefreshHeartbeat(g, m))
      BY <1>4, <2>1, RefreshSettles DEF Settled
    <3> QED
      BY <1>3, <1>4, <3>1, SettledAfter
  <2>2. CASE m \notin DOMAIN g.members
    BY <1>4, <2>2 DEF ValidMemberAndGeneration
  <2> QED
    BY <2>1, <2>2
<1> HIDE DEF r
<1> QED
  BY <1>1, <1>2, <1>5, SyncRoundKeeps

\* A SyncGroup that wakes and looks again.
LEMMA SyncPollKeeps ==
  ASSUME WInv, NEW c \in Connection, SyncPoll(c)
  PROVE  WaitsOK'
<1> DEFINE t == task[c]
           g == ExpireStaleMembers(group, t.member)
<1>1. t \in Task /\ t.pc = "syncing" /\ SyncRound(c, t, g)
  BY DEF WInv, IInv, TypeOK, SyncPoll
<1>2. Settled(group, g)
  BY ExpireSettles DEF WInv, IInv, WaitsOK
<1> HIDE DEF t, g
<1> QED
  BY <1>1, <1>2, SyncRoundKeeps

\* The requests that expire members and then refresh at most one heartbeat.
LEMMA ExpireRequestKeeps ==
  ASSUME WInv, NEW r, UnlockRequest(r),
         LET g == ExpireStaleMembers(group, NoMember)
         IN  r = g \/ \E m \in DOMAIN g.members : r = RefreshHeartbeat(g, m)
  PROVE  WaitsOK'
<1> DEFINE g == ExpireStaleMembers(group, NoMember)
<1>1. GroupOK(group) /\ SessionsBounded(group)
  BY DEF WInv, IInv, WaitsOK
<1>2. Settled(group, g)
  BY <1>1, ExpireSettles
<1>3. r = g \/ \E m \in DOMAIN g.members : r = RefreshHeartbeat(g, m)
  OBVIOUS
<1> HIDE DEF g
<1>4. Settled(group, r)
  <2>1. CASE r = g
    BY <1>2, <2>1
  <2>2. ASSUME NEW m \in DOMAIN g.members, r = RefreshHeartbeat(g, m)
        PROVE  Settled(group, r)
    BY <1>1, <1>2, <2>2, RefreshSettles, SettledAfter DEF Settled
  <2> QED
    BY <1>3, <2>1, <2>2
<1> QED
  BY <1>4, UnlockRequestKeeps

\* heartbeat, commit_offsets and describe are such requests.
LEMMA ReadRequestsKeep ==
  ASSUME WInv,
         \/ \E m, generation : Heartbeat(m, generation)
         \/ \E m, generation : CommitOffsets(m, generation)
         \/ Describe
  PROVE  WaitsOK'
<1> DEFINE g == ExpireStaleMembers(group, NoMember)
<1>1. CASE \E m, generation : Heartbeat(m, generation)
  <2>1. PICK m, generation : Heartbeat(m, generation)
    BY <1>1
  <2> DEFINE r == IF ValidMemberAndGeneration(g, m, generation)
                  THEN RefreshHeartbeat(g, m) ELSE g
  <2>2. UnlockRequest(r)
    BY <2>1 DEF Heartbeat
  <2>3. r = g \/ \E n \in DOMAIN g.members : r = RefreshHeartbeat(g, n)
    BY DEF ValidMemberAndGeneration
  <2> HIDE DEF r
  <2> QED
    BY <2>2, <2>3, ExpireRequestKeeps
<1>2. CASE \E m, generation : CommitOffsets(m, generation)
  <2>1. UnlockRequest(g)
    BY <1>2 DEF CommitOffsets
  <2> QED
    BY <2>1, ExpireRequestKeeps
<1>3. CASE Describe
  BY <1>3, ExpireRequestKeeps DEF Describe
<1> QED
  BY <1>1, <1>2, <1>3

\* A LeaveGroup notifies everyone when it removes someone.
LEMMA LeaveKeeps ==
  ASSUME WInv, NEW m, Leave(m)
  PROVE  WaitsOK'
<1> DEFINE g == ExpireStaleMembers(group, NoMember)
           k == TransitionAfterRemoval(Remove(g, {m}))
           r == IF m \in DOMAIN g.members THEN CompleteRebalanceIfReady(k) ELSE g
<1>1. GroupOK(group) /\ SessionsBounded(group)
  BY DEF WInv, IInv, WaitsOK
<1>2. Settled(group, g)
  BY <1>1, ExpireSettles
<1>3. UnlockRequest(r)
  BY DEF Leave
<1> HIDE DEF g
<1>4. GroupOK(g) /\ SessionsBounded(g) /\ Continues(group, g)
  BY <1>2 DEF Settled
<1>5. /\ GroupOK(k) /\ Continues(g, k)
      /\ DOMAIN k.members = DOMAIN g.members \ {m}
      /\ \A n \in DOMAIN k.members : k.members[n] = g.members[n]
  BY <1>4, RemovalContinues
<1> HIDE DEF k
<1>6. SessionsBounded(k) /\ Continues(group, k)
  BY <1>1, <1>4, <1>5, ContinuesTransitive DEF SessionsBounded
<1>7. Settled(group, r)
  BY <1>1, <1>2, <1>5, <1>6, CompleteSettles
<1> HIDE DEF r
<1> QED
  BY <1>3, <1>7, UnlockRequestKeeps

\* The next expiry is the earliest.
LEMMA NextExpiryIsEarliest ==
  ASSUME NEW g, GroupOK(g), NEW active, NEW d \in ExpiryDeadlines(g, active)
  PROVE  /\ NextExpiryDeadline(g, active) # NoDeadline
         /\ NextExpiryDeadline(g, active) <= d
<1> DEFINE D == ExpiryDeadlines(g, active)
<1>1. D \in SUBSET Nat
  BY DEF ExpiryDeadlines, GroupOK, IsGroup, Member, Deadline
<1>2. NextExpiryDeadline(g, active) = Min(D)
  BY DEF NextExpiryDeadline
<1>3. d \in D
  OBVIOUS
<1> HIDE DEF D
<1>4. Min(D) \in Nat /\ Min(D) <= d
  BY <1>1, <1>3, MinOfNaturals
<1> QED
  BY <1>2, <1>4 DEF NoDeadline

\* The driver sleeps no longer than to the next expiry, and not on a group that
\* is ready to complete.
LEMMA DriveDeadlinesKeeps ==
  ASSUME WInv, DriveDeadlines
  PROVE  WaitsOK'
<1> DEFINE expired == ExpireStaleMembers(group, NoMember)
           g == CompleteRebalanceIfReady(expired)
<1>1. GroupOK(group) /\ SessionsBounded(group)
  BY DEF WInv, IInv, WaitsOK
<1>2. /\ group' = Freed(g) /\ task' = Notified(g)
      /\ driver' = [wait |-> NextExpiryDeadline(g, NoMember), woken |-> FALSE]
  BY DEF DriveDeadlines, Unlock, Freed
<1>3. GroupOK(expired) /\ SessionsBounded(expired) /\ Continues(group, expired)
  BY <1>1, ExpireSettles DEF Settled
<1> HIDE DEF expired
<1>4. Settled(group, g)
  BY <1>1, <1>3, CompleteSettles
<1>5. GroupOK(g) /\ ~Ready(g)
  <2>1. \/ g = expired /\ ~Ready(expired)
        \/ g.state = "CompletingRebalance"
    BY <1>3, CompleteOK
  <2>2. GroupOK(g)
    BY <1>4 DEF Settled
  <2> HIDE DEF g
  <2> QED
    BY <2>1, <2>2 DEF Ready
<1> HIDE DEF g
<1>6. DriverOK(driver', g)
  BY <1>2, <1>5, NextExpiryIsEarliest DEF DriverOK
<1>7. \A d \in Connection :
        \/ task'[d] = Notified(g)[d]
        \/ SleeperOK(task'[d], g) /\ JoinTaskOK(task'[d], g)
  BY <1>2
<1> QED
  BY <1>2, <1>4, <1>6, <1>7, ReleaseKeeps

\* Time passes for the expiries and for those who wait for them alike.
LEMMA TickKeeps ==
  ASSUME WInv, Tick
  PROVE  WaitsOK'
<1> DEFINE g == group
           h == group'
           f == [m \in DOMAIN g.members |-> [g.members[m] EXCEPT !.session = Elapsed(@)]]
<1>1. GroupOK(g) /\ IsGroup(g) /\ g.members \in [DOMAIN g.members -> Member]
  BY DEF WInv, IInv, GroupOK, IsGroup
<1>2. h = [g EXCEPT !.deadline = Elapsed(@), !.members = f]
  BY DEF Tick
<1>3. /\ h.state = g.state /\ h.generation = g.generation /\ h.epoch = g.epoch
      /\ h.leader = g.leader /\ h.deadline = Elapsed(g.deadline) /\ h.members = f
  BY <1>1, <1>2 DEF IsGroup
<1>4. ASSUME NEW m \in DOMAIN g.members
      PROVE  /\ f[m].profile = g.members[m].profile
             /\ f[m].joined = g.members[m].joined
             /\ f[m].synced = g.members[m].synced
             /\ f[m].session = Elapsed(g.members[m].session)
  <2>1. g.members[m] \in Member
    BY <1>1
  <2> QED
    BY <2>1 DEF Member
<1>5. DOMAIN f = DOMAIN g.members
  OBVIOUS
<1> HIDE DEF f
<1>6. SessionsBounded(g) /\ DriverOK(driver, g)
  BY DEF WInv, WaitsOK
<1>7. /\ \A c \in Connection : task[c] \in Task /\ SleeperOK(task[c], g) /\ JoinTaskOK(task[c], g)
      /\ \A c \in Connection : task'[c] = [task[c] EXCEPT !.wait = Elapsed(@)]
  BY DEF WInv, WaitsOK, IInv, TypeOK, Tick
<1>8. /\ driver' = [driver EXCEPT !.wait = Elapsed(@)]
      /\ driver \in [wait : Deadline, woken : BOOLEAN]
  BY DEF WInv, IInv, TypeOK, Tick
<1> HIDE DEF g, h
<1>9. SessionsBounded(h)
  <2>1. ASSUME NEW m \in DOMAIN h.members
        PROVE  h.members[m].session <= SessionTimeout[h.members[m].profile]
    <3>1. m \in DOMAIN g.members /\ g.members[m] \in Member
      BY <1>1, <1>3, <1>5, <2>1
    <3>2. /\ g.members[m].session \in Nat /\ SessionTimeout[g.members[m].profile] \in Nat
          /\ g.members[m].session <= SessionTimeout[g.members[m].profile]
      BY <1>6, <3>1, TimeoutAssumption DEF Member, SessionsBounded
    <3> QED
      BY <1>3, <1>4, <3>1, <3>2 DEF Elapsed
  <2> QED
    BY <2>1 DEF SessionsBounded
<1>10. ASSUME NEW c \in Connection
       PROVE  SleeperOK(task'[c], h) /\ JoinTaskOK(task'[c], h)
  <2> DEFINE t == task[c]
             u == task'[c]
  <2>1. t \in Task /\ SleeperOK(t, g) /\ JoinTaskOK(t, g)
    BY <1>7
  <2>2. /\ u.pc = t.pc /\ u.member = t.member /\ u.epoch = t.epoch
        /\ u.generation = t.generation /\ u.woken = t.woken
    BY <1>7, <2>1 DEF Task
  <2> HIDE DEF t, u
  <2>3. JoinTaskOK(u, h)
    BY <1>3, <1>4, <1>5, <2>1, <2>2 DEF JoinTaskOK
  <2>4. SleeperOK(u, h)
    BY <1>3, <1>4, <1>5, <2>1, <2>2 DEF SleeperOK, Asleep
  <2> QED
    BY <2>3, <2>4 DEF u
<1>11. DriverOK(driver', h)
  <2>1. driver'.woken = driver.woken /\ driver'.wait = Elapsed(driver.wait)
    BY <1>8
  <2> SUFFICES ASSUME ~driver.woken PROVE DriverOK(driver', h)
    BY <2>1 DEF DriverOK
  <2>2. ~Ready(h)
    <3>1. h.members # EmptyMap => g.members # EmptyMap
      BY <1>3, <1>5 DEF EmptyMap
    <3> QED
      BY <1>3, <1>4, <1>5, <1>6, <3>1 DEF DriverOK, Ready
  <2>3. \A m \in DOMAIN g.members : Late(h, m) <=> Late(g, m)
    BY <1>3, <1>4, <1>5 DEF Late
  <2>4. ASSUME NEW d \in ExpiryDeadlines(h, NoMember)
        PROVE  \E e \in ExpiryDeadlines(g, NoMember) : e \in Nat /\ d = Elapsed(e)
    <3>1. CASE /\ d = h.deadline /\ d # NoDeadline
               /\ \E m \in DOMAIN h.members \ {NoMember} : Late(h, m)
      <4>1. g.deadline \in Nat /\ d = Elapsed(g.deadline)
        BY <1>1, <1>3, <3>1 DEF IsGroup, Deadline, Elapsed, NoDeadline
      <4>2. g.deadline \in ExpiryDeadlines(g, NoMember)
        BY <1>3, <1>5, <2>3, <3>1, <4>1 DEF ExpiryDeadlines, NoDeadline
      <4> QED
        BY <4>1, <4>2
    <3>2. CASE \E m \in DOMAIN h.members \ {NoMember} :
                 h.state = "Stable" /\ ~Late(h, m) /\ d = h.members[m].session
      <4>1. PICK m \in DOMAIN h.members \ {NoMember} :
                 h.state = "Stable" /\ ~Late(h, m) /\ d = h.members[m].session
        BY <3>2
      <4>2. /\ m \in DOMAIN g.members \ {NoMember} /\ g.state = "Stable" /\ ~Late(g, m)
            /\ d = Elapsed(g.members[m].session)
        BY <1>3, <1>4, <1>5, <2>3, <4>1
      <4>3. g.members[m].session \in Nat
        BY <1>1, <4>2 DEF Member
      <4>4. g.members[m].session \in ExpiryDeadlines(g, NoMember)
        BY <4>2 DEF ExpiryDeadlines
      <4> QED
        BY <4>2, <4>3, <4>4
    <3> QED
      BY <3>1, <3>2 DEF ExpiryDeadlines
  <2>5. ASSUME NEW d \in ExpiryDeadlines(h, NoMember)
        PROVE  driver'.wait # NoDeadline /\ driver'.wait <= d
    <3>1. PICK e \in ExpiryDeadlines(g, NoMember) : e \in Nat /\ d = Elapsed(e)
      BY <2>4
    <3>2. driver.wait # NoDeadline /\ driver.wait <= e /\ driver.wait \in Deadline
      BY <1>6, <1>8 DEF DriverOK
    <3> QED
      BY <2>1, <3>1, <3>2 DEF Elapsed, Deadline, NoDeadline
  <2> QED
    BY <2>2, <2>5 DEF DriverOK
<1> QED
  BY <1>9, <1>10, <1>11 DEF WaitsOK, h

----------------------------------------------------------------------------
(* The invariant and what follows *)

\* Nobody waits at first.
LEMMA InitWaits == Init => WaitsOK
<1> SUFFICES ASSUME Init PROVE WaitsOK
  OBVIOUS
<1>1. SessionsBounded(group)
  BY DEF Init, NewGroup, SessionsBounded, EmptyMap
<1>2. \A c \in Connection : SleeperOK(task[c], group) /\ JoinTaskOK(task[c], group)
  BY IdleWaits DEF Init
<1>3. DriverOK(driver, group)
  BY DEF Init, DriverOK
<1> QED
  BY <1>1, <1>2, <1>3 DEF WaitsOK

\* Every step keeps WaitsOK, one case for each action.
LEMMA NextWaits == WInv /\ [Next]_vars => WaitsOK'
<1> SUFFICES ASSUME WInv, [Next]_vars PROVE WaitsOK'
  OBVIOUS
<1>1. CASE UNCHANGED <<group, task, driver>>
  BY <1>1 DEF WInv, WaitsOK
<1>2. ASSUME NEW c \in Connection, NEW m \in MemberId, NEW p \in Profile,
             NEW type \in ProtocolType, JoinStart(c, m, p, type)
      PROVE  WaitsOK'
  BY <1>2, JoinStartKeeps
<1>3. ASSUME NEW c \in Connection, NEW m \in MemberId,
             NEW generation \in 0..group.generation,
             NEW plan \in SyncPlans(m, generation), Sync(c, m, generation, plan)
      PROVE  WaitsOK'
  <2>1. generation \in Nat /\ IInv
    BY DEF WInv, IInv, GroupOK, IsGroup
  <2>2. plan \in [plans : PartialMaps(MemberId, Plan), repeated : BOOLEAN]
    BY <2>1, SyncPlansType
  <2> QED
    BY <1>3, <2>1, <2>2, SyncKeeps
<1>4. ASSUME NEW m, NEW generation, Heartbeat(m, generation) PROVE WaitsOK'
  BY <1>4, ReadRequestsKeep
<1>5. ASSUME NEW m, Leave(m) PROVE WaitsOK'
  BY <1>5, LeaveKeeps
<1>6. ASSUME NEW m, NEW generation, CommitOffsets(m, generation) PROVE WaitsOK'
  BY <1>6, ReadRequestsKeep
<1>7. CASE Describe
  BY <1>7, ReadRequestsKeep
<1>8. ASSUME NEW c \in Connection, Progress(c) PROVE WaitsOK'
  BY <1>8, JoinCheckKnownKeeps, JoinKeeps, JoinUnpendKeeps, JoinPollKeeps, SyncPollKeeps
     DEF Progress
<1>9. CASE DriveDeadlines
  BY <1>9, DriveDeadlinesKeeps
<1>10. CASE Tick
  BY <1>10, TickKeeps
<1>11. JoinWithoutId \/ UNCHANGED vars => UNCHANGED <<group, task, driver>>
  BY DEF JoinWithoutId, vars
<1> QED
  BY <1>1, <1>2, <1>3, <1>4, <1>5, <1>6, <1>7, <1>8, <1>9, <1>10, <1>11
     DEF Next, Request, MembershipRequest

\* WInv is an invariant.
THEOREM WaitsInvariance == Spec => []WInv
<1>1. Init => WInv
  BY InitOK, InitWaits DEF WInv
<1>2. WInv /\ [Next]_vars => WInv'
  BY NextOK, NextWaits DEF WInv, StepOK
<1> QED
  BY <1>1, <1>2, PTL DEF Spec

\* No JoinGroup and no SyncGroup sleeps through what it waits for
\* (NoLostWakeup), for any number of members and connections and any timeouts.
THEOREM WakeupsAreNeverLost == Spec => []NoLostWakeup
<1>1. WInv => NoLostWakeup
  BY DEF WInv, WaitsOK, SleeperOK, NoLostWakeup
<1> QED
  BY <1>1, WaitsInvariance, PTL

\* The driver never sleeps past an expiry or a ready rebalance
\* (DriverNeverLate).
THEOREM DriverIsNeverLate == Spec => []DriverNeverLate
<1>1. WInv => DriverNeverLate
  BY DEF WInv, WaitsOK, DriverOK, DriverNeverLate
<1> QED
  BY <1>1, WaitsInvariance, PTL

----------------------------------------------------------------------------
(* Sleeping members *)

\* No call of expire_stale_members takes the member of a request that sleeps:
\* it is neither late nor silent.
LEMMA SleepersStay ==
  ASSUME WInv, NEW c \in Connection, Asleep(task[c]), ~task[c].woken,
         NEW D, Pruned(D)
  PROVE  task[c].member \in D
<1> DEFINE m == task[c].member
<1>1. SleeperOK(task[c], group)
  BY DEF WInv, WaitsOK
<1>2. m \in DOMAIN group.members /\ ~Late(group, m) /\ group.state # "Stable"
  BY <1>1 DEF SleeperOK, Asleep, Late
<1>3. \A active : m \notin Expired(group, active)
  BY <1>2 DEF Expired
<1> QED
  BY <1>2, <1>3 DEF Pruned

\* Only its own LeaveGroup removes a member whose request sleeps
\* (SleepersAreNotExpired).
THEOREM SleepersAreNeverExpired == Spec => SleepersAreNotExpired
<1> DEFINE Kept == \A c \in Connection :
                     LET t == task[c]
                     IN  Asleep(t) /\ ~t.woken /\ t.member \notin DOMAIN group'.members
                           => Leave(t.member)
<1>1. ASSUME WInv, [Next]_vars PROVE Kept
  <2> SUFFICES ASSUME NEW c \in Connection, Asleep(task[c]), ~task[c].woken,
                      task[c].member \notin DOMAIN group'.members
               PROVE  Leave(task[c].member)
    OBVIOUS
  <2>1. MembersMove
    BY <1>1, NextMembers DEF WInv
  <2>2. \A D : Pruned(D) => task[c].member \in D
    BY <1>1, SleepersStay
  <2> QED
    BY <2>1, <2>2 DEF MembersMove, JoinAdds
<1>2. WInv /\ [Next]_vars => [Kept]_vars
  BY <1>1
<1> QED
  BY <1>2, WaitsInvariance, PTL DEF Spec, SleepersAreNotExpired

----------------------------------------------------------------------------
(* Pending ids *)

ConstantMap(f) == \A x, y \in DOMAIN f : f[x] = f[y]

\* How a task goes on: it keeps the id that it may add and the removal that it
\* owes, and its plan names one computation of the leader.
Follows(t, u) ==
  /\ t.pc = "unpend" => u.pc = "unpend" /\ u.member = t.member
  /\ u.mayAdd => t.mayAdd /\ u.member = t.member
  /\ ConstantMap(t.plan.plans) => ConstantMap(u.plan.plans)

\* A notified task goes on so.
LEMMA NotifiedFollows ==
  ASSUME NEW t \in Task, NEW h, NEW u, u = IF Asleep(t) THEN Woken(t, h) ELSE t
  PROVE  Follows(t, u)
<1>1. /\ u.pc = t.pc /\ u.member = t.member /\ u.mayAdd = t.mayAdd /\ u.plan = t.plan
  BY DEF Woken, Task
<1> QED
  BY <1>1 DEF Follows

\* So does one that goes to sleep, and one that ends.
LEMMA SleepingFollows ==
  ASSUME NEW t \in Task, NEW h
  PROVE  Follows(t, Sleeping(t, h))
<1>1. /\ Sleeping(t, h).pc = t.pc /\ Sleeping(t, h).member = t.member
      /\ Sleeping(t, h).mayAdd = t.mayAdd /\ Sleeping(t, h).plan = t.plan
  BY DEF Sleeping, Task
<1> QED
  BY <1>1 DEF Follows

\* A request ends with nothing owed.
LEMMA IdleFollows ==
  ASSUME NEW t, t.pc # "unpend"
  PROVE  Follows(t, Idle)
<1>1. Idle.mayAdd = FALSE /\ Idle.plan.plans = EmptyMap
  BY DEF Idle, NoPlan
<1>2. ConstantMap(EmptyMap)
  BY DEF ConstantMap, EmptyMap
<1> QED
  BY <1>1, <1>2 DEF Follows

\* All tasks go on so when the mutex is released.
TasksFollow == \A d \in Connection : Follows(task[d], task'[d])

\* Releasing the mutex.
LEMMA ReleaseFollows ==
  ASSUME IInv, NEW h, NEW c \in Connection, NEW u, Follows(task[c], u),
         task' = [Notified(h) EXCEPT ![c] = u]
  PROVE  TasksFollow
<1> SUFFICES ASSUME NEW d \in Connection PROVE Follows(task[d], task'[d])
  BY DEF TasksFollow
<1>1. task[d] \in Task
  BY DEF IInv, TypeOK
<1>2. CASE d = c
  <2>1. task'[d] = u
    BY <1>2 DEF Notified
  <2> QED
    BY <1>2, <2>1
<1>3. CASE d # c
  <2>1. task'[d] = IF Asleep(task[d]) THEN Woken(task[d], h) ELSE task[d]
    BY <1>3 DEF Notified
  <2> QED
    BY <1>1, <2>1, NotifiedFollows
<1> QED
  BY <1>2, <1>3

\* Releasing the mutex after a request that no connection task carries.
LEMMA RequestFollows ==
  ASSUME IInv, NEW h, task' = Notified(h)
  PROVE  TasksFollow
<1> SUFFICES ASSUME NEW d \in Connection PROVE Follows(task[d], task'[d])
  BY DEF TasksFollow
<1>1. task[d] \in Task
  BY DEF IInv, TypeOK
<1>2. task'[d] = IF Asleep(task[d]) THEN Woken(task[d], h) ELSE task[d]
  BY DEF Notified
<1> QED
  BY <1>1, <1>2, NotifiedFollows

\* One round of sync, for the task that it carries on.
LEMMA SyncRoundFollows ==
  ASSUME IInv, NEW c \in Connection, NEW t \in Task, t.pc # "unpend", Follows(task[c], t),
         task[c].pc # "unpend", NEW g, SyncRound(c, t, g)
  PROVE  TasksFollow
<1>1. Follows(task[c], Idle)
  BY IdleFollows
<1>2. ASSUME NEW h PROVE Follows(task[c], Sleeping(t, h))
  BY SleepingFollows DEF Follows
<1>3. \/ \E h : task' = [Notified(h) EXCEPT ![c] = Idle]
      \/ \E h : task' = [Notified(h) EXCEPT ![c] = Sleeping(t, h)]
  BY DEF SyncRound, UnlockFrom, UnlockWithAssignment
<1>4. ASSUME NEW h, task' = [Notified(h) EXCEPT ![c] = Idle] PROVE TasksFollow
  BY <1>1, <1>4, ReleaseFollows
<1>5. ASSUME NEW h, task' = [Notified(h) EXCEPT ![c] = Sleeping(t, h)] PROVE TasksFollow
  BY <1>2, <1>5, ReleaseFollows
<1> QED
  BY <1>3, <1>4, <1>5

\* The plan of a SyncGroup names one computation of the leader.
LEMMA SyncPlansConstant ==
  ASSUME NEW m, NEW generation, NEW plan \in SyncPlans(m, generation)
  PROVE  ConstantMap(plan.plans)
<1>1. CASE plan = NoPlan
  BY <1>1 DEF NoPlan, ConstantMap, EmptyMap
<1>2. CASE plan \in [plans : UNION {PartialMaps(MemberId, {p}) : p \in Plan},
                     repeated : {FALSE}]
  <2>1. PICK p \in Plan : plan.plans \in PartialMaps(MemberId, {p})
    BY <1>2
  <2>2. \A x \in DOMAIN plan.plans : plan.plans[x] = p
    BY <2>1 DEF PartialMaps
  <2> QED
    BY <2>2 DEF ConstantMap
<1>3. CASE plan \in [plans : UNION {[DOMAIN group.members -> {p}] : p \in Plan},
                     repeated : {TRUE}]
  <2>1. PICK p \in Plan : plan.plans \in [DOMAIN group.members -> {p}]
    BY <1>3
  <2> QED
    BY <2>1 DEF ConstantMap
<1> QED
  BY <1>1, <1>2, <1>3 DEF SyncPlans

\* A SyncGroup that starts.
LEMMA SyncFollows ==
  ASSUME IInv, NEW c \in Connection, NEW m \in MemberId, NEW generation \in Nat,
         NEW plan \in SyncPlans(m, generation), Sync(c, m, generation, plan)
  PROVE  TasksFollow
<1> DEFINE t == [Idle EXCEPT !.pc = "syncing", !.member = m,
                             !.generation = generation, !.plan = plan]
<1>1. plan \in [plans : PartialMaps(MemberId, Plan), repeated : BOOLEAN]
  BY SyncPlansType
<1>2. t \in Task /\ t.pc = "syncing" /\ t.mayAdd = FALSE /\ t.plan = plan
  <2>1. t \in Task
    BY <1>1, IdleOK DEF Task
  <2> QED
    BY <2>1 DEF Idle
<1>3. \E g : SyncRound(c, t, g)
  BY DEF Sync
<1>4. task[c].pc = "idle"
  BY DEF Sync, Idle
<1>5. ConstantMap(plan.plans)
  BY SyncPlansConstant
<1> HIDE DEF t
<1>6. Follows(task[c], t)
  BY <1>2, <1>4, <1>5 DEF Follows
<1> QED
  BY <1>2, <1>3, <1>4, <1>6, SyncRoundFollows

\* A JoinGroup on its way, except for the removal of the pending id.
LEMMA ProgressFollows ==
  ASSUME IInv, NEW c \in Connection,
         JoinCheckKnown(c) \/ Join(c) \/ JoinPoll(c) \/ SyncPoll(c)
  PROVE  TasksFollow
<1> DEFINE t == task[c]
<1>1. t \in Task
  BY DEF IInv, TypeOK
<1>2. t.pc # "unpend"
  BY DEF JoinCheckKnown, Join, JoinPoll, SyncPoll
<1>3. Follows(t, Idle)
  BY <1>2, IdleFollows
<1>4. CASE JoinCheckKnown(c)
  <2> DEFINE u == IF t.member \in DOMAIN group.members THEN [t EXCEPT !.pc = "lock"] ELSE Idle
  <2>1. task' = [task EXCEPT ![c] = u]
    BY <1>4 DEF JoinCheckKnown, IInv, TypeOK
  <2>2. Follows(t, [t EXCEPT !.pc = "lock"])
    BY <1>1, <1>2 DEF Follows, Task
  <2>3. Follows(t, u)
    BY <1>3, <2>2
  <2>4. \A d \in Connection : Follows(task[d], task[d])
    BY DEF Follows
  <2> HIDE DEF u
  <2> QED
    BY <2>1, <2>3, <2>4 DEF TasksFollow, IInv, TypeOK
<1>5. CASE Join(c)
  <2>1. ASSUME NEW e PROVE Follows(t, [t EXCEPT !.pc = "unpend", !.epoch = e])
    BY <1>1, <1>2 DEF Follows, Task
  <2>2. \E h, u : Follows(t, u) /\ task' = [Notified(h) EXCEPT ![c] = u]
    <3> DEFINE g == ExpireStaleMembers(group, NoMember)
               joined == WithJoiner(g, t)
               u == IF CompletionFails(joined) THEN Idle
                    ELSE [t EXCEPT !.pc = "unpend", !.epoch = TargetEpoch(g)]
    <3>1. \/ \E h : task' = [Notified(h) EXCEPT ![c] = Idle]
          \/ \E h : task' = [Notified(h) EXCEPT ![c] = u]
      BY <1>5 DEF Join, UnlockFrom
    <3>2. Follows(t, u)
      BY <1>3, <2>1
    <3> HIDE DEF u
    <3> QED
      BY <1>3, <3>1, <3>2
  <2> QED
    BY <2>2, ReleaseFollows
<1>6. CASE JoinPoll(c)
  <2>1. ASSUME NEW h PROVE Follows(t, Sleeping(t, h))
    BY <1>1, SleepingFollows
  <2>2. \/ \E h : task' = [Notified(h) EXCEPT ![c] = Idle]
        \/ \E h : task' = [Notified(h) EXCEPT ![c] = Sleeping(t, h)]
    BY <1>6 DEF JoinPoll, UnlockFrom
  <2> QED
    BY <1>3, <2>1, <2>2, ReleaseFollows
<1>7. CASE SyncPoll(c)
  <2>1. Follows(t, t) /\ \E g : SyncRound(c, t, g)
    BY <1>7 DEF Follows, SyncPoll
  <2> QED
    BY <1>1, <1>2, <2>1, SyncRoundFollows
<1> QED
  BY <1>4, <1>5, <1>6, <1>7

\* The steps that concern no connection's task.
LEMMA OthersFollow ==
  ASSUME IInv,
         \/ \E m, generation : Heartbeat(m, generation)
         \/ \E m, generation : CommitOffsets(m, generation)
         \/ \E m : Leave(m)
         \/ Describe
         \/ DriveDeadlines
         \/ Tick
         \/ UNCHANGED task
  PROVE  TasksFollow
<1>1. CASE Tick
  <2> SUFFICES ASSUME NEW d \in Connection PROVE Follows(task[d], task'[d])
    BY DEF TasksFollow
  <2>1. task[d] \in Task /\ task'[d] = [task[d] EXCEPT !.wait = Elapsed(@)]
    BY <1>1 DEF IInv, TypeOK, Tick
  <2> QED
    BY <2>1 DEF Follows, Task
<1>2. CASE UNCHANGED task
  BY <1>2 DEF TasksFollow, Follows
<1>3. CASE \E h : task' = Notified(h)
  BY <1>3, RequestFollows
<1>4. \/ \E m, generation : Heartbeat(m, generation)
      \/ \E m, generation : CommitOffsets(m, generation)
      \/ \E m : Leave(m)
      \/ Describe
      \/ DriveDeadlines
      => \E h : task' = Notified(h)
  BY DEF Heartbeat, CommitOffsets, Leave, Describe, DriveDeadlines, UnlockRequest
<1> QED
  BY <1>1, <1>2, <1>3, <1>4

\* A step without a JoinGroup's own bookkeeping.
LEMMA QuietKeepsPending ==
  ASSUME IInv, PendingIsConsumed, TasksFollow, UNCHANGED pending, MembersMove
  PROVE  PendingIsConsumed'
<1>1. \A D : Pruned(D) => D \subseteq DOMAIN group.members
  BY DEF Pruned
<1>2. ASSUME NEW m \in DOMAIN group'.members
      PROVE  \/ m \in DOMAIN group.members
             \/ \E c \in Connection : task'[c].pc = "unpend" /\ task'[c].member = m
  BY <1>1 DEF MembersMove, JoinAdds
<1>3. ASSUME NEW m \in pending' \cap DOMAIN group'.members
      PROVE  \E c \in Connection : task'[c].pc = "unpend" /\ task'[c].member = m
  <2>1. CASE m \in DOMAIN group.members
    <3>1. PICK c \in Connection : task[c].pc = "unpend" /\ task[c].member = m
      BY <2>1 DEF PendingIsConsumed
    <3> QED
      BY <3>1 DEF TasksFollow, Follows
  <2> QED
    BY <1>2, <2>1
<1> QED
  BY <1>3 DEF PendingIsConsumed

\* Every step keeps the pending ids apart from the members' (PendingIsConsumed).
LEMMA NextPending == IInv /\ PendingIsConsumed /\ [Next]_vars => PendingIsConsumed'
<1> SUFFICES ASSUME IInv, PendingIsConsumed, [Next]_vars PROVE PendingIsConsumed'
  OBVIOUS
<1>0. MembersMove
  BY NextMembers
<1>1. CASE JoinWithoutId
  BY <1>1 DEF JoinWithoutId, NewIds, PendingIsConsumed
<1>2. ASSUME NEW c \in Connection, NEW m \in MemberId, NEW p \in Profile,
             NEW type \in ProtocolType, JoinStart(c, m, p, type)
      PROVE  PendingIsConsumed'
  <2> DEFINE t == [Idle EXCEPT !.pc = IF m \in pending THEN "lock" ELSE "known",
                               !.member = m, !.profile = p, !.type = type,
                               !.mayAdd = m \in pending]
  <2>1. task[c].pc # "unpend"
    BY <1>2 DEF Idle, JoinStart
  <2>2. task' = [task EXCEPT ![c] = t] /\ UNCHANGED <<group, pending>>
    BY <1>2 DEF JoinStart
  <2> HIDE DEF t
  <2>3. \A d \in Connection : task'[d] = IF d = c THEN t ELSE task[d]
    BY <2>2 DEF IInv, TypeOK
  <2> QED
    BY <2>1, <2>2, <2>3 DEF PendingIsConsumed
<1>3. ASSUME NEW c \in Connection, JoinUnpend(c) PROVE PendingIsConsumed'
  <2> DEFINE t == [task[c] EXCEPT !.pc = "joining", !.woken = TRUE]
  <2>1. /\ task' = [task EXCEPT ![c] = t] /\ UNCHANGED group
        /\ pending' = pending \ {task[c].member}
    BY <1>3 DEF JoinUnpend, IInv, TypeOK
  <2> HIDE DEF t
  <2>2. \A d \in Connection : task'[d] = IF d = c THEN t ELSE task[d]
    BY <2>1 DEF IInv, TypeOK
  <2> QED
    BY <2>1, <2>2 DEF PendingIsConsumed
<1>4. ASSUME NEW c \in Connection, NEW m \in MemberId,
             NEW generation \in 0..group.generation,
             NEW plan \in SyncPlans(m, generation), Sync(c, m, generation, plan)
      PROVE  PendingIsConsumed'
  <2>1. generation \in Nat
    BY DEF IInv, GroupOK, IsGroup
  <2>2. TasksFollow
    BY <1>4, <2>1, SyncFollows
  <2> QED
    BY <1>0, <1>4, <2>2, QuietKeepsPending DEF Sync
<1>5. ASSUME NEW c \in Connection,
             JoinCheckKnown(c) \/ Join(c) \/ JoinPoll(c) \/ SyncPoll(c)
      PROVE  PendingIsConsumed'
  <2>1. UNCHANGED pending
    BY <1>5 DEF JoinCheckKnown, Join, JoinPoll, SyncPoll
  <2> QED
    BY <1>0, <1>5, <2>1, ProgressFollows, QuietKeepsPending
<1>6. CASE \/ \E m, generation : Heartbeat(m, generation)
           \/ \E m, generation : CommitOffsets(m, generation)
           \/ \E m : Leave(m)
           \/ Describe
           \/ DriveDeadlines
           \/ Tick
           \/ UNCHANGED vars
  <2>1. UNCHANGED pending
    BY <1>6 DEF Heartbeat, CommitOffsets, Leave, Describe, DriveDeadlines, Tick, vars
  <2>2. TasksFollow
    BY <1>6, OthersFollow DEF vars
  <2> QED
    BY <1>0, <2>1, <2>2, QuietKeepsPending
<1> QED
  BY <1>1, <1>2, <1>3, <1>4, <1>5, <1>6
     DEF Next, Request, MembershipRequest, Progress

\* An id is pending until its first join is accepted and no longer
\* (PendingIsConsumed).
THEOREM PendingIsAlwaysConsumed == Spec => []PendingIsConsumed
<1>1. Init => PendingIsConsumed
  BY DEF Init, NewGroup, PendingIsConsumed, EmptyMap
<1>2. IInv /\ PendingIsConsumed /\ [Next]_vars => PendingIsConsumed'
  BY NextPending
<1> QED
  BY <1>1, <1>2, Invariance, PTL DEF Spec

----------------------------------------------------------------------------
(* One plan per generation *)

\* A step that answers no SyncGroup and makes no generation stable.
Unanswered ==
  /\ \A p \in delivered' : p \in delivered /\ group'.generation = group.generation
  /\ group'.state = "Stable" => group.state = "Stable"

\* Releasing the mutex leaves what the promise sees.
LEMMA FreedFields ==
  ASSUME NEW g, GroupOK(g), group' = [g EXCEPT !.notified = FALSE]
  PROVE  /\ group'.state = g.state /\ group'.generation = g.generation
         /\ group'.assignments = g.assignments
<1> DEFINE r == [g EXCEPT !.notified = FALSE]
<1>1. r.state = g.state /\ r.generation = g.generation /\ r.assignments = g.assignments
  BY DEF GroupOK, IsGroup
<1> HIDE DEF r
<1> QED
  BY <1>1 DEF r

\* Releasing the mutex without an answer.
LEMMA UnlockUnanswered ==
  ASSUME NEW g, GroupOK(g), Unlock(g, {}), g.state = "Stable" => group.state = "Stable"
  PROVE  Unanswered
BY FreedFields DEF Unlock, Unanswered

\* Expiring, refreshing and completing make no generation stable.
LEMMA NotStable ==
  ASSUME NEW g, GroupOK(g)
  PROVE  /\ \A active : /\ GroupOK(ExpireStaleMembers(g, active))
                        /\ ExpireStaleMembers(g, active).state = "Stable" => g.state = "Stable"
         /\ \A m \in DOMAIN g.members : /\ GroupOK(RefreshHeartbeat(g, m))
                                        /\ RefreshHeartbeat(g, m).state = g.state
         /\ GroupOK(CompleteRebalanceIfReady(g))
         /\ CompleteRebalanceIfReady(g).state = "Stable" => g.state = "Stable"
<1>1. \A active : /\ GroupOK(ExpireStaleMembers(g, active))
                  /\ ExpireStaleMembers(g, active).state = "Stable" => g.state = "Stable"
  BY ExpireOK DEF Receded
<1>2. \A m \in DOMAIN g.members : /\ GroupOK(RefreshHeartbeat(g, m))
                                  /\ RefreshHeartbeat(g, m).state = g.state
  BY RefreshHeartbeatOK
<1>3. /\ GroupOK(CompleteRebalanceIfReady(g))
      /\ CompleteRebalanceIfReady(g).state = "Stable" => g.state = "Stable"
  BY CompleteOK
<1> QED
  BY <1>1, <1>2, <1>3

\* The steps other than SyncGroup's.
LEMMA JoinUnanswered ==
  ASSUME IInv, NEW c \in Connection, Join(c) \/ JoinPoll(c)
  PROVE  Unanswered
<1> DEFINE t == task[c]
           g == ExpireStaleMembers(group, NoMember)
           e == ExpireStaleMembers(group, t.member)
<1>1. GroupOK(group) /\ t \in Task /\ Carries(t)
  BY DEF IInv, TypeOK
<1>2. /\ GroupOK(g) /\ (g.state = "Stable" => group.state = "Stable")
      /\ GroupOK(e) /\ (e.state = "Stable" => group.state = "Stable")
  BY <1>1, NotStable
<1>3. CASE Join(c)
  <2>1. CASE Unlock(g, {})
    <3> HIDE DEF g
    <3> QED
      BY <1>2, <2>1, UnlockUnanswered
  <2>2. CASE HasCachedJoin(g, t) /\ Unlock(RefreshHeartbeat(g, t.member), {})
    <3>1. t.member \in DOMAIN g.members
      BY <2>2 DEF HasCachedJoin
    <3> HIDE DEF g
    <3> QED
      BY <1>2, <2>2, <3>1, NotStable, UnlockUnanswered
  <2>3. CASE ~NoCommonProtocol(g, t) /\ Unlock(CompleteRebalanceIfReady(WithJoiner(g, t)), {})
    <3>1. t.pc = "lock"
      BY <1>3 DEF Join
    <3> HIDE DEF g
    <3>2. GroupOK(WithJoiner(g, t)) /\ WithJoiner(g, t).state = "PreparingRebalance"
      BY <1>1, <1>2, <2>3, <3>1, WithJoinerOK
    <3> QED
      BY <2>3, <3>2, NotStable, UnlockUnanswered
  <2> QED
    BY <1>3, <2>1, <2>2, <2>3 DEF Join, UnlockFrom
<1>4. CASE JoinPoll(c)
  <2>1. Unlock(group, {}) \/ Unlock(CompleteRebalanceIfReady(e), {})
    BY <1>4 DEF JoinPoll, UnlockFrom
  <2> HIDE DEF e
  <2> QED
    BY <1>1, <1>2, <2>1, NotStable, UnlockUnanswered
<1> QED
  BY <1>3, <1>4

\* The requests that lock the group once, the driver and the clock.
LEMMA OthersUnanswered ==
  ASSUME IInv,
         \/ \E m, generation : Heartbeat(m, generation)
         \/ \E m, generation : CommitOffsets(m, generation)
         \/ \E m : Leave(m)
         \/ Describe
         \/ DriveDeadlines
         \/ Tick
         \/ UNCHANGED <<group, delivered>>
  PROVE  Unanswered
<1> DEFINE g == ExpireStaleMembers(group, NoMember)
<1>1. GroupOK(group) /\ GroupOK(g) /\ (g.state = "Stable" => group.state = "Stable")
  BY NotStable DEF IInv
<1>2. CASE Unlock(g, {})
  <2> HIDE DEF g
  <2> QED
    BY <1>1, <1>2, UnlockUnanswered
<1>3. ASSUME NEW m \in DOMAIN g.members, Unlock(RefreshHeartbeat(g, m), {})
      PROVE  Unanswered
  <2> HIDE DEF g
  <2> QED
    BY <1>1, <1>3, NotStable, UnlockUnanswered
<1>4. CASE Unlock(CompleteRebalanceIfReady(g), {})
  <2> HIDE DEF g
  <2> QED
    BY <1>1, <1>4, NotStable, UnlockUnanswered
<1>5. ASSUME NEW m,
             Unlock(CompleteRebalanceIfReady(TransitionAfterRemoval(Remove(g, {m}))), {})
      PROVE  Unanswered
  <2> DEFINE k == TransitionAfterRemoval(Remove(g, {m}))
  <2> HIDE DEF g
  <2>1. Remove(g, {m}).state = "PreparingRebalance" => Remove(g, {m}).deadline # NoDeadline
    BY <1>1, RemoveLoose DEF GroupOK, Timed
  <2>2. GroupOK(k) /\ k.state \in {"Empty", "PreparingRebalance"}
    BY <1>1, <2>1, RemoveLoose, TransitionAfterRemovalOK
  <2>3. Unlock(CompleteRebalanceIfReady(k), {})
    BY <1>5
  <2> HIDE DEF k
  <2> QED
    BY <2>2, <2>3, NotStable, UnlockUnanswered
<1>6. CASE \E m, generation : Heartbeat(m, generation)
  <2>1. \/ Unlock(g, {})
        \/ \E m \in DOMAIN g.members : Unlock(RefreshHeartbeat(g, m), {})
    BY <1>6 DEF Heartbeat, UnlockRequest, ValidMemberAndGeneration
  <2> HIDE DEF g
  <2> QED
    BY <1>2, <1>3, <2>1
<1>7. CASE (\E m, generation : CommitOffsets(m, generation)) \/ Describe
  BY <1>2, <1>7 DEF CommitOffsets, Describe, UnlockRequest
<1>8. CASE \E m : Leave(m)
  <2>1. \/ Unlock(g, {})
        \/ \E m : Unlock(CompleteRebalanceIfReady(TransitionAfterRemoval(Remove(g, {m}))), {})
    BY <1>8 DEF Leave, UnlockRequest
  <2> HIDE DEF g
  <2> QED
    BY <1>2, <1>5, <2>1
<1>9. CASE DriveDeadlines
  BY <1>4, <1>9 DEF DriveDeadlines
<1>10. CASE Tick
  <2>1. group'.state = group.state /\ group'.generation = group.generation
    BY <1>1, <1>10 DEF Tick, GroupOK, IsGroup
  <2> QED
    BY <1>10, <2>1 DEF Tick, Unanswered
<1>11. CASE UNCHANGED <<group, delivered>>
  BY <1>11 DEF Unanswered
<1> QED
  BY <1>6, <1>7, <1>8, <1>9, <1>10, <1>11

\* A step that answers a SyncGroup from a stable generation.
Answered ==
  /\ group'.state = "Stable"
  /\ \A p \in delivered' :
       \/ p \in delivered /\ group'.generation = group.generation
       \/ \E x \in DOMAIN group'.assignments : p = group'.assignments[x]
  /\ group'.assignments = group.assignments \/ ConstantMap(group'.assignments)

\* One round of sync, on a group that only expired members since it was free.
LEMMA SyncRoundAnswers ==
  ASSUME IInv, NEW c \in Connection, NEW t \in Task, ConstantMap(t.plan.plans),
         NEW g, GroupOK(g),
         g.state \in {"CompletingRebalance", "Stable"} =>
           g.state = group.state /\ g.assignments = group.assignments,
         SyncRound(c, t, g)
  PROVE  Unanswered \/ Answered
<1>1. CASE UnlockFrom(c, Idle, g)
  BY <1>1, UnlockUnanswered DEF UnlockFrom
<1>2. CASE /\ ValidMemberAndGeneration(g, t.member, t.generation)
           /\ g.state = "Stable"
           /\ UnlockWithAssignment(c, t.member, SyncStable(g, t))
  <2> DEFINE h == SyncStable(g, t)
  <2>1. GroupOK(h) /\ h.state = "Stable" /\ h.assignments = group.assignments
    BY <1>2, SyncStableFine DEF ValidMemberAndGeneration
  <2>2. Unlock(h, {h.assignments[n] : n \in {t.member} \cap DOMAIN h.assignments})
    BY <1>2 DEF UnlockWithAssignment
  <2> HIDE DEF h
  <2>3. /\ group'.state = h.state /\ group'.generation = h.generation
        /\ group'.assignments = h.assignments
    BY <2>1, <2>2, FreedFields DEF Unlock
  <2>4. Answered
    BY <2>1, <2>2, <2>3 DEF Answered, Unlock
  <2> QED
    BY <2>4
<1>3. CASE /\ ValidMemberAndGeneration(g, t.member, t.generation)
           /\ g.state = "CompletingRebalance" /\ ValidAssignment(g, t.plan)
           /\ UnlockWithAssignment(c, t.member, InstallAssignments(g, t))
  <2> DEFINE h == InstallAssignments(g, t)
  <2>1. GroupOK(h) /\ h.state = "Stable" /\ h.assignments = t.plan.plans
    BY <1>3, InstallFine DEF ValidMemberAndGeneration
  <2>2. Unlock(h, {h.assignments[n] : n \in {t.member} \cap DOMAIN h.assignments})
    BY <1>3 DEF UnlockWithAssignment
  <2> HIDE DEF h
  <2>3. /\ group'.state = h.state /\ group'.generation = h.generation
        /\ group'.assignments = h.assignments
    BY <2>1, <2>2, FreedFields DEF Unlock
  <2>4. Answered
    BY <2>1, <2>2, <2>3 DEF Answered, Unlock
  <2> QED
    BY <2>4
<1>4. CASE /\ ValidMemberAndGeneration(g, t.member, t.generation)
           /\ g.state = "CompletingRebalance" /\ t.member # g.leader
           /\ UnlockFrom(c, Sleeping(t, MarkSynced(g, t.member)), MarkSynced(g, t.member))
  <2> DEFINE h == MarkSynced(g, t.member)
  <2>1. GroupOK(h) /\ h.state = g.state
    BY <1>4, MarkSyncedOK, MarkSyncedFields DEF ValidMemberAndGeneration
  <2>2. Unlock(h, {})
    BY <1>4 DEF UnlockFrom
  <2> HIDE DEF h
  <2> QED
    BY <1>4, <2>1, <2>2, UnlockUnanswered
<1> QED
  BY <1>1, <1>2, <1>3, <1>4 DEF SyncRound

\* A SyncGroup, from its first lock on and when it wakes.
LEMMA SyncAnswers ==
  ASSUME IInv, NEW c \in Connection, ConstantMap(task[c].plan.plans),
         \/ \E m \in MemberId, generation \in 0..group.generation :
              \E plan \in SyncPlans(m, generation) : Sync(c, m, generation, plan)
         \/ SyncPoll(c)
  PROVE  Unanswered \/ Answered
<1>0. GroupOK(group)
  BY DEF IInv
<1>1. ASSUME NEW active
      PROVE  LET g == ExpireStaleMembers(group, active)
             IN  /\ GroupOK(g)
                 /\ g.state \in {"CompletingRebalance", "Stable"} =>
                      g.state = group.state /\ g.assignments = group.assignments
  BY <1>0, ExpireOK DEF Receded
<1>2. ASSUME NEW m \in MemberId, NEW generation \in 0..group.generation,
             NEW plan \in SyncPlans(m, generation), Sync(c, m, generation, plan)
      PROVE  Unanswered \/ Answered
  <2> DEFINE t == [Idle EXCEPT !.pc = "syncing", !.member = m,
                               !.generation = generation, !.plan = plan]
             g == ExpireStaleMembers(group, NoMember)
             r == IF ValidMemberAndGeneration(g, m, generation)
                  THEN RefreshHeartbeat(g, m) ELSE g
  <2>1. plan \in [plans : PartialMaps(MemberId, Plan), repeated : BOOLEAN] /\ generation \in Nat
    BY <1>0, SyncPlansType DEF GroupOK, IsGroup
  <2>2. t \in Task
    BY <2>1, IdleOK DEF Task
  <2>3. t.plan = plan
    BY DEF Idle
  <2>4. SyncRound(c, t, r)
    BY <1>2 DEF Sync
  <2>5. /\ GroupOK(g)
        /\ g.state \in {"CompletingRebalance", "Stable"} =>
             g.state = group.state /\ g.assignments = group.assignments
    BY <1>1
  <2> HIDE DEF t, g
  <2>6. GroupOK(r) /\ r.state = g.state /\ r.assignments = g.assignments
    BY <2>5, RefreshHeartbeatOK DEF ValidMemberAndGeneration
  <2> HIDE DEF r
  <2>7. ConstantMap(t.plan.plans)
    BY <2>3, SyncPlansConstant
  <2> QED
    BY <2>2, <2>4, <2>5, <2>6, <2>7, SyncRoundAnswers
<1>3. CASE SyncPoll(c)
  <2> DEFINE t == task[c]
             g == ExpireStaleMembers(group, t.member)
  <2>1. t \in Task /\ SyncRound(c, t, g)
    BY <1>3 DEF IInv, TypeOK, SyncPoll
  <2>2. /\ GroupOK(g)
        /\ g.state \in {"CompletingRebalance", "Stable"} =>
             g.state = group.state /\ g.assignments = group.assignments
    BY <1>1
  <2> HIDE DEF g
  <2> QED
    BY <2>1, <2>2, SyncRoundAnswers
<1> QED
  BY <1>2, <1>3

\* Inductive, with IInv: what was delivered is what is assigned.
PlanInv ==
  /\ \A c \in Connection : ConstantMap(task[c].plan.plans)
  /\ ConstantMap(group.assignments)
  /\ group.state = "CompletingRebalance" => delivered = {}
  /\ group.state = "Stable" =>
       \A p \in delivered : \A x \in DOMAIN group.assignments : group.assignments[x] = p
  /\ OnePlanPerGeneration

\* A step that moves the group as ConsumerGroup may keeps PlanInv.
LEMMA MoveKeepsPlan ==
  ASSUME IInv, PlanInv, StepOK, Unanswered \/ Answered,
         \A d \in Connection :
           ConstantMap(task[d].plan.plans) => ConstantMap(task'[d].plan.plans)
  PROVE  PlanInv'
<1> DEFINE g == group
           h == group'
<1>1. GroupOK(g) /\ GroupOK(h) /\ Moves(g, h) /\ g.generation \in Nat
  BY DEF IInv, StepOK, GroupOK, IsGroup
<1>2. \A d \in Connection : ConstantMap(task'[d].plan.plans)
  BY DEF PlanInv
<1>3. CASE Unanswered
  <2>1. ConstantMap(h.assignments)
    <3>1. CASE h.state = "Stable"
      <4>1. h.assignments = g.assignments
        BY <1>1, <1>3, <3>1 DEF Unanswered, Moves
      <4> QED
        BY <4>1 DEF PlanInv
    <3>2. CASE h.state # "Stable"
      <4>1. DOMAIN h.assignments = {}
        BY <1>1, <3>2 DEF GroupOK, PhaseFits
      <4> QED
        BY <4>1 DEF ConstantMap
    <3> QED
      BY <3>1, <3>2
  <2>2. h.state = "CompletingRebalance" => delivered' = {}
    BY <1>1, <1>3 DEF Unanswered, Moves, PlanInv
  <2>3. h.state = "Stable" =>
          \A p \in delivered' : \A x \in DOMAIN h.assignments : h.assignments[x] = p
    BY <1>1, <1>3 DEF Unanswered, Moves, PlanInv
  <2>4. OnePlanPerGeneration'
    BY <1>3 DEF Unanswered, PlanInv, OnePlanPerGeneration
  <2> QED
    BY <1>2, <2>1, <2>2, <2>3, <2>4 DEF PlanInv
<1>4. CASE Answered
  <2>1. h.state = "Stable" /\ ConstantMap(h.assignments)
    BY <1>4 DEF Answered, PlanInv
  <2>2. g.state = "CompletingRebalance" \/ (g.state = "Stable" /\ h.assignments = g.assignments)
    BY <1>1, <2>1 DEF Moves
  <2>3. \A p \in delivered' : \A x \in DOMAIN h.assignments : h.assignments[x] = p
    BY <1>4, <2>1, <2>2 DEF Answered, PlanInv, ConstantMap
  <2>4. DOMAIN h.assignments # {}
    BY <1>1, <2>1 DEF GroupOK, PhaseFits
  <2>5. OnePlanPerGeneration'
    BY <2>3, <2>4 DEF OnePlanPerGeneration
  <2> QED
    BY <1>2, <2>1, <2>3, <2>5 DEF PlanInv
<1> QED
  BY <1>3, <1>4

\* Every step keeps PlanInv.
LEMMA NextPlan == IInv /\ PlanInv /\ [Next]_vars => PlanInv'
<1> SUFFICES ASSUME IInv, PlanInv, [Next]_vars PROVE PlanInv'
  OBVIOUS
<1> DEFINE PlansKept == \A d \in Connection :
             ConstantMap(task[d].plan.plans) => ConstantMap(task'[d].plan.plans)
<1>0. StepOK
  BY NextOK
<1>1. TasksFollow => PlansKept
  BY DEF TasksFollow, Follows
<1>2. ASSUME NEW c \in Connection, NEW t, task' = [task EXCEPT ![c] = t],
             ConstantMap(task[c].plan.plans) => ConstantMap(t.plan.plans),
             UNCHANGED <<group, delivered>>
      PROVE  PlanInv'
  <2>1. PlansKept
    BY <1>2 DEF IInv, TypeOK
  <2>2. Unanswered
    BY <1>2, OthersUnanswered
  <2> HIDE DEF PlansKept
  <2> QED
    BY <1>0, <2>1, <2>2, MoveKeepsPlan DEF PlansKept
<1>3. ASSUME NEW c \in Connection, NEW m, NEW p, NEW type, JoinStart(c, m, p, type)
      PROVE  PlanInv'
  <2> DEFINE t == [Idle EXCEPT !.pc = IF m \in pending THEN "lock" ELSE "known",
                               !.member = m, !.profile = p, !.type = type,
                               !.mayAdd = m \in pending]
  <2>1. t.plan.plans = EmptyMap
    BY DEF Idle, NoPlan
  <2>2. task' = [task EXCEPT ![c] = t] /\ UNCHANGED <<group, delivered>>
    BY <1>3 DEF JoinStart
  <2> HIDE DEF t
  <2>3. ConstantMap(t.plan.plans)
    BY <2>1 DEF ConstantMap, EmptyMap
  <2> QED
    BY <1>2, <2>2, <2>3
<1>4. ASSUME NEW c \in Connection, JoinUnpend(c) PROVE PlanInv'
  <2> DEFINE t == [task[c] EXCEPT !.pc = "joining", !.woken = TRUE]
  <2>1. t.plan = task[c].plan
    BY DEF IInv, TypeOK, Task
  <2>2. task' = [task EXCEPT ![c] = t] /\ UNCHANGED <<group, delivered>>
    BY <1>4 DEF JoinUnpend, IInv, TypeOK
  <2> HIDE DEF t
  <2> QED
    BY <1>2, <2>1, <2>2
<1>5. ASSUME TasksFollow, Unanswered \/ Answered PROVE PlanInv'
  <2> QED
    BY <1>0, <1>1, <1>5, MoveKeepsPlan
<1>6. ASSUME NEW c \in Connection, NEW m \in MemberId,
             NEW generation \in 0..group.generation,
             NEW plan \in SyncPlans(m, generation), Sync(c, m, generation, plan)
      PROVE  PlanInv'
  <2>1. generation \in Nat
    BY DEF IInv, GroupOK, IsGroup
  <2>2. TasksFollow
    BY <1>6, <2>1, SyncFollows
  <2>3. Unanswered \/ Answered
    BY <1>6, SyncAnswers DEF PlanInv
  <2> QED
    BY <1>5, <2>2, <2>3
<1>7. ASSUME NEW c \in Connection, SyncPoll(c) PROVE PlanInv'
  BY <1>5, <1>7, ProgressFollows, SyncAnswers DEF PlanInv
<1>8. ASSUME NEW c \in Connection, Join(c) \/ JoinPoll(c) PROVE PlanInv'
  BY <1>5, <1>8, ProgressFollows, JoinUnanswered
<1>9. ASSUME NEW c \in Connection, JoinCheckKnown(c) PROVE PlanInv'
  BY <1>5, <1>9, ProgressFollows, OthersUnanswered DEF JoinCheckKnown
<1>10. CASE \/ \E m, generation : Heartbeat(m, generation)
            \/ \E m, generation : CommitOffsets(m, generation)
            \/ \E m : Leave(m)
            \/ Describe
            \/ DriveDeadlines
            \/ Tick
  BY <1>5, <1>10, OthersFollow, OthersUnanswered
<1>11. CASE JoinWithoutId \/ UNCHANGED vars
  BY <1>5, <1>11, OthersFollow, OthersUnanswered DEF JoinWithoutId, vars
<1> HIDE DEF PlansKept
<1> QED
  BY <1>3, <1>4, <1>6, <1>7, <1>8, <1>9, <1>10, <1>11
     DEF Next, Request, MembershipRequest, Progress

\* All SyncGroups answered in a generation got parts of the same plan
\* (OnePlanPerGeneration).
THEOREM OnePlanInEveryGeneration == Spec => []OnePlanPerGeneration
<1>1. Init => PlanInv
  <2> SUFFICES ASSUME Init PROVE PlanInv
    OBVIOUS
  <2>1. ConstantMap(EmptyMap)
    BY DEF ConstantMap, EmptyMap
  <2>2. Idle.plan.plans = EmptyMap
    BY DEF Idle, NoPlan
  <2>3. \A c \in Connection : task[c] = Idle
    BY DEF Init
  <2>4. /\ group.state = "Empty" /\ group.assignments = EmptyMap
        /\ delivered = {}
    BY DEF Init, NewGroup
  <2>5. OnePlanPerGeneration
    BY <2>4 DEF OnePlanPerGeneration
  <2>6. \A c \in Connection : ConstantMap(task[c].plan.plans)
    BY <2>1, <2>2, <2>3
  <2> QED
    BY <2>1, <2>4, <2>5, <2>6 DEF PlanInv
<1>2. IInv /\ PlanInv /\ [Next]_vars => PlanInv'
  BY NextPlan
<1>3. PlanInv => OnePlanPerGeneration
  BY DEF PlanInv
<1> QED
  BY <1>1, <1>2, <1>3, Invariance, PTL DEF Spec
=============================================================================
