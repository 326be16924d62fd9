--------------------------- MODULE ConsumerGroup ---------------------------
(***************************************************************************)
(* What a consumer group promises its clients, without deadlines, tasks or *)
(* locks: the membership of a generation is frozen when the generation is  *)
(* formed, the generation gets one plan that covers exactly that           *)
(* membership, and offsets are committed only under a stable generation.   *)
(* Any change of the membership discards the plan, and the next generation *)
(* has the next number.                                                    *)
(***************************************************************************)
EXTENDS Naturals

CONSTANTS MemberId, Plan

VARIABLES
  phase,       \* "Empty", "PreparingRebalance", "CompletingRebalance", "Stable"
  generation,  \* the number of the last generation that was formed
  members,     \* the current members
  plan,        \* plan[m]: what member m was assigned
  committed    \* the generation that committed last

vars == <<phase, generation, members, plan, committed>>

NoPlan == [m \in {} |-> m]

Init ==
  /\ phase = "Empty"
  /\ generation = 0
  /\ members = {}
  /\ plan = NoPlan
  /\ committed = 0

\* The membership changes, or somebody asks to rejoin: back to gathering.
Reform(S) ==
  /\ S # {}
  /\ phase' = "PreparingRebalance"
  /\ members' = S
  /\ plan' = NoPlan
  /\ UNCHANGED <<generation, committed>>

\* The last member is gone.
Disband ==
  /\ phase' = "Empty"
  /\ members' = {}
  /\ plan' = NoPlan
  /\ UNCHANGED <<generation, committed>>

\* All of S are in: they make the next generation.
Form(S) ==
  /\ S # {}
  /\ phase' = "CompletingRebalance"
  /\ generation' = generation + 1
  /\ members' = S
  /\ plan' = NoPlan
  /\ UNCHANGED committed

\* The generation gets its plan.
Assign ==
  /\ phase = "CompletingRebalance"
  /\ phase' = "Stable"
  /\ plan' \in [members -> Plan]
  /\ UNCHANGED <<generation, members, committed>>

Commit ==
  /\ phase = "Stable"
  /\ committed' = generation
  /\ UNCHANGED <<phase, generation, members, plan>>

Next ==
  \/ \E S \in SUBSET MemberId : Reform(S) \/ Form(S)
  \/ Disband
  \/ Assign
  \/ Commit

Spec == Init /\ [][Next]_vars
=============================================================================
