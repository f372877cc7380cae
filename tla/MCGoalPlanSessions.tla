------------------------- MODULE MCGoalPlanSessions -------------------------
(* Bounded instances of GoalPlanSessions for TLC.                          *)
EXTENDS GoalPlanSessions, TLC

CONSTANTS k1, k2, k3, draft, final, longTitle

(* Keys are drawn at random: any permutation of them is as good.           *)
KeySymmetry == Permutations(Keys)

(* One write step, or two of which the second waits for the first.         *)
NoDeps == [i \in {1} |-> {}]
Chain == [i \in 1..2 |-> IF i = 1 THEN {} ELSE {1}]

OnePayload == [i \in {1} |-> draft]
ChainPayload == [i \in 1..2 |-> IF i = 1 THEN draft ELSE final]
=============================================================================
