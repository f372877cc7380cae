------------------------------ MODULE PlanMutex ------------------------------
(***************************************************************************)
(* What PlanLock promises to the sessions that open one plan: at most one  *)
(* of them is inside "with get_plan_lock(plan_id)" at a time, and a session *)
(* that waits gets in or gives up.  GoalPlanSessions takes this for        *)
(* granted; PlanLock is how it is done.                                    *)
(***************************************************************************)
CONSTANT Sessions

VARIABLES
    waiting,   \* sessions inside acquire
    holders    \* sessions inside the with block

mutexVars == <<waiting, holders>>

Init == waiting = {} /\ holders = {}

Ask(s) ==
    /\ s \notin waiting \cup holders
    /\ waiting' = waiting \cup {s}
    /\ UNCHANGED holders

Grant(s) ==
    /\ s \in waiting
    /\ holders = {}
    /\ waiting' = waiting \ {s}
    /\ holders' = {s}

(* PlanLockTimeoutError, or the end of the process.                        *)
GiveUp(s) ==
    /\ s \in waiting
    /\ waiting' = waiting \ {s}
    /\ UNCHANGED holders

Leave(s) ==
    /\ s \in holders
    /\ holders' = holders \ {s}
    /\ UNCHANGED waiting

Next == \E s \in Sessions : Ask(s) \/ Grant(s) \/ GiveUp(s) \/ Leave(s)

Spec == Init /\ [][Next]_mutexVars
=============================================================================
