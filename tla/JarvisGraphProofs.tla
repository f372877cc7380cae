-------------------------- MODULE JarvisGraphProofs --------------------------
(***************************************************************************)
(* Proofs about JarvisGraph, for any task ids and any limits.  A success   *)
(* is earned because two things hold in between: the checkpoint lists only *)
(* tasks that ran, and good results at the reflect node come from the call *)
(* of run_dag just before, for the plan as it is.                          *)
(***************************************************************************)
EXTENDS JarvisGraph, TLAPS

(* What the checkpoint lists did run, so that no attempt skips a task that *)
(* has not.                                                                *)
CheckpointTruthful == ckpt \subseteq ran

(* Until the pipeline state is set up, nothing is saved and nothing is     *)
(* reported as done.                                                       *)
NothingUnprepared ==
    node = "initialize" \/ ~prepared => ckpt = {} /\ results # "ok" /\ outcome # "success"

(* Reflect runs after an execution that returned; good results are those   *)
(* of the plan in hand, and only reflect replaces them by an outcome.      *)
ResultsAreFresh ==
    /\ node = "reflect" => results # "none"
    /\ results = "ok" => plan \subseteq ran /\ node \in {"reflect", "end"}
    /\ outcome = "success" => results = "ok" /\ node = "end"

(* Every further attempt was a visit of replan.                            *)
AttemptsAreVisits == attempt <= visits + 1

Inv == TypeOK /\ AttemptsAreVisits /\ CheckpointTruthful /\ NothingUnprepared /\ ResultsAreFresh

-----------------------------------------------------------------------------
(* A job starts with nothing done, saved or decided.                       *)
LEMMA InitInv == Init => Inv
<1> SUFFICES ASSUME Init PROVE Inv
  OBVIOUS
<1>1. TypeOK
  <2>1. 0 \in 0..MaxVisits /\ 1 \in 1..(MaxVisits + 1)
    BY GraphAssumption
  <2> QED BY <2>1, Zenon DEF Init, TypeOK
<1>2. AttemptsAreVisits /\ CheckpointTruthful /\ NothingUnprepared /\ ResultsAreFresh
  BY DEF Init, AttemptsAreVisits, CheckpointTruthful, NothingUnprepared, ResultsAreFresh
<1> QED BY <1>1, <1>2 DEF Inv

(* Every visit keeps Inv.                                                  *)
LEMMA NextInv == Inv /\ [Next]_vars => Inv'
<1> SUFFICES ASSUME Inv, [Next]_vars PROVE Inv'
  OBVIOUS
<1> USE GraphAssumption DEF Inv, TypeOK, AttemptsAreVisits, CheckpointTruthful, NothingUnprepared, ResultsAreFresh
<1>1. CASE Initialize
  <2>1. /\ node = "initialize" /\ visits < MaxVisits /\ visits' = visits + 1
        /\ UNCHANGED <<attempt, plan, ckpt, results, outcome, ran>>
    BY <1>1 DEF Initialize, Visit
  <2>2. prepared' \in BOOLEAN /\ (node' = "execute" \/ node' = "replan")
    BY <1>1 DEF Initialize, Visit, Raised
  <2> QED BY <2>1, <2>2
<1>2. CASE Execute
  <2>1. /\ node = "execute" /\ visits < MaxVisits /\ visits' = visits + 1
        /\ UNCHANGED <<attempt, prepared, plan, outcome>>
    BY <1>2 DEF Execute, Visit
  <2>2. CASE Finished
    BY <2>1, <2>2 DEF Finished, Saved, Plans
  <2>3. ASSUME NEW done \in SUBSET plan, NEW other \in SUBSET plan, AgentFails(done, other)
        PROVE  Inv'
    BY <2>1, <2>3 DEF AgentFails, Saved, Plans
  <2>4. ASSUME NEW done \in SUBSET plan, NEW other \in SUBSET plan, RunDagRaises(done, other)
        PROVE  Inv'
    BY <2>1, <2>4 DEF RunDagRaises, Saved, Raised, Plans
  <2> QED BY <1>2, <2>2, <2>3, <2>4 DEF Execute
<1>3. CASE Reflect
  BY <1>3 DEF Reflect, Visit, Raised
<1>4. CASE Replan
  BY <1>4 DEF Replan, Visit, Raised
<1>5. CASE GiveUp
  BY <1>5 DEF GiveUp
<1>6. CASE Over \/ UNCHANGED vars
  BY <1>6 DEF Over, vars
<1> QED BY <1>1, <1>2, <1>3, <1>4, <1>5, <1>6 DEF Next

(* Inv holds throughout every run of the graph.                            *)
LEMMA Invariance == Spec => []Inv
BY InitInv, NextInv, PTL DEF Spec

-----------------------------------------------------------------------------
(* The state of the graph, its counters and its checkpoint stay well       *)
(* formed.                                                                 *)
THEOREM GraphTypeCorrect == Spec => []TypeOK
<1>1. Inv => TypeOK BY DEF Inv
<1> QED BY <1>1, Invariance, PTL

(* However the nodes fail, and whatever plans the brain makes: a job is    *)
(* reported as a success only after the agent of each task of its last     *)
(* plan succeeded.                                                         *)
THEOREM SuccessIsAlwaysEarned == Spec => []SuccessIsEarned
<1>1. Inv => SuccessIsEarned
  BY DEF Inv, NothingUnprepared, ResultsAreFresh, SuccessIsEarned
<1> QED BY <1>1, Invariance, PTL
=============================================================================
