---------------------------- MODULE JarvisGraph ----------------------------
(***************************************************************************)
(* The state graph JarvisCore runs for a job (core/jarvis.py,              *)
(* _execute_pipeline) on the engine's own loop (engine/langgraph_agent.py, *)
(* invoke): initialize, execute, reflect, and replan until the outcome is  *)
(* known.  A node that raises sends the loop to replan, wherever it was;   *)
(* replan itself raising ends the run.                                     *)
(*                                                                         *)
(* One call of run_dag is one step here, with every outcome RunDag shows   *)
(* it to have; what it leaves behind is its checkpoint.  All tasks have a  *)
(* registered agent and a checkpoint that was saved can be read.           *)
(*                                                                         *)
(* reflect and replan read task_id of a failed result, which AgentResult   *)
(* does not have: they always raise on one, and what reflect would do next *)
(* (compare the attempt with max_attempts) is never reached.               *)
(***************************************************************************)
EXTENDS Naturals

CONSTANTS
    Ids,           \* task ids a plan may use
    MaxVisits      \* nodes visited before the loop gives up, 50 in the code

ASSUME GraphAssumption == MaxVisits \in Nat \ {0}

VARIABLES
    node,       \* current, "end" when the loop is left
    visits,     \* loop_counter
    attempt,    \* state["attempt"]
    prepared,   \* whether initialize has set state["pipeline_state"]
    plan,       \* the ids of state["agent_tasks"]
    ckpt,       \* run_dag's checkpoint of the job: the ids it lists
    results,    \* state["agent_results"]: empty, all successes, or with a failure
    outcome,    \* state["outcome"]
    ran         \* history: ids whose agent has succeeded

vars == <<node, visits, attempt, prepared, plan, ckpt, results, outcome, ran>>

Plans == (SUBSET Ids) \ {{}}

TypeOK ==
    /\ node \in {"initialize", "execute", "reflect", "replan", "end"}
    /\ visits \in 0..MaxVisits
    /\ attempt \in 1..(MaxVisits + 1)
    /\ prepared \in BOOLEAN
    /\ plan \in Plans
    /\ ckpt \subseteq Ids /\ ran \subseteq Ids
    /\ results \in {"none", "ok", "failed"}
    /\ outcome \in {"none", "success"}

Init ==
    /\ node = "initialize" /\ visits = 0 /\ attempt = 1
    /\ prepared = FALSE
    /\ plan \in Plans
    /\ ckpt = {} /\ ran = {}
    /\ results = "none" /\ outcome = "none"

-----------------------------------------------------------------------------
(* The loop is at node n and its counter allows another visit.             *)
Visit(n) == node = n /\ visits < MaxVisits /\ visits' = visits + 1

(* Mutant of Raised: the loop goes on along the edges of the graph.        *)
RaisedGoesOn ==
    node' = CASE node = "initialize" -> "execute"
              [] node = "execute" -> "reflect"
              [] node = "reflect" -> "replan"
              [] OTHER -> "end"

(* Where the safety wrapper goes when the node's action raises.            *)
Raised == node' = IF node = "replan" THEN "end" ELSE "replan"

(* Mutant of GiveUp: the limit counts as a node that raised.               *)
GiveUpReplanning ==
    /\ node # "end" /\ visits = MaxVisits
    /\ node' = "replan"
    /\ UNCHANGED <<visits, attempt, prepared, plan, ckpt, results, outcome, ran>>

(* The counter is over its limit.                                          *)
GiveUp ==
    /\ node # "end" /\ visits = MaxVisits
    /\ node' = "end"
    /\ UNCHANGED <<visits, attempt, prepared, plan, ckpt, results, outcome, ran>>

(* initialize_node: the pipeline state is there at its end, or never.      *)
Initialize ==
    /\ Visit("initialize")
    /\ \/ prepared' = TRUE /\ node' = "execute"
       \/ prepared' = FALSE /\ Raised
    /\ UNCHANGED <<attempt, plan, ckpt, results, outcome, ran>>

(* What a call of run_dag may leave in the checkpoint file when done are   *)
(* the tasks it harvested: the last save, a torn one excepted, lists them  *)
(* all.  Nothing is saved when the pipeline state is missing: the first    *)
(* success makes the scheduling thread raise.                              *)
Saved(done) == IF prepared /\ done # {} THEN ckpt \cup done ELSE ckpt

(* run_dag returns: what the checkpoint does not list has run, and the     *)
(* file is removed, if that works.                                         *)
Finished ==
    /\ prepared
    /\ ran' = ran \cup (plan \ ckpt)
    /\ ckpt' \in {{}, Saved(plan \ ckpt)}
    /\ results' = "ok"
    /\ node' = "reflect"

(* An agent fails: the tasks harvested before it are saved, agents that    *)
(* were still running may have succeeded too, and the results reach        *)
(* execute_node.                                                           *)
AgentFails(done, other) ==
    /\ done \cup other \subseteq plan \ ckpt /\ done \cup other # plan \ ckpt
    /\ done = {} \/ prepared
    /\ ran' = ran \cup done \cup other
    /\ ckpt' = Saved(done)
    /\ results' = "failed"
    /\ node' = "reflect"

(* run_dag raises (a timeout, a deadlock, a cycle, no pipeline state): the *)
(* state keeps the results of the execution before.                        *)
RunDagRaises(done, other) ==
    /\ done \cup other \subseteq plan \ ckpt
    /\ ran' = ran \cup done \cup other
    /\ ckpt' = Saved(done)
    /\ results' = results
    /\ Raised

(* execute_node.                                                           *)
Execute ==
    /\ Visit("execute")
    /\ \/ Finished
       \/ \E done, other \in SUBSET plan : AgentFails(done, other) \/ RunDagRaises(done, other)
    /\ UNCHANGED <<attempt, prepared, plan, outcome>>

(* reflect_node: a success is decided.  Naming the failed tasks in the log *)
(* raises.                                                                 *)
Reflect ==
    /\ Visit("reflect")
    /\ IF results # "failed"
       THEN outcome' = "success" /\ node' = "end"
       ELSE outcome' = outcome /\ Raised
    /\ UNCHANGED <<attempt, prepared, plan, ckpt, results, ran>>

(* Mutant of Replan: a plan without tasks is taken.                        *)
ReplanWithAnything ==
    /\ Visit("replan")
    /\ attempt' = attempt + 1
    /\ IF results = "failed"
       THEN plan' = plan /\ Raised
       ELSE plan' \in SUBSET Ids /\ node' = "execute"
    /\ UNCHANGED <<prepared, ckpt, results, outcome, ran>>

(* replan_node: another attempt, with the plan the brain makes or, when it *)
(* makes none, the old one.  Naming the failed tasks in its prompt raises. *)
Replan ==
    /\ Visit("replan")
    /\ attempt' = attempt + 1
    /\ IF results = "failed"
       THEN plan' = plan /\ Raised
       ELSE plan' \in Plans /\ node' = "execute"
    /\ UNCHANGED <<prepared, ckpt, results, outcome, ran>>

(* The job is over.                                                        *)
Over == node = "end" /\ UNCHANGED vars

-----------------------------------------------------------------------------
Next == Initialize \/ Execute \/ Reflect \/ Replan \/ GiveUp \/ Over

Spec == Init /\ [][Next]_vars

(* The thread that runs the job is not starved, and every node returns or  *)
(* raises (RunEnds of RunDag is this for execute).                         *)
FairSpec == Spec /\ WF_vars(Next)

-----------------------------------------------------------------------------
(* The job is reported as a success only when its pipeline state was set   *)
(* up and the agent of every task of its last plan has succeeded, in this  *)
(* attempt or in one before: no raise, stale result or skipped task makes  *)
(* a success.                                                              *)
SuccessIsEarned == outcome = "success" => prepared /\ plan \subseteq ran

(* Whatever fails, and however often the brain is asked, the run of the    *)
(* graph comes to an end.                                                  *)
GraphEnds == <>(node = "end")
=============================================================================
