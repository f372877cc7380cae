---------------------------- MODULE StagePipeline ----------------------------
(***************************************************************************)
(* The stages of a job, as Pipeline.execute (pipeline/pipeline.py, graph   *)
(* mode) runs them on GraphOrchestrator.run (engine/orchestrator.py): one  *)
(* node at a time, a checkpoint after each, and a router that asks         *)
(* Supervisor.handle_result (core/supervisor.py) where to go.  All jobs of *)
(* a process share the orchestrator, and with it the node to start at.     *)
(*                                                                         *)
(* Stage 1 is asset_search, stage 2 asset_processing, and so on in the     *)
(* order of Pipeline.stages (six in the code).  A worker's result is its   *)
(* status, NEED_RETRY standing for FAILED as well, except for FATAL: a     *)
(* FAILED whose reason names a missing binary or file.                     *)
(*                                                                         *)
(* The router is installed only if the pipeline has been given its         *)
(* supervisor.  AppContext (main.py) never gives it, the tests do: both    *)
(* wirings are modelled.                                                   *)
(***************************************************************************)
EXTENDS Naturals

CONSTANTS
    Jobs,
    Last,          \* the last stage
    MaxFailures,   \* retries.max_attempts
    MaxCrashes,    \* bound on deaths of the process
    Wirings,       \* whether the pipeline may have its supervisor
    NoFile

Stages == 1..Last

(* state.history holds a node at most so often: it is run at three or less *)
(* and appended twice.                                                     *)
Counts == 0..5

ASSUME StageAssumption ==
    /\ Last \in Nat /\ Last >= 2
    /\ MaxFailures \in Nat \ {0} /\ MaxCrashes \in Nat
    /\ Wirings \subseteq BOOLEAN
    /\ NoFile \notin [node : Stages, hist : [Stages -> Counts]]

VARIABLES
    wired,     \* whether pipeline.supervisor is set
    start,     \* _start_node of the orchestrator
    at,        \* where the job is
    node,      \* state.current_node
    hist,      \* how often state.history holds each node
    result,    \* state.worker_result, until it is routed
    fails,     \* _failures of the supervisor
    file,      \* the job's checkpoint file
    crashes,   \* deaths of the process so far
    reused,    \* history: whether the execution found assets to reuse
    first,     \* history: the stage the job began with
    done,      \* history: stages whose worker has succeeded
    troubled   \* history: whether a worker has answered anything else

vars == <<wired, start, at, node, hist, result, fails, file, crashes, reused, first, done, troubled>>

Statuses == {"SUCCESS", "NEED_ASSET", "NEED_RETRY", "FATAL"}

TypeOK ==
    /\ wired \in Wirings
    /\ start \in {1, 2}
    /\ at \in [Jobs -> {"queued", "node", "save", "route", "returned", "raised", "completed", "failed"}]
    /\ node \in [Jobs -> Stages]
    /\ hist \in [Jobs -> [Stages -> Counts]]
    /\ result \in [Jobs -> Statuses \cup {"none"}]
    /\ fails \in [Jobs -> [Stages -> 0..MaxFailures]]
    /\ file \in [Jobs -> [node : Stages, hist : [Stages -> Counts]] \cup {NoFile}]
    /\ crashes \in 0..MaxCrashes
    /\ reused \in [Jobs -> BOOLEAN]
    /\ first \in [Jobs -> Stages]
    /\ done \in [Jobs -> SUBSET Stages]
    /\ troubled \in [Jobs -> BOOLEAN]

Never == [s \in Stages |-> 0]

Init ==
    /\ wired \in Wirings
    /\ start = 1
    /\ at = [j \in Jobs |-> "queued"]
    /\ node = [j \in Jobs |-> 1]
    /\ hist = [j \in Jobs |-> Never]
    /\ result = [j \in Jobs |-> "none"]
    /\ fails = [j \in Jobs |-> Never]
    /\ file = [j \in Jobs |-> NoFile]
    /\ crashes = 0
    /\ reused = [j \in Jobs |-> FALSE]
    /\ first = [j \in Jobs |-> 1]
    /\ done = [j \in Jobs |-> {}]
    /\ troubled = [j \in Jobs |-> FALSE]

-----------------------------------------------------------------------------
Goto(j, p) == at' = [at EXCEPT ![j] = p]

(* execute: assets of an earlier job may be reused, and then the           *)
(* orchestrator starts with asset_processing - this job and, as nothing    *)
(* sets _start_node back, every later one.  run goes on from the           *)
(* checkpoint, if there is one.                                            *)
Execute(j) ==
    /\ at[j] = "queued"
    /\ \E reuse \in BOOLEAN :
        /\ start' = IF reuse THEN 2 ELSE start
        /\ reused' = [reused EXCEPT ![j] = reuse]
    /\ IF file[j] = NoFile
       THEN /\ node' = [node EXCEPT ![j] = start']
            /\ hist' = [hist EXCEPT ![j] = Never]
            /\ first' = [first EXCEPT ![j] = start']
       ELSE /\ node' = [node EXCEPT ![j] = file[j].node]
            /\ hist' = [hist EXCEPT ![j] = file[j].hist]
            /\ first' = first
    /\ Goto(j, "node")
    /\ UNCHANGED <<wired, result, fails, file, crashes, done, troubled>>

(* One repetition is one too many.                                         *)
ExhaustedAtOnce(j) ==
    /\ at[j] = "node"
    /\ hist[j][node[j]] > 1
    /\ Goto(j, "raised")
    /\ UNCHANGED <<wired, start, node, hist, result, fails, file, crashes, reused, first, done, troubled>>

(* The node has been visited too often.                                    *)
Exhausted(j) ==
    /\ at[j] = "node"
    /\ hist[j][node[j]] > 3
    /\ Goto(j, "raised")
    /\ UNCHANGED <<wired, start, node, hist, result, fails, file, crashes, reused, first, done, troubled>>

(* A stage that lacks assets is not held against it.                       *)
WorkUncounted(j) ==
    LET s == node[j] IN
    /\ at[j] = "node"
    /\ hist[j][s] <= 3
    /\ \E answer \in Statuses :
        /\ result' = [result EXCEPT ![j] = answer]
        /\ hist' = [hist EXCEPT ![j][s] = IF answer = "NEED_ASSET" THEN @ ELSE @ + 2]
        /\ done' = [done EXCEPT ![j] = IF answer = "SUCCESS" THEN @ \cup {s} ELSE @]
        /\ troubled' = [troubled EXCEPT ![j] = @ \/ answer # "SUCCESS"]
    /\ Goto(j, "save")
    /\ UNCHANGED <<wired, start, node, fails, file, crashes, reused, first>>

(* The node's worker answers.  The wrapper around a worker that returns    *)
(* appends the node to the history, and so does run; if the health check   *)
(* of run fails or the worker raises, only run does.                       *)
Work(j) ==
    LET s == node[j] IN
    /\ at[j] = "node"
    /\ hist[j][s] <= 3
    /\ \E answer \in Statuses, times \in {1, 2} :
        /\ times = 1 => answer \in {"NEED_RETRY", "FATAL"}
        /\ result' = [result EXCEPT ![j] = answer]
        /\ hist' = [hist EXCEPT ![j][s] = @ + times]
        /\ done' = [done EXCEPT ![j] = IF answer = "SUCCESS" THEN @ \cup {s} ELSE @]
        /\ troubled' = [troubled EXCEPT ![j] = @ \/ answer # "SUCCESS"]
    /\ Goto(j, "save")
    /\ UNCHANGED <<wired, start, node, fails, file, crashes, reused, first>>

(* The checkpoint names the node to run next.                              *)
SaveNext(j) ==
    /\ at[j] = "save"
    /\ file' = [file EXCEPT ![j] =
           [node |-> IF node[j] < Last THEN node[j] + 1 ELSE Last, hist |-> hist[j]]]
    /\ Goto(j, "route")
    /\ UNCHANGED <<wired, start, node, hist, result, fails, crashes, reused, first, done, troubled>>

(* The checkpoint names the node that has just run.  A save that fails is  *)
(* only logged; the file may be gone by then.                              *)
Save(j) ==
    /\ at[j] = "save"
    /\ \E f \in {[node |-> node[j], hist |-> hist[j]], file[j], NoFile} :
        file' = [file EXCEPT ![j] = f]
    /\ Goto(j, "route")
    /\ UNCHANGED <<wired, start, node, hist, result, fails, crashes, reused, first, done, troubled>>

-----------------------------------------------------------------------------
To(j, s) ==
    /\ node' = [node EXCEPT ![j] = s]
    /\ Goto(j, "node")
    /\ UNCHANGED <<fails, file>>

(* run comes to its end: the checkpoint is removed, if that works, and     *)
(* execute returns, whatever the last answer was.                          *)
End(j) ==
    /\ \E f \in {file[j], NoFile} : file' = [file EXCEPT ![j] = f]
    /\ Goto(j, "returned")
    /\ UNCHANGED <<node, fails>>

(* After a success, the next stage, and after the last the end.            *)
Proceed(j) ==
    /\ result[j] = "SUCCESS"
    /\ IF node[j] < Last THEN To(j, node[j] + 1) ELSE End(j)

(* A stage lacks assets: back to the search.                               *)
SearchAgain(j) == result[j] = "NEED_ASSET" /\ To(j, 1)

(* handle_result counts the failure, and gives up at the limit or when     *)
(* trying again is no use; otherwise the stage is run again.               *)
Retry(j) ==
    LET n == fails[j][node[j]] + 1 IN
    /\ result[j] \in {"NEED_RETRY", "FATAL"}
    /\ fails' = [fails EXCEPT ![j][node[j]] = n]
    /\ Goto(j, IF n >= MaxFailures \/ result[j] = "FATAL" THEN "raised" ELSE "node")
    /\ UNCHANGED <<node, file>>

(* Without a router the first node is the last.                            *)
Route(j) ==
    /\ at[j] = "route"
    /\ IF wired THEN Proceed(j) \/ SearchAgain(j) \/ Retry(j) ELSE End(j)
    /\ result' = [result EXCEPT ![j] = "none"]
    /\ UNCHANGED <<wired, start, hist, crashes, reused, first, done, troubled>>

(* The supervisor writes the row of the job.                               *)
Record(j) ==
    /\ \/ at[j] = "returned" /\ Goto(j, "completed")
       \/ at[j] = "raised" /\ Goto(j, "failed")
    /\ UNCHANGED <<wired, start, node, hist, result, fails, file, crashes, reused, first, done, troubled>>

Ended(j) == at[j] \in {"completed", "failed"}

(* The process dies, and all but the checkpoints with it.  Its successor   *)
(* requeues the jobs whose rows say running.                               *)
Crash ==
    /\ crashes < MaxCrashes
    /\ crashes' = crashes + 1
    /\ at' = [j \in Jobs |-> IF Ended(j) THEN at[j] ELSE "queued"]
    /\ start' = 1
    /\ node' = [j \in Jobs |-> 1]
    /\ hist' = [j \in Jobs |-> Never]
    /\ result' = [j \in Jobs |-> "none"]
    /\ fails' = [j \in Jobs |-> Never]
    /\ UNCHANGED <<wired, file, reused, first, done, troubled>>

-----------------------------------------------------------------------------
Step(j) == Execute(j) \/ Exhausted(j) \/ Work(j) \/ Save(j) \/ Route(j) \/ Record(j)

Next == Crash \/ \E j \in Jobs : Step(j)

Spec == Init /\ [][Next]_vars

(* The thread that runs a job is not starved, and every worker answers.    *)
FairSpec == Spec /\ \A j \in Jobs : WF_vars(Step(j))

-----------------------------------------------------------------------------
(* No stage is skipped, through retries, detours to the search, crashes    *)
(* and lost checkpoints: when a stage is about to run, every stage from    *)
(* the one the job began with has succeeded; and when the job is over, all *)
(* of them have, if the pipeline has its supervisor.                       *)
NoStageSkipped ==
    \A j \in Jobs :
        /\ at[j] = "node" => first[j]..(node[j] - 1) \subseteq done[j]
        /\ wired /\ at[j] \in {"returned", "completed"} => first[j]..Last \subseteq done[j]

(* A job fails only when one of its workers did not succeed, or when the   *)
(* process died at least twice: a stage is visited once more after each,   *)
(* and each visit counts twice against the limit.                          *)
FailsForAReason == \A j \in Jobs : at[j] = "failed" => troubled[j] \/ crashes >= 2

(* Every job is completed or failed in the end, although a stage may send  *)
(* it back to the search again and again.                                  *)
JobsEnd == \A j \in Jobs : <>Ended(j)

(* "Ordered stages from prompt to playable scene": when a job is called    *)
(* completed, every stage has succeeded, but for the search if the job     *)
(* found assets to reuse.                                                  *)
CompletedRanAll ==
    \A j \in Jobs : at[j] = "completed" => (IF reused[j] THEN 2 ELSE 1)..Last \subseteq done[j]
=============================================================================
