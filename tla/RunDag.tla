------------------------------- MODULE RunDag -------------------------------
(***************************************************************************)
(* GraphOrchestrator.run_dag (engine/orchestrator.py): one thread schedules *)
(* the tasks of a job on a thread pool, polls their futures, and saves a   *)
(* checkpoint after each success.  A call that raised, or whose process    *)
(* died, may be followed by another call for the same job, which starts    *)
(* from the checkpoint.  So may the first call of a plan the brain made    *)
(* anew: the checkpoint then lists ids of the plan before.                 *)
(*                                                                         *)
(* Time is not modelled: a submitted task may be found to be over its time *)
(* limit at any poll.  The resource gate may hold back any throttled task, *)
(* but not for ever.                                                       *)
(***************************************************************************)
EXTENDS FiniteSets, Naturals

CONSTANTS
    Tasks,         \* task ids of the plan
    Earlier,       \* ids of an earlier plan, which this one may still depend on
    Deps,          \* the dependencies of each task, by id
    Registered,    \* tasks whose agent_type has a node
    Throttled,     \* tasks that high RAM may hold back
    MaxWorkers,    \* threads of the pool
    MaxCalls       \* bound on calls of run_dag for the job

ASSUME DagAssumption ==
    /\ Registered \subseteq Tasks /\ Throttled \subseteq Tasks
    /\ DOMAIN Deps = Tasks
    /\ Earlier \cap Tasks = {}
    /\ MaxWorkers \in Nat \ {0} /\ MaxCalls \in Nat \ {0}

VARIABLES
    loop,        \* where the scheduling thread is
    completed,   \* completed_tasks
    pending,     \* pending_tasks
    running,     \* running_tasks
    fut,         \* the future of each task in the current call
    seen,        \* futures the last poll found done or over their time
    stored,      \* whether there is a complete checkpoint file
    ckpt,        \* its "completed" list
    ran,         \* history: tasks whose agent has succeeded, in any call
    starts,      \* how often each task was submitted in the current call
    calls        \* calls of run_dag so far

vars == <<loop, completed, pending, running, fut, seen, stored, ckpt, ran, starts, calls>>

Ended == {"returned", "failed", "deadlock", "down"}

TypeOK ==
    /\ loop \in {"schedule", "poll", "harvest", "save", "write", "unwind", "finish"} \cup Ended
    /\ completed \subseteq Tasks \cup Earlier /\ pending \subseteq Tasks /\ running \subseteq Tasks
    /\ fut \in [Tasks -> {"none", "queued", "working", "success", "failed"}]
    /\ seen \subseteq running
    /\ stored \in BOOLEAN
    /\ ckpt \subseteq Tasks \cup Earlier
    /\ ran \subseteq Registered
    /\ starts \in [Tasks -> Nat]
    /\ calls \in 1..MaxCalls

-----------------------------------------------------------------------------
Unfinished(t) == fut[t] \in {"queued", "working"}

(* Where the while loop goes when p is pending and r is running.           *)
NextPass(p, r) == IF p = {} /\ r = {} THEN "finish" ELSE "schedule"

Init ==
    /\ loop = NextPass(Tasks, {})
    /\ ckpt \in SUBSET Earlier /\ stored = (ckpt # {})
    /\ completed = ckpt
    /\ pending = Tasks /\ running = {}
    /\ fut = [t \in Tasks |-> "none"]
    /\ seen = {}
    /\ ran = {}
    /\ starts = [t \in Tasks |-> 0]
    /\ calls = 1

(* Mutant of Call: the checkpoint is read, its tasks are not skipped.      *)
CallFromScratch ==
    /\ loop \in {"failed", "deadlock", "down"}
    /\ calls < MaxCalls
    /\ calls' = calls + 1
    /\ completed' = IF stored THEN ckpt ELSE {}
    /\ pending' = Tasks
    /\ running' = {}
    /\ loop' = NextPass(pending', {})
    /\ fut' = [t \in Tasks |-> "none"]
    /\ starts' = [t \in Tasks |-> 0]
    /\ UNCHANGED <<seen, stored, ckpt, ran>>

(* run_dag is called again for the job: what the checkpoint lists is       *)
(* complete and not scheduled.  A torn file counts as none.                *)
Call ==
    /\ loop \in {"failed", "deadlock", "down"}
    /\ calls < MaxCalls
    /\ calls' = calls + 1
    /\ completed' = IF stored THEN ckpt ELSE {}
    /\ pending' = Tasks \ completed'
    /\ running' = {}
    /\ loop' = NextPass(pending', {})
    /\ fut' = [t \in Tasks |-> "none"]
    /\ starts' = [t \in Tasks |-> 0]
    /\ UNCHANGED <<seen, stored, ckpt, ran>>

-----------------------------------------------------------------------------
(* Mutant of Ready: a dependency need only have been started.              *)
ReadyOnceStarted == {t \in pending : Deps[t] \subseteq completed \cup running}

Ready == {t \in pending : Deps[t] \subseteq completed}

(* Mutant of Blocked: tasks that are running are forgotten.                *)
BlockedWhileRunning == Ready = {} /\ pending # {}

Blocked == Ready = {} /\ pending # {} /\ running = {}

(* Tasks are waiting, none is ready and none is running.                   *)
Deadlock ==
    /\ loop = "schedule"
    /\ Blocked
    /\ loop' = "deadlock"
    /\ UNCHANGED <<completed, pending, running, fut, seen, stored, ckpt, ran, starts, calls>>

(* One pass over the ready tasks: those the resource gate does not hold    *)
(* are submitted, or complete on the spot when no agent is registered for  *)
(* them.  With nothing running and nothing held, the loop is left.         *)
Schedule(held) ==
    LET go == Ready \ held
        submitted == go \cap Registered IN
    /\ loop = "schedule"
    /\ ~Blocked
    /\ held \subseteq Ready \cap Throttled
    /\ pending' = pending \ go
    /\ completed' = completed \cup (go \ Registered)
    /\ running' = running \cup submitted
    /\ fut' = [t \in Tasks |-> IF t \in submitted THEN "queued" ELSE fut[t]]
    /\ starts' = [t \in Tasks |-> IF t \in submitted THEN starts[t] + 1 ELSE starts[t]]
    /\ loop' = IF running' # {} THEN "poll"
               ELSE IF pending' # {} /\ held # {} THEN "schedule" ELSE "finish"
    /\ UNCHANGED <<seen, stored, ckpt, ran, calls>>

(* Mutant of Poll: only futures that succeeded are picked up.              *)
PollSuccesses(late) ==
    /\ loop = "poll"
    /\ late \subseteq {t \in running : Unfinished(t)}
    /\ seen' = {t \in running : fut[t] = "success"}
    /\ loop' = IF seen' = {} THEN "schedule" ELSE "harvest"
    /\ UNCHANGED <<completed, pending, running, fut, stored, ckpt, ran, starts, calls>>

(* The futures that are done, or over task_timeout since their submission; *)
(* if there are none, another pass.                                        *)
Poll(late) ==
    /\ loop = "poll"
    /\ late \subseteq {t \in running : Unfinished(t)}
    /\ seen' = {t \in running : ~Unfinished(t)} \cup late
    /\ loop' = IF seen' = {} THEN "schedule" ELSE "harvest"
    /\ UNCHANGED <<completed, pending, running, fut, stored, ckpt, ran, starts, calls>>

(* Mutant of Harvest: whatever the future holds counts as a success.       *)
HarvestAnything(t) ==
    /\ loop = "harvest" /\ t \in seen /\ ~Unfinished(t)
    /\ running' = running \ {t}
    /\ seen' = seen \ {t}
    /\ completed' = completed \cup {t}
    /\ loop' = "save"
    /\ UNCHANGED <<pending, fut, stored, ckpt, ran, starts, calls>>

(* Mutant of Harvest: the future is not popped from future_to_task.        *)
HarvestUnpopped(t) ==
    /\ loop = "harvest" /\ t \in seen /\ fut[t] = "success"
    /\ running' = running \ {t}
    /\ completed' = completed \cup {t}
    /\ loop' = "save"
    /\ UNCHANGED <<pending, fut, seen, stored, ckpt, ran, starts, calls>>

(* The result of one of the futures found, in the order of a set.  A       *)
(* success goes on to the checkpoint; a failure raises at once, and so     *)
(* does a future that is still unfinished after another task_timeout: what *)
(* the others found have to say is dropped.                                *)
Harvest(t) ==
    /\ loop = "harvest" /\ t \in seen
    /\ running' = running \ {t}
    /\ IF fut[t] = "success"
       THEN /\ completed' = completed \cup {t}
            /\ seen' = seen \ {t}
            /\ loop' = "save"
       ELSE /\ completed' = completed
            /\ seen' = {}
            /\ loop' = "unwind"
    /\ UNCHANGED <<pending, fut, stored, ckpt, ran, starts, calls>>

(* What follows a save: the next future found, or the next pass.           *)
Continue == IF seen # {} THEN "harvest" ELSE NextPass(pending, running)

(* CheckpointManager.save: opening the file truncates it ...               *)
Truncate ==
    /\ loop = "save"
    /\ stored' = FALSE
    /\ loop' = "write"
    /\ UNCHANGED <<completed, pending, running, fut, seen, ckpt, ran, starts, calls>>

(* Mutant of Write: completed and pending are swapped.                     *)
WriteSwapped ==
    /\ loop = "write"
    /\ stored' = TRUE
    /\ ckpt' = pending
    /\ loop' = Continue
    /\ UNCHANGED <<completed, pending, running, fut, seen, ran, starts, calls>>

(* ... and then it is written.                                             *)
Write ==
    /\ loop = "write"
    /\ stored' = TRUE
    /\ ckpt' = completed
    /\ loop' = Continue
    /\ UNCHANGED <<completed, pending, running, fut, seen, ran, starts, calls>>

(* Either may fail, which is only logged.                                  *)
SaveFails ==
    /\ loop \in {"save", "write"}
    /\ loop' = Continue
    /\ UNCHANGED <<completed, pending, running, fut, seen, stored, ckpt, ran, starts, calls>>

(* The exception leaves the "with ThreadPoolExecutor" block, which waits   *)
(* for everything submitted.                                               *)
Unwind ==
    /\ loop = "unwind"
    /\ \A t \in Tasks : ~Unfinished(t)
    /\ loop' = "failed"
    /\ UNCHANGED <<completed, pending, running, fut, seen, stored, ckpt, ran, starts, calls>>

(* PipelineFinished; the checkpoint is removed, if that works.             *)
Finish ==
    /\ loop = "finish"
    /\ stored' \in {FALSE, stored}
    /\ loop' = "returned"
    /\ UNCHANGED <<completed, pending, running, fut, seen, ckpt, ran, starts, calls>>

-----------------------------------------------------------------------------
(* A pool thread takes a submitted task, and its agent ends one way or the *)
(* other.                                                                  *)
Begin(t) ==
    /\ loop \notin Ended
    /\ fut[t] = "queued"
    /\ Cardinality({u \in Tasks : fut[u] = "working"}) < MaxWorkers
    /\ fut' = [fut EXCEPT ![t] = "working"]
    /\ UNCHANGED <<loop, completed, pending, running, seen, stored, ckpt, ran, starts, calls>>

End(t) ==
    /\ loop \notin Ended
    /\ fut[t] = "working"
    /\ \E status \in {"success", "failed"} :
        /\ fut' = [fut EXCEPT ![t] = status]
        /\ ran' = IF status = "success" THEN ran \cup {t} ELSE ran
    /\ UNCHANGED <<loop, completed, pending, running, seen, stored, ckpt, starts, calls>>

(* The process dies, and with it everything but the checkpoint file.       *)
Crash ==
    /\ loop \notin Ended
    /\ loop' = "down"
    /\ completed' = {} /\ pending' = {} /\ running' = {} /\ seen' = {}
    /\ fut' = [t \in Tasks |-> "none"]
    /\ UNCHANGED <<stored, ckpt, ran, starts, calls>>

Over ==
    /\ loop = "returned" \/ (loop \in Ended /\ calls = MaxCalls)
    /\ UNCHANGED vars

-----------------------------------------------------------------------------
(* The thread that runs run_dag.                                           *)
Main ==
    \/ Deadlock
    \/ \E held \in SUBSET Tasks : Schedule(held)
    \/ \E late \in SUBSET Tasks : Poll(late)
    \/ \E t \in Tasks : Harvest(t)
    \/ Truncate \/ Write \/ SaveFails
    \/ Unwind
    \/ Finish

Next == Main \/ Call \/ Crash \/ Over \/ \E t \in Tasks : Begin(t) \/ End(t)

Spec == Init /\ [][Next]_vars

(* The scheduling thread and the pool are never starved, the gate gives    *)
(* way after 15 s, and every agent comes to an end.  (A hung one holds up  *)
(* run_dag for ever: leaving the pool waits for it.)                       *)
FairSpec ==
    /\ Spec
    /\ WF_vars(Main) /\ SF_vars(Schedule({}))
    /\ \A t \in Tasks : WF_vars(Begin(t)) /\ WF_vars(End(t))

-----------------------------------------------------------------------------
(* An agent is started only when each of its dependencies has had its      *)
(* agent succeed, in this call or one before, or needs no agent.           *)
DependenciesFirst ==
    \A t \in Tasks : starts[t] > 0 => Deps[t] \cap Registered \subseteq ran

(* The checkpoint never claims a task whose agent has not succeeded: a     *)
(* resume cannot skip work that was not done.                              *)
CheckpointTruthful == stored => ckpt \cap Registered \subseteq ran

(* One call never submits a task twice.                                    *)
OncePerCall == \A t \in Tasks : starts[t] <= 1

(* A task the checkpoint lists is not submitted again.                     *)
ResumeSkipsDone ==
    [][\A t \in Tasks : starts'[t] > starts[t] => ~(stored /\ t \in ckpt)]_vars

(* run_dag returns normally only when every task is complete, each with    *)
(* its agent's success.                                                    *)
ReturnMeansDone ==
    loop = "returned" => Tasks \subseteq completed /\ Registered \subseteq ran

(* Tasks that can never run, whatever the agents do: the members of a set  *)
(* each of which needs another member, or an id that is neither in the     *)
(* plan nor done before it.                                                *)
Doomed ==
    UNION {S \in SUBSET (Tasks \ completed) :
             \A t \in S : \E x \in Deps[t] : x \in S \/ x \notin Tasks \cup completed}

(* A deadlock is reported only when nothing that is left can ever run,     *)
(* never because of timing or of the resource gate.                        *)
DeadlockIsReal == loop = "deadlock" => pending \subseteq Doomed

(* A call of run_dag comes to an end when its agents do.                   *)
RunEnds == loop \notin Ended ~> loop \in Ended
=============================================================================
