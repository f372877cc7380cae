# Specifications of AppSuite Jarvis

AppSuite Jarvis (`src/AppSuite_JarvisV1`) is a desktop assistant. It turns a prompt into a job that builds a
Godot project with a graph of agents, and it turns a goal into a plan of writes to the user's cloud applications
(DayMentor, Notes and others), each of which the user confirms. This directory holds TLA+ models of the parts
where order, concurrency and failure decide whether the program is right, their model-checking instances, and
proofs. All source paths below are relative to `src/AppSuite_JarvisV1` unless they start with `src/`.

## 1. Inventory

| Component | State it keeps | Operations | Hard behaviour | What makes it correct |
|---|---|---|---|---|
| Ecosystem action RPC (`appsuite/ecosystem/migrations/012_...sql`) | `ecosystem_commands` by idempotency key; the user's DayMentor row | `execute_ecosystem_action` | concurrent READ COMMITTED transactions, unique index, `FOR UPDATE`, rollback anywhere | a key's effect at most once; no lost task; replies match the ledger |
| Goal planner and plan store (`ecosystem/goal_planner.py`, `plan_store.py`, `executor.py`) | one JSON file per plan, its PlanLock, each session's copy in memory | plan, resume, preview, confirm, execute, skip, cancel | several processes, stale copies, failing saves, crashes, lost and late answers | a step's write at most once; key on disk before the request; dependency order |
| Plan lock (`plan_store.py`) | a lock file | acquire, release, delete, archive, quarantine | unlink while others wait, dying processes | mutual exclusion; every attempt ends |
| Account session and RPC client (`ecosystem/client.py`) | tokens and the user's id, one object for all threads | sign in, sign out, refresh, call, fall back to the two-argument RPC | answers to calls of an account that is gone, 401 during a call, a schema without keys | tokens and id belong together; a write lands in its owner's account, once |
| Agent DAG executor (`engine/orchestrator.py` `run_dag`, `engine/checkpoint.py`) | completed, pending and running tasks, futures, a checkpoint file | run a DAG, resume it | thread pool, time limits, resource gate, torn checkpoint, failures with other results in hand | dependencies first; a truthful checkpoint; nothing lost or run twice |
| Job supervisor (`core/supervisor.py`, `db.py`) | the `jobs` table, `_active`, a thread pool per process | submit, tick, run, recover, stop, pause, resume, cancel | several processes on one database, stop or crash at any step, buttons that write a row in use, a raising write | one execution per job; honest rows; exact capacity |
| Jarvis state graph (`core/jarvis.py`, `engine/langgraph_agent.py`) | graph state, loop counter, `run_dag`'s checkpoint | initialize, execute, reflect, replan | raising nodes, a checkpoint that outlives its plan | it ends; a success was earned |
| Stage pipeline (`pipeline/pipeline.py`, `orchestrator.run`) | stage history, checkpoint, failure counts, the start node | run stages, route, retry, abort | resume from a stale checkpoint, counts that outlive a crash, a start node shared by all jobs, a router that may be missing | no stage is skipped; a job fails for a reason; it ends |
| Persistent task queue (`core/task_queue.py`) | `task_queue` rows | enqueue, dequeue, pause, resume, complete, fail | pause of a running task, dependencies on failed tasks, crashes | a task is never run twice at once |
| Token banker, providers (`core/token_banker.py`, `provider_manager.py`) | usage per provider | check, consume, fall back | check before, consume after | the budget holds |
| Goals, projects, background scheduler, event buses | rows, subscribers, an idle thread | create, update, publish, run when idle | parents recomputed from children, check-then-run | consistent status |
| Agents, workers, memories, interpreters, windows, API | files, records, screens | prompts, downloads, builds, display | I/O | not a matter of interleaving |

How they interact. The windows, the console and the API call `Supervisor.submit`, `JarvisCore.run` or the goal
planner. The supervisor's loop hands rows of `jobs` to `Pipeline.execute` on its pool; `JarvisCore.run` executes
its own row in the calling thread. Pipelines run agents or stages through the orchestrator, whose only persistent
state is the checkpoint file. The goal planner calls the RPC through `client.py`; the database's ledger is the only
place where two sessions, or a retry and its late original, meet. Processes share two things: the SQLite file
(`jobs` and the other tables, every statement committed on its own) and the plan files.

The hazards of this code are listed one by one, each at its line, in `PROJECT.json`.

## 2. Modules

| Module | Models | Composition |
|---|---|---|
| `LedgerRules` | what a settled idempotency key answers | shared by the next three |
| `ActionLedger` | abstract promise of the RPC: each request is answered by one atomic step | abstract specification |
| `EcosystemRpc` | the RPC statement by statement | implements `ActionLedger` (`Ledger == INSTANCE ActionLedger WITH ...`, property `ImplementsLedger`) |
| `EcosystemRpcProofs` | theorems about `EcosystemRpc` | |
| `GoalPlanSessions` | sessions, the plan file, the network and the server's ledger | uses `LedgerRules` for the server, as `ActionLedger` does |
| `GoalPlanSessionsProofs` | theorems about `GoalPlanSessions` | |
| `RunDag` | `run_dag`, its pool, its checkpoint and repeated calls | |
| `RunDagProofs` | theorems about `RunDag` | |
| `JobSupervisor` | the jobs table moved by several contexts and the user | the pipeline is opaque |
| `JobSupervisorProofs` | theorems about `JobSupervisor` | |
| `PlanMutex` | abstract promise of the plan lock, which `GoalPlanSessions` assumes | abstract specification |
| `PlanLock` | the lock file, its name and the kernel's lock on it | implements `PlanMutex` (`Mutex == INSTANCE PlanMutex WITH ...`, property `ImplementsMutex`) |
| `PlanLockProofs` | theorems about `PlanLock` | |
| `AccountSession` | the client object shared by the window and its workers, and the server's tokens | the account `GoalPlanSessions` takes as fixed |
| `AccountSessionProofs` | theorems about `AccountSession` | |
| `JarvisGraph` | the graph of `JarvisCore`, a call of `run_dag` being one step | above `RunDag`; one `Work` of a direct job in `JobSupervisor` |
| `JarvisGraphProofs` | theorems about `JarvisGraph` | |
| `StagePipeline` | `Pipeline.execute` in graph mode with its router and `handle_result` | one `Work` of a queued job in `JobSupervisor` |
| `StagePipelineProofs` | theorems about `StagePipeline` | |
| `MC...` | instances that need definitions (dependencies, payloads); the other modules are instantiated by their `.cfg` | |

### EcosystemRpc

A call is a transaction `t` with a program counter `pc[t]`; the steps are its statements: the allow-list
(`RejectUnsupported`), the look-up of the key (`Lookup`), the INSERT of the pending row (`Claim`, which waits for an
uncommitted row with the same key because of the unique index, then takes the `unique_violation` branch), strict
validation (`Refuse`, `Accept`), the DayMentor row (`EnsureRow`, `LockRow`), and the final UPDATE with the commit
(`Commit`). `Abort` rolls a call back at any statement. `rows` and `tasks` are committed data, `claim` and `rowLock`
the locks, `snap` the task list a transaction read.

A remark on the `unique_violation` branch: it answers `pending`, "Command execution in progress", for a row that
has in fact failed, since the INSERT raises only after the other transaction committed. `ActionLedger.Replay` allows
that answer and no other.

### GoalPlanSessions

A session walks `execute_plan_step` in phases: `acquire` (PlanLock), `save` (the executing step and its key),
`dispatch` (lock released), `await`, `record` (lock again, save the outcome). `mem` is the session's whole copy of
the plan, which every save writes back; only `Acquire` re-reads the file, for one step's key. `Serve` answers any
request ever sent, at any time and any number of times, which is the network's loss, delay and duplication;
`Timeout` gives up waiting. `Resume` loads and reconciles the file as `_validate_and_reconcile_plan` does. The
confirmation fingerprint is the payload it was computed from.

### RunDag

The scheduling thread goes `schedule`, `poll`, `harvest`, `save`, `write` and round again. `Schedule(held)` is a
pass over the ready tasks, of which the resource gate holds back some; `Poll(late)` collects finished futures and
those found over their time limit; `Harvest(t)` takes one result, and a failure unwinds through the thread pool.
The checkpoint's `open(..., "w")` truncates before the content is written (`Truncate`, `Write`, `SaveFails`).
`Call` is the next call for the same job after a failure or a crash.

### JobSupervisor

A context is an AppContext: it is constructed (`Boot` lists running rows, `Requeue` puts each back), started, and
stopped or killed. The loop's tick is three steps with other threads between them: `Pick` (capacity and the oldest
queued row; planning follows), `Mark` (row running), `Hand` (to the pool, or back to the queue if the pool is shut
down). `Begin`, `Work`, `Record`, `Remember` and `Close` are `_run_job`. `Fault` is a write that raises, at each
place where the code behaves differently for it. `RunDirect` is `JarvisCore.run`, which inserts its row as queued and
executes it, unless the event between the two raises. `PauseJob`, `ResumeJob` and `CancelJob` are the three buttons of a
row in the desktop's Job Queue (`desktop_ui/widgets/terminal_panel.py:200-210`): they set the row to paused, queued or
failed whatever the job is doing. `resumed` is history: the jobs that were in hand (`InHand`: marked by a tick, or with
an execution under way) when the user resumed them. `Stop` is `Supervisor.stop`, and `Stopped` its end: what the pool has is
waited for, but a tick for five seconds only, and the executions of `JarvisCore.run` not at all; they are cut off.
A constructor that raises, and a submit that raises, change nothing that stays, so they have no step. The recovery
lists the newest thousand rows; `Boot` takes them for all.

### PlanLock

A file and its name are two things: `path` is the file the name stands for, `fd[s]` the one session `s` has open,
`owner[f]` whom the kernel has locked `f` for. `Open`, `Lock`, `Refused`, `Unlock` and `Close` are the statements of
`acquire` and `release`; `Again` is the loop with its time limit; `Unlink` is what `JSONPlanStore.delete_plan` does to
the file without holding it, which Windows refuses while it is open. `Torn` says that a session has a file open that
the name no longer stands for. The refinement holds in every step in which nothing is torn, so always on Windows.

### AccountSession

An access token and its refresh token are one pair, a number; `issued` says whose it is and `live` whether the server
still refreshes it. The client is `mem` (the pair) and `meta` (the metadata with the `user_id`), saved one after the
other by `SignedIn` and `SaveMetadata`. A call walks `Confirm` (the ownership check of `execute_plan_step`), `Due` or
`NotDue` (`get_valid_access_token`), `Rotate`/`Deny` and `Renewed`/`Denied` (`refresh_access_token`), `Send` (the token
is read here, not at the check), `Serve` or `Unknown` and `Serve2` (the fallback without a key), and `Refresh` after a 401.
`stale`, `switched` and `crossed` are history: they name the situations in which the code does mix accounts, so that
`IdentityWhole` and `LandsAtHome` say that there are no others.

### JarvisGraph

`node` is the loop's `current`; `Visit` is its counter, `Raised` the safety wrapper that continues with `replan` when a
node raises. `Execute` has the outcomes of `run_dag` (returns, an agent fails, raises) with what each leaves in the
checkpoint file, which the next plan of the same job finds. `AgentResult` has no `task_id`, so `reflect` (`jarvis.py:419`)
and `replan` (463) raise on every failed result: the job ends without a second attempt, and `max_attempts` is read by
nobody. The only attempts after the first are those after a node that raised, and only the counter bounds them.

### StagePipeline

`Execute` finds assets to reuse or not (and moves the shared `_start_node`) and loads the checkpoint; `Work` is a visit
of a node, with the history written twice by a worker that returns and once by one that raises; `Save` writes the
checkpoint, which names the stage that has just run, or fails; `Route` is the router with `handle_result`. `Crash`
loses everything but the checkpoints and requeues what was running. `wired` says whether `pipeline.supervisor` is set, and
never changes: `AppContext` does not set it (`main.py:106-114`), and then there is no router and `Route` ends the run after
the first node (`End`, `orchestrator.py:380`); the tests do set it. The constant `Wirings` says which of the two an
instance has, and `StagePipeline.cfg` has both.

## 3. Model checking

| Run | Instance | Shows |
|---|---|---|
| `EcosystemRpc` | 3 calls, 1 key or none, a task, another action, a refused and an unsupported payload | `AtMostOnceEffect`, `SuccessIsBacked`, `NoLostTask`; the refinement `ImplementsLedger`; `EveryCallReturns` |
| `PlanSolo` | 1 session, 2 chained steps, 3 keys, 2 crashes, failing saves, edits | `AtMostOncePerStep`, `KeyOnDiskBeforeSend`, `CompletedMeansDone`, `DependencyOrder`, `TheEndIsFinal` |
| `PlanPair` | 2 sessions whose saves succeed, 1 step, 2 keys, 1 crash, an edit | `AtMostOncePerStep` across sessions; `CallsReturn` |
| `PlanPairChain` | 2 sessions, 2 chained steps, 3 keys | violates `AtMostOncePerStep` (below) |
| `PlanLock` | 3 sessions, 4 inodes, 2 attempts each, Windows and Unix | the refinement `ImplementsMutex`; `RefusedOnlyByTheLiving`; `AcquireEnds` |
| `Account` | 2 users of whom 1 has a plan, the window and 1 worker, 3 token pairs, 2 sign-ins at once, restarts | `IdentityWhole`, `LandsAtHome`, `StepOnce` |
| `AccountStrays` | the same with 1 sign-in at a time and no restart | violates `UserIdIsAuthenticated` (below) |
| `RunDag` | a diamond of 4 agents and an unregistered fifth task, 2 threads, 2 throttled tasks, a task of an earlier plan, 3 calls | `DependenciesFirst`, `CheckpointTruthful`, `ReturnMeansDone`, `DeadlockIsReal`, `ResumeSkipsDone`, `RunEnds` |
| `JarvisGraph` | every plan over 3 task ids, the 50 visits of the code | `SuccessIsEarned`, `GraphEnds` |
| `StagePipeline` | 1 job, 3 stages, 2 counted failures, 2 crashes, with the supervisor wired and not | `NoStageSkipped`, `FailsForAReason`, `JobsEnd` |
| `StageUnwired` | 1 job, not wired, no crash | violates `CompletedRanAll` (below) |
| `JobSolo` | 1 job of the queue, paused at any time, and 1 of `JarvisCore.run`, cancelled at any time; 2 threads, 2 constructions, 3 executions, 1 resume or raising write | `OneRunPerQueuedJob`, `BooksAgree`, `OrphansAreDead`, `QueuedFinish` |

`TypeOK` is checked in the first run of each module but `StagePipeline`, where it is only proved.

Why the bounds are enough. Three calls of the RPC are the smallest number with a holder of a lock, a waiter and a
call that comes after both; one key makes all of them meet. Two steps are needed for a dependency and for a stale
copy of one step to be saved with another; two sessions for a stale copy at all; two keys for the second key that
must not be used. Two crashes let a recovery itself be interrupted. Three sessions at the plan lock give a holder of
a deleted file, one of the new file and one that waits; a fourth inode lets a file be deleted again while three are
open. Three token pairs are one of each user and a renewed one, which is what a late answer needs to meet a new
account; two effects are one too many. The diamond has a join and two tasks for two threads; three calls allow a
resume of a resume. A plan over three ids overlaps the plan before it in every way. Three stages have a first, a middle
and a last one (the code has six, all treated alike); the limit of 2 failures instead of the 3 of `config.json` only
shortens the wait, since the history, with its own limit, is kept as it is in the code; two crashes are what
`FailsForAReason` is about. In `JobSolo` two threads are
what it takes to execute a resumed job beside itself, the job of `JarvisCore.run`, which the loop may pick as well, competes for
them, and two constructions give one recovery; the commands to pause and to cancel are not bounded. More jobs than threads are out of reach
there (three jobs and two threads have over ten million states): that `_active` keeps to the capacity is the theorem `CapacityKept`,
and the run only shows it for two jobs.

Deadlock is not checked in the plan, stage and job runs: a plan may be finished or every session be gone, and a
job may be over or its bounds used up. Keys (`PlanSolo`, `PlanPairChain`) are permuted by symmetry; no run with symmetry checks
liveness.

Bounds named in the models: `Keys` and `MaxCrashes` (plans, stages), `MaxCalls` (`RunDag`), `MaxTries` and `Files`
(`PlanLock`), `MaxPairs`, `MaxEffects` (the count saturates), `MaxSignIns` (`AccountSession`), `MaxVisits` (the code's
own limit), `MaxFailures` (the code's own), `MaxBoots`, `MaxRuns` and `MaxTroubles`, the
number of raising writes and resumes together (`JobSupervisor`).

### Fairness

- `EcosystemRpc!FairSpec`: weak fairness of each call's statements. PostgreSQL runs a statement that is not
  blocked, and a blocked one when the lock is free; aborts are not assumed.
- `GoalPlanSessions!FairSpec`: weak fairness of each session inside `execute_plan_step`. The lock, the socket and the
  save all have timeouts (`plan_store.py:120`, `client.py`); nothing is assumed of the user, the server or the network.
- `RunDag!FairSpec`: the loop and the pool's threads run, agents end, and, because the resource gate gives way after
  15 s, a pass that holds nothing back is not put off for ever (strong fairness of `Schedule({})`). If an agent hangs,
  `run_dag` does hang although the task's time limit fails the call, because leaving the `with ThreadPoolExecutor`
  block (`engine/orchestrator.py:113`) waits for every submitted task.
- `JobSupervisor!FairSpec`: the loop polls every second and is not held up by the resource gate for ever, and the
  executions end. `QueuedFinish` is claimed while no write raises, the user does not pause the job
  and the context stays up.
- `PlanLock!FairSpec`: `acquire` goes on; it never waits for anyone, since opening and locking return at once and the
  sleep is 50 ms. Whoever is inside may stay there for ever.
- `JarvisGraph!FairSpec`: every node returns or raises; for `execute` that is `RunEnds` of `RunDag`.
- `StagePipeline!FairSpec`: the thread of each job runs and every worker answers; nothing is assumed about the answers.
- `AccountSession` states no fairness: its properties are about safety.

### What the code does against its own words

- `PlanPairChain`: `skip_plan_step` and `cancel_plan` save the session's whole copy without reading the file
  (`goal_planner.py:833`). In the run session 1 confirms step 1 and dispatches it under a key that is on disk;
  session 2, which resumed the plan before that, skips step 2 and so writes back a step 1 without a key; it then confirms step 1,
  finds no key, draws a new one, and the write of step 1 happens twice. A plan of one step is not safe either:
  a third session that waits for the lock with an old copy draws a new key after the skip erased the first (a skipped step is
  refused before the lock but not under it, `goal_planner.py:703`), and with failing saves two sessions are enough, since the key of a
  confirmation that could not be saved stays in memory and is saved by a later skip. `PlanPair` is the case where it does hold.
- `AccountStrays`: `refresh_access_token` saves its answer without looking at whether the account it asked for is still
  signed in (`client.py:212`). A refresh of alice's that is answered after bob has signed in leaves bob's id with alice's
  tokens; bob's plan passes the ownership check and is written to alice's account.
- `StageUnwired`: the pipeline is "ordered stages from prompt to playable scene" (`pipeline.py:1`), but its supervisor, which
  "will be wired later or passed in" (35), is wired by tests only. In the program there is no router (283), `run` takes `END`
  after the first node (`orchestrator.py:380`), and the job is completed (`supervisor.py:256`) after one stage, even if that failed.

Seen while modelling, and without a run of their own:

- Plans. A plan cancelled or a step skipped by another session between the save and the dispatch still sends its write
  (`goal_planner.py:796`), after the message "Zero further writes performed." (`run_jarvis.py:303`); `TheEndIsFinal` is
  therefore checked for one session.
- Account. A refusal of a late refresh clears the new account's tokens (`client.py:220`); a sign-out between the two saves of
  `sign_in` (167, 175) leaves an id without tokens; a schema cache that does not know the three-argument function makes the
  client send the action without its key (287, 304), so that a step confirmed again after a lost answer is done twice.
- Jobs. Resume queues any row (`core/project_manager.py:541`), and the loop does not look whether it has the job in hand
  already: a job resumed while it runs is executed a second time beside itself, on the same directory and checkpoint. The two share one
  entry in `_active`, which the first to end removes (`supervisor.py:338`), so that the loop takes one job too many. Hence the
  exemption of `resumed` in `OneRunPerQueuedJob` and `ActiveIsInHand`. Pause stops nothing: a job already picked runs on, and
  `Mark` or `Record` overwrites the row. `JarvisCore.run` inserts its job as queued and runs it, and the supervisor may run it too (`jarvis.py:625`). A
  second context requeues the first one's running jobs (`supervisor.py:154`). A cancelled job is overwritten by `Mark` or
  `Record`, since the supervisor never reads the row again (218, 256). A raising write before the try block of `_run_job`
  (252) leaves the row running and the slot taken, which is why two parts of `BooksAgree` speak of behaviours
  without a raising write. The finally block reads a name that is not defined (`status`, 330).
- DAG. When the only ready task has no registered agent, `run_dag` leaves its loop before its dependents run, and returns
  normally (`orchestrator.py:262`). In `RunDag.cfg` the unregistered task has no dependents.
- Graph. A job whose agent fails gets one attempt and the brain is never asked for another plan (`jarvis.py:419`, 463),
  although "max attempts from config" is announced (`supervisor.py:238`); a job whose `run_dag` raises gets up to 25.
  `run_dag`'s checkpoint names tasks by ids which the next plan may use again. The project manager's checkpoint is
  stored under a job id that is new in each run, so it is never found.
- Stages. The history counts a visit twice, so that three returned failures are never reached: a stage is visited at most
  twice in a row before the limit of visits raises, which is why two crashes can fail a job nothing failed in. The
  checkpoint of an aborted job stays. A job that reuses assets moves the orchestrator's `_start_node` (`pipeline.py:287`), which
  is created as `asset_search` (`orchestrator.py:46`) and never moved back: every later job of the process begins with
  `asset_processing`, wired or not, whether or not it has assets. That breaks `CompletedRanAll` with a router as well, once there are
  two jobs; `NoStageSkipped` counts from the stage a job began with.

## 4. Proofs

TLAPS checks the following for every value of the constants, from the modules' named assumptions only
(`RpcAssumption`, `PlanAssumption`, `DagAssumption`, `JobAssumption`, `LockAssumption`, `SessionAssumption`,
`GraphAssumption`, `StageAssumption`: the distinguished values are outside the sets, sets of special tasks or payloads are
subsets, steps depend on earlier ones, and limits and numbers of threads are positive). A few hypotheses go beyond them, each stated
in the theorem that needs it: `OneSession`, `OneContext`, `OneStep`, `TwoSessions`, saves that succeed and, for
`ReturnsWhenAllIsDone`, an agent for every task.

`EcosystemRpcProofs`: `TypeCorrect`, `EffectOncePerKey`, `LedgerTellsTheTruth`, `SuccessNeverLies`, `TasksAreNotLost` and
`RpcImplementsLedger`. `AtMostOnceEffect` is not inductive: nothing in it says who may be about to commit. `KeyInv`
adds `IndexInv`: a call past its INSERT owns its key, and an owned key has no committed row and one owner. Hence
two commits with one key cannot both be ahead. `TasksAreNotLost` needs a second invariant, `RowInv`: a call about to
write the task list holds the row lock, and the list it read is the list there is. The refinement shows that each
statement is a stutter except the one that answers, which is `Settle`, `Replay`, `Unkeyed` or `Fail`; `KeyInv` gives the
guard of `Settle`.

`RunDagProofs`: `TypeCorrect`, `StartsFollowDependencies`, `CheckpointsTellTheTruth`, `TasksRunOncePerCall`,
`ReturnsWhenAllIsDone`, `ResumesSkipWhatIsDone` and `DeadlocksAreReal`, all from one inductive invariant, `Inv`. Its parts: `Truthful` (what is
complete, checkpointed or a successful future did run), `Apart` (a pending task is not running, complete, started or
in a readable checkpoint), `InHand` (futures are in hand only between a poll and the next pass), `Covered` (until the
call gives up, every task is complete, pending or running) and `LeftWhenDone`. `ReturnsWhenAllIsDone` assumes that each
task has a registered agent; without that the loop may be left early, as described above. For `DeadlocksAreReal` a task that
can never run is a member of a set of unfinished tasks each of which needs another member or an id nobody will ever complete,
which also covers graphs with cycles; the pending tasks of a deadlock are such a set, by `Covered`.

`GoalPlanSessionsProofs` has two invariants. `Honest` holds for any number of sessions: keys are of one step each
(`KeysApart`), the calls of a session and what is in flight are in the order of its phases (`CallsInOrder`), the ledger and the
answers tell what was done (`LedgerHonest`, `AnswersHonest`), and `CompletedMeansDone`, which is not inductive
without them: an answer that will be recorded must already be backed by an effect. It gives `TypeCorrect` and `CompletedIsDone`. `Solo` holds
with one session (`OneSession`) and adds that its copy has every key the file has and agrees on what is finished (`CopyFollowsFile`), that
what leaves was saved first (`SavedFirst`, `KeyOnDiskBeforeSend`), that a step with a live or finished request had its dependencies met (`WaitedFor`) and that an
effect was asked for under the file's key (`EffectsAsked`). It gives `KeyIsOnDisk`, `WrittenAtMostOnce`, `DependenciesFirst` and
`EndsAreFinal`. One session is the hypothesis of `PlanSolo`, and no weaker one will do for any number of steps: `PlanPairChain` refutes
`AtMostOncePerStep` for two sessions, and the remarks above refute `TheEndIsFinal`. The session may crash and resume at
any step, so that the proofs are about recovery as well.

Two theorems say how far several sessions can go with a plan of one step (`OneStep`). `WrittenOnceByTwo`, under the
hypotheses of `PlanPair` (`TwoSessions`, `~DiskMayFail`) and with every operation allowed: there is never a second key for the step. Its
invariant, `Paired`, says that once a key is known the file has it or says the step is over (`FileTells`), that a copy
which lacks the key and could still be confirmed is the only copy without it (`OneOpen`; a skip saved over the file
makes that very copy final), and that a key is drawn under the lock only when there is none (`DrawsFirst`).
`WrittenOnceByConfirming` drops the bound on sessions and lets saves fail, but its `CarefulSpec` leaves out `Skip` and
`Cancel`: the file's key is then taken over under the lock and never replaced (`SaveHasFileKey`, `CallHasFileKey`), and
`KeyOnDiskBeforeSend` holds as well. So the takeover protocol is right for one step, and the two operations that save a copy
they did not compare with the file are all that defeats it. TLC refutes `WrittenOnceByTwo` with three
sessions and with failing saves, as described in section 3.

`AccountSessionProofs`: `TypeCorrect`, `IdentityIsWhole`, `DoneOnce` and `StepsLandAtHome` from one invariant, `Whole`, for any
users, workers, token pairs and sign-ins, with or without restarts. `SameAccount` says that the pair in memory, the
metadata and whoever is refreshing belong to one account, unless a sign-in is between its two saves or something has crossed; `OwnersTokens` that the window works for
its plan's owner unless the account was switched; `KeyedOnce` that a done step with a key is in the server's ledger, which is why a
retry after a lost answer adds nothing.

`JobSupervisorProofs` also has two invariants. `Shared` holds for any number of contexts on the database and gives `TypeCorrect`,
`CompletedHasWorked` (with `WorkedFirst`: an execution that has returned has its job in `worked`) and `CapacityKept` (with `Room`: a job that has been
picked has its place, since only the loop adds to `_active`). `Alone` holds with one context (`OneContext`), which stops, dies and
boots again at any step, and gives `QueuedJobRunsOnce`, `TheBooksAgree` and `RequeuedIsDead`. `OneRunPerQueuedJob` is not inductive:
`TakenOnce` adds that a job in the pool or marked by the tick, unless it is in `resumed`, is neither queued nor in the pool a second time. That in turn needs `Down` and
`OrphansFound` - a context that is not running executes nothing, and requeues only what its predecessor left - which are false as
soon as two contexts share the database. `RunningInHand` and `ActiveHeld` are `BooksAgree` in a form that each step keeps; `ActiveHeld`, too, exempts what was
resumed in hand. So Resume is the only way in which one context executes a job of the queue twice at once.

`PlanLockProofs`: `LockTypeCorrect`, `WindowsNeverTorn`, `OneHolderHolds`, `RefusedOnlyByTheLivingHolds` and
`LockImplementsMutex`, from `LockInv`: whoever is inside owns the file it has open, a file is owned only by a session that
has it open and is inside or leaving (`KernelInv`), and on Windows an open file keeps its name (`NameInv`). Mutual
exclusion is not inductive without the first two: they are what makes a successful `flock` mean that nobody else is in.
The refinement maps `Lock` to `Grant`, `Unlock` to `Leave`, a last refused attempt and a death to `GiveUp` or `Leave`, and all else to a
stutter.

`JarvisGraphProofs`: `GraphTypeCorrect` and `SuccessIsAlwaysEarned`, from `Inv`: the checkpoint lists only ids that ran
(`CheckpointTruthful`), nothing is saved or reported before the pipeline state is there (`NothingUnprepared`), good results
belong to the plan in hand (`ResultsAreFresh`), and attempts are visits (`AttemptsAreVisits`, for the types).

`StagePipelineProofs`: `StageTypeCorrect` and `NoStageIsSkipped` from `SkipInv`, and `FailuresHaveReasons` from `CountInv`.
`SkipInv` adds to the property that a checkpoint never names a stage with one before it undone, which is what a resume
relies on (for a wired pipeline and for one without a router alike: only the claim about a job that has returned is made for the wired one), and
that a job still trying has failures to spare, which keeps the counters in their range. `CountInv`
bounds the history of a job without trouble: two entries per stage and life of the process, none yet in this life for
the stages ahead. A limit of more than three is therefore reached after two deaths and not before.

The invariants were checked by TLC on the instances of section 3 before they were proved.

Only model-checked: the liveness properties `EveryCallReturns`, `CallsReturn`, `AcquireEnds`, `RunEnds`, `GraphEnds`, `JobsEnd` and
`QueuedFinish` (liveness under fairness and ENABLED are beyond the prover). Every other property of a passing run is a theorem. `LedgerMatchesEffects`, `OncePerCall`, `OneHolder`, `NeverTornOnWindows` and
`TypeOK` of `StagePipeline` are proved and in no run.

## 5. Not modelled

The planner's read steps, activity feed entries and rows from before migration 012; the plan's archive and quarantine;
failing writes of the credential store; task priorities and event publishing in `run_dag`; the loop of
`Pipeline.execute` for an orchestrator mode other than graph (303-489), which nothing selects, and the parallel downloads of its search
node; `JarvisCore`'s loop without agent tasks and a coordinator without orchestrator, which returns an empty list
(a success with nothing run) and which only tests build; what an agent, a worker or a stage does; interpreters, memories, windows and the HTTP layer except
where their calls are actions. The persistent task queue is enqueued to and dequeued from by tests only: the program
lists it and counts its running rows. `src/PyFlare` (build scripts of a Linux distribution), `src/langgraph-main` (a vendored library) and the
documents hold no protocol of this program. `PROJECT.json` gives the reason for each component.

## 6. Plan

Done, in this order because a repeated or lost write is the worst this program can do: the RPC and its ledger, plan
sessions, the DAG executor, the job supervisor; then what these take for granted or treat as opaque: the plan lock, the
account, the state graph and the stages; the proofs of all eight.

Next theorems: for several contexts, that a job is picked twice only after a recovery or a cancellation by someone else.

Next modules, if a run is free: `TaskQueue` (pause, resume, retry, dependencies; a paused task that is resumed while its worker
runs it is handed out a second time), and the token banker, whose check before a request and count after it are apart.
