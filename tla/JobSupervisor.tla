---------------------------- MODULE JobSupervisor ----------------------------
(***************************************************************************)
(* The life of a job: a row of the jobs table, moved by the Supervisor     *)
(* (core/supervisor.py) of every AppContext that has the database open -   *)
(* the API server, a desktop window, a script - and by the user.           *)
(*                                                                         *)
(* A context boots (requeueing what it takes for orphans), runs a loop     *)
(* that picks the oldest queued job and hands it to a thread pool, and is  *)
(* stopped or dies.  JarvisCore.run, behind POST /jarvis/run, inserts a    *)
(* job and runs it in the calling thread.  The Job Queue of the desktop    *)
(* has a Pause, a Resume and a Cancel button for every row.  Each SQL      *)
(* statement commits on its own (db.py), so all of them interleave         *)
(* between statements.                                                     *)
(*                                                                         *)
(* The pipeline is opaque: it returns or raises.                           *)
(***************************************************************************)
EXTENDS FiniteSets, Naturals

CONSTANTS
    Jobs,
    Contexts,       \* AppContexts that share the database file
    MaxConcurrent,  \* max_concurrent_jobs
    Direct,         \* jobs that come in through JarvisCore.run
    Cancellable,    \* jobs the user may cancel
    Pausable,       \* jobs the user may pause and resume
    MaxBoots,       \* bound on constructions of a context
    MaxRuns,        \* bound on executions of the pipeline
    MaxTroubles,    \* bound on writes that raise (sqlite3: database is locked) and resumes
    NoJob, NoRun    \* nobody, for what is in hand

RunIds == 1..MaxRuns

(* Where an execution is: waiting in the pool, running the pipeline, with  *)
(* the pipeline's return or exception in hand, writing the events and the  *)
(* memory of a success, in its finally block, or over.                     *)
Stages == {"pooled", "working", "returned", "raised", "recording", "closing", "gone"}

RunRecord == [ctx : Contexts, job : Jobs, direct : BOOLEAN, at : Stages]

ASSUME JobAssumption ==
    /\ Direct \subseteq Jobs /\ Cancellable \subseteq Jobs /\ Pausable \subseteq Jobs
    /\ NoJob \notin Jobs
    /\ MaxConcurrent \in Nat \ {0} /\ MaxBoots \in Nat /\ MaxRuns \in Nat /\ MaxTroubles \in Nat
    /\ NoRun \notin RunRecord

VARIABLES
    status,    \* jobs.status, or "none" before the INSERT
    born,      \* jobs.created_at: the jobs inserted before it
    ctx,       \* what each AppContext is doing
    orphans,   \* jobs _recover_orphans found running and has not requeued yet
    tick,      \* where _tick is, and with which job
    active,    \* _active of each Supervisor
    run,       \* the executions of the pipeline, in the order of their start
    boots,     \* contexts constructed so far
    faults,    \* writes that raised so far
    resumes,   \* commands to resume so far
    worked,    \* history: jobs whose pipeline has returned
    resumed    \* history: jobs the user resumed while they were in hand

vars == <<status, born, ctx, orphans, tick, active, run, boots, faults, resumes, worked, resumed>>

Runs == {n \in RunIds : run[n] # NoRun}

TypeOK ==
    /\ status \in [Jobs -> {"none", "queued", "running", "paused", "completed", "failed"}]
    /\ born \in [Jobs -> SUBSET Jobs]
    /\ ctx \in [Contexts -> {"off", "recovering", "up", "stopping"}]
    /\ orphans \in [Contexts -> SUBSET Jobs]
    /\ tick \in [Contexts -> [at : {"idle", "picked", "marked"}, job : Jobs \cup {NoJob}]]
    /\ active \in [Contexts -> SUBSET Jobs]
    /\ run \in [RunIds -> RunRecord \cup {NoRun}]
    /\ \A m, n \in RunIds : m < n /\ n \in Runs => m \in Runs
    /\ boots \in 0..MaxBoots
    /\ faults \in 0..MaxTroubles
    /\ resumes \in 0..MaxTroubles
    /\ worked \subseteq Jobs
    /\ resumed \subseteq Jobs

Idle == [at |-> "idle", job |-> NoJob]

Init ==
    /\ status = [j \in Jobs |-> "none"]
    /\ born = [j \in Jobs |-> {}]
    /\ ctx = [c \in Contexts |-> "off"]
    /\ orphans = [c \in Contexts |-> {}]
    /\ tick = [c \in Contexts |-> Idle]
    /\ active = [c \in Contexts |-> {}]
    /\ run = [n \in RunIds |-> NoRun]
    /\ boots = 0 /\ faults = 0 /\ resumes = 0
    /\ worked = {} /\ resumed = {}

-----------------------------------------------------------------------------
SetStatus(j, s) == status' = [status EXCEPT ![j] = s]
SetTick(c, t) == tick' = [tick EXCEPT ![c] = t]
SetCtx(c, p) == ctx' = [ctx EXCEPT ![c] = p]
Activate(c, j) == active' = [active EXCEPT ![c] = @ \cup {j}]
Deactivate(c, j) == active' = [active EXCEPT ![c] = @ \ {j}]

(* One more write raises.                                                  *)
Fault == faults + resumes < MaxTroubles /\ faults' = faults + 1

(* INSERT INTO jobs, status 'queued'.                                      *)
Insert(j) ==
    /\ status[j] = "none"
    /\ SetStatus(j, "queued")
    /\ born' = [born EXCEPT ![j] = {i \in Jobs : status[i] # "none"}]

NewRun(r) ==
    /\ Cardinality(Runs) < MaxRuns
    /\ run' = [run EXCEPT ![Cardinality(Runs) + 1] = r]

ToPool(c, j) == NewRun([ctx |-> c, job |-> j, direct |-> FALSE, at |-> "pooled"])

(* Supervisor.submit.                                                      *)
Submit(c, j) ==
    /\ ctx[c] = "up"
    /\ j \notin Direct
    /\ Insert(j)
    /\ UNCHANGED <<ctx, orphans, tick, active, run, boots, faults, resumes, worked, resumed>>

(* JarvisCore.run: the job is inserted as queued, and run at once, unless  *)
(* the event written in between raises.                                    *)
RunDirect(c, j) ==
    /\ ctx[c] = "up"
    /\ j \in Direct
    /\ Insert(j)
    /\ \/ NewRun([ctx |-> c, job |-> j, direct |-> TRUE, at |-> "working"]) /\ UNCHANGED faults
       \/ Fault /\ UNCHANGED run
    /\ UNCHANGED <<ctx, orphans, tick, active, boots, resumes, worked, resumed>>

Live(n) == run[n].at # "gone"

InHand(j) ==
    \/ \E n \in Runs : Live(n) /\ run[n].job = j
    \/ \E c \in Contexts : tick[c] = [at |-> "marked", job |-> j]

(* The buttons of a row in the Job Queue of a window, which has a context. *)
(* None of them looks at what the job is doing.                            *)
Shown(j) == status[j] # "none" /\ \E c \in Contexts : ctx[c] = "up"

(* AppState.pause_job, ProjectManager.pause_project.                       *)
PauseJob(j) ==
    /\ j \in Pausable /\ Shown(j)
    /\ SetStatus(j, "paused")
    /\ UNCHANGED <<born, ctx, orphans, tick, active, run, boots, faults, resumes, worked, resumed>>

(* AppState.resume_job, ProjectManager.resume_project: also a job that was *)
(* not paused, and one that is being executed, is queued.                  *)
ResumeJob(j) ==
    /\ j \in Pausable /\ Shown(j)
    /\ faults + resumes < MaxTroubles /\ resumes' = resumes + 1
    /\ SetStatus(j, "queued")
    /\ resumed' = IF InHand(j) THEN resumed \cup {j} ELSE resumed
    /\ UNCHANGED <<born, ctx, orphans, tick, active, run, boots, faults, worked>>

(* AppState.cancel_job.                                                    *)
CancelJob(j) ==
    /\ j \in Cancellable /\ Shown(j)
    /\ SetStatus(j, "failed")
    /\ UNCHANGED <<born, ctx, orphans, tick, active, run, boots, faults, resumes, worked, resumed>>

-----------------------------------------------------------------------------
(* Supervisor.__init__ lists the jobs that are running (among the newest   *)
(* thousand rows, taken to be all) ...                                     *)
Boot(c) ==
    /\ ctx[c] = "off" /\ boots < MaxBoots
    /\ boots' = boots + 1
    /\ orphans' = [orphans EXCEPT ![c] = {j \in Jobs : status[j] = "running"}]
    /\ SetCtx(c, "recovering")
    /\ UNCHANGED <<status, born, tick, active, run, faults, resumes, worked, resumed>>

(* ... and sets each of them to queued.                                    *)
Requeue(c, j) ==
    /\ ctx[c] = "recovering" /\ j \in orphans[c]
    /\ SetStatus(j, "queued")
    /\ orphans' = [orphans EXCEPT ![c] = @ \ {j}]
    /\ UNCHANGED <<born, ctx, tick, active, run, boots, faults, resumes, worked, resumed>>

(* start: the loop runs.                                                   *)
Start(c) ==
    /\ ctx[c] = "recovering" /\ orphans[c] = {}
    /\ SetCtx(c, "up")
    /\ UNCHANGED <<status, born, orphans, tick, active, run, boots, faults, resumes, worked, resumed>>

Queued == {j \in Jobs : status[j] = "queued"}

(* _tick: room for one more, resources permitting, and the oldest queued   *)
(* job.  Planning follows, which takes time and writes no row of jobs.     *)
Pick(c) ==
    /\ ctx[c] = "up"
    /\ tick[c] = Idle
    /\ Cardinality(active[c]) < MaxConcurrent
    /\ \E j \in Queued :
        /\ Queued \cap born[j] = {}
        /\ SetTick(c, [at |-> "picked", job |-> j])
    /\ UNCHANGED <<status, born, ctx, orphans, active, run, boots, faults, resumes, worked, resumed>>

(* The job becomes active and its row running.  If the UPDATE raises, the  *)
(* tick is over and the job stays active.                                  *)
Mark(c) ==
    LET j == tick[c].job IN
    /\ tick[c].at = "picked"
    /\ Activate(c, j)
    /\ \/ /\ SetStatus(j, "running") /\ SetTick(c, [tick[c] EXCEPT !.at = "marked"])
          /\ UNCHANGED faults
       \/ Fault /\ SetTick(c, Idle) /\ UNCHANGED status
    /\ UNCHANGED <<born, ctx, orphans, run, boots, resumes, worked, resumed>>

(* Mutant of Hand: a job the pool refuses is not requeued.                 *)
HandOrDrop(c) ==
    LET j == tick[c].job IN
    /\ tick[c].at = "marked"
    /\ SetTick(c, Idle)
    /\ IF ctx[c] = "up" THEN ToPool(c, j) /\ UNCHANGED <<status, active>>
       ELSE /\ Deactivate(c, j)
            /\ UNCHANGED <<status, run>>
    /\ UNCHANGED <<born, ctx, orphans, boots, faults, resumes, worked, resumed>>

(* The pool takes the job, unless it is shut down: then the job is queued  *)
(* again (if that UPDATE raises, the job stays active and its row running).*)
Hand(c) ==
    LET j == tick[c].job IN
    /\ tick[c].at = "marked"
    /\ SetTick(c, Idle)
    /\ IF ctx[c] = "up" THEN ToPool(c, j) /\ UNCHANGED <<status, active, faults>>
       ELSE /\ \/ SetStatus(j, "queued") /\ Deactivate(c, j) /\ UNCHANGED faults
               \/ Fault /\ UNCHANGED <<status, active>>
            /\ UNCHANGED run
    /\ UNCHANGED <<born, ctx, orphans, boots, resumes, worked, resumed>>

-----------------------------------------------------------------------------
RunTo(n, at) == run' = [run EXCEPT ![n].at = at]

(* A thread of the pool takes the run and counts the attempt; if that      *)
(* UPDATE raises, nothing of _run_job happens.                             *)
Begin(n) ==
    /\ run[n].at = "pooled"
    /\ Cardinality({m \in Runs : /\ run[m].ctx = run[n].ctx /\ ~run[m].direct
                                /\ run[m].at \notin {"pooled", "gone"}}) < MaxConcurrent
    /\ \/ RunTo(n, "working") /\ UNCHANGED faults
       \/ RunTo(n, "gone") /\ Fault
    /\ UNCHANGED <<status, born, ctx, orphans, tick, active, boots, resumes, worked, resumed>>

(* pipeline.execute returns, or raises.                                    *)
Work(n) ==
    /\ run[n].at = "working"
    /\ \/ RunTo(n, "returned") /\ worked' = worked \cup {run[n].job}
       \/ RunTo(n, "raised") /\ UNCHANGED worked
    /\ UNCHANGED <<status, born, ctx, orphans, tick, active, boots, faults, resumes, resumed>>

(* Mutant of Record: the row gets the stage of a finished job, not the     *)
(* status.                                                                 *)
RecordDone(n) ==
    /\ run[n].at = "returned"
    /\ SetStatus(run[n].job, "done") /\ RunTo(n, "recording")
    /\ UNCHANGED <<born, ctx, orphans, tick, active, boots, faults, resumes, worked, resumed>>

(* Mutant of Record: the row of a failed job is left as it is.             *)
RecordSuccess(n) ==
    /\ \/ /\ run[n].at = "returned"
          /\ SetStatus(run[n].job, "completed") /\ RunTo(n, "recording")
       \/ run[n].at = "raised" /\ RunTo(n, "closing") /\ UNCHANGED status
    /\ UNCHANGED <<born, ctx, orphans, tick, active, boots, faults, resumes, worked, resumed>>

(* The row becomes completed or failed.  An UPDATE to completed that       *)
(* raises is treated as a failure of the job; one to failed that raises    *)
(* leaves the row running.                                                 *)
Record(n) ==
    /\ \/ /\ run[n].at = "returned"
          /\ \/ /\ SetStatus(run[n].job, "completed") /\ RunTo(n, "recording")
                /\ UNCHANGED faults
             \/ Fault /\ RunTo(n, "raised") /\ UNCHANGED status
       \/ /\ run[n].at = "raised"
          /\ RunTo(n, "closing")
          /\ \/ SetStatus(run[n].job, "failed") /\ UNCHANGED faults
             \/ Fault /\ UNCHANGED status
    /\ UNCHANGED <<born, ctx, orphans, tick, active, boots, resumes, worked, resumed>>

(* The event and the memory of the success, inside the same try: if they   *)
(* raise, the completed job is made a failed one.                          *)
Remember(n) ==
    /\ run[n].at = "recording"
    /\ \/ RunTo(n, "closing") /\ UNCHANGED faults
       \/ RunTo(n, "raised") /\ Fault
    /\ UNCHANGED <<status, born, ctx, orphans, tick, active, boots, resumes, worked, resumed>>

(* finally: the job is no longer active.                                   *)
Close(n) ==
    /\ run[n].at = "closing"
    /\ RunTo(n, "gone")
    /\ IF run[n].direct THEN UNCHANGED active ELSE Deactivate(run[n].ctx, run[n].job)
    /\ UNCHANGED <<status, born, ctx, orphans, tick, boots, faults, resumes, worked, resumed>>

-----------------------------------------------------------------------------
(* stop: the loop picks no more jobs and the pool takes no more.           *)
Stop(c) ==
    /\ ctx[c] = "up"
    /\ SetCtx(c, "stopping")
    /\ UNCHANGED <<status, born, orphans, tick, active, run, boots, faults, resumes, worked, resumed>>

(* The executions of a process that is no more.                            *)
Perish(c) ==
    run' = [n \in RunIds |-> IF n \in Runs /\ run[n].ctx = c
                             THEN [run[n] EXCEPT !.at = "gone"] ELSE run[n]]

(* Mutant of Stopped: the pool is not waited for.                          *)
StoppedAtOnce(c) ==
    /\ ctx[c] = "stopping"
    /\ SetCtx(c, "off")
    /\ SetTick(c, Idle)
    /\ active' = [active EXCEPT ![c] = {}]
    /\ UNCHANGED <<status, born, orphans, run, boots, faults, resumes, worked, resumed>>

(* Everything the pool had has run.  The loop is waited for five seconds:  *)
(* a tick that is still planning is cut off with the database, and so are  *)
(* the executions of JarvisCore.run, which nobody waits for.               *)
Stopped(c) ==
    /\ ctx[c] = "stopping"
    /\ \A n \in Runs : run[n].ctx = c /\ ~run[n].direct => ~Live(n)
    /\ SetCtx(c, "off")
    /\ SetTick(c, Idle)
    /\ active' = [active EXCEPT ![c] = {}]
    /\ Perish(c)
    /\ UNCHANGED <<status, born, orphans, boots, faults, resumes, worked, resumed>>

(* The process dies; only the rows remain.                                 *)
Crash(c) ==
    /\ ctx[c] # "off"
    /\ SetCtx(c, "off")
    /\ orphans' = [orphans EXCEPT ![c] = {}]
    /\ SetTick(c, Idle)
    /\ active' = [active EXCEPT ![c] = {}]
    /\ Perish(c)
    /\ UNCHANGED <<status, born, boots, faults, resumes, worked, resumed>>

-----------------------------------------------------------------------------
Loop(c) == Pick(c) \/ Mark(c) \/ Hand(c)

Execute(n) == Begin(n) \/ Work(n) \/ Record(n) \/ Remember(n) \/ Close(n)

User(j) ==
    \/ PauseJob(j) \/ ResumeJob(j) \/ CancelJob(j)
    \/ \E c \in Contexts : Submit(c, j) \/ RunDirect(c, j)

Next ==
    \/ \E j \in Jobs : User(j)
    \/ \E c \in Contexts :
        \/ Boot(c) \/ (\E j \in Jobs : Requeue(c, j)) \/ Start(c)
        \/ Loop(c)
        \/ Stop(c) \/ Stopped(c) \/ Crash(c)
    \/ \E n \in Runs : Execute(n)

Spec == Init /\ [][Next]_vars

(* The loop polls every second while the machine is not overloaded for     *)
(* ever, pool threads run, and the pipeline comes to an end.               *)
FairSpec ==
    /\ Spec
    /\ \A c \in Contexts : WF_vars(Loop(c))
    /\ \A n \in RunIds : WF_vars(n \in Runs /\ Execute(n))

-----------------------------------------------------------------------------
(* "It dispatches the job once": a job that came in through the queue      *)
(* never has two executions under way, which would share its project       *)
(* directory, its checkpoint and its row - unless the user resumed it when *)
(* it was in hand, which the loop does not notice.  (A job of              *)
(* JarvisCore.run may, too: its row is queued while the calling thread     *)
(* already runs it.)                                                       *)
OneRunPerQueuedJob ==
    \A m, n \in Runs : Live(m) /\ Live(n) /\ run[m].job = run[n].job =>
        m = n \/ run[m].job \in Direct \cup resumed

(* "... records the outcome, and returns": unless a write raised, while a  *)
(* context is up or stopping, a row that says running stands for an        *)
(* execution some context has in hand, so no job hangs in running.         *)
RunningIsHeld ==
    faults = 0 /\ (\E c \in Contexts : ctx[c] \in {"up", "stopping"}) =>
        \A j \in Jobs : status[j] = "running" => InHand(j)

(* What a context has in hand, the executions of JarvisCore.run aside.     *)
HeldBy(c) ==
    {run[n].job : n \in {m \in Runs : Live(m) /\ run[m].ctx = c /\ ~run[m].direct}}
    \cup {j \in Jobs : tick[c] = [at |-> "marked", job |-> j]}

(* _active never exceeds the capacity.  Unless a write raised, it holds    *)
(* only jobs in hand, and all of them but those the user resumed when they *)
(* were in hand: two executions of one job share an entry, and the first   *)
(* to end removes it.                                                      *)
ActiveIsInHand ==
    \A c \in Contexts :
        /\ Cardinality(active[c]) <= MaxConcurrent
        /\ faults = 0 => active[c] \subseteq HeldBy(c) /\ HeldBy(c) \subseteq active[c] \cup resumed

(* The three accounts of what is being done agree: the rows, _active and   *)
(* the executions.  And a row says completed only if the job's pipeline    *)
(* did return, whatever raised and whatever ran twice.                     *)
BooksAgree ==
    /\ RunningIsHeld
    /\ ActiveIsInHand
    /\ \A j \in Jobs : status[j] = "completed" => j \in worked

(* Every queued job is finished in the end, unless the user pauses it, its *)
(* context goes or a write raises.  (The instance has to have an execution *)
(* left to start.)                                                         *)
QueuedFinish ==
    \A j \in Jobs :
        status[j] = "queued" /\ (\E c \in Contexts : ctx[c] = "up")
            ~> \/ status[j] \in {"completed", "failed", "paused"}
               \/ faults > 0 \/ (\A c \in Contexts : ctx[c] # "up")
               \/ Cardinality(Runs) = MaxRuns

(* "recover any jobs left 'running' from a previous crash": what is        *)
(* requeued at the start of a context is not being executed by anyone.     *)
OrphansAreDead ==
    [][\A c \in Contexts : \A j \in orphans[c] \ orphans'[c] :
          ctx'[c] # "off" => \A n \in Runs : run[n].job = j => ~Live(n)]_vars
=============================================================================
