------------------------- MODULE JobSupervisorProofs -------------------------
(***************************************************************************)
(* Proofs about JobSupervisor, for any number of jobs, pool threads,       *)
(* executions, boots, failed writes and presses of Pause, Resume and       *)
(* Cancel.  Types, the capacity and that a completed job has worked hold   *)
(* for any number of contexts on the database (invariant Shared).  That a  *)
(* queued job is executed once, that rows, _active and executions agree    *)
(* and that only dead jobs are requeued hold for one context, which may be *)
(* stopped, die and boot again (invariant Alone): two contexts requeue and *)
(* pick each other's jobs.  What Alone says of taking a job once leaves    *)
(* out the jobs the user resumed when they were in hand.                   *)
(***************************************************************************)
EXTENDS JobSupervisor, FiniteSetTheorems, TLAPS

(* The executions are numbered in the order of their start, and a tick     *)
(* that has begun has a job.                                               *)
InOrder ==
    /\ \E k \in 0..MaxRuns : Runs = 1..k
    /\ \A c \in Contexts : tick[c].at # "idle" => tick[c].job \in Jobs

(* An execution the thread pool has.                                       *)
Pooled(n) == Live(n) /\ ~run[n].direct

(* A row says completed only if the pipeline of its job has returned.      *)
WorkedFirst ==
    /\ \A n \in Runs : run[n].at = "returned" => run[n].job \in worked
    /\ \A j \in Jobs : status[j] = "completed" => j \in worked

(* There is room for the job that has been picked.                         *)
Room ==
    \A c \in Contexts :
        /\ IsFiniteSet(active[c])
        /\ Cardinality(active[c]) <= MaxConcurrent
        /\ tick[c].at = "picked" => Cardinality(active[c]) < MaxConcurrent

Shared == TypeOK /\ InOrder /\ WorkedFirst /\ Room

(* One context: when it is not running, nothing is being executed.         *)
Down ==
    \A c \in Contexts : ctx[c] \in {"off", "recovering"} =>
        tick[c] = Idle /\ active[c] = {} /\ \A n \in Runs : ~Live(n)

(* One context: what it still has to requeue at its start is all that the  *)
(* rows call running.                                                      *)
OrphansFound ==
    \A c \in Contexts :
        /\ ctx[c] # "recovering" => orphans[c] = {}
        /\ ctx[c] = "recovering" => \A j \in Jobs : status[j] = "running" => j \in orphans[c]

(* One context: a job that was taken from the queue is not in it, and was  *)
(* taken once, unless the user resumed it when it was in hand.             *)
Once(n) == Pooled(n) /\ run[n].job \notin resumed

TakenOnce ==
    /\ \A n \in Runs : Once(n) => status[run[n].job] \notin {"none", "queued"}
    /\ \A m, n \in Runs : Once(m) /\ Once(n) /\ run[m].job = run[n].job => m = n
    /\ \A c \in Contexts : tick[c].at # "idle" =>
           \A n \in Runs : Once(n) => run[n].job # tick[c].job
    /\ \A c \in Contexts : tick[c].at = "marked" /\ tick[c].job \notin resumed =>
           status[tick[c].job] \notin {"none", "queued"}
    /\ \A n \in Runs : run[n].direct => run[n].job \in Direct

(* One context: unless a write raised, a row that says running stands for  *)
(* an execution whose outcome is not recorded yet.                         *)
Unrecorded(n) == run[n].at \in {"pooled", "working", "returned", "raised"}

RunningInHand ==
    faults = 0 =>
        \A c \in Contexts : ctx[c] \in {"up", "stopping"} =>
            \A j \in Jobs : status[j] = "running" =>
                \/ \E n \in Runs : Unrecorded(n) /\ run[n].job = j
                \/ tick[c] = [at |-> "marked", job |-> j]

(* One context: unless a write raised, _active holds only jobs in hand,    *)
(* and all those the user did not resume when they were.                   *)
Holds(c, j) ==
    \/ \E n \in Runs : Pooled(n) /\ run[n].job = j
    \/ tick[c] = [at |-> "marked", job |-> j]

ActiveHeld ==
    faults = 0 =>
        \A c \in Contexts : \A j \in Jobs :
            /\ j \in active[c] => Holds(c, j)
            /\ Holds(c, j) /\ j \notin resumed => j \in active[c]

Alone == Shared /\ Down /\ OrphansFound /\ TakenOnce /\ RunningInHand /\ ActiveHeld

-----------------------------------------------------------------------------
(* TypeOK, part by part.                                                   *)
RowsTyped ==
    /\ status \in [Jobs -> {"none", "queued", "running", "paused", "completed", "failed"}]
    /\ born \in [Jobs -> SUBSET Jobs]
    /\ worked \subseteq Jobs /\ resumed \subseteq Jobs

ContextsTyped ==
    /\ ctx \in [Contexts -> {"off", "recovering", "up", "stopping"}]
    /\ orphans \in [Contexts -> SUBSET Jobs]
    /\ tick \in [Contexts -> [at : {"idle", "picked", "marked"}, job : Jobs \cup {NoJob}]]
    /\ active \in [Contexts -> SUBSET Jobs]

RunsTyped ==
    /\ run \in [RunIds -> RunRecord \cup {NoRun}]
    /\ \A m, n \in RunIds : m < n /\ n \in Runs => m \in Runs

CountsTyped == boots \in 0..MaxBoots /\ faults \in 0..MaxTroubles /\ resumes \in 0..MaxTroubles

LEMMA TypeParts == TypeOK <=> RowsTyped /\ ContextsTyped /\ RunsTyped /\ CountsTyped
BY DEF TypeOK, RowsTyped, ContextsTyped, RunsTyped, CountsTyped

(* A new execution is the next one.                                        *)
LEMMA NewRunGives ==
    ASSUME RunsTyped, InOrder, NEW r \in RunRecord, NewRun(r)
    PROVE  \E x \in RunIds :
               /\ x \notin Runs /\ Runs' = Runs \cup {x}
               /\ run'[x] = r /\ \A n \in Runs : run'[n] = run[n]
               /\ \E k \in 0..MaxRuns : Runs' = 1..k
               /\ RunsTyped'
<1> USE JobAssumption
<1>1. PICK k \in 0..MaxRuns : Runs = 1..k
  BY DEF InOrder
<1>2. Cardinality(Runs) = k
  <2>1. k \in Int /\ 1 \in Int
    OBVIOUS
  <2> QED BY <1>1, <2>1, FS_Interval
<1> DEFINE x == k + 1
<1>3. x \in RunIds /\ x \notin Runs
  <2>1. k < MaxRuns
    BY <1>2 DEF NewRun
  <2> QED BY <1>1, <2>1 DEF RunIds
<1>4. run' = [run EXCEPT ![x] = r]
  BY <1>2 DEF NewRun
<1>5. run' \in [RunIds -> RunRecord \cup {NoRun}]
  BY <1>3, <1>4 DEF RunsTyped
<1>6. Runs' = Runs \cup {x}
  BY <1>3, <1>4 DEF Runs, RunsTyped
<1>7. Runs' = 1..x /\ x \in 0..MaxRuns
  BY <1>1, <1>3, <1>6 DEF RunIds
<1>8. RunsTyped'
  BY <1>5, <1>7 DEF RunsTyped, RunIds
<1>9. run'[x] = r /\ \A n \in Runs : run'[n] = run[n]
  BY <1>3, <1>4 DEF RunsTyped, Runs
<1> HIDE DEF x
<1> QED BY <1>3, <1>6, <1>7, <1>8, <1>9

(* An execution moves on.                                                  *)
LEMMA RunToGives ==
    ASSUME RunsTyped, NEW n \in Runs, NEW at \in Stages, RunTo(n, at)
    PROVE  /\ RunsTyped' /\ Runs' = Runs
           /\ run'[n].at = at
           /\ run'[n].ctx = run[n].ctx /\ run'[n].job = run[n].job /\ run'[n].direct = run[n].direct
           /\ \A m \in Runs : m # n => run'[m] = run[m]
<1> USE JobAssumption
<1>1. n \in RunIds /\ run[n] \in RunRecord
  BY DEF Runs, RunsTyped
<1> DEFINE r == [run[n] EXCEPT !.at = at]
<1>2. r \in RunRecord /\ r.at = at /\ r.ctx = run[n].ctx /\ r.job = run[n].job /\ r.direct = run[n].direct
  BY <1>1 DEF RunRecord
<1>3. run' = [run EXCEPT ![n] = r]
  BY DEF RunTo
<1> HIDE DEF r
<1>4. run'[n] = r /\ \A m \in RunIds : m # n => run'[m] = run[m]
  BY <1>1, <1>3 DEF RunsTyped
<1>5. run' \in [RunIds -> RunRecord \cup {NoRun}]
  BY <1>1, <1>2, <1>3 DEF RunsTyped
<1>6. Runs' = Runs
  BY <1>1, <1>2, <1>4 DEF Runs
<1>7. RunsTyped'
  BY <1>5, <1>6 DEF RunsTyped
<1>8. Runs \subseteq RunIds
  BY DEF Runs
<1> QED BY <1>2, <1>4, <1>6, <1>7, <1>8

(* The executions of a process that is no more are over.                   *)
LEMMA PerishGives ==
    ASSUME RunsTyped, NEW c \in Contexts, Perish(c)
    PROVE  /\ RunsTyped' /\ Runs' = Runs
           /\ \A n \in Runs :
                 /\ run'[n].ctx = run[n].ctx /\ run'[n].job = run[n].job /\ run'[n].direct = run[n].direct
                 /\ run[n].ctx = c => run'[n].at = "gone"
                 /\ run[n].ctx # c => run'[n].at = run[n].at
<1> USE JobAssumption
<1>1. ASSUME NEW n \in RunIds
      PROVE  /\ n \notin Runs => run'[n] = NoRun
             /\ n \in Runs =>
                  /\ run'[n] \in RunRecord
                  /\ run'[n].ctx = run[n].ctx /\ run'[n].job = run[n].job /\ run'[n].direct = run[n].direct
                  /\ run[n].ctx = c => run'[n].at = "gone"
                  /\ run[n].ctx # c => run'[n].at = run[n].at
  <2>1. run'[n] = IF n \in Runs /\ run[n].ctx = c THEN [run[n] EXCEPT !.at = "gone"] ELSE run[n]
    BY DEF Perish
  <2>2. n \in Runs => run[n] \in RunRecord
    BY DEF Runs, RunsTyped
  <2>3. n \notin Runs => run[n] = NoRun
    BY DEF Runs
  <2> QED BY <2>1, <2>2, <2>3 DEF RunRecord, Stages
<1>2. run' = [n \in RunIds |-> run'[n]]
  BY DEF Perish
<1>3. run' \in [RunIds -> RunRecord \cup {NoRun}]
  BY <1>1, <1>2
<1>4. Runs' = Runs
  BY <1>1 DEF Runs
<1>5. RunsTyped'
  BY <1>3, <1>4 DEF RunsTyped
<1>6. Runs \subseteq RunIds
  BY DEF Runs
<1> QED BY <1>1, <1>4, <1>5, <1>6

(* RowsTyped is preserved.                                                 *)
LEMMA RowsStep ==
    ASSUME TypeOK, InOrder, Next
    PROVE  RowsTyped'
<1> USE JobAssumption, TypeParts DEF RowsTyped, ContextsTyped, RunsTyped, CountsTyped
<1>0. /\ \A n \in Runs : run[n] \in RunRecord /\ run[n].job \in Jobs /\ run[n].ctx \in Contexts
      /\ \A c \in Contexts : tick[c].at # "idle" => tick[c].job \in Jobs
  BY DEF Runs, RunRecord, InOrder
<1>1. ASSUME NEW c \in Contexts, NEW j \in Jobs, Submit(c, j) PROVE RowsTyped'
  BY <1>0, <1>1 DEF Submit, Insert, SetStatus
<1>2. ASSUME NEW c \in Contexts, NEW j \in Jobs, RunDirect(c, j) PROVE RowsTyped'
  BY <1>0, <1>2 DEF RunDirect, Insert, SetStatus
<1>3. ASSUME NEW j \in Jobs, CancelJob(j) PROVE RowsTyped'
  BY <1>0, <1>3 DEF CancelJob, SetStatus
<1>18. ASSUME NEW j \in Jobs, PauseJob(j) PROVE RowsTyped'
  BY <1>0, <1>18 DEF PauseJob, SetStatus
<1>19. ASSUME NEW j \in Jobs, ResumeJob(j) PROVE RowsTyped'
  BY <1>0, <1>19 DEF ResumeJob, SetStatus
<1>4. ASSUME NEW c \in Contexts, Boot(c) PROVE RowsTyped'
  BY <1>0, <1>4 DEF Boot
<1>5. ASSUME NEW c \in Contexts, NEW j \in Jobs, Requeue(c, j) PROVE RowsTyped'
  BY <1>0, <1>5 DEF Requeue, SetStatus
<1>6. ASSUME NEW c \in Contexts, Start(c) PROVE RowsTyped'
  BY <1>0, <1>6 DEF Start
<1>7. ASSUME NEW c \in Contexts, Pick(c) PROVE RowsTyped'
  BY <1>0, <1>7 DEF Pick
<1>8. ASSUME NEW c \in Contexts, Mark(c) PROVE RowsTyped'
  BY <1>0, <1>8 DEF Mark, SetStatus
<1>9. ASSUME NEW c \in Contexts, Hand(c) PROVE RowsTyped'
  BY <1>0, <1>9 DEF Hand, SetStatus
<1>10. ASSUME NEW n \in Runs, Begin(n) PROVE RowsTyped'
  BY <1>0, <1>10 DEF Begin
<1>11. ASSUME NEW n \in Runs, Work(n) PROVE RowsTyped'
  BY <1>0, <1>11 DEF Work
<1>12. ASSUME NEW n \in Runs, Record(n) PROVE RowsTyped'
  BY <1>0, <1>12 DEF Record, SetStatus
<1>13. ASSUME NEW n \in Runs, Remember(n) PROVE RowsTyped'
  BY <1>0, <1>13 DEF Remember
<1>14. ASSUME NEW n \in Runs, Close(n) PROVE RowsTyped'
  BY <1>0, <1>14 DEF Close
<1>15. ASSUME NEW c \in Contexts, Stop(c) PROVE RowsTyped'
  BY <1>0, <1>15 DEF Stop
<1>16. ASSUME NEW c \in Contexts, Stopped(c) PROVE RowsTyped'
  BY <1>0, <1>16 DEF Stopped
<1>17. ASSUME NEW c \in Contexts, Crash(c) PROVE RowsTyped'
  BY <1>0, <1>17 DEF Crash
<1> QED BY <1>1, <1>2, <1>3, <1>4, <1>5, <1>6, <1>7, <1>8, <1>9, <1>10, <1>11, <1>12, <1>13, <1>14, <1>15, <1>16, <1>17, <1>18, <1>19 DEF Next, User, Loop, Execute

(* ContextsTyped is preserved.                                             *)
LEMMA ContextsStep ==
    ASSUME TypeOK, InOrder, Next
    PROVE  ContextsTyped' /\ \A c \in Contexts : tick'[c].at # "idle" => tick'[c].job \in Jobs
<1> USE JobAssumption, TypeParts DEF RowsTyped, ContextsTyped, RunsTyped, CountsTyped
<1>0. /\ \A n \in Runs : run[n] \in RunRecord /\ run[n].job \in Jobs /\ run[n].ctx \in Contexts
      /\ \A c \in Contexts : tick[c].at # "idle" => tick[c].job \in Jobs
  BY DEF Runs, RunRecord, InOrder
<1> DEFINE Goal == ContextsTyped' /\ \A c \in Contexts : tick'[c].at # "idle" => tick'[c].job \in Jobs
<1>1. ASSUME NEW x \in Contexts, NEW j \in Jobs, Submit(x, j) PROVE Goal
  BY <1>0, <1>1 DEF Submit
<1>2. ASSUME NEW x \in Contexts, NEW j \in Jobs, RunDirect(x, j) PROVE Goal
  BY <1>0, <1>2 DEF RunDirect
<1>3. ASSUME NEW j \in Jobs, CancelJob(j) PROVE Goal
  BY <1>0, <1>3 DEF CancelJob
<1>18. ASSUME NEW j \in Jobs, PauseJob(j) PROVE Goal
  BY <1>0, <1>18 DEF PauseJob
<1>19. ASSUME NEW j \in Jobs, ResumeJob(j) PROVE Goal
  BY <1>0, <1>19 DEF ResumeJob
<1>4. ASSUME NEW x \in Contexts, Boot(x) PROVE Goal
  BY <1>0, <1>4 DEF Boot, SetCtx
<1>5. ASSUME NEW x \in Contexts, NEW j \in Jobs, Requeue(x, j) PROVE Goal
  BY <1>0, <1>5 DEF Requeue
<1>6. ASSUME NEW x \in Contexts, Start(x) PROVE Goal
  BY <1>0, <1>6 DEF Start, SetCtx
<1>7. ASSUME NEW x \in Contexts, Pick(x) PROVE Goal
  BY <1>0, <1>7 DEF Pick, SetTick, Queued
<1>8. ASSUME NEW x \in Contexts, Mark(x) PROVE Goal
  <2> DEFINE t == [tick[x] EXCEPT !.at = "marked"]
  <2>1. /\ tick[x].job \in Jobs /\ active' = [active EXCEPT ![x] = @ \cup {tick[x].job}]
        /\ UNCHANGED <<ctx, orphans>>
    BY <1>0, <1>8 DEF Mark, Activate
  <2>2. t \in [at : {"idle", "picked", "marked"}, job : Jobs \cup {NoJob}] /\ t.job = tick[x].job
    OBVIOUS
  <2>3. tick' = [tick EXCEPT ![x] = t] \/ tick' = [tick EXCEPT ![x] = Idle]
    BY <1>8 DEF Mark, SetTick
  <2> HIDE DEF t
  <2>4. ContextsTyped'
    BY <2>1, <2>2, <2>3 DEF Idle
  <2>5. \A c \in Contexts : tick'[c].at # "idle" => tick'[c].job \in Jobs
    BY <1>0, <2>1, <2>2, <2>3 DEF Idle
  <2> QED BY <2>4, <2>5
<1>9. ASSUME NEW x \in Contexts, Hand(x) PROVE Goal
  BY <1>0, <1>9 DEF Hand, SetTick, Deactivate, Idle
<1>10. ASSUME NEW n \in Runs, Begin(n) PROVE Goal
  BY <1>0, <1>10 DEF Begin
<1>11. ASSUME NEW n \in Runs, Work(n) PROVE Goal
  BY <1>0, <1>11 DEF Work
<1>12. ASSUME NEW n \in Runs, Record(n) PROVE Goal
  BY <1>0, <1>12 DEF Record
<1>13. ASSUME NEW n \in Runs, Remember(n) PROVE Goal
  BY <1>0, <1>13 DEF Remember
<1>14. ASSUME NEW n \in Runs, Close(n) PROVE Goal
  BY <1>0, <1>14 DEF Close, Deactivate
<1>15. ASSUME NEW x \in Contexts, Stop(x) PROVE Goal
  BY <1>0, <1>15 DEF Stop, SetCtx
<1>16. ASSUME NEW x \in Contexts, Stopped(x) PROVE Goal
  BY <1>0, <1>16 DEF Stopped, SetCtx, SetTick, Idle
<1>17. ASSUME NEW x \in Contexts, Crash(x) PROVE Goal
  BY <1>0, <1>17 DEF Crash, SetCtx, SetTick, Idle
<1> HIDE DEF Goal
<1>20. Goal
  BY <1>1, <1>2, <1>3, <1>4, <1>5, <1>6, <1>7, <1>8, <1>9, <1>10, <1>11, <1>12, <1>13, <1>14, <1>15, <1>16, <1>17, <1>18, <1>19 DEF Next, User, Loop, Execute
<1> QED BY <1>20 DEF Goal

(* CountsTyped is preserved.                                               *)
LEMMA CountsStep ==
    ASSUME TypeOK, InOrder, Next
    PROVE  CountsTyped'
<1> USE JobAssumption, TypeParts DEF RowsTyped, ContextsTyped, RunsTyped, CountsTyped
<1>1. ASSUME NEW c \in Contexts, NEW j \in Jobs, Submit(c, j) PROVE CountsTyped'
  BY <1>1 DEF Submit
<1>2. ASSUME NEW c \in Contexts, NEW j \in Jobs, RunDirect(c, j) PROVE CountsTyped'
  BY <1>2 DEF RunDirect, Fault
<1>3. ASSUME NEW j \in Jobs, CancelJob(j) PROVE CountsTyped'
  BY <1>3 DEF CancelJob
<1>18. ASSUME NEW j \in Jobs, PauseJob(j) PROVE CountsTyped'
  BY <1>18 DEF PauseJob
<1>19. ASSUME NEW j \in Jobs, ResumeJob(j) PROVE CountsTyped'
  BY <1>19 DEF ResumeJob
<1>4. ASSUME NEW c \in Contexts, Boot(c) PROVE CountsTyped'
  BY <1>4 DEF Boot
<1>5. ASSUME NEW c \in Contexts, NEW j \in Jobs, Requeue(c, j) PROVE CountsTyped'
  BY <1>5 DEF Requeue
<1>6. ASSUME NEW c \in Contexts, Start(c) PROVE CountsTyped'
  BY <1>6 DEF Start
<1>7. ASSUME NEW c \in Contexts, Pick(c) PROVE CountsTyped'
  BY <1>7 DEF Pick
<1>8. ASSUME NEW c \in Contexts, Mark(c) PROVE CountsTyped'
  BY <1>8 DEF Mark, Fault
<1>9. ASSUME NEW c \in Contexts, Hand(c) PROVE CountsTyped'
  BY <1>9 DEF Hand, Fault
<1>10. ASSUME NEW n \in Runs, Begin(n) PROVE CountsTyped'
  BY <1>10 DEF Begin, Fault
<1>11. ASSUME NEW n \in Runs, Work(n) PROVE CountsTyped'
  BY <1>11 DEF Work
<1>12. ASSUME NEW n \in Runs, Record(n) PROVE CountsTyped'
  BY <1>12 DEF Record, Fault
<1>13. ASSUME NEW n \in Runs, Remember(n) PROVE CountsTyped'
  BY <1>13 DEF Remember, Fault
<1>14. ASSUME NEW n \in Runs, Close(n) PROVE CountsTyped'
  BY <1>14 DEF Close
<1>15. ASSUME NEW c \in Contexts, Stop(c) PROVE CountsTyped'
  BY <1>15 DEF Stop
<1>16. ASSUME NEW c \in Contexts, Stopped(c) PROVE CountsTyped'
  BY <1>16 DEF Stopped
<1>17. ASSUME NEW c \in Contexts, Crash(c) PROVE CountsTyped'
  BY <1>17 DEF Crash
<1> QED BY <1>1, <1>2, <1>3, <1>4, <1>5, <1>6, <1>7, <1>8, <1>9, <1>10, <1>11, <1>12, <1>13, <1>14, <1>15, <1>16, <1>17, <1>18, <1>19 DEF Next, User, Loop, Execute

(* RunsTyped is preserved, and executions stay numbered in order.          *)
LEMMA RunsStep ==
    ASSUME TypeOK, InOrder, Next
    PROVE  RunsTyped' /\ \E k \in 0..MaxRuns : Runs' = 1..k
<1>0. RunsTyped
  BY TypeParts
<1>1. CASE run' = run
  <2>1. Runs' = Runs
    BY <1>1 DEF Runs
  <2> QED BY <1>0, <1>1, <2>1 DEF RunsTyped, InOrder
<1>2. ASSUME NEW c \in Contexts, NEW j \in Jobs, RunDirect(c, j), run' # run
      PROVE  RunsTyped' /\ \E k \in 0..MaxRuns : Runs' = 1..k
  <2> DEFINE r == [ctx |-> c, job |-> j, direct |-> TRUE, at |-> "working"]
  <2>1. r \in RunRecord
    BY DEF RunRecord, Stages
  <2>2. NewRun(r)
    BY <1>2 DEF RunDirect
  <2> HIDE DEF r
  <2> QED BY <1>0, <2>1, <2>2, NewRunGives
<1>3. ASSUME NEW c \in Contexts, Hand(c), run' # run
      PROVE  RunsTyped' /\ \E k \in 0..MaxRuns : Runs' = 1..k
  <2> DEFINE r == [ctx |-> c, job |-> tick[c].job, direct |-> FALSE, at |-> "pooled"]
  <2>1. r \in RunRecord
    BY <1>3 DEF RunRecord, Stages, Hand, InOrder
  <2>2. NewRun(r)
    BY <1>3 DEF Hand, ToPool
  <2> HIDE DEF r
  <2> QED BY <1>0, <2>1, <2>2, NewRunGives
<1>4. ASSUME NEW n \in Runs, Execute(n)
      PROVE  RunsTyped' /\ \E k \in 0..MaxRuns : Runs' = 1..k
  <2>1. PICK at \in Stages : RunTo(n, at)
    BY <1>4 DEF Execute, Begin, Work, Record, Remember, Close, Stages
  <2> QED BY <1>0, <2>1, RunToGives DEF InOrder
<1>5. ASSUME NEW c \in Contexts, Stopped(c) \/ Crash(c)
      PROVE  RunsTyped' /\ \E k \in 0..MaxRuns : Runs' = 1..k
  BY <1>0, <1>5, PerishGives DEF InOrder, Stopped, Crash
<1>6. ASSUME NEW j \in Jobs, \/ PauseJob(j) \/ ResumeJob(j) \/ CancelJob(j)
                           \/ \E c \in Contexts : Submit(c, j) \/ Requeue(c, j)
      PROVE  run' = run
  BY <1>6 DEF PauseJob, ResumeJob, CancelJob, Submit, Requeue
<1>7. ASSUME NEW c \in Contexts, Boot(c) \/ Start(c) \/ Pick(c) \/ Mark(c) \/ Stop(c)
      PROVE  run' = run
  BY <1>7 DEF Boot, Start, Pick, Mark, Stop
<1> QED BY <1>1, <1>2, <1>3, <1>4, <1>5, <1>6, <1>7 DEF Next, User, Loop

-----------------------------------------------------------------------------
(* What an execution's own step does: it moves on, and nobody else's does. *)
LEMMA ExecuteGives ==
    ASSUME TypeOK, NEW n \in Runs, Execute(n)
    PROVE  /\ RunsTyped' /\ Runs' = Runs
           /\ run'[n].ctx = run[n].ctx /\ run'[n].job = run[n].job /\ run'[n].direct = run[n].direct
           /\ \A m \in Runs : m # n => run'[m] = run[m]
           /\ Live(n)
           /\ run[n].job \in Jobs /\ run[n].ctx \in Contexts
           /\ \/ run[n].at = "pooled" /\ run'[n].at = "working" /\ faults' = faults
              \/ run[n].at = "pooled" /\ run'[n].at = "gone" /\ Fault
              \/ run[n].at = "working" /\ run'[n].at \in {"returned", "raised"} /\ faults' = faults
              \/ run[n].at = "returned" /\ run'[n].at = "recording" /\ faults' = faults
              \/ run[n].at = "returned" /\ run'[n].at = "raised" /\ Fault
              \/ run[n].at = "raised" /\ run'[n].at = "closing"
              \/ run[n].at = "recording" /\ run'[n].at = "closing" /\ faults' = faults
              \/ run[n].at = "recording" /\ run'[n].at = "raised" /\ Fault
              \/ run[n].at = "closing" /\ run'[n].at = "gone" /\ faults' = faults
<1>0. RunsTyped /\ n \in RunIds
  BY TypeParts DEF Runs
<1>1. \A at \in Stages : RunTo(n, at) =>
          /\ RunsTyped' /\ Runs' = Runs
          /\ run'[n].at = at
          /\ run'[n].ctx = run[n].ctx /\ run'[n].job = run[n].job /\ run'[n].direct = run[n].direct
          /\ \A m \in Runs : m # n => run'[m] = run[m]
  BY <1>0, RunToGives
<1>2. run[n].job \in Jobs /\ run[n].ctx \in Contexts
  BY <1>0 DEF Runs, RunsTyped, RunRecord
<1>3. CASE Begin(n)
  BY <1>1, <1>2, <1>3 DEF Begin, Stages, Live
<1>4. CASE Work(n)
  BY <1>1, <1>2, <1>4 DEF Work, Stages, Live
<1>5. CASE Record(n)
  BY <1>1, <1>2, <1>5 DEF Record, Stages, Live
<1>6. CASE Remember(n)
  BY <1>1, <1>2, <1>6 DEF Remember, Stages, Live
<1>7. CASE Close(n)
  BY <1>1, <1>2, <1>7 DEF Close, Stages, Live
<1> QED BY <1>3, <1>4, <1>5, <1>6, <1>7 DEF Execute

(* WorkedFirst is preserved.                                               *)
LEMMA WorkedStep ==
    ASSUME TypeOK, InOrder, WorkedFirst, Next
    PROVE  WorkedFirst'
<1>0. /\ status \in [Jobs -> {"none", "queued", "running", "paused", "completed", "failed"}]
      /\ \A c \in Contexts : tick[c].at # "idle" => tick[c].job \in Jobs
      /\ \A n \in Runs : run[n].job \in Jobs
  BY DEF TypeOK, InOrder, Runs, RunRecord
<1>1. ASSUME run' = run, Runs' = Runs, worked' = worked,
             \A j \in Jobs : status'[j] = "completed" => status[j] = "completed"
      PROVE  WorkedFirst'
  BY <1>1 DEF WorkedFirst
<1>2. ASSUME NEW j \in Jobs, \/ PauseJob(j) \/ ResumeJob(j) \/ CancelJob(j)
                           \/ \E c \in Contexts : Submit(c, j) \/ Requeue(c, j)
      PROVE  WorkedFirst'
  <2>1. worked' = worked /\ \E s \in {"queued", "paused", "failed"} : status' = [status EXCEPT ![j] = s]
    BY <1>2 DEF Submit, Insert, PauseJob, ResumeJob, CancelJob, Requeue, SetStatus
  <2>2. run' = run /\ Runs' = Runs
    BY <1>2 DEF Submit, PauseJob, ResumeJob, CancelJob, Requeue, Runs
  <2> QED BY <1>0, <1>1, <2>1, <2>2
<1>3. ASSUME NEW c \in Contexts, Boot(c) \/ Start(c) \/ Pick(c) \/ Stop(c)
      PROVE  WorkedFirst'
  <2>1. UNCHANGED <<run, worked, status>>
    BY <1>3 DEF Boot, Start, Pick, Stop
  <2>2. Runs' = Runs
    BY <2>1 DEF Runs
  <2> QED BY <1>1, <2>1, <2>2
<1>4. ASSUME NEW c \in Contexts, Mark(c)
      PROVE  WorkedFirst'
  <2>1. /\ UNCHANGED <<run, worked>>
        /\ status' = status \/ status' = [status EXCEPT ![tick[c].job] = "running"]
    BY <1>4 DEF Mark, SetStatus
  <2>2. Runs' = Runs
    BY <2>1 DEF Runs
  <2> QED BY <1>0, <1>1, <2>1, <2>2
<1>5. ASSUME NEW c \in Contexts, NEW j \in Jobs, RunDirect(c, j)
      PROVE  WorkedFirst'
  <2>1. worked' = worked /\ status' = [status EXCEPT ![j] = "queued"]
        /\ (NewRun([ctx |-> c, job |-> j, direct |-> TRUE, at |-> "working"]) \/ run' = run)
    BY <1>5 DEF RunDirect, Insert, SetStatus
  <2>3. CASE run' = run
    <3>1. Runs' = Runs
      BY <2>3 DEF Runs
    <3> QED BY <1>0, <1>1, <2>1, <2>3, <3>1
  <2> SUFFICES ASSUME NewRun([ctx |-> c, job |-> j, direct |-> TRUE, at |-> "working"])
               PROVE  WorkedFirst'
    BY <2>1, <2>3
  <2>2. PICK x \in RunIds : /\ Runs' = Runs \cup {x} /\ run'[x].at = "working"
                            /\ \A n \in Runs : run'[n] = run[n]
    <3> DEFINE r == [ctx |-> c, job |-> j, direct |-> TRUE, at |-> "working"]
    <3>1. r \in RunRecord /\ r.at = "working"
      BY DEF RunRecord, Stages
    <3>2. NewRun(r) /\ RunsTyped
      BY TypeParts
    <3> HIDE DEF r
    <3> QED BY <3>1, <3>2, NewRunGives
  <2> QED BY <1>0, <2>1, <2>2 DEF WorkedFirst
<1>6. ASSUME NEW c \in Contexts, Hand(c)
      PROVE  WorkedFirst'
  <2>1. /\ worked' = worked /\ tick[c].job \in Jobs
        /\ status' = status \/ status' = [status EXCEPT ![tick[c].job] = "queued"]
    BY <1>0, <1>6 DEF Hand, SetStatus
  <2>2. CASE run' = run
    <3>1. Runs' = Runs
      BY <2>2 DEF Runs
    <3> QED BY <1>0, <1>1, <2>1, <2>2, <3>1
  <2>3. CASE NewRun([ctx |-> c, job |-> tick[c].job, direct |-> FALSE, at |-> "pooled"])
    <3>1. PICK x \in RunIds : /\ Runs' = Runs \cup {x} /\ run'[x].at = "pooled"
                              /\ \A n \in Runs : run'[n] = run[n]
      <4> DEFINE r == [ctx |-> c, job |-> tick[c].job, direct |-> FALSE, at |-> "pooled"]
      <4>1. r \in RunRecord /\ r.at = "pooled"
        BY <2>1 DEF RunRecord, Stages
      <4>2. NewRun(r) /\ RunsTyped
        BY <2>3, TypeParts
      <4> HIDE DEF r
      <4> QED BY <4>1, <4>2, NewRunGives
    <3> QED BY <1>0, <2>1, <3>1 DEF WorkedFirst
  <2> QED BY <1>6, <2>2, <2>3 DEF Hand, ToPool
<1>7. ASSUME NEW n \in Runs, Execute(n)
      PROVE  WorkedFirst'
  <2>1. /\ Runs' = Runs /\ run'[n].job = run[n].job /\ \A m \in Runs : m # n => run'[m] = run[m]
        /\ run'[n].at = "returned" => run[n].at = "working"
    BY <1>7, ExecuteGives
  <2>2. /\ worked \subseteq worked'
        /\ run'[n].at = "returned" => run[n].job \in worked'
    <3>1. CASE Work(n)
      <4>1. CASE worked' = worked \cup {run[n].job}
        BY <4>1
      <4>2. CASE RunTo(n, "raised") /\ worked' = worked
        <5>1. run'[n].at = "raised"
          <6>1. RunsTyped /\ "raised" \in Stages
            BY TypeParts DEF Stages
          <6> QED BY <4>2, <6>1, RunToGives
        <5> QED BY <4>2, <5>1
      <4> QED BY <3>1, <4>1, <4>2 DEF Work
    <3>2. CASE ~Work(n)
      <4>1. worked' = worked /\ run[n].at # "working"
        BY <1>7, <3>2 DEF Execute, Begin, Record, Remember, Close
      <4> QED BY <2>1, <4>1
    <3> QED BY <3>1, <3>2
  <2>3. \/ status' = status
        \/ status' = [status EXCEPT ![run[n].job] = "failed"]
        \/ status' = [status EXCEPT ![run[n].job] = "completed"] /\ run[n].at = "returned"
    BY <1>7 DEF Execute, Begin, Work, Record, Remember, Close, SetStatus
  <2>4. \A m \in Runs' : run'[m].at = "returned" => run'[m].job \in worked'
    BY <2>1, <2>2 DEF WorkedFirst
  <2>5. \A j \in Jobs : status'[j] = "completed" => j \in worked'
    BY <1>0, <2>2, <2>3 DEF WorkedFirst
  <2> QED BY <2>4, <2>5 DEF WorkedFirst
<1>8. ASSUME NEW c \in Contexts, Stopped(c) \/ Crash(c)
      PROVE  WorkedFirst'
  <2>1. status' = status /\ worked' = worked /\ Perish(c)
    BY <1>8 DEF Stopped, Crash
  <2>2. Runs' = Runs /\ \A n \in Runs : run'[n].job = run[n].job /\ run'[n].at \in {run[n].at, "gone"}
    BY <2>1, PerishGives, TypeParts
  <2>3. \A n \in Runs' : run'[n].at = "returned" => run'[n].job \in worked'
    <3> SUFFICES ASSUME NEW n \in Runs', run'[n].at = "returned" PROVE run'[n].job \in worked'
      OBVIOUS
    <3>1. n \in Runs /\ run[n].at = "returned" /\ run'[n].job = run[n].job
      BY <2>2
    <3> QED BY <2>1, <3>1 DEF WorkedFirst
  <2>4. \A j \in Jobs : status'[j] = "completed" => j \in worked'
    BY <2>1 DEF WorkedFirst
  <2> QED BY <2>3, <2>4 DEF WorkedFirst
<1> QED BY <1>2, <1>3, <1>4, <1>5, <1>6, <1>7, <1>8 DEF Next, User, Loop

(* Room is preserved: what is picked has its place, and only a mark takes  *)
(* one.                                                                    *)
LEMMA RoomStep ==
    ASSUME TypeOK, InOrder, Room, Next
    PROVE  Room'
<1> USE JobAssumption
<1> DEFINE Fits(d) == /\ IsFiniteSet(active[d]) /\ Cardinality(active[d]) <= MaxConcurrent
                      /\ tick[d].at = "picked" => Cardinality(active[d]) < MaxConcurrent
<1>0. /\ tick \in [Contexts -> [at : {"idle", "picked", "marked"}, job : Jobs \cup {NoJob}]]
      /\ active \in [Contexts -> SUBSET Jobs]
      /\ \A d \in Contexts : Fits(d) /\ Cardinality(active[d]) \in Nat
  BY FS_CardinalityType DEF TypeOK, Room
<1>1. CASE UNCHANGED <<tick, active>>
  BY <1>1 DEF Room
<1>2. ASSUME NEW c \in Contexts, Pick(c)
      PROVE  Room'
  <2>1. active' = active /\ Cardinality(active[c]) < MaxConcurrent
        /\ \A d \in Contexts : d # c => tick'[d] = tick[d]
    BY <1>0, <1>2 DEF Pick, SetTick
  <2> QED BY <1>0, <2>1 DEF Room
<1>3. ASSUME NEW c \in Contexts, Mark(c)
      PROVE  Room'
  <2> DEFINE j == tick[c].job
  <2>1. /\ active' = [active EXCEPT ![c] = active[c] \cup {j}]
        /\ tick' = [tick EXCEPT ![c] = [tick[c] EXCEPT !.at = "marked"]] \/ tick' = [tick EXCEPT ![c] = Idle]
        /\ tick[c].at = "picked"
    BY <1>3 DEF Mark, Activate, SetTick
  <2>2. /\ IsFiniteSet(active[c] \cup {j})
        /\ Cardinality(active[c] \cup {j}) \in {Cardinality(active[c]), Cardinality(active[c]) + 1}
    BY <1>0, FS_AddElement
  <2>3. active'[c] = active[c] \cup {j} /\ \A d \in Contexts : d # c => active'[d] = active[d] /\ tick'[d] = tick[d]
    BY <1>0, <2>1
  <2>4. tick'[c].at # "picked"
    BY <1>0, <2>1 DEF Idle
  <2>5. Cardinality(active[c] \cup {j}) <= MaxConcurrent
    BY <1>0, <2>1, <2>2
  <2> HIDE DEF j
  <2>6. Fits(c)'
    BY <2>2, <2>3, <2>4, <2>5
  <2> QED BY <1>0, <2>3, <2>6 DEF Room
<1>4. ASSUME NEW c \in Contexts, NEW j, active' = active \/ active' = [active EXCEPT ![c] = active[c] \ {j}],
             \A d \in Contexts : tick'[d].at = "picked" => tick[d].at = "picked"
      PROVE  Room'
  <2>1. /\ IsFiniteSet(active[c] \ {j})
        /\ Cardinality(active[c] \ {j}) \in {Cardinality(active[c]), Cardinality(active[c]) - 1}
    BY <1>0, FS_RemoveElement
  <2>2. \A d \in Contexts : active'[d] = active[d] \/ (d = c /\ active'[d] = active[c] \ {j})
    BY <1>0, <1>4
  <2>3. ASSUME NEW d \in Contexts PROVE Fits(d)'
    <3>1. CASE active'[d] = active[d]
      BY <1>0, <1>4, <3>1
    <3>2. CASE active'[d] = active[c] \ {j} /\ d = c
      <4>1. /\ Cardinality(active[c]) \in Nat /\ Cardinality(active[c]) <= MaxConcurrent
            /\ tick'[c].at = "picked" => Cardinality(active[c]) < MaxConcurrent
        BY <1>0, <1>4
      <4>2. /\ Cardinality(active'[c]) <= MaxConcurrent
            /\ tick'[c].at = "picked" => Cardinality(active'[c]) < MaxConcurrent
        <5> DEFINE k == Cardinality(active[c])
        <5>1. k \in Nat /\ Cardinality(active'[c]) \in {k, k - 1} /\ MaxConcurrent \in Nat
          BY <2>1, <3>2, <4>1
        <5>2. k <= MaxConcurrent /\ (tick'[c].at = "picked" => k < MaxConcurrent)
          BY <4>1
        <5> HIDE DEF k
        <5> QED BY <5>1, <5>2
      <4> QED BY <2>1, <3>2, <4>2
    <3> QED BY <2>2, <3>1, <3>2
  <2> QED BY <2>3 DEF Room
<1>5. ASSUME NEW c \in Contexts, Hand(c)
      PROVE  Room'
  <2>1. active' = active \/ active' = [active EXCEPT ![c] = active[c] \ {tick[c].job}]
    BY <1>5 DEF Hand, Deactivate
  <2>2. tick' = [tick EXCEPT ![c] = Idle]
    BY <1>5 DEF Hand, SetTick
  <2> QED BY <1>0, <1>4, <2>1, <2>2 DEF Idle
<1>6. ASSUME NEW n \in Runs, Close(n)
      PROVE  Room'
  <2>1. run[n].ctx \in Contexts
    BY DEF TypeOK, Runs, RunRecord
  <2>2. active' = active \/ active' = [active EXCEPT ![run[n].ctx] = active[run[n].ctx] \ {run[n].job}]
    BY <1>6 DEF Close, Deactivate
  <2>3. tick' = tick
    BY <1>6 DEF Close
  <2> QED BY <1>4, <2>1, <2>2, <2>3
<1>7. ASSUME NEW c \in Contexts, Stopped(c) \/ Crash(c)
      PROVE  Room'
  <2>1. active' = [active EXCEPT ![c] = {}] /\ tick' = [tick EXCEPT ![c] = Idle]
    BY <1>7 DEF Stopped, Crash, SetTick
  <2>2. IsFiniteSet({}) /\ Cardinality({}) = 0
    BY FS_EmptySet
  <2> QED BY <1>0, <2>1, <2>2 DEF Room, Idle
<1>8. ASSUME NEW j \in Jobs, User(j)
      PROVE  UNCHANGED <<tick, active>>
  BY <1>8 DEF User, PauseJob, ResumeJob, CancelJob, Submit, RunDirect
<1>9. ASSUME NEW c \in Contexts, Boot(c) \/ (\E j \in Jobs : Requeue(c, j)) \/ Start(c) \/ Stop(c)
      PROVE  UNCHANGED <<tick, active>>
  BY <1>9 DEF Boot, Requeue, Start, Stop
<1>10. ASSUME NEW n \in Runs, Begin(n) \/ Work(n) \/ Record(n) \/ Remember(n)
       PROVE  UNCHANGED <<tick, active>>
  BY <1>10 DEF Begin, Work, Record, Remember
<1> QED BY <1>1, <1>2, <1>3, <1>5, <1>6, <1>7, <1>8, <1>9, <1>10 DEF Next, Loop, Execute

(* Shared is inductive, for any number of contexts.                        *)
LEMMA InitShared == Init => Shared
<1> SUFFICES ASSUME Init PROVE Shared
  OBVIOUS
<1> USE JobAssumption DEF Init
<1>1. Runs = {} /\ Runs = 1..0
  BY DEF Runs
<1>2. TypeOK
  BY <1>1, TypeParts DEF RowsTyped, ContextsTyped, RunsTyped, CountsTyped, Idle
<1>3. InOrder
  BY <1>1 DEF InOrder, Idle
<1>4. WorkedFirst
  BY <1>1 DEF WorkedFirst
<1>5. Room
  BY FS_EmptySet DEF Room, Idle
<1> QED BY <1>2, <1>3, <1>4, <1>5 DEF Shared

LEMMA SharedStep == Shared /\ [Next]_vars => Shared'
<1> SUFFICES ASSUME Shared, [Next]_vars PROVE Shared'
  OBVIOUS
<1>1. CASE Next
  <2>1. TypeOK' /\ InOrder'
    <3>1. RowsTyped' /\ ContextsTyped' /\ RunsTyped' /\ CountsTyped'
          /\ (\E k \in 0..MaxRuns : Runs' = 1..k)
          /\ \A c \in Contexts : tick'[c].at # "idle" => tick'[c].job \in Jobs
      BY <1>1, RowsStep, ContextsStep, RunsStep, CountsStep DEF Shared
    <3> QED BY <3>1 DEF TypeOK, InOrder, RowsTyped, ContextsTyped, RunsTyped, CountsTyped
  <2> QED BY <1>1, <2>1, WorkedStep, RoomStep DEF Shared
<1>2. CASE UNCHANGED vars
  <2>1. Runs' = Runs
    BY <1>2 DEF vars, Runs
  <2> QED BY <1>2, <2>1 DEF vars, Shared, TypeOK, InOrder, WorkedFirst, Room
<1> QED BY <1>1, <1>2

(* Shared always holds.                                                    *)
THEOREM SharedAlways == Spec => []Shared
<1> QED BY InitShared, SharedStep, PTL DEF Spec

(* The variables hold what the type invariant says, for any number of      *)
(* contexts on one database.                                               *)
THEOREM TypeCorrect == Spec => []TypeOK
<1>1. Shared => TypeOK
  BY DEF Shared
<1> QED BY <1>1, SharedAlways, PTL

(* No row says completed before the pipeline of its job has returned, for  *)
(* any number of contexts, whatever raised and whatever ran twice.         *)
THEOREM CompletedHasWorked == Spec => [](\A j \in Jobs : status[j] = "completed" => j \in worked)
<1>1. Shared => \A j \in Jobs : status[j] = "completed" => j \in worked
  BY DEF Shared, WorkedFirst
<1> QED BY <1>1, SharedAlways, PTL

(* _active never outgrows the capacity, for any number of contexts and of  *)
(* failed writes.                                                          *)
THEOREM CapacityKept == Spec => [](\A c \in Contexts : Cardinality(active[c]) <= MaxConcurrent)
<1>1. Shared => \A c \in Contexts : Cardinality(active[c]) <= MaxConcurrent
  BY DEF Shared, Room
<1> QED BY <1>1, SharedAlways, PTL

-----------------------------------------------------------------------------
(* One context on the database.                                            *)
OneContext == \E c : Contexts = {c}

(* The shared rows, the tick and the executions of the one context.        *)
LEMMA OneTyped ==
    ASSUME NEW c \in Contexts, Contexts = {c}, TypeOK
    PROVE  /\ tick[c] \in [at : {"idle", "picked", "marked"}, job : Jobs \cup {NoJob}]
           /\ ctx[c] \in {"off", "recovering", "up", "stopping"}
           /\ active[c] \subseteq Jobs /\ orphans[c] \subseteq Jobs
           /\ \A n \in Runs : /\ run[n].ctx = c /\ run[n].job \in Jobs
                              /\ run[n].direct \in BOOLEAN /\ run[n].at \in Stages
           /\ faults \in Nat
<1> USE JobAssumption
<1>1. \A n \in Runs : /\ run[n].ctx = c /\ run[n].job \in Jobs
                      /\ run[n].direct \in BOOLEAN /\ run[n].at \in Stages
  BY DEF TypeOK, Runs, RunRecord
<1> QED BY <1>1 DEF TypeOK

(* What the steps of the loop do, each in one of its outcomes.             *)
LEMMA MarkGives ==
    ASSUME NEW c \in Contexts, TypeOK, InOrder, Mark(c)
    PROVE  /\ tick[c].at = "picked" /\ tick[c].job \in Jobs
           /\ active'[c] = active[c] \cup {tick[c].job}
           /\ run' = run /\ Runs' = Runs /\ ctx' = ctx /\ orphans' = orphans /\ resumed' = resumed
           /\ \/ /\ status'[tick[c].job] = "running"
                 /\ \A i \in Jobs : i # tick[c].job => status'[i] = status[i]
                 /\ tick'[c] = [at |-> "marked", job |-> tick[c].job]
                 /\ faults' = faults
              \/ Fault /\ tick'[c] = Idle /\ status' = status
<1>1. /\ tick[c].at = "picked" /\ tick[c].job \in Jobs /\ active'[c] = active[c] \cup {tick[c].job}
      /\ run' = run /\ ctx' = ctx /\ orphans' = orphans /\ resumed' = resumed
  BY DEF Mark, Activate, InOrder, TypeOK
<1>2. Runs' = Runs
  BY <1>1 DEF Runs
<1> DEFINE t == [tick[c] EXCEPT !.at = "marked"]
<1>3. t = [at |-> "marked", job |-> tick[c].job]
  BY DEF TypeOK
<1>4. \/ /\ status' = [status EXCEPT ![tick[c].job] = "running"]
         /\ tick' = [tick EXCEPT ![c] = t] /\ faults' = faults
      \/ Fault /\ tick' = [tick EXCEPT ![c] = Idle] /\ status' = status
  BY DEF Mark, SetStatus, SetTick
<1> HIDE DEF t
<1>5. tick \in [Contexts -> [at : {"idle", "picked", "marked"}, job : Jobs \cup {NoJob}]]
      /\ DOMAIN status = Jobs
  BY DEF TypeOK
<1>6. CASE /\ status' = [status EXCEPT ![tick[c].job] = "running"]
           /\ tick' = [tick EXCEPT ![c] = t] /\ faults' = faults
  <2>1. tick'[c] = t
    BY <1>5, <1>6
  <2>2. status'[tick[c].job] = "running" /\ \A i \in Jobs : i # tick[c].job => status'[i] = status[i]
    BY <1>1, <1>5, <1>6
  <2> QED BY <1>1, <1>2, <1>3, <1>6, <2>1, <2>2
<1>7. CASE Fault /\ tick' = [tick EXCEPT ![c] = Idle] /\ status' = status
  BY <1>1, <1>2, <1>5, <1>7
<1> QED BY <1>4, <1>6, <1>7

LEMMA HandGives ==
    ASSUME NEW c \in Contexts, TypeOK, InOrder, Hand(c)
    PROVE  /\ tick[c].job \in Jobs /\ tick[c].at = "marked"
           /\ tick[c] = [at |-> "marked", job |-> tick[c].job]
           /\ tick'[c] = Idle /\ ctx' = ctx /\ orphans' = orphans /\ resumed' = resumed
           /\ \/ /\ status' = status /\ active' = active /\ faults' = faults
                 /\ \E x \in RunIds :
                       /\ x \notin Runs /\ Runs' = Runs \cup {x}
                       /\ run'[x].job = tick[c].job /\ run'[x].direct = FALSE /\ run'[x].at = "pooled"
                       /\ \A n \in Runs : run'[n] = run[n]
              \/ /\ status'[tick[c].job] = "queued"
                 /\ \A i \in Jobs : i # tick[c].job => status'[i] = status[i]
                 /\ active'[c] = active[c] \ {tick[c].job}
                 /\ faults' = faults /\ run' = run /\ Runs' = Runs
              \/ Fault /\ status' = status /\ active' = active /\ run' = run /\ Runs' = Runs
<1>1. /\ tick \in [Contexts -> [at : {"idle", "picked", "marked"}, job : Jobs \cup {NoJob}]]
      /\ active \in [Contexts -> SUBSET Jobs] /\ DOMAIN status = Jobs
  BY DEF TypeOK
<1>2. tick[c].at = "marked" /\ tick[c].job \in Jobs /\ tick' = [tick EXCEPT ![c] = Idle]
      /\ ctx' = ctx /\ orphans' = orphans /\ resumed' = resumed
  BY DEF Hand, SetTick, InOrder
<1>3. tick[c] = [at |-> "marked", job |-> tick[c].job] /\ tick'[c] = Idle
  BY <1>1, <1>2
<1>4. run' = run => Runs' = Runs
  BY DEF Runs
<1>5. CASE ctx[c] = "up"
  <2>1. NewRun([ctx |-> c, job |-> tick[c].job, direct |-> FALSE, at |-> "pooled"])
        /\ status' = status /\ active' = active /\ faults' = faults
    BY <1>5 DEF Hand, ToPool
  <2> DEFINE r == [ctx |-> c, job |-> tick[c].job, direct |-> FALSE, at |-> "pooled"]
  <2>2. r \in RunRecord /\ r.job = tick[c].job /\ r.direct = FALSE /\ r.at = "pooled"
    BY <1>2 DEF RunRecord, Stages
  <2>3. NewRun(r) /\ RunsTyped
    BY <2>1, TypeParts
  <2> HIDE DEF r
  <2>4. \E x \in RunIds :
            /\ x \notin Runs /\ Runs' = Runs \cup {x}
            /\ run'[x].job = tick[c].job /\ run'[x].direct = FALSE /\ run'[x].at = "pooled"
            /\ \A n \in Runs : run'[n] = run[n]
    BY <2>2, <2>3, NewRunGives
  <2> QED BY <1>2, <1>3, <2>1, <2>4
<1>6. CASE ctx[c] # "up"
  <2>1. run' = run
    BY <1>6 DEF Hand
  <2>2. \/ /\ status' = [status EXCEPT ![tick[c].job] = "queued"]
           /\ active' = [active EXCEPT ![c] = active[c] \ {tick[c].job}] /\ faults' = faults
        \/ Fault /\ status' = status /\ active' = active
    BY <1>6 DEF Hand, SetStatus, Deactivate
  <2>3. CASE /\ status' = [status EXCEPT ![tick[c].job] = "queued"]
             /\ active' = [active EXCEPT ![c] = active[c] \ {tick[c].job}] /\ faults' = faults
    <3>1. /\ status'[tick[c].job] = "queued"
          /\ \A i \in Jobs : i # tick[c].job => status'[i] = status[i]
          /\ active'[c] = active[c] \ {tick[c].job}
      BY <1>1, <1>2, <2>3
    <3> QED BY <1>2, <1>3, <1>4, <2>1, <2>3, <3>1
  <2>4. CASE Fault /\ status' = status /\ active' = active
    BY <1>2, <1>3, <1>4, <2>1, <2>4
  <2> QED BY <2>2, <2>3, <2>4
<1> QED BY <1>5, <1>6

(* JarvisCore.run queues a new job, and starts an execution of it unless a *)
(* write raises.                                                           *)
LEMMA RunDirectGives ==
    ASSUME NEW c \in Contexts, NEW j \in Jobs, TypeOK, InOrder, RunDirect(c, j)
    PROVE  /\ ctx[c] = "up" /\ j \in Direct /\ status[j] = "none" /\ status'[j] = "queued"
           /\ \A i \in Jobs : i # j => status'[i] = status[i]
           /\ UNCHANGED <<ctx, orphans, tick, active, resumed>>
           /\ \/ /\ faults' = faults
                 /\ \E x \in RunIds :
                       /\ x \notin Runs /\ Runs' = Runs \cup {x}
                       /\ run'[x].job = j /\ run'[x].direct = TRUE /\ run'[x].at = "working"
                       /\ \A n \in Runs : run'[n] = run[n]
              \/ Fault /\ run' = run /\ Runs' = Runs
<1>1. /\ ctx[c] = "up" /\ j \in Direct /\ status[j] = "none"
      /\ status' = [status EXCEPT ![j] = "queued"]
      /\ UNCHANGED <<ctx, orphans, tick, active, resumed>>
  BY DEF RunDirect, Insert, SetStatus
<1>2. DOMAIN status = Jobs
  BY DEF TypeOK
<1>3. status'[j] = "queued" /\ \A i \in Jobs : i # j => status'[i] = status[i]
  BY <1>1, <1>2
<1> DEFINE r == [ctx |-> c, job |-> j, direct |-> TRUE, at |-> "working"]
<1>4. r \in RunRecord /\ r.job = j /\ r.direct = TRUE /\ r.at = "working"
  BY DEF RunRecord, Stages
<1>5. (NewRun(r) /\ faults' = faults) \/ (Fault /\ run' = run)
  BY DEF RunDirect
<1> HIDE DEF r
<1>6. CASE NewRun(r) /\ faults' = faults
  <2>1. RunsTyped
    BY TypeParts
  <2>2. \E x \in RunIds :
            /\ x \notin Runs /\ Runs' = Runs \cup {x}
            /\ run'[x].job = j /\ run'[x].direct = TRUE /\ run'[x].at = "working"
            /\ \A n \in Runs : run'[n] = run[n]
    BY <1>4, <1>6, <2>1, NewRunGives
  <2> QED BY <1>1, <1>3, <1>6, <2>2
<1>7. CASE Fault /\ run' = run
  <2>1. Runs' = Runs
    BY <1>7 DEF Runs
  <2> QED BY <1>1, <1>3, <1>7, <2>1
<1> QED BY <1>5, <1>6, <1>7

(* What a button of the user writes.                                       *)
LEMMA ButtonGives ==
    ASSUME NEW j \in Jobs, TypeOK, PauseJob(j) \/ ResumeJob(j) \/ CancelJob(j)
    PROVE  /\ UNCHANGED <<ctx, orphans, tick, active, run, faults>> /\ Runs' = Runs
           /\ \E c \in Contexts : ctx[c] = "up"
           /\ \A i \in Jobs : i # j => status'[i] = status[i]
           /\ \/ status'[j] \in {"paused", "failed"} /\ resumed' = resumed
              \/ /\ status'[j] = "queued" /\ resumed \subseteq resumed'
                 /\ j \in resumed' \/ (~InHand(j) /\ resumed' = resumed)
<1>1. /\ UNCHANGED <<ctx, orphans, tick, active, run, faults>>
      /\ \E c \in Contexts : ctx[c] = "up"
  BY DEF PauseJob, ResumeJob, CancelJob, Shown
<1>2. Runs' = Runs
  BY <1>1 DEF Runs
<1>3. DOMAIN status = Jobs
  BY DEF TypeOK
<1>4. CASE PauseJob(j) \/ CancelJob(j)
  <2>1. resumed' = resumed /\ \E s \in {"paused", "failed"} : status' = [status EXCEPT ![j] = s]
    BY <1>4 DEF PauseJob, CancelJob, SetStatus
  <2> QED BY <1>1, <1>2, <1>3, <2>1
<1>5. CASE ResumeJob(j)
  <2>1. /\ status' = [status EXCEPT ![j] = "queued"]
        /\ resumed' = IF InHand(j) THEN resumed \cup {j} ELSE resumed
    BY <1>5 DEF ResumeJob, SetStatus
  <2> QED BY <1>1, <1>2, <1>3, <2>1
<1> QED BY <1>4, <1>5

(* What an execution's own step writes.                                    *)
LEMMA ExecuteWrites ==
    ASSUME NEW c \in Contexts, Contexts = {c}, TypeOK, NEW n \in Runs, Execute(n)
    PROVE  /\ UNCHANGED <<ctx, orphans, tick, resumed>>
           /\ faults' = 0 => faults = 0 /\ faults' = faults
           /\ \A i \in Jobs : i # run[n].job => status'[i] = status[i]
           /\ status'[run[n].job] \in {status[run[n].job], "completed", "failed"}
           /\ run[n].at \in {"returned", "raised"} /\ faults' = 0 =>
                  status'[run[n].job] \in {"completed", "failed"}
           /\ run[n].at # "closing" \/ run[n].direct => active'[c] = active[c]
           /\ run[n].at = "closing" /\ ~run[n].direct => active'[c] = active[c] \ {run[n].job}
<1>1. /\ run[n].ctx = c /\ run[n].job \in Jobs /\ DOMAIN status = Jobs /\ faults \in Nat
      /\ active \in [Contexts -> SUBSET Jobs]
  BY OneTyped DEF TypeOK
<1>2. UNCHANGED <<ctx, orphans, tick, resumed>>
  BY DEF Execute, Begin, Work, Record, Remember, Close
<1>3. faults' = faults \/ faults' = faults + 1
  BY DEF Execute, Begin, Work, Record, Remember, Close, Fault
<1>4. faults' = 0 => faults = 0 /\ faults' = faults
  BY <1>1, <1>3
<1>5. \/ status' = status
      \/ status' = [status EXCEPT ![run[n].job] = "completed"]
      \/ status' = [status EXCEPT ![run[n].job] = "failed"]
  BY DEF Execute, Begin, Work, Record, Remember, Close, SetStatus
<1>6. /\ \A i \in Jobs : i # run[n].job => status'[i] = status[i]
      /\ status'[run[n].job] \in {status[run[n].job], "completed", "failed"}
  BY <1>1, <1>5
<1>7. ASSUME run[n].at \in {"returned", "raised"}, faults' = 0
      PROVE  status'[run[n].job] \in {"completed", "failed"}
  <2>1. Record(n)
    BY <1>7 DEF Execute, Begin, Work, Record, Remember, Close
  <2>2. ~Fault
    BY <1>1, <1>4, <1>7 DEF Fault
  <2>3. \/ status' = [status EXCEPT ![run[n].job] = "completed"]
        \/ status' = [status EXCEPT ![run[n].job] = "failed"]
    BY <2>1, <2>2 DEF Record, SetStatus
  <2> QED BY <1>1, <2>3
<1>8. run[n].at # "closing" \/ run[n].direct => active' = active
  BY DEF Execute, Begin, Work, Record, Remember, Close
<1>9. ASSUME run[n].at = "closing", ~run[n].direct
      PROVE  active'[c] = active[c] \ {run[n].job}
  <2>1. Close(n)
    BY <1>9 DEF Execute, Begin, Work, Record, Remember, Close
  <2>2. active' = [active EXCEPT ![c] = active[c] \ {run[n].job}]
    BY <1>1, <1>9, <2>1 DEF Close, Deactivate
  <2> QED BY <1>1, <2>2
<1> QED BY <1>2, <1>4, <1>6, <1>7, <1>8, <1>9

(* What the end of the one context leaves.                                 *)
LEMMA EndGives ==
    ASSUME NEW c \in Contexts, Contexts = {c}, TypeOK, Stopped(c) \/ Crash(c)
    PROVE  /\ ctx'[c] = "off" /\ tick'[c] = Idle /\ active'[c] = {}
           /\ Runs' = Runs
           /\ \A n \in Runs : /\ run'[n].at = "gone"
                              /\ run'[n].job = run[n].job /\ run'[n].direct = run[n].direct
           /\ status' = status /\ resumed' = resumed
           /\ orphans'[c] = {} \/ (orphans' = orphans /\ ctx[c] = "stopping")
<1>1. /\ ctx'[c] = "off" /\ tick'[c] = Idle /\ active'[c] = {} /\ status' = status /\ resumed' = resumed
      /\ orphans'[c] = {} \/ (orphans' = orphans /\ ctx[c] = "stopping")
      /\ Perish(c)
  BY DEF TypeOK, Stopped, Crash, SetCtx, SetTick
<1>2. RunsTyped
  BY TypeParts
<1> QED BY <1>1, <1>2, OneTyped, PerishGives

-----------------------------------------------------------------------------
(* Down is preserved.                                                      *)
LEMMA DownStep ==
    ASSUME NEW c \in Contexts, Contexts = {c}, Alone, Next
    PROVE  Down'
<1>0. TypeOK /\ InOrder /\ DOMAIN ctx = Contexts
      /\ (ctx[c] \in {"off", "recovering"} => tick[c] = Idle /\ active[c] = {} /\ \A n \in Runs : ~Live(n))
  BY DEF Alone, Shared, TypeOK, Down
<1>1. CASE ctx'[c] \in {"up", "stopping"}
  BY <1>1 DEF Down
<1>2. CASE UNCHANGED <<ctx, tick, active, run>>
  <2>1. Runs' = Runs
    BY <1>2 DEF Runs
  <2> QED BY <1>0, <1>2, <2>1 DEF Down, Live
<1>3. ASSUME ctx[c] \in {"up", "stopping"}, ctx' = ctx
      PROVE  Down'
  BY <1>1, <1>3
<1>4. ASSUME NEW j \in Jobs, PauseJob(j) \/ ResumeJob(j) \/ CancelJob(j) \/ Submit(c, j) \/ Requeue(c, j)
      PROVE  UNCHANGED <<ctx, tick, active, run>>
  BY <1>4 DEF PauseJob, ResumeJob, CancelJob, Submit, Requeue
<1>5. ASSUME NEW j \in Jobs, RunDirect(c, j)
      PROVE  Down'
  BY <1>3, <1>5 DEF RunDirect
<1>6. CASE Boot(c)
  <2>1. ctx[c] = "off" /\ UNCHANGED <<tick, active, run>>
    BY <1>6 DEF Boot
  <2>2. Runs' = Runs
    BY <2>1 DEF Runs
  <2> QED BY <1>0, <2>1, <2>2 DEF Down, Live
<1>7. CASE Start(c) \/ Stop(c)
  BY <1>0, <1>1, <1>7 DEF Start, Stop, SetCtx
<1>8. CASE Pick(c)
  BY <1>3, <1>8 DEF Pick
<1>9. CASE Mark(c) \/ Hand(c)
  <2>1. tick[c] # Idle /\ ctx' = ctx
    BY <1>9 DEF Mark, Hand, Idle
  <2>2. ctx[c] \in {"up", "stopping"}
    BY <1>0, <2>1, OneTyped
  <2> QED BY <1>3, <2>1, <2>2
<1>10. ASSUME NEW n \in Runs, Execute(n)
       PROVE  Down'
  <2>1. Live(n) /\ ctx' = ctx
    BY <1>0, <1>10, ExecuteGives, ExecuteWrites
  <2>2. ctx[c] \in {"up", "stopping"}
    BY <1>0, <2>1, OneTyped
  <2> QED BY <1>3, <2>1, <2>2
<1>11. CASE Stopped(c) \/ Crash(c)
  BY <1>0, <1>11, EndGives DEF Down, Live
<1> QED BY <1>2, <1>4, <1>5, <1>6, <1>7, <1>8, <1>9, <1>10, <1>11 DEF Next, User, Loop

(* OrphansFound is preserved.                                              *)
LEMMA OrphansStep ==
    ASSUME NEW c \in Contexts, Contexts = {c}, Alone, Next
    PROVE  OrphansFound'
<1>0. /\ TypeOK /\ InOrder /\ DOMAIN ctx = Contexts /\ DOMAIN status = Jobs /\ DOMAIN orphans = Contexts
      /\ ctx[c] \in {"off", "recovering"} =>
            tick[c] = Idle /\ active[c] = {} /\ \A n \in Runs : ~Live(n)
      /\ ctx[c] # "recovering" => orphans[c] = {}
      /\ ctx[c] = "recovering" => \A j \in Jobs : status[j] = "running" => j \in orphans[c]
  BY DEF Alone, Shared, TypeOK, Down, OrphansFound
<1>1. ASSUME ctx' = ctx, orphans' = orphans,
             ctx[c] = "recovering" => \A j \in Jobs : status'[j] = "running" => status[j] = "running"
      PROVE  OrphansFound'
  BY <1>0, <1>1 DEF OrphansFound
<1>2. ASSUME NEW j \in Jobs, Submit(c, j) \/ PauseJob(j) \/ ResumeJob(j) \/ CancelJob(j)
      PROVE  OrphansFound'
  <2>1. /\ ctx' = ctx /\ orphans' = orphans
        /\ \E s \in {"queued", "paused", "failed"} : status' = [status EXCEPT ![j] = s]
    BY <1>2 DEF Submit, Insert, PauseJob, ResumeJob, CancelJob, SetStatus
  <2> QED BY <1>0, <1>1, <2>1
<1>3. ASSUME NEW j \in Jobs, RunDirect(c, j)
      PROVE  OrphansFound'
  <2>1. ctx[c] = "up" /\ ctx' = ctx /\ orphans' = orphans
    BY <1>0, <1>3, RunDirectGives
  <2> QED BY <1>1, <2>1
<1>4. CASE Boot(c)
  <2>1. /\ ctx'[c] = "recovering" /\ status' = status
        /\ orphans'[c] = {j \in Jobs : status[j] = "running"}
    BY <1>0, <1>4 DEF Boot, SetCtx
  <2> QED BY <2>1 DEF OrphansFound
<1>5. ASSUME NEW j \in Jobs, Requeue(c, j)
      PROVE  OrphansFound'
  <2>1. /\ ctx[c] = "recovering" /\ ctx' = ctx /\ orphans'[c] = orphans[c] \ {j}
        /\ status'[j] = "queued" /\ \A i \in Jobs : i # j => status'[i] = status[i]
    BY <1>0, <1>5 DEF Requeue, SetStatus
  <2> QED BY <1>0, <2>1 DEF OrphansFound
<1>6. CASE Start(c)
  <2>1. ctx'[c] = "up" /\ orphans'[c] = {}
    BY <1>0, <1>6 DEF Start, SetCtx
  <2> QED BY <2>1 DEF OrphansFound
<1>7. CASE Pick(c)
  <2>1. ctx' = ctx /\ orphans' = orphans /\ status' = status
    BY <1>7 DEF Pick
  <2> QED BY <1>1, <2>1
<1>8. CASE Mark(c) \/ Hand(c)
  <2>1. ctx' = ctx /\ orphans' = orphans /\ tick[c] # Idle
    BY <1>8 DEF Mark, Hand, Idle
  <2>2. ctx[c] # "recovering"
    BY <1>0, <2>1
  <2> QED BY <1>1, <2>1, <2>2
<1>9. ASSUME NEW n \in Runs, Execute(n)
      PROVE  OrphansFound'
  <2>1. ctx' = ctx /\ orphans' = orphans /\ Live(n)
    BY <1>0, <1>9, ExecuteGives, ExecuteWrites
  <2>2. ctx[c] # "recovering"
    BY <1>0, <2>1
  <2> QED BY <1>1, <2>1, <2>2
<1>10. CASE Stop(c)
  <2>1. ctx[c] = "up" /\ ctx'[c] = "stopping" /\ orphans' = orphans
    BY <1>0, <1>10 DEF Stop, SetCtx
  <2> QED BY <1>0, <2>1 DEF OrphansFound
<1>11. CASE Stopped(c) \/ Crash(c)
  <2>1. ctx'[c] = "off" /\ orphans'[c] = {}
    BY <1>0, <1>11, EndGives
  <2> QED BY <2>1 DEF OrphansFound
<1> QED BY <1>2, <1>3, <1>4, <1>5, <1>6, <1>7, <1>8, <1>9, <1>10, <1>11 DEF Next, User, Loop

-----------------------------------------------------------------------------
(* TakenOnce is preserved by what starts nothing and takes no job back to  *)
(* the queue.                                                              *)
LEMMA TakenKept ==
    ASSUME NEW c \in Contexts, Contexts = {c}, TypeOK, InOrder, TakenOnce, Runs' = Runs,
           \A n \in Runs : /\ run'[n].job = run[n].job /\ run'[n].direct = run[n].direct
                           /\ run'[n].at # "gone" => run[n].at # "gone",
           tick'[c] = tick[c] \/ tick'[c] = Idle,
           resumed \subseteq resumed',
           \A j \in Jobs : status[j] \notin {"none", "queued"} => status'[j] \notin {"none", "queued"}
    PROVE  TakenOnce'
<1>0. /\ \A n \in Runs : run[n].job \in Jobs
      /\ tick[c].job \in Jobs \cup {NoJob}
  BY OneTyped
<1>1. \A n \in Runs' : Once(n)' => Once(n) /\ run'[n].job = run[n].job /\ n \in Runs
  BY DEF Once, Pooled, Live
<1>2. \A n \in Runs' : Once(n)' => status'[run'[n].job] \notin {"none", "queued"}
  BY <1>0, <1>1 DEF TakenOnce
<1>3. \A m, n \in Runs' : Once(m)' /\ Once(n)' /\ run'[m].job = run'[n].job => m = n
  BY <1>1 DEF TakenOnce
<1>4. tick'[c].at # "idle" => tick'[c] = tick[c]
  BY DEF Idle
<1>5. \A n \in Runs' : tick'[c].at # "idle" /\ Once(n)' => run'[n].job # tick'[c].job
  BY <1>1, <1>4 DEF TakenOnce
<1>6. tick'[c].at = "marked" /\ tick'[c].job \notin resumed' => status'[tick'[c].job] \notin {"none", "queued"}
  <2> SUFFICES ASSUME tick'[c].at = "marked", tick'[c].job \notin resumed'
               PROVE  status'[tick'[c].job] \notin {"none", "queued"}
    OBVIOUS
  <2>1. tick'[c] = tick[c] /\ tick[c].at = "marked"
    BY <1>4
  <2>2. status[tick[c].job] \notin {"none", "queued"}
    BY <2>1 DEF TakenOnce
  <2>3. tick[c].job \in Jobs
    BY <2>1 DEF InOrder
  <2> QED BY <2>1, <2>2, <2>3
<1>7. \A n \in Runs' : run'[n].direct => run'[n].job \in Direct
  BY DEF TakenOnce
<1> QED BY <1>2, <1>3, <1>5, <1>6, <1>7 DEF TakenOnce

(* TakenOnce is preserved.                                                 *)
LEMMA TakenStep ==
    ASSUME NEW c \in Contexts, Contexts = {c}, Alone, Next
    PROVE  TakenOnce'
<1>0. /\ TypeOK /\ InOrder /\ TakenOnce /\ DOMAIN status = Jobs
      /\ ctx[c] \in {"off", "recovering"} =>
            tick[c] = Idle /\ active[c] = {} /\ \A n \in Runs : ~Live(n)
      /\ \A n \in Runs : run[n].job \in Jobs
      /\ tick[c].at # "idle" => tick[c].job \in Jobs
  BY OneTyped DEF Alone, Shared, TypeOK, InOrder, Down
<1>1. /\ \A n \in Runs : Once(n) => status[run[n].job] \notin {"none", "queued"}
      /\ \A m, n \in Runs : Once(m) /\ Once(n) /\ run[m].job = run[n].job => m = n
      /\ tick[c].at # "idle" => \A n \in Runs : Once(n) => run[n].job # tick[c].job
      /\ tick[c].at = "marked" /\ tick[c].job \notin resumed => status[tick[c].job] \notin {"none", "queued"}
      /\ \A n \in Runs : run[n].direct => run[n].job \in Direct
  BY <1>0 DEF TakenOnce
<1>2. ASSUME run' = run, tick'[c] = tick[c] \/ tick'[c] = Idle, resumed' = resumed,
             \A j \in Jobs : status[j] \notin {"none", "queued"} => status'[j] \notin {"none", "queued"}
      PROVE  TakenOnce'
  <2>1. Runs' = Runs
    BY <1>2 DEF Runs
  <2> QED BY <1>0, <1>2, <2>1, TakenKept
<1>3. ASSUME NEW j \in Jobs, Submit(c, j)
      PROVE  TakenOnce'
  <2>1. /\ run' = run /\ tick' = tick /\ resumed' = resumed
        /\ status' = [status EXCEPT ![j] = "queued"] /\ status[j] = "none"
    BY <1>3 DEF Submit, Insert, SetStatus
  <2>2. \A i \in Jobs : status[i] \notin {"none", "queued"} => status'[i] \notin {"none", "queued"}
    BY <1>0, <2>1
  <2> QED BY <1>2, <2>1, <2>2
<1>12. ASSUME NEW j \in Jobs, PauseJob(j) \/ ResumeJob(j) \/ CancelJob(j)
       PROVE  TakenOnce'
  <2>1. /\ run' = run /\ Runs' = Runs /\ tick' = tick
        /\ \A i \in Jobs : i # j => status'[i] = status[i]
        /\ \/ status'[j] \in {"paused", "failed"} /\ resumed' = resumed
           \/ /\ status'[j] = "queued" /\ resumed \subseteq resumed'
              /\ j \in resumed' \/ (~InHand(j) /\ resumed' = resumed)
    BY <1>0, <1>12, ButtonGives
  <2>2. CASE status'[j] \in {"paused", "failed"} /\ resumed' = resumed
    BY <1>2, <2>1, <2>2
  <2>3. CASE status'[j] = "queued"
    <3>1. resumed \subseteq resumed' /\ (j \in resumed' \/ ~InHand(j))
      BY <2>1, <2>3
    <3>2. \A n \in Runs : Once(n)' => Once(n) /\ run[n].job # j
      BY <2>1, <3>1 DEF Once, Pooled, Live, InHand
    <3>3. tick[c].at = "marked" => tick[c] = [at |-> "marked", job |-> tick[c].job]
      BY <1>0, OneTyped
    <3>4. tick[c].at = "marked" /\ tick[c].job \notin resumed' => tick[c].job # j
      BY <3>1, <3>3 DEF InHand
    <3>5. \A n \in Runs' : Once(n)' => status'[run'[n].job] \notin {"none", "queued"}
      BY <1>0, <1>1, <2>1, <3>2
    <3>6. \A m, n \in Runs' : Once(m)' /\ Once(n)' /\ run'[m].job = run'[n].job => m = n
      BY <1>1, <2>1, <3>2
    <3>7. tick'[c].at # "idle" => \A n \in Runs' : Once(n)' => run'[n].job # tick'[c].job
      BY <1>1, <2>1, <3>2
    <3>8. tick'[c].at = "marked" /\ tick'[c].job \notin resumed' => status'[tick'[c].job] \notin {"none", "queued"}
      BY <1>0, <1>1, <2>1, <3>1, <3>4
    <3>9. \A n \in Runs' : run'[n].direct => run'[n].job \in Direct
      BY <1>1, <2>1
    <3> QED BY <3>5, <3>6, <3>7, <3>8, <3>9 DEF TakenOnce
  <2> QED BY <2>1, <2>2, <2>3
<1>4. ASSUME NEW j \in Jobs, RunDirect(c, j)
      PROVE  TakenOnce'
  <2>0. TypeOK /\ InOrder
    BY <1>0
  <2>1. /\ j \in Direct /\ status[j] = "none" /\ tick' = tick /\ resumed' = resumed
        /\ status'[j] = "queued" /\ \A i \in Jobs : i # j => status'[i] = status[i]
    BY <1>4, <2>0, RunDirectGives
  <2>2. CASE run' = run
    BY <1>2, <2>1, <2>2
  <2>3. CASE \E x \in RunIds : /\ x \notin Runs /\ Runs' = Runs \cup {x}
                              /\ run'[x].job = j /\ run'[x].direct = TRUE /\ run'[x].at = "working"
                              /\ \A n \in Runs : run'[n] = run[n]
    <3>1. PICK x \in RunIds : /\ x \notin Runs /\ Runs' = Runs \cup {x}
                              /\ run'[x].job = j /\ run'[x].direct = TRUE
                              /\ \A n \in Runs : run'[n] = run[n]
      BY <2>3
    <3>2. \A n \in Runs' : Once(n)' => n \in Runs /\ Once(n) /\ run'[n] = run[n] /\ run[n].job # j
      BY <1>1, <2>1, <3>1 DEF Once, Pooled, Live
    <3>3. tick[c].at = "marked" /\ tick[c].job \notin resumed => tick[c].job \in Jobs \ {j}
      BY <1>0, <1>1, <2>1
    <3>4. \A n \in Runs' : run'[n].direct => run'[n].job \in Direct
      BY <1>1, <2>1, <3>1
    <3>5. \A n \in Runs' : Once(n)' => status'[run'[n].job] \notin {"none", "queued"}
      BY <1>0, <1>1, <2>1, <3>2
    <3>6. \A m, n \in Runs' : Once(m)' /\ Once(n)' /\ run'[m].job = run'[n].job => m = n
      BY <1>1, <3>2
    <3>7. tick'[c].at # "idle" => \A n \in Runs' : Once(n)' => run'[n].job # tick'[c].job
      BY <1>1, <2>1, <3>2
    <3>8. tick'[c].at = "marked" /\ tick'[c].job \notin resumed' => status'[tick'[c].job] \notin {"none", "queued"}
      BY <1>1, <2>1, <3>3
    <3> QED BY <3>4, <3>5, <3>6, <3>7, <3>8 DEF TakenOnce
  <2> QED BY <1>4, <2>0, <2>2, <2>3, RunDirectGives
<1>5. ASSUME NEW j \in Jobs, Requeue(c, j)
      PROVE  TakenOnce'
  <2>1. /\ tick[c] = Idle /\ tick' = tick /\ run' = run /\ \A n \in Runs : ~Live(n)
    BY <1>0, <1>5 DEF Requeue
  <2>2. Runs' = Runs
    BY <2>1 DEF Runs
  <2> QED BY <1>1, <2>1, <2>2 DEF TakenOnce, Once, Pooled, Live, Idle
<1>6. CASE Boot(c) \/ Start(c) \/ Stop(c)
  <2>1. run' = run /\ tick' = tick /\ status' = status /\ resumed' = resumed
    BY <1>6 DEF Boot, Start, Stop
  <2> QED BY <1>2, <2>1
<1>7. CASE Pick(c)
  <2>1. /\ run' = run /\ status' = status /\ resumed' = resumed
        /\ \E j \in Queued : tick' = [tick EXCEPT ![c] = [at |-> "picked", job |-> j]]
    BY <1>7 DEF Pick, SetTick
  <2>2. PICK j \in Queued : tick'[c] = [at |-> "picked", job |-> j]
    BY <1>0, <2>1 DEF TypeOK
  <2>3. Runs' = Runs
    BY <2>1 DEF Runs
  <2>4. \A n \in Runs : Once(n) => run[n].job # j
    BY <1>1, <2>2 DEF Queued
  <2> QED BY <1>1, <2>1, <2>2, <2>3, <2>4 DEF TakenOnce, Once, Pooled, Live
<1>8. CASE Mark(c)
  <2> DEFINE j == tick[c].job
  <2>1. run' = run /\ Runs' = Runs /\ tick[c].at = "picked" /\ j \in Jobs /\ resumed' = resumed
    BY <1>0, <1>8, MarkGives
  <2>2. CASE Fault /\ tick'[c] = Idle /\ status' = status
    BY <1>2, <2>1, <2>2
  <2>3. CASE /\ status'[j] = "running" /\ \A i \in Jobs : i # j => status'[i] = status[i]
             /\ tick'[c] = [at |-> "marked", job |-> j]
    <3>1. \A n \in Runs : Once(n) => run[n].job # j
      BY <1>1, <2>1
    <3>2. tick'[c].at = "marked" /\ tick'[c].job = j
      BY <2>3
    <3>3. \A i \in Jobs : status[i] \notin {"none", "queued"} => status'[i] \notin {"none", "queued"}
      BY <2>3
    <3> HIDE DEF j
    <3>4. \A n \in Runs : Once(n)' <=> Once(n)
      BY <2>1 DEF Once, Pooled, Live
    <3>5. \A n \in Runs' : Once(n)' => status'[run'[n].job] \notin {"none", "queued"}
      BY <1>0, <1>1, <2>1, <3>3, <3>4
    <3>6. status'[j] \notin {"none", "queued"}
      BY <2>3
    <3> QED BY <1>1, <2>1, <3>1, <3>2, <3>4, <3>5, <3>6 DEF TakenOnce
  <2> QED BY <1>0, <1>8, <2>2, <2>3, MarkGives
<1>9. CASE Hand(c)
  <2> DEFINE j == tick[c].job
  <2>1. tick[c].at = "marked" /\ j \in Jobs /\ tick'[c] = Idle /\ resumed' = resumed
    BY <1>0, <1>9, HandGives
  <2>2. \A n \in Runs : Once(n) => run[n].job # j
    BY <1>1, <2>1
  <2>3. CASE status' = status /\ \E x \in RunIds :
                 /\ x \notin Runs /\ Runs' = Runs \cup {x}
                 /\ run'[x].job = j /\ run'[x].direct = FALSE /\ run'[x].at = "pooled"
                 /\ \A n \in Runs : run'[n] = run[n]
    <3>1. PICK x \in RunIds : /\ x \notin Runs /\ Runs' = Runs \cup {x}
                              /\ run'[x].job = j /\ run'[x].direct = FALSE
                              /\ \A n \in Runs : run'[n] = run[n]
      BY <2>3
    <3>2. j \notin resumed => status'[j] \notin {"none", "queued"}
      BY <1>1, <2>1, <2>3
    <3> HIDE DEF j
    <3>3. \A n \in Runs' : Once(n)' => n = x \/ (n \in Runs /\ Once(n) /\ run'[n] = run[n])
      BY <2>1, <3>1 DEF Once, Pooled, Live
    <3>0. \A n \in Runs' : Once(n)' => run'[n].job \notin resumed
      BY <2>1 DEF Once
    <3>4. \A n \in Runs' : Once(n)' => status'[run'[n].job] \notin {"none", "queued"}
      BY <1>1, <2>3, <3>0, <3>1, <3>2, <3>3
    <3>5. \A m, n \in Runs' : Once(m)' /\ Once(n)' /\ run'[m].job = run'[n].job => m = n
      BY <1>1, <2>2, <3>1, <3>3
    <3>6. \A n \in Runs' : run'[n].direct => run'[n].job \in Direct
      BY <1>1, <3>1
    <3> QED BY <2>1, <3>4, <3>5, <3>6 DEF TakenOnce, Idle
  <2>4. CASE /\ status'[j] = "queued" /\ \A i \in Jobs : i # j => status'[i] = status[i]
             /\ run' = run /\ Runs' = Runs
    <3> HIDE DEF j
    <3>1. \A n \in Runs' : Once(n)' => Once(n) /\ run'[n] = run[n] /\ run[n].job # j
      BY <2>1, <2>2, <2>4 DEF Once, Pooled, Live
    <3>2. \A n \in Runs' : Once(n)' => status'[run'[n].job] \notin {"none", "queued"}
      BY <1>0, <1>1, <2>4, <3>1
    <3> QED BY <1>1, <2>1, <2>4, <3>1, <3>2 DEF TakenOnce, Idle
  <2>5. CASE status' = status /\ run' = run
    BY <1>2, <2>1, <2>5
  <2> QED BY <1>0, <1>9, <2>3, <2>4, <2>5, HandGives
<1>10. ASSUME NEW n \in Runs, Execute(n)
       PROVE  TakenOnce'
  <2>1. /\ Runs' = Runs /\ run'[n].job = run[n].job /\ run'[n].direct = run[n].direct
        /\ \A m \in Runs : m # n => run'[m] = run[m]
        /\ Live(n)
    BY <1>0, <1>10, ExecuteGives
  <2>2. /\ tick' = tick /\ resumed' = resumed
        /\ \A i \in Jobs : i # run[n].job => status'[i] = status[i]
        /\ status'[run[n].job] \in {status[run[n].job], "completed", "failed"}
    BY <1>0, <1>10, ExecuteWrites
  <2>3. \A m \in Runs : /\ run'[m].job = run[m].job /\ run'[m].direct = run[m].direct
                        /\ run'[m].at # "gone" => run[m].at # "gone"
    BY <2>1 DEF Live
  <2>4. \A i \in Jobs : status[i] \notin {"none", "queued"} => status'[i] \notin {"none", "queued"}
    BY <2>2
  <2> QED BY <1>0, <2>1, <2>2, <2>3, <2>4, TakenKept
<1>11. CASE Stopped(c) \/ Crash(c)
  <2>1. /\ tick'[c] = Idle /\ Runs' = Runs /\ status' = status /\ resumed' = resumed
        /\ \A n \in Runs : /\ run'[n].at = "gone"
                           /\ run'[n].job = run[n].job /\ run'[n].direct = run[n].direct
    BY <1>0, <1>11, EndGives
  <2> QED BY <1>0, <2>1, TakenKept
<1> QED BY <1>3, <1>4, <1>5, <1>6, <1>7, <1>8, <1>9, <1>10, <1>11, <1>12 DEF Next, User, Loop

-----------------------------------------------------------------------------
(* RunningInHand is preserved by what makes no row running and takes       *)
(* nothing out of hand that is.                                            *)
LEMMA RunningKept ==
    ASSUME NEW c \in Contexts, Contexts = {c}, RunningInHand,
           faults' = 0 => faults = 0,
           ctx'[c] \in {"up", "stopping"} => ctx[c] \in {"up", "stopping"},
           \A j \in Jobs : faults' = 0 /\ status'[j] = "running" =>
               /\ status[j] = "running"
               /\ \A n \in Runs : Unrecorded(n) /\ run[n].job = j =>
                      n \in Runs' /\ Unrecorded(n)' /\ run'[n].job = j,
           tick[c].at = "marked" => tick'[c] = tick[c]
    PROVE  RunningInHand'
<1> SUFFICES ASSUME faults' = 0, ctx'[c] \in {"up", "stopping"}, NEW j \in Jobs, status'[j] = "running"
             PROVE  \/ \E n \in Runs' : Unrecorded(n)' /\ run'[n].job = j
                    \/ tick'[c] = [at |-> "marked", job |-> j]
  BY DEF RunningInHand
<1>1. \/ \E n \in Runs : Unrecorded(n) /\ run[n].job = j
      \/ tick[c] = [at |-> "marked", job |-> j]
  BY DEF RunningInHand
<1>2. ASSUME NEW n \in Runs, Unrecorded(n) /\ run[n].job = j
      PROVE  n \in Runs' /\ Unrecorded(n)' /\ run'[n].job = j
  BY <1>2
<1>3. tick[c] = [at |-> "marked", job |-> j] => tick[c].at = "marked"
  OBVIOUS
<1> QED BY <1>1, <1>2, <1>3

(* RunningInHand is preserved.                                             *)
LEMMA RunningStep ==
    ASSUME NEW c \in Contexts, Contexts = {c}, Alone, Next
    PROVE  RunningInHand'
<1>0. TypeOK /\ InOrder /\ RunningInHand /\ DOMAIN status = Jobs /\ DOMAIN ctx = Contexts /\ faults \in Nat
  BY OneTyped DEF Alone, Shared, TypeOK
<1>1. /\ ctx[c] \in {"off", "recovering"} =>
            tick[c] = Idle /\ active[c] = {} /\ \A n \in Runs : ~Live(n)
      /\ ctx[c] = "recovering" => \A j \in Jobs : status[j] = "running" => j \in orphans[c]
  BY DEF Alone, Down, OrphansFound
<1>2. CASE faults' # 0 \/ ctx'[c] \in {"off", "recovering"}
  BY <1>2 DEF RunningInHand
<1>3. ASSUME run' = run, tick[c].at = "marked" => tick'[c] = tick[c],
             faults' = faults,
             ctx'[c] \in {"up", "stopping"} => ctx[c] \in {"up", "stopping"},
             \A j \in Jobs : status'[j] = "running" => status[j] = "running"
      PROVE  RunningInHand'
  <2>1. Runs' = Runs
    BY <1>3 DEF Runs
  <2>2. \A n \in Runs : Unrecorded(n)' <=> Unrecorded(n)
    BY <1>3 DEF Unrecorded
  <2> QED BY <1>0, <1>3, <2>1, <2>2, RunningKept
<1>4. ASSUME NEW j \in Jobs, Submit(c, j) \/ PauseJob(j) \/ ResumeJob(j) \/ CancelJob(j)
      PROVE  RunningInHand'
  <2>1. /\ UNCHANGED <<run, tick, faults, ctx>>
        /\ \E s \in {"queued", "paused", "failed"} : status' = [status EXCEPT ![j] = s]
    BY <1>4 DEF Submit, Insert, PauseJob, ResumeJob, CancelJob, SetStatus
  <2>2. \A i \in Jobs : status'[i] = "running" => status[i] = "running"
    BY <1>0, <2>1
  <2> QED BY <1>3, <2>1, <2>2
<1>5. ASSUME NEW j \in Jobs, RunDirect(c, j)
      PROVE  RunningInHand'
  <2>0. TypeOK /\ InOrder
    BY <1>0
  <2>1. /\ status'[j] = "queued" /\ UNCHANGED <<ctx, tick>>
        /\ \A i \in Jobs : i # j => status'[i] = status[i]
    BY <1>5, <2>0, RunDirectGives
  <2>2. CASE Fault
    BY <1>0, <1>2, <2>2 DEF Fault
  <2>3. CASE faults' = faults /\ \E x \in RunIds : /\ x \notin Runs /\ Runs' = Runs \cup {x}
                                                 /\ run'[x].job = j /\ run'[x].direct = TRUE /\ run'[x].at = "working"
                                                 /\ \A n \in Runs : run'[n] = run[n]
    <3>1. \A n \in Runs : n \in Runs' /\ run'[n] = run[n] /\ (Unrecorded(n)' <=> Unrecorded(n))
      BY <2>3 DEF Unrecorded
    <3>2. \A i \in Jobs : status'[i] = "running" => status[i] = "running"
      BY <2>1
    <3> QED BY <1>0, <2>1, <2>3, <3>1, <3>2, RunningKept
  <2> QED BY <1>5, <2>0, <2>2, <2>3, RunDirectGives
<1>6. ASSUME NEW j \in Jobs, Requeue(c, j)
      PROVE  RunningInHand'
  BY <1>2, <1>6 DEF Requeue
<1>7. CASE Boot(c) \/ Stopped(c) \/ Crash(c)
  <2>1. ctx'[c] \in {"off", "recovering"}
    BY <1>0, <1>7 DEF Boot, Stopped, Crash, SetCtx
  <2> QED BY <1>2, <2>1
<1>8. CASE Start(c)
  <2>1. \A j \in Jobs : status'[j] # "running"
    BY <1>1, <1>8 DEF Start
  <2> QED BY <2>1 DEF RunningInHand
<1>9. CASE Stop(c)
  <2>1. ctx[c] = "up" /\ UNCHANGED <<run, tick, faults, status>>
    BY <1>9 DEF Stop
  <2> QED BY <1>3, <2>1
<1>10. CASE Pick(c)
  <2>1. tick[c].at # "marked" /\ UNCHANGED <<run, faults, status, ctx>>
    BY <1>10 DEF Pick, Idle
  <2> QED BY <1>3, <2>1
<1>11. CASE Mark(c)
  <2> DEFINE j == tick[c].job
  <2>0. TypeOK /\ InOrder
    BY <1>0
  <2>1. run' = run /\ Runs' = Runs /\ tick[c].at = "picked" /\ ctx' = ctx
    BY <1>11, <2>0, MarkGives
  <2>2. CASE Fault
    BY <1>0, <1>2, <2>2 DEF Fault
  <2>3. CASE /\ status'[j] = "running" /\ \A i \in Jobs : i # j => status'[i] = status[i]
             /\ tick'[c] = [at |-> "marked", job |-> j] /\ faults' = faults
    <3> SUFFICES ASSUME faults' = 0, ctx'[c] \in {"up", "stopping"}, NEW i \in Jobs, status'[i] = "running"
                 PROVE  \/ \E n \in Runs' : Unrecorded(n)' /\ run'[n].job = i
                        \/ tick'[c] = [at |-> "marked", job |-> i]
      BY DEF RunningInHand
    <3>1. CASE i = j
      BY <2>3, <3>1
    <3>2. CASE i # j
      <4>1. status[i] = "running" /\ faults = 0 /\ ctx[c] \in {"up", "stopping"}
        BY <2>1, <2>3, <3>2
      <4>2. tick[c] # [at |-> "marked", job |-> i]
        BY <2>1
      <4>3. PICK n \in Runs : Unrecorded(n) /\ run[n].job = i
        BY <1>0, <4>1, <4>2 DEF RunningInHand
      <4>4. n \in Runs' /\ Unrecorded(n)' /\ run'[n].job = i
        BY <2>1, <4>3 DEF Unrecorded
      <4> QED BY <4>4
    <3> QED BY <3>1, <3>2
  <2> QED BY <1>11, <2>0, <2>2, <2>3, MarkGives
<1>12. CASE Hand(c)
  <2> DEFINE j == tick[c].job
  <2>0. TypeOK /\ InOrder
    BY <1>0
  <2>1. tick[c] = [at |-> "marked", job |-> j] /\ ctx' = ctx
    BY <1>12, <2>0, HandGives
  <2>2. CASE Fault
    BY <1>0, <1>2, <2>2 DEF Fault
  <2>3. CASE /\ status' = status /\ faults' = faults
             /\ \E x \in RunIds : /\ x \notin Runs /\ Runs' = Runs \cup {x}
                                  /\ run'[x].job = j /\ run'[x].direct = FALSE /\ run'[x].at = "pooled"
                                  /\ \A n \in Runs : run'[n] = run[n]
    <3> SUFFICES ASSUME faults' = 0, ctx'[c] \in {"up", "stopping"}, NEW i \in Jobs, status'[i] = "running"
                 PROVE  \/ \E n \in Runs' : Unrecorded(n)' /\ run'[n].job = i
                        \/ tick'[c] = [at |-> "marked", job |-> i]
      BY DEF RunningInHand
    <3>1. PICK x \in RunIds : /\ Runs' = Runs \cup {x} /\ run'[x].job = j /\ run'[x].at = "pooled"
                              /\ \A n \in Runs : run'[n] = run[n]
      BY <2>3
    <3>2. \/ \E n \in Runs : Unrecorded(n) /\ run[n].job = i
          \/ tick[c] = [at |-> "marked", job |-> i]
      BY <1>0, <2>1, <2>3 DEF RunningInHand
    <3>3. CASE tick[c] = [at |-> "marked", job |-> i]
      <4>1. i = j
        BY <3>3
      <4>2. x \in Runs' /\ Unrecorded(x)' /\ run'[x].job = i
        BY <3>1, <4>1 DEF Unrecorded
      <4> QED BY <4>2
    <3>4. ASSUME NEW n \in Runs, Unrecorded(n) /\ run[n].job = i
          PROVE  n \in Runs' /\ Unrecorded(n)' /\ run'[n].job = i
      BY <3>1, <3>4 DEF Unrecorded
    <3> QED BY <3>2, <3>3, <3>4
  <2>4. CASE /\ status'[j] = "queued" /\ \A i \in Jobs : i # j => status'[i] = status[i]
             /\ run' = run /\ Runs' = Runs /\ faults' = faults
    <3> SUFFICES ASSUME faults' = 0, ctx'[c] \in {"up", "stopping"}, NEW i \in Jobs, status'[i] = "running"
                 PROVE  \E n \in Runs' : Unrecorded(n)' /\ run'[n].job = i
      BY DEF RunningInHand
    <3>1. i # j /\ status[i] = "running"
      BY <2>4
    <3>2. tick[c] # [at |-> "marked", job |-> i]
      BY <3>1
    <3>3. PICK n \in Runs : Unrecorded(n) /\ run[n].job = i
      BY <1>0, <2>1, <2>4, <3>1, <3>2 DEF RunningInHand
    <3>4. n \in Runs' /\ Unrecorded(n)' /\ run'[n].job = i
      BY <2>4, <3>3 DEF Unrecorded
    <3> QED BY <3>4
  <2> QED BY <1>12, <2>0, <2>2, <2>3, <2>4, HandGives
<1>13. ASSUME NEW n \in Runs, Execute(n)
       PROVE  RunningInHand'
  <2>0. TypeOK
    BY <1>0
  <2>1. /\ Runs' = Runs /\ run'[n].job = run[n].job
        /\ \A m \in Runs : m # n => run'[m] = run[m]
    BY <1>13, <2>0, ExecuteGives
  <2>2. Unrecorded(n) /\ faults' = faults => Unrecorded(n)' \/ run[n].at \in {"returned", "raised"}
    BY <1>0, <1>13, <2>0, ExecuteGives DEF Unrecorded, Fault
  <2>3. /\ tick' = tick /\ ctx' = ctx
        /\ faults' = 0 => faults = 0 /\ faults' = faults
        /\ \A i \in Jobs : i # run[n].job => status'[i] = status[i]
        /\ status'[run[n].job] \in {status[run[n].job], "completed", "failed"}
        /\ run[n].at \in {"returned", "raised"} /\ faults' = 0 =>
               status'[run[n].job] \in {"completed", "failed"}
    BY <1>13, <2>0, ExecuteWrites
  <2>4. ASSUME NEW j \in Jobs, faults' = 0, status'[j] = "running"
        PROVE  /\ status[j] = "running"
               /\ \A m \in Runs : Unrecorded(m) /\ run[m].job = j =>
                      m \in Runs' /\ Unrecorded(m)' /\ run'[m].job = j
    <3>1. status[j] = "running"
      BY <2>3, <2>4
    <3>2. ASSUME NEW m \in Runs, Unrecorded(m), run[m].job = j
          PROVE  m \in Runs' /\ Unrecorded(m)' /\ run'[m].job = j
      <4>1. CASE m # n
        BY <2>1, <3>2, <4>1 DEF Unrecorded
      <4>2. CASE m = n
        <5>1. run[n].at \notin {"returned", "raised"}
          BY <2>3, <2>4, <3>2, <4>2
        <5> QED BY <2>1, <2>2, <2>3, <2>4, <3>2, <4>2, <5>1
      <4> QED BY <4>1, <4>2
    <3> QED BY <3>1, <3>2
  <2> QED BY <1>0, <2>3, <2>4, RunningKept
<1> QED BY <1>4, <1>5, <1>6, <1>7, <1>8, <1>9, <1>10, <1>11, <1>12, <1>13 DEF Next, User, Loop

-----------------------------------------------------------------------------
(* ActiveHeld is preserved where what is in hand and _active stay.         *)
LEMMA HeldKept ==
    ASSUME NEW c \in Contexts, Contexts = {c}, ActiveHeld,
           faults' = 0 => faults = 0 /\ active'[c] = active[c],
           resumed \subseteq resumed',
           \A n \in Runs : Pooled(n) => n \in Runs' /\ Pooled(n)' /\ run'[n].job = run[n].job,
           \A n \in Runs' : Pooled(n)' => n \in Runs /\ Pooled(n) /\ run'[n].job = run[n].job,
           tick'[c] = tick[c] \/ (tick[c].at # "marked" /\ tick'[c].at # "marked")
    PROVE  ActiveHeld'
<1> SUFFICES ASSUME faults' = 0, NEW j \in Jobs
             PROVE  /\ j \in active'[c] => Holds(c, j)'
                    /\ Holds(c, j)' /\ j \notin resumed' => j \in active'[c]
  BY DEF ActiveHeld
<1>1. /\ j \in active[c] => Holds(c, j)
      /\ Holds(c, j) /\ j \notin resumed => j \in active[c]
  BY DEF ActiveHeld
<1>2. tick'[c] = [at |-> "marked", job |-> j] <=> tick[c] = [at |-> "marked", job |-> j]
  OBVIOUS
<1>3. (\E n \in Runs' : Pooled(n)' /\ run'[n].job = j) <=> (\E n \in Runs : Pooled(n) /\ run[n].job = j)
  OBVIOUS
<1>4. Holds(c, j)' <=> Holds(c, j)
  BY <1>2, <1>3 DEF Holds
<1> QED BY <1>1, <1>4

(* ActiveHeld is preserved.                                                *)
LEMMA HeldStep ==
    ASSUME NEW c \in Contexts, Contexts = {c}, Alone, Next
    PROVE  ActiveHeld'
<1>0. TypeOK /\ InOrder /\ ActiveHeld /\ faults \in Nat /\ active[c] \subseteq Jobs
  BY OneTyped DEF Alone, Shared
<1>1. /\ \A m, n \in Runs : Once(m) /\ Once(n) /\ run[m].job = run[n].job => m = n
      /\ tick[c].at # "idle" => \A n \in Runs : Once(n) => run[n].job # tick[c].job
  BY DEF Alone, TakenOnce
<1>2. faults = 0 => \A j \in Jobs : /\ j \in active[c] => Holds(c, j)
                                    /\ Holds(c, j) /\ j \notin resumed => j \in active[c]
  BY <1>0 DEF ActiveHeld
<1>3. ASSUME faults' = 0 => \A j \in Jobs : /\ j \in active'[c] => Holds(c, j)'
                                            /\ Holds(c, j)' /\ j \notin resumed' => j \in active'[c]
      PROVE  ActiveHeld'
  BY <1>3 DEF ActiveHeld
<1>4. ASSUME run' = run, active' = active, faults' = faults, resumed \subseteq resumed',
             tick'[c] = tick[c] \/ (tick[c].at # "marked" /\ tick'[c].at # "marked")
      PROVE  ActiveHeld'
  <2>1. Runs' = Runs
    BY <1>4 DEF Runs
  <2>2. \A n \in Runs : Pooled(n)' <=> Pooled(n)
    BY <1>4 DEF Pooled, Live
  <2> QED BY <1>0, <1>4, <2>1, <2>2, HeldKept
<1>5. ASSUME NEW j \in Jobs, Submit(c, j) \/ Requeue(c, j)
      PROVE  ActiveHeld'
  <2>1. UNCHANGED <<run, active, faults, tick, resumed>>
    BY <1>5 DEF Submit, Requeue
  <2> QED BY <1>4, <2>1
<1>13. ASSUME NEW j \in Jobs, PauseJob(j) \/ ResumeJob(j) \/ CancelJob(j)
       PROVE  ActiveHeld'
  <2>1. UNCHANGED <<run, active, faults, tick>> /\ resumed \subseteq resumed'
    BY <1>0, <1>13, ButtonGives
  <2> QED BY <1>4, <2>1
<1>6. CASE Boot(c) \/ Start(c) \/ Stop(c)
  <2>1. UNCHANGED <<run, active, faults, tick, resumed>>
    BY <1>6 DEF Boot, Start, Stop
  <2> QED BY <1>4, <2>1
<1>7. ASSUME NEW j \in Jobs, RunDirect(c, j)
      PROVE  ActiveHeld'
  <2>0. TypeOK /\ InOrder
    BY <1>0
  <2>1. UNCHANGED <<active, tick, resumed>>
    BY <1>7, <2>0, RunDirectGives
  <2>2. CASE Fault
    BY <1>0, <1>3, <2>2 DEF Fault
  <2>3. CASE faults' = faults /\ \E x \in RunIds : /\ x \notin Runs /\ Runs' = Runs \cup {x}
                                                 /\ run'[x].job = j /\ run'[x].direct = TRUE /\ run'[x].at = "working"
                                                 /\ \A n \in Runs : run'[n] = run[n]
    <3>1. PICK x \in RunIds : /\ x \notin Runs /\ Runs' = Runs \cup {x} /\ run'[x].direct = TRUE
                              /\ \A n \in Runs : run'[n] = run[n]
      BY <2>3
    <3>2. \A n \in Runs : n \in Runs' /\ run'[n] = run[n] /\ (Pooled(n)' <=> Pooled(n))
      BY <3>1 DEF Pooled, Live
    <3>3. \A n \in Runs' : Pooled(n)' => n \in Runs
      BY <3>1 DEF Pooled, Live
    <3> QED BY <1>0, <2>1, <2>3, <3>2, <3>3, HeldKept
  <2> QED BY <1>7, <2>0, <2>2, <2>3, RunDirectGives
<1>8. CASE Pick(c)
  <2>1. /\ UNCHANGED <<run, active, faults, resumed>> /\ tick[c] = Idle
        /\ \E j \in Queued : tick' = [tick EXCEPT ![c] = [at |-> "picked", job |-> j]]
    BY <1>8 DEF Pick, SetTick
  <2>2. tick[c].at # "marked" /\ tick'[c].at # "marked"
    BY <1>0, <2>1 DEF TypeOK, Idle
  <2> QED BY <1>4, <2>1, <2>2
<1>9. CASE Mark(c)
  <2> DEFINE j == tick[c].job
  <2>0. TypeOK /\ InOrder
    BY <1>0
  <2>1. /\ run' = run /\ Runs' = Runs /\ tick[c].at = "picked" /\ active'[c] = active[c] \cup {j}
        /\ resumed' = resumed
    BY <1>9, <2>0, MarkGives
  <2>2. CASE Fault
    BY <1>0, <1>3, <2>2 DEF Fault
  <2>3. CASE tick'[c] = [at |-> "marked", job |-> j] /\ faults' = faults
    <3> HIDE DEF j
    <3>1. ASSUME faults' = 0, NEW i \in Jobs
          PROVE  /\ i \in active'[c] => Holds(c, i)'
                 /\ Holds(c, i)' /\ i \notin resumed' => i \in active'[c]
      <4>1. tick[c] # [at |-> "marked", job |-> i]
        BY <2>1
      <4>2. /\ i \in active[c] => \E n \in Runs : Pooled(n) /\ run[n].job = i
            /\ (\E n \in Runs : Pooled(n) /\ run[n].job = i) /\ i \notin resumed => i \in active[c]
        BY <1>2, <2>3, <3>1, <4>1 DEF Holds
      <4>3. (\E n \in Runs' : Pooled(n)' /\ run'[n].job = i) <=> \E n \in Runs : Pooled(n) /\ run[n].job = i
        BY <2>1 DEF Pooled, Live
      <4>4. tick'[c] = [at |-> "marked", job |-> i] <=> i = j
        BY <2>3
      <4> QED BY <2>1, <4>2, <4>3, <4>4 DEF Holds
    <3> QED BY <1>3, <3>1
  <2> QED BY <1>9, <2>0, <2>2, <2>3, MarkGives
<1>10. CASE Hand(c)
  <2> DEFINE j == tick[c].job
  <2>0. TypeOK /\ InOrder
    BY <1>0
  <2>1. tick[c] = [at |-> "marked", job |-> j] /\ tick'[c] = Idle /\ tick[c].at = "marked" /\ resumed' = resumed
    BY <1>10, <2>0, HandGives
  <2>2. CASE Fault
    BY <1>0, <1>3, <2>2 DEF Fault
  <2>3. \A n \in Runs : Once(n) => run[n].job # j
    BY <1>1, <2>1
  <2>4. \A i : tick'[c] # [at |-> "marked", job |-> i]
    BY <2>1 DEF Idle
  <2>7. \A i \in Jobs : Holds(c, i) <=> (\E n \in Runs : Pooled(n) /\ run[n].job = i) \/ i = j
    <3>1. \A i \in Jobs : tick[c] = [at |-> "marked", job |-> i] => i = j
      OBVIOUS
    <3> HIDE DEF j
    <3>2. \A i \in Jobs : tick[c] = [at |-> "marked", job |-> i] <=> i = j
      BY <2>1, <3>1
    <3> QED BY <3>2 DEF Holds
  <2>5. CASE /\ active' = active /\ faults' = faults
             /\ \E x \in RunIds : /\ x \notin Runs /\ Runs' = Runs \cup {x}
                                  /\ run'[x].job = j /\ run'[x].direct = FALSE /\ run'[x].at = "pooled"
                                  /\ \A n \in Runs : run'[n] = run[n]
    <3>1. PICK x \in RunIds : /\ x \notin Runs /\ Runs' = Runs \cup {x}
                              /\ run'[x].job = j /\ run'[x].direct = FALSE /\ run'[x].at = "pooled"
                              /\ \A n \in Runs : run'[n] = run[n]
      BY <2>5
    <3>2. Pooled(x)' /\ \A n \in Runs : (Pooled(n)' <=> Pooled(n)) /\ run'[n].job = run[n].job
      BY <3>1 DEF Pooled, Live
    <3>3. ASSUME NEW i \in Jobs
          PROVE  Holds(c, i)' <=> Holds(c, i)
      <4>1. (\E n \in Runs' : Pooled(n)' /\ run'[n].job = i) <=>
                (\E n \in Runs : Pooled(n) /\ run[n].job = i) \/ i = j
        <5> HIDE DEF j
        <5> QED BY <3>1, <3>2
      <4> QED BY <2>4, <2>7, <4>1 DEF Holds
    <3> QED BY <1>2, <1>3, <2>1, <2>5, <3>3
  <2>6. CASE active'[c] = active[c] \ {j} /\ faults' = faults /\ run' = run /\ Runs' = Runs
    <3>1. ASSUME faults' = 0, NEW i \in Jobs
          PROVE  /\ i \in active'[c] => Holds(c, i)'
                 /\ Holds(c, i)' /\ i \notin resumed' => i \in active'[c]
      <4>1. (\E n \in Runs' : Pooled(n)' /\ run'[n].job = i) <=> \E n \in Runs : Pooled(n) /\ run[n].job = i
        BY <2>6 DEF Pooled, Live
      <4>2. Holds(c, i)' <=> \E n \in Runs : Pooled(n) /\ run[n].job = i
        BY <2>4, <4>1 DEF Holds
      <4>3. i = j /\ i \notin resumed => ~ \E n \in Runs : Pooled(n) /\ run[n].job = i
        <5> HIDE DEF j
        <5> QED BY <2>3 DEF Once
      <4>4. /\ i \in active[c] => Holds(c, i)
            /\ Holds(c, i) /\ i \notin resumed => i \in active[c]
        BY <1>2, <2>6, <3>1
      <4> HIDE DEF j
      <4> QED BY <2>1, <2>6, <2>7, <4>2, <4>3, <4>4
    <3> QED BY <1>3, <3>1
  <2> QED BY <1>10, <2>0, <2>2, <2>5, <2>6, HandGives
<1>11. ASSUME NEW n \in Runs, Execute(n)
       PROVE  ActiveHeld'
  <2>0. TypeOK
    BY <1>0
  <2>1. /\ Runs' = Runs /\ run'[n].job = run[n].job /\ run'[n].direct = run[n].direct
        /\ \A m \in Runs : m # n => run'[m] = run[m]
        /\ Live(n) /\ run[n].job \in Jobs
    BY <1>11, <2>0, ExecuteGives
  <2>2. faults' = faults => (run'[n].at = "gone" <=> run[n].at = "closing")
    BY <1>0, <1>11, <2>0, ExecuteGives DEF Fault
  <2>3. /\ tick' = tick /\ resumed' = resumed
        /\ faults' = 0 => faults = 0 /\ faults' = faults
        /\ run[n].at # "closing" \/ run[n].direct => active'[c] = active[c]
        /\ run[n].at = "closing" /\ ~run[n].direct => active'[c] = active[c] \ {run[n].job}
    BY <1>11, <2>0, ExecuteWrites
  <2>4. \A m \in Runs : m # n => (Pooled(m)' <=> Pooled(m)) /\ run'[m].job = run[m].job
    BY <2>1 DEF Pooled, Live
  <2>5. CASE faults' # 0
    BY <1>3, <2>5
  <2>6. CASE faults' = 0 /\ (run[n].at # "closing" \/ run[n].direct)
    <3>1. Pooled(n)' <=> Pooled(n)
      BY <2>1, <2>2, <2>3, <2>6 DEF Pooled, Live
    <3> QED BY <1>0, <2>1, <2>3, <2>4, <2>6, <3>1, HeldKept
  <2>7. CASE faults' = 0 /\ run[n].at = "closing" /\ ~run[n].direct
    <3>1. Pooled(n) /\ ~Pooled(n)'
      BY <2>1, <2>2, <2>3, <2>7 DEF Pooled, Live
    <3>2. run[n].job \notin resumed => tick[c] # [at |-> "marked", job |-> run[n].job]
      <4> SUFFICES ASSUME run[n].job \notin resumed, tick[c] = [at |-> "marked", job |-> run[n].job] PROVE FALSE
        OBVIOUS
      <4>1. tick[c].at = "marked" /\ tick[c].job = run[n].job
        OBVIOUS
      <4> QED BY <1>1, <3>1, <4>1 DEF Once
    <3>3. ASSUME NEW i \in Jobs
          PROVE  /\ i \in active'[c] => Holds(c, i)'
                 /\ Holds(c, i)' /\ i \notin resumed' => i \in active'[c]
      <4>1. /\ i \in active[c] => Holds(c, i)
            /\ Holds(c, i) /\ i \notin resumed => i \in active[c]
        BY <1>2, <2>3, <2>7
      <4>2. CASE i = run[n].job
        <5>1. i \notin resumed => ~ \E m \in Runs' : Pooled(m)' /\ run'[m].job = i
          BY <1>1, <2>1, <2>4, <3>1, <4>2 DEF Once
        <5>2. i \notin resumed => ~Holds(c, i)'
          BY <2>3, <3>2, <4>2, <5>1 DEF Holds
        <5> QED BY <2>3, <2>7, <4>2, <5>2
      <4>3. CASE i # run[n].job
        <5>1. (\E m \in Runs' : Pooled(m)' /\ run'[m].job = i) <=> \E m \in Runs : Pooled(m) /\ run[m].job = i
          BY <2>1, <2>4, <4>3
        <5>2. Holds(c, i)' <=> Holds(c, i)
          BY <2>3, <5>1 DEF Holds
        <5> QED BY <2>3, <2>7, <4>1, <4>3, <5>2
      <4> QED BY <4>2, <4>3
    <3> QED BY <1>3, <3>3
  <2> QED BY <2>5, <2>6, <2>7
<1>12. CASE Stopped(c) \/ Crash(c)
  <2>1. /\ tick'[c] = Idle /\ active'[c] = {} /\ Runs' = Runs
        /\ \A n \in Runs : run'[n].at = "gone"
    BY <1>0, <1>12, EndGives
  <2>2. \A j \in Jobs : j \notin active'[c] /\ ~Holds(c, j)'
    BY <2>1 DEF Holds, Pooled, Live, Idle
  <2> QED BY <1>3, <2>2
<1> QED BY <1>5, <1>6, <1>7, <1>8, <1>9, <1>10, <1>11, <1>12, <1>13 DEF Next, User, Loop

-----------------------------------------------------------------------------
(* Alone is inductive, for one context.                                    *)
LEMMA InitAlone == Init => Alone
<1> SUFFICES ASSUME Init PROVE Alone
  OBVIOUS
<1>1. Shared
  BY InitShared
<1>2. Runs = {}
  BY DEF Init, Runs
<1>3. Down /\ OrphansFound /\ TakenOnce
  BY <1>2 DEF Init, Down, OrphansFound, TakenOnce, Idle
<1>4. RunningInHand /\ ActiveHeld
  BY <1>2 DEF Init, RunningInHand, ActiveHeld, Holds, Idle
<1> QED BY <1>1, <1>3, <1>4 DEF Alone

LEMMA AloneStep ==
    ASSUME OneContext
    PROVE  Alone /\ [Next]_vars => Alone'
<1> SUFFICES ASSUME Alone, [Next]_vars PROVE Alone'
  OBVIOUS
<1>1. Shared'
  BY SharedStep DEF Alone
<1>2. CASE Next
  <2>1. PICK c : Contexts = {c}
    BY DEF OneContext
  <2>2. c \in Contexts
    BY <2>1
  <2>3. Down' /\ OrphansFound' /\ TakenOnce'
    BY <1>2, <2>1, <2>2, DownStep, OrphansStep, TakenStep
  <2>4. RunningInHand' /\ ActiveHeld'
    BY <1>2, <2>1, <2>2, RunningStep, HeldStep
  <2> QED BY <1>1, <2>3, <2>4 DEF Alone
<1>3. CASE UNCHANGED vars
  <2>1. Runs' = Runs /\ UNCHANGED <<status, ctx, orphans, tick, active, run, faults, resumed>>
    BY <1>3 DEF vars, Runs
  <2>2. Down' /\ OrphansFound' /\ TakenOnce'
    BY <2>1 DEF Alone, Down, OrphansFound, TakenOnce, Once, Pooled, Live
  <2>3. RunningInHand' /\ ActiveHeld'
    BY <2>1 DEF Alone, RunningInHand, ActiveHeld, Holds, Pooled, Live, Unrecorded
  <2> QED BY <1>1, <2>2, <2>3 DEF Alone
<1> QED BY <1>2, <1>3

(* With one context, Alone always holds.                                   *)
THEOREM AloneAlways ==
    ASSUME OneContext
    PROVE  Spec => []Alone
<1>1. Alone /\ [Next]_vars => Alone'
  BY AloneStep
<1> QED BY <1>1, InitAlone, PTL DEF Spec

(* With one context on the database, a job of the queue never has two      *)
(* executions under way unless the user resumed it when it was in hand,    *)
(* for any number of boots, deaths, pauses, cancellations and failed       *)
(* writes (Supervisor._tick, _recover_orphans).                            *)
THEOREM QueuedJobRunsOnce ==
    ASSUME OneContext
    PROVE  Spec => []OneRunPerQueuedJob
<1>1. ASSUME Alone
      PROVE  OneRunPerQueuedJob
  <2> SUFFICES ASSUME NEW m \in Runs, NEW n \in Runs, Live(m), Live(n), run[m].job = run[n].job
               PROVE  m = n \/ run[m].job \in Direct \cup resumed
    BY DEF OneRunPerQueuedJob
  <2>1. CASE run[m].direct \/ run[n].direct
    BY <1>1, <2>1 DEF Alone, TakenOnce
  <2>2. CASE ~run[m].direct /\ ~run[n].direct
    BY <1>1, <2>2 DEF Alone, TakenOnce, Once, Pooled
  <2> QED BY <2>1, <2>2
<1> QED BY <1>1, AloneAlways, PTL

(* With one context on the database, the rows, _active and the executions  *)
(* tell the same story as long as no write raises: a running row is in     *)
(* hand, _active is what is in hand (but for jobs the user resumed when    *)
(* they were), a completed job did run.                                    *)
THEOREM TheBooksAgree ==
    ASSUME OneContext
    PROVE  Spec => []BooksAgree
<1>1. ASSUME Alone
      PROVE  BooksAgree
  <2>0. PICK c \in Contexts : Contexts = {c}
    BY DEF OneContext
  <2>1. \A n \in Runs : run[n].ctx = c /\ run[n].job \in Jobs /\ run[n].direct \in BOOLEAN
    BY <1>1, <2>0, OneTyped DEF Alone, Shared
  <2>2. RunningIsHeld
    <3> SUFFICES ASSUME faults = 0, ctx[c] \in {"up", "stopping"}, NEW j \in Jobs, status[j] = "running"
                 PROVE  \/ \E n \in Runs : Live(n) /\ run[n].job = j
                        \/ tick[c] = [at |-> "marked", job |-> j]
      BY <2>0 DEF RunningIsHeld, InHand
    <3>1. \A n \in Runs : Unrecorded(n) => Live(n)
      BY DEF Unrecorded, Live
    <3> QED BY <1>1, <3>1 DEF Alone, RunningInHand
  <2>3. ActiveIsInHand
    <3>1. Cardinality(active[c]) <= MaxConcurrent
      BY <1>1 DEF Alone, Shared, Room
    <3>2. ASSUME faults = 0
          PROVE  active[c] \subseteq HeldBy(c) /\ HeldBy(c) \subseteq active[c] \cup resumed
      <4>1. \A j \in Jobs : /\ j \in active[c] => Holds(c, j)
                            /\ Holds(c, j) /\ j \notin resumed => j \in active[c]
        BY <1>1, <3>2 DEF Alone, ActiveHeld
      <4>2. active[c] \subseteq Jobs
        BY <1>1, <2>0, OneTyped DEF Alone, Shared
      <4>3. HeldBy(c) \subseteq Jobs
        BY <2>1 DEF HeldBy
      <4>4. \A j \in Jobs : j \in HeldBy(c) <=> Holds(c, j)
        BY <2>1 DEF HeldBy, Holds, Pooled
      <4> QED BY <4>1, <4>2, <4>3, <4>4
    <3> QED BY <2>0, <3>1, <3>2 DEF ActiveIsInHand
  <2>4. \A j \in Jobs : status[j] = "completed" => j \in worked
    BY <1>1 DEF Alone, Shared, WorkedFirst
  <2> QED BY <2>2, <2>3, <2>4 DEF BooksAgree
<1> QED BY <1>1, AloneAlways, PTL

(* With one context on the database, what _recover_orphans requeues is     *)
(* being executed by nobody.                                               *)
THEOREM RequeuedIsDead ==
    ASSUME OneContext
    PROVE  Spec => OrphansAreDead
<1>1. ASSUME Alone, [Next]_vars
      PROVE  [\A c \in Contexts : \A j \in orphans[c] \ orphans'[c] :
                 ctx'[c] # "off" => \A n \in Runs : run[n].job = j => ~Live(n)]_vars
  <2>1. ASSUME NEW c \in Contexts, NEW j \in orphans[c]
        PROVE  \A n \in Runs : ~Live(n)
    BY <1>1, <2>1 DEF Alone, OrphansFound, Down
  <2> QED BY <2>1
<1> QED BY <1>1, AloneAlways, PTL DEF Spec, OrphansAreDead
==============================================================================
