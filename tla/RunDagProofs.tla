---------------------------- MODULE RunDagProofs ----------------------------
(***************************************************************************)
(* Proofs about RunDag, for any set of tasks, dependencies, registered     *)
(* agents, threads and calls.  One inductive invariant, Inv, carries all   *)
(* of them: it ties what the scheduling thread believes (completed,        *)
(* pending, running, the checkpoint) to what the agents have really done   *)
(* (ran, starts).                                                          *)
(***************************************************************************)
EXTENDS RunDag, TLAPS

-----------------------------------------------------------------------------
(* What is complete, or has a successful future, did run; only agents that *)
(* are registered have futures.                                            *)
Truthful ==
    /\ completed \cap Registered \subseteq ran
    /\ \A t \in Tasks : fut[t] = "success" => t \in ran
    /\ \A t \in Tasks : fut[t] # "none" => t \in Registered
    /\ CheckpointTruthful

(* A task is in one of the three sets, and pending means not started.      *)
Apart ==
    /\ pending \cap running = {} /\ pending \cap completed = {}
    /\ \A t \in pending : starts[t] = 0
    /\ stored => ckpt \cap pending = {}

(* A future can only be in hand while a poll's finds are worked off.       *)
InHand == loop \notin {"harvest", "save", "write"} => seen = {}

(* As long as the call has not given up, no task has been dropped.         *)
Covered ==
    loop \notin {"unwind", "failed", "deadlock", "down"}
        => Tasks \subseteq completed \cup pending \cup running

(* With an agent for every task, the loop is left only with nothing to do. *)
LeftWhenDone ==
    Registered = Tasks /\ loop \in {"finish", "returned"} => pending = {} /\ running = {}

Inv ==
    /\ TypeOK
    /\ Truthful /\ Apart /\ InHand
    /\ OncePerCall /\ DependenciesFirst
    /\ Covered /\ LeftWhenDone

-----------------------------------------------------------------------------
(* The first call starts with everything pending.                          *)
LEMMA InitInv == Init => Inv
<1> SUFFICES ASSUME Init PROVE Inv
  OBVIOUS
<1>1. TypeOK
  <2>1. loop \in {"schedule", "finish"} /\ calls \in 1..MaxCalls
    BY DagAssumption DEF Init, NextPass
  <2>2. stored \in BOOLEAN
    BY Zenon DEF Init
  <2>3. completed \subseteq Tasks \cup Earlier /\ ckpt \subseteq Tasks \cup Earlier
    BY DEF Init
  <2>4. fut \in [Tasks -> {"none", "queued", "working", "success", "failed"}] /\ starts \in [Tasks -> Nat]
    BY DEF Init
  <2>5. pending \subseteq Tasks /\ running \subseteq Tasks /\ seen \subseteq running /\ ran \subseteq Registered
    BY DEF Init
  <2>6. loop \in {"schedule", "poll", "harvest", "save", "write", "unwind", "finish"} \cup Ended
    BY <2>1
  <2> QED BY <2>1, <2>2, <2>3, <2>4, <2>5, <2>6 DEF TypeOK
<1>2. Truthful /\ Apart /\ InHand
  <2>1. ckpt \cap Tasks = {} /\ completed = ckpt /\ Registered \subseteq Tasks
    BY DagAssumption DEF Init
  <2> QED BY <2>1 DEF Init, Truthful, CheckpointTruthful, Apart, InHand
<1>3. OncePerCall /\ DependenciesFirst
  BY DEF Init, OncePerCall, DependenciesFirst
<1>4. Covered /\ LeftWhenDone
  BY DEF Init, NextPass, Covered, LeftWhenDone
<1> QED BY <1>1, <1>2, <1>3, <1>4 DEF Inv

(* A call after a failure, a deadlock or a crash starts from a truthful    *)
(* checkpoint, and its tasks are all unstarted.                            *)
LEMMA CallInv == Inv /\ Call => Inv'
BY DagAssumption, SMT
   DEF Call, Inv, TypeOK, Ended, NextPass, Truthful, CheckpointTruthful, Apart, InHand,
       OncePerCall, DependenciesFirst, Covered, LeftWhenDone

(* A pass submits only pending tasks whose dependencies are complete, and  *)
(* leaves the loop only when it is not blocked.                            *)
LEMMA ScheduleInv ==
    ASSUME Inv, NEW held \in SUBSET Tasks, Schedule(held)
    PROVE  Inv'
<1> DEFINE go == Ready \ held
           submitted == go \cap Registered
<1> USE DagAssumption
<1>1. /\ loop = "schedule" /\ ~Blocked /\ held \subseteq Ready
      /\ pending' = pending \ go
      /\ completed' = completed \cup (go \ Registered)
      /\ running' = running \cup submitted
      /\ fut' = [t \in Tasks |-> IF t \in submitted THEN "queued" ELSE fut[t]]
      /\ starts' = [t \in Tasks |-> IF t \in submitted THEN starts[t] + 1 ELSE starts[t]]
      /\ loop' = IF running' # {} THEN "poll"
                 ELSE IF pending' # {} /\ held # {} THEN "schedule" ELSE "finish"
      /\ UNCHANGED <<seen, stored, ckpt, ran, calls>>
  BY DEF Schedule
<1>2. go \subseteq pending /\ \A t \in go : Deps[t] \subseteq completed
  BY DEF Ready
<1> HIDE DEF go
<1>3. TypeOK'
  BY <1>1, <1>2 DEF Inv, TypeOK
<1>4. Truthful'
  BY <1>1, <1>2 DEF Inv, TypeOK, Truthful, CheckpointTruthful
<1>5. Apart'
  BY <1>1, <1>2 DEF Inv, TypeOK, Apart
<1>6. InHand'
  BY <1>1 DEF Inv, InHand
<1>7. OncePerCall'
  BY <1>1, <1>2 DEF Inv, TypeOK, Apart, OncePerCall
<1>8. DependenciesFirst'
  BY <1>1, <1>2 DEF Inv, TypeOK, Truthful, DependenciesFirst
<1>9. Covered'
  BY <1>1, <1>2 DEF Inv, TypeOK, Covered
<1>10. LeftWhenDone'
  BY <1>1 DEF Inv, TypeOK, LeftWhenDone, Blocked, Ready, go
<1> QED BY <1>3, <1>4, <1>5, <1>6, <1>7, <1>8, <1>9, <1>10 DEF Inv

(* Working off a future moves a task that did succeed to completed.        *)
LEMMA HarvestInv ==
    ASSUME Inv, NEW t \in Tasks, Harvest(t)
    PROVE  Inv'
<1>1. TypeOK'
  BY DagAssumption DEF Harvest, Inv, TypeOK, Ended, InHand, Truthful
<1>2. Truthful'
  BY DagAssumption DEF Harvest, Inv, TypeOK, Truthful, CheckpointTruthful
<1>3. Apart' /\ InHand'
  BY DagAssumption DEF Harvest, Inv, TypeOK, Apart, InHand, Ended
<1>4. OncePerCall' /\ DependenciesFirst'
  BY DagAssumption DEF Harvest, Inv, TypeOK, Truthful, OncePerCall, DependenciesFirst
<1>5. Covered' /\ LeftWhenDone'
  BY DagAssumption DEF Harvest, Inv, TypeOK, Ended, Covered, LeftWhenDone
<1> QED BY <1>1, <1>2, <1>3, <1>4, <1>5 DEF Inv

(* Saving the checkpoint: it is gone before it is there again, and what is *)
(* written is completed.                                                   *)
LEMMA SaveInv ==
    ASSUME Inv, Truncate \/ Write \/ SaveFails
    PROVE  Inv'
<1>1. CASE Truncate
  <2>1. TypeOK'
    BY <1>1, DagAssumption DEF Truncate, Inv, TypeOK, Ended, InHand, Truthful
  <2>2. Truthful'
    BY <1>1, DagAssumption DEF Truncate, Inv, TypeOK, Truthful, CheckpointTruthful
  <2>3. Apart' /\ InHand'
    BY <1>1, DagAssumption DEF Truncate, Inv, TypeOK, Apart, InHand, Ended
  <2>4. OncePerCall' /\ DependenciesFirst'
    BY <1>1, DagAssumption DEF Truncate, Inv, TypeOK, Truthful, OncePerCall, DependenciesFirst
  <2>5. Covered' /\ LeftWhenDone'
    BY <1>1, DagAssumption DEF Truncate, Inv, TypeOK, Ended, Covered, LeftWhenDone
  <2> QED BY <2>1, <2>2, <2>3, <2>4, <2>5 DEF Inv
<1>2. CASE Write
  <2>1. TypeOK'
    BY <1>2, DagAssumption DEF Write, Continue, NextPass, Inv, TypeOK, Ended, InHand, Truthful
  <2>2. Truthful'
    BY <1>2, DagAssumption DEF Write, Continue, NextPass, Inv, TypeOK, Truthful, CheckpointTruthful
  <2>3. Apart' /\ InHand'
    BY <1>2, DagAssumption DEF Write, Continue, NextPass, Inv, TypeOK, Apart, InHand, Ended
  <2>4. OncePerCall' /\ DependenciesFirst'
    BY <1>2, DagAssumption DEF Write, Continue, NextPass, Inv, TypeOK, Truthful, OncePerCall, DependenciesFirst
  <2>5. Covered' /\ LeftWhenDone'
    BY <1>2, DagAssumption DEF Write, Continue, NextPass, Inv, TypeOK, Ended, Covered, LeftWhenDone
  <2> QED BY <2>1, <2>2, <2>3, <2>4, <2>5 DEF Inv
<1>3. CASE SaveFails
  <2>1. TypeOK'
    BY <1>3, DagAssumption DEF SaveFails, Continue, NextPass, Inv, TypeOK, Ended, InHand, Truthful
  <2>2. Truthful'
    BY <1>3, DagAssumption DEF SaveFails, Continue, NextPass, Inv, TypeOK, Truthful, CheckpointTruthful
  <2>3. Apart' /\ InHand'
    BY <1>3, DagAssumption DEF SaveFails, Continue, NextPass, Inv, TypeOK, Apart, InHand, Ended
  <2>4. OncePerCall' /\ DependenciesFirst'
    BY <1>3, DagAssumption DEF SaveFails, Continue, NextPass, Inv, TypeOK, Truthful, OncePerCall, DependenciesFirst
  <2>5. Covered' /\ LeftWhenDone'
    BY <1>3, DagAssumption DEF SaveFails, Continue, NextPass, Inv, TypeOK, Ended, Covered, LeftWhenDone
  <2> QED BY <2>1, <2>2, <2>3, <2>4, <2>5 DEF Inv
<1> QED BY <1>1, <1>2, <1>3

(* The remaining steps of the scheduling thread.                           *)
LEMMA LoopInv ==
    ASSUME Inv, Deadlock \/ (\E late \in SUBSET Tasks : Poll(late)) \/ Unwind \/ Finish
    PROVE  Inv'
<1>1. CASE Deadlock
  <2>1. TypeOK'
    BY <1>1, DagAssumption DEF Deadlock, Inv, TypeOK, Ended, InHand, Truthful
  <2>2. Truthful'
    BY <1>1, DagAssumption DEF Deadlock, Inv, TypeOK, Truthful, CheckpointTruthful
  <2>3. Apart' /\ InHand'
    BY <1>1, DagAssumption DEF Deadlock, Inv, TypeOK, Apart, InHand, Ended
  <2>4. OncePerCall' /\ DependenciesFirst'
    BY <1>1, DagAssumption DEF Deadlock, Inv, TypeOK, Truthful, OncePerCall, DependenciesFirst
  <2>5. Covered' /\ LeftWhenDone'
    BY <1>1, DagAssumption DEF Deadlock, Inv, TypeOK, Ended, Covered, LeftWhenDone
  <2> QED BY <2>1, <2>2, <2>3, <2>4, <2>5 DEF Inv
<1>2. CASE (\E late \in SUBSET Tasks : Poll(late))
  <2>1. TypeOK'
    BY <1>2, DagAssumption DEF Poll, Inv, TypeOK, Ended, InHand, Truthful
  <2>2. Truthful'
    BY <1>2, DagAssumption DEF Poll, Inv, TypeOK, Truthful, CheckpointTruthful
  <2>3. Apart' /\ InHand'
    BY <1>2, DagAssumption DEF Poll, Inv, TypeOK, Apart, InHand, Ended
  <2>4. OncePerCall' /\ DependenciesFirst'
    BY <1>2, DagAssumption DEF Poll, Inv, TypeOK, Truthful, OncePerCall, DependenciesFirst
  <2>5. Covered' /\ LeftWhenDone'
    BY <1>2, DagAssumption DEF Poll, Inv, TypeOK, Ended, Covered, LeftWhenDone
  <2> QED BY <2>1, <2>2, <2>3, <2>4, <2>5 DEF Inv
<1>3. CASE Unwind
  <2>1. TypeOK'
    BY <1>3, DagAssumption DEF Unwind, Inv, TypeOK, Ended, InHand, Truthful
  <2>2. Truthful'
    BY <1>3, DagAssumption DEF Unwind, Inv, TypeOK, Truthful, CheckpointTruthful
  <2>3. Apart' /\ InHand'
    BY <1>3, DagAssumption DEF Unwind, Inv, TypeOK, Apart, InHand, Ended
  <2>4. OncePerCall' /\ DependenciesFirst'
    BY <1>3, DagAssumption DEF Unwind, Inv, TypeOK, Truthful, OncePerCall, DependenciesFirst
  <2>5. Covered' /\ LeftWhenDone'
    BY <1>3, DagAssumption DEF Unwind, Inv, TypeOK, Ended, Covered, LeftWhenDone
  <2> QED BY <2>1, <2>2, <2>3, <2>4, <2>5 DEF Inv
<1>4. CASE Finish
  <2>0. /\ loop = "finish" /\ loop' = "returned"
        /\ stored' \in BOOLEAN /\ (stored' => stored)
        /\ UNCHANGED <<completed, pending, running, fut, seen, ckpt, ran, starts, calls>>
    <3>1. (stored' = FALSE \/ stored' = stored) /\ stored \in BOOLEAN
      BY <1>4 DEF Finish, Inv, TypeOK
    <3>2. stored' \in BOOLEAN
      BY <3>1
    <3>3. stored' => stored
      BY <3>1, Zenon
    <3> QED BY <1>4, <3>2, <3>3, Zenon DEF Finish
  <2>1. TypeOK'
    BY <2>0, DagAssumption DEF Inv, TypeOK, Ended, InHand, Truthful
  <2>2. Truthful'
    BY <2>0, DagAssumption DEF Inv, TypeOK, Truthful, CheckpointTruthful
  <2>3. Apart' /\ InHand'
    BY <2>0, DagAssumption DEF Inv, TypeOK, Apart, InHand, Ended
  <2>4. OncePerCall' /\ DependenciesFirst'
    BY <2>0, DagAssumption DEF Inv, TypeOK, Truthful, OncePerCall, DependenciesFirst
  <2>5. Covered' /\ LeftWhenDone'
    BY <2>0, DagAssumption DEF Inv, TypeOK, Ended, Covered, LeftWhenDone
  <2> QED BY <2>1, <2>2, <2>3, <2>4, <2>5 DEF Inv
<1> QED BY <1>1, <1>2, <1>3, <1>4

(* Agents only add to what has run.                                        *)
LEMMA AgentInv ==
    ASSUME Inv, NEW t \in Tasks, Begin(t) \/ End(t)
    PROVE  Inv'
<1>1. CASE Begin(t)
  <2>1. TypeOK'
    BY <1>1, DagAssumption DEF Begin, Inv, TypeOK, Ended, InHand, Truthful
  <2>2. Truthful'
    BY <1>1, DagAssumption DEF Begin, Inv, TypeOK, Truthful, CheckpointTruthful
  <2>3. Apart' /\ InHand'
    BY <1>1, DagAssumption DEF Begin, Inv, TypeOK, Apart, InHand, Ended
  <2>4. OncePerCall' /\ DependenciesFirst'
    BY <1>1, DagAssumption DEF Begin, Inv, TypeOK, Truthful, OncePerCall, DependenciesFirst
  <2>5. Covered' /\ LeftWhenDone'
    BY <1>1, DagAssumption DEF Begin, Inv, TypeOK, Ended, Covered, LeftWhenDone
  <2> QED BY <2>1, <2>2, <2>3, <2>4, <2>5 DEF Inv
<1>2. CASE End(t)
  <2>1. TypeOK'
    BY <1>2, DagAssumption DEF End, Inv, TypeOK, Ended, InHand, Truthful
  <2>2. Truthful'
    BY <1>2, DagAssumption DEF End, Inv, TypeOK, Truthful, CheckpointTruthful
  <2>3. Apart' /\ InHand'
    BY <1>2, DagAssumption DEF End, Inv, TypeOK, Apart, InHand, Ended
  <2>4. OncePerCall' /\ DependenciesFirst'
    BY <1>2, DagAssumption DEF End, Inv, TypeOK, Truthful, OncePerCall, DependenciesFirst
  <2>5. Covered' /\ LeftWhenDone'
    BY <1>2, DagAssumption DEF End, Inv, TypeOK, Ended, Covered, LeftWhenDone
  <2> QED BY <2>1, <2>2, <2>3, <2>4, <2>5 DEF Inv
<1> QED BY <1>1, <1>2

(* A crash forgets everything but the checkpoint; idle steps change        *)
(* nothing.                                                                *)
LEMMA CrashInv ==
    ASSUME Inv, Crash \/ UNCHANGED vars
    PROVE  Inv'
<1>1. CASE Crash
  <2>1. TypeOK'
    BY <1>1, DagAssumption DEF Crash, Inv, TypeOK, Ended, InHand, Truthful
  <2>2. Truthful'
    BY <1>1, DagAssumption DEF Crash, Inv, TypeOK, Truthful, CheckpointTruthful
  <2>3. Apart' /\ InHand'
    BY <1>1, DagAssumption DEF Crash, Inv, TypeOK, Apart, InHand, Ended
  <2>4. OncePerCall' /\ DependenciesFirst'
    BY <1>1, DagAssumption DEF Crash, Inv, TypeOK, Truthful, OncePerCall, DependenciesFirst
  <2>5. Covered' /\ LeftWhenDone'
    BY <1>1, DagAssumption DEF Crash, Inv, TypeOK, Ended, Covered, LeftWhenDone
  <2> QED BY <2>1, <2>2, <2>3, <2>4, <2>5 DEF Inv
<1>2. CASE UNCHANGED vars
  <2>1. TypeOK'
    BY <1>2, DagAssumption DEF vars, Inv, TypeOK, Ended, InHand, Truthful
  <2>2. Truthful'
    BY <1>2, DagAssumption DEF vars, Inv, TypeOK, Truthful, CheckpointTruthful
  <2>3. Apart' /\ InHand'
    BY <1>2, DagAssumption DEF vars, Inv, TypeOK, Apart, InHand, Ended
  <2>4. OncePerCall' /\ DependenciesFirst'
    BY <1>2, DagAssumption DEF vars, Inv, TypeOK, Truthful, OncePerCall, DependenciesFirst
  <2>5. Covered' /\ LeftWhenDone'
    BY <1>2, DagAssumption DEF vars, Inv, TypeOK, Ended, Covered, LeftWhenDone
  <2> QED BY <2>1, <2>2, <2>3, <2>4, <2>5 DEF Inv
<1> QED BY <1>1, <1>2

(* Every step of run_dag, of its pool and of its environment keeps Inv.    *)
LEMMA NextInv == Inv /\ [Next]_vars => Inv'
<1> SUFFICES ASSUME Inv, [Next]_vars PROVE Inv'
  OBVIOUS
<1>1. CASE Main
  BY <1>1, ScheduleInv, HarvestInv, SaveInv, LoopInv DEF Main
<1>2. CASE Call
  BY <1>2, CallInv
<1>3. CASE Crash \/ Over \/ UNCHANGED vars
  BY <1>3, CrashInv DEF Over
<1>4. CASE \E t \in Tasks : Begin(t) \/ End(t)
  BY <1>4, AgentInv
<1> QED BY <1>1, <1>2, <1>3, <1>4 DEF Next

(* Inv holds throughout every behaviour of run_dag.                        *)
LEMMA Invariance == Spec => []Inv
BY InitInv, NextInv, PTL DEF Spec

-----------------------------------------------------------------------------
(* The state of a run_dag call, its futures and its checkpoint is always   *)
(* well formed.                                                            *)
THEOREM TypeCorrect == Spec => []TypeOK
<1>1. Inv => TypeOK BY DEF Inv
<1> QED BY <1>1, Invariance, PTL

(* Whatever the plan's graph: an agent is started only after the agents of *)
(* all its dependencies succeeded.                                         *)
THEOREM StartsFollowDependencies == Spec => []DependenciesFirst
<1>1. Inv => DependenciesFirst BY DEF Inv
<1> QED BY <1>1, Invariance, PTL

(* Whatever crashes or fails in between: a checkpoint that can be read     *)
(* lists only tasks that succeeded.                                        *)
THEOREM CheckpointsTellTheTruth == Spec => []CheckpointTruthful
<1>1. Inv => CheckpointTruthful BY DEF Inv, Truthful
<1> QED BY <1>1, Invariance, PTL

(* No task is submitted twice by one call of run_dag.                      *)
THEOREM TasksRunOncePerCall == Spec => []OncePerCall
<1>1. Inv => OncePerCall BY DEF Inv
<1> QED BY <1>1, Invariance, PTL

(* When every task has a registered agent, a normal return means that all  *)
(* of the tasks are complete and succeeded.  (Without that hypothesis the  *)
(* loop may be left when an unregistered task has completed on the spot.)  *)
THEOREM ReturnsWhenAllIsDone ==
    ASSUME Registered = Tasks
    PROVE  Spec => []ReturnMeansDone
<1>1. Inv => ReturnMeansDone
  BY DagAssumption DEF Inv, TypeOK, Truthful, Covered, LeftWhenDone, ReturnMeansDone
<1> QED BY <1>1, Invariance, PTL

(* A resumed job never submits a task its checkpoint lists.                *)
THEOREM ResumesSkipWhatIsDone == Spec => ResumeSkipsDone
<1>1. Inv /\ [Next]_vars
      => [\A t \in Tasks : starts'[t] > starts[t] => ~(stored /\ t \in ckpt)]_vars
  <2> SUFFICES ASSUME Inv, [Next]_vars, NEW t \in Tasks, starts'[t] > starts[t]
               PROVE  ~(stored /\ t \in ckpt)
    OBVIOUS
  <2>1. PICK held \in SUBSET Tasks : Schedule(held)
    <3>1. starts[t] \in Nat
      BY DEF Inv, TypeOK
    <3>2. starts'[t] # starts[t] /\ starts'[t] # 0
      BY <3>1
    <3> QED BY <3>2 DEF Next, Main, Deadlock, Poll, Harvest, Truncate, Write, SaveFails, Unwind,
                        Finish, Call, Crash, Over, Begin, End, vars
  <2>2. t \in pending
    <3>1. starts' = [u \in Tasks |-> IF u \in (Ready \ held) \cap Registered
                                     THEN starts[u] + 1 ELSE starts[u]]
      BY <2>1 DEF Schedule
    <3> QED BY <3>1 DEF Inv, TypeOK, Ready
  <2> QED BY <2>2 DEF Inv, Apart
<1> QED BY <1>1, Invariance, PTL DEF Spec, ResumeSkipsDone

(* What a call that reports a deadlock leaves: tasks none of which is      *)
(* ready, and nothing running.                                             *)
Stuck == loop = "deadlock" => Ready = {} /\ Tasks \subseteq completed \cup pending

LEMMA StuckStep == Inv /\ Stuck /\ [Next]_vars => Stuck'
<1> SUFFICES ASSUME Inv, Stuck, [Next]_vars, loop' = "deadlock"
             PROVE  (Ready = {} /\ Tasks \subseteq completed \cup pending)'
  BY DEF Stuck
<1>1. CASE Deadlock
  <2>1. Ready = {} /\ Tasks \subseteq completed \cup pending
    BY <1>1 DEF Deadlock, Blocked, Inv, Covered
  <2> QED BY <1>1, <2>1 DEF Deadlock, Ready
<1>2. CASE ~Deadlock
  <2>1. loop = "deadlock" /\ UNCHANGED <<completed, pending>>
    BY <1>2 DEF Next, Main, Schedule, Poll, Harvest, Truncate, Write, SaveFails, Continue, Unwind,
                Finish, Call, NextPass, Crash, Over, Begin, End, Ended, vars
  <2> QED BY <2>1 DEF Stuck, Ready
<1> QED BY <1>1, <1>2

(* Whatever the plan's graph, its timing and the resource gate: a deadlock *)
(* is reported only when no pending task can ever run.                     *)
THEOREM DeadlocksAreReal == Spec => []DeadlockIsReal
<1>1. Init => Stuck
  BY DEF Init, NextPass, Stuck
<1>2. Inv /\ Stuck => DeadlockIsReal
  <2> SUFFICES ASSUME Inv, Stuck, loop = "deadlock" PROVE pending \subseteq Doomed
    BY DEF DeadlockIsReal
  <2>1. pending \in SUBSET (Tasks \ completed)
    BY DEF Inv, TypeOK, Apart
  <2>2. \A t \in pending : \E x \in Deps[t] : x \in pending \/ x \notin Tasks \cup completed
    BY DEF Stuck, Ready
  <2> QED BY <2>1, <2>2 DEF Doomed
<1> QED BY <1>1, <1>2, Invariance, StuckStep, PTL DEF Spec
=============================================================================
