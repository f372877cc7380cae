-------------------------- MODULE GoalPlanSessions --------------------------
(***************************************************************************)
(* One GoalPlan worked on by several PyFlare sessions (processes) of the   *)
(* same user: ecosystem/goal_planner.py drives its steps, plan_store.py    *)
(* keeps it in one JSON file behind a PlanLock, executor.py and client.py  *)
(* post each confirmed write to the server, whose ledger of idempotency    *)
(* keys behaves as in ActionLedger.                                        *)
(*                                                                         *)
(* A session holds its own copy of the plan in memory.  It re-reads the    *)
(* file only to take over a step's key (under the lock) or when it resumes *)
(* the plan, and whenever it saves it writes its whole copy.               *)
(*                                                                         *)
(* Only the write steps are modelled: read summaries are complete from the *)
(* start and touch nothing.  A confirmation fingerprint is the payload it  *)
(* was computed from (SHA-256 is taken to be injective, and plan, step and *)
(* command are fixed).                                                     *)
(***************************************************************************)
EXTENDS LedgerRules, Naturals

CONSTANTS
    Sessions,       \* PyFlare processes of the user
    Creator,        \* the session whose plan_goal built the plan
    NSteps,         \* number of write steps
    Deps,           \* depends_on, restricted to write steps
    InitPayload,    \* the parameters each step was planned with
    Edits,          \* parameters the user may put in place of a step's own
    Keys,           \* uuid4 values; bounds how many are ever generated
    MaxCrashes,     \* bound on crashes of sessions
    DiskMayFail,    \* whether saving the plan file can fail
    NoKey, NoPlan, NoSession, NoEntry

WriteSteps == 1..NSteps

Statuses == {"planned", "ready", "executing", "completed", "skipped", "cancelled",
             "failed", "blocked", "recovery_pending", "recovery_rejected"}

StepRecord == [status : Statuses, key : Keys \cup {NoKey},
               fp : Payloads \cup {NoKey}, params : Payloads]

Plans == [WriteSteps -> StepRecord]

Requests == [from : Sessions, step : WriteSteps, key : Keys, payload : Payloads]

ASSUME PlanAssumption ==
    /\ Creator \in Sessions /\ NoSession \notin Sessions
    /\ NSteps \in Nat \ {0} /\ MaxCrashes \in Nat /\ DiskMayFail \in BOOLEAN
    /\ Deps \in [WriteSteps -> SUBSET WriteSteps]
    /\ \A i \in WriteSteps : \A d \in Deps[i] : d < i
    /\ InitPayload \in [WriteSteps -> Payloads]
    /\ Edits \subseteq Payloads /\ Refused \subseteq Payloads
    /\ NoKey \notin Keys \cup Payloads /\ NoPlan \notin Plans /\ NoEntry \notin Entry

VARIABLES
    disk,       \* plan_<id>.json, or NoPlan
    lock,       \* the session holding the PlanLock
    mem,        \* each session's GoalPlan object, or NoPlan
    phase,      \* where each session is in execute_plan_step
    cur,        \* the step it is executing
    result,     \* the ExecutionResult of the dispatch, when there is one
    sent,       \* every request ever handed to the network
    ledger,     \* the server's committed rows, by idempotency key
    effects,    \* history: the keys under which a step's effect was committed
    used,       \* idempotency keys generated so far
    crashes     \* number of crashes so far

vars == <<disk, lock, mem, phase, cur, result, sent, ledger, effects, used, crashes>>

Phases == {"idle", "acquire", "save", "dispatch", "await", "record"}

TypeOK ==
    /\ disk \in Plans \cup {NoPlan}
    /\ lock \in Sessions \cup {NoSession}
    /\ mem \in [Sessions -> Plans \cup {NoPlan}]
    /\ phase \in [Sessions -> Phases]
    /\ cur \in [Sessions -> WriteSteps]
    /\ result \in [Sessions -> {"none", "success", "failed"}]
    /\ sent \subseteq Requests
    /\ ledger \in [Keys -> Entry \cup {NoEntry}]
    /\ effects \in [WriteSteps -> SUBSET Keys]
    /\ used \subseteq Keys
    /\ crashes \in 0..MaxCrashes

-----------------------------------------------------------------------------
(* What plan_goal returns: the first step ready, its dependents planned.   *)
InitPlan ==
    [i \in WriteSteps |->
        [status |-> IF Deps[i] = {} THEN "ready" ELSE "planned",
         key |-> NoKey, fp |-> NoKey, params |-> InitPayload[i]]]

(* plan_goal goes on without the file when it cannot save it.              *)
Init ==
    /\ disk = InitPlan \/ (DiskMayFail /\ disk = NoPlan)
    /\ lock = NoSession
    /\ mem = [s \in Sessions |-> IF s = Creator THEN InitPlan ELSE NoPlan]
    /\ phase = [s \in Sessions |-> "idle"]
    /\ cur = [s \in Sessions |-> 1]
    /\ result = [s \in Sessions |-> "none"]
    /\ sent = {}
    /\ ledger = [k \in Keys |-> NoEntry]
    /\ effects = [i \in WriteSteps |-> {}]
    /\ used = {}
    /\ crashes = 0

-----------------------------------------------------------------------------
(* _validate_and_reconcile_plan on one step: an interrupted step may be    *)
(* retried only with its key and with the payload that was confirmed.      *)
Reconciled(r) ==
    IF r.status \notin {"executing", "recovery_pending"} THEN r
    ELSE [r EXCEPT !.status =
             IF r.key = NoKey \/ (r.fp # NoKey /\ r.fp # r.params)
             THEN "recovery_rejected" ELSE "recovery_pending"]

Loaded == [i \in WriteSteps |-> Reconciled(disk[i])]

(* The statuses in which execute_plan_step refuses a step outright.        *)
Terminal == {"completed", "skipped", "cancelled", "recovery_rejected"}

DependenciesDone(i, m) == \A d \in Deps[i] : m[d].status \in {"completed", "skipped"}

(* Completing or skipping step i makes its planned dependents ready.       *)
WithStatus(m, i, status) ==
    [j \in WriteSteps |->
        IF j = i THEN [m[j] EXCEPT !.status = status]
        ELSE IF i \in Deps[j] /\ m[j].status = "planned" /\ status \in {"completed", "skipped"}
        THEN [m[j] EXCEPT !.status = "ready"] ELSE m[j]]

Remember(s, m) == mem' = [mem EXCEPT ![s] = m]
Goto(s, p) == phase' = [phase EXCEPT ![s] = p]

serverVars == <<sent, ledger, effects>>

-----------------------------------------------------------------------------
(* resume_plan / load_active_plans: the file, reconciled, replaces the     *)
(* session's copy.  No lock is taken.                                      *)
Resume(s) ==
    /\ phase[s] = "idle"
    /\ disk # NoPlan
    /\ Remember(s, Loaded)
    /\ UNCHANGED <<disk, lock, phase, cur, result, used, crashes>>
    /\ UNCHANGED serverVars

(* execute_plan_step without confirm: edited parameters are kept even      *)
(* though nothing is executed; a recovery payload may not be edited.       *)
Preview(s, i, p) ==
    /\ phase[s] = "idle" /\ mem[s] # NoPlan
    /\ mem[s][i].status \notin Terminal \cup {"recovery_pending"}
    /\ DependenciesDone(i, mem[s])
    /\ Remember(s, [mem[s] EXCEPT ![i].params = p])
    /\ UNCHANGED <<disk, lock, phase, cur, result, used, crashes>>
    /\ UNCHANGED serverVars

(* Mutant of Confirm: the dependencies are not looked at.                  *)
ConfirmIgnoringDeps(s, i) ==
    /\ phase[s] = "idle" /\ mem[s] # NoPlan
    /\ mem[s][i].status \notin Terminal
    /\ Goto(s, "acquire")
    /\ cur' = [cur EXCEPT ![s] = i]
    /\ UNCHANGED <<disk, lock, mem, result, used, crashes>>
    /\ UNCHANGED serverVars

(* execute_plan_step(confirm=True) up to the PlanLock: a step whose        *)
(* dependency is not done becomes blocked, in memory only.                 *)
Confirm(s, i) ==
    /\ phase[s] = "idle" /\ mem[s] # NoPlan
    /\ mem[s][i].status \notin Terminal
    /\ IF DependenciesDone(i, mem[s])
       THEN /\ Goto(s, "acquire")
            /\ cur' = [cur EXCEPT ![s] = i]
            /\ UNCHANGED mem
       ELSE /\ Remember(s, [mem[s] EXCEPT ![i].status = "blocked"])
            /\ UNCHANGED <<phase, cur>>
    /\ UNCHANGED <<disk, lock, result, used, crashes>>
    /\ UNCHANGED serverVars

(* Mutant of Acquire: the key another session stored is not taken over.    *)
AcquireKeepingOwnKey(s) ==
    LET i == cur[s] IN
    /\ phase[s] = "acquire"
    /\ lock = NoSession
    /\ IF disk # NoPlan /\ disk[i].status \in {"completed", "recovery_rejected"}
       THEN /\ Remember(s, [mem[s] EXCEPT ![i].status = disk[i].status])
            /\ Goto(s, "idle")
            /\ UNCHANGED lock
       ELSE /\ lock' = s
            /\ Goto(s, "save")
            /\ UNCHANGED mem
    /\ UNCHANGED <<disk, cur, result, used, crashes>>
    /\ UNCHANGED serverVars

(* The PlanLock is free: take it and re-read this one step from the file.  *)
(* If it is finished there, so it is here, and the lock is released again. *)
Acquire(s) ==
    LET i == cur[s] IN
    /\ phase[s] = "acquire"
    /\ lock = NoSession
    /\ IF disk # NoPlan /\ Loaded[i].status \in {"completed", "recovery_rejected"}
       THEN /\ Remember(s, [mem[s] EXCEPT ![i].status = Loaded[i].status])
            /\ Goto(s, "idle")
            /\ UNCHANGED lock
       ELSE /\ Remember(s, IF disk = NoPlan THEN mem[s]
                           ELSE [mem[s] EXCEPT
                                   ![i].key = IF disk[i].key # NoKey THEN disk[i].key ELSE @,
                                   ![i].fp = IF disk[i].fp # NoKey THEN disk[i].fp ELSE @])
            /\ lock' = s
            /\ Goto(s, "save")
    /\ UNCHANGED <<disk, cur, result, used, crashes>>
    /\ UNCHANGED serverVars

(* Mutant of LockTimeout: the lock is waited for without a deadline.       *)
LockWait(s) ==
    /\ phase[s] = "acquire"
    /\ lock \notin {NoSession, s}
    /\ UNCHANGED vars

(* PlanLockTimeoutError before the dispatch: nothing has changed.          *)
LockTimeout(s) ==
    /\ phase[s] = "acquire"
    /\ lock \notin {NoSession, s}
    /\ Goto(s, "idle")
    /\ UNCHANGED <<disk, lock, mem, cur, result, used, crashes>>
    /\ UNCHANGED serverVars

(* A recovery may go ahead only with a key, and with the payload that was  *)
(* confirmed when the file knows it.                                       *)
RecoveryRefused(r) ==
    /\ r.status = "recovery_pending"
    /\ r.key = NoKey \/ (r.fp # NoKey /\ r.fp # r.params)

(* Mutant of ConfirmedStep: the key is drawn but not stored in the step.   *)
ConfirmedStepWithoutKey(r, k) ==
    IF RecoveryRefused(r) THEN [r EXCEPT !.status = "recovery_rejected"]
    ELSE [r EXCEPT !.status = "executing",
                   !.fp = IF r.status = "recovery_pending" THEN @ ELSE r.params]

(* The step as it is confirmed: a recovery keeps key and fingerprint, a    *)
(* fresh confirmation gets key k (its own if it has one) and the           *)
(* fingerprint of what is confirmed now.                                   *)
ConfirmedStep(r, k) ==
    IF RecoveryRefused(r) THEN [r EXCEPT !.status = "recovery_rejected"]
    ELSE [r EXCEPT !.status = "executing", !.key = k,
                   !.fp = IF r.status = "recovery_pending" THEN @ ELSE r.params]

(* Mutant of KeyFor: every fresh confirmation gets a fresh key.            *)
FreshKeyEachTime(r) ==
    IF r.status = "recovery_pending" THEN {r.key} ELSE Keys \ used

(* The key step i of session s is going to run under: its own, or a fresh  *)
(* uuid4.                                                                  *)
KeyFor(r) ==
    IF r.key # NoKey \/ RecoveryRefused(r) THEN {r.key} ELSE Keys \ used

(* Mutant of Persist: the plan is saved only after the dispatch.           *)
PersistLater(s) ==
    LET i == cur[s] IN
    /\ phase[s] = "save"
    /\ \E k \in KeyFor(mem[s][i]) :
        /\ Remember(s, [mem[s] EXCEPT ![i] = ConfirmedStep(@, k)])
        /\ used' = used \cup ({k} \cap Keys)
    /\ Goto(s, IF RecoveryRefused(mem[s][i]) THEN "idle" ELSE "dispatch")
    /\ lock' = NoSession
    /\ UNCHANGED <<disk, cur, result, crashes>>
    /\ UNCHANGED serverVars

(* Under the lock: the whole plan is saved, then the lock is released.     *)
(* Only then may a request leave.                                          *)
Persist(s) ==
    LET i == cur[s] IN
    /\ phase[s] = "save"
    /\ \E k \in KeyFor(mem[s][i]) :
        LET m == [mem[s] EXCEPT ![i] = ConfirmedStep(@, k)] IN
        /\ Remember(s, m)
        /\ disk' = m
        /\ used' = used \cup ({k} \cap Keys)
    /\ Goto(s, IF RecoveryRefused(mem[s][i]) THEN "idle" ELSE "dispatch")
    /\ lock' = NoSession
    /\ UNCHANGED <<cur, result, crashes>>
    /\ UNCHANGED serverVars

(* Mutant of PersistFails: the failed save does not stop the dispatch.     *)
DispatchUnsaved(s) ==
    LET i == cur[s] IN
    /\ phase[s] = "save" /\ DiskMayFail
    /\ \E k \in KeyFor(mem[s][i]) :
        /\ Remember(s, [mem[s] EXCEPT ![i] = ConfirmedStep(@, k)])
        /\ used' = used \cup ({k} \cap Keys)
    /\ Goto(s, "dispatch")
    /\ lock' = NoSession
    /\ UNCHANGED <<disk, cur, result, crashes>>
    /\ UNCHANGED serverVars

(* The save raised: the step is ready again and nothing is dispatched.  A  *)
(* key and a fingerprint assigned before stay in memory.                   *)
PersistFails(s) ==
    LET i == cur[s] IN
    /\ phase[s] = "save" /\ DiskMayFail
    /\ \E k \in KeyFor(mem[s][i]) :
        /\ Remember(s, [mem[s] EXCEPT ![i] = [ConfirmedStep(@, k) EXCEPT !.status = "ready"]])
        /\ used' = used \cup ({k} \cap Keys)
    /\ Goto(s, "idle")
    /\ lock' = NoSession
    /\ UNCHANGED <<disk, cur, result, crashes>>
    /\ UNCHANGED serverVars

(* The POST leaves, carrying the step's parameters and key.                *)
Dispatch(s) ==
    LET r == mem[s][cur[s]] IN
    /\ phase[s] = "dispatch"
    /\ sent' = sent \cup {[from |-> s, step |-> cur[s], key |-> r.key, payload |-> r.params]}
    /\ Goto(s, "await")
    /\ UNCHANGED <<disk, lock, mem, cur, result, ledger, effects, used, crashes>>

(* The request never leaves: no valid access token, no connection.         *)
DispatchFails(s) ==
    /\ phase[s] = "dispatch"
    /\ result' = [result EXCEPT ![s] = "failed"]
    /\ Goto(s, "record")
    /\ UNCHANGED <<disk, lock, mem, cur, used, crashes>>
    /\ UNCHANGED serverVars

(* The server runs a request that was sent, however late; if its session   *)
(* still waits, the answer reaches it.  (An answer that is lost is a       *)
(* Timeout followed by Serve.)                                             *)
Serve(q) ==
    LET fresh  == ledger[q.key] = NoEntry
        row    == IF fresh THEN Settled(q.payload) ELSE ledger[q.key]
        answer == IF Verdict(row, q.payload) = "success" THEN "success" ELSE "failed"
        waits  == /\ phase[q.from] = "await"
                  /\ q.step = cur[q.from]
                  /\ q.key = mem[q.from][q.step].key
                  /\ q.payload = mem[q.from][q.step].params
    IN
    /\ fresh \/ waits
    /\ ledger' = [ledger EXCEPT ![q.key] = row]
    /\ effects' = IF fresh /\ answer = "success"
                  THEN [effects EXCEPT ![q.step] = @ \cup {q.key}] ELSE effects
    /\ IF waits THEN /\ result' = [result EXCEPT ![q.from] = answer]
                     /\ Goto(q.from, "record")
       ELSE UNCHANGED <<result, phase>>
    /\ UNCHANGED <<disk, lock, mem, cur, sent, used, crashes>>

(* The call ends without an answer (a timeout, a reset, a server error):   *)
(* the client reports a failure, whatever the server does with it.         *)
Timeout(s) ==
    /\ phase[s] = "await"
    /\ result' = [result EXCEPT ![s] = "failed"]
    /\ Goto(s, "record")
    /\ UNCHANGED <<disk, lock, mem, cur, used, crashes>>
    /\ UNCHANGED serverVars

(* Mutant of Recorded: the result of the dispatch is not looked at.        *)
RecordedAsDone(s) == WithStatus(mem[s], cur[s], "completed")

(* What the result makes of the session's copy.                            *)
Recorded(s) == WithStatus(mem[s], cur[s], IF result[s] = "success" THEN "completed" ELSE "failed")

(* The lock again, and the whole copy is saved as it is: the file is not   *)
(* read first.                                                             *)
Record(s) ==
    /\ phase[s] = "record"
    /\ lock = NoSession
    /\ Remember(s, Recorded(s))
    /\ disk' = Recorded(s)
    /\ Goto(s, "idle")
    /\ result' = [result EXCEPT ![s] = "none"]
    /\ UNCHANGED <<lock, cur, used, crashes>>
    /\ UNCHANGED serverVars

(* The result is not persisted, which is only logged: the save failed, or  *)
(* the lock could not be had and not even the copy in memory is updated.   *)
RecordLost(s) ==
    /\ phase[s] = "record"
    /\ \/ DiskMayFail /\ lock = NoSession /\ Remember(s, Recorded(s))
       \/ lock # NoSession /\ UNCHANGED mem
    /\ Goto(s, "idle")
    /\ result' = [result EXCEPT ![s] = "none"]
    /\ UNCHANGED <<disk, lock, cur, used, crashes>>
    /\ UNCHANGED serverVars

-----------------------------------------------------------------------------
(* Saving after a skip or a cancel, lock permitting; a failure is logged   *)
(* and the change stays in memory.                                         *)
SaveOrKeep(s, m) ==
    /\ Remember(s, m)
    /\ \/ lock = NoSession /\ disk' = m
       \/ (DiskMayFail \/ lock # NoSession) /\ UNCHANGED disk
    /\ UNCHANGED <<lock, phase, cur, result, used, crashes>>
    /\ UNCHANGED serverVars

(* skip_plan_step: any step but a completed one.                           *)
Skip(s, i) ==
    /\ phase[s] = "idle" /\ mem[s] # NoPlan
    /\ mem[s][i].status # "completed"
    /\ SaveOrKeep(s, WithStatus(mem[s], i, "skipped"))

(* cancel_plan: whatever is not finished.                                  *)
Cancel(s) ==
    /\ phase[s] = "idle" /\ mem[s] # NoPlan
    /\ SaveOrKeep(s, [i \in WriteSteps |->
                        IF mem[s][i].status \in {"completed", "skipped"} THEN mem[s][i]
                        ELSE [mem[s][i] EXCEPT !.status = "cancelled"]])

(* The process dies: its memory is gone and the OS releases its lock.      *)
Crash(s) ==
    /\ crashes < MaxCrashes
    /\ crashes' = crashes + 1
    /\ Remember(s, NoPlan)
    /\ Goto(s, "idle")
    /\ result' = [result EXCEPT ![s] = "none"]
    /\ lock' = IF lock = s THEN NoSession ELSE lock
    /\ UNCHANGED <<disk, cur, used>>
    /\ UNCHANGED serverVars

-----------------------------------------------------------------------------
(* What the user does.                                                     *)
UserStep(s) ==
    \/ Resume(s)
    \/ \E i \in WriteSteps : \E p \in Edits : Preview(s, i, p)
    \/ \E i \in WriteSteps : Confirm(s, i)
    \/ \E i \in WriteSteps : Skip(s, i)
    \/ Cancel(s)

(* What execute_plan_step does by itself once confirmed.                   *)
Proceed(s) ==
    \/ Acquire(s) \/ LockTimeout(s)
    \/ Persist(s) \/ PersistFails(s)
    \/ Dispatch(s) \/ DispatchFails(s) \/ Timeout(s)
    \/ Record(s) \/ RecordLost(s)

Next ==
    \/ \E s \in Sessions : UserStep(s) \/ Proceed(s) \/ Crash(s)
    \/ \E q \in sent : Serve(q)

Spec == Init /\ [][Next]_vars

(* A session that is running a step goes on running it: lock, socket and   *)
(* save all have timeouts.  Nothing is assumed of the user or the server.  *)
FairSpec == Spec /\ \A s \in Sessions : WF_vars(Proceed(s))

-----------------------------------------------------------------------------
(* However often a step is confirmed, interrupted, resumed and confirmed   *)
(* again, its write takes effect at most once.                             *)
AtMostOncePerStep ==
    \A i \in WriteSteps : \A j, k \in effects[i] : j = k

(* The write-ahead rule behind it: before a request leaves, its key is in  *)
(* the plan file, and it stays there, so whoever recovers retries with it. *)
KeyOnDiskBeforeSend ==
    \A q \in sent : disk # NoPlan /\ disk[q.step].key = q.key

(* A step shown as completed, in the file or in any session, has had its   *)
(* effect.                                                                 *)
CompletedMeansDone ==
    \A i \in WriteSteps :
        \/ effects[i] # {}
        \/ /\ disk # NoPlan => disk[i].status # "completed"
           /\ \A s \in Sessions : mem[s] # NoPlan => mem[s][i].status # "completed"

(* A write happens only after the writes it depends on, or after the user  *)
(* skipped them.                                                           *)
DependencyOrder ==
    \A i \in WriteSteps : effects[i] # {} =>
        \A d \in Deps[i] : effects[d] # {} \/ (disk # NoPlan /\ disk[d].status = "skipped")

(* The end of a step is final.  A step the file says is completed stays    *)
(* completed through crashes, failed saves and resumes; and no request     *)
(* leaves for a step the file says was completed, skipped, cancelled or    *)
(* refused.                                                                *)
TheEndIsFinal ==
    [][/\ \A i \in WriteSteps : disk # NoPlan /\ disk[i].status = "completed" =>
              disk'[i].status = "completed"
       /\ \A q \in sent' \ sent : disk # NoPlan /\ disk[q.step].status = "executing"]_vars

(* execute_plan_step returns, whether or not the server answers and the    *)
(* lock is free.  (The instance has to have a key left to give out.)       *)
CallsReturn ==
    \A s \in Sessions : phase[s] # "idle" ~> phase[s] = "idle" \/ used = Keys
=============================================================================
