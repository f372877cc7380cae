------------------------ MODULE GoalPlanSessionsProofs ------------------------
(***************************************************************************)
(* Proofs about GoalPlanSessions, for any number of steps, keys, payloads  *)
(* and crashes.  That a completed step was done holds for any number of    *)
(* sessions.  What rests on the plan file - one key for each step, writes  *)
(* in the order of their dependencies, final ends - holds for one session, *)
(* which may die and come back: with two, a session with an old copy can   *)
(* overwrite the file (PlanPairChain shows how).  A plan of one step is    *)
(* written once by two sessions too if their saves succeed, and by any     *)
(* number of sessions as long as nobody skips or cancels.                  *)
(***************************************************************************)
EXTENDS GoalPlanSessions, TLAPS

(* Step i is known by key k: in the file, in a session's copy, in a        *)
(* request, or by an effect.                                               *)
KnownBy(i, k) ==
    \/ disk # NoPlan /\ disk[i].key = k
    \/ \E s \in Sessions : mem[s] # NoPlan /\ mem[s][i].key = k
    \/ \E q \in sent : q.step = i /\ q.key = k
    \/ k \in effects[i]

(* A key that was generated belongs to one step, in whatever copy.         *)
KeysApart ==
    \A k \in Keys : \A i \in WriteSteps : KnownBy(i, k) =>
        k \in used /\ \A j \in WriteSteps : KnownBy(j, k) => i = j

(* Inside execute_plan_step a session has a plan; its step is not finished *)
(* before the save and is executing, with a key, after it.                 *)
CallsInOrder ==
    \A s \in Sessions :
        /\ phase[s] # "idle" => mem[s] # NoPlan
        /\ phase[s] \in {"acquire", "save"} => mem[s][cur[s]].status \notin Terminal
        /\ phase[s] \in {"dispatch", "await", "record"} =>
               mem[s][cur[s]].status = "executing" /\ mem[s][cur[s]].key \in Keys
        /\ phase[s] # "record" => result[s] = "none"

(* A completed row of the ledger is the trace of an effect.                *)
LedgerHonest ==
    \A k \in Keys : ledger[k] # NoEntry /\ ledger[k].status = "completed" =>
        \E i \in WriteSteps : k \in effects[i]

(* A session that was answered success has had the effect of its step.     *)
AnswersHonest ==
    \A s \in Sessions : result[s] = "success" => effects[cur[s]] # {}

Honest == TypeOK /\ KeysApart /\ CallsInOrder /\ LedgerHonest /\ AnswersHonest /\ CompletedMeansDone

(* One session: its copy has every key the file has, and agrees with the   *)
(* file on what is completed or skipped.                                   *)
CopyFollowsFile ==
    \A s \in Sessions : disk # NoPlan /\ mem[s] # NoPlan =>
        \A i \in WriteSteps :
            /\ disk[i].key # NoKey => mem[s][i].key = disk[i].key
            /\ disk[i].status \in {"completed", "skipped"} => mem[s][i].status = disk[i].status

(* One session: from its save to its record the file shows the step as     *)
(* executing, under the key it is sent with.                               *)
SavedFirst ==
    \A s \in Sessions : phase[s] \in {"dispatch", "await", "record"} =>
        disk # NoPlan /\ disk[cur[s]].status = "executing" /\ disk[cur[s]].key = mem[s][cur[s]].key

(* What a step waits for is done.                                          *)
Awaited(i) ==
    \A d \in Deps[i] : effects[d] # {} \/ (disk # NoPlan /\ disk[d].status = "skipped")

WaitedFor ==
    /\ \A s \in Sessions :
          /\ phase[s] \in {"acquire", "save"} => DependenciesDone(cur[s], mem[s])
          /\ phase[s] \in {"dispatch", "await", "record"} => Awaited(cur[s])
    /\ \A q \in sent : Awaited(q.step)

(* An effect is that of a request.                                         *)
EffectsAsked ==
    \A i \in WriteSteps : \A k \in effects[i] : \E q \in sent : q.step = i /\ q.key = k

Solo == Honest /\ CopyFollowsFile /\ SavedFirst /\ KeyOnDiskBeforeSend /\ WaitedFor /\ EffectsAsked

-----------------------------------------------------------------------------
(* What WithStatus does to a plan.                                         *)
LEMMA WithStatusGives ==
    ASSUME NEW m \in Plans, NEW i \in WriteSteps, NEW st \in Statuses
    PROVE  LET n == WithStatus(m, i, st) IN
           /\ n \in Plans
           /\ n[i].status = st
           /\ \A j \in WriteSteps :
                 /\ n[j].key = m[j].key /\ n[j].fp = m[j].fp /\ n[j].params = m[j].params
                 /\ j # i => \/ n[j].status = m[j].status
                             \/ m[j].status = "planned" /\ n[j].status = "ready"
<1> DEFINE n == WithStatus(m, i, st)
<1>1. ASSUME NEW j \in WriteSteps
      PROVE  /\ n[j] \in StepRecord
             /\ n[j].key = m[j].key /\ n[j].fp = m[j].fp /\ n[j].params = m[j].params
             /\ j = i => n[j].status = st
             /\ j # i => \/ n[j].status = m[j].status
                         \/ m[j].status = "planned" /\ n[j].status = "ready"
  <2>1. m[j] \in StepRecord
    BY DEF Plans
  <2>2. n[j] = IF j = i THEN [m[j] EXCEPT !.status = st]
               ELSE IF i \in Deps[j] /\ m[j].status = "planned" /\ st \in {"completed", "skipped"}
               THEN [m[j] EXCEPT !.status = "ready"] ELSE m[j]
    BY DEF WithStatus
  <2> QED BY <2>1, <2>2 DEF StepRecord, Statuses
<1>2. n \in Plans
  <2>1. n = [j \in WriteSteps |-> n[j]]
    BY DEF WithStatus
  <2> QED BY <1>1, <2>1 DEF Plans
<1> QED BY <1>1, <1>2

(* What a session finds when it loads the file.                            *)
LEMMA LoadedGives ==
    ASSUME disk \in Plans
    PROVE  /\ Loaded \in Plans
           /\ \A i \in WriteSteps :
                 /\ Loaded[i].key = disk[i].key
                 /\ Loaded[i].params = disk[i].params
                 /\ \/ Loaded[i].status = disk[i].status
                    \/ /\ disk[i].status \in {"executing", "recovery_pending"}
                       /\ Loaded[i].status \in {"recovery_pending", "recovery_rejected"}
<1>1. ASSUME NEW i \in WriteSteps
      PROVE  /\ Loaded[i] \in StepRecord
             /\ Loaded[i].key = disk[i].key
             /\ Loaded[i].params = disk[i].params
             /\ \/ Loaded[i].status = disk[i].status
                \/ /\ disk[i].status \in {"executing", "recovery_pending"}
                   /\ Loaded[i].status \in {"recovery_pending", "recovery_rejected"}
  <2>1. disk[i] \in StepRecord /\ Loaded[i] = Reconciled(disk[i])
    BY DEF Plans, Loaded
  <2> QED BY <2>1 DEF Reconciled, StepRecord, Statuses
<1>2. Loaded \in Plans
  <2>1. Loaded = [i \in WriteSteps |-> Loaded[i]]
    BY DEF Loaded
  <2> QED BY <1>1, <2>1 DEF Plans
<1> QED BY <1>1, <1>2

(* What confirming a step makes of it: it keeps the key it has, or gets    *)
(* one that was never given out.                                           *)
LEMMA ConfirmedGives ==
    ASSUME NEW r \in StepRecord, NEW k \in KeyFor(r), used \subseteq Keys
    PROVE  LET c == ConfirmedStep(r, k) IN
           /\ c \in StepRecord
           /\ c.key # r.key => r.key = NoKey /\ c.key = k /\ k \in Keys \ used
           /\ RecoveryRefused(r) => c.status = "recovery_rejected" /\ c.key = r.key
           /\ ~RecoveryRefused(r) => c.status = "executing" /\ c.key = k /\ k \in Keys
           /\ k \in Keys \cup {NoKey}
           /\ c.key = k
BY PlanAssumption DEF KeyFor, ConfirmedStep, RecoveryRefused, StepRecord, Statuses

(* What a step of a session does to its copy and to the file.  The copy    *)
(* stays a plan or is gone; the file stays, or becomes the copy.  Every    *)
(* key in the new copy was known for its step or is drawn in this step,    *)
(* and what is completed in it was completed before, here or in the file,  *)
(* or has just been answered.                                              *)
CopyGives(s, m) ==
    /\ m \in Plans \cup {NoPlan}
    /\ mem' = [mem EXCEPT ![s] = m]
    /\ disk' = disk \/ (disk' = m /\ m \in Plans)
    /\ used \subseteq used' /\ used' \subseteq Keys
    /\ m # NoPlan => \A j \in WriteSteps :
          /\ \/ m[j].key = NoKey
             \/ mem[s] # NoPlan /\ m[j].key = mem[s][j].key
             \/ disk # NoPlan /\ m[j].key = disk[j].key
             \/ j = cur[s] /\ m[j].key \in Keys \ used /\ m[j].key \in used'
          /\ m[j].status = "completed" =>
                \/ mem[s] # NoPlan /\ mem[s][j].status = "completed"
                \/ disk # NoPlan /\ disk[j].status = "completed"
                \/ j = cur[s] /\ result[s] = "success"

(* The copy is as it was, but for one step.                                *)
LEMMA ExceptGives ==
    ASSUME NEW m \in Plans, NEW i \in WriteSteps, NEW r \in StepRecord
    PROVE  /\ [m EXCEPT ![i] = r] \in Plans
           /\ [m EXCEPT ![i] = r][i] = r
           /\ \A j \in WriteSteps : j # i => [m EXCEPT ![i] = r][j] = m[j]
BY DEF Plans

(* Field by field, too.                                                    *)
LEMMA FieldGives ==
    ASSUME NEW r \in StepRecord, NEW st \in Statuses, NEW p \in Payloads
    PROVE  /\ [r EXCEPT !.status = st] \in StepRecord
           /\ [r EXCEPT !.status = st].status = st
           /\ [r EXCEPT !.status = st].key = r.key
           /\ [r EXCEPT !.params = p] \in StepRecord
           /\ [r EXCEPT !.params = p].status = r.status
           /\ [r EXCEPT !.params = p].key = r.key
BY DEF StepRecord

(* Each step of a session is as CopyGives says.                            *)
LEMMA CopyStep ==
    ASSUME TypeOK, CallsInOrder, NEW s \in Sessions, UserStep(s) \/ Proceed(s) \/ Crash(s)
    PROVE  \E m : CopyGives(s, m)
<1> USE PlanAssumption DEF Remember, Goto
<1>0. /\ mem[s] \in Plans \cup {NoPlan} /\ disk \in Plans \cup {NoPlan} /\ cur[s] \in WriteSteps
      /\ used \subseteq Keys /\ mem = [mem EXCEPT ![s] = mem[s]]
  BY DEF TypeOK
<1>1. CASE mem' = mem /\ disk' = disk /\ used' = used
  <2>1. CopyGives(s, mem[s])
    BY <1>0, <1>1 DEF CopyGives, Plans, StepRecord
  <2> QED BY <2>1
<1>2. CASE Resume(s)
  <2>1. disk \in Plans
    BY <1>0, <1>2 DEF Resume
  <2>2. CopyGives(s, Loaded)
    <3> HIDE DEF Remember
    <3>1. /\ mem' = [mem EXCEPT ![s] = Loaded] /\ disk' = disk /\ used' = used
      BY <1>2 DEF Resume, Remember
    <3> QED BY <1>0, <2>1, <3>1, LoadedGives DEF CopyGives
  <2> QED BY <2>2
<1>3. ASSUME NEW i \in WriteSteps, NEW p \in Edits, Preview(s, i, p)
      PROVE  \E m : CopyGives(s, m)
  <2>1. mem[s] \in Plans /\ mem[s][i] \in StepRecord /\ p \in Payloads /\ "ready" \in Statuses
    BY <1>0, <1>3 DEF Preview, Plans, Statuses
  <2>2. mem' = [mem EXCEPT ![s] = [mem[s] EXCEPT ![i] = [mem[s][i] EXCEPT !.params = p]]]
    BY <1>3 DEF Preview
  <2> DEFINE r == [mem[s][i] EXCEPT !.params = p]
  <2>3. r \in StepRecord /\ r.status = mem[s][i].status /\ r.key = mem[s][i].key
    BY <2>1, FieldGives
  <2>4. mem' = [mem EXCEPT ![s] = [mem[s] EXCEPT ![i] = r]] /\ disk' = disk /\ used' = used
    BY <1>3, <2>2 DEF Preview
  <2> HIDE DEF r
  <2>5. CopyGives(s, [mem[s] EXCEPT ![i] = r])
    BY <1>0, <2>1, <2>3, <2>4, ExceptGives DEF CopyGives
  <2> QED BY <2>5
<1>4. ASSUME NEW i \in WriteSteps, Confirm(s, i)
      PROVE  \E m : CopyGives(s, m)
  <2>1. mem[s] \in Plans /\ mem[s][i] \in StepRecord /\ "blocked" \in Statuses
    BY <1>0, <1>4 DEF Confirm, Plans, Statuses
  <2>2. CASE DependenciesDone(i, mem[s])
    BY <1>1, <1>4, <2>2 DEF Confirm
  <2>3. CASE ~DependenciesDone(i, mem[s])
    <3>1. mem' = [mem EXCEPT ![s] = [mem[s] EXCEPT ![i] = [mem[s][i] EXCEPT !.status = "blocked"]]]
      BY <1>4, <2>3 DEF Confirm
    <3>2. [mem[s][i] EXCEPT !.status = "blocked"] \in StepRecord
      BY <2>1 DEF StepRecord
    <3>3. /\ [mem[s][i] EXCEPT !.status = "blocked"].status = "blocked"
          /\ [mem[s][i] EXCEPT !.status = "blocked"].key = mem[s][i].key
      BY <2>1 DEF StepRecord
    <3>4. disk' = disk /\ used' = used
      BY <1>4 DEF Confirm
    <3> DEFINE r == [mem[s][i] EXCEPT !.status = "blocked"]
    <3>5. r \in StepRecord /\ r.status = "blocked" /\ r.key = mem[s][i].key
      BY <3>2, <3>3
    <3>6. mem' = [mem EXCEPT ![s] = [mem[s] EXCEPT ![i] = r]]
      BY <3>1
    <3> HIDE DEF r
    <3>7. CopyGives(s, [mem[s] EXCEPT ![i] = r])
      BY <1>0, <2>1, <3>4, <3>5, <3>6, ExceptGives DEF CopyGives
    <3> QED BY <3>7
  <2> QED BY <2>2, <2>3
<1>5. CASE Acquire(s)
  <2> DEFINE i == cur[s]
  <2>1. mem[s] \in Plans /\ mem[s][i] \in StepRecord
    BY <1>0, <1>5 DEF Acquire, CallsInOrder, Plans
  <2>2. disk' = disk /\ used' = used
    BY <1>5 DEF Acquire
  <2>3. CASE disk = NoPlan
    BY <1>1, <1>5, <2>2, <2>3, <1>0 DEF Acquire
  <2>4. CASE disk # NoPlan /\ Loaded[i].status \in {"completed", "recovery_rejected"}
    <3>1. mem' = [mem EXCEPT ![s] = [mem[s] EXCEPT ![i] = [mem[s][i] EXCEPT !.status = Loaded[i].status]]]
      BY <1>5, <2>4 DEF Acquire
    <3> DEFINE r == [mem[s][i] EXCEPT !.status = Loaded[i].status]
    <3>2. r \in StepRecord /\ r.status = Loaded[i].status /\ r.key = mem[s][i].key
      BY <2>1, <2>4 DEF StepRecord, Statuses
    <3>3. Loaded[i].status = "completed" => disk[i].status = "completed"
      BY <1>0, <2>4, LoadedGives
    <3>4. mem' = [mem EXCEPT ![s] = [mem[s] EXCEPT ![i] = r]]
      BY <3>1
    <3> HIDE DEF r
    <3>5. CopyGives(s, [mem[s] EXCEPT ![i] = r])
      BY <1>0, <2>1, <2>2, <2>4, <3>2, <3>3, <3>4, ExceptGives DEF CopyGives
    <3> QED BY <3>5
  <2>5. CASE disk # NoPlan /\ Loaded[i].status \notin {"completed", "recovery_rejected"}
    <3> DEFINE r == [mem[s][i] EXCEPT
                       !.key = IF disk[i].key # NoKey THEN disk[i].key ELSE mem[s][i].key,
                       !.fp = IF disk[i].fp # NoKey THEN disk[i].fp ELSE mem[s][i].fp]
    <3> DEFINE n == [mem[s] EXCEPT
                       ![i].key = IF disk[i].key # NoKey THEN disk[i].key ELSE @,
                       ![i].fp = IF disk[i].fp # NoKey THEN disk[i].fp ELSE @]
    <3>1. mem' = [mem EXCEPT ![s] = [mem[s] EXCEPT ![i] = r]]
      <4>1. mem' = [mem EXCEPT ![s] = n]
        BY <1>5, <2>5 DEF Acquire
      <4>2. n = [mem[s] EXCEPT ![i] = r]
        BY <1>0, <2>1, <2>5 DEF StepRecord, Plans
      <4> QED BY <4>1, <4>2
    <3> HIDE DEF n
    <3>2. disk[i] \in StepRecord
      BY <1>0, <2>5 DEF Plans
    <3>3. /\ r \in StepRecord /\ r.status = mem[s][i].status
          /\ r.key = disk[i].key \/ r.key = mem[s][i].key
      BY <2>1, <3>2 DEF StepRecord
    <3> HIDE DEF r
    <3>4. CopyGives(s, [mem[s] EXCEPT ![i] = r])
      BY <1>0, <2>1, <2>2, <2>5, <3>1, <3>3, ExceptGives DEF CopyGives
    <3> QED BY <3>4
  <2> QED BY <2>3, <2>4, <2>5
<1>6. CASE Persist(s) \/ PersistFails(s)
  <2> DEFINE i == cur[s]
  <2>1. mem[s] \in Plans /\ mem[s][i] \in StepRecord
    BY <1>0, <1>6 DEF Persist, PersistFails, CallsInOrder, Plans
  <2>2. PICK k \in KeyFor(mem[s][i]) :
          LET c == ConfirmedStep(mem[s][i], k) IN
          /\ \/ /\ mem' = [mem EXCEPT ![s] = [mem[s] EXCEPT ![i] = c]]
                /\ disk' = [mem[s] EXCEPT ![i] = c]
             \/ /\ mem' = [mem EXCEPT ![s] = [mem[s] EXCEPT ![i] = [c EXCEPT !.status = "ready"]]]
                /\ disk' = disk
          /\ used' = used \cup ({k} \cap Keys)
    BY <1>6 DEF Persist, PersistFails
  <2> DEFINE c == ConfirmedStep(mem[s][i], k)
  <2>3. /\ c \in StepRecord
        /\ c.key # mem[s][i].key => c.key \in Keys \ used /\ c.key = k
        /\ c.status \in {"recovery_rejected", "executing"}
    BY <1>0, <2>1, ConfirmedGives
  <2> HIDE DEF c
  <2>4. /\ [c EXCEPT !.status = "ready"] \in StepRecord
        /\ [c EXCEPT !.status = "ready"].status = "ready"
        /\ [c EXCEPT !.status = "ready"].key = c.key
    BY <2>3 DEF StepRecord, Statuses
  <2>8. /\ used \subseteq used' /\ used' \subseteq Keys
        /\ c.key # mem[s][i].key => c.key \in Keys \ used /\ c.key \in used'
    <3>1. used' = used \cup ({k} \cap Keys)
      BY <2>2
    <3> QED BY <1>0, <2>3, <3>1
  <2>5. /\ mem' = [mem EXCEPT ![s] = [mem[s] EXCEPT ![i] = c]] /\ disk' = [mem[s] EXCEPT ![i] = c]
        \/ /\ mem' = [mem EXCEPT ![s] = [mem[s] EXCEPT ![i] = [c EXCEPT !.status = "ready"]]]
           /\ disk' = disk
    BY <2>2 DEF c
  <2>6. CASE mem' = [mem EXCEPT ![s] = [mem[s] EXCEPT ![i] = c]] /\ disk' = [mem[s] EXCEPT ![i] = c]
    <3>1. CopyGives(s, [mem[s] EXCEPT ![i] = c])
      BY <1>0, <2>1, <2>3, <2>6, <2>8, ExceptGives DEF CopyGives
    <3> QED BY <3>1
  <2>7. CASE /\ mem' = [mem EXCEPT ![s] = [mem[s] EXCEPT ![i] = [c EXCEPT !.status = "ready"]]]
             /\ disk' = disk
    <3> DEFINE r == [c EXCEPT !.status = "ready"]
    <3>1. r \in StepRecord /\ r.status = "ready" /\ r.key = c.key
      BY <2>4
    <3>2. mem' = [mem EXCEPT ![s] = [mem[s] EXCEPT ![i] = r]] /\ disk' = disk
      BY <2>7
    <3> HIDE DEF r
    <3>3. CopyGives(s, [mem[s] EXCEPT ![i] = r])
      BY <1>0, <2>1, <2>8, <3>1, <3>2, ExceptGives DEF CopyGives
    <3> QED BY <3>3
  <2> QED BY <2>5, <2>6, <2>7
<1>7. CASE (Record(s) \/ RecordLost(s)) /\ mem' = [mem EXCEPT ![s] = Recorded(s)]
  <2>1. mem[s] \in Plans /\ used' = used
    BY <1>0, <1>7 DEF Record, RecordLost, CallsInOrder
  <2>2. disk' = disk \/ disk' = Recorded(s)
    BY <1>7 DEF Record, RecordLost
  <2>3. "completed" \in Statuses /\ "failed" \in Statuses
    BY DEF Statuses
  <2>4. /\ Recorded(s) \in Plans
        /\ \A j \in WriteSteps :
              /\ Recorded(s)[j].key = mem[s][j].key
              /\ Recorded(s)[j].status = "completed" =>
                    mem[s][j].status = "completed" \/ (j = cur[s] /\ result[s] = "success")
    <3> DEFINE st == IF result[s] = "success" THEN "completed" ELSE "failed"
    <3>1. st \in Statuses /\ (st = "completed" => result[s] = "success")
      BY <2>3
    <3>2. Recorded(s) = WithStatus(mem[s], cur[s], st)
      BY DEF Recorded
    <3> HIDE DEF st
    <3> QED BY <1>0, <2>1, <3>1, <3>2, WithStatusGives
  <2>5. CopyGives(s, Recorded(s))
    BY <1>0, <1>7, <2>1, <2>2, <2>4 DEF CopyGives
  <2> QED BY <2>5
<1>8. ASSUME NEW i \in WriteSteps, Skip(s, i)
      PROVE  \E m : CopyGives(s, m)
  <2>1. mem[s] \in Plans /\ used' = used /\ "skipped" \in Statuses
    BY <1>0, <1>8 DEF Skip, SaveOrKeep, Statuses
  <2>2. mem' = [mem EXCEPT ![s] = WithStatus(mem[s], i, "skipped")]
        /\ (disk' = disk \/ disk' = WithStatus(mem[s], i, "skipped"))
    BY <1>8 DEF Skip, SaveOrKeep
  <2> DEFINE n == WithStatus(mem[s], i, "skipped")
  <2>3. /\ n \in Plans /\ n[i].status = "skipped"
        /\ \A j \in WriteSteps :
              /\ n[j].key = mem[s][j].key
              /\ n[j].status = "completed" => mem[s][j].status = "completed"
    <3> DEFINE st == "skipped"
    <3>1. st \in Statuses /\ st # "completed" /\ n = WithStatus(mem[s], i, st)
      BY <2>1
    <3> HIDE DEF st, n
    <3>2. n \in Plans /\ n[i].status = st
      BY <2>1, <3>1, WithStatusGives
    <3>3. ASSUME NEW j \in WriteSteps
          PROVE  /\ n[j].key = mem[s][j].key
                 /\ n[j].status = "completed" => mem[s][j].status = "completed"
      <4>1. /\ n[j].key = mem[s][j].key
            /\ j # i => \/ n[j].status = mem[s][j].status
                        \/ n[j].status = "ready"
        BY <2>1, <3>1, WithStatusGives
      <4> QED BY <3>1, <3>2, <4>1
    <3> QED BY <3>2, <3>3 DEF st
  <2>4. mem' = [mem EXCEPT ![s] = n] /\ (disk' = disk \/ disk' = n)
    BY <2>2
  <2> HIDE DEF n
  <2>5. CopyGives(s, n)
    BY <1>0, <2>1, <2>3, <2>4 DEF CopyGives
  <2> QED BY <2>5
<1>9. CASE Cancel(s)
  <2> DEFINE n == [i \in WriteSteps |->
                     IF mem[s][i].status \in {"completed", "skipped"} THEN mem[s][i]
                     ELSE [mem[s][i] EXCEPT !.status = "cancelled"]]
  <2>1. mem[s] \in Plans /\ used' = used /\ mem' = [mem EXCEPT ![s] = n] /\ (disk' = disk \/ disk' = n)
    BY <1>0, <1>9 DEF Cancel, SaveOrKeep
  <2>2. ASSUME NEW i \in WriteSteps
        PROVE  /\ n[i] \in StepRecord /\ n[i].key = mem[s][i].key
               /\ n[i].status = "completed" => mem[s][i].status = "completed"
    <3>1. mem[s][i] \in StepRecord
      BY <2>1 DEF Plans
    <3> QED BY <3>1 DEF StepRecord, Statuses
  <2>3. n \in Plans
    BY <2>2 DEF Plans
  <2> HIDE DEF n
  <2>4. CopyGives(s, n)
    BY <1>0, <2>1, <2>2, <2>3 DEF CopyGives
  <2> QED BY <2>4
<1>10. CASE Crash(s)
  <2>1. CopyGives(s, NoPlan)
    BY <1>0, <1>10 DEF Crash, CopyGives
  <2> QED BY <2>1
<1>11. CASE LockTimeout(s) \/ Dispatch(s) \/ DispatchFails(s) \/ Timeout(s)
  BY <1>1, <1>11 DEF LockTimeout, Dispatch, DispatchFails, Timeout
<1>12. CASE RecordLost(s) /\ mem' = mem
  BY <1>1, <1>12 DEF RecordLost
<1>13. (Record(s) \/ RecordLost(s)) => mem' = mem \/ mem' = [mem EXCEPT ![s] = Recorded(s)]
  BY DEF Record, RecordLost
<1>14. Record(s) => mem' = [mem EXCEPT ![s] = Recorded(s)]
  BY DEF Record
<1> QED BY <1>2, <1>3, <1>4, <1>5, <1>6, <1>7, <1>8, <1>9, <1>10, <1>11, <1>12, <1>13, <1>14
        DEF UserStep, Proceed

-----------------------------------------------------------------------------
(* The initial state.                                                      *)
LEMMA InitHonest == Init => Honest
<1> SUFFICES ASSUME Init PROVE Honest
  OBVIOUS
<1> USE PlanAssumption
<1>1. \A i \in WriteSteps : /\ InitPlan[i] \in StepRecord /\ InitPlan[i].key = NoKey
                            /\ InitPlan[i].status \in {"ready", "planned"}
  BY DEF InitPlan, StepRecord, Statuses
<1>2. InitPlan \in Plans
  <2>1. InitPlan = [i \in WriteSteps |-> InitPlan[i]]
    BY DEF InitPlan
  <2> QED BY <1>1, <2>1 DEF Plans
<1>3. /\ disk \in {InitPlan, NoPlan} /\ \A s \in Sessions : mem[s] \in {InitPlan, NoPlan}
      /\ mem \in [Sessions -> {InitPlan, NoPlan}]
      /\ 1 \in WriteSteps
  BY DEF Init, WriteSteps
<1>4. TypeOK
  BY <1>2, <1>3 DEF Init, TypeOK, Phases
<1>5. KeysApart
  BY <1>1, <1>3 DEF Init, KeysApart, KnownBy
<1>6. CallsInOrder /\ LedgerHonest /\ AnswersHonest
  BY DEF Init, CallsInOrder, LedgerHonest, AnswersHonest
<1>7. CompletedMeansDone
  BY <1>1, <1>3 DEF CompletedMeansDone
<1> QED BY <1>4, <1>5, <1>6, <1>7 DEF Honest

(* What a step of a session leaves alone: the other sessions and what the  *)
(* server has done.                                                        *)
LEMMA OthersUntouched ==
    ASSUME TypeOK, NEW s \in Sessions, UserStep(s) \/ Proceed(s) \/ Crash(s)
    PROVE  /\ \A t \in Sessions \ {s} : phase'[t] = phase[t] /\ cur'[t] = cur[t] /\ result'[t] = result[t]
           /\ ledger' = ledger /\ effects' = effects
           /\ sent' = sent \/ Dispatch(s)
<1> USE DEF TypeOK, Goto, serverVars
<1>1. CASE Resume(s)
  BY <1>1 DEF Resume
<1>2. ASSUME NEW i \in WriteSteps, NEW p \in Edits, Preview(s, i, p)
      PROVE  UNCHANGED <<phase, cur, result, ledger, effects, sent>>
  BY <1>2 DEF Preview
<1>3. ASSUME NEW i \in WriteSteps, Confirm(s, i)
      PROVE  /\ \A t \in Sessions \ {s} : phase'[t] = phase[t] /\ cur'[t] = cur[t]
             /\ UNCHANGED <<result, ledger, effects, sent>>
  BY <1>3 DEF Confirm
<1>4. ASSUME NEW i \in WriteSteps, Skip(s, i)
      PROVE  UNCHANGED <<phase, cur, result, ledger, effects, sent>>
  BY <1>4 DEF Skip, SaveOrKeep
<1>5. CASE Cancel(s)
  BY <1>5 DEF Cancel, SaveOrKeep
<1>6. CASE Acquire(s)
  BY <1>6 DEF Acquire
<1>7. CASE LockTimeout(s) \/ Persist(s) \/ PersistFails(s)
  BY <1>7 DEF LockTimeout, Persist, PersistFails
<1>8. CASE Dispatch(s) \/ DispatchFails(s) \/ Timeout(s)
  BY <1>8 DEF Dispatch, DispatchFails, Timeout
<1>9. CASE Record(s) \/ RecordLost(s)
  BY <1>9 DEF Record, RecordLost
<1>10. CASE Crash(s)
  BY <1>10 DEF Crash
<1> QED BY <1>1, <1>2, <1>3, <1>4, <1>5, <1>6, <1>7, <1>8, <1>9, <1>10 DEF UserStep, Proceed

(* The request a dispatch adds is for the step at hand, under its key.     *)
LEMMA DispatchGives ==
    ASSUME TypeOK, CallsInOrder, NEW s \in Sessions, Dispatch(s)
    PROVE  \E q \in Requests : /\ sent' = sent \cup {q}
                               /\ q.step = cur[s] /\ q.key = mem[s][cur[s]].key
                               /\ mem[s] # NoPlan /\ cur[s] \in WriteSteps
<1> DEFINE r == mem[s][cur[s]]
           q == [from |-> s, step |-> cur[s], key |-> r.key, payload |-> r.params]
<1>1. cur[s] \in WriteSteps /\ mem[s] \in Plans /\ r.key \in Keys
  BY DEF TypeOK, CallsInOrder, Dispatch
<1>2. r \in StepRecord
  BY <1>1 DEF Plans
<1>3. sent' = sent \cup {q} /\ mem[s] # NoPlan
  BY DEF Dispatch, CallsInOrder
<1>4. q \in Requests
  BY <1>1, <1>2 DEF Requests, StepRecord
<1>5. q.step = cur[s] /\ q.key = r.key
  OBVIOUS
<1> HIDE DEF q
<1> QED BY <1>1, <1>3, <1>4, <1>5

(* TypeOK is preserved.                                                    *)
LEMMA TypeStep ==
    ASSUME TypeOK, CallsInOrder, Next
    PROVE  TypeOK'
<1> USE PlanAssumption
<1>1. ASSUME NEW s \in Sessions, UserStep(s) \/ Proceed(s) \/ Crash(s)
      PROVE  TypeOK'
  <2>1. PICK m : CopyGives(s, m)
    BY <1>1, CopyStep
  <2>2. /\ disk' \in Plans \cup {NoPlan} /\ mem' \in [Sessions -> Plans \cup {NoPlan}] /\ used' \subseteq Keys
    BY <2>1 DEF TypeOK, CopyGives
  <2>3. sent' \subseteq Requests /\ ledger' = ledger /\ effects' = effects
    BY <1>1, OthersUntouched, DispatchGives DEF TypeOK
  <2>4. /\ lock' \in Sessions \cup {NoSession} /\ phase' \in [Sessions -> Phases]
        /\ cur' \in [Sessions -> WriteSteps] /\ result' \in [Sessions -> {"none", "success", "failed"}]
        /\ crashes' \in 0..MaxCrashes
    <3> USE DEF TypeOK, Phases, Goto
    <3> DEFINE Goal == /\ lock' \in Sessions \cup {NoSession} /\ phase' \in [Sessions -> Phases]
                       /\ cur' \in [Sessions -> WriteSteps]
                       /\ result' \in [Sessions -> {"none", "success", "failed"}]
                       /\ crashes' \in 0..MaxCrashes
    <3>1. CASE Resume(s)
      BY <3>1 DEF Resume
    <3>2. ASSUME NEW i \in WriteSteps, NEW p \in Edits, Preview(s, i, p) PROVE Goal
      BY <3>2 DEF Preview
    <3>3. ASSUME NEW i \in WriteSteps, Confirm(s, i) PROVE Goal
      BY <3>3 DEF Confirm
    <3>4. ASSUME NEW i \in WriteSteps, Skip(s, i) PROVE Goal
      BY <3>4 DEF Skip, SaveOrKeep
    <3>5. CASE Cancel(s)
      BY <3>5 DEF Cancel, SaveOrKeep
    <3>6. CASE Acquire(s)
      BY <3>6 DEF Acquire
    <3>7. CASE LockTimeout(s) \/ Persist(s) \/ PersistFails(s)
      BY <3>7 DEF LockTimeout, Persist, PersistFails
    <3>8. CASE Dispatch(s) \/ DispatchFails(s) \/ Timeout(s)
      BY <3>8 DEF Dispatch, DispatchFails, Timeout
    <3>9. CASE Record(s) \/ RecordLost(s)
      BY <3>9 DEF Record, RecordLost
    <3>10. CASE Crash(s)
      BY <3>10 DEF Crash
    <3> HIDE DEF Goal
    <3>11. Goal
      BY <1>1, <3>1, <3>2, <3>3, <3>4, <3>5, <3>6, <3>7, <3>8, <3>9, <3>10 DEF UserStep, Proceed, Goal
    <3> QED BY <3>11 DEF Goal
  <2> QED BY <2>2, <2>3, <2>4 DEF TypeOK
<1>2. ASSUME NEW q \in sent, Serve(q)
      PROVE  TypeOK'
  <2>1. q \in Requests
    BY DEF TypeOK
  <2>2. q.from \in Sessions /\ q.step \in WriteSteps /\ q.key \in Keys /\ q.payload \in Payloads
    BY <2>1 DEF Requests
  <2>3. Settled(q.payload) \in Entry
    BY <2>2 DEF Settled, Entry
  <2>4. ledger' \in [Keys -> Entry \cup {NoEntry}] /\ effects' \in [WriteSteps -> SUBSET Keys]
    BY <1>2, <2>2, <2>3 DEF Serve, TypeOK
  <2>5. phase' \in [Sessions -> Phases] /\ result' \in [Sessions -> {"none", "success", "failed"}]
    BY <1>2, <2>2 DEF Serve, TypeOK, Goto, Phases
  <2>6. UNCHANGED <<disk, lock, mem, cur, sent, used, crashes>>
    BY <1>2 DEF Serve
  <2> QED BY <2>4, <2>5, <2>6 DEF TypeOK
<1> QED BY <1>1, <1>2 DEF Next

(* A key that was never given out is nobody's; KeysApart is preserved.     *)
LEMMA KeysStep ==
    ASSUME TypeOK, CallsInOrder, KeysApart, Next
    PROVE  KeysApart'
<1> USE PlanAssumption
<1>1. ASSUME NEW s \in Sessions, UserStep(s) \/ Proceed(s) \/ Crash(s)
      PROVE  KeysApart'
  <2>1. PICK m : CopyGives(s, m)
    BY <1>1, CopyStep
  <2>2. /\ effects' = effects /\ cur[s] \in WriteSteps
        /\ sent' = sent \/ Dispatch(s)
    BY <1>1, OthersUntouched DEF TypeOK
  <2>3. ASSUME NEW j \in WriteSteps, NEW k \in Keys, KnownBy(j, k)'
        PROVE  KnownBy(j, k) \/ (j = cur[s] /\ k \in Keys \ used /\ k \in used')
    <3>1. ASSUME m # NoPlan, m[j].key = k
          PROVE  KnownBy(j, k) \/ (j = cur[s] /\ k \in Keys \ used /\ k \in used')
      BY <2>1, <3>1 DEF CopyGives, KnownBy
    <3>2. CASE disk' # NoPlan /\ disk'[j].key = k
      BY <2>1, <3>1, <3>2 DEF CopyGives, KnownBy
    <3>3. CASE \E t \in Sessions : mem'[t] # NoPlan /\ mem'[t][j].key = k
      <4>1. PICK t \in Sessions : mem'[t] # NoPlan /\ mem'[t][j].key = k
        BY <3>3
      <4>2. mem'[t] = IF t = s THEN m ELSE mem[t]
        BY <2>1 DEF CopyGives, TypeOK
      <4> QED BY <3>1, <4>1, <4>2 DEF KnownBy
    <3>4. CASE \E q \in sent' : q.step = j /\ q.key = k
      <4>1. CASE sent' = sent
        BY <3>4, <4>1 DEF KnownBy
      <4>2. CASE Dispatch(s)
        <5>1. PICK q \in Requests : /\ sent' = sent \cup {q}
                                    /\ q.step = cur[s] /\ q.key = mem[s][cur[s]].key
                                    /\ mem[s] # NoPlan /\ cur[s] \in WriteSteps
          BY <4>2, DispatchGives
        <5> QED BY <3>4, <5>1 DEF KnownBy
      <4> QED BY <2>2, <4>1, <4>2
    <3>5. CASE k \in effects'[j]
      BY <2>2, <3>5 DEF KnownBy
    <3> QED BY <2>3, <3>2, <3>3, <3>4, <3>5 DEF KnownBy
  <2>4. ASSUME NEW k \in Keys, NEW i \in WriteSteps, KnownBy(i, k)',
               NEW j \in WriteSteps, KnownBy(j, k)'
        PROVE  k \in used' /\ i = j
    <3>1. KnownBy(i, k) \/ (i = cur[s] /\ k \in Keys \ used /\ k \in used')
      BY <2>3, <2>4
    <3>2. KnownBy(j, k) \/ (j = cur[s] /\ k \in Keys \ used /\ k \in used')
      BY <2>3, <2>4
    <3>3. /\ KnownBy(i, k) => k \in used
          /\ KnownBy(j, k) => k \in used
          /\ KnownBy(i, k) /\ KnownBy(j, k) => i = j
      BY DEF KeysApart
    <3>4. used \subseteq used'
      BY <2>1 DEF CopyGives
    <3> QED BY <3>1, <3>2, <3>3, <3>4
  <2> QED BY <2>4 DEF KeysApart
<1>2. ASSUME NEW q \in sent, Serve(q)
      PROVE  KeysApart'
  <2>1. /\ UNCHANGED <<disk, mem, sent, used>>
        /\ effects' = effects \/ effects' = [effects EXCEPT ![q.step] = @ \cup {q.key}]
    BY <1>2 DEF Serve
  <2>2. ASSUME NEW j \in WriteSteps, NEW k \in Keys, KnownBy(j, k)'
        PROVE  KnownBy(j, k)
    <3>1. k \in effects'[j] => k \in effects[j] \/ (q.step = j /\ q.key = k)
      BY <2>1 DEF TypeOK
    <3> QED BY <2>1, <2>2, <3>1 DEF KnownBy
  <2> QED BY <2>1, <2>2 DEF KeysApart
<1> QED BY <1>1, <1>2 DEF Next

(* A confirmed step that is not turned down is executing, with a key.      *)
LEMMA PersistGives ==
    ASSUME TypeOK, CallsInOrder, NEW s \in Sessions, Persist(s)
    PROVE  LET c == mem'[s][cur[s]] IN
           /\ mem'[s] \in Plans /\ disk' = mem'[s]
           /\ \A j \in WriteSteps : j # cur[s] => mem'[s][j] = mem[s][j]
           /\ mem[s][cur[s]].key # NoKey => c.key = mem[s][cur[s]].key
           /\ c.status \in {"executing", "recovery_rejected"}
           /\ phase'[s] # "idle" => phase'[s] = "dispatch" /\ c.status = "executing" /\ c.key \in Keys
<1> USE PlanAssumption
<1> DEFINE i == cur[s]
           r == mem[s][i]
<1>1. i \in WriteSteps /\ mem[s] \in Plans /\ r \in StepRecord /\ used \subseteq Keys
  BY DEF TypeOK, CallsInOrder, Persist, Plans
<1>2. PICK k \in KeyFor(r) : /\ mem' = [mem EXCEPT ![s] = [mem[s] EXCEPT ![i] = ConfirmedStep(r, k)]]
                             /\ disk' = [mem[s] EXCEPT ![i] = ConfirmedStep(r, k)]
  BY DEF Persist, Remember
<1>3. phase'[s] = IF RecoveryRefused(r) THEN "idle" ELSE "dispatch"
  BY DEF Persist, Goto, TypeOK
<1> DEFINE c == ConfirmedStep(r, k)
<1>4. /\ c \in StepRecord
      /\ r.key # NoKey => c.key = r.key
      /\ RecoveryRefused(r) => c.status = "recovery_rejected"
      /\ ~RecoveryRefused(r) => c.status = "executing" /\ c.key \in Keys
  BY <1>1, ConfirmedGives
<1>5. mem'[s] = [mem[s] EXCEPT ![i] = c] /\ disk' = mem'[s]
  BY <1>2 DEF TypeOK
<1> HIDE DEF c
<1>6. mem'[s] \in Plans /\ mem'[s][i] = c /\ \A j \in WriteSteps : j # i => mem'[s][j] = mem[s][j]
  BY <1>1, <1>4, <1>5, ExceptGives
<1> QED BY <1>3, <1>4, <1>5, <1>6

(* CallsInOrder is preserved: at the session that moves, by what each      *)
(* operation of execute_plan_step leaves behind.                           *)
LEMMA CallsStep ==
    ASSUME TypeOK, CallsInOrder, Next
    PROVE  CallsInOrder'
<1> USE PlanAssumption DEF Goto
<1> DEFINE Ordered(t) ==
        /\ phase[t] # "idle" => mem[t] # NoPlan
        /\ phase[t] \in {"acquire", "save"} => mem[t][cur[t]].status \notin Terminal
        /\ phase[t] \in {"dispatch", "await", "record"} =>
               mem[t][cur[t]].status = "executing" /\ mem[t][cur[t]].key \in Keys
        /\ phase[t] # "record" => result[t] = "none"
<1>0. \A t \in Sessions : Ordered(t)
  BY DEF CallsInOrder
<1>1. ASSUME NEW s \in Sessions, UserStep(s) \/ Proceed(s) \/ Crash(s), NEW t \in Sessions
      PROVE  Ordered(t)'
  <2>1. CASE t # s
    <3>1. phase'[t] = phase[t] /\ cur'[t] = cur[t] /\ result'[t] = result[t]
      BY <1>1, <2>1, OthersUntouched
    <3>2. mem'[t] = mem[t]
      BY <1>1, <2>1, CopyStep DEF CopyGives, TypeOK
    <3> QED BY <1>0, <3>1, <3>2
  <2>2. Ordered(s)'
    <3>0. /\ mem \in [Sessions -> Plans \cup {NoPlan}] /\ phase \in [Sessions -> Phases]
          /\ cur \in [Sessions -> WriteSteps] /\ result \in [Sessions -> {"none", "success", "failed"}]
          /\ Ordered(s)
      BY <1>0 DEF TypeOK
    <3>1. ASSUME phase'[s] = "idle", result'[s] = "none" PROVE Ordered(s)'
      BY <3>1
    <3>2. CASE Resume(s)
      BY <3>0, <3>1, <3>2 DEF Resume
    <3>3. ASSUME NEW i \in WriteSteps, NEW p \in Edits, Preview(s, i, p) PROVE Ordered(s)'
      BY <3>0, <3>1, <3>3 DEF Preview
    <3>4. ASSUME NEW i \in WriteSteps, Confirm(s, i) PROVE Ordered(s)'
      BY <3>0, <3>1, <3>4 DEF Confirm, Terminal
    <3>5. ASSUME NEW i \in WriteSteps, Skip(s, i) PROVE Ordered(s)'
      BY <3>0, <3>1, <3>5 DEF Skip, SaveOrKeep
    <3>6. CASE Cancel(s)
      BY <3>0, <3>1, <3>6 DEF Cancel, SaveOrKeep
    <3>7. CASE Acquire(s)
      <4>0. mem[s] \in Plans /\ cur[s] \in WriteSteps /\ mem[s][cur[s]] \in StepRecord
        BY <3>0, <3>7 DEF Acquire, Plans
      <4>1. CASE phase'[s] = "idle"
        BY <3>0, <3>1, <3>7, <4>1 DEF Acquire
      <4>2. CASE phase'[s] # "idle"
        <5>1. /\ phase'[s] = "save" /\ cur' = cur /\ result' = result
              /\ mem'[s] = IF disk = NoPlan THEN mem[s]
                           ELSE [mem[s] EXCEPT
                                   ![cur[s]].key = IF disk[cur[s]].key # NoKey THEN disk[cur[s]].key ELSE @,
                                   ![cur[s]].fp = IF disk[cur[s]].fp # NoKey THEN disk[cur[s]].fp ELSE @]
          BY <3>0, <3>7, <4>2 DEF Acquire, Remember
        <5>2. mem'[s][cur[s]].status = mem[s][cur[s]].status
          BY <4>0, <5>1 DEF Plans, StepRecord
        <5>3. mem'[s] # NoPlan
          <6>1. [mem[s] EXCEPT
                   ![cur[s]].key = IF disk[cur[s]].key # NoKey THEN disk[cur[s]].key ELSE @,
                   ![cur[s]].fp = IF disk[cur[s]].fp # NoKey THEN disk[cur[s]].fp ELSE @] \in Plans \/ disk = NoPlan
            BY <3>0, <4>0 DEF Plans, StepRecord, TypeOK
          <6> QED BY <4>0, <5>1, <6>1
        <5> QED BY <3>0, <3>7, <5>1, <5>2, <5>3 DEF Acquire
      <4> QED BY <4>1, <4>2
    <3>8. CASE LockTimeout(s) \/ PersistFails(s)
      BY <3>0, <3>1, <3>8 DEF LockTimeout, PersistFails
    <3>9. CASE Persist(s)
      <4>1. cur' = cur /\ result' = result
        BY <3>9 DEF Persist
      <4> QED BY <3>0, <3>1, <3>9, <4>1, PersistGives DEF Persist
    <3>10. CASE Dispatch(s) \/ DispatchFails(s) \/ Timeout(s)
      BY <3>0, <3>10 DEF Dispatch, DispatchFails, Timeout
    <3>11. CASE Record(s) \/ RecordLost(s) \/ Crash(s)
      BY <3>0, <3>1, <3>11 DEF Record, RecordLost, Crash
    <3> QED BY <1>1, <3>2, <3>3, <3>4, <3>5, <3>6, <3>7, <3>8, <3>9, <3>10, <3>11 DEF UserStep, Proceed
  <2> QED BY <2>1, <2>2
<1>2. ASSUME NEW q \in sent, Serve(q), NEW t \in Sessions
      PROVE  Ordered(t)'
  <2>1. q.from \in Sessions
    BY DEF TypeOK, Requests
  <2>2. /\ mem' = mem /\ cur' = cur
        /\ \/ phase' = phase /\ result' = result
           \/ /\ phase[q.from] = "await" /\ phase' = [phase EXCEPT ![q.from] = "record"]
              /\ \A u \in Sessions \ {q.from} : result'[u] = result[u]
    BY <1>2 DEF Serve, TypeOK
  <2>3. CASE phase' = phase /\ result' = result
    BY <1>0, <2>2, <2>3
  <2>4. CASE /\ phase[q.from] = "await" /\ phase' = [phase EXCEPT ![q.from] = "record"]
             /\ \A u \in Sessions \ {q.from} : result'[u] = result[u]
    BY <1>0, <2>1, <2>2, <2>4 DEF TypeOK
  <2> QED BY <2>2, <2>3, <2>4
<1> QED BY <1>1, <1>2 DEF Next, CallsInOrder

(* What the server does: effects are never taken back, a row that settles  *)
(* as completed comes with its effect, and only an answer with an effect   *)
(* of the very step behind it is a success.                                *)
LEMMA ServeGives ==
    ASSUME TypeOK, KeysApart, LedgerHonest, NEW q \in sent, Serve(q)
    PROVE  /\ q.from \in Sessions /\ q.step \in WriteSteps /\ q.key \in Keys
           /\ UNCHANGED <<disk, lock, mem, cur, sent, used, crashes>>
           /\ \A i \in WriteSteps : /\ effects[i] \subseteq effects'[i]
                                    /\ i # q.step => effects'[i] = effects[i]
                                    /\ effects'[i] \subseteq effects[i] \cup {q.key}
           /\ \A k \in Keys \ {q.key} : ledger'[k] = ledger[k]
           /\ ledger'[q.key].status = "completed" => q.key \in effects'[q.step]
           /\ \A t \in Sessions \ {q.from} : result'[t] = result[t]
           /\ \/ result' = result
              \/ q.step = cur[q.from] /\ (result'[q.from] = "success" => q.key \in effects'[q.step])
<1> USE PlanAssumption
<1>1. q \in Requests /\ q.from \in Sessions /\ q.step \in WriteSteps /\ q.key \in Keys /\ q.payload \in Payloads
  BY DEF TypeOK, Requests
<1> DEFINE fresh  == ledger[q.key] = NoEntry
           row    == IF fresh THEN Settled(q.payload) ELSE ledger[q.key]
           answer == IF Verdict(row, q.payload) = "success" THEN "success" ELSE "failed"
<1>2. /\ ledger' = [ledger EXCEPT ![q.key] = row]
      /\ effects' = IF fresh /\ answer = "success"
                    THEN [effects EXCEPT ![q.step] = @ \cup {q.key}] ELSE effects
      /\ UNCHANGED <<disk, lock, mem, cur, sent, used, crashes>>
      /\ \/ result' = result
         \/ q.step = cur[q.from] /\ result' = [result EXCEPT ![q.from] = answer]
  BY DEF Serve
<1>3. answer = "success" => row.status = "completed"
  BY DEF Verdict
<1>4. fresh /\ row.status = "completed" => answer = "success"
  BY DEF Verdict, Settled
<1>5. ~fresh /\ row.status = "completed" => q.key \in effects[q.step]
  <2>1. SUFFICES ASSUME ~fresh, ledger[q.key].status = "completed"
                 PROVE  q.key \in effects[q.step]
    OBVIOUS
  <2>2. PICK i \in WriteSteps : q.key \in effects[i]
    BY <1>1, <2>1 DEF LedgerHonest
  <2>3. KnownBy(i, q.key) /\ KnownBy(q.step, q.key)
    BY <2>2 DEF KnownBy
  <2> QED BY <1>1, <2>2, <2>3 DEF KeysApart
<1>6. ledger'[q.key] = row /\ \A k \in Keys \ {q.key} : ledger'[k] = ledger[k]
  BY <1>1, <1>2 DEF TypeOK
<1> HIDE DEF fresh, row, answer
<1>7. fresh /\ answer = "success" => q.key \in effects'[q.step]
  BY <1>1, <1>2 DEF TypeOK
<1>8. \A i \in WriteSteps : /\ effects[i] \subseteq effects'[i]
                            /\ i # q.step => effects'[i] = effects[i]
                            /\ effects'[i] \subseteq effects[i] \cup {q.key}
  BY <1>1, <1>2 DEF TypeOK
<1>9. row.status = "completed" => q.key \in effects'[q.step]
  BY <1>1, <1>4, <1>5, <1>7, <1>8
<1>10. /\ \A t \in Sessions \ {q.from} : result'[t] = result[t]
       /\ \/ result' = result
          \/ q.step = cur[q.from] /\ (result'[q.from] = "success" => q.key \in effects'[q.step])
  BY <1>1, <1>2, <1>3, <1>9 DEF TypeOK
<1> QED BY <1>1, <1>2, <1>6, <1>8, <1>9, <1>10

(* LedgerHonest is preserved.                                              *)
LEMMA LedgerStep ==
    ASSUME TypeOK, KeysApart, LedgerHonest, Next
    PROVE  LedgerHonest'
<1>1. ASSUME NEW s \in Sessions, UserStep(s) \/ Proceed(s) \/ Crash(s)
      PROVE  LedgerHonest'
  BY <1>1, OthersUntouched DEF LedgerHonest
<1>2. ASSUME NEW q \in sent, Serve(q)
      PROVE  LedgerHonest'
  <2> SUFFICES ASSUME NEW k \in Keys, ledger'[k] # NoEntry, ledger'[k].status = "completed"
               PROVE  \E i \in WriteSteps : k \in effects'[i]
    BY DEF LedgerHonest
  <2>1. CASE k = q.key
    BY <1>2, <2>1, ServeGives
  <2>2. CASE k # q.key
    <3>1. PICK i \in WriteSteps : k \in effects[i]
      BY <1>2, <2>2, ServeGives DEF LedgerHonest
    <3> QED BY <1>2, <3>1, ServeGives
  <2> QED BY <2>1, <2>2
<1> QED BY <1>1, <1>2 DEF Next

(* While a session is answered it stays with its step; a new confirmation  *)
(* starts from no answer.                                                  *)
LEMMA AnswerGives ==
    ASSUME TypeOK, CallsInOrder, NEW s \in Sessions, UserStep(s) \/ Proceed(s) \/ Crash(s),
           result'[s] = "success"
    PROVE  result[s] = "success" /\ cur'[s] = cur[s]
<1>0. /\ result \in [Sessions -> {"none", "success", "failed"}]
      /\ phase[s] # "record" => result[s] = "none"
  BY DEF TypeOK, CallsInOrder
<1>1. CASE Resume(s)
  BY <1>1 DEF Resume
<1>2. ASSUME NEW i \in WriteSteps, NEW p \in Edits, Preview(s, i, p)
      PROVE  UNCHANGED <<cur, result>>
  BY <1>2 DEF Preview
<1>3. ASSUME NEW i \in WriteSteps, Confirm(s, i)
      PROVE  FALSE
  BY <1>0, <1>3 DEF Confirm
<1>4. ASSUME NEW i \in WriteSteps, Skip(s, i)
      PROVE  UNCHANGED <<cur, result>>
  BY <1>4 DEF Skip, SaveOrKeep
<1>5. CASE Cancel(s)
  BY <1>5 DEF Cancel, SaveOrKeep
<1>6. CASE Acquire(s)
  BY <1>6 DEF Acquire
<1>7. CASE LockTimeout(s) \/ Persist(s) \/ PersistFails(s) \/ Dispatch(s)
  BY <1>7 DEF LockTimeout, Persist, PersistFails, Dispatch
<1>8. CASE DispatchFails(s) \/ Timeout(s)
  BY <1>0, <1>8 DEF DispatchFails, Timeout
<1>9. CASE Record(s) \/ RecordLost(s) \/ Crash(s)
  BY <1>0, <1>9 DEF Record, RecordLost, Crash
<1> QED BY <1>1, <1>2, <1>3, <1>4, <1>5, <1>6, <1>7, <1>8, <1>9 DEF UserStep, Proceed

(* AnswersHonest is preserved.                                             *)
LEMMA AnswersStep ==
    ASSUME TypeOK, KeysApart, CallsInOrder, LedgerHonest, AnswersHonest, Next
    PROVE  AnswersHonest'
<1>1. ASSUME NEW s \in Sessions, UserStep(s) \/ Proceed(s) \/ Crash(s)
      PROVE  AnswersHonest'
  <2> SUFFICES ASSUME NEW t \in Sessions, result'[t] = "success"
               PROVE  effects'[cur'[t]] # {}
    BY DEF AnswersHonest
  <2>1. effects' = effects
    BY <1>1, OthersUntouched
  <2>2. result[t] = "success" /\ cur'[t] = cur[t]
    <3>1. CASE t = s
      BY <1>1, <3>1, AnswerGives
    <3>2. CASE t # s
      BY <1>1, <3>2, OthersUntouched
    <3> QED BY <3>1, <3>2
  <2> QED BY <2>1, <2>2 DEF AnswersHonest
<1>2. ASSUME NEW q \in sent, Serve(q)
      PROVE  AnswersHonest'
  <2> SUFFICES ASSUME NEW t \in Sessions, result'[t] = "success"
               PROVE  effects'[cur'[t]] # {}
    BY DEF AnswersHonest
  <2>1. /\ q.from \in Sessions /\ cur' = cur /\ cur[t] \in WriteSteps
        /\ \A i \in WriteSteps : effects[i] \subseteq effects'[i]
        /\ t # q.from => result'[t] = result[t]
        /\ \/ result' = result
           \/ q.step = cur[q.from] /\ (result'[q.from] = "success" => q.key \in effects'[q.step])
    BY <1>2, ServeGives DEF TypeOK
  <2>2. CASE result'[t] = result[t]
    BY <2>1, <2>2 DEF AnswersHonest
  <2>3. CASE result'[t] # result[t]
    BY <2>1, <2>3
  <2> QED BY <2>2, <2>3
<1> QED BY <1>1, <1>2 DEF Next

(* CompletedMeansDone is preserved: a step becomes completed in a copy     *)
(* because it was in the file, or because the answer says so.              *)
LEMMA CompletedStep ==
    ASSUME Honest, Next
    PROVE  CompletedMeansDone'
<1> USE DEF Honest
<1>1. ASSUME NEW s \in Sessions, UserStep(s) \/ Proceed(s) \/ Crash(s)
      PROVE  CompletedMeansDone'
  <2>1. PICK m : CopyGives(s, m)
    BY <1>1, CopyStep
  <2>2. effects' = effects
    BY <1>1, OthersUntouched
  <2> SUFFICES ASSUME NEW i \in WriteSteps, effects[i] = {}
               PROVE  /\ disk' # NoPlan => disk'[i].status # "completed"
                      /\ \A t \in Sessions : mem'[t] # NoPlan => mem'[t][i].status # "completed"
    BY <2>2 DEF CompletedMeansDone
  <2>3. /\ disk # NoPlan => disk[i].status # "completed"
        /\ \A t \in Sessions : mem[t] # NoPlan => mem[t][i].status # "completed"
        /\ i = cur[s] => result[s] # "success"
    BY DEF CompletedMeansDone, AnswersHonest
  <2>4. m # NoPlan => m[i].status # "completed"
    BY <2>1, <2>3 DEF CopyGives
  <2>5. \A t \in Sessions : mem'[t] = IF t = s THEN m ELSE mem[t]
    BY <2>1 DEF CopyGives, TypeOK
  <2>6. disk' = disk \/ disk' = m
    BY <2>1 DEF CopyGives
  <2> QED BY <2>3, <2>4, <2>5, <2>6
<1>2. ASSUME NEW q \in sent, Serve(q)
      PROVE  CompletedMeansDone'
  <2>1. /\ disk' = disk /\ mem' = mem
        /\ \A i \in WriteSteps : effects[i] \subseteq effects'[i]
    BY <1>2, ServeGives
  <2> QED BY <2>1 DEF CompletedMeansDone
<1> QED BY <1>1, <1>2 DEF Next

(* Honest is inductive.                                                    *)
LEMMA HonestStep == Honest /\ [Next]_vars => Honest'
<1> SUFFICES ASSUME Honest, [Next]_vars PROVE Honest'
  OBVIOUS
<1>1. CASE Next
  BY <1>1, TypeStep, KeysStep, CallsStep, LedgerStep, AnswersStep, CompletedStep DEF Honest
<1>2. CASE UNCHANGED vars
  BY <1>2 DEF vars, Honest, TypeOK, KeysApart, KnownBy, CallsInOrder, LedgerHonest, AnswersHonest,
              CompletedMeansDone, DependenciesDone
<1> QED BY <1>1, <1>2

(* Honest always holds, for any number of sessions.                        *)
THEOREM HonestAlways == Spec => []Honest
<1> QED BY InitHonest, HonestStep, PTL DEF Spec

(* The variables hold what the type invariant says, whatever crashes, is   *)
(* lost or arrives late.                                                   *)
THEOREM TypeCorrect == Spec => []TypeOK
<1>1. Honest => TypeOK
  BY DEF Honest
<1> QED BY <1>1, HonestAlways, PTL

(* A step shown as completed, in the file or in any session, has had its   *)
(* effect: for any number of sessions, old copies and late answers.        *)
THEOREM CompletedIsDone == Spec => []CompletedMeansDone
<1>1. Honest => CompletedMeansDone
  BY DEF Honest
<1> QED BY <1>1, HonestAlways, PTL

-----------------------------------------------------------------------------
(* The user works with one PyFlare session, which may die and come back.   *)
OneSession == Sessions = {Creator}

(* The copy of session s goes through a step with every key it has and     *)
(* everything that is completed or skipped in it.                          *)
CopyKeeps(s) ==
    /\ mem[s] # NoPlan /\ mem'[s] # NoPlan
    /\ \A j \in WriteSteps :
          /\ mem[s][j].key # NoKey => mem'[s][j].key = mem[s][j].key
          /\ mem[s][j].status \in {"completed", "skipped"} => mem'[s][j].status = mem[s][j].status

(* One step of the copy given a new status keeps the rest.                 *)
LEMMA StatusKeeps ==
    ASSUME NEW s \in Sessions, mem[s] \in Plans, NEW i \in WriteSteps, NEW st \in Statuses,
           mem'[s] = WithStatus(mem[s], i, st),
           mem[s][i].status \in {"completed", "skipped"} => st = mem[s][i].status
    PROVE  CopyKeeps(s)
<1> DEFINE n == WithStatus(mem[s], i, st)
<1>1. n \in Plans /\ n[i].status = st
  BY WithStatusGives
<1>2. ASSUME NEW j \in WriteSteps
      PROVE  /\ n[j].key = mem[s][j].key
             /\ j # i => \/ n[j].status = mem[s][j].status
                         \/ mem[s][j].status = "planned"
  BY WithStatusGives
<1>3. mem'[s] = n
  OBVIOUS
<1> HIDE DEF n
<1> QED BY PlanAssumption, <1>1, <1>2, <1>3 DEF CopyKeeps

(* One record of the copy replaced.                                        *)
LEMMA ReplaceKeeps ==
    ASSUME NEW s \in Sessions, mem[s] \in Plans, NEW i \in WriteSteps, NEW r \in StepRecord,
           mem'[s] = [mem[s] EXCEPT ![i] = r],
           mem[s][i].key # NoKey => r.key = mem[s][i].key,
           mem[s][i].status \in {"completed", "skipped"} => r.status = mem[s][i].status
    PROVE  CopyKeeps(s)
<1>1. mem'[s] \in Plans /\ mem'[s][i] = r /\ \A j \in WriteSteps : j # i => mem'[s][j] = mem[s][j]
  BY ExceptGives
<1> QED BY PlanAssumption, <1>1 DEF CopyKeeps

(* Every step of a session but a resume and a crash keeps its copy so, and *)
(* what is saved is the copy.                                              *)
LEMMA SoloCopy ==
    ASSUME TypeOK, CallsInOrder, CopyFollowsFile,
           NEW s \in Sessions, UserStep(s) \/ Proceed(s) \/ Crash(s)
    PROVE  \/ disk' = disk /\ (mem'[s] = NoPlan \/ (disk # NoPlan /\ mem'[s] = Loaded))
           \/ disk' = disk /\ mem' = mem
           \/ CopyKeeps(s) /\ (disk' = disk \/ disk' = mem'[s])
<1> USE PlanAssumption DEF Remember
<1>0. /\ mem \in [Sessions -> Plans \cup {NoPlan}] /\ disk \in Plans \cup {NoPlan}
      /\ cur[s] \in WriteSteps /\ used \subseteq Keys
      /\ phase[s] # "idle" => mem[s] \in Plans
      /\ \A m : mem' = [mem EXCEPT ![s] = m] => mem'[s] = m
  BY DEF TypeOK, CallsInOrder
<1>1. CASE Resume(s)
  BY <1>0, <1>1 DEF Resume
<1>2. ASSUME NEW i \in WriteSteps, NEW p \in Edits, Preview(s, i, p)
      PROVE  CopyKeeps(s) /\ disk' = disk
  <2>1. mem[s] \in Plans /\ mem[s][i] \in StepRecord /\ p \in Payloads /\ "ready" \in Statuses
    BY <1>0, <1>2 DEF Preview, Plans, Statuses
  <2> DEFINE r == [mem[s][i] EXCEPT !.params = p]
  <2>2. r \in StepRecord /\ r.status = mem[s][i].status /\ r.key = mem[s][i].key
    BY <2>1, FieldGives
  <2>3. disk' = disk /\ mem'[s] = [mem[s] EXCEPT ![i] = r]
    BY <1>0, <1>2 DEF Preview
  <2> HIDE DEF r
  <2> QED BY <2>1, <2>2, <2>3, ReplaceKeeps
<1>3. ASSUME NEW i \in WriteSteps, Confirm(s, i)
      PROVE  disk' = disk /\ (mem' = mem \/ CopyKeeps(s))
  <2>1. mem[s] \in Plans /\ mem[s][i] \in StepRecord
    BY <1>0, <1>3 DEF Confirm, Plans
  <2> DEFINE r == [mem[s][i] EXCEPT !.status = "blocked"]
  <2>2. r \in StepRecord /\ r.key = mem[s][i].key /\ mem[s][i].status \notin {"completed", "skipped"}
    BY <1>3, <2>1 DEF StepRecord, Statuses, Confirm, Terminal
  <2>3. disk' = disk /\ (mem' = mem \/ mem'[s] = [mem[s] EXCEPT ![i] = r])
    BY <1>0, <1>3 DEF Confirm
  <2> HIDE DEF r
  <2> QED BY <2>1, <2>2, <2>3, ReplaceKeeps
<1>4. CASE Acquire(s)
  <2> DEFINE i == cur[s]
  <2>1. /\ mem[s] \in Plans /\ mem[s][i] \in StepRecord /\ i \in WriteSteps /\ disk' = disk
        /\ mem[s][i].status \notin {"completed", "skipped"}
    BY <1>0, <1>4 DEF Acquire, Plans, CallsInOrder, Terminal
  <2>2. CASE disk = NoPlan
    BY <1>0, <1>4, <2>1, <2>2 DEF Acquire
  <2>3. CASE disk # NoPlan /\ Loaded[i].status \in {"completed", "recovery_rejected"}
    <3> DEFINE r == [mem[s][i] EXCEPT !.status = Loaded[i].status]
    <3>1. r \in StepRecord /\ r.key = mem[s][i].key
      BY <2>1, <2>3 DEF StepRecord, Statuses
    <3>2. mem'[s] = [mem[s] EXCEPT ![i] = r]
      BY <1>0, <1>4, <2>3 DEF Acquire
    <3> HIDE DEF r
    <3> QED BY <2>1, <3>1, <3>2, ReplaceKeeps
  <2>4. CASE disk # NoPlan /\ Loaded[i].status \notin {"completed", "recovery_rejected"}
    <3> DEFINE r == [mem[s][i] EXCEPT
                       !.key = IF disk[i].key # NoKey THEN disk[i].key ELSE mem[s][i].key,
                       !.fp = IF disk[i].fp # NoKey THEN disk[i].fp ELSE mem[s][i].fp]
               n == [mem[s] EXCEPT
                       ![i].key = IF disk[i].key # NoKey THEN disk[i].key ELSE @,
                       ![i].fp = IF disk[i].fp # NoKey THEN disk[i].fp ELSE @]
    <3>1. mem'[s] = [mem[s] EXCEPT ![i] = r]
      <4>1. mem'[s] = n
        BY <1>0, <1>4, <2>4 DEF Acquire
      <4>2. n = [mem[s] EXCEPT ![i] = r]
        BY <1>0, <2>1, <2>4 DEF StepRecord, Plans
      <4> QED BY <4>1, <4>2
    <3>2. disk[i] \in StepRecord /\ (disk[i].key # NoKey => mem[s][i].key = disk[i].key)
      BY <1>0, <2>1, <2>4 DEF Plans, CopyFollowsFile
    <3>3. r \in StepRecord /\ r.key = mem[s][i].key
      BY <2>1, <3>2 DEF StepRecord
    <3> HIDE DEF r, n
    <3> QED BY <2>1, <3>1, <3>3, ReplaceKeeps
  <2> QED BY <2>2, <2>3, <2>4
<1>5. CASE Persist(s) \/ PersistFails(s)
  <2> DEFINE i == cur[s]
  <2>1. /\ mem[s] \in Plans /\ mem[s][i] \in StepRecord /\ i \in WriteSteps
        /\ mem[s][i].status \notin {"completed", "skipped"}
    BY <1>0, <1>5 DEF Persist, PersistFails, CallsInOrder, Plans, Terminal
  <2>2. PICK k \in KeyFor(mem[s][i]) :
          LET c == ConfirmedStep(mem[s][i], k) IN
          \/ mem'[s] = [mem[s] EXCEPT ![i] = c] /\ disk' = mem'[s]
          \/ mem'[s] = [mem[s] EXCEPT ![i] = [c EXCEPT !.status = "ready"]] /\ disk' = disk
    BY <1>0, <1>5 DEF Persist, PersistFails
  <2> DEFINE c == ConfirmedStep(mem[s][i], k)
             r == [c EXCEPT !.status = "ready"]
  <2>3. c \in StepRecord /\ (mem[s][i].key # NoKey => c.key = mem[s][i].key)
    BY <1>0, <2>1, ConfirmedGives
  <2>4. \/ mem'[s] = [mem[s] EXCEPT ![i] = c] /\ disk' = mem'[s]
        \/ mem'[s] = [mem[s] EXCEPT ![i] = r] /\ disk' = disk
    BY <2>2
  <2> HIDE DEF c
  <2>5. r \in StepRecord /\ r.key = c.key
    BY <2>3 DEF StepRecord, Statuses
  <2> HIDE DEF r
  <2> QED BY <2>1, <2>3, <2>4, <2>5, ReplaceKeeps
<1>6. CASE Record(s) \/ RecordLost(s)
  <2>1. /\ mem[s] \in Plans /\ mem[s][cur[s]].status = "executing"
        /\ \/ mem'[s] = Recorded(s) /\ (disk' = disk \/ disk' = mem'[s])
           \/ mem' = mem /\ disk' = disk
    BY <1>0, <1>6 DEF Record, RecordLost, CallsInOrder
  <2> DEFINE st == IF result[s] = "success" THEN "completed" ELSE "failed"
  <2>2. st \in Statuses /\ Recorded(s) = WithStatus(mem[s], cur[s], st)
    BY DEF Statuses, Recorded
  <2> HIDE DEF st
  <2> QED BY <1>0, <2>1, <2>2, StatusKeeps
<1>7. ASSUME NEW i \in WriteSteps, Skip(s, i)
      PROVE  CopyKeeps(s) /\ (disk' = disk \/ disk' = mem'[s])
  <2>1. /\ mem[s] \in Plans /\ mem[s][i].status # "completed" /\ "skipped" \in Statuses
        /\ mem'[s] = WithStatus(mem[s], i, "skipped") /\ (disk' = disk \/ disk' = mem'[s])
    BY <1>0, <1>7 DEF Skip, SaveOrKeep, Statuses
  <2> QED BY <2>1, StatusKeeps
<1>8. CASE Cancel(s)
  <2> DEFINE n == [i \in WriteSteps |->
                     IF mem[s][i].status \in {"completed", "skipped"} THEN mem[s][i]
                     ELSE [mem[s][i] EXCEPT !.status = "cancelled"]]
  <2>1. mem[s] \in Plans /\ mem'[s] = n /\ (disk' = disk \/ disk' = n)
    BY <1>0, <1>8 DEF Cancel, SaveOrKeep
  <2>2. ASSUME NEW j \in WriteSteps
        PROVE  /\ n[j] \in StepRecord /\ n[j].key = mem[s][j].key
               /\ mem[s][j].status \in {"completed", "skipped"} => n[j].status = mem[s][j].status
    <3>1. mem[s][j] \in StepRecord
      BY <2>1 DEF Plans
    <3> QED BY <3>1 DEF StepRecord, Statuses
  <2>3. n \in Plans
    BY <2>2 DEF Plans
  <2> HIDE DEF n
  <2> QED BY <2>1, <2>2, <2>3 DEF CopyKeeps
<1>9. CASE LockTimeout(s) \/ Dispatch(s) \/ DispatchFails(s) \/ Timeout(s)
  BY <1>9 DEF LockTimeout, Dispatch, DispatchFails, Timeout
<1>10. CASE Crash(s)
  BY <1>0, <1>10 DEF Crash
<1> QED BY <1>1, <1>2, <1>3, <1>4, <1>5, <1>6, <1>7, <1>8, <1>9, <1>10 DEF UserStep, Proceed

(* With one session, the copy it works on follows the file, and so the     *)
(* file never loses a key, a completion or a skip.                         *)
LEMMA FileKeeps ==
    ASSUME OneSession, TypeOK, CallsInOrder, CopyFollowsFile,
           NEW s \in Sessions, UserStep(s) \/ Proceed(s) \/ Crash(s)
    PROVE  /\ CopyFollowsFile'
           /\ disk # NoPlan =>
                 /\ disk' # NoPlan
                 /\ \A j \in WriteSteps :
                       /\ disk[j].key # NoKey => disk'[j].key = disk[j].key
                       /\ disk[j].status \in {"completed", "skipped"} => disk'[j].status = disk[j].status
<1> USE PlanAssumption
<1>1. \A t \in Sessions : t = s
  BY DEF OneSession
<1>2. disk \in Plans \cup {NoPlan}
  BY DEF TypeOK
<1>3. CASE disk' = disk /\ (mem'[s] = NoPlan \/ (disk # NoPlan /\ mem'[s] = Loaded))
  <2>1. disk # NoPlan => \A j \in WriteSteps :
            /\ Loaded[j].key = disk[j].key
            /\ disk[j].status \in {"completed", "skipped"} => Loaded[j].status = disk[j].status
    BY <1>2, LoadedGives
  <2>2. Loaded' = Loaded
    BY <1>3 DEF Loaded
  <2> QED BY <1>1, <1>3, <2>1, <2>2 DEF CopyFollowsFile
<1>4. CASE disk' = disk /\ mem' = mem
  BY <1>4 DEF CopyFollowsFile
<1>5. CASE CopyKeeps(s) /\ disk' = disk
  BY <1>1, <1>5 DEF CopyFollowsFile, CopyKeeps
<1>6. CASE CopyKeeps(s) /\ disk' = mem'[s]
  BY <1>1, <1>6 DEF CopyFollowsFile, CopyKeeps
<1> QED BY <1>3, <1>4, <1>5, <1>6, SoloCopy

(* SavedFirst is preserved: the save comes before the request, and until   *)
(* the result is recorded neither copy nor file changes.                   *)
LEMMA SavedStep ==
    ASSUME OneSession, TypeOK, CallsInOrder, SavedFirst, Next
    PROVE  SavedFirst'
<1> USE PlanAssumption
<1> DEFINE Saved(t) == phase[t] \in {"dispatch", "await", "record"} =>
               disk # NoPlan /\ disk[cur[t]].status = "executing" /\ disk[cur[t]].key = mem[t][cur[t]].key
<1>0. /\ phase \in [Sessions -> Phases] /\ \A t \in Sessions : Saved(t)
  BY DEF TypeOK, SavedFirst
<1>1. ASSUME NEW s \in Sessions, UserStep(s) \/ Proceed(s) \/ Crash(s)
      PROVE  SavedFirst'
  <2>1. Saved(s)'
    <3> USE DEF Goto
    <3>1. CASE phase'[s] \in {"idle", "acquire", "save"}
      BY <3>1
    <3>2. CASE Resume(s) \/ Cancel(s)
      BY <1>0, <3>1, <3>2 DEF Resume, Cancel, SaveOrKeep
    <3>3. ASSUME NEW i \in WriteSteps, (\E p \in Edits : Preview(s, i, p)) \/ Confirm(s, i) \/ Skip(s, i)
          PROVE  Saved(s)'
      BY <1>0, <3>1, <3>3 DEF Preview, Confirm, Skip, SaveOrKeep
    <3>4. CASE Acquire(s) \/ LockTimeout(s) \/ PersistFails(s)
      BY <1>0, <3>1, <3>4 DEF Acquire, LockTimeout, PersistFails
    <3>5. CASE Persist(s)
      <4>1. cur' = cur /\ disk' = mem'[s] /\ mem'[s] \in Plans
        BY <3>5, PersistGives DEF Persist
      <4>2. phase'[s] # "idle" => mem'[s][cur[s]].status = "executing"
        BY <3>5, PersistGives
      <4> QED BY <3>1, <4>1, <4>2
    <3>6. CASE Dispatch(s) \/ DispatchFails(s) \/ Timeout(s)
      BY <1>0, <3>6 DEF Dispatch, DispatchFails, Timeout
    <3>7. CASE Record(s) \/ RecordLost(s) \/ Crash(s)
      BY <1>0, <3>1, <3>7 DEF Record, RecordLost, Crash
    <3> QED BY <1>1, <3>2, <3>3, <3>4, <3>5, <3>6, <3>7 DEF UserStep, Proceed
  <2> QED BY <2>1 DEF SavedFirst, OneSession
<1>2. ASSUME NEW q \in sent, Serve(q)
      PROVE  SavedFirst'
  <2>1. /\ q.from \in Sessions /\ UNCHANGED <<disk, mem, cur>>
        /\ phase' = phase \/ (phase[q.from] = "await" /\ phase' = [phase EXCEPT ![q.from] = "record"])
    BY <1>2 DEF Serve, Goto, TypeOK, Requests
  <2> QED BY <1>0, <2>1 DEF SavedFirst
<1> QED BY <1>1, <1>2 DEF Next

(* KeyOnDiskBeforeSend is preserved.                                       *)
LEMMA KeyOnDiskStep ==
    ASSUME OneSession, TypeOK, CallsInOrder, CopyFollowsFile, SavedFirst, KeyOnDiskBeforeSend, Next
    PROVE  KeyOnDiskBeforeSend'
<1> USE PlanAssumption
<1>0. \A q \in sent : q.step \in WriteSteps /\ q.key \in Keys
  BY DEF TypeOK, Requests
<1>1. ASSUME NEW s \in Sessions, UserStep(s) \/ Proceed(s) \/ Crash(s)
      PROVE  KeyOnDiskBeforeSend'
  <2>1. ASSUME NEW q \in sent
        PROVE  disk' # NoPlan /\ disk'[q.step].key = q.key
    BY <1>0, <1>1, FileKeeps DEF KeyOnDiskBeforeSend
  <2>2. CASE sent' = sent
    BY <2>1, <2>2 DEF KeyOnDiskBeforeSend
  <2>3. CASE Dispatch(s)
    <3>1. PICK q \in Requests : /\ sent' = sent \cup {q}
                                /\ q.step = cur[s] /\ q.key = mem[s][cur[s]].key
      BY <2>3, DispatchGives
    <3>2. disk' = disk /\ disk # NoPlan /\ disk[cur[s]].key = mem[s][cur[s]].key
      BY <2>3 DEF Dispatch, SavedFirst
    <3> QED BY <2>1, <3>1, <3>2 DEF KeyOnDiskBeforeSend
  <2> QED BY <1>1, <2>2, <2>3, OthersUntouched
<1>2. ASSUME NEW q \in sent, Serve(q)
      PROVE  KeyOnDiskBeforeSend'
  BY <1>2 DEF Serve, KeyOnDiskBeforeSend
<1> QED BY <1>1, <1>2 DEF Next

(* What a step waits for stays done.                                       *)
LEMMA AwaitedStays ==
    ASSUME OneSession, TypeOK, CallsInOrder, KeysApart, LedgerHonest, CopyFollowsFile, Next,
           NEW i \in WriteSteps, Awaited(i)
    PROVE  Awaited(i)'
<1>0. Deps[i] \subseteq WriteSteps
  BY PlanAssumption
<1>1. ASSUME NEW s \in Sessions, UserStep(s) \/ Proceed(s) \/ Crash(s)
      PROVE  Awaited(i)'
  <2>1. effects' = effects
    BY <1>1, OthersUntouched
  <2>2. \A d \in Deps[i] : disk # NoPlan /\ disk[d].status = "skipped" =>
                           disk' # NoPlan /\ disk'[d].status = "skipped"
    BY <1>0, <1>1, FileKeeps
  <2> QED BY <2>1, <2>2 DEF Awaited
<1>2. ASSUME NEW q \in sent, Serve(q)
      PROVE  Awaited(i)'
  <2>1. disk' = disk /\ \A d \in WriteSteps : effects[d] \subseteq effects'[d]
    BY <1>2, ServeGives
  <2> QED BY <1>0, <2>1 DEF Awaited
<1> QED BY <1>1, <1>2 DEF Next

(* WaitedFor is preserved: a confirmation looks at the copy, and the copy  *)
(* is saved before the request leaves.                                     *)
LEMMA WaitedStep ==
    ASSUME OneSession, Honest, CopyFollowsFile, WaitedFor, Next
    PROVE  WaitedFor'
<1> USE PlanAssumption DEF Honest
<1> DEFINE Waits(t) == /\ phase[t] \in {"acquire", "save"} => DependenciesDone(cur[t], mem[t])
                       /\ phase[t] \in {"dispatch", "await", "record"} => Awaited(cur[t])
<1>0. /\ phase \in [Sessions -> Phases] /\ cur \in [Sessions -> WriteSteps]
      /\ mem \in [Sessions -> Plans \cup {NoPlan}]
      /\ \A t \in Sessions : Waits(t)
      /\ \A q \in sent : q.step \in WriteSteps /\ Awaited(q.step)
  BY DEF TypeOK, WaitedFor, Requests
<1>1. \A i \in WriteSteps : Awaited(i) => Awaited(i)'
  BY AwaitedStays
<1>2. ASSUME NEW s \in Sessions, UserStep(s) \/ Proceed(s) \/ Crash(s)
      PROVE  WaitedFor'
  <2>1. Waits(s)'
    <3> USE DEF Goto
    <3>1. CASE phase'[s] = "idle"
      BY <3>1
    <3>2. CASE Resume(s) \/ Cancel(s)
      BY <1>0, <3>1, <3>2 DEF Resume, Cancel, SaveOrKeep
    <3>3. ASSUME NEW i \in WriteSteps, (\E p \in Edits : Preview(s, i, p)) \/ Skip(s, i)
          PROVE  Waits(s)'
      BY <1>0, <3>1, <3>3 DEF Preview, Skip, SaveOrKeep
    <3>4. ASSUME NEW i \in WriteSteps, Confirm(s, i)
          PROVE  Waits(s)'
      <4>1. CASE DependenciesDone(i, mem[s])
        <5>1. phase'[s] = "acquire" /\ cur'[s] = i /\ mem' = mem
          BY <1>0, <3>4, <4>1 DEF Confirm
        <5> QED BY <4>1, <5>1 DEF DependenciesDone
      <4>2. CASE ~DependenciesDone(i, mem[s])
        BY <1>0, <3>1, <3>4, <4>2 DEF Confirm
      <4> QED BY <4>1, <4>2
    <3>5. CASE Acquire(s)
      <4>1. cur' = cur /\ cur[s] \in WriteSteps /\ phase[s] = "acquire" /\ phase'[s] \in {"idle", "save"}
        BY <1>0, <3>5 DEF Acquire
      <4>2. \A d \in WriteSteps : d # cur[s] => mem'[s][d] = mem[s][d]
        <5>1. mem[s] \in Plans
          BY <1>0, <3>5 DEF Acquire, CallsInOrder
        <5> QED BY <1>0, <3>5, <5>1 DEF Acquire, Remember, Plans
      <4>3. \A d \in Deps[cur[s]] : d \in WriteSteps /\ d # cur[s]
        BY <4>1 DEF WriteSteps
      <4> QED BY <1>0, <3>1, <4>1, <4>2, <4>3 DEF DependenciesDone
    <3>6. CASE Persist(s)
      <4>1. cur' = cur /\ cur[s] \in WriteSteps /\ phase[s] = "save" /\ phase'[s] \in {"idle", "dispatch"}
            /\ effects' = effects
        BY <1>0, <3>6 DEF Persist, serverVars
      <4>2. disk' \in Plans /\ \A d \in WriteSteps : d # cur[s] => disk'[d] = mem[s][d]
        BY <3>6, PersistGives
      <4>3. \A d \in Deps[cur[s]] : /\ d \in WriteSteps /\ d # cur[s]
                                    /\ mem[s][d].status \in {"completed", "skipped"}
        BY <1>0, <4>1 DEF WriteSteps, DependenciesDone
      <4>4. mem[s] # NoPlan
        BY <4>1 DEF CallsInOrder
      <4>5. \A d \in Deps[cur[s]] : effects[d] # {} \/ disk'[d].status = "skipped"
        BY <4>2, <4>3, <4>4 DEF CompletedMeansDone
      <4> QED BY <3>1, <4>1, <4>2, <4>5 DEF Awaited
    <3>7. CASE LockTimeout(s) \/ PersistFails(s)
      BY <1>0, <3>1, <3>7 DEF LockTimeout, PersistFails
    <3>8. CASE Dispatch(s) \/ DispatchFails(s) \/ Timeout(s)
      <4>1. cur' = cur /\ phase[s] \in {"dispatch", "await"} /\ phase'[s] \in {"await", "record"}
        BY <1>0, <3>8 DEF Dispatch, DispatchFails, Timeout
      <4> QED BY <1>0, <1>1, <4>1
    <3>9. CASE Record(s) \/ RecordLost(s) \/ Crash(s)
      BY <1>0, <3>1, <3>9 DEF Record, RecordLost, Crash
    <3> QED BY <1>2, <3>2, <3>3, <3>4, <3>5, <3>6, <3>7, <3>8, <3>9 DEF UserStep, Proceed
  <2>2. \A q \in sent' : Awaited(q.step)'
    <3>1. CASE sent' = sent
      BY <1>0, <1>1, <3>1
    <3>2. CASE Dispatch(s)
      <4>1. PICK q \in Requests : sent' = sent \cup {q} /\ q.step = cur[s] /\ cur[s] \in WriteSteps
        BY <3>2, DispatchGives
      <4>2. Awaited(cur[s])
        BY <1>0, <3>2 DEF Dispatch
      <4> QED BY <1>0, <1>1, <4>1, <4>2
    <3> QED BY <1>2, <3>1, <3>2, OthersUntouched
  <2> QED BY <2>1, <2>2 DEF WaitedFor, OneSession
<1>3. ASSUME NEW q \in sent, Serve(q)
      PROVE  WaitedFor'
  <2>1. /\ q.from \in Sessions /\ UNCHANGED <<mem, cur, sent>>
        /\ phase' = phase \/ (phase[q.from] = "await" /\ phase' = [phase EXCEPT ![q.from] = "record"])
    BY <1>3 DEF Serve, Goto, TypeOK, Requests
  <2> QED BY <1>0, <1>1, <2>1 DEF WaitedFor, DependenciesDone
<1> QED BY <1>2, <1>3 DEF Next

(* EffectsAsked is preserved.                                              *)
LEMMA AskedStep ==
    ASSUME TypeOK, CallsInOrder, KeysApart, LedgerHonest, EffectsAsked, Next
    PROVE  EffectsAsked'
<1>1. ASSUME NEW s \in Sessions, UserStep(s) \/ Proceed(s) \/ Crash(s)
      PROVE  EffectsAsked'
  <2>1. effects' = effects /\ sent \subseteq sent'
    BY <1>1, OthersUntouched, DispatchGives
  <2> QED BY <2>1 DEF EffectsAsked
<1>2. ASSUME NEW q \in sent, Serve(q)
      PROVE  EffectsAsked'
  <2>1. /\ sent' = sent
        /\ \A i \in WriteSteps : /\ i # q.step => effects'[i] = effects[i]
                                 /\ effects'[i] \subseteq effects[i] \cup {q.key}
    BY <1>2, ServeGives
  <2> QED BY <2>1 DEF EffectsAsked
<1> QED BY <1>1, <1>2 DEF Next

LEMMA InitSolo == Init => Solo
<1> SUFFICES ASSUME Init PROVE Solo
  OBVIOUS
<1>1. Honest
  BY InitHonest
<1>2. CopyFollowsFile
  <2>1. \A s \in Sessions : mem[s] \in {InitPlan, NoPlan}
    BY DEF Init
  <2>2. disk \in {InitPlan, NoPlan}
    BY DEF Init
  <2> QED BY <2>1, <2>2 DEF CopyFollowsFile
<1>3. SavedFirst /\ KeyOnDiskBeforeSend /\ WaitedFor /\ EffectsAsked
  BY DEF Init, SavedFirst, KeyOnDiskBeforeSend, WaitedFor, EffectsAsked
<1> QED BY <1>1, <1>2, <1>3 DEF Solo

(* Solo is inductive when there is one session.                            *)
LEMMA SoloStep ==
    ASSUME OneSession
    PROVE  Solo /\ [Next]_vars => Solo'
<1> SUFFICES ASSUME Solo, [Next]_vars PROVE Solo'
  OBVIOUS
<1>1. CASE Next
  <2>1. Honest'
    BY <1>1, HonestStep DEF Solo
  <2>2. CopyFollowsFile'
    <3>1. ASSUME NEW s \in Sessions, UserStep(s) \/ Proceed(s) \/ Crash(s)
          PROVE  CopyFollowsFile'
      BY <3>1, FileKeeps DEF Solo, Honest
    <3>2. ASSUME NEW q \in sent, Serve(q)
          PROVE  CopyFollowsFile'
      BY <3>2 DEF Serve, CopyFollowsFile, Solo
    <3> QED BY <1>1, <3>1, <3>2 DEF Next
  <2>3. SavedFirst' /\ KeyOnDiskBeforeSend'
    BY <1>1, SavedStep, KeyOnDiskStep DEF Solo, Honest
  <2>4. WaitedFor' /\ EffectsAsked'
    BY <1>1, WaitedStep, AskedStep DEF Solo, Honest
  <2> QED BY <2>1, <2>2, <2>3, <2>4 DEF Solo
<1>2. CASE UNCHANGED vars
  <2>1. Honest'
    BY HonestStep DEF Solo
  <2> QED BY <1>2, <2>1 DEF vars, Solo, CopyFollowsFile, SavedFirst, KeyOnDiskBeforeSend, WaitedFor,
                            EffectsAsked, Awaited, DependenciesDone
<1> QED BY <1>1, <1>2

(* With one session, Solo always holds.                                    *)
THEOREM SoloAlways ==
    ASSUME OneSession
    PROVE  Spec => []Solo
<1> QED BY InitSolo, SoloStep, PTL DEF Spec

(* The write-ahead rule, with one session: whatever crashes or is lost,    *)
(* every request that ever left has its key in the file, and it stays.     *)
THEOREM KeyIsOnDisk ==
    ASSUME OneSession
    PROVE  Spec => []KeyOnDiskBeforeSend
<1>1. Solo => KeyOnDiskBeforeSend
  BY DEF Solo
<1> QED BY <1>1, SoloAlways, PTL

(* With one session a step's write takes effect at most once, however      *)
(* often it is confirmed, interrupted, resumed and confirmed again: every  *)
(* effect is that of a request, and all requests of a step carry the one   *)
(* key the file has for it.                                                *)
THEOREM WrittenAtMostOnce ==
    ASSUME OneSession
    PROVE  Spec => []AtMostOncePerStep
<1>1. Solo => AtMostOncePerStep
  <2> SUFFICES ASSUME Solo, NEW i \in WriteSteps, NEW j \in effects[i], NEW k \in effects[i]
               PROVE  j = k
    BY DEF AtMostOncePerStep
  <2>1. PICK q \in sent : q.step = i /\ q.key = j
    BY DEF Solo, EffectsAsked
  <2>2. PICK p \in sent : p.step = i /\ p.key = k
    BY DEF Solo, EffectsAsked
  <2> QED BY <2>1, <2>2 DEF Solo, KeyOnDiskBeforeSend
<1> QED BY <1>1, SoloAlways, PTL

(* With one session a write happens only after the writes it depends on,   *)
(* or after the user skipped them.                                         *)
THEOREM DependenciesFirst ==
    ASSUME OneSession
    PROVE  Spec => []DependencyOrder
<1>1. Solo => DependencyOrder
  <2> SUFFICES ASSUME Solo, NEW i \in WriteSteps, effects[i] # {}
               PROVE  Awaited(i)
    BY DEF DependencyOrder, Awaited
  <2>1. PICK q \in sent : q.step = i
    BY DEF Solo, EffectsAsked
  <2> QED BY <2>1 DEF Solo, WaitedFor
<1> QED BY <1>1, SoloAlways, PTL

(* With one session the end of a step is final: a completion the file has  *)
(* stays, and no request leaves for a step that is not executing there.    *)
THEOREM EndsAreFinal ==
    ASSUME OneSession
    PROVE  Spec => TheEndIsFinal
<1> DEFINE Final == /\ \A i \in WriteSteps : disk # NoPlan /\ disk[i].status = "completed" =>
                           disk'[i].status = "completed"
                    /\ \A q \in sent' \ sent : disk # NoPlan /\ disk[q.step].status = "executing"
<1>1. ASSUME Solo, Next PROVE Final
  <2> USE DEF Solo, Honest
  <2>1. ASSUME NEW s \in Sessions, UserStep(s) \/ Proceed(s) \/ Crash(s)
        PROVE  Final
    <3>1. \A i \in WriteSteps : disk # NoPlan /\ disk[i].status = "completed" => disk'[i].status = "completed"
      BY <1>1, <2>1, FileKeeps
    <3>2. ASSUME NEW p \in sent' \ sent
          PROVE  disk # NoPlan /\ disk[p.step].status = "executing"
      <4>1. Dispatch(s)
        BY <1>1, <2>1, <3>2, OthersUntouched
      <4>2. PICK q \in Requests : sent' = sent \cup {q} /\ q.step = cur[s]
        BY <1>1, <4>1, DispatchGives
      <4>3. phase[s] = "dispatch"
        BY <4>1 DEF Dispatch
      <4> QED BY <1>1, <3>2, <4>2, <4>3 DEF SavedFirst
    <3> QED BY <3>1, <3>2
  <2>2. ASSUME NEW q \in sent, Serve(q)
        PROVE  Final
    BY <2>2 DEF Serve
  <2> QED BY <1>1, <2>1, <2>2 DEF Next
<1>2. Solo /\ [Next]_vars => [Final]_vars
  BY <1>1
<1>3. Spec => [][Final]_vars
  BY <1>2, SoloAlways, PTL DEF Spec
<1> QED BY <1>3 DEF TheEndIsFinal

-----------------------------------------------------------------------------
(* Several sessions, one step.                                             *)
OneStep == NSteps = 1

(* The lock is held by whoever is saving a confirmation.                   *)
LockHeld == \A s \in Sessions : phase[s] = "save" => lock = s

(* Next without the two operations that save a copy which has not been     *)
(* compared with the file: skip_plan_step and cancel_plan.                 *)
Careful(s) ==
    \/ Resume(s) \/ Proceed(s) \/ Crash(s)
    \/ \E i \in WriteSteps : Confirm(s, i) \/ \E p \in Edits : Preview(s, i, p)

CarefulNext == (\E s \in Sessions : Careful(s)) \/ (\E q \in sent : Serve(q))

CarefulSpec == Init /\ [][CarefulNext]_vars

(* What a session sends, or has sent, the file has the key of; and under   *)
(* the lock it has taken over whatever key the file has.                   *)
CallHasFileKey ==
    \A s \in Sessions : phase[s] \in {"dispatch", "await", "record"} =>
        disk # NoPlan /\ disk[cur[s]].key = mem[s][cur[s]].key

SaveHasFileKey ==
    \A s \in Sessions : phase[s] = "save" /\ disk # NoPlan /\ disk[cur[s]].key # NoKey =>
        mem[s][cur[s]].key = disk[cur[s]].key

KeyKept == /\ Honest /\ EffectsAsked /\ KeyOnDiskBeforeSend
           /\ LockHeld /\ CallHasFileKey /\ SaveHasFileKey

(* Acquire: either the file says the step is over, and so it is here, or   *)
(* the file's key, if it has one, is taken over under the lock.            *)
LEMMA AcquireGives ==
    ASSUME TypeOK, CallsInOrder, NEW s \in Sessions, Acquire(s)
    PROVE  LET old == mem[s][cur[s]]
               new == mem'[s][cur[s]] IN
           /\ mem[s] \in Plans /\ mem'[s] \in Plans /\ UNCHANGED <<disk, cur>>
           /\ \/ /\ phase'[s] = "idle"
                 /\ new.key = old.key /\ new.status \in Terminal
              \/ /\ phase'[s] = "save" /\ lock' = s
                 /\ new.key = IF disk # NoPlan /\ disk[cur[s]].key # NoKey THEN disk[cur[s]].key ELSE old.key
                 /\ new.status = old.status
<1> USE PlanAssumption
<1> DEFINE i == cur[s]
           old == mem[s][i]
<1>0. /\ phase \in [Sessions -> Phases] /\ mem \in [Sessions -> Plans \cup {NoPlan}]
      /\ disk \in Plans \cup {NoPlan} /\ i \in WriteSteps
  BY DEF TypeOK
<1>1. mem[s] \in Plans /\ old \in StepRecord /\ UNCHANGED <<disk, cur>>
  BY <1>0 DEF Acquire, CallsInOrder, Plans
<1>2. CASE disk = NoPlan
  <2>1. mem'[s] = mem[s] /\ phase'[s] = "save" /\ lock' = s
    BY <1>0, <1>2 DEF Acquire, Remember, Goto
  <2> QED BY <1>1, <1>2, <2>1
<1>3. CASE disk # NoPlan /\ Loaded[i].status \in {"completed", "recovery_rejected"}
  <2> DEFINE r == [old EXCEPT !.status = Loaded[i].status]
  <2>1. mem'[s] = [mem[s] EXCEPT ![i] = r] /\ phase'[s] = "idle"
    BY <1>0, <1>3 DEF Acquire, Remember, Goto
  <2>2. r \in StepRecord /\ r.status \in Terminal /\ r.key = old.key
    BY <1>1, <1>3 DEF StepRecord, Statuses, Terminal
  <2> HIDE DEF r
  <2> QED BY <1>0, <1>1, <2>1, <2>2, ExceptGives
<1>4. CASE disk # NoPlan /\ Loaded[i].status \notin {"completed", "recovery_rejected"}
  <2> DEFINE r == [old EXCEPT !.key = IF disk[i].key # NoKey THEN disk[i].key ELSE old.key,
                              !.fp = IF disk[i].fp # NoKey THEN disk[i].fp ELSE old.fp]
             n == [mem[s] EXCEPT ![i].key = IF disk[i].key # NoKey THEN disk[i].key ELSE @,
                                 ![i].fp = IF disk[i].fp # NoKey THEN disk[i].fp ELSE @]
  <2>1. mem' = [mem EXCEPT ![s] = n] /\ phase'[s] = "save" /\ lock' = s
    BY <1>0, <1>4 DEF Acquire, Remember, Goto
  <2>2. n = [mem[s] EXCEPT ![i] = r]
    BY <1>0, <1>1, <1>4 DEF StepRecord, Plans
  <2> HIDE DEF n
  <2>3. mem'[s] = [mem[s] EXCEPT ![i] = r]
    BY <1>0, <2>1, <2>2
  <2>4. disk[i] \in StepRecord
    BY <1>0, <1>4 DEF Plans
  <2>5. /\ r \in StepRecord /\ r.status = old.status
        /\ r.key = IF disk[i].key # NoKey THEN disk[i].key ELSE old.key
    BY <1>1, <2>4 DEF StepRecord
  <2> HIDE DEF r
  <2> QED BY <1>0, <1>1, <1>4, <2>1, <2>3, <2>5, ExceptGives
<1> QED BY <1>2, <1>3, <1>4

(* While one session saves a confirmation no other touches the file or the *)
(* lock.                                                                   *)
LEMMA LockKeeps ==
    ASSUME TypeOK, LockHeld, NEW s \in Sessions, UserStep(s) \/ Proceed(s) \/ Crash(s)
    PROVE  /\ LockHeld'
           /\ \A t \in Sessions \ {s} : phase[t] = "save" => disk' = disk /\ lock' = lock
<1> USE PlanAssumption DEF TypeOK, LockHeld, Goto
<1>0. \A t \in Sessions \ {s} : phase'[t] = phase[t]
  BY OthersUntouched
<1>1. CASE Resume(s)
  BY <1>1 DEF Resume
<1>2. ASSUME NEW i \in WriteSteps, NEW p \in Edits, Preview(s, i, p)
      PROVE  UNCHANGED <<disk, lock, phase>>
  BY <1>2 DEF Preview
<1>3. ASSUME NEW i \in WriteSteps, Confirm(s, i)
      PROVE  UNCHANGED <<disk, lock>> /\ phase'[s] # "save"
  BY <1>3 DEF Confirm
<1>4. ASSUME NEW i \in WriteSteps, Skip(s, i)
      PROVE  UNCHANGED <<lock, phase>> /\ (disk' = disk \/ lock = NoSession)
  BY <1>4 DEF Skip, SaveOrKeep
<1>5. CASE Acquire(s)
  BY <1>5 DEF Acquire
<1>6. CASE Persist(s) \/ PersistFails(s)
  BY <1>6 DEF Persist, PersistFails
<1>7. CASE LockTimeout(s) \/ Dispatch(s) \/ DispatchFails(s) \/ Timeout(s)
  BY <1>7 DEF LockTimeout, Dispatch, DispatchFails, Timeout
<1>8. CASE Record(s)
  BY <1>8 DEF Record
<1>9. CASE RecordLost(s)
  BY <1>9 DEF RecordLost
<1>10. CASE Crash(s)
  BY <1>0, <1>10 DEF Crash
<1>11. CASE Cancel(s)
  BY <1>11 DEF Cancel, SaveOrKeep
<1> QED BY <1>0, <1>1, <1>2, <1>3, <1>4, <1>5, <1>6, <1>7, <1>8, <1>9, <1>10, <1>11 DEF UserStep, Proceed

(* A careful step is a step.                                               *)
LEMMA CarefulIsNext ==
    /\ \A s \in Sessions : Careful(s) => UserStep(s) \/ Proceed(s) \/ Crash(s)
    /\ CarefulNext => Next
BY DEF Careful, CarefulNext, UserStep, Next

(* Once the file has a key for the step, confirming, dispatching,          *)
(* recording and crashing leave it there.                                  *)
LEMMA FileKeyStays ==
    ASSUME OneStep, KeyKept, NEW s \in Sessions, Careful(s)
    PROVE  /\ disk # NoPlan => disk' # NoPlan
           /\ \A j \in WriteSteps : disk # NoPlan /\ disk[j].key # NoKey => disk'[j].key = disk[j].key
           /\ disk' = disk \/ (disk' = mem'[s] /\ (Persist(s) \/ Record(s)))
<1> USE PlanAssumption DEF KeyKept, Honest
<1>0. \A j \in WriteSteps : j = cur[s]
  BY DEF OneStep, WriteSteps, TypeOK
<1>1. CASE Persist(s)
  <2>1. /\ mem'[s] \in Plans /\ disk' = mem'[s] /\ phase[s] = "save"
        /\ mem[s][cur[s]].key # NoKey => mem'[s][cur[s]].key = mem[s][cur[s]].key
    BY <1>1, PersistGives DEF Persist
  <2> QED BY <1>0, <1>1, <2>1 DEF SaveHasFileKey
<1>2. CASE Record(s)
  <2>1. mem[s] \in Plans /\ cur[s] \in WriteSteps /\ phase[s] = "record"
    BY <1>2 DEF Record, TypeOK, CallsInOrder
  <2>2. Recorded(s) \in Plans /\ Recorded(s)[cur[s]].key = mem[s][cur[s]].key
    <3>1. \A st \in Statuses : /\ WithStatus(mem[s], cur[s], st) \in Plans
                              /\ WithStatus(mem[s], cur[s], st)[cur[s]].key = mem[s][cur[s]].key
      BY <2>1, WithStatusGives
    <3> QED BY <3>1 DEF Recorded, Statuses
  <2>3. disk' = Recorded(s) /\ mem'[s] = Recorded(s)
    BY <1>2 DEF Record, Remember, TypeOK
  <2> QED BY <1>0, <1>2, <2>1, <2>2, <2>3 DEF CallHasFileKey
<1>3. CASE disk' = disk
  BY <1>3
<1>4. Persist(s) \/ Record(s) \/ disk' = disk
  <2>1. CASE Resume(s) \/ Crash(s)
    BY <2>1 DEF Resume, Crash
  <2>2. CASE \E i \in WriteSteps : Confirm(s, i) \/ \E p \in Edits : Preview(s, i, p)
    BY <2>2 DEF Preview, Confirm
  <2>3. CASE Proceed(s)
    BY <2>3 DEF Proceed, Acquire, LockTimeout, PersistFails, Dispatch, DispatchFails, Timeout, RecordLost
  <2> QED BY <2>1, <2>2, <2>3 DEF Careful
<1> QED BY <1>1, <1>2, <1>3, <1>4

(* CallHasFileKey and SaveHasFileKey are preserved: at the session that    *)
(* moves, by its takeover and its save; at the others, because the file    *)
(* keeps its key, and does not change at all while they hold the lock.     *)
LEMMA CallKeyStep ==
    ASSUME OneStep, KeyKept, NEW s \in Sessions, Careful(s)
    PROVE  CallHasFileKey' /\ SaveHasFileKey'
<1> USE PlanAssumption DEF Goto
<1> DEFINE Calling(t) == phase[t] \in {"dispatch", "await", "record"} =>
                             disk # NoPlan /\ disk[cur[t]].key = mem[t][cur[t]].key
           Saving(t) == phase[t] = "save" /\ disk # NoPlan /\ disk[cur[t]].key # NoKey =>
                            mem[t][cur[t]].key = disk[cur[t]].key
<1>a. UserStep(s) \/ Proceed(s) \/ Crash(s)
  BY CarefulIsNext
<1>0. /\ phase \in [Sessions -> Phases] /\ cur \in [Sessions -> WriteSteps]
      /\ mem \in [Sessions -> Plans \cup {NoPlan}]
      /\ \A t \in Sessions : Calling(t) /\ Saving(t)
  BY DEF KeyKept, Honest, TypeOK, CallHasFileKey, SaveHasFileKey
<1>1. ASSUME NEW t \in Sessions, t # s
      PROVE  Calling(t)' /\ Saving(t)'
  <2>1. phase'[t] = phase[t] /\ cur'[t] = cur[t] /\ cur[t] \in WriteSteps
    BY <1>0, <1>1, <1>a, OthersUntouched DEF KeyKept, Honest
  <2>2. mem'[t] = mem[t]
    BY <1>0, <1>1, <1>a, CopyStep DEF CopyGives, KeyKept, Honest
  <2>3. phase[t] = "save" => disk' = disk
    BY <1>1, <1>a, LockKeeps DEF KeyKept, Honest
  <2>4. phase[t] \in {"dispatch", "await", "record"} => mem[t][cur[t]].key # NoKey
    BY DEF KeyKept, Honest, CallsInOrder
  <2>5. /\ disk # NoPlan => disk' # NoPlan
        /\ \A j \in WriteSteps : disk # NoPlan /\ disk[j].key # NoKey => disk'[j].key = disk[j].key
    BY FileKeyStays
  <2> QED BY <1>0, <2>1, <2>2, <2>3, <2>4, <2>5
<1>2. Calling(s)' /\ Saving(s)'
  <2>1. CASE phase'[s] \in {"idle", "acquire"}
    BY <2>1
  <2>2. CASE Resume(s) \/ Crash(s)
    BY <1>0, <2>1, <2>2 DEF Resume, Crash
  <2>3. ASSUME NEW i \in WriteSteps, Confirm(s, i) \/ \E p \in Edits : Preview(s, i, p)
        PROVE  phase'[s] \in {"idle", "acquire"}
    BY <1>0, <2>3 DEF Preview, Confirm
  <2>4. CASE Acquire(s)
    <3>1. /\ UNCHANGED <<disk, cur>>
          /\ \/ phase'[s] = "idle"
             \/ /\ phase'[s] = "save"
                /\ disk # NoPlan /\ disk[cur[s]].key # NoKey => mem'[s][cur[s]].key = disk[cur[s]].key
      BY <2>4, AcquireGives DEF KeyKept, Honest
    <3> QED BY <3>1
  <2>5. CASE Persist(s)
    <3>1. mem'[s] \in Plans /\ disk' = mem'[s] /\ cur' = cur /\ phase'[s] \in {"idle", "dispatch"}
      BY <1>0, <2>5, PersistGives DEF Persist, KeyKept, Honest
    <3> QED BY <3>1
  <2>6. CASE LockTimeout(s) \/ PersistFails(s) \/ Record(s) \/ RecordLost(s)
    BY <1>0, <2>1, <2>6 DEF LockTimeout, PersistFails, Record, RecordLost
  <2>7. CASE Dispatch(s) \/ DispatchFails(s) \/ Timeout(s)
    BY <1>0, <2>7 DEF Dispatch, DispatchFails, Timeout
  <2> QED BY <2>1, <2>2, <2>3, <2>4, <2>5, <2>6, <2>7 DEF Careful, Proceed
<1> QED BY <1>1, <1>2 DEF CallHasFileKey, SaveHasFileKey

(* KeyKept is inductive when the plan has one step and nobody skips or   *)
(* cancels.                                                                *)
LEMMA KeyKeptStep ==
    ASSUME OneStep
    PROVE  KeyKept /\ [CarefulNext]_vars => KeyKept'
<1> SUFFICES ASSUME KeyKept, [CarefulNext]_vars PROVE KeyKept'
  OBVIOUS
<1> USE PlanAssumption
<1>1. ASSUME NEW s \in Sessions, Careful(s)
      PROVE  KeyKept'
  <2>0. Next /\ (UserStep(s) \/ Proceed(s) \/ Crash(s))
    BY <1>1, CarefulIsNext DEF Next
  <2>1. Honest' /\ EffectsAsked'
    BY <2>0, HonestStep, AskedStep DEF KeyKept, Honest
  <2>2. LockHeld' /\ CallHasFileKey' /\ SaveHasFileKey'
    BY <1>1, <2>0, LockKeeps, CallKeyStep DEF KeyKept, Honest
  <2>3. ASSUME NEW q \in sent
        PROVE  disk' # NoPlan /\ disk'[q.step].key = q.key
    <3>1. q.step \in WriteSteps /\ q.key # NoKey /\ disk # NoPlan /\ disk[q.step].key = q.key
      BY DEF KeyKept, Honest, TypeOK, Requests, KeyOnDiskBeforeSend
    <3> QED BY <1>1, <3>1, FileKeyStays
  <2>4. KeyOnDiskBeforeSend'
    <3>1. CASE Dispatch(s)
      <4>1. PICK q \in Requests : /\ sent' = sent \cup {q}
                                  /\ q.step = cur[s] /\ q.key = mem[s][cur[s]].key
        BY <3>1, DispatchGives DEF KeyKept, Honest
      <4>2. disk' = disk /\ disk # NoPlan /\ disk[cur[s]].key = mem[s][cur[s]].key
        BY <3>1 DEF Dispatch, KeyKept, CallHasFileKey
      <4> QED BY <2>3, <4>1, <4>2 DEF KeyOnDiskBeforeSend
    <3>2. CASE sent' = sent
      BY <2>3, <3>2 DEF KeyOnDiskBeforeSend
    <3> QED BY <2>0, <3>1, <3>2, OthersUntouched DEF KeyKept, Honest
  <2> QED BY <2>1, <2>2, <2>4 DEF KeyKept
<1>2. ASSUME NEW q \in sent, Serve(q), Next
      PROVE  KeyKept'
  <2>1. Honest' /\ EffectsAsked'
    BY <1>2, HonestStep, AskedStep DEF KeyKept, Honest
  <2>2. /\ q.from \in Sessions /\ UNCHANGED <<disk, lock, mem, cur, sent>>
        /\ phase' = phase \/ (phase[q.from] = "await" /\ phase' = [phase EXCEPT ![q.from] = "record"])
        /\ phase \in [Sessions -> Phases]
    BY <1>2 DEF Serve, Goto, KeyKept, Honest, TypeOK, Requests
  <2>3. LockHeld' /\ CallHasFileKey' /\ SaveHasFileKey'
    BY <2>2 DEF KeyKept, LockHeld, CallHasFileKey, SaveHasFileKey
  <2> QED BY <2>1, <2>2, <2>3 DEF KeyKept, KeyOnDiskBeforeSend
<1>3. CASE CarefulNext
  BY <1>1, <1>2, <1>3, CarefulIsNext DEF CarefulNext
<1>4. CASE UNCHANGED vars
  <2>1. Honest'
    BY <1>4, HonestStep DEF KeyKept
  <2> QED BY <1>4, <2>1 DEF vars, KeyKept, EffectsAsked, KeyOnDiskBeforeSend, LockHeld, CallHasFileKey, SaveHasFileKey
<1> QED BY <1>3, <1>4

(* As long as nobody skips or cancels, the write of a one-step plan takes  *)
(* effect at most once, however many sessions confirm, crash, resume and   *)
(* confirm it, and even when saves fail: the file's key is taken over      *)
(* under the lock, and never replaced.                                     *)
THEOREM WrittenOnceByConfirming ==
    ASSUME OneStep
    PROVE  CarefulSpec => [](AtMostOncePerStep /\ KeyOnDiskBeforeSend)
<1>1. Init => KeyKept
  BY InitHonest DEF Init, KeyKept, EffectsAsked, KeyOnDiskBeforeSend, LockHeld, CallHasFileKey, SaveHasFileKey
<1>2. KeyKept => AtMostOncePerStep /\ KeyOnDiskBeforeSend
  <2> SUFFICES ASSUME KeyKept, NEW i \in WriteSteps, NEW j \in effects[i], NEW k \in effects[i]
               PROVE  j = k
    BY DEF AtMostOncePerStep, KeyKept
  <2>1. PICK q \in sent : q.step = i /\ q.key = j
    BY DEF KeyKept, EffectsAsked
  <2>2. PICK p \in sent : p.step = i /\ p.key = k
    BY DEF KeyKept, EffectsAsked
  <2> QED BY <2>1, <2>2 DEF KeyKept, KeyOnDiskBeforeSend
<1> QED BY <1>1, <1>2, KeyKeptStep, PTL DEF CarefulSpec

-----------------------------------------------------------------------------
(* Two sessions, one step, and saves that succeed: now skipping and        *)
(* cancelling are allowed too.                                             *)
TwoSessions == \E s, t \in Sessions : Sessions = {s, t}

(* The step has a key somewhere; a session's copy has none; and it could   *)
(* still be confirmed.                                                     *)
Given(i) == \E k \in Keys : KnownBy(i, k)

Bare(s, i) == mem[s] # NoPlan /\ mem[s][i].key = NoKey

Open(s, i) == Bare(s, i) /\ mem[s][i].status \notin Terminal

(* There are never two keys for one step.                                  *)
OneKey == \A i \in WriteSteps : \A k, l \in Keys : KnownBy(i, k) /\ KnownBy(i, l) => k = l

(* Once there is a key the file has it, or says that the step is over.     *)
FileTells ==
    /\ disk # NoPlan
    /\ \A i \in WriteSteps : Given(i) => disk[i].key # NoKey \/ disk[i].status \in Terminal

(* Whoever could still confirm the step without its key finds the key in   *)
(* the file, and nobody else can save a copy without it.                   *)
OneOpen ==
    \A i \in WriteSteps : \A s \in Sessions : Given(i) /\ Open(s, i) =>
        disk[i].key # NoKey /\ \A t \in Sessions \ {s} : ~Bare(t, i)

(* Under the lock a key is drawn only if there is none.                    *)
DrawsFirst ==
    \A s \in Sessions, i \in WriteSteps : phase[s] = "save" /\ cur[s] = i /\ Open(s, i) => ~Given(i)

Paired == Honest /\ LockHeld /\ OneKey /\ FileTells /\ OneOpen /\ DrawsFirst

(* What a session can do to its copy of the step and to the file: leave    *)
(* the step's key as it is, load the file, take over the file's key, save  *)
(* the copy it has (with a key or finished), or draw the key and save it.  *)
LeavesKey(s, i) ==
    /\ disk' = disk
    /\ mem'[s] = NoPlan \/ /\ mem[s] # NoPlan /\ mem'[s][i].key = mem[s][i].key
                           /\ Open(s, i)' => Open(s, i)
    /\ phase'[s] = "save" => phase[s] = "save"

Loads(s) == disk' = disk /\ mem'[s] = Loaded /\ phase'[s] # "save"

TakesOver(s, i) ==
    /\ disk' = disk /\ mem[s] # NoPlan /\ mem'[s] # NoPlan
    /\ mem'[s][i].key = IF disk[i].key # NoKey THEN disk[i].key ELSE mem[s][i].key
    /\ Open(s, i)' => Open(s, i)

SavesCopy(s, i) ==
    /\ mem[s] # NoPlan /\ disk' = mem'[s] /\ mem'[s] # NoPlan
    /\ mem'[s][i].key = mem[s][i].key
    /\ mem[s][i].key # NoKey \/ mem'[s][i].status \in Terminal
    /\ phase'[s] # "save" /\ lock \in {NoSession, s}

SavesKey(s, i) ==
    /\ phase[s] = "save" /\ Open(s, i) /\ disk' = mem'[s] /\ mem'[s] # NoPlan
    /\ mem'[s][i].key \in Keys
    /\ phase'[s] # "save" /\ lock = s

(* These are all the moves there are when saves succeed.                   *)
LEMMA EveryMove ==
    ASSUME OneStep, ~DiskMayFail, TypeOK, CallsInOrder, LockHeld, disk # NoPlan,
           NEW s \in Sessions, UserStep(s) \/ Proceed(s) \/ Crash(s), NEW i \in WriteSteps
    PROVE  \/ LeavesKey(s, i) \/ Loads(s) \/ TakesOver(s, i)
           \/ SavesCopy(s, i) \/ SavesKey(s, i)
<1> USE PlanAssumption DEF Goto, Remember
<1>0. /\ disk \in Plans /\ mem \in [Sessions -> Plans \cup {NoPlan}] /\ phase \in [Sessions -> Phases]
      /\ cur[s] = i /\ WriteSteps = {i}
  BY DEF TypeOK, OneStep, WriteSteps
<1>1. CASE Resume(s)
  BY <1>0, <1>1 DEF Resume, Loads
<1>2. ASSUME NEW p \in Edits, NEW j \in WriteSteps, Preview(s, j, p)
      PROVE  LeavesKey(s, i)
  <2>1. mem[s] \in Plans /\ mem[s][i] \in StepRecord /\ p \in Payloads
    BY <1>0, <1>2 DEF Preview, Plans
  <2> DEFINE r == [mem[s][i] EXCEPT !.params = p]
  <2>2. mem'[s] = [mem[s] EXCEPT ![i] = r] /\ UNCHANGED <<disk, phase>>
    BY <1>0, <1>2 DEF Preview
  <2>3. r \in StepRecord /\ r.key = mem[s][i].key /\ r.status = mem[s][i].status
    BY <2>1 DEF StepRecord
  <2> HIDE DEF r
  <2>4. mem'[s] \in Plans /\ mem'[s][i] = r
    BY <1>0, <2>1, <2>2, <2>3, ExceptGives
  <2> QED BY <2>1, <2>2, <2>3, <2>4 DEF LeavesKey, Open, Bare
<1>3. ASSUME NEW j \in WriteSteps, Confirm(s, j)
      PROVE  LeavesKey(s, i)
  <2>1. /\ mem[s] \in Plans /\ mem[s][i] \in StepRecord /\ mem[s][i].status \notin Terminal
        /\ disk' = disk /\ phase'[s] # "save"
    BY <1>0, <1>3 DEF Confirm, Plans
  <2> DEFINE r == [mem[s][i] EXCEPT !.status = "blocked"]
  <2>2. mem' = mem \/ mem'[s] = [mem[s] EXCEPT ![i] = r]
    BY <1>0, <1>3 DEF Confirm
  <2>3. r \in StepRecord /\ r.key = mem[s][i].key
    BY <2>1 DEF StepRecord, Statuses
  <2> HIDE DEF r
  <2>4. mem' = mem \/ (mem'[s] \in Plans /\ mem'[s][i] = r)
    BY <1>0, <2>1, <2>2, <2>3, ExceptGives
  <2> QED BY <2>1, <2>3, <2>4 DEF LeavesKey, Open, Bare
<1>4. ASSUME NEW j \in WriteSteps, Skip(s, j)
      PROVE  LeavesKey(s, i) \/ SavesCopy(s, i)
  <2> DEFINE n == WithStatus(mem[s], i, "skipped")
  <2>0. j = i
    BY <1>0
  <2>1. /\ mem[s] \in Plans /\ phase[s] = "idle" /\ phase' = phase /\ mem'[s] = n
        /\ disk' = disk \/ (disk' = n /\ lock = NoSession)
    BY <1>0, <1>4, <2>0 DEF Skip, SaveOrKeep
  <2>2. n \in Plans /\ n[i].key = mem[s][i].key /\ n[i].status = "skipped"
    <3>1. "skipped" \in Statuses
      BY DEF Statuses
    <3> QED BY <2>1, <3>1, WithStatusGives
  <2> HIDE DEF n
  <2> QED BY <2>1, <2>2 DEF LeavesKey, SavesCopy, Open, Terminal
<1>5. CASE Cancel(s)
  <2> DEFINE n == [j \in WriteSteps |->
                     IF mem[s][j].status \in {"completed", "skipped"} THEN mem[s][j]
                     ELSE [mem[s][j] EXCEPT !.status = "cancelled"]]
  <2>1. /\ mem[s] \in Plans /\ phase[s] = "idle" /\ phase' = phase /\ mem'[s] = n
        /\ disk' = disk \/ (disk' = n /\ lock = NoSession)
    BY <1>0, <1>5 DEF Cancel, SaveOrKeep
  <2>2. mem[s][i] \in StepRecord
    BY <2>1 DEF Plans
  <2>3. n \in Plans /\ n[i].key = mem[s][i].key /\ n[i].status \in Terminal
    <3>1. n[i] = IF mem[s][i].status \in {"completed", "skipped"} THEN mem[s][i]
                 ELSE [mem[s][i] EXCEPT !.status = "cancelled"]
      OBVIOUS
    <3>2. n[i] \in StepRecord /\ n[i].key = mem[s][i].key /\ n[i].status \in Terminal
      BY <2>2, <3>1 DEF StepRecord, Statuses, Terminal
    <3>3. n = [j \in WriteSteps |-> n[j]]
      OBVIOUS
    <3> HIDE DEF n
    <3>4. n \in [WriteSteps -> StepRecord]
      BY <1>0, <3>2, <3>3
    <3> QED BY <3>2, <3>4 DEF Plans
  <2> HIDE DEF n
  <2> QED BY <2>1, <2>3 DEF LeavesKey, SavesCopy, Open
<1>6. CASE Acquire(s)
  <2>1. /\ mem[s] \in Plans /\ mem'[s] \in Plans /\ disk' = disk
        /\ \/ /\ phase'[s] = "idle"
              /\ mem'[s][i].key = mem[s][i].key /\ mem'[s][i].status \in Terminal
           \/ /\ mem'[s][i].key = IF disk[i].key # NoKey THEN disk[i].key ELSE mem[s][i].key
              /\ mem'[s][i].status = mem[s][i].status
    BY <1>0, <1>6, AcquireGives
  <2> QED BY <2>1 DEF LeavesKey, TakesOver, Open, Bare
<1>7. CASE Persist(s)
  <2>1. /\ phase[s] = "save" /\ mem[s] \in Plans /\ mem[s][i].status \notin Terminal /\ lock = s
        /\ phase'[s] # "save"
    BY <1>0, <1>7 DEF Persist, CallsInOrder, LockHeld
  <2>2. /\ mem'[s] \in Plans /\ disk' = mem'[s]
        /\ mem[s][i].key # NoKey => mem'[s][i].key = mem[s][i].key
        /\ phase'[s] # "idle" => mem'[s][i].key \in Keys
    BY <1>0, <1>7, PersistGives
  <2>3. phase'[s] = "idle" => mem'[s][i].status \in Terminal /\ mem'[s][i].key = mem[s][i].key
    <3>1. PICK k \in KeyFor(mem[s][i]) : mem'[s] = [mem[s] EXCEPT ![i] = ConfirmedStep(mem[s][i], k)]
      BY <1>0, <1>7 DEF Persist
    <3>2. phase'[s] = "idle" => RecoveryRefused(mem[s][i])
      BY <1>0, <1>7 DEF Persist
    <3>3. mem[s][i] \in StepRecord
      BY <2>1 DEF Plans
    <3>4. mem'[s][i] = ConfirmedStep(mem[s][i], k)
      BY <2>1, <3>1 DEF Plans
    <3>5. RecoveryRefused(mem[s][i]) => /\ ConfirmedStep(mem[s][i], k).status = "recovery_rejected"
                                        /\ ConfirmedStep(mem[s][i], k).key = mem[s][i].key
      BY <3>3 DEF ConfirmedStep, StepRecord
    <3> QED BY <3>2, <3>4, <3>5 DEF Terminal
  <2> QED BY <2>1, <2>2, <2>3 DEF SavesCopy, SavesKey, Open, Bare
<1>8. CASE Record(s) \/ RecordLost(s)
  <2>1. /\ phase[s] = "record" /\ mem[s] \in Plans /\ mem[s][i].key \in Keys /\ phase'[s] = "idle"
        /\ \/ mem'[s] = Recorded(s) /\ disk' = Recorded(s) /\ lock = NoSession
           \/ mem' = mem /\ disk' = disk
    BY <1>0, <1>8 DEF Record, RecordLost, CallsInOrder
  <2>2. Recorded(s) \in Plans /\ Recorded(s)[i].key = mem[s][i].key
    <3>1. \A st \in Statuses : /\ WithStatus(mem[s], i, st) \in Plans
                               /\ WithStatus(mem[s], i, st)[i].key = mem[s][i].key
      BY <2>1, WithStatusGives
    <3> QED BY <1>0, <3>1 DEF Recorded, Statuses
  <2> QED BY <2>1, <2>2 DEF LeavesKey, SavesCopy, Open, Bare
<1>9. CASE LockTimeout(s) \/ Dispatch(s) \/ DispatchFails(s) \/ Timeout(s)
  <2>1. mem' = mem /\ disk' = disk /\ phase'[s] # "save" /\ phase[s] # "idle"
    BY <1>0, <1>9 DEF LockTimeout, Dispatch, DispatchFails, Timeout
  <2> QED BY <2>1 DEF LeavesKey, Open, Bare
<1>10. CASE Crash(s)
  BY <1>0, <1>10 DEF Crash, LeavesKey
<1>11. ~PersistFails(s)
  BY DEF PersistFails
<1> QED BY <1>1, <1>2, <1>3, <1>4, <1>5, <1>6, <1>7, <1>8, <1>9, <1>10, <1>11 DEF UserStep, Proceed

(* What a step of a session makes of the keys that are known.              *)
LEMMA KnownStays ==
    ASSUME OneStep, ~DiskMayFail, Paired, NEW s \in Sessions, UserStep(s) \/ Proceed(s) \/ Crash(s),
           NEW i \in WriteSteps, NEW k \in Keys, KnownBy(i, k)'
    PROVE  KnownBy(i, k) \/ (SavesKey(s, i) /\ k = mem'[s][i].key)
<1> USE PlanAssumption
<1>0. /\ disk \in Plans /\ mem \in [Sessions -> Plans \cup {NoPlan}] /\ k # NoKey
      /\ i = cur[s]
  BY DEF Paired, Honest, FileTells, TypeOK, OneStep, WriteSteps
<1>1. \A t \in Sessions \ {s} : mem'[t] = mem[t]
  BY <1>0, CopyStep DEF CopyGives, Paired, Honest
<1>2. LeavesKey(s, i) \/ Loads(s) \/ TakesOver(s, i) \/ SavesCopy(s, i) \/ SavesKey(s, i)
  BY EveryMove DEF Paired, Honest, FileTells
<1>3. effects' = effects
  BY OthersUntouched DEF Paired, Honest
<1>4. ASSUME NEW q \in sent', q.step = i, q.key = k
      PROVE  KnownBy(i, k)
  <2>1. CASE q \in sent
    BY <1>4, <2>1 DEF KnownBy
  <2>2. CASE Dispatch(s)
    <3>1. PICK p \in Requests : sent' = sent \cup {p} /\ p.key = mem[s][cur[s]].key /\ mem[s] # NoPlan
      BY <2>2, DispatchGives DEF Paired, Honest
    <3> QED BY <1>0, <1>4, <2>1, <3>1 DEF KnownBy
  <2> QED BY <1>4, <2>1, <2>2, OthersUntouched DEF Paired, Honest
<1>5. ASSUME mem'[s] # NoPlan, mem'[s][i].key = k
      PROVE  KnownBy(i, k) \/ SavesKey(s, i)
  <2>1. Loaded[i].key = disk[i].key
    BY <1>0, LoadedGives
  <2> QED BY <1>0, <1>2, <1>5, <2>1 DEF LeavesKey, Loads, TakesOver, SavesCopy, KnownBy
<1>6. disk' = disk \/ disk' = mem'[s]
  BY <1>2 DEF LeavesKey, Loads, TakesOver, SavesCopy, SavesKey
<1>7. CASE disk' # NoPlan /\ disk'[i].key = k
  BY <1>0, <1>5, <1>6, <1>7 DEF KnownBy
<1>8. CASE \E t \in Sessions : mem'[t] # NoPlan /\ mem'[t][i].key = k
  BY <1>1, <1>5, <1>8 DEF KnownBy
<1>9. CASE \E q \in sent' : q.step = i /\ q.key = k
  BY <1>4, <1>9
<1>10. CASE k \in effects'[i]
  BY <1>3, <1>10 DEF KnownBy
<1> QED BY <1>7, <1>8, <1>9, <1>10 DEF KnownBy

(* One step of a session preserves Paired.                                 *)
LEMMA PairMove ==
    ASSUME OneStep, TwoSessions, ~DiskMayFail, Paired,
           NEW s \in Sessions, UserStep(s) \/ Proceed(s) \/ Crash(s)
    PROVE  OneKey' /\ FileTells' /\ OneOpen' /\ DrawsFirst'
<1> USE PlanAssumption
<1>a. PICK i \in WriteSteps : cur[s] = i
  BY DEF Paired, Honest, TypeOK
<1>0. /\ i \in WriteSteps /\ \A j \in WriteSteps : j = i
      /\ disk \in Plans /\ disk # NoPlan /\ mem \in [Sessions -> Plans \cup {NoPlan}] /\ LockHeld
      /\ TypeOK /\ CallsInOrder
  BY <1>a DEF Paired, Honest, FileTells, TypeOK, OneStep, WriteSteps
<1>1. /\ \A t \in Sessions \ {s} : mem'[t] = mem[t] /\ phase'[t] = phase[t]
      /\ \A t \in Sessions : cur'[t] \in WriteSteps
  <2>1. cur' \in [Sessions -> WriteSteps]
    BY <1>0, TypeStep DEF Next, TypeOK, Paired, Honest
  <2> QED BY <1>0, <2>1, CopyStep, OthersUntouched DEF CopyGives
<1>2. \A t \in Sessions : phase[t] = "save" => lock = t
  BY <1>0 DEF LockHeld
<1>3. LeavesKey(s, i) \/ Loads(s) \/ TakesOver(s, i) \/ SavesCopy(s, i) \/ SavesKey(s, i)
  BY <1>0, EveryMove
<1>4. \A k \in Keys : KnownBy(i, k)' => KnownBy(i, k) \/ (SavesKey(s, i) /\ k = mem'[s][i].key)
  BY <1>0, KnownStays
<1>5. /\ \A k, l \in Keys : KnownBy(i, k) /\ KnownBy(i, l) => k = l
      /\ Given(i) => disk[i].key # NoKey \/ disk[i].status \in Terminal
      /\ \A t \in Sessions : Given(i) /\ Open(t, i) =>
            disk[i].key # NoKey /\ \A u \in Sessions \ {t} : ~Bare(u, i)
      /\ \A t \in Sessions : phase[t] = "save" /\ Open(t, i) => ~Given(i)
  <2>1. \A t \in Sessions : cur[t] = i
    BY <1>0 DEF TypeOK
  <2> QED BY <1>0, <2>1 DEF Paired, OneKey, FileTells, OneOpen, DrawsFirst
<1>6. \A t \in Sessions \ {s} : (Open(t, i)' <=> Open(t, i)) /\ (Bare(t, i)' <=> Bare(t, i))
  BY <1>1 DEF Open, Bare
<1> DEFINE Fine == /\ \A k, l \in Keys : KnownBy(i, k) /\ KnownBy(i, l) => k = l
                   /\ disk # NoPlan
                   /\ Given(i) => disk[i].key # NoKey \/ disk[i].status \in Terminal
                   /\ \A t \in Sessions : Given(i) /\ Open(t, i) =>
                         disk[i].key # NoKey /\ \A u \in Sessions \ {t} : ~Bare(u, i)
                   /\ \A t \in Sessions : phase[t] = "save" /\ Open(t, i) => ~Given(i)
<1>7. ASSUME ~SavesKey(s, i) PROVE Fine'
  <2>1. /\ \A k \in Keys : KnownBy(i, k)' => KnownBy(i, k)
        /\ Given(i)' => Given(i)
    BY <1>4, <1>7 DEF Given
  <2>2. CASE LeavesKey(s, i)
    <3>1. (Bare(s, i)' => Bare(s, i)) /\ (Open(s, i)' => Open(s, i))
      BY <2>2 DEF LeavesKey, Open, Bare
    <3>2. \A t \in Sessions : /\ Bare(t, i)' => Bare(t, i)
                              /\ Open(t, i)' => Open(t, i)
                              /\ phase'[t] = "save" => phase[t] = "save"
      BY <1>1, <1>6, <2>2, <3>1 DEF LeavesKey
    <3> QED BY <1>0, <1>5, <2>1, <2>2, <3>2 DEF LeavesKey
  <2>3. CASE Loads(s)
    <3>1. /\ mem'[s] = Loaded /\ disk' = disk /\ phase'[s] # "save"
          /\ Loaded[i].key = disk[i].key
          /\ disk[i].status \in Terminal => Loaded[i].status \in Terminal
      BY <1>0, <2>3, LoadedGives DEF Loads, Terminal
    <3>2. /\ Given(i) => ~Open(s, i)'
          /\ disk[i].key # NoKey => ~Bare(s, i)'
      BY <1>5, <3>1 DEF Open, Bare
    <3> QED BY <1>0, <1>1, <1>5, <1>6, <2>1, <3>1, <3>2
  <2>4. CASE TakesOver(s, i)
    <3>1. /\ disk[i].key # NoKey => ~Bare(s, i)'
          /\ Given(i) => ~Open(s, i)'
          /\ disk' = disk
      BY <1>5, <2>4 DEF TakesOver, Open, Bare
    <3> QED BY <1>0, <1>1, <1>5, <1>6, <2>1, <3>1
  <2>5. CASE SavesCopy(s, i)
    <3>1. /\ disk' = mem'[s] /\ mem'[s] # NoPlan /\ ~Open(s, i)' /\ (Bare(s, i)' => Bare(s, i))
          /\ Bare(s, i) \/ disk'[i].key # NoKey
          /\ disk'[i].key # NoKey \/ disk'[i].status \in Terminal
          /\ phase'[s] # "save"
      BY <2>5 DEF SavesCopy, Open, Bare
    <3> QED BY <1>1, <1>5, <1>6, <2>1, <3>1
  <2> QED BY <1>3, <1>7, <2>2, <2>3, <2>4, <2>5
<1>8. ASSUME SavesKey(s, i) PROVE Fine'
  <2>1. /\ ~Given(i) /\ disk' = mem'[s] /\ mem'[s] # NoPlan /\ disk'[i].key \in Keys
        /\ \A k \in Keys : KnownBy(i, k)' => k = mem'[s][i].key
        /\ phase'[s] # "save" /\ ~Bare(s, i)'
    BY <1>4, <1>5, <1>8 DEF SavesKey, Given, Bare
  <2>2. \A t \in Sessions \ {s} : phase'[t] # "save" /\ \A u \in Sessions \ {t} : u = s
    BY <1>1, <1>2, <1>8 DEF SavesKey, TwoSessions
  <2>3. \A t \in Sessions : Open(t, i)' => t # s
    BY <2>1 DEF Open
  <2>4. disk'[i].key # NoKey
    BY <2>1
  <2> QED BY <2>1, <2>2, <2>3, <2>4
<1>9. Fine'
  BY <1>7, <1>8
<1>10. \A t \in Sessions : cur'[t] = i
  BY <1>0, <1>1
<1> QED BY <1>0, <1>9, <1>10 DEF OneKey, FileTells, OneOpen, DrawsFirst

(* Paired is inductive for two sessions, one step and saves that succeed.  *)
LEMMA PairedStep ==
    ASSUME OneStep, TwoSessions, ~DiskMayFail
    PROVE  Paired /\ [Next]_vars => Paired'
<1> SUFFICES ASSUME Paired, [Next]_vars PROVE Paired'
  OBVIOUS
<1>1. Honest'
  BY HonestStep DEF Paired
<1>2. ASSUME NEW s \in Sessions, UserStep(s) \/ Proceed(s) \/ Crash(s)
      PROVE  Paired'
  BY <1>1, <1>2, PairMove, LockKeeps DEF Paired, Honest
<1>3. ASSUME NEW q \in sent, Serve(q)
      PROVE  Paired'
  <2>1. /\ q.from \in Sessions /\ q.step \in WriteSteps /\ UNCHANGED <<disk, lock, mem, cur, sent>>
        /\ \A i \in WriteSteps : /\ i # q.step => effects'[i] = effects[i]
                                 /\ effects'[i] \subseteq effects[i] \cup {q.key}
    BY <1>3, ServeGives DEF Paired, Honest
  <2>2. \A t \in Sessions : phase'[t] = "save" => phase[t] = "save"
    BY <1>3, <2>1 DEF Serve, Goto, Paired, Honest, TypeOK
  <2>3. \A i \in WriteSteps, k \in Keys : KnownBy(i, k)' => KnownBy(i, k)
    BY <2>1 DEF KnownBy
  <2>4. \A i \in WriteSteps : Given(i)' => Given(i)
    BY <2>3 DEF Given
  <2>5. /\ \A t \in Sessions, i \in WriteSteps : (Open(t, i)' <=> Open(t, i)) /\ (Bare(t, i)' <=> Bare(t, i))
        /\ \A t \in Sessions : cur[t] \in WriteSteps /\ cur'[t] = cur[t]
    BY <2>1 DEF Open, Bare, Paired, Honest, TypeOK
  <2>6. LockHeld' /\ OneKey' /\ FileTells'
    BY <2>1, <2>2, <2>3, <2>4 DEF Paired, LockHeld, OneKey, FileTells
  <2>7. OneOpen'
    BY <2>1, <2>4, <2>5 DEF Paired, OneOpen
  <2>8. DrawsFirst'
    BY <2>2, <2>4, <2>5 DEF Paired, DrawsFirst
  <2> QED BY <1>1, <2>6, <2>7, <2>8 DEF Paired
<1>4. CASE UNCHANGED vars
  BY <1>1, <1>4 DEF vars, Paired, LockHeld, OneKey, FileTells, OneOpen, DrawsFirst, Given, KnownBy, Open, Bare
<1> QED BY <1>2, <1>3, <1>4 DEF Next

(* Two sessions whose saves succeed write the step of a one-step plan at   *)
(* most once, whatever they skip, cancel, edit, resume or lose in a crash: *)
(* the one copy without the key that can still be there loses its own      *)
(* right to confirm when it is saved over the file.                        *)
THEOREM WrittenOnceByTwo ==
    ASSUME OneStep, TwoSessions, ~DiskMayFail
    PROVE  Spec => []AtMostOncePerStep
<1>1. Init => Paired
  <2> SUFFICES ASSUME Init PROVE Paired
    OBVIOUS
  <2>1. Honest
    BY InitHonest
  <2>2. \A i \in WriteSteps, k \in Keys : ~KnownBy(i, k)
    BY PlanAssumption DEF Init, KnownBy, InitPlan
  <2>3. disk # NoPlan
    <3>1. \A i \in WriteSteps : InitPlan[i] \in StepRecord
      BY PlanAssumption DEF InitPlan, StepRecord, Statuses
    <3>2. InitPlan \in Plans
      BY <3>1 DEF InitPlan, Plans
    <3> QED BY <3>2, PlanAssumption DEF Init
  <2> QED BY <2>1, <2>2, <2>3 DEF Init, Paired, LockHeld, OneKey, FileTells, OneOpen, DrawsFirst, Given
<1>2. Paired => AtMostOncePerStep
  BY DEF Paired, Honest, TypeOK, OneKey, KnownBy, AtMostOncePerStep
<1> QED BY <1>1, <1>2, PairedStep, PTL DEF Spec
=============================================================================
