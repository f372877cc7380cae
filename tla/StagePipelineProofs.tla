------------------------- MODULE StagePipelineProofs -------------------------
(***************************************************************************)
(* Proofs about StagePipeline, for any jobs, any number of stages, any     *)
(* limits and both wirings of the pipeline.  That no stage is skipped rests on what the checkpoint says:    *)
(* the stage it names has run, and all before it have succeeded.  That a   *)
(* job fails for a reason rests on a count: while its workers succeed, a   *)
(* job visits each stage once in a life of the process.                    *)
(***************************************************************************)
EXTENDS StagePipeline, TLAPS

(* A job that is still trying has failures to spare at every stage.        *)
FailuresToSpare ==
    \A j \in Jobs : at[j] \in {"queued", "node", "save", "route"} =>
        \A s \in Stages : fails[j][s] < MaxFailures

Types == TypeOK /\ FailuresToSpare

(* A checkpoint never names a stage that has one before it to be done.     *)
FileTruthful ==
    \A j \in Jobs : file[j] # NoFile => first[j]..(file[j].node - 1) \subseteq done[j]

(* The stages before the one in hand are done; with a successful answer    *)
(* the one in hand is too.                                                 *)
StagesBehind ==
    \A j \in Jobs :
        /\ at[j] \in {"node", "save", "route"} => first[j]..(node[j] - 1) \subseteq done[j]
        /\ at[j] \in {"save", "route"} /\ result[j] = "SUCCESS" => node[j] \in done[j]
        /\ wired /\ at[j] \in {"returned", "completed"} => first[j]..Last \subseteq done[j]

SkipInv == Types /\ FileTruthful /\ StagesBehind

(* How often a history h, kept at stage n of a job without trouble, holds  *)
(* each stage after c deaths: at most twice in each life, and those after  *)
(* n have not been run in this one.                                        *)
FewVisits(h, n, c) ==
    \A s \in Stages : h[s] <= 2 * c + 2 /\ (s > n => h[s] <= 2 * c)

Calm(j) == ~troubled[j]

CountInv ==
    \A j \in Jobs : Calm(j) =>
        /\ file[j] # NoFile => FewVisits(file[j].hist, file[j].node, crashes)
        /\ at[j] = "queued" /\ file[j] # NoFile =>
               \A s \in Stages : file[j].hist[s] <= 2 * crashes
        /\ at[j] \in {"node", "save", "route"} => FewVisits(hist[j], node[j], crashes)
        /\ at[j] = "node" => hist[j][node[j]] <= 2 * crashes
        /\ at[j] \in {"save", "route"} => result[j] = "SUCCESS"
        /\ at[j] \in {"raised", "failed"} => crashes >= 2

-----------------------------------------------------------------------------
(* A process begins with every job queued and no stage run.                *)
LEMMA InitSkipInv == Init => SkipInv
<1> SUFFICES ASSUME Init PROVE SkipInv
  OBVIOUS
<1>1. 1 \in Stages /\ 0 \in Counts /\ 0 \in 0..MaxFailures /\ 0 \in 0..MaxCrashes
  BY StageAssumption DEF Stages, Counts
<1>2. TypeOK
  BY <1>1 DEF Init, Never, TypeOK
<1>3. FailuresToSpare
  BY StageAssumption DEF Init, Never, FailuresToSpare
<1>4. FileTruthful /\ StagesBehind
  BY DEF Init, FileTruthful, StagesBehind
<1> QED BY <1>2, <1>3, <1>4 DEF SkipInv, Types

(* What a worker's answer changes.                                         *)
LEMMA WorkAnswers ==
    ASSUME NEW j \in Jobs, Work(j)
    PROVE  \E answer \in Statuses, times \in {1, 2} :
               /\ result' = [result EXCEPT ![j] = answer]
               /\ hist' = [hist EXCEPT ![j][node[j]] = hist[j][node[j]] + times]
               /\ done' = [done EXCEPT ![j] =
                      IF answer = "SUCCESS" THEN done[j] \cup {node[j]} ELSE done[j]]
               /\ troubled' = [troubled EXCEPT ![j] = troubled[j] \/ answer # "SUCCESS"]
BY DEF Work

(* There is room in a history for a node that is run at three.             *)
LEMMA RoomForTwo ==
    ASSUME NEW h \in Counts, h <= 3, NEW t \in {1, 2}
    PROVE  h + t \in Counts
BY DEF Counts

(* Every step keeps the types.                                             *)
LEMMA NextTypeOK == Types /\ [Next]_vars => TypeOK'
<1> SUFFICES ASSUME TypeOK, FailuresToSpare, [Next]_vars PROVE TypeOK'
  BY DEF Types
<1> USE StageAssumption DEF TypeOK, Stages, Counts
<1>1. ASSUME NEW j \in Jobs, Execute(j) PROVE TypeOK'
  <2>0. PICK reuse \in BOOLEAN :
          start' = (IF reuse THEN 2 ELSE start) /\ reused' = [reused EXCEPT ![j] = reuse]
    BY <1>1 DEF Execute
  <2>1. start' \in {1, 2}
    BY <2>0
  <2>3. reused' \in [Jobs -> BOOLEAN]
    BY <2>0
  <2>2. node' \in [Jobs -> Stages] /\ hist' \in [Jobs -> [Stages -> Counts]] /\ first' \in [Jobs -> Stages]
    <3>1. CASE file[j] = NoFile
      <4>1. start' \in Stages /\ Never \in [Stages -> Counts]
        BY <2>1 DEF Never
      <4>2. /\ node' = [node EXCEPT ![j] = start'] /\ hist' = [hist EXCEPT ![j] = Never]
            /\ first' = [first EXCEPT ![j] = start']
        BY <1>1, <3>1 DEF Execute
      <4> QED BY <4>1, <4>2
    <3>2. CASE file[j] # NoFile
      <4>1. file[j].node \in Stages /\ file[j].hist \in [Stages -> Counts]
        BY <3>2
      <4>2. /\ node' = [node EXCEPT ![j] = file[j].node]
            /\ hist' = [hist EXCEPT ![j] = file[j].hist] /\ first' = first
        BY <1>1, <3>2 DEF Execute
      <4> QED BY <4>1, <4>2
    <3> QED BY <3>1, <3>2
  <2>4. at' \in [Jobs -> {"queued", "node", "save", "route", "returned", "raised", "completed", "failed"}]
    BY <1>1 DEF Execute, Goto
  <2> QED BY <1>1, <2>1, <2>2, <2>3, <2>4 DEF Execute
<1>2. ASSUME NEW j \in Jobs, Exhausted(j) PROVE TypeOK'
  BY <1>2 DEF Exhausted, Goto
<1>3. ASSUME NEW j \in Jobs, Work(j) PROVE TypeOK'
  <2>1. PICK answer \in Statuses, times \in {1, 2} :
          /\ result' = [result EXCEPT ![j] = answer]
          /\ hist' = [hist EXCEPT ![j][node[j]] = hist[j][node[j]] + times]
          /\ done' = [done EXCEPT ![j] =
                 IF answer = "SUCCESS" THEN done[j] \cup {node[j]} ELSE done[j]]
          /\ troubled' = [troubled EXCEPT ![j] = troubled[j] \/ answer # "SUCCESS"]
    BY <1>3, WorkAnswers, Zenon
  <2>2. hist[j][node[j]] <= 3 /\ hist[j][node[j]] \in Counts /\ hist[j][node[j]] + times \in Counts
    <3>1. node[j] \in Stages /\ hist[j] \in [Stages -> Counts]
      OBVIOUS
    <3>2. hist[j][node[j]] <= 3
      BY <1>3 DEF Work
    <3>3. hist[j][node[j]] \in Counts
      BY <3>1
    <3>4. times \in {1, 2}
      BY <2>1
    <3> QED BY <3>2, <3>3, <3>4, RoomForTwo
  <2>3. hist' \in [Jobs -> [Stages -> Counts]]
    <3>1. [hist[j] EXCEPT ![node[j]] = hist[j][node[j]] + times] \in [Stages -> Counts]
      BY <2>2
    <3>2. hist' = [hist EXCEPT ![j] = [hist[j] EXCEPT ![node[j]] = hist[j][node[j]] + times]]
      BY <2>1
    <3> QED BY <3>1, <3>2
  <2>4. result' \in [Jobs -> Statuses \cup {"none"}] /\ done' \in [Jobs -> SUBSET Stages]
    BY <2>1
  <2>5. troubled' \in [Jobs -> BOOLEAN]
    BY <2>1
  <2> QED BY <1>3, <2>3, <2>4, <2>5 DEF Work, Goto
<1>4. ASSUME NEW j \in Jobs, Save(j) PROVE TypeOK'
  <2>1. [node |-> node[j], hist |-> hist[j]] \in [node : Stages, hist : [Stages -> Counts]]
    OBVIOUS
  <2>2. file' \in [Jobs -> [node : Stages, hist : [Stages -> Counts]] \cup {NoFile}]
    BY <1>4, <2>1 DEF Save
  <2>3. at' \in [Jobs -> {"queued", "node", "save", "route", "returned", "raised", "completed", "failed"}]
    BY <1>4 DEF Save, Goto
  <2> QED BY <1>4, <2>2, <2>3 DEF Save
<1>5. ASSUME NEW j \in Jobs, Route(j) PROVE TypeOK'
  <2>0. result' \in [Jobs -> Statuses \cup {"none"}]
    BY <1>5 DEF Route
  <2>4. CASE End(j)
    <3>1. at' = [at EXCEPT ![j] = "returned"] /\ UNCHANGED <<node, fails>>
      BY <2>4 DEF End, Goto
    <3>2. file' \in [Jobs -> [node : Stages, hist : [Stages -> Counts]] \cup {NoFile}]
      BY <2>4 DEF End
    <3> QED BY <1>5, <2>0, <3>1, <3>2 DEF Route
  <2>1. CASE Proceed(j)
    <3>1. CASE node[j] < Last
      <4>1. node[j] + 1 \in Stages
        BY <3>1
      <4>2. node' = [node EXCEPT ![j] = node[j] + 1] /\ at' = [at EXCEPT ![j] = "node"] /\ UNCHANGED <<fails, file>>
        BY <2>1, <3>1 DEF Proceed, To, Goto
      <4> QED BY <1>5, <2>0, <4>1, <4>2 DEF Route
    <3>2. CASE ~(node[j] < Last)
      BY <2>1, <2>4, <3>2 DEF Proceed
    <3> QED BY <3>1, <3>2
  <2>2. CASE SearchAgain(j)
    <3>1. node' = [node EXCEPT ![j] = 1] /\ at' = [at EXCEPT ![j] = "node"] /\ UNCHANGED <<fails, file>>
      BY <2>2 DEF SearchAgain, To, Goto
    <3>2. 1 \in Stages
      OBVIOUS
    <3>3. /\ node' \in [Jobs -> Stages]
          /\ at' \in [Jobs -> {"queued", "node", "save", "route", "returned", "raised", "completed", "failed"}]
      BY <3>1, <3>2
    <3>4. UNCHANGED <<wired, start, hist, fails, file, crashes, reused, first, done, troubled>>
      BY <1>5, <3>1 DEF Route
    <3> QED BY <2>0, <3>3, <3>4
  <2>3. CASE Retry(j)
    <3> DEFINE n == fails[j][node[j]] + 1
    <3>1. fails' = [fails EXCEPT ![j] = [fails[j] EXCEPT ![node[j]] = n]]
      BY <2>3 DEF Retry
    <3>2. n \in 0..MaxFailures
      BY <1>5 DEF Route, FailuresToSpare
    <3>3. fails' \in [Jobs -> [Stages -> 0..MaxFailures]]
      BY <3>1, <3>2
    <3>4. at' = [at EXCEPT ![j] = "raised"] \/ at' = [at EXCEPT ![j] = "node"]
      BY <2>3 DEF Retry, Goto
    <3> QED BY <1>5, <2>0, <2>3, <3>3, <3>4 DEF Route, Retry
  <2> QED BY <1>5, <2>1, <2>2, <2>3, <2>4 DEF Route
<1>6. ASSUME NEW j \in Jobs, Record(j) PROVE TypeOK'
  BY <1>6 DEF Record, Goto
<1>7. CASE Crash
  BY <1>7 DEF Crash, Ended, Never
<1>8. CASE UNCHANGED vars
  BY <1>8 DEF vars
<1> QED BY <1>1, <1>2, <1>3, <1>4, <1>5, <1>6, <1>7, <1>8 DEF Next, Step

-----------------------------------------------------------------------------
(* Where a job may be sent after its worker's answer is routed.            *)
LEMMA RouteLeads ==
    ASSUME TypeOK, NEW j \in Jobs, Route(j)
    PROVE  \/ /\ result[j] = "SUCCESS" /\ node[j] < Last
              /\ node' = [node EXCEPT ![j] = node[j] + 1] /\ at' = [at EXCEPT ![j] = "node"]
              /\ UNCHANGED <<fails, file>>
           \/ /\ wired => result[j] = "SUCCESS" /\ node[j] = Last
              /\ file' = file \/ file' = [file EXCEPT ![j] = NoFile]
              /\ at' = [at EXCEPT ![j] = "returned"] /\ UNCHANGED <<node, fails>>
           \/ /\ result[j] = "NEED_ASSET"
              /\ node' = [node EXCEPT ![j] = 1] /\ at' = [at EXCEPT ![j] = "node"]
              /\ UNCHANGED <<fails, file>>
           \/ /\ result[j] \in {"NEED_RETRY", "FATAL"}
              /\ fails' = [fails EXCEPT ![j] = [fails[j] EXCEPT ![node[j]] = fails[j][node[j]] + 1]]
              /\ \/ at' = [at EXCEPT ![j] = "raised"]
                 \/ fails[j][node[j]] + 1 < MaxFailures /\ at' = [at EXCEPT ![j] = "node"]
              /\ UNCHANGED <<node, file>>
<1>0. ASSUME End(j)
      PROVE  /\ file' = file \/ file' = [file EXCEPT ![j] = NoFile]
             /\ at' = [at EXCEPT ![j] = "returned"] /\ UNCHANGED <<node, fails>>
  <2>1. PICK f \in {file[j], NoFile} : file' = [file EXCEPT ![j] = f]
    BY <1>0 DEF End
  <2>2. file' = file \/ file' = [file EXCEPT ![j] = NoFile]
    BY <2>1 DEF TypeOK
  <2> QED BY <1>0, <2>2 DEF End, Goto
<1>1. CASE Proceed(j)
  <2>1. node[j] < Last \/ node[j] = Last
    BY StageAssumption DEF TypeOK, Stages
  <2>2. CASE node[j] < Last
    BY <1>1, <2>2 DEF Proceed, To, Goto
  <2>3. CASE node[j] = Last
    <3>1. ~(node[j] < Last)
      BY <2>3, StageAssumption
    <3>2. End(j) /\ result[j] = "SUCCESS"
      BY <1>1, <3>1 DEF Proceed
    <3> QED BY <1>0, <2>3, <3>2
  <2> QED BY <2>1, <2>2, <2>3
<1>2. CASE SearchAgain(j)
  BY <1>2 DEF SearchAgain, To, Goto
<1>3. CASE Retry(j)
  <2>1. MaxFailures \in Nat /\ fails[j][node[j]] + 1 \in Nat
    BY StageAssumption DEF TypeOK
  <2>2. fails' = [fails EXCEPT ![j] = [fails[j] EXCEPT ![node[j]] = fails[j][node[j]] + 1]]
    BY <1>3 DEF Retry
  <2>3. \/ at' = [at EXCEPT ![j] = "raised"]
        \/ fails[j][node[j]] + 1 < MaxFailures /\ at' = [at EXCEPT ![j] = "node"]
    <3>1. CASE fails[j][node[j]] + 1 >= MaxFailures \/ result[j] = "FATAL"
      BY <1>3, <3>1 DEF Retry, Goto
    <3>2. CASE ~(fails[j][node[j]] + 1 >= MaxFailures) /\ result[j] # "FATAL"
      <4>1. at' = [at EXCEPT ![j] = "node"]
        BY <1>3, <3>2 DEF Retry, Goto
      <4>2. fails[j][node[j]] + 1 < MaxFailures
        BY <2>1, <3>2
      <4> QED BY <4>1, <4>2
    <3> QED BY <3>1, <3>2
  <2> QED BY <1>3, <2>2, <2>3 DEF Retry
<1>4. CASE ~wired
  BY <1>0, <1>4 DEF Route
<1> QED BY <1>1, <1>2, <1>3, <1>4 DEF Route

(* Every step keeps what is said of each job's stages.                     *)
LEMMA NextSkipInv == SkipInv /\ [Next]_vars => SkipInv'
<1> SUFFICES ASSUME SkipInv, [Next]_vars PROVE SkipInv'
  OBVIOUS
<1>t. TypeOK /\ TypeOK'
  BY NextTypeOK DEF SkipInv, Types
<1> DEFINE Each == FailuresToSpare /\ FileTruthful /\ StagesBehind
<1>e. Each
  BY DEF SkipInv, Types
<1>1. ASSUME NEW j \in Jobs, Execute(j) PROVE Each'
  <2>1. CASE file[j] = NoFile
    <3>1. /\ node' = [node EXCEPT ![j] = start'] /\ first' = [first EXCEPT ![j] = start']
          /\ at' = [at EXCEPT ![j] = "node"] /\ at[j] = "queued"
          /\ UNCHANGED <<wired, result, fails, file, done>>
      BY <1>1, <2>1 DEF Execute, Goto
    <3>2. start' \in Nat /\ start'..(start' - 1) = {}
      <4>1. start' = 1 \/ start' = 2
        BY <1>t DEF TypeOK
      <4> QED BY <4>1
    <3> QED BY <1>t, <1>e, <2>1, <3>1, <3>2 DEF TypeOK, FailuresToSpare, FileTruthful, StagesBehind
  <2>2. CASE file[j] # NoFile
    <3>1. /\ node' = [node EXCEPT ![j] = file[j].node]
          /\ at' = [at EXCEPT ![j] = "node"] /\ at[j] = "queued"
          /\ UNCHANGED <<wired, result, fails, file, done, first>>
      BY <1>1, <2>2 DEF Execute, Goto
    <3> QED BY <1>t, <1>e, <2>2, <3>1 DEF TypeOK, FailuresToSpare, FileTruthful, StagesBehind
  <2> QED BY <2>1, <2>2
<1>2. ASSUME NEW j \in Jobs, Exhausted(j) PROVE Each'
  BY <1>t, <1>e, <1>2 DEF Exhausted, Goto, TypeOK, FailuresToSpare, FileTruthful, StagesBehind
<1>3. ASSUME NEW j \in Jobs, Work(j) PROVE Each'
  <2>1. PICK answer \in Statuses :
          /\ result' = [result EXCEPT ![j] = answer]
          /\ done' = [done EXCEPT ![j] =
                 IF answer = "SUCCESS" THEN done[j] \cup {node[j]} ELSE done[j]]
    BY <1>3, WorkAnswers, Zenon
  <2>2. /\ at[j] = "node" /\ at' = [at EXCEPT ![j] = "save"]
        /\ UNCHANGED <<wired, node, fails, file, first>>
    BY <1>3 DEF Work, Goto
  <2>3. \A k \in Jobs : done[k] \subseteq done'[k]
    BY <1>t, <2>1 DEF TypeOK
  <2>4. result'[j] = "SUCCESS" => node[j] \in done'[j]
    BY <1>t, <2>1 DEF TypeOK
  <2>5. FailuresToSpare' /\ FileTruthful'
    BY <1>t, <1>e, <2>2, <2>3 DEF TypeOK, FailuresToSpare, FileTruthful
  <2>6. ASSUME NEW k \in Jobs, k # j PROVE result'[k] = result[k] /\ done'[k] = done[k]
    BY <1>t, <2>1, <2>6 DEF TypeOK
  <2>7. StagesBehind'
    BY <1>t, <1>e, <2>2, <2>3, <2>4, <2>6 DEF TypeOK, StagesBehind
  <2> QED BY <2>5, <2>7
<1>4. ASSUME NEW j \in Jobs, Save(j) PROVE Each'
  <2>1. PICK f \in {[node |-> node[j], hist |-> hist[j]], file[j], NoFile} :
          file' = [file EXCEPT ![j] = f]
    BY <1>4 DEF Save
  <2>2. /\ at[j] = "save" /\ at' = [at EXCEPT ![j] = "route"]
        /\ UNCHANGED <<wired, node, fails, result, done, first>>
    BY <1>4 DEF Save, Goto
  <2>3. f # NoFile => first[j]..(f.node - 1) \subseteq done[j]
    BY <1>e, <2>1, <2>2 DEF FileTruthful, StagesBehind
  <2> QED BY <1>t, <1>e, <2>1, <2>2, <2>3 DEF TypeOK, FailuresToSpare, FileTruthful, StagesBehind
<1>5. ASSUME NEW j \in Jobs, Route(j) PROVE Each'
  <2>1. at[j] = "route" /\ result' = [result EXCEPT ![j] = "none"] /\ UNCHANGED <<wired, done, first>>
    BY <1>5 DEF Route
  <2> DEFINE n == fails[j][node[j]] + 1
  <2>2. CASE /\ result[j] = "SUCCESS" /\ node[j] < Last
             /\ node' = [node EXCEPT ![j] = node[j] + 1] /\ at' = [at EXCEPT ![j] = "node"]
             /\ UNCHANGED <<fails, file>>
    <3>1. first[j]..node[j] \subseteq done[j]
      BY <1>t, <1>e, <2>1, <2>2 DEF TypeOK, Stages, StagesBehind
    <3>2. node'[j] - 1 = node[j]
      BY <1>t, <2>2 DEF TypeOK, Stages
    <3>3. FailuresToSpare' /\ FileTruthful'
      BY <1>t, <1>e, <2>1, <2>2 DEF TypeOK, FailuresToSpare, FileTruthful
    <3>4. StagesBehind'
      BY <1>t, <1>e, <2>1, <2>2, <3>1, <3>2 DEF TypeOK, StagesBehind
    <3> QED BY <3>3, <3>4
  <2>3. CASE /\ wired => result[j] = "SUCCESS" /\ node[j] = Last
             /\ file' = file \/ file' = [file EXCEPT ![j] = NoFile]
             /\ at' = [at EXCEPT ![j] = "returned"] /\ UNCHANGED <<node, fails>>
    <3>1. wired => first[j]..Last \subseteq done[j]
      BY <1>t, <1>e, <2>1, <2>3 DEF TypeOK, Stages, StagesBehind
    <3>2. FailuresToSpare'
      BY <1>t, <1>e, <2>1, <2>3 DEF TypeOK, FailuresToSpare
    <3>3. FileTruthful'
      BY <1>t, <1>e, <2>1, <2>3 DEF TypeOK, FileTruthful
    <3>4. StagesBehind'
      BY <1>t, <1>e, <2>1, <2>3, <3>1 DEF TypeOK, StagesBehind
    <3> QED BY <3>2, <3>3, <3>4
  <2>4. CASE /\ node' = [node EXCEPT ![j] = 1] /\ at' = [at EXCEPT ![j] = "node"]
             /\ UNCHANGED <<fails, file>>
    <3>1. first[j]..0 = {}
      BY <1>t DEF TypeOK, Stages
    <3>2. FailuresToSpare' /\ FileTruthful'
      BY <1>t, <1>e, <2>1, <2>4 DEF TypeOK, FailuresToSpare, FileTruthful
    <3>3. StagesBehind'
      BY <1>t, <1>e, <2>1, <2>4, <3>1 DEF TypeOK, StagesBehind
    <3> QED BY <3>2, <3>3
  <2>5. CASE /\ fails' = [fails EXCEPT ![j] = [fails[j] EXCEPT ![node[j]] = n]]
             /\ \/ at' = [at EXCEPT ![j] = "raised"]
                \/ n < MaxFailures /\ at' = [at EXCEPT ![j] = "node"]
             /\ UNCHANGED <<node, file>>
    <3>1. ASSUME NEW k \in Jobs, at'[k] \in {"queued", "node", "save", "route"}, NEW s \in Stages
          PROVE  fails'[k][s] < MaxFailures
      <4>1. CASE k # j
        BY <1>t, <1>e, <2>5, <3>1, <4>1 DEF TypeOK, FailuresToSpare
      <4>2. CASE k = j
        <5>1. n < MaxFailures
          BY <1>t, <2>5, <3>1, <4>2 DEF TypeOK
        <5>2. fails[j][s] < MaxFailures
          BY <1>e, <2>1 DEF FailuresToSpare
        <5>3. fails'[j][s] = IF s = node[j] THEN n ELSE fails[j][s]
          BY <1>t, <2>5 DEF TypeOK
        <5> QED BY <4>2, <5>1, <5>2, <5>3
      <4> QED BY <4>1, <4>2
    <3>2. FailuresToSpare'
      BY <3>1 DEF FailuresToSpare
    <3>3. FileTruthful' /\ StagesBehind'
      BY <1>t, <1>e, <2>1, <2>5 DEF TypeOK, FileTruthful, StagesBehind
    <3> QED BY <3>2, <3>3
  <2> QED BY <1>t, <1>5, <2>2, <2>3, <2>4, <2>5, RouteLeads
<1>6. ASSUME NEW j \in Jobs, Record(j) PROVE Each'
  BY <1>t, <1>e, <1>6 DEF Record, Goto, TypeOK, FailuresToSpare, FileTruthful, StagesBehind
<1>7. ASSUME Crash PROVE Each'
  <2>1. FailuresToSpare'
    BY <1>7, StageAssumption DEF Crash, Never, FailuresToSpare
  <2>2. FileTruthful'
    BY <1>e, <1>7 DEF Crash, FileTruthful
  <2>3. StagesBehind'
    BY <1>e, <1>7 DEF Crash, Ended, StagesBehind
  <2> QED BY <2>1, <2>2, <2>3
<1>8. ASSUME UNCHANGED vars PROVE Each'
  BY <1>e, <1>8 DEF vars, FailuresToSpare, FileTruthful, StagesBehind
<1>9. Each'
  BY <1>1, <1>2, <1>3, <1>4, <1>5, <1>6, <1>7, <1>8 DEF Next, Step
<1> QED BY <1>t, <1>9 DEF SkipInv, Types

(* The types of every reachable state, the limits on histories and failure *)
(* counts among them.                                                      *)
THEOREM StageTypeCorrect == Spec => []TypeOK
<1>1. SkipInv => TypeOK
  BY DEF SkipInv, Types
<1> QED BY <1>1, InitSkipInv, NextSkipInv, PTL DEF Spec

(* No stage is skipped, whatever the workers answer, wherever the process  *)
(* dies and whichever checkpoint it finds: with either wiring a stage runs *)
(* only after those before it, and if the pipeline has its supervisor a    *)
(* job is over only after the last.                                        *)
THEOREM NoStageIsSkipped == Spec => []NoStageSkipped
<1>1. SkipInv => NoStageSkipped
  BY DEF SkipInv, StagesBehind, NoStageSkipped
<1> QED BY <1>1, InitSkipInv, NextSkipInv, PTL DEF Spec

-----------------------------------------------------------------------------
(* What is said of visits, for more deaths, stays true.                    *)
LEMMA FewVisitsLater ==
    ASSUME NEW h \in [Stages -> Counts], NEW n \in Stages, NEW c \in Nat, FewVisits(h, n, c)
    PROVE  \A m \in Stages : FewVisits(h, m, c + 1)
<1> SUFFICES ASSUME NEW m \in Stages, NEW s \in Stages
             PROVE  h[s] <= 2 * (c + 1) + 2 /\ h[s] <= 2 * (c + 1)
  BY DEF FewVisits
<1>1. h[s] \in Nat /\ h[s] <= 2 * c + 2
  BY DEF FewVisits, Counts
<1> QED BY <1>1

LEMMA InitCountInv == Init => CountInv
BY DEF Init, CountInv

(* A worker that succeeds adds at most two to the count of its stage, and  *)
(* none to those after it.                                                 *)
LEMMA OneMoreVisit ==
    ASSUME NEW h \in [Stages -> Counts], NEW n \in Stages, NEW c \in Nat, NEW t \in {1, 2},
           FewVisits(h, n, c), h[n] <= 2 * c
    PROVE  FewVisits([h EXCEPT ![n] = h[n] + t], n, c)
<1> SUFFICES ASSUME NEW s \in Stages
             PROVE  LET g == [h EXCEPT ![n] = h[n] + t]
                    IN  g[s] <= 2 * c + 2 /\ (s > n => g[s] <= 2 * c)
  BY DEF FewVisits
<1>1. h[s] \in Nat /\ h[n] \in Nat /\ s \in Nat /\ n \in Nat
  BY StageAssumption DEF Counts, Stages
<1>2. CASE s = n
  BY <1>1, <1>2
<1>3. CASE s # n
  BY <1>1, <1>3 DEF FewVisits
<1> QED BY <1>2, <1>3

(* Routing moves one job; after a success that is to the next stage, or to *)
(* the end.                                                                *)
LEMMA RouteMoves ==
    ASSUME TypeOK, NEW j \in Jobs, Route(j)
    PROVE  /\ \A k \in Jobs : k # j =>
                  at'[k] = at[k] /\ node'[k] = node[k] /\ file'[k] = file[k] /\ result'[k] = result[k]
           /\ file'[j] = file[j] \/ file'[j] = NoFile
           /\ result[j] = "SUCCESS" =>
                  \/ node'[j] = node[j] + 1 /\ node'[j] \in Stages /\ at'[j] = "node"
                  \/ at'[j] = "returned"
<1> DEFINE Others == \A k \in Jobs : k # j =>
               at'[k] = at[k] /\ node'[k] = node[k] /\ file'[k] = file[k]
           OwnFile == file'[j] = file[j] \/ file'[j] = NoFile
           Onward == result[j] = "SUCCESS" =>
               \/ node'[j] = node[j] + 1 /\ node'[j] \in Stages /\ at'[j] = "node"
               \/ at'[j] = "returned"
<1>1. ASSUME /\ result[j] = "SUCCESS" /\ node[j] < Last
             /\ node' = [node EXCEPT ![j] = node[j] + 1] /\ at' = [at EXCEPT ![j] = "node"]
             /\ UNCHANGED <<fails, file>>
      PROVE Others /\ OwnFile /\ Onward
  <2>1. node[j] + 1 \in Stages
    BY <1>1, StageAssumption DEF TypeOK, Stages
  <2>2. node'[j] = node[j] + 1 /\ at'[j] = "node"
    BY <1>1 DEF TypeOK
  <2>3. Others /\ OwnFile
    BY <1>1 DEF TypeOK
  <2> QED BY <2>1, <2>2, <2>3
<1>2. ASSUME /\ file' = file \/ file' = [file EXCEPT ![j] = NoFile]
             /\ at' = [at EXCEPT ![j] = "returned"] /\ UNCHANGED <<node, fails>>
      PROVE Others /\ OwnFile /\ Onward
  BY <1>2 DEF TypeOK
<1>3. ASSUME /\ result[j] = "NEED_ASSET"
             /\ node' = [node EXCEPT ![j] = 1] /\ at' = [at EXCEPT ![j] = "node"]
             /\ UNCHANGED <<fails, file>>
      PROVE Others /\ OwnFile /\ Onward
  BY <1>3 DEF TypeOK
<1>4. ASSUME /\ result[j] \in {"NEED_RETRY", "FATAL"}
             /\ (at' = [at EXCEPT ![j] = "raised"]) \/ (at' = [at EXCEPT ![j] = "node"])
             /\ UNCHANGED <<node, file>>
      PROVE Others /\ OwnFile /\ Onward
  <2>1. Onward
    BY <1>4
  <2>2. OwnFile
    BY <1>4
  <2>3. CASE at' = [at EXCEPT ![j] = "raised"]
    BY <1>4, <2>1, <2>2, <2>3 DEF TypeOK
  <2>4. CASE at' = [at EXCEPT ![j] = "node"]
    BY <1>4, <2>1, <2>2, <2>4 DEF TypeOK
  <2> QED BY <1>4, <2>3, <2>4
<1>5. \A k \in Jobs : k # j => result'[k] = result[k]
  BY DEF Route, TypeOK
<1>6. Others /\ OwnFile /\ Onward
  BY <1>1, <1>2, <1>3, <1>4, RouteLeads
<1> QED BY <1>5, <1>6

(* Every step keeps the count of visits, job by job.                       *)
LEMMA NextCountInv == TypeOK /\ TypeOK' /\ CountInv /\ [Next]_vars => CountInv'
<1> SUFFICES ASSUME TypeOK, TypeOK', CountInv, [Next]_vars PROVE CountInv'
  OBVIOUS
<1>c. crashes \in Nat
  BY StageAssumption DEF TypeOK
<1>1. ASSUME NEW j \in Jobs, Execute(j) PROVE CountInv'
  <2>1. CASE file[j] = NoFile
    <3>1. /\ node' = [node EXCEPT ![j] = start'] /\ hist' = [hist EXCEPT ![j] = Never]
          /\ at' = [at EXCEPT ![j] = "node"]
          /\ UNCHANGED <<result, file, crashes, troubled>>
      BY <1>1, <2>1 DEF Execute, Goto
    <3>2. node'[j] \in Stages
      BY DEF TypeOK
    <3>3. FewVisits(Never, node'[j], crashes) /\ Never[node'[j]] <= 2 * crashes
      BY <1>c, <3>2 DEF FewVisits, Never
    <3>4. hist'[j] = Never /\ at'[j] = "node"
      BY <3>1 DEF TypeOK
    <3>5. \A k \in Jobs : k # j => node'[k] = node[k] /\ hist'[k] = hist[k] /\ at'[k] = at[k]
      BY <3>1 DEF TypeOK
    <3> QED BY <3>1, <3>3, <3>4, <3>5 DEF CountInv, Calm
  <2>2. CASE file[j] # NoFile
    <3>1. /\ node' = [node EXCEPT ![j] = file[j].node] /\ hist' = [hist EXCEPT ![j] = file[j].hist]
          /\ at' = [at EXCEPT ![j] = "node"]
          /\ UNCHANGED <<result, file, crashes, troubled>>
      BY <1>1, <2>2 DEF Execute, Goto
    <3>2. Calm(j) => \A s \in Stages : file[j].hist[s] <= 2 * crashes
      BY <1>1, <2>2 DEF Execute, CountInv
    <3>3. file[j].node \in Stages /\ file[j].hist \in [Stages -> Counts]
      BY <2>2 DEF TypeOK
    <3>4. Calm(j) => /\ FewVisits(file[j].hist, file[j].node, crashes)
                     /\ file[j].hist[file[j].node] <= 2 * crashes
      BY <2>2, <3>2, <3>3 DEF CountInv
    <3>5. hist'[j] = file[j].hist /\ node'[j] = file[j].node /\ at'[j] = "node"
      BY <3>1 DEF TypeOK
    <3>6. \A k \in Jobs : k # j => node'[k] = node[k] /\ hist'[k] = hist[k] /\ at'[k] = at[k]
      BY <3>1 DEF TypeOK
    <3> QED BY <3>1, <3>4, <3>5, <3>6 DEF CountInv, Calm
  <2> QED BY <2>1, <2>2
<1>2. ASSUME NEW j \in Jobs, Exhausted(j) PROVE CountInv'
  <2>1. hist[j][node[j]] \in Nat /\ hist[j][node[j]] > 3
    <3>1. node[j] \in Stages /\ hist[j] \in [Stages -> Counts]
      BY DEF TypeOK
    <3>2. hist[j][node[j]] \in Counts
      BY <3>1
    <3> QED BY <1>2, <3>2 DEF Exhausted, Counts
  <2>2. Calm(j) => hist[j][node[j]] <= 2 * crashes
    BY <1>2 DEF Exhausted, CountInv
  <2>3. Calm(j) => crashes >= 2
    BY <1>c, <2>1, <2>2
  <2>4. at' = [at EXCEPT ![j] = "raised"] /\ UNCHANGED <<node, hist, result, file, crashes, troubled>>
    BY <1>2 DEF Exhausted, Goto
  <2>5. at'[j] = "raised" /\ \A k \in Jobs : k # j => at'[k] = at[k]
    BY <2>4 DEF TypeOK
  <2> QED BY <2>3, <2>4, <2>5 DEF CountInv, Calm
<1>3. ASSUME NEW j \in Jobs, Work(j) PROVE CountInv'
  <2>1. PICK answer \in Statuses, times \in {1, 2} :
          /\ result' = [result EXCEPT ![j] = answer]
          /\ hist' = [hist EXCEPT ![j][node[j]] = hist[j][node[j]] + times]
          /\ done' = [done EXCEPT ![j] =
                 IF answer = "SUCCESS" THEN done[j] \cup {node[j]} ELSE done[j]]
          /\ troubled' = [troubled EXCEPT ![j] = troubled[j] \/ answer # "SUCCESS"]
    BY <1>3, WorkAnswers, Zenon
  <2>2. at[j] = "node" /\ at' = [at EXCEPT ![j] = "save"] /\ UNCHANGED <<node, file, crashes>>
    BY <1>3 DEF Work, Goto
  <2>3. \A k \in Jobs : k # j => /\ at'[k] = at[k] /\ hist'[k] = hist[k] /\ result'[k] = result[k]
                                /\ troubled'[k] = troubled[k]
    BY <2>1, <2>2 DEF TypeOK
  <2>4. at'[j] = "save" /\ result'[j] = answer
    BY <2>1, <2>2 DEF TypeOK
  <2>5. troubled'[j] = (troubled[j] \/ answer # "SUCCESS")
    BY <2>1, Zenon DEF TypeOK
  <2>6. hist'[j] = [hist[j] EXCEPT ![node[j]] = hist[j][node[j]] + times]
    BY <2>1 DEF TypeOK
  <2>7. Calm(j) => FewVisits(hist'[j], node[j], crashes)
    <3>1. hist[j] \in [Stages -> Counts] /\ node[j] \in Stages
      BY DEF TypeOK
    <3>2. Calm(j) => FewVisits(hist[j], node[j], crashes) /\ hist[j][node[j]] <= 2 * crashes
      BY <2>2 DEF CountInv
    <3>3. times \in {1, 2}
      BY <2>1
    <3>4. CASE Calm(j)
      <4>1. FewVisits([hist[j] EXCEPT ![node[j]] = hist[j][node[j]] + times], node[j], crashes)
        BY <1>c, <3>1, <3>2, <3>3, <3>4, OneMoreVisit
      <4> QED BY <2>6, <4>1
    <3> QED BY <3>4
  <2>8. ~troubled'[j] => ~troubled[j] /\ answer = "SUCCESS"
    BY <2>5
  <2> QED BY <2>2, <2>3, <2>4, <2>7, <2>8 DEF CountInv, Calm
<1>4. ASSUME NEW j \in Jobs, Save(j) PROVE CountInv'
  <2>1. PICK f \in {[node |-> node[j], hist |-> hist[j]], file[j], NoFile} :
          file' = [file EXCEPT ![j] = f]
    BY <1>4 DEF Save
  <2>2. /\ at[j] = "save" /\ at' = [at EXCEPT ![j] = "route"]
        /\ UNCHANGED <<node, hist, result, crashes, troubled>>
    BY <1>4 DEF Save, Goto
  <2>3. Calm(j) /\ f # NoFile => FewVisits(f.hist, f.node, crashes)
    BY <2>1, <2>2 DEF CountInv
  <2>4. at'[j] = "route" /\ file'[j] = f
    BY <2>1, <2>2 DEF TypeOK
  <2>5. \A k \in Jobs : k # j => at'[k] = at[k] /\ file'[k] = file[k]
    BY <2>1, <2>2 DEF TypeOK
  <2> QED BY <2>2, <2>3, <2>4, <2>5 DEF CountInv, Calm
<1>5. ASSUME NEW j \in Jobs, Route(j) PROVE CountInv'
  <2>1. /\ at[j] = "route" /\ result' = [result EXCEPT ![j] = "none"]
        /\ UNCHANGED <<hist, crashes, troubled>>
    BY <1>5 DEF Route
  <2>2. Calm(j) => result[j] = "SUCCESS"
    BY <2>1 DEF CountInv
  <2>3. /\ \A k \in Jobs : k # j =>
               at'[k] = at[k] /\ node'[k] = node[k] /\ file'[k] = file[k] /\ result'[k] = result[k]
        /\ file'[j] = file[j] \/ file'[j] = NoFile
    BY <1>5, <2>1, RouteMoves DEF TypeOK
  <2>5. Calm(j) => \/ node'[j] = node[j] + 1 /\ node'[j] \in Stages /\ at'[j] = "node"
                   \/ at'[j] = "returned"
    BY <1>5, <2>2, RouteMoves DEF TypeOK
  <2>6. Calm(j) /\ at'[j] = "node" =>
          FewVisits(hist[j], node'[j], crashes) /\ hist[j][node'[j]] <= 2 * crashes
    <3> SUFFICES ASSUME Calm(j), at'[j] = "node"
                 PROVE  FewVisits(hist[j], node'[j], crashes) /\ hist[j][node'[j]] <= 2 * crashes
      OBVIOUS
    <3>1. FewVisits(hist[j], node[j], crashes)
      BY <2>1 DEF CountInv
    <3>2. node'[j] = node[j] + 1 /\ node'[j] \in Stages /\ node[j] \in Nat
      BY <2>5, StageAssumption DEF TypeOK, Stages
    <3>3. node'[j] > node[j]
      BY <3>2
    <3>4. \A s \in Stages : s > node'[j] => s > node[j]
      BY <3>2, StageAssumption DEF Stages
    <3> QED BY <3>1, <3>2, <3>3, <3>4 DEF FewVisits
  <2> QED BY <2>1, <2>3, <2>5, <2>6 DEF CountInv, Calm
<1>6. ASSUME NEW j \in Jobs, Record(j) PROVE CountInv'
  <2>1. \/ at[j] = "returned" /\ at' = [at EXCEPT ![j] = "completed"]
        \/ at[j] = "raised" /\ at' = [at EXCEPT ![j] = "failed"]
    BY <1>6 DEF Record, Goto
  <2>2. UNCHANGED <<node, hist, result, file, crashes, troubled>>
    BY <1>6 DEF Record
  <2>3. \/ at[j] = "returned" /\ at'[j] = "completed"
        \/ at[j] = "raised" /\ at'[j] = "failed"
    BY <2>1 DEF TypeOK
  <2>4. \A k \in Jobs : k # j => at'[k] = at[k]
    BY <2>1 DEF TypeOK
  <2> QED BY <2>2, <2>3, <2>4 DEF CountInv, Calm
<1>7. CASE Crash
  <2>1. crashes' = crashes + 1 /\ UNCHANGED <<file, troubled>>
    BY <1>7 DEF Crash
  <2>2. \A k \in Jobs : at'[k] = (IF Ended(k) THEN at[k] ELSE "queued")
    BY <1>7 DEF Crash
  <2>3. ASSUME NEW k \in Jobs, Calm(k), file[k] # NoFile
        PROVE  /\ FewVisits(file[k].hist, file[k].node, crashes')
               /\ \A s \in Stages : file[k].hist[s] <= 2 * crashes'
    <3>1. file[k].node \in Stages /\ file[k].hist \in [Stages -> Counts]
      BY <2>3 DEF TypeOK
    <3>2. FewVisits(file[k].hist, file[k].node, crashes)
      BY <2>3 DEF CountInv
    <3>3. FewVisits(file[k].hist, file[k].node, crashes')
      BY <1>c, <2>1, <3>1, <3>2, FewVisitsLater
    <3>4. ASSUME NEW s \in Stages PROVE file[k].hist[s] <= 2 * crashes'
      <4>1. file[k].hist[s] \in Nat /\ file[k].hist[s] <= 2 * crashes + 2
        BY <3>1, <3>2 DEF FewVisits, Counts
      <4> QED BY <1>c, <2>1, <4>1
    <3> QED BY <3>3, <3>4
  <2>4. crashes >= 2 => crashes' >= 2
    BY <1>c, <2>1
  <2> QED BY <2>1, <2>2, <2>3, <2>4 DEF CountInv, Calm, Ended
<1>8. CASE UNCHANGED vars
  BY <1>8 DEF vars, CountInv, Calm
<1> QED BY <1>1, <1>2, <1>3, <1>4, <1>5, <1>6, <1>7, <1>8 DEF Next, Step

(* A job fails for a reason: a worker that did not succeed, or two deaths. *)
THEOREM FailuresHaveReasons == Spec => []FailsForAReason
<1>1. CountInv => FailsForAReason
  BY DEF CountInv, Calm, FailsForAReason
<1>2. SkipInv => TypeOK
  BY DEF SkipInv, Types
<1> QED BY <1>1, <1>2, InitSkipInv, NextSkipInv, InitCountInv, NextCountInv, PTL DEF Spec
=============================================================================
