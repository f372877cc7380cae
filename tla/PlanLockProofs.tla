--------------------------- MODULE PlanLockProofs ---------------------------
(***************************************************************************)
(* Proofs about PlanLock, for any number of sessions, files and attempts.  *)
(*                                                                         *)
(* LockInv is the inductive invariant: the kernel's table and the          *)
(* sessions' own idea of the lock agree, and on Windows an open lock file  *)
(* keeps its name.  It says when two sessions can be inside, and makes     *)
(* every step one of PlanMutex, or a stutter.                              *)
(***************************************************************************)
EXTENDS PlanLock, TLAPS

(* Whoever is inside owns the file it opened; a file is owned only by a    *)
(* session that has it open and is inside or leaving.                      *)
KernelInv ==
    /\ \A s \in Sessions : pc[s] = "held" => owner[fd[s]] = s
    /\ \A f \in Files : owner[f] # Nobody =>
           fd[owner[f]] = f /\ pc[owner[f]] \in {"held", "close"}

(* Windows keeps the name and the file together.                           *)
NameInv == os = "nt" => ~Torn

LockInv == TypeOK /\ KernelInv /\ NameInv

-----------------------------------------------------------------------------
(* An attempt that failed leaves pc and tries in their types.              *)
LEMMA AgainType ==
    ASSUME TypeOK, NEW s \in Sessions, Again(s)
    PROVE  /\ tries' \in [Sessions -> 0..MaxTries]
           /\ pc' \in [Sessions -> Places]
           /\ pc'[s] \in {"open", "out"}
           /\ \A t \in Sessions \ {s} : pc'[t] = pc[t]
  BY LockAssumption DEF TypeOK, Again, Goto, Places

(* What CloseFd and Unlocked do.                                           *)
LEMMA CloseType ==
    ASSUME TypeOK, NEW s \in Sessions
    PROVE  /\ Unlocked(s) \in [Files -> Sessions \cup {Nobody}]
           /\ \A f \in Files : Unlocked(s)[f] # s
           /\ \A f \in Files : Unlocked(s)[f] # Nobody => Unlocked(s)[f] = owner[f]
           /\ \A f \in Files : owner[f] # s => Unlocked(s)[f] = owner[f]
           /\ CloseFd(s) => /\ fd' \in [Sessions -> Files \cup {NoFile}]
                            /\ fd'[s] = NoFile
                            /\ \A t \in Sessions \ {s} : fd'[t] = fd[t]
  BY LockAssumption DEF TypeOK, Unlocked, CloseFd

LEMMA LockInvInit == Init => LockInv
  BY LockAssumption DEF Init, LockInv, TypeOK, KernelInv, NameInv, Torn, Places

(* No step of a session, and no delete_plan, breaks the agreement.         *)
LEMMA LockInvStep == LockInv /\ [Next]_vars => LockInv'
<1> SUFFICES ASSUME LockInv, [Next]_vars PROVE LockInv'
  OBVIOUS
<1> USE LockAssumption DEF LockInv
<1>1. CASE UNCHANGED vars
  BY <1>1 DEF vars, TypeOK, KernelInv, NameInv, Torn
<1>2. ASSUME NEW s \in Sessions, Ask(s) PROVE LockInv'
  BY <1>2 DEF Ask, Goto, TypeOK, KernelInv, NameInv, Torn, Places
<1>3. ASSUME NEW s \in Sessions, Open(s) PROVE LockInv'
  <2>1. TypeOK'
    BY <1>3 DEF Open, Goto, TypeOK, Places
  <2>2. KernelInv'
    BY <1>3 DEF Open, Goto, TypeOK, KernelInv
  <2>3. NameInv'
    BY <1>3 DEF Open, Goto, TypeOK, NameInv, Torn
  <2> QED BY <2>1, <2>2, <2>3
<1>4. ASSUME NEW s \in Sessions, OpenFails(s) PROVE LockInv'
  <2>1. TypeOK'
    BY <1>4, AgainType DEF OpenFails, TypeOK
  <2>2. KernelInv'
    BY <1>4, AgainType DEF OpenFails, TypeOK, KernelInv
  <2>3. NameInv'
    BY <1>4 DEF OpenFails, NameInv, Torn
  <2> QED BY <2>1, <2>2, <2>3
<1>5. ASSUME NEW s \in Sessions, Lock(s) PROVE LockInv'
  <2>1. TypeOK'
    BY <1>5 DEF Lock, Goto, TypeOK, Places
  <2>2. KernelInv'
    BY <1>5 DEF Lock, Goto, TypeOK, KernelInv
  <2>3. NameInv'
    BY <1>5 DEF Lock, NameInv, Torn
  <2> QED BY <2>1, <2>2, <2>3
<1>6. ASSUME NEW s \in Sessions, Refused(s) PROVE LockInv'
  <2>1. TypeOK'
    BY <1>6, AgainType, CloseType DEF Refused, TypeOK
  <2>2. KernelInv'
    <3>1. pc[s] = "flock" /\ owner' = owner
      BY <1>6 DEF Refused
    <3>2. \A f \in Files : owner[f] # s
      BY <3>1 DEF KernelInv, TypeOK
    <3>3. pc'[s] # "held"
      BY <1>6, AgainType DEF Refused
    <3>4. \A t \in Sessions \ {s} : pc'[t] = pc[t] /\ fd'[t] = fd[t]
      BY <1>6, AgainType, CloseType DEF Refused
    <3> QED BY <3>1, <3>2, <3>3, <3>4 DEF KernelInv, TypeOK
  <2>3. NameInv'
    BY <1>6, CloseType DEF Refused, NameInv, Torn, TypeOK
  <2> QED BY <2>1, <2>2, <2>3
<1>7. ASSUME NEW s \in Sessions, Unlock(s) PROVE LockInv'
  <2>1. TypeOK'
    BY <1>7, CloseType DEF Unlock, Goto, TypeOK, Places
  <2>2. KernelInv'
    BY <1>7, CloseType DEF Unlock, Goto, TypeOK, KernelInv
  <2>3. NameInv'
    BY <1>7 DEF Unlock, NameInv, Torn
  <2> QED BY <2>1, <2>2, <2>3
<1>8. ASSUME NEW s \in Sessions, Close(s) \/ Crash(s) PROVE LockInv'
  <2>1. TypeOK'
    BY <1>8, CloseType DEF Close, Crash, Goto, TypeOK, Places
  <2>2. KernelInv'
    BY <1>8, CloseType DEF Close, Crash, Goto, TypeOK, KernelInv
  <2>3. NameInv'
    BY <1>8, CloseType DEF Close, Crash, NameInv, Torn, TypeOK
  <2> QED BY <2>1, <2>2, <2>3
<1>9. ASSUME Unlink PROVE LockInv'
  <2>1. TypeOK' /\ KernelInv'
    BY <1>9 DEF Unlink, TypeOK, KernelInv
  <2>2. NameInv'
    BY <1>9 DEF Unlink, NameInv, Torn, Opened, TypeOK
  <2> QED BY <2>1, <2>2
<1> QED BY <1>1, <1>2, <1>3, <1>4, <1>5, <1>6, <1>7, <1>8, <1>9 DEF Next, Acquire

-----------------------------------------------------------------------------
LEMMA LockInvHolds == Spec => []LockInv
  BY LockInvInit, LockInvStep, PTL DEF Spec

(* Every variable of PlanLock stays in its type, and a session has a file  *)
(* open exactly while it is locking, inside or leaving.                    *)
THEOREM LockTypeCorrect == Spec => []TypeOK
  BY LockInvHolds, PTL DEF LockInv

(* On Windows a lock file that is open keeps its name.                     *)
THEOREM WindowsNeverTorn == Spec => []NeverTornOnWindows
<1>1. LockInv => NeverTornOnWindows
  BY DEF LockInv, NameInv, NeverTornOnWindows
<1> QED BY <1>1, LockInvHolds, PTL

(* Two sessions are inside at once only on Unix, and only when the file of *)
(* one of them has been removed.                                           *)
THEOREM OneHolderHolds == Spec => []OneHolder
<1>1. LockInv => OneHolder
  BY LockAssumption DEF LockInv, TypeOK, KernelInv, NameInv, Torn, OneHolder
<1> QED BY <1>1, LockInvHolds, PTL

(* Only a session that lives and is inside, or leaving, refuses another.   *)
THEOREM RefusedOnlyByTheLivingHolds == Spec => RefusedOnlyByTheLiving
<1> DEFINE Step == \A s \in Sessions : pc[s] = "flock" /\ pc'[s] \in {"open", "out"} =>
                 \E t \in Sessions \ {s} : fd[t] = fd[s] /\ pc[t] \in {"held", "close"}
<1>1. LockInv /\ [Next]_vars => [Step]_vars
  <2> SUFFICES ASSUME LockInv, Next, NEW s \in Sessions,
                      pc[s] = "flock", pc'[s] \in {"open", "out"}
               PROVE  \E t \in Sessions \ {s} : fd[t] = fd[s] /\ pc[t] \in {"held", "close"}
    BY DEF vars
  <2>1. Refused(s)
    <3>1. ~Unlink
      BY DEF Unlink, LockInv, TypeOK
    <3>2. PICK t \in Sessions : Ask(t) \/ Acquire(t) \/ Unlock(t) \/ Close(t) \/ Crash(t)
      BY <3>1 DEF Next
    <3>3. t = s
      BY <3>2, AgainType DEF LockInv, TypeOK, Ask, Acquire, Open, OpenFails, Lock, Refused,
                             Unlock, Close, Crash, Goto
    <3> QED BY <3>2, <3>3 DEF LockInv, TypeOK, Ask, Acquire, Open, OpenFails, Lock,
                              Unlock, Close, Crash, Goto
  <2> QED BY <2>1, LockAssumption DEF Refused, LockInv, TypeOK, KernelInv
<1> QED BY <1>1, LockInvHolds, PTL DEF Spec, RefusedOnlyByTheLiving

(* PlanLock implements PlanMutex until a file is torn from its name, which *)
(* Windows never lets happen.                                              *)
THEOREM LockImplementsMutex == Spec => ImplementsMutex
<1>1. Init => Mutex!Init
  BY DEF Init, Mutex!Init, Waiting, Holders
<1>2. LockInv /\ [Next]_vars => [Mutex!Next \/ Torn]_<<Waiting, Holders>>
  <2> SUFFICES ASSUME LockInv, [Next]_vars, ~Torn,
                      <<Waiting, Holders>>' # <<Waiting, Holders>>
               PROVE  Mutex!Next
    OBVIOUS
  <2> USE DEF LockInv, TypeOK, Goto, Waiting, Holders
  <2>1. ~ UNCHANGED vars /\ ~Unlink
    BY DEF vars, Unlink
  <2>2. PICK s \in Sessions : Ask(s) \/ Acquire(s) \/ Unlock(s) \/ Close(s) \/ Crash(s)
    BY <2>1 DEF Next
  <2>3. CASE Ask(s)
    BY <2>3 DEF Ask, Mutex!Next, Mutex!Ask, Places
  <2>4. CASE Open(s)
    BY <2>4 DEF Open
  <2>5. CASE OpenFails(s)
    BY <2>5, AgainType DEF OpenFails, Mutex!Next, Mutex!GiveUp
  <2>6. CASE Lock(s)
    <3>1. Holders = {}
      BY <2>6, LockAssumption DEF Lock, KernelInv, Torn
    <3>2. pc' = [pc EXCEPT ![s] = "held"] /\ pc \in [Sessions -> Places]
      BY <2>6 DEF Lock
    <3>3. Holders' = {s}
      <4>1. \A t \in Sessions : pc'[t] = "held" <=> t = s
        BY <3>1, <3>2
      <4> QED BY <4>1
    <3>4. s \in Waiting /\ Waiting' = Waiting \ {s}
      BY <2>6 DEF Lock
    <3> QED BY <3>1, <3>3, <3>4 DEF Mutex!Next, Mutex!Grant
  <2>7. CASE Refused(s)
    BY <2>7, AgainType DEF Refused, Mutex!Next, Mutex!GiveUp
  <2>8. CASE Unlock(s)
    BY <2>8 DEF Unlock, Mutex!Next, Mutex!Leave
  <2>9. CASE Close(s)
    BY <2>9 DEF Close
  <2>10. CASE Crash(s)
    BY <2>10 DEF Crash, Mutex!Next, Mutex!GiveUp, Mutex!Leave
  <2> QED BY <2>2, <2>3, <2>4, <2>5, <2>6, <2>7, <2>8, <2>9, <2>10 DEF Acquire
<1> QED BY <1>1, <1>2, LockInvHolds, PTL DEF Spec, ImplementsMutex
=============================================================================
