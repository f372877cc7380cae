------------------------------ MODULE PlanLock ------------------------------
(***************************************************************************)
(* PlanLock (ecosystem/plan_store.py): the lock of one plan is a file, and *)
(* a session has the lock when the kernel has locked for it the file it    *)
(* opened.  Sessions poll: open, lock without waiting, close, sleep, again. *)
(* JSONPlanStore.delete_plan removes the file without holding the lock,    *)
(* which Windows refuses while anyone has it open and Unix allows.         *)
(*                                                                         *)
(* A name of the file system is told from the file it names: Files are     *)
(* inodes, path is the one the lock's name stands for.  Time is not        *)
(* modelled: a failed attempt may be the last one or not, up to a bound.   *)
(***************************************************************************)
EXTENDS FiniteSets, Naturals

CONSTANTS
    Sessions,     \* the with blocks of different processes or threads
    Files,        \* inodes the file system may use for the lock file
    NoFile,       \* no file: the name is free, or _fd is None
    Nobody,       \* the owner of a file nobody has locked
    MaxTries      \* attempts that fit in the timeout

ASSUME LockAssumption ==
    /\ NoFile \notin Files /\ Nobody \notin Sessions
    /\ MaxTries \in Nat \ {0}

VARIABLES
    os,       \* os.name, which never changes
    path,     \* the file plan_<id>.lock names
    fd,       \* _fd of each session's PlanLock
    owner,    \* the session the kernel has locked each file for
    pc,       \* where each session is
    tries     \* attempts it has made

vars == <<os, path, fd, owner, pc, tries>>

(* Outside; about to open; with the file open, about to lock it; inside;   *)
(* leaving, after LOCK_UN; dead.                                           *)
Places == {"out", "open", "flock", "held", "close", "dead"}

TypeOK ==
    /\ os \in {"nt", "posix"}
    /\ path \in Files \cup {NoFile}
    /\ fd \in [Sessions -> Files \cup {NoFile}]
    /\ owner \in [Files -> Sessions \cup {Nobody}]
    /\ pc \in [Sessions -> Places]
    /\ tries \in [Sessions -> 0..MaxTries]
    /\ \A s \in Sessions : fd[s] # NoFile <=> pc[s] \in {"flock", "held", "close"}

(* A lock file may be left from an earlier process.                        *)
Init ==
    /\ os \in {"nt", "posix"}
    /\ path \in Files \cup {NoFile}
    /\ fd = [s \in Sessions |-> NoFile]
    /\ owner = [f \in Files |-> Nobody]
    /\ pc = [s \in Sessions |-> "out"]
    /\ tries = [s \in Sessions |-> 0]

-----------------------------------------------------------------------------
Goto(s, place) == pc' = [pc EXCEPT ![s] = place]

Opened(f) == \E s \in Sessions : fd[s] = f

(* Closing a file gives up the lock its owner had on it.                   *)
CloseFd(s) == fd' = [fd EXCEPT ![s] = NoFile]
Unlocked(s) == [f \in Files |-> IF owner[f] = s THEN Nobody ELSE owner[f]]

(* acquire.                                                                *)
Ask(s) ==
    /\ pc[s] \in {"out", "dead"}
    /\ Goto(s, "open")
    /\ tries' = [tries EXCEPT ![s] = 1]
    /\ UNCHANGED <<os, path, fd, owner>>

(* After a failed attempt: time is up, and PlanLockTimeoutError is raised, *)
(* or the session sleeps 50 ms and tries again.                            *)
Again(s) ==
    \/ Goto(s, "out") /\ UNCHANGED tries
    \/ /\ tries[s] < MaxTries
       /\ Goto(s, "open")
       /\ tries' = [tries EXCEPT ![s] = @ + 1]

(* os.open with O_CREAT: the file of that name, or a new one.              *)
Open(s) ==
    /\ pc[s] = "open"
    /\ \E f \in Files :
        /\ IF path = NoFile THEN ~Opened(f) ELSE f = path
        /\ path' = f
        /\ fd' = [fd EXCEPT ![s] = f]
    /\ Goto(s, "flock")
    /\ UNCHANGED <<os, owner, tries>>

(* os.open raises.                                                         *)
OpenFails(s) ==
    /\ pc[s] = "open"
    /\ Again(s)
    /\ UNCHANGED <<os, path, fd, owner>>

(* Mutant of Lock: LOCK_SH instead of LOCK_EX.                             *)
LockShared(s) ==
    /\ pc[s] = "flock"
    /\ owner' = [owner EXCEPT ![fd[s]] = s]
    /\ Goto(s, "held")
    /\ UNCHANGED <<os, path, fd, tries>>

(* LOCK_EX | LOCK_NB, or LK_NBLCK, succeeds.                               *)
Lock(s) ==
    /\ pc[s] = "flock"
    /\ owner[fd[s]] = Nobody
    /\ owner' = [owner EXCEPT ![fd[s]] = s]
    /\ Goto(s, "held")
    /\ UNCHANGED <<os, path, fd, tries>>

(* Mutant of Refused: LOCK_NB is forgotten, and the call just waits.       *)
RefusedNever(s) ==
    /\ pc[s] = "flock"
    /\ owner[fd[s]] # Nobody
    /\ UNCHANGED vars

(* It raises at once: the file is closed.                                  *)
Refused(s) ==
    /\ pc[s] = "flock"
    /\ owner[fd[s]] # Nobody
    /\ CloseFd(s)
    /\ Again(s)
    /\ UNCHANGED <<os, path, owner>>

(* release: LOCK_UN, whose failure is ignored ...                          *)
Unlock(s) ==
    /\ pc[s] = "held"
    /\ owner' \in {owner, Unlocked(s)}
    /\ Goto(s, "close")
    /\ UNCHANGED <<os, path, fd, tries>>

(* Mutant of Close: _fd is not reset.                                      *)
CloseKeepingFd(s) ==
    /\ pc[s] = "close"
    /\ owner' = Unlocked(s)
    /\ Goto(s, "out")
    /\ UNCHANGED <<os, path, fd, tries>>

(* ... and close, which unlocks in any case.                               *)
Close(s) ==
    /\ pc[s] = "close"
    /\ CloseFd(s)
    /\ owner' = Unlocked(s)
    /\ Goto(s, "out")
    /\ UNCHANGED <<os, path, tries>>

(* Mutant of Crash: a lock that is a fact on disk outlives its process.    *)
CrashLocked(s) ==
    /\ pc[s] \in {"open", "flock", "held", "close"}
    /\ CloseFd(s)
    /\ Goto(s, "dead")
    /\ UNCHANGED <<os, path, tries, owner>>

(* The process dies, and the kernel closes its files.                      *)
Crash(s) ==
    /\ pc[s] \in {"open", "flock", "held", "close"}
    /\ CloseFd(s)
    /\ owner' = Unlocked(s)
    /\ Goto(s, "dead")
    /\ UNCHANGED <<os, path, tries>>

(* delete_plan removes the lock file, and does not mind if it cannot.      *)
Unlink ==
    /\ path # NoFile
    /\ os = "nt" => ~Opened(path)
    /\ path' = NoFile
    /\ UNCHANGED <<os, fd, owner, pc, tries>>

-----------------------------------------------------------------------------
Acquire(s) == Open(s) \/ OpenFails(s) \/ Lock(s) \/ Refused(s)

Next ==
    \/ \E s \in Sessions : Ask(s) \/ Acquire(s) \/ Unlock(s) \/ Close(s) \/ Crash(s)
    \/ Unlink

Spec == Init /\ [][Next]_vars

(* acquire never waits for anyone: open and lock return at once, and the   *)
(* sleep is 50 ms.  Nothing is assumed of whoever is inside.               *)
FairSpec == Spec /\ \A s \in Sessions : WF_vars(Acquire(s))

-----------------------------------------------------------------------------
(* Some session has a lock file open that the name no longer stands for.   *)
Torn == \E s \in Sessions : fd[s] # NoFile /\ fd[s] # path

(* Windows keeps the name and the file together.                           *)
NeverTornOnWindows == os = "nt" => ~Torn

(* "Process A holds lock; Process B receives PlanLockTimeoutError": two    *)
(* sessions are inside at once only on Unix, when delete_plan has removed  *)
(* the file one of them locked.                                            *)
OneHolder ==
    \A s, t \in Sessions : pc[s] = "held" /\ pc[t] = "held" /\ s # t =>
        os = "posix" /\ (fd[s] # path \/ fd[t] # path)

(* "A stale empty .lock file left on disk does not prevent acquisition",   *)
(* "crashing processes automatically release locks": an attempt is refused *)
(* only for a session that is alive and inside, or on its way out.         *)
RefusedOnlyByTheLiving ==
    [][\A s \in Sessions : pc[s] = "flock" /\ pc'[s] \in {"open", "out"} =>
          \E t \in Sessions \ {s} : fd[t] = fd[s] /\ pc[t] \in {"held", "close"}]_vars

(* acquire ends, with the lock or with PlanLockTimeoutError, whatever the  *)
(* session inside does.                                                    *)
AcquireEnds ==
    \A s \in Sessions : pc[s] = "open" ~> pc[s] \in {"held", "out", "dead"}

(* The sessions implement PlanMutex, as long as no file is torn from its   *)
(* name.                                                                   *)
Waiting == {s \in Sessions : pc[s] \in {"open", "flock"}}
Holders == {s \in Sessions : pc[s] = "held"}

Mutex == INSTANCE PlanMutex WITH waiting <- Waiting, holders <- Holders

ImplementsMutex == Mutex!Init /\ [][Mutex!Next \/ Torn]_<<Waiting, Holders>>
=============================================================================
