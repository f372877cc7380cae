---------------------------- MODULE EcosystemRpc ----------------------------
(***************************************************************************)
(* public.execute_ecosystem_action (migration 012) as the database runs    *)
(* it: every call is one READ COMMITTED transaction whose statements       *)
(* interleave with those of other calls by the same user.  The unique      *)
(* index on (user_id, idempotency_key) makes an INSERT wait for an         *)
(* uncommitted row with the same key; SELECT ... FOR UPDATE makes the      *)
(* writers of the user's DayMentor row take turns.  A transaction may be   *)
(* rolled back at any statement.                                           *)
(***************************************************************************)
EXTENDS FiniteSets

CONSTANTS
    Txs,           \* calls of the RPC by one user, each a transaction
    Keys, NoKey,   \* idempotency keys, and the absence of one
    Payloads,      \* an action type with its payload (and so its fingerprint)
    Refused,       \* payloads the call's "strict validation" turns down
    Unsupported,   \* payloads whose action type is not on the allowlist
    TaskPayloads,  \* payloads of daymentor.create_task
    NoEntry, NoTx

ASSUME RpcAssumption ==
    /\ NoKey \notin Keys
    /\ NoTx \notin Txs
    /\ Refused \subseteq Payloads
    /\ Unsupported \subseteq Refused
    /\ TaskPayloads \subseteq Payloads \ Unsupported
    /\ NoEntry \notin [status : {"completed", "failed"}, payload : Payloads]

VARIABLES
    req,       \* the arguments of each call
    pc,        \* the statement each call is about to run
    rows,      \* committed rows of ecosystem_commands, by key
    claim,     \* the transaction holding an uncommitted row for a key
    hasRow,    \* whether the user has a committed row of daymentor_user_data
    tasks,     \* the tasks in that row, by the call that added them
    rowLock,   \* the transaction that inserted or locked that row
    snap,      \* v_dm_tasks of each transaction
    applied,   \* history: transactions that committed an effect
    reply      \* what each call returned

vars == <<req, pc, rows, claim, hasRow, tasks, rowLock, snap, applied, reply>>

Ledger == INSTANCE ActionLedger WITH Requests <- Txs, ledger <- rows

Steps == {"start", "claim", "work", "ensure", "lock", "commit", "done"}

Key(t) == req[t].key
Payload(t) == req[t].payload
Keyed(t) == Key(t) \in Keys

TypeOK ==
    /\ req \in [Txs -> [key : Keys \cup {NoKey}, payload : Payloads]]
    /\ pc \in [Txs -> Steps]
    /\ rows \in [Keys -> Ledger!Entry \cup {NoEntry}]
    /\ claim \in [Keys -> Txs \cup {NoTx}]
    /\ hasRow \in BOOLEAN
    /\ tasks \subseteq Txs
    /\ rowLock \in Txs \cup {NoTx}
    /\ snap \in [Txs -> SUBSET Txs]
    /\ applied \subseteq Txs
    /\ reply \in [Txs -> Ledger!Replies \cup {"none"}]

Init ==
    /\ req \in [Txs -> [key : Keys \cup {NoKey}, payload : Payloads]]
    /\ pc = [t \in Txs |-> "start"]
    /\ rows = [k \in Keys |-> NoEntry]
    /\ claim = [k \in Keys |-> NoTx]
    /\ hasRow \in BOOLEAN
    /\ tasks = {}
    /\ rowLock = NoTx
    /\ snap = [t \in Txs |-> {}]
    /\ applied = {}
    /\ reply = [t \in Txs |-> "none"]

-----------------------------------------------------------------------------
Goto(t, step) == pc' = [pc EXCEPT ![t] = step]

Return(t, ans) ==
    /\ Goto(t, "done")
    /\ reply' = [reply EXCEPT ![t] = ans]

(* The end of a transaction, committed or not: its locks are gone.         *)
ReleaseLocks(t) ==
    /\ claim' = [k \in Keys |-> IF claim[k] = t THEN NoTx ELSE claim[k]]
    /\ rowLock' = IF rowLock = t THEN NoTx ELSE rowLock

(* An action type off the allowlist: a failed row is inserted before the   *)
(* key is even looked up, so a known key raises unique_violation and rolls *)
(* the call back.                                                          *)
RejectUnsupported(t) ==
    /\ pc[t] = "start"
    /\ Payload(t) \in Unsupported
    /\ IF ~Keyed(t) THEN Return(t, "error") /\ UNCHANGED rows
       ELSE /\ claim[Key(t)] = NoTx
            /\ IF rows[Key(t)] = NoEntry
               THEN /\ rows' = [rows EXCEPT ![Key(t)] = Ledger!Settled(Payload(t))]
                    /\ Return(t, "error")
               ELSE Return(t, "aborted") /\ UNCHANGED rows
    /\ UNCHANGED <<req, claim, hasRow, tasks, rowLock, snap, applied>>

(* Mutant of Lookup: a row found by its key is replayed without comparing  *)
(* the request fingerprints.                                               *)
LookupIgnoringFingerprint(t) ==
    /\ pc[t] = "start"
    /\ Payload(t) \notin Unsupported
    /\ IF Keyed(t) /\ rows[Key(t)] # NoEntry
       THEN Return(t, IF rows[Key(t)].status = "completed" THEN "success" ELSE "error")
       ELSE Goto(t, IF Keyed(t) THEN "claim" ELSE "work") /\ UNCHANGED reply
    /\ UNCHANGED <<req, rows, claim, hasRow, tasks, rowLock, snap, applied>>

(* Mutant of Lookup: the call is answered with the status of the row.      *)
LookupReturningStatus(t) ==
    /\ pc[t] = "start"
    /\ Payload(t) \notin Unsupported
    /\ IF Keyed(t) /\ rows[Key(t)] # NoEntry
       THEN Return(t, rows[Key(t)].status)
       ELSE Goto(t, IF Keyed(t) THEN "claim" ELSE "work") /\ UNCHANGED reply
    /\ UNCHANGED <<req, rows, claim, hasRow, tasks, rowLock, snap, applied>>

(* The idempotency check: a committed row with this key answers the call.  *)
(* A row's "pending" status is never committed, so it is never found.      *)
Lookup(t) ==
    /\ pc[t] = "start"
    /\ Payload(t) \notin Unsupported
    /\ IF Keyed(t) /\ rows[Key(t)] # NoEntry
       THEN Return(t, Ledger!Verdict(rows[Key(t)], Payload(t)))
       ELSE Goto(t, IF Keyed(t) THEN "claim" ELSE "work") /\ UNCHANGED reply
    /\ UNCHANGED <<req, rows, claim, hasRow, tasks, rowLock, snap, applied>>

(* Mutant of Claim: no unique index, so the INSERT never finds the row of  *)
(* a call that ran in between.                                             *)
ClaimWithoutIndex(t) ==
    /\ pc[t] = "claim"
    /\ claim' = [claim EXCEPT ![Key(t)] = t]
    /\ Goto(t, "work")
    /\ UNCHANGED <<req, rows, hasRow, tasks, rowLock, snap, applied, reply>>

(* Mutant of Claim: the INSERT does not wait for an uncommitted row, which *)
(* is how ON CONFLICT DO NOTHING against a snapshot would behave.          *)
ClaimWithoutWaiting(t) ==
    /\ pc[t] = "claim"
    /\ IF rows[Key(t)] = NoEntry
       THEN /\ claim' = [claim EXCEPT ![Key(t)] = t]
            /\ Goto(t, "work")
            /\ UNCHANGED reply
       ELSE Return(t, Ledger!Verdict(rows[Key(t)], Payload(t))) /\ UNCHANGED claim
    /\ UNCHANGED <<req, rows, hasRow, tasks, rowLock, snap, applied>>

(* INSERT the 'pending' row.  It waits while another transaction holds an  *)
(* uncommitted row with the key; if that one committed, the exception      *)
(* branch answers from the row it left, and calls a failed one pending.    *)
Claim(t) ==
    /\ pc[t] = "claim"
    /\ claim[Key(t)] = NoTx
    /\ IF rows[Key(t)] = NoEntry
       THEN /\ claim' = [claim EXCEPT ![Key(t)] = t]
            /\ Goto(t, "work")
            /\ UNCHANGED reply
       ELSE LET v == Ledger!Verdict(rows[Key(t)], Payload(t))
            IN  Return(t, IF v = "error" THEN "pending" ELSE v) /\ UNCHANGED claim
    /\ UNCHANGED <<req, rows, hasRow, tasks, rowLock, snap, applied>>

(* Strict validation, after the key is claimed: a refusal settles the key. *)
Refuse(t) ==
    /\ pc[t] = "work"
    /\ Payload(t) \in Refused
    /\ rows' = IF Keyed(t) THEN [rows EXCEPT ![Key(t)] = Ledger!Settled(Payload(t))] ELSE rows
    /\ ReleaseLocks(t)
    /\ Return(t, "error")
    /\ UNCHANGED <<req, hasRow, tasks, snap, applied>>

(* A valid payload: a task joins the user's DayMentor row, a match or a    *)
(* simulation is a row of its own.                                         *)
Accept(t) ==
    /\ pc[t] = "work"
    /\ Payload(t) \notin Refused
    /\ Goto(t, IF Payload(t) \in TaskPayloads THEN "ensure" ELSE "commit")
    /\ UNCHANGED <<req, rows, claim, hasRow, tasks, rowLock, snap, applied, reply>>

(* INSERT the base DayMentor row ON CONFLICT DO NOTHING: the first writer  *)
(* holds the new row until it commits, and a second one waits for it.      *)
EnsureRow(t) ==
    /\ pc[t] = "ensure"
    /\ ~hasRow => rowLock = NoTx
    /\ rowLock' = IF hasRow THEN rowLock ELSE t
    /\ Goto(t, "lock")
    /\ UNCHANGED <<req, rows, claim, hasRow, tasks, snap, applied, reply>>

(* Mutant of LockRow: the row is read without FOR UPDATE.                  *)
ReadRowUnlocked(t) ==
    /\ pc[t] = "lock"
    /\ snap' = [snap EXCEPT ![t] = tasks]
    /\ Goto(t, "commit")
    /\ UNCHANGED <<req, rows, claim, hasRow, tasks, rowLock, applied, reply>>

(* Mutant of LockRow: the read locks the row but waits for nobody who      *)
(* holds it, and then waits for its own lock to be free.                   *)
LockRowTwice(t) ==
    /\ pc[t] = "lock"
    /\ rowLock = NoTx
    /\ rowLock' = t
    /\ snap' = [snap EXCEPT ![t] = tasks]
    /\ Goto(t, "commit")
    /\ UNCHANGED <<req, rows, claim, hasRow, tasks, applied, reply>>

(* SELECT data ... FOR UPDATE.                                             *)
LockRow(t) ==
    /\ pc[t] = "lock"
    /\ rowLock \in {NoTx, t}
    /\ rowLock' = t
    /\ snap' = [snap EXCEPT ![t] = tasks]
    /\ Goto(t, "commit")
    /\ UNCHANGED <<req, rows, claim, hasRow, tasks, applied, reply>>

(* The task is appended to what was read, the command row becomes          *)
(* 'completed', and both are committed together.                           *)
Commit(t) ==
    /\ pc[t] = "commit"
    /\ tasks' = IF Payload(t) \in TaskPayloads THEN snap[t] \cup {t} ELSE tasks
    /\ hasRow' = (hasRow \/ Payload(t) \in TaskPayloads)
    /\ rows' = IF Keyed(t) THEN [rows EXCEPT ![Key(t)] = Ledger!Settled(Payload(t))] ELSE rows
    /\ applied' = applied \cup {t}
    /\ ReleaseLocks(t)
    /\ Return(t, "success")
    /\ UNCHANGED <<req, snap>>

(* The database or the connection gives the transaction up (a statement    *)
(* timeout, a dropped connection): everything it wrote is rolled back.     *)
Abort(t) ==
    /\ pc[t] # "done"
    /\ ReleaseLocks(t)
    /\ Return(t, "aborted")
    /\ UNCHANGED <<req, rows, hasRow, tasks, snap, applied>>

Step(t) ==
    \/ RejectUnsupported(t)
    \/ Lookup(t)
    \/ Claim(t)
    \/ Refuse(t)
    \/ Accept(t)
    \/ EnsureRow(t)
    \/ LockRow(t)
    \/ Commit(t)

(* Every call has returned.                                                *)
Finished == (\A t \in Txs : pc[t] = "done") /\ UNCHANGED vars

Next == (\E t \in Txs : Step(t) \/ Abort(t)) \/ Finished

Spec == Init /\ [][Next]_vars

(* The database runs every call: it does not promise to abort any.         *)
FairSpec == Spec /\ \A t \in Txs : WF_vars(Step(t))

-----------------------------------------------------------------------------
(* However calls with one idempotency key interleave, at most one of them  *)
(* commits an effect: lookup, claim and unique_violation together.         *)
AtMostOnceEffect ==
    \A t, u \in applied : Keyed(t) /\ Key(t) = Key(u) => t = u

(* A call that is told "success" can point to a committed effect of its    *)
(* own key and its own payload, its own or that of the call it replays.    *)
SuccessIsBacked ==
    \A t \in Txs : reply[t] = "success" =>
        \E u \in applied : Key(u) = Key(t) /\ Payload(u) = Payload(t) /\ (~Keyed(t) => u = t)

(* No task a committed call added to the user's DayMentor row is lost to   *)
(* another call that read the row before and wrote it after.               *)
NoLostTask ==
    \A t \in applied : Payload(t) \in TaskPayloads => hasRow /\ t \in tasks

(* The row of a key says whether its effect happened: completed with       *)
(* exactly the effect it names, failed with none.                          *)
LedgerMatchesEffects ==
    \A k \in Keys :
        LET done == {t \in applied : Key(t) = k}
        IN  IF rows[k] # NoEntry /\ rows[k].status = "completed"
            THEN \E t \in done : Payload(t) = rows[k].payload
            ELSE done = {}

(* The detailed transactions implement the atomic ledger.                  *)
ImplementsLedger == Ledger!LedgerSpec

(* Every call returns, whatever locks the others hold.                     *)
EveryCallReturns == \A t \in Txs : <>(pc[t] = "done")
=============================================================================
