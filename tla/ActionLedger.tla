---------------------------- MODULE ActionLedger ----------------------------
(***************************************************************************)
(* What public.execute_ecosystem_action promises its callers, without its  *)
(* transactions: every request is answered in one step against a ledger of *)
(* idempotency keys.  The first request that settles a key decides what    *)
(* the key means for ever; a later one with the same payload is told the   *)
(* same outcome and one with another payload is told it conflicts.         *)
(*                                                                         *)
(* EcosystemRpc implements this module, and GoalPlanSessions talks to a    *)
(* server that behaves like it.                                            *)
(***************************************************************************)
EXTENDS LedgerRules

CONSTANTS
    Requests,    \* calls of the RPC by one user
    Keys,        \* idempotency keys: ecosystem_commands is unique on (user_id, key)
    NoKey,       \* p_idempotency_key is NULL
    NoEntry      \* no committed row for a key

VARIABLES
    req,         \* what each request asks for: its key and its payload
    ledger,      \* the committed row of each key
    applied,     \* history: the requests whose effect was committed
    reply        \* the answer each request got

ledgerVars == <<req, ledger, applied, reply>>

Replies == {"success", "error", "conflict", "pending", "aborted"}

-----------------------------------------------------------------------------
LedgerInit ==
    /\ req \in [Requests -> [key : Keys \cup {NoKey}, payload : Payloads]]
    /\ ledger = [k \in Keys |-> NoEntry]
    /\ applied = {}
    /\ reply = [r \in Requests |-> "none"]

Answer(r, ans) ==
    /\ reply[r] = "none"
    /\ reply' = [reply EXCEPT ![r] = ans]
    /\ req' = req

(* The key is new: the request settles it, for better or worse.            *)
Settle(r) ==
    /\ req[r].key \in Keys
    /\ ledger[req[r].key] = NoEntry
    /\ ledger' = [ledger EXCEPT ![req[r].key] = Settled(req[r].payload)]
    /\ applied' = IF req[r].payload \in Refused THEN applied ELSE applied \cup {r}
    /\ Answer(r, IF req[r].payload \in Refused THEN "error" ELSE "success")

(* The key was settled before: nothing happens twice.  A request that lost *)
(* a race to a request that failed is told "pending" instead.              *)
Replay(r) ==
    /\ req[r].key \in Keys
    /\ ledger[req[r].key] # NoEntry
    /\ \/ Answer(r, Verdict(ledger[req[r].key], req[r].payload))
       \/ /\ Verdict(ledger[req[r].key], req[r].payload) = "error"
          /\ Answer(r, "pending")
    /\ UNCHANGED <<ledger, applied>>

(* Without a key there is nothing to look up and nothing to remember.      *)
Unkeyed(r) ==
    /\ req[r].key = NoKey
    /\ applied' = IF req[r].payload \in Refused THEN applied ELSE applied \cup {r}
    /\ Answer(r, IF req[r].payload \in Refused THEN "error" ELSE "success")
    /\ UNCHANGED ledger

(* The transaction is rolled back, leaving no trace.                       *)
Fail(r) ==
    /\ Answer(r, "aborted")
    /\ UNCHANGED <<ledger, applied>>

LedgerNext == \E r \in Requests : Settle(r) \/ Replay(r) \/ Unkeyed(r) \/ Fail(r)

LedgerSpec == LedgerInit /\ [][LedgerNext]_ledgerVars
=============================================================================
