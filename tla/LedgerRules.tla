----------------------------- MODULE LedgerRules -----------------------------
(***************************************************************************)
(* How a row of public.ecosystem_commands settles an idempotency key and   *)
(* what it answers afterwards.  An action type with its payload is one     *)
(* value, and stands for its own request fingerprint: SHA-256 over their   *)
(* canonical text is taken to be injective.                                *)
(***************************************************************************)
CONSTANTS
    Payloads,    \* an action type with its payload
    Refused      \* payloads the server's own validation turns down

Entry == [status : {"completed", "failed"}, payload : Payloads]

(* The row a payload leaves behind when it settles a fresh key.            *)
Settled(p) == [status |-> IF p \in Refused THEN "failed" ELSE "completed", payload |-> p]

(* What a settled row answers to a request that finds it.                  *)
Verdict(e, p) ==
    IF e.payload # p THEN "conflict"
    ELSE IF e.status = "completed" THEN "success" ELSE "error"
=============================================================================
