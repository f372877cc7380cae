------------------------- MODULE EcosystemRpcProofs -------------------------
(***************************************************************************)
(* Proofs about EcosystemRpc, for any set of calls, keys and payloads.     *)
(*                                                                         *)
(* Two inductive invariants carry everything.  KeyInv ties the unique      *)
(* index to the calls: whoever is past the INSERT of the 'pending' row     *)
(* owns its key, and an owned key has no committed row yet.  RowInv ties   *)
(* the FOR UPDATE lock to what its holder read.  The invariants of the     *)
(* runs follow from them, and KeyInv is also what makes every step a step  *)
(* of ActionLedger or a stutter.                                           *)
(***************************************************************************)
EXTENDS EcosystemRpc, TLAPS

(* The statements between the claim of a key and the end of a call.        *)
Owning == {"work", "ensure", "lock", "commit"}

IndexInv ==
    /\ \A t \in Txs : pc[t] = "claim" => Keyed(t)
    /\ \A t \in Txs : pc[t] \in Owning /\ Keyed(t) => claim[Key(t)] = t
    /\ \A k \in Keys : claim[k] # NoTx =>
           /\ rows[k] = NoEntry
           /\ Key(claim[k]) = k
           /\ pc[claim[k]] \in Owning

EffectInv ==
    /\ \A t \in Txs : pc[t] \in {"ensure", "lock", "commit"} => Payload(t) \notin Refused
    /\ \A t \in applied : pc[t] = "done"
    /\ \A t \in Txs : pc[t] # "done" => reply[t] = "none"
    /\ LedgerMatchesEffects
    /\ AtMostOnceEffect

KeyInv == TypeOK /\ IndexInv /\ EffectInv

RowInv ==
    /\ \A t \in Txs : pc[t] \in {"ensure", "lock"} => Payload(t) \in TaskPayloads
    /\ \A t \in Txs : pc[t] = "lock" /\ ~hasRow => rowLock = t
    /\ \A t \in Txs : pc[t] = "commit" /\ Payload(t) \in TaskPayloads =>
           rowLock = t /\ snap[t] = tasks
    /\ NoLostTask

-----------------------------------------------------------------------------
(* A settled row is a row: the type of what Settled returns.               *)
LEMMA SettledType ==
    ASSUME NEW p \in Payloads
    PROVE  /\ Ledger!Settled(p) \in Ledger!Entry
           /\ Ledger!Settled(p) # NoEntry
           /\ Ledger!Settled(p).payload = p
           /\ Ledger!Settled(p).status = IF p \in Refused THEN "failed" ELSE "completed"
  BY RpcAssumption DEF Ledger!Settled, Ledger!Entry

(* Verdict only gives answers a call may return, and never "none".         *)
LEMMA VerdictType ==
    ASSUME NEW e \in Ledger!Entry, NEW p \in Payloads
    PROVE  /\ Ledger!Verdict(e, p) \in {"conflict", "success", "error"}
           /\ Ledger!Verdict(e, p) = "success" => e.status = "completed" /\ e.payload = p
  BY DEF Ledger!Verdict, Ledger!Entry

(* What the arguments and the row of a call may be.                        *)
LEMMA ArgumentTypes ==
    ASSUME TypeOK, NEW t \in Txs
    PROVE  /\ Payload(t) \in Payloads
           /\ Key(t) \in Keys \cup {NoKey}
           /\ Keyed(t) => rows[Key(t)] \in Ledger!Entry \cup {NoEntry}
           /\ Keyed(t) /\ rows[Key(t)] # NoEntry =>
                  Ledger!Verdict(rows[Key(t)], Payload(t)) \in {"conflict", "success", "error"}
  BY VerdictType DEF TypeOK, Payload, Key, Keyed

(* Returning an answer keeps the two variables it writes in their types.   *)
LEMMA ReturnType ==
    ASSUME TypeOK, NEW t \in Txs, NEW ans \in Ledger!Replies, Return(t, ans)
    PROVE  pc' \in [Txs -> Steps] /\ reply' \in [Txs -> Ledger!Replies \cup {"none"}]
  BY DEF TypeOK, Return, Goto, Steps

(* No statement of a call writes anything its column or local cannot hold. *)
LEMMA TypeStep == TypeOK /\ [Next]_vars => TypeOK'
<1> SUFFICES ASSUME TypeOK, [Next]_vars PROVE TypeOK'
  OBVIOUS
<1>1. CASE UNCHANGED vars
  BY <1>1 DEF vars, TypeOK
<1>2. ASSUME NEW t \in Txs, RejectUnsupported(t) PROVE TypeOK'
  <2>1. pc' \in [Txs -> Steps] /\ reply' \in [Txs -> Ledger!Replies \cup {"none"}]
    BY <1>2, ReturnType DEF RejectUnsupported, Ledger!Replies
  <2>2. rows' \in [Keys -> Ledger!Entry \cup {NoEntry}]
    <3> DEFINE e == Ledger!Settled(Payload(t))
    <3>1. e \in Ledger!Entry
      BY ArgumentTypes, SettledType
    <3>2. rows' = rows \/ rows' = [rows EXCEPT ![Key(t)] = e]
      BY <1>2 DEF RejectUnsupported
    <3> HIDE DEF e
    <3> QED BY <3>1, <3>2 DEF TypeOK
  <2> QED BY <1>2, <2>1, <2>2 DEF TypeOK, RejectUnsupported
<1>3. ASSUME NEW t \in Txs, Lookup(t) PROVE TypeOK'
  <2>1. CASE Keyed(t) /\ rows[Key(t)] # NoEntry
    <3> DEFINE v == Ledger!Verdict(rows[Key(t)], Payload(t))
    <3>1. v \in Ledger!Replies
      BY <2>1, ArgumentTypes DEF Ledger!Replies
    <3>2. Return(t, v)
      BY <1>3, <2>1 DEF Lookup
    <3> HIDE DEF v
    <3> QED BY <1>3, <3>1, <3>2, ReturnType DEF TypeOK, Lookup
  <2>2. CASE ~ (Keyed(t) /\ rows[Key(t)] # NoEntry)
    BY <1>3, <2>2 DEF TypeOK, Lookup, Goto, Steps
  <2> QED BY <2>1, <2>2
<1>4. ASSUME NEW t \in Txs, Claim(t) PROVE TypeOK'
  <2>1. CASE rows[Key(t)] = NoEntry
    BY <1>4, <2>1 DEF TypeOK, Claim, Goto, Steps
  <2>2. CASE rows[Key(t)] # NoEntry
    <3> DEFINE v == Ledger!Verdict(rows[Key(t)], Payload(t))
               ans == IF v = "error" THEN "pending" ELSE v
    <3>1. ans \in Ledger!Replies
      BY DEF Ledger!Verdict, Ledger!Replies
    <3>2. Return(t, ans) /\ claim' = claim
      BY <1>4, <2>2 DEF Claim
    <3> HIDE DEF ans
    <3> QED BY <1>4, <3>1, <3>2, ReturnType DEF TypeOK, Claim
  <2> QED BY <2>1, <2>2
<1>5. ASSUME NEW t \in Txs, Refuse(t) PROVE TypeOK'
  BY <1>5, SettledType DEF TypeOK, Refuse, ReleaseLocks, Return, Goto, Steps, Keyed, Key, Payload, Ledger!Replies
<1>6. ASSUME NEW t \in Txs, Accept(t) PROVE TypeOK'
  BY <1>6 DEF TypeOK, Accept, Goto, Steps
<1>7. ASSUME NEW t \in Txs, EnsureRow(t) PROVE TypeOK'
  BY <1>7 DEF TypeOK, EnsureRow, Goto, Steps
<1>8. ASSUME NEW t \in Txs, LockRow(t) PROVE TypeOK'
  BY <1>8 DEF TypeOK, LockRow, Goto, Steps
<1>9. ASSUME NEW t \in Txs, Commit(t) PROVE TypeOK'
  BY <1>9, SettledType DEF TypeOK, Commit, ReleaseLocks, Return, Goto, Steps, Keyed, Key, Payload, Ledger!Replies
<1>10. ASSUME NEW t \in Txs, Abort(t) PROVE TypeOK'
  BY <1>10 DEF TypeOK, Abort, ReleaseLocks, Return, Goto, Steps, Ledger!Replies
<1> QED
  BY <1>1, <1>2, <1>3, <1>4, <1>5, <1>6, <1>7, <1>8, <1>9, <1>10 DEF Next, Step, Finished

(* Every variable stays in its type, whatever the calls ask and however    *)
(* their statements interleave.                                            *)
THEOREM TypeCorrect == Spec => []TypeOK
<1>1. Init => TypeOK
  BY RpcAssumption DEF Init, TypeOK, Steps, Ledger!Replies
<1>2. TypeOK /\ [Next]_vars => TypeOK'
  BY TypeStep
<1> QED BY <1>1, <1>2, PTL DEF Spec

-----------------------------------------------------------------------------
(* The index: a key is owned by at most one running call, and a key that   *)
(* is owned has no committed row.                                          *)
LEMMA IndexStep == TypeOK /\ IndexInv /\ [Next]_vars => IndexInv'
<1> SUFFICES ASSUME TypeOK, IndexInv, [Next]_vars PROVE IndexInv'
  OBVIOUS
<1> USE RpcAssumption
<1>1. CASE UNCHANGED vars
  BY <1>1 DEF vars, IndexInv, Key, Keyed, Payload
<1>2. ASSUME NEW t \in Txs, RejectUnsupported(t) PROVE IndexInv'
  BY <1>2 DEF RejectUnsupported, Return, Goto, TypeOK, IndexInv, Owning, Key, Keyed, Payload
<1>3. ASSUME NEW t \in Txs, Lookup(t) PROVE IndexInv'
  BY <1>3 DEF Lookup, Return, Goto, TypeOK, IndexInv, Owning, Key, Keyed, Payload
<1>4. ASSUME NEW t \in Txs, Claim(t) PROVE IndexInv'
  <2>1. Keyed(t) /\ claim[Key(t)] = NoTx
    BY <1>4 DEF Claim, IndexInv
  <2>2. CASE rows[Key(t)] = NoEntry
    <3>1. /\ claim' = [claim EXCEPT ![Key(t)] = t]
          /\ pc' = [pc EXCEPT ![t] = "work"]
          /\ UNCHANGED <<req, rows>>
      BY <1>4, <2>2 DEF Claim, Goto
    <3> QED BY <2>1, <2>2, <3>1 DEF TypeOK, IndexInv, Owning, Key, Keyed
  <2>3. CASE rows[Key(t)] # NoEntry
    <3>1. /\ pc' = [pc EXCEPT ![t] = "done"]
          /\ UNCHANGED <<req, rows, claim>>
      BY <1>4, <2>3 DEF Claim, Return, Goto
    <3>2. pc[t] = "claim"
      BY <1>4 DEF Claim
    <3> QED BY <2>1, <2>3, <3>1, <3>2 DEF TypeOK, IndexInv, Owning, Key, Keyed
  <2> QED BY <2>2, <2>3
<1>5. ASSUME NEW t \in Txs, Refuse(t) PROVE IndexInv'
  BY <1>5 DEF Refuse, ReleaseLocks, Return, Goto, TypeOK, IndexInv, Owning, Key, Keyed, Payload
<1>6. ASSUME NEW t \in Txs, Accept(t) PROVE IndexInv'
  BY <1>6 DEF Accept, Goto, TypeOK, IndexInv, Owning, Key, Keyed, Payload
<1>7. ASSUME NEW t \in Txs, EnsureRow(t) PROVE IndexInv'
  BY <1>7 DEF EnsureRow, Goto, TypeOK, IndexInv, Owning, Key, Keyed, Payload
<1>8. ASSUME NEW t \in Txs, LockRow(t) PROVE IndexInv'
  BY <1>8 DEF LockRow, Goto, TypeOK, IndexInv, Owning, Key, Keyed, Payload
<1>9. ASSUME NEW t \in Txs, Commit(t) PROVE IndexInv'
  BY <1>9 DEF Commit, ReleaseLocks, Return, Goto, TypeOK, IndexInv, Owning, Key, Keyed, Payload
<1>10. ASSUME NEW t \in Txs, Abort(t) PROVE IndexInv'
  BY <1>10 DEF Abort, ReleaseLocks, Return, Goto, TypeOK, IndexInv, Owning, Key, Keyed, Payload
<1> QED
  BY <1>1, <1>2, <1>3, <1>4, <1>5, <1>6, <1>7, <1>8, <1>9, <1>10 DEF Next, Step, Finished

(* What a statement leaves alone, the effects' invariant does not notice:  *)
(* a step of one call that commits nothing and settles no key.             *)
LEMMA QuietEffect ==
    ASSUME TypeOK, EffectInv, NEW t \in Txs, pc[t] # "done",
           UNCHANGED <<req, rows, applied>>,
           NEW to \in Steps, pc' = [pc EXCEPT ![t] = to],
           to \in {"ensure", "lock", "commit"} => Payload(t) \notin Refused,
           NEW ans, reply' = [reply EXCEPT ![t] = ans],
           to # "done" => ans = "none"
    PROVE  EffectInv'
  BY DEF TypeOK, EffectInv, LedgerMatchesEffects, AtMostOnceEffect, Key, Keyed, Payload

(* The effects: the committed row of a key and the calls that applied      *)
(* their effect under it stay in step.                                     *)
LEMMA EffectStep == TypeOK /\ IndexInv /\ EffectInv /\ [Next]_vars => EffectInv'
<1> SUFFICES ASSUME TypeOK, IndexInv, EffectInv, [Next]_vars PROVE EffectInv'
  OBVIOUS
<1>0. \A t \in Txs : pc[t] # "done" => reply = [reply EXCEPT ![t] = "none"]
  BY DEF TypeOK, EffectInv
<1>1. CASE UNCHANGED vars
  BY <1>1 DEF vars, EffectInv, LedgerMatchesEffects, AtMostOnceEffect, Key, Keyed, Payload
<1>2. ASSUME NEW t \in Txs, RejectUnsupported(t) PROVE EffectInv'
  <2>1. CASE rows' = rows
    <3>1. PICK ans \in Ledger!Replies : Return(t, ans)
      BY <1>2 DEF RejectUnsupported, Ledger!Replies
    <3> QED BY <1>2, <2>1, <3>1, QuietEffect DEF RejectUnsupported, Return, Goto, Steps
  <2>2. CASE rows' # rows
    <3> DEFINE e == Ledger!Settled(Payload(t))
    <3>1. /\ Keyed(t) /\ rows[Key(t)] = NoEntry
          /\ rows' = [rows EXCEPT ![Key(t)] = e]
          /\ Return(t, "error")
          /\ UNCHANGED <<req, applied>>
      BY <1>2, <2>2 DEF RejectUnsupported
    <3>2. e.status = "failed"
      BY <1>2, SettledType, ArgumentTypes, RpcAssumption DEF RejectUnsupported
    <3> HIDE DEF e
    <3>3. LedgerMatchesEffects'
      BY <3>1, <3>2 DEF TypeOK, EffectInv, LedgerMatchesEffects, Key, Keyed, Payload
    <3>4. AtMostOnceEffect'
      BY <3>1 DEF EffectInv, AtMostOnceEffect, Key, Keyed
    <3> QED BY <3>1, <3>3, <3>4 DEF TypeOK, EffectInv, Return, Goto, Payload
  <2> QED BY <2>1, <2>2
<1>3. ASSUME NEW t \in Txs, Lookup(t) PROVE EffectInv'
  <2>1. CASE Keyed(t) /\ rows[Key(t)] # NoEntry
    BY <1>3, <2>1, QuietEffect DEF Lookup, Return, Goto, Steps
  <2>2. CASE ~ (Keyed(t) /\ rows[Key(t)] # NoEntry)
    BY <1>0, <1>3, <2>2, QuietEffect DEF Lookup, Goto, Steps
  <2> QED BY <2>1, <2>2
<1>4. ASSUME NEW t \in Txs, Claim(t) PROVE EffectInv'
  <2>1. CASE rows[Key(t)] # NoEntry
    BY <1>4, <2>1, QuietEffect DEF Claim, Return, Goto, Steps
  <2>2. CASE rows[Key(t)] = NoEntry
    BY <1>0, <1>4, <2>2, QuietEffect DEF Claim, Goto, Steps
  <2> QED BY <2>1, <2>2
<1>5. ASSUME NEW t \in Txs, Refuse(t) PROVE EffectInv'
  <2> DEFINE e == Ledger!Settled(Payload(t))
  <2>1. e.status = "failed"
    BY <1>5, SettledType, ArgumentTypes DEF Refuse
  <2>2. /\ rows' = IF Keyed(t) THEN [rows EXCEPT ![Key(t)] = e] ELSE rows
        /\ Return(t, "error")
        /\ UNCHANGED <<req, applied>>
    BY <1>5 DEF Refuse
  <2>3. Keyed(t) => rows[Key(t)] = NoEntry
    BY <1>5, RpcAssumption DEF Refuse, TypeOK, IndexInv, Owning, Keyed
  <2> HIDE DEF e
  <2>4. LedgerMatchesEffects'
    BY <2>1, <2>2, <2>3 DEF TypeOK, EffectInv, LedgerMatchesEffects, Key, Keyed, Payload
  <2>5. AtMostOnceEffect'
    BY <2>2 DEF EffectInv, AtMostOnceEffect, Key, Keyed
  <2> QED BY <2>2, <2>4, <2>5 DEF TypeOK, EffectInv, Return, Goto, Payload
<1>6. ASSUME NEW t \in Txs, Accept(t) PROVE EffectInv'
  BY <1>0, <1>6, QuietEffect DEF Accept, Goto, Steps
<1>7. ASSUME NEW t \in Txs, EnsureRow(t) PROVE EffectInv'
  BY <1>0, <1>7, QuietEffect DEF EnsureRow, Goto, Steps, EffectInv
<1>8. ASSUME NEW t \in Txs, LockRow(t) PROVE EffectInv'
  BY <1>0, <1>8, QuietEffect DEF LockRow, Goto, Steps, EffectInv
<1>9. ASSUME NEW t \in Txs, Commit(t) PROVE EffectInv'
  <2> DEFINE e == Ledger!Settled(Payload(t))
  <2>1. e.status = "completed" /\ e.payload = Payload(t) /\ e # NoEntry
    BY <1>9, SettledType, ArgumentTypes DEF Commit, EffectInv
  <2>2. /\ rows' = IF Keyed(t) THEN [rows EXCEPT ![Key(t)] = e] ELSE rows
        /\ Return(t, "success")
        /\ applied' = applied \cup {t}
        /\ req' = req
    BY <1>9 DEF Commit
  <2>3. Keyed(t) => rows[Key(t)] = NoEntry
    BY <1>9, RpcAssumption DEF Commit, TypeOK, IndexInv, Owning, Keyed
  <2>4. Keyed(t) => \A u \in applied : Key(u) # Key(t)
    BY <2>3 DEF EffectInv, LedgerMatchesEffects, Keyed
  <2> HIDE DEF e
  <2>5. LedgerMatchesEffects'
    BY <2>1, <2>2, <2>4 DEF TypeOK, EffectInv, LedgerMatchesEffects, Key, Keyed, Payload
  <2>6. AtMostOnceEffect'
    BY <2>2, <2>4 DEF EffectInv, AtMostOnceEffect, Key, Keyed
  <2> QED BY <2>2, <2>5, <2>6 DEF TypeOK, EffectInv, Return, Goto, Payload
<1>10. ASSUME NEW t \in Txs, Abort(t) PROVE EffectInv'
  BY <1>10, QuietEffect DEF Abort, Return, Goto, Steps
<1> QED
  BY <1>1, <1>2, <1>3, <1>4, <1>5, <1>6, <1>7, <1>8, <1>9, <1>10 DEF Next, Step, Finished

(* KeyInv is an inductive invariant of the call.                           *)
LEMMA KeyInvariant == Spec => []KeyInv
<1>1. Init => KeyInv
  <2> SUFFICES ASSUME Init PROVE KeyInv
    OBVIOUS
  <2>1. TypeOK
    BY RpcAssumption DEF Init, TypeOK, Steps, Ledger!Replies
  <2>2. IndexInv
    BY DEF Init, IndexInv, Owning
  <2>3. EffectInv
    BY DEF Init, EffectInv, LedgerMatchesEffects, AtMostOnceEffect
  <2> QED BY <2>1, <2>2, <2>3 DEF KeyInv
<1>2. KeyInv /\ [Next]_vars => KeyInv'
  BY TypeStep, IndexStep, EffectStep DEF KeyInv
<1> QED BY <1>1, <1>2, PTL DEF Spec

(* At most one call per idempotency key ever commits an effect, however    *)
(* many calls with that key run and wherever they interleave or abort.     *)
THEOREM EffectOncePerKey == Spec => []AtMostOnceEffect
<1>1. KeyInv => AtMostOnceEffect
  BY DEF KeyInv, EffectInv
<1> QED BY <1>1, KeyInvariant, PTL

(* The committed row of a key tells truly whether its effect happened.     *)
THEOREM LedgerTellsTheTruth == Spec => []LedgerMatchesEffects
<1>1. KeyInv => LedgerMatchesEffects
  BY DEF KeyInv, EffectInv
<1> QED BY <1>1, KeyInvariant, PTL

(* A call that is told "success" can point to a committed effect.          *)
THEOREM SuccessNeverLies == Spec => []SuccessIsBacked
<1>1. Init => SuccessIsBacked
  BY DEF Init, SuccessIsBacked
<1>2. KeyInv /\ SuccessIsBacked /\ [Next]_vars => SuccessIsBacked'
  <2> SUFFICES ASSUME KeyInv, SuccessIsBacked, [Next]_vars PROVE SuccessIsBacked'
    OBVIOUS
  <2> USE DEF KeyInv, TypeOK
  <2>0. ASSUME NEW t \in Txs, NEW ans, reply' = [reply EXCEPT ![t] = ans],
               req' = req, applied \subseteq applied',
               ans = "success" => \E u \in applied' : /\ Key(u) = Key(t)
                                                      /\ Payload(u) = Payload(t)
                                                      /\ ~Keyed(t) => u = t
        PROVE  SuccessIsBacked'
    BY <2>0 DEF SuccessIsBacked, Key, Keyed, Payload
  <2>1. CASE UNCHANGED <<req, reply, applied>>
    BY <2>1 DEF SuccessIsBacked, Key, Keyed, Payload
  <2>2. ASSUME NEW t \in Txs, RejectUnsupported(t) PROVE SuccessIsBacked'
    BY <2>2, <2>0 DEF RejectUnsupported, Return
  <2>3. ASSUME NEW t \in Txs, Keyed(t), rows[Key(t)] # NoEntry,
               Ledger!Verdict(rows[Key(t)], Payload(t)) = "success"
        PROVE  \E u \in applied : Key(u) = Key(t) /\ Payload(u) = Payload(t)
    <3>1. rows[Key(t)].status = "completed" /\ rows[Key(t)].payload = Payload(t)
      BY <2>3, ArgumentTypes, VerdictType
    <3> QED BY <2>3, <3>1 DEF EffectInv, LedgerMatchesEffects, Keyed
  <2>4. ASSUME NEW t \in Txs, Lookup(t), reply' # reply PROVE SuccessIsBacked'
    <3>1. /\ Keyed(t) /\ rows[Key(t)] # NoEntry
          /\ reply' = [reply EXCEPT ![t] = Ledger!Verdict(rows[Key(t)], Payload(t))]
          /\ UNCHANGED <<req, applied>>
      BY <2>4 DEF Lookup, Return
    <3> QED BY <3>1, <2>3, <2>0
  <2>5. ASSUME NEW t \in Txs, Claim(t), reply' # reply PROVE SuccessIsBacked'
    <3> DEFINE v == Ledger!Verdict(rows[Key(t)], Payload(t))
    <3>1. /\ Keyed(t) /\ rows[Key(t)] # NoEntry
          /\ reply' = [reply EXCEPT ![t] = IF v = "error" THEN "pending" ELSE v]
          /\ UNCHANGED <<req, applied>>
      BY <2>5 DEF Claim, Return, IndexInv
    <3> QED BY <3>1, <2>3, <2>0
  <2>6. ASSUME NEW t \in Txs, Refuse(t) PROVE SuccessIsBacked'
    BY <2>6, <2>0 DEF Refuse, Return
  <2>7. ASSUME NEW t \in Txs, Commit(t) PROVE SuccessIsBacked'
    BY <2>7, <2>0 DEF Commit, Return
  <2>8. ASSUME NEW t \in Txs, Abort(t) PROVE SuccessIsBacked'
    BY <2>8, <2>0 DEF Abort, Return
  <2>9. ASSUME NEW t \in Txs, Lookup(t) \/ Claim(t), reply' = reply PROVE SuccessIsBacked'
    BY <2>9, <2>1 DEF Lookup, Claim
  <2> QED
    BY <2>1, <2>2, <2>4, <2>5, <2>6, <2>7, <2>8, <2>9
    DEF Next, Step, Finished, vars, Accept, EnsureRow, LockRow
<1> QED BY <1>1, <1>2, KeyInvariant, PTL DEF Spec

-----------------------------------------------------------------------------
(* The row lock: while a call is between SELECT ... FOR UPDATE and its     *)
(* commit, what it read is still what is stored.                           *)
THEOREM TasksAreNotLost == Spec => []NoLostTask
<1>1. Init => RowInv
  BY DEF Init, RowInv, NoLostTask
<1>2. TypeOK /\ RowInv /\ [Next]_vars => RowInv'
  <2> SUFFICES ASSUME TypeOK, RowInv, [Next]_vars PROVE RowInv'
    OBVIOUS
  <2> USE RpcAssumption DEF TypeOK, RowInv, NoLostTask, Payload
  <2>1. CASE UNCHANGED vars
    BY <2>1 DEF vars
  <2>2. ASSUME NEW t \in Txs, RejectUnsupported(t) PROVE RowInv'
    BY <2>2 DEF RejectUnsupported, Return, Goto
  <2>3. ASSUME NEW t \in Txs, Lookup(t) PROVE RowInv'
    BY <2>3 DEF Lookup, Return, Goto
  <2>4. ASSUME NEW t \in Txs, Claim(t) PROVE RowInv'
    <3>1. /\ UNCHANGED <<req, hasRow, tasks, rowLock, snap, applied>>
          /\ \E to \in {"work", "done"} : pc' = [pc EXCEPT ![t] = to]
      BY <2>4 DEF Claim, Return, Goto
    <3> QED BY <3>1
  <2>5. ASSUME NEW t \in Txs, Refuse(t) PROVE RowInv'
    BY <2>5 DEF Refuse, ReleaseLocks, Return, Goto
  <2>6. ASSUME NEW t \in Txs, Accept(t) PROVE RowInv'
    BY <2>6 DEF Accept, Goto
  <2>7. ASSUME NEW t \in Txs, EnsureRow(t) PROVE RowInv'
    BY <2>7 DEF EnsureRow, Goto
  <2>8. ASSUME NEW t \in Txs, LockRow(t) PROVE RowInv'
    BY <2>8 DEF LockRow, Goto
  <2>9. ASSUME NEW t \in Txs, Commit(t) PROVE RowInv'
    BY <2>9 DEF Commit, ReleaseLocks, Return, Goto
  <2>10. ASSUME NEW t \in Txs, Abort(t) PROVE RowInv'
    BY <2>10 DEF Abort, ReleaseLocks, Return, Goto
  <2> QED
    BY <2>1, <2>2, <2>3, <2>4, <2>5, <2>6, <2>7, <2>8, <2>9, <2>10 DEF Next, Step, Finished
<1>3. RowInv => NoLostTask
  BY DEF RowInv
<1> QED BY <1>1, <1>2, <1>3, TypeCorrect, PTL DEF Spec

-----------------------------------------------------------------------------
(* The transactions implement the atomic ledger: each call's last          *)
(* statement is its step of ActionLedger, the others are stutters.         *)
THEOREM RpcImplementsLedger == Spec => ImplementsLedger
<1> USE DEF Ledger!ledgerVars
<1>1. Init => Ledger!LedgerInit
  BY DEF Init, Ledger!LedgerInit
<1>2. KeyInv /\ [Next]_vars => [Ledger!LedgerNext]_(Ledger!ledgerVars)
  <2> SUFFICES ASSUME KeyInv, [Next]_vars, ~ UNCHANGED <<req, rows, applied, reply>>
               PROVE  \E t \in Txs : \/ Ledger!Settle(t) \/ Ledger!Replay(t)
                                     \/ Ledger!Unkeyed(t) \/ Ledger!Fail(t)
    BY DEF Ledger!LedgerNext
  <2> USE DEF Key, Keyed, Payload, Return, Ledger!Answer
  <2>0. \A t \in Txs : pc[t] # "done" => reply[t] = "none"
    BY DEF KeyInv, EffectInv
  <2>1. \A t \in Txs : req[t].key \in Keys \/ (~Keyed(t) /\ req[t].key = NoKey)
    BY ArgumentTypes DEF KeyInv
  <2>2. \A t \in Txs : pc[t] \in {"work", "commit"} /\ Keyed(t) => rows[Key(t)] = NoEntry
    BY RpcAssumption DEF KeyInv, IndexInv, TypeOK, Owning
  <2>3. ASSUME NEW t \in Txs, RejectUnsupported(t)
        PROVE  Ledger!Settle(t) \/ Ledger!Unkeyed(t) \/ Ledger!Fail(t)
    <3>1. Payload(t) \in Refused
      BY <2>3, RpcAssumption DEF RejectUnsupported
    <3> QED BY <2>3, <2>0, <2>1, <3>1
            DEF RejectUnsupported, Ledger!Settle, Ledger!Unkeyed, Ledger!Fail
  <2>4. ASSUME NEW t \in Txs, Lookup(t) PROVE Ledger!Replay(t)
    BY <2>4, <2>0 DEF Lookup, Ledger!Replay
  <2>5. ASSUME NEW t \in Txs, Claim(t) PROVE Ledger!Replay(t)
    <3> DEFINE v == Ledger!Verdict(rows[Key(t)], Payload(t))
    <3>1. /\ Keyed(t) /\ rows[Key(t)] # NoEntry
          /\ Return(t, IF v = "error" THEN "pending" ELSE v)
          /\ pc[t] = "claim"
          /\ UNCHANGED <<req, rows, applied>>
      BY <2>5 DEF Claim, KeyInv, IndexInv
    <3> QED BY <3>1, <2>0 DEF Ledger!Replay
  <2>6. ASSUME NEW t \in Txs, Refuse(t) PROVE Ledger!Settle(t) \/ Ledger!Unkeyed(t)
    BY <2>6, <2>0, <2>1, <2>2 DEF Refuse, Ledger!Settle, Ledger!Unkeyed
  <2>7. ASSUME NEW t \in Txs, Commit(t) PROVE Ledger!Settle(t) \/ Ledger!Unkeyed(t)
    <3>1. Payload(t) \notin Refused
      BY <2>7 DEF Commit, KeyInv, EffectInv
    <3> QED BY <2>7, <2>0, <2>1, <2>2, <3>1 DEF Commit, Ledger!Settle, Ledger!Unkeyed
  <2>8. ASSUME NEW t \in Txs, Abort(t) PROVE Ledger!Fail(t)
    BY <2>8, <2>0 DEF Abort, Ledger!Fail
  <2> QED
    BY <2>3, <2>4, <2>5, <2>6, <2>7, <2>8
    DEF Next, Step, Finished, vars, Accept, EnsureRow, LockRow
<1> QED BY <1>1, <1>2, KeyInvariant, PTL DEF Spec, ImplementsLedger, Ledger!LedgerSpec
=============================================================================
