--------------------------- MODULE AccountSession ---------------------------
(***************************************************************************)
(* AachmanEcosystemClient (ecosystem/client.py): one object holds the      *)
(* account of the whole process, and nothing guards it.  The window's      *)
(* thread runs plan steps and signs out; workers of its thread pool sign   *)
(* in, send single actions and read activity (ecosystem_drawer.py, the     *)
(* dashboard), and each of them may refresh the tokens.                    *)
(*                                                                         *)
(* An access token and the refresh token issued with it are one pair; the  *)
(* server knows whose it is.  Time is not modelled: a token that has an    *)
(* expiry may or may not be about to expire, and the server may answer 401 *)
(* to any access token.  Tokens and metadata are written to the credential *)
(* manager and to the session file where they are assigned, and those      *)
(* writes succeed, so a restart finds what memory held.                    *)
(***************************************************************************)
EXTENDS FiniteSets, Naturals, Sequences

CONSTANTS
    Users,        \* accounts
    Owners,       \* those that have a plan, with one step
    Workers,      \* threads of the pool that use the client
    Window,       \* the window's thread, which runs plan steps
    NoUser,       \* no user_id
    Empty,        \* metadata {}
    MaxPairs,     \* token pairs the server issues
    MaxEffects,   \* effects of one plan step that are counted
    MaxSignIns,   \* sign-ins under way at once
    MayCrash      \* whether the process may end at any time

Callers == Workers \cup {Window}

ASSUME SessionAssumption ==
    /\ Window \notin Workers /\ Owners \subseteq Users
    /\ NoUser \notin Users /\ Empty \notin Users \cup {NoUser}
    /\ MaxPairs \in Nat \ {0} /\ MaxEffects \in Nat \ {0} /\ MaxSignIns \in Nat
    /\ MayCrash \in BOOLEAN

VARIABLES
    mem,       \* the tokens of the client, 0 for None
    meta,      \* metadata: Empty, or an expiry with that user_id
    asking,    \* users whose sign_in waits for an answer
    saving,    \* users whose sign_in saved the tokens, not the metadata
    pc,        \* where each caller is
    tried,     \* callers that have refreshed after a 401
    tok,       \* the tokens a caller sent or is about to save
    step,      \* the owner of the plan step the window runs
    issued,    \* the user of each pair the server has issued
    live,      \* pairs whose refresh token it accepts
    cache,     \* whether it knows the function with three arguments
    ledger,    \* settled keys, by account; a step's key is named by its owner
    done,      \* effects of each step, by account
    \* history: steps sent without their key; refreshes asked before the
    \* account changed; whether it changed while the window runs its step;
    \* whether a sign-in or a refresh has crossed another
    keyless, stale, switched, crossed

client == <<mem, meta, asking, saving>>
calls == <<pc, tried, tok, step>>
tokens == <<issued, live>>
server == <<cache, ledger, done, keyless>>
history == <<stale, switched, crossed>>
vars == <<client, calls, tokens, server, history>>

Pairs == 1..MaxPairs
NoPair == 0

(* Outside; confirmed; waiting for a refresh; with its answer; about to    *)
(* read the access token; waiting for the RPC with three arguments, or     *)
(* with two.                                                               *)
Places == {"out", "confirmed", "refresh", "renewed", "denied", "read", "sent", "sent2"}

Refreshing == {c \in Callers : pc[c] \in {"refresh", "renewed", "denied"}}

TypeOK ==
    /\ mem \in 0..Len(issued)
    /\ meta \in Users \cup {NoUser, Empty}
    /\ asking \subseteq Users /\ saving \subseteq Users
    /\ pc \in [Callers -> Places]
    /\ tried \subseteq Callers
    /\ tok \in [Callers -> 0..Len(issued)]
    /\ step \in Owners \cup {NoUser}
    /\ issued \in Seq(Users) /\ Len(issued) <= MaxPairs
    /\ live \subseteq 1..Len(issued)
    /\ cache \in BOOLEAN
    /\ ledger \subseteq Users \X Owners
    /\ done \in [Owners -> [Users -> 0..MaxEffects]]
    /\ keyless \subseteq Owners
    /\ stale \subseteq Refreshing
    /\ switched \in BOOLEAN /\ crossed \in BOOLEAN
    /\ \A c \in Callers :
          pc[c] \in {"refresh", "renewed", "sent", "sent2"} => tok[c] # NoPair
    /\ step = NoUser <=> pc[Window] = "out"

Init ==
    /\ mem = NoPair /\ meta = Empty
    /\ asking = {} /\ saving = {}
    /\ pc = [c \in Callers |-> "out"]
    /\ tried = {}
    /\ tok = [c \in Callers |-> NoPair]
    /\ step = NoUser
    /\ issued = <<>> /\ live = {}
    /\ cache \in BOOLEAN
    /\ ledger = {}
    /\ done = [u \in Owners |-> [a \in Users |-> 0]]
    /\ keyless = {}
    /\ stale = {} /\ switched = FALSE /\ crossed = FALSE

-----------------------------------------------------------------------------
Goto(c, place) == pc' = [pc EXCEPT ![c] = place] /\ UNCHANGED step

(* The call returns to its caller.                                         *)
Return(c) ==
    /\ pc' = [pc EXCEPT ![c] = "out"]
    /\ step' = IF c = Window THEN NoUser ELSE step
    /\ tok' = [tok EXCEPT ![c] = NoPair]
    /\ tried' = tried \ {c}

NewPair == Len(issued) + 1

(* sign_in posts the password; the dialog opens when nobody is signed in,  *)
(* and may be closed while the worker waits.                               *)
AskSignIn(u) ==
    /\ pc[Window] = "out" /\ mem = NoPair
    /\ u \notin asking \cup saving
    /\ Cardinality(asking \cup saving) < MaxSignIns
    /\ asking' = asking \cup {u}
    /\ UNCHANGED <<mem, meta, saving, calls, tokens, server, history>>

SignInFails(u) ==
    /\ u \in asking
    /\ asking' = asking \ {u}
    /\ UNCHANGED <<mem, meta, saving, calls, tokens, server, history>>

(* The answer is 200: _save_credentials_to_keyring ...                     *)
SignedIn(u) ==
    /\ u \in asking
    /\ NewPair \in Pairs
    /\ issued' = Append(issued, u)
    /\ live' = live \cup {NewPair}
    /\ mem' = NewPair
    /\ asking' = asking \ {u}
    /\ saving' = saving \cup {u}
    /\ stale' = Refreshing
    /\ switched' = (step # NoUser)
    /\ crossed' = (saving # {})
    /\ UNCHANGED <<meta, calls, server>>

(* Mutant of SaveMetadata: an expiry is written, the user_id is kept.      *)
SaveExpiryOnly(u) ==
    /\ u \in saving
    /\ meta' = IF meta \in Users THEN meta ELSE u
    /\ saving' = saving \ {u}
    /\ UNCHANGED <<mem, asking, calls, tokens, server, history>>

(* ... and the metadata.                                                   *)
SaveMetadata(u) ==
    /\ u \in saving
    /\ meta' = u
    /\ saving' = saving \ {u}
    /\ UNCHANGED <<mem, asking, calls, tokens, server, history>>

(* _clear_credentials.                                                     *)
Clear ==
    /\ mem' = NoPair
    /\ meta' = Empty
    /\ crossed' = FALSE

(* sign_out: the server, if it can be reached, ends the user's sessions.   *)
SignOut ==
    /\ pc[Window] = "out" /\ mem # NoPair
    /\ live' \in {live, {p \in live : issued[p] # issued[mem]}}
    /\ Clear
    /\ stale' = Refreshing
    /\ UNCHANGED <<asking, saving, calls, issued, server, switched>>

-----------------------------------------------------------------------------
(* Mutant of Confirm: the ownership check only asks whether anyone is      *)
(* signed in.                                                              *)
ConfirmAnyOwner(c) ==
    /\ pc[c] = "out" /\ mem # NoPair
    /\ pc' = [pc EXCEPT ![c] = "confirmed"]
    /\ IF c = Window
         THEN step' \in Owners /\ switched' = (saving # {} \/ crossed)
         ELSE UNCHANGED <<step, switched>>
    /\ UNCHANGED <<client, tried, tok, tokens, server, stale, crossed>>

(* The window runs the plan step of the user it takes to be signed in,     *)
(* which the ownership check lets pass; a worker's call has no owner.      *)
Confirm(c) ==
    /\ pc[c] = "out" /\ mem # NoPair
    /\ c = Window => meta \in Owners
    /\ pc' = [pc EXCEPT ![c] = "confirmed"]
    /\ IF c = Window
         THEN step' = meta /\ switched' = (saving # {} \/ crossed)
         ELSE UNCHANGED <<step, switched>>
    /\ UNCHANGED <<client, tried, tok, tokens, server, stale, crossed>>

(* refresh_access_token reads the refresh token and posts it, or has none. *)
Ask(c) ==
    /\ mem # NoPair
    /\ Goto(c, "refresh")
    /\ tok' = [tok EXCEPT ![c] = mem]
    /\ UNCHANGED <<client, tokens, server, history>>

NothingToRefresh(c) ==
    /\ mem = NoPair
    /\ Return(c)
    /\ UNCHANGED <<client, tokens, server, history>>

(* get_valid_access_token: no expiry is known, or it is near ...           *)
Due(c) ==
    /\ pc[c] = "confirmed"
    /\ NothingToRefresh(c) \/ (Ask(c) /\ UNCHANGED tried)

(* ... or far.                                                             *)
NotDue(c) ==
    /\ pc[c] = "confirmed" /\ meta # Empty
    /\ Goto(c, "read")
    /\ UNCHANGED <<client, tried, tok, tokens, server, history>>

(* The server rotates the tokens, and may keep the old ones a while.       *)
Rotate(c) ==
    /\ pc[c] = "refresh"
    /\ tok[c] \in live /\ NewPair \in Pairs
    /\ issued' = Append(issued, issued[tok[c]])
    /\ live' \in {live \cup {NewPair}, (live \ {tok[c]}) \cup {NewPair}}
    /\ tok' = [tok EXCEPT ![c] = NewPair]
    /\ Goto(c, "renewed")
    /\ UNCHANGED <<client, tried, server, history>>

Deny(c) ==
    /\ pc[c] = "refresh"
    /\ tok[c] \notin live
    /\ Goto(c, "denied")
    /\ UNCHANGED <<client, tried, tok, tokens, server, history>>

(* 200: the tokens are saved, and expires_at in the metadata there are.    *)
Renewed(c) ==
    /\ pc[c] = "renewed"
    /\ mem' = tok[c]
    /\ meta' = IF meta = Empty THEN NoUser ELSE meta
    /\ Goto(c, "read")
    /\ stale' = stale \ {c}
    /\ IF c \in stale
         THEN crossed' = TRUE /\ switched' = (step # NoUser)
         ELSE UNCHANGED <<crossed, switched>>
    /\ UNCHANGED <<asking, saving, tried, tok, tokens, server>>

(* Anything else: the credentials are cleared.                             *)
Denied(c) ==
    /\ pc[c] = "denied"
    /\ Clear
    /\ stale' = Refreshing \ {c}
    /\ Return(c)
    /\ UNCHANGED <<asking, saving, tokens, server, switched>>

(* The request raises: nothing is cleared, and the call returns.           *)
RefreshFails(c) ==
    /\ c \in Refreshing
    /\ stale' = stale \ {c}
    /\ Return(c)
    /\ UNCHANGED <<client, tokens, server, switched, crossed>>

(* Mutant of Send: a token that is None is sent as well.                   *)
SendAnything(c) ==
    /\ pc[c] = "read"
    /\ Goto(c, "sent")
    /\ tok' = [tok EXCEPT ![c] = mem]
    /\ UNCHANGED <<client, tried, tokens, server, history>>

(* Mutant of Send: the retry after a 401 uses the body without the key.    *)
SendKeyless(c) ==
    /\ pc[c] = "read" /\ mem # NoPair
    /\ Goto(c, IF c \in tried THEN "sent2" ELSE "sent")
    /\ tok' = [tok EXCEPT ![c] = mem]
    /\ UNCHANGED <<client, tried, tokens, server, history>>

(* The access token is read from the object, and the action sent.          *)
Send(c) ==
    /\ pc[c] = "read" /\ mem # NoPair
    /\ Goto(c, "sent")
    /\ tok' = [tok EXCEPT ![c] = mem]
    /\ UNCHANGED <<client, tried, tokens, server, history>>

(* It is None: the call returns, at the latest after one more 401.         *)
NothingToSend(c) ==
    /\ pc[c] = "read" /\ mem = NoPair
    /\ Return(c)
    /\ UNCHANGED <<client, tokens, server, history>>

-----------------------------------------------------------------------------
Count(n) == IF n < MaxEffects THEN n + 1 ELSE n

(* The window's step is done in the account of the token.                  *)
Effect == done' = [done EXCEPT ![step][issued[tok[Window]]] = Count(@)]

(* The RPC with the key: once for the account and the key.  A worker's     *)
(* action has a key of its own.  The reply arrives or is lost.             *)
Serve(c) ==
    LET key == <<issued[tok[c]], step>> IN
    /\ pc[c] = "sent" /\ cache
    /\ IF c = Window /\ key \notin ledger
         THEN Effect /\ ledger' = ledger \cup {key}
         ELSE UNCHANGED <<ledger, done>>
    /\ Return(c)
    /\ UNCHANGED <<client, tokens, cache, keyless, history>>

(* 404, "schema cache": the call is repeated without the key.              *)
Unknown(c) ==
    /\ pc[c] = "sent" /\ ~cache
    /\ Goto(c, "sent2")
    /\ keyless' = IF c = Window THEN keyless \cup {step} ELSE keyless
    /\ UNCHANGED <<client, tried, tok, tokens, cache, ledger, done, history>>

Serve2(c) ==
    /\ pc[c] = "sent2"
    /\ IF c = Window THEN Effect ELSE UNCHANGED done
    /\ Return(c)
    /\ UNCHANGED <<client, tokens, cache, ledger, keyless, history>>

Reload ==
    /\ ~cache
    /\ cache' = TRUE
    /\ UNCHANGED <<client, calls, tokens, ledger, done, keyless, history>>

(* 401 or 403: the tokens are refreshed, and the call repeated, once.      *)
Refresh(c) ==
    /\ pc[c] \in {"sent", "sent2"} /\ c \notin tried
    /\ NothingToRefresh(c) \/ (Ask(c) /\ tried' = tried \cup {c})

(* 401 again, another error, or no answer to a request that was not run.   *)
Fails(c) ==
    /\ pc[c] \in {"sent", "sent2"}
    /\ Return(c)
    /\ UNCHANGED <<client, tokens, server, history>>

(* The process ends at any time, and the next one loads what was stored.   *)
Restart ==
    /\ MayCrash
    /\ asking' = {} /\ saving' = {}
    /\ pc' = [c \in Callers |-> "out"]
    /\ tried' = {} /\ tok' = [c \in Callers |-> NoPair] /\ step' = NoUser
    /\ stale' = {} /\ switched' = FALSE
    /\ crossed' = (crossed \/ saving # {})
    /\ UNCHANGED <<mem, meta, tokens, server>>

-----------------------------------------------------------------------------
Refreshes(c) == Rotate(c) \/ Deny(c) \/ Renewed(c) \/ Denied(c) \/ RefreshFails(c)

Answered(c) == Serve(c) \/ Unknown(c) \/ Serve2(c) \/ Refresh(c) \/ Fails(c)

Call(c) == Due(c) \/ NotDue(c) \/ Refreshes(c) \/ Send(c) \/ NothingToSend(c) \/ Answered(c)

SignIn(u) == AskSignIn(u) \/ SignInFails(u) \/ SignedIn(u) \/ SaveMetadata(u)

Next ==
    \/ \E u \in Users : SignIn(u)
    \/ SignOut \/ Restart \/ Reload
    \/ \E c \in Callers : Confirm(c) \/ Call(c)

Spec == Init /\ [][Next]_vars

-----------------------------------------------------------------------------
(* The user_id and the tokens of the client belong to one account, as long *)
(* as no sign-in is between its two saves or was cut there by a crash or   *)
(* by another sign-in, and no refresh was answered after the account it    *)
(* was asked for had been signed out or replaced.                          *)
IdentityWhole ==
    mem # NoPair /\ meta \in Users /\ issued[mem] # meta => saving # {} \/ crossed

(* The ownership check holds until the effect: a plan step takes effect in *)
(* its owner's account, unless the client's account changed hands during   *)
(* the step, or was not whole when it began.                               *)
LandsAtHome ==
    [][\A u \in Owners : \A a \in Users \ {u} : done'[u][a] # done[u][a] => switched]_vars

(* However often a plan step is confirmed again after lost answers, and    *)
(* whatever the client refreshes meanwhile, its account sees one effect,   *)
(* unless a request went out without the key.                              *)
StepOnce == \A u \in Owners : done[u][u] > 1 => u \in keyless

(* user_id is to "Get the authenticated auth.users UUID", and the ownership *)
(* check relies on it: with no sign-in under way it is the user the tokens *)
(* authenticate.                                                           *)
UserIdIsAuthenticated ==
    asking \cup saving = {} /\ mem # NoPair /\ meta \in Users => issued[mem] = meta
=============================================================================
