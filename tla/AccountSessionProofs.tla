------------------------ MODULE AccountSessionProofs ------------------------
(***************************************************************************)
(* Proofs about AccountSession, for any number of accounts, workers, token *)
(* pairs and sign-ins under way at once, with or without restarts: the     *)
(* identity of the client is whole unless something has crossed, a plan    *)
(* step lands in its owner's account, and it lands there once.             *)
(***************************************************************************)
EXTENDS AccountSession, TLAPS

(* Caller c waits for new tokens of the account it asked them for.         *)
Fresh(c) == pc[c] \in {"refresh", "renewed"} /\ c \notin stale

(* Unless something has crossed, whoever refreshes does so for the account *)
(* the client holds; a sign-in between its two saves is the one whose      *)
(* tokens it holds; and otherwise the metadata are those of the tokens.    *)
SameAccount ==
    ~crossed =>
        /\ \A c \in Callers : Fresh(c) => mem # NoPair /\ issued[tok[c]] = issued[mem]
        /\ mem # NoPair /\ saving # {} => saving = {issued[mem]}
        /\ mem # NoPair /\ saving = {} /\ meta \in Users => issued[mem] = meta

(* While the window runs a step and the account has not changed hands, the *)
(* client holds the owner's tokens, if any, and the request carries them.  *)
OwnersTokens ==
    step # NoUser /\ ~switched =>
        /\ ~crossed
        /\ mem # NoPair => issued[mem] = step
        /\ pc[Window] \in {"sent", "sent2"} => issued[tok[Window]] = step

(* An effect of a step that was never sent without its key is the one the  *)
(* ledger has the key for.                                                 *)
KeyedOnce ==
    /\ pc[Window] = "sent2" => step \in keyless
    /\ \A u \in Owners \ keyless : \A a \in Users :
          done[u][a] # 0 => done[u][a] = 1 /\ <<a, u>> \in ledger

(* TypeOK, part by part.                                                   *)
AccountTyped ==
    /\ mem \in 0..Len(issued) /\ meta \in Users \cup {NoUser, Empty}
    /\ asking \subseteq Users /\ saving \subseteq Users

TokensTyped ==
    /\ issued \in Seq(Users) /\ Len(issued) <= MaxPairs /\ live \subseteq 1..Len(issued)
    /\ tok \in [Callers -> 0..Len(issued)]

CallsTyped ==
    /\ pc \in [Callers -> Places] /\ tried \subseteq Callers /\ step \in Owners \cup {NoUser}
    /\ \A c \in Callers : pc[c] \in {"refresh", "renewed", "sent", "sent2"} => tok[c] # NoPair
    /\ step = NoUser <=> pc[Window] = "out"

ServerTyped ==
    /\ cache \in BOOLEAN /\ ledger \subseteq Users \X Owners
    /\ done \in [Owners -> [Users -> 0..MaxEffects]] /\ keyless \subseteq Owners

HistoryTyped == stale \subseteq Refreshing /\ switched \in BOOLEAN /\ crossed \in BOOLEAN

Whole == TypeOK /\ SameAccount /\ OwnersTokens /\ KeyedOnce

-----------------------------------------------------------------------------


LEMMA TypeParts == TypeOK <=> AccountTyped /\ TokensTyped /\ CallsTyped /\ ServerTyped /\ HistoryTyped
BY DEF TypeOK, AccountTyped, TokensTyped, CallsTyped, ServerTyped, HistoryTyped

LEMMA InitWhole == Init => Whole
<1> SUFFICES ASSUME Init PROVE Whole
  OBVIOUS
<1> USE SessionAssumption DEF Init, NoPair
<1>1. AccountTyped
  BY DEF AccountTyped
<1>2. TokensTyped
  <2>1. issued \in Seq(Users) /\ Len(issued) = 0 /\ live = {}
    OBVIOUS
  <2>2. tok \in [Callers -> {0}] /\ 0 \in 0..0
    OBVIOUS
  <2> QED BY <2>1, <2>2 DEF TokensTyped
<1>3. CallsTyped
  BY DEF CallsTyped, Places, Callers
<1>4. ServerTyped
  BY DEF ServerTyped
<1>5. HistoryTyped
  BY DEF HistoryTyped, Refreshing
<1>6. SameAccount /\ OwnersTokens /\ KeyedOnce
  BY DEF SameAccount, Fresh, OwnersTokens, KeyedOnce, Callers
<1> QED BY <1>1, <1>2, <1>3, <1>4, <1>5, <1>6, TypeParts DEF Whole

(* A pair more leaves the user of every earlier pair as it was.            *)
LEMMA IssueGives ==
    ASSUME issued \in Seq(Users), Len(issued) <= MaxPairs, NewPair \in Pairs, NEW u \in Users,
           issued' = Append(issued, u)
    PROVE  /\ issued' \in Seq(Users) /\ Len(issued') = NewPair /\ Len(issued') <= MaxPairs
           /\ Len(issued) \in Nat /\ NewPair = Len(issued) + 1
           /\ issued'[NewPair] = u
           /\ \A p \in 1..Len(issued) : issued'[p] = issued[p]
<1>1. Len(issued) \in Nat /\ NewPair = Len(issued) + 1
  BY DEF NewPair
<1>2. NewPair <= MaxPairs
  BY SessionAssumption, <1>1 DEF Pairs
<1>3. issued' \in Seq(Users) /\ Len(issued') = Len(issued) + 1
  OBVIOUS
<1>4. issued'[Len(issued) + 1] = u /\ \A p \in 1..Len(issued) : issued'[p] = issued[p]
  OBVIOUS
<1> QED BY <1>1, <1>2, <1>3, <1>4

(* TypeOK is preserved by what a sign-in and a sign-out do.                *)
LEMMA TypeAccount ==
    ASSUME TypeOK, (\E u \in Users : SignIn(u)) \/ SignOut \/ Restart \/ Reload
    PROVE  TypeOK'
<1> USE SessionAssumption, TypeParts DEF NoPair, client, calls, tokens, server, history,
        AccountTyped, TokensTyped, CallsTyped, ServerTyped, HistoryTyped
<1>1. ASSUME NEW u \in Users, AskSignIn(u)
      PROVE  TypeOK'
  <2>1. AccountTyped'
    BY <1>1 DEF AskSignIn
  <2>2. TokensTyped'
    BY <1>1 DEF AskSignIn
  <2>3. CallsTyped'
    BY <1>1 DEF AskSignIn, Places, Callers
  <2>4. ServerTyped'
    BY <1>1 DEF AskSignIn
  <2>5. HistoryTyped'
    BY <1>1 DEF AskSignIn, Refreshing
  <2> QED BY <2>1, <2>2, <2>3, <2>4, <2>5 DEF TypeOK
<1>2. ASSUME NEW u \in Users, SignInFails(u)
      PROVE  TypeOK'
  <2>1. AccountTyped'
    BY <1>2 DEF SignInFails
  <2>2. TokensTyped'
    BY <1>2 DEF SignInFails
  <2>3. CallsTyped'
    BY <1>2 DEF SignInFails, Places, Callers
  <2>4. ServerTyped'
    BY <1>2 DEF SignInFails
  <2>5. HistoryTyped'
    BY <1>2 DEF SignInFails, Refreshing
  <2> QED BY <2>1, <2>2, <2>3, <2>4, <2>5 DEF TypeOK
<1>3. ASSUME NEW u \in Users, SignedIn(u)
      PROVE  TypeOK'
  <2>0. /\ issued' \in Seq(Users) /\ Len(issued') = NewPair /\ Len(issued') <= MaxPairs
        /\ Len(issued) \in Nat /\ NewPair = Len(issued) + 1
    BY <1>3, IssueGives DEF SignedIn
  <2>1. AccountTyped'
    BY <1>3, <2>0 DEF SignedIn
  <2>2. TokensTyped'
    BY <1>3, <2>0 DEF SignedIn
  <2>3. CallsTyped'
    BY <1>3, <2>0 DEF SignedIn, Places, Callers
  <2>4. ServerTyped'
    BY <1>3, <2>0 DEF SignedIn
  <2>5. HistoryTyped'
    BY <1>3, <2>0 DEF SignedIn, Refreshing
  <2> QED BY <2>1, <2>2, <2>3, <2>4, <2>5 DEF TypeOK
<1>4. ASSUME NEW u \in Users, SaveMetadata(u)
      PROVE  TypeOK'
  <2>1. AccountTyped'
    BY <1>4 DEF SaveMetadata
  <2>2. TokensTyped'
    BY <1>4 DEF SaveMetadata
  <2>3. CallsTyped'
    BY <1>4 DEF SaveMetadata, Places, Callers
  <2>4. ServerTyped'
    BY <1>4 DEF SaveMetadata
  <2>5. HistoryTyped'
    BY <1>4 DEF SaveMetadata, Refreshing
  <2> QED BY <2>1, <2>2, <2>3, <2>4, <2>5 DEF TypeOK
<1>5. CASE SignOut
  <2>1. AccountTyped'
    BY <1>5 DEF SignOut, Clear
  <2>2. TokensTyped'
    BY <1>5 DEF SignOut, Clear
  <2>3. CallsTyped'
    BY <1>5 DEF SignOut, Clear, Places, Callers
  <2>4. ServerTyped'
    BY <1>5 DEF SignOut, Clear
  <2>5. HistoryTyped'
    BY <1>5 DEF SignOut, Clear, Refreshing
  <2> QED BY <2>1, <2>2, <2>3, <2>4, <2>5 DEF TypeOK
<1>6. CASE Restart
  <2>1. AccountTyped'
    BY <1>6 DEF Restart
  <2>2. TokensTyped'
    BY <1>6 DEF Restart
  <2>3. CallsTyped'
    BY <1>6 DEF Restart, Places, Callers
  <2>4. ServerTyped'
    BY <1>6 DEF Restart
  <2>5. HistoryTyped'
    BY <1>6 DEF Restart, Refreshing
  <2> QED BY <2>1, <2>2, <2>3, <2>4, <2>5 DEF TypeOK
<1>7. CASE Reload
  <2>1. AccountTyped'
    BY <1>7 DEF Reload
  <2>2. TokensTyped'
    BY <1>7 DEF Reload
  <2>3. CallsTyped'
    BY <1>7 DEF Reload, Places, Callers
  <2>4. ServerTyped'
    BY <1>7 DEF Reload
  <2>5. HistoryTyped'
    BY <1>7 DEF Reload, Refreshing
  <2> QED BY <2>1, <2>2, <2>3, <2>4, <2>5 DEF TypeOK
<1> QED BY <1>1, <1>2, <1>3, <1>4, <1>5, <1>6, <1>7 DEF SignIn

(* TypeOK is preserved by what a call does.                                *)
LEMMA TypeCall ==
    ASSUME TypeOK, NEW c \in Callers, Confirm(c) \/ Call(c)
    PROVE  TypeOK'
<1> USE SessionAssumption, TypeParts DEF NoPair, client, calls, tokens, server, history,
        AccountTyped, TokensTyped, CallsTyped, ServerTyped, HistoryTyped
<1>1. CASE Confirm(c)
  <2>1. AccountTyped'
    BY <1>1 DEF Confirm
  <2>2. TokensTyped'
    BY <1>1 DEF Confirm
  <2>3. CallsTyped'
    BY <1>1 DEF Confirm, Places, Callers
  <2>4. ServerTyped'
    BY <1>1 DEF Confirm
  <2>5. HistoryTyped'
    BY <1>1 DEF Confirm, Refreshing
  <2> QED BY <2>1, <2>2, <2>3, <2>4, <2>5 DEF TypeOK
<1>2. CASE NothingToRefresh(c) /\ pc[c] \in {"confirmed", "sent", "sent2"}
  <2>1. AccountTyped'
    BY <1>2 DEF NothingToRefresh, Return
  <2>2. TokensTyped'
    BY <1>2 DEF NothingToRefresh, Return
  <2>3. CallsTyped'
    BY <1>2 DEF NothingToRefresh, Return, Places, Callers
  <2>4. ServerTyped'
    BY <1>2 DEF NothingToRefresh, Return
  <2>5. HistoryTyped'
    BY <1>2 DEF NothingToRefresh, Return, Refreshing
  <2> QED BY <2>1, <2>2, <2>3, <2>4, <2>5 DEF TypeOK
<1>3. CASE NotDue(c)
  <2>1. AccountTyped'
    BY <1>3 DEF NotDue, Goto
  <2>2. TokensTyped'
    BY <1>3 DEF NotDue, Goto
  <2>3. CallsTyped'
    BY <1>3 DEF NotDue, Goto, Places, Callers
  <2>4. ServerTyped'
    BY <1>3 DEF NotDue, Goto
  <2>5. HistoryTyped'
    BY <1>3 DEF NotDue, Goto, Refreshing
  <2> QED BY <2>1, <2>2, <2>3, <2>4, <2>5 DEF TypeOK
<1>4. CASE Rotate(c)
  <2>0. /\ issued' \in Seq(Users) /\ Len(issued') = NewPair /\ Len(issued') <= MaxPairs
        /\ Len(issued) \in Nat /\ NewPair = Len(issued) + 1
    BY <1>4, IssueGives DEF Rotate
  <2>1. AccountTyped'
    BY <1>4, <2>0 DEF Rotate, Goto
  <2>2. TokensTyped'
    BY <1>4, <2>0 DEF Rotate, Goto
  <2>3. CallsTyped'
    BY <1>4, <2>0 DEF Rotate, Goto, Places, Callers
  <2>4. ServerTyped'
    BY <1>4, <2>0 DEF Rotate, Goto
  <2>5. HistoryTyped'
    BY <1>4, <2>0 DEF Rotate, Goto, Refreshing
  <2> QED BY <2>1, <2>2, <2>3, <2>4, <2>5 DEF TypeOK
<1>5. CASE Deny(c)
  <2>1. AccountTyped'
    BY <1>5 DEF Deny, Goto
  <2>2. TokensTyped'
    BY <1>5 DEF Deny, Goto
  <2>3. CallsTyped'
    BY <1>5 DEF Deny, Goto, Places, Callers
  <2>4. ServerTyped'
    BY <1>5 DEF Deny, Goto
  <2>5. HistoryTyped'
    BY <1>5 DEF Deny, Goto, Refreshing
  <2> QED BY <2>1, <2>2, <2>3, <2>4, <2>5 DEF TypeOK
<1>6. CASE Renewed(c)
  <2>1. AccountTyped'
    BY <1>6 DEF Renewed, Goto
  <2>2. TokensTyped'
    BY <1>6 DEF Renewed, Goto
  <2>3. CallsTyped'
    BY <1>6 DEF Renewed, Goto, Places, Callers
  <2>4. ServerTyped'
    BY <1>6 DEF Renewed, Goto
  <2>5. HistoryTyped'
    BY <1>6 DEF Renewed, Goto, Refreshing
  <2> QED BY <2>1, <2>2, <2>3, <2>4, <2>5 DEF TypeOK
<1>7. CASE Denied(c)
  <2>1. AccountTyped'
    BY <1>7 DEF Denied, Clear, Return
  <2>2. TokensTyped'
    BY <1>7 DEF Denied, Clear, Return
  <2>3. CallsTyped'
    BY <1>7 DEF Denied, Clear, Return, Places, Callers
  <2>4. ServerTyped'
    BY <1>7 DEF Denied, Clear, Return
  <2>5. HistoryTyped'
    BY <1>7 DEF Denied, Clear, Return, Refreshing
  <2> QED BY <2>1, <2>2, <2>3, <2>4, <2>5 DEF TypeOK
<1>8. CASE RefreshFails(c)
  <2>1. AccountTyped'
    BY <1>8 DEF RefreshFails, Return, Refreshing
  <2>2. TokensTyped'
    BY <1>8 DEF RefreshFails, Return, Refreshing
  <2>3. CallsTyped'
    BY <1>8 DEF RefreshFails, Return, Refreshing, Places, Callers
  <2>4. ServerTyped'
    BY <1>8 DEF RefreshFails, Return, Refreshing
  <2>5. HistoryTyped'
    BY <1>8 DEF RefreshFails, Return, Refreshing
  <2> QED BY <2>1, <2>2, <2>3, <2>4, <2>5 DEF TypeOK
<1>9. CASE Send(c)
  <2>1. AccountTyped'
    BY <1>9 DEF Send, Goto
  <2>2. TokensTyped'
    BY <1>9 DEF Send, Goto
  <2>3. CallsTyped'
    BY <1>9 DEF Send, Goto, Places, Callers
  <2>4. ServerTyped'
    BY <1>9 DEF Send, Goto
  <2>5. HistoryTyped'
    BY <1>9 DEF Send, Goto, Refreshing
  <2> QED BY <2>1, <2>2, <2>3, <2>4, <2>5 DEF TypeOK
<1>10. CASE NothingToSend(c)
  <2>1. AccountTyped'
    BY <1>10 DEF NothingToSend, Return
  <2>2. TokensTyped'
    BY <1>10 DEF NothingToSend, Return
  <2>3. CallsTyped'
    BY <1>10 DEF NothingToSend, Return, Places, Callers
  <2>4. ServerTyped'
    BY <1>10 DEF NothingToSend, Return
  <2>5. HistoryTyped'
    BY <1>10 DEF NothingToSend, Return, Refreshing
  <2> QED BY <2>1, <2>2, <2>3, <2>4, <2>5 DEF TypeOK
<1>11. CASE Serve(c)
  <2>1. AccountTyped'
    BY <1>11 DEF Serve, Return, Effect, Count
  <2>2. TokensTyped'
    BY <1>11 DEF Serve, Return, Effect, Count
  <2>3. CallsTyped'
    BY <1>11 DEF Serve, Return, Effect, Count, Places, Callers
  <2>4. ServerTyped'
    <3>1. CASE c # Window
      BY <1>11, <3>1 DEF Serve
    <3>2. CASE c = Window
      <4>1. step \in Owners /\ issued[tok[Window]] \in Users
        BY <1>11, <3>2 DEF Serve, Callers
      <4>2. done' = done \/ done' = [done EXCEPT ![step][issued[tok[Window]]] = Count(@)]
        BY <1>11 DEF Serve, Effect
      <4>3. \A n \in 0..MaxEffects : Count(n) \in 0..MaxEffects
        BY DEF Count
      <4>4. done' \in [Owners -> [Users -> 0..MaxEffects]]
        <5>1. done \in [Owners -> [Users -> 0..MaxEffects]]
          OBVIOUS
        <5> DEFINE a == issued[tok[Window]]
        <5>2. a \in Users
          BY <4>1
        <5>3. done' = done \/ done' = [done EXCEPT ![step] = [done[step] EXCEPT ![a] = Count(done[step][a])]]
          BY <4>2
        <5> HIDE DEF a
        <5>4. done[step][a] \in 0..MaxEffects
          BY <4>1, <5>1, <5>2
        <5>5. Count(done[step][a]) \in 0..MaxEffects
          BY <4>3, <5>4
        <5>6. [done[step] EXCEPT ![a] = Count(done[step][a])] \in [Users -> 0..MaxEffects]
          BY <4>1, <5>1, <5>2, <5>5
        <5> QED BY <4>1, <5>1, <5>3, <5>6
      <4>5. cache' \in BOOLEAN /\ ledger' \subseteq Users \X Owners /\ keyless' \subseteq Owners
        BY <1>11, <4>1, <3>2 DEF Serve
      <4> QED BY <4>4, <4>5
    <3> QED BY <3>1, <3>2
  <2>5. HistoryTyped'
    BY <1>11 DEF Serve, Return, Effect, Count, Refreshing
  <2> QED BY <2>1, <2>2, <2>3, <2>4, <2>5 DEF TypeOK
<1>12. CASE Unknown(c)
  <2>1. AccountTyped'
    BY <1>12 DEF Unknown, Goto
  <2>2. TokensTyped'
    BY <1>12 DEF Unknown, Goto
  <2>3. CallsTyped'
    BY <1>12 DEF Unknown, Goto, Places, Callers
  <2>4. ServerTyped'
    BY <1>12 DEF Unknown, Goto
  <2>5. HistoryTyped'
    BY <1>12 DEF Unknown, Goto, Refreshing
  <2> QED BY <2>1, <2>2, <2>3, <2>4, <2>5 DEF TypeOK
<1>13. CASE Serve2(c)
  <2>1. AccountTyped'
    BY <1>13 DEF Serve2, Return, Effect, Count
  <2>2. TokensTyped'
    BY <1>13 DEF Serve2, Return, Effect, Count
  <2>3. CallsTyped'
    BY <1>13 DEF Serve2, Return, Effect, Count, Places, Callers
  <2>4. ServerTyped'
    <3>1. CASE c # Window
      BY <1>13, <3>1 DEF Serve2
    <3>2. CASE c = Window
      <4>1. step \in Owners /\ issued[tok[Window]] \in Users
        BY <1>13, <3>2 DEF Serve2, Callers
      <4>2. done' = done \/ done' = [done EXCEPT ![step][issued[tok[Window]]] = Count(@)]
        BY <1>13 DEF Serve2, Effect
      <4>3. \A n \in 0..MaxEffects : Count(n) \in 0..MaxEffects
        BY DEF Count
      <4>4. done' \in [Owners -> [Users -> 0..MaxEffects]]
        <5>1. done \in [Owners -> [Users -> 0..MaxEffects]]
          OBVIOUS
        <5> DEFINE a == issued[tok[Window]]
        <5>2. a \in Users
          BY <4>1
        <5>3. done' = done \/ done' = [done EXCEPT ![step] = [done[step] EXCEPT ![a] = Count(done[step][a])]]
          BY <4>2
        <5> HIDE DEF a
        <5>4. done[step][a] \in 0..MaxEffects
          BY <4>1, <5>1, <5>2
        <5>5. Count(done[step][a]) \in 0..MaxEffects
          BY <4>3, <5>4
        <5>6. [done[step] EXCEPT ![a] = Count(done[step][a])] \in [Users -> 0..MaxEffects]
          BY <4>1, <5>1, <5>2, <5>5
        <5> QED BY <4>1, <5>1, <5>3, <5>6
      <4>5. cache' \in BOOLEAN /\ ledger' \subseteq Users \X Owners /\ keyless' \subseteq Owners
        BY <1>13, <4>1, <3>2 DEF Serve2
      <4> QED BY <4>4, <4>5
    <3> QED BY <3>1, <3>2
  <2>5. HistoryTyped'
    BY <1>13 DEF Serve2, Return, Effect, Count, Refreshing
  <2> QED BY <2>1, <2>2, <2>3, <2>4, <2>5 DEF TypeOK
<1>14. CASE Ask(c) /\ tried' \in {tried, tried \cup {c}} /\ pc[c] \in {"confirmed", "sent", "sent2"}
  <2>1. AccountTyped'
    BY <1>14 DEF Ask, Goto
  <2>2. TokensTyped'
    BY <1>14 DEF Ask, Goto
  <2>3. CallsTyped'
    BY <1>14 DEF Ask, Goto, Places, Callers
  <2>4. ServerTyped'
    BY <1>14 DEF Ask, Goto
  <2>5. HistoryTyped'
    BY <1>14 DEF Ask, Goto, Refreshing
  <2> QED BY <2>1, <2>2, <2>3, <2>4, <2>5 DEF TypeOK
<1>15. CASE Fails(c)
  <2>1. AccountTyped'
    BY <1>15 DEF Fails, Return
  <2>2. TokensTyped'
    BY <1>15 DEF Fails, Return
  <2>3. CallsTyped'
    BY <1>15 DEF Fails, Return, Places, Callers
  <2>4. ServerTyped'
    BY <1>15 DEF Fails, Return
  <2>5. HistoryTyped'
    BY <1>15 DEF Fails, Return, Refreshing
  <2> QED BY <2>1, <2>2, <2>3, <2>4, <2>5 DEF TypeOK
<1> QED BY <1>1, <1>2, <1>3, <1>4, <1>5, <1>6, <1>7, <1>8, <1>9, <1>10, <1>11, <1>12, <1>13, <1>14, <1>15 DEF Call, Refreshes, Answered, Due, Refresh

(* A pair keeps its user.                                                  *)
LEMMA PairsStay ==
    ASSUME TypeOK, NewPair \in Pairs, NEW u \in Users, issued' = Append(issued, u)
    PROVE  /\ issued'[NewPair] = u
           /\ \A p \in 1..Len(issued) : issued'[p] = issued[p]
           /\ mem # NoPair => mem \in 1..Len(issued)
           /\ \A c \in Callers : tok[c] # NoPair => tok[c] \in 1..Len(issued)
<1>1. /\ issued'[NewPair] = u
      /\ \A p \in 1..Len(issued) : issued'[p] = issued[p]
      /\ Len(issued) \in Nat
  BY IssueGives DEF TypeOK
<1>2. mem \in 0..Len(issued) /\ \A c \in Callers : tok[c] \in 0..Len(issued)
  BY DEF TypeOK
<1> QED BY <1>1, <1>2 DEF NoPair

(* A step that leaves the account alone, and in which a caller starts to   *)
(* refresh only with the tokens the client holds.                          *)
Quiet ==
    /\ UNCHANGED <<mem, meta, saving, issued, crossed>>
    /\ \A d \in Callers : Fresh(d)' =>
           (Fresh(d) /\ tok'[d] = tok[d]) \/ (mem # NoPair /\ tok'[d] = mem)

(* Most of what a call does is quiet.                                      *)
LEMMA CallsQuiet ==
    ASSUME TypeOK, NEW c \in Callers,
           \/ Confirm(c) \/ Due(c) \/ NotDue(c) \/ Deny(c) \/ RefreshFails(c) \/ Send(c)
           \/ NothingToSend(c) \/ Answered(c)
    PROVE  Quiet
<1> USE DEF client, tokens, history, Quiet, Fresh
<1>0. pc \in [Callers -> Places] /\ tok \in [Callers -> 0..Len(issued)]
  BY DEF TypeOK
<1>1. CASE Confirm(c)
  BY <1>0, <1>1 DEF Confirm
<1>2. CASE NothingToRefresh(c)
  BY <1>0, <1>2 DEF NothingToRefresh, Return
<1>3. CASE Ask(c)
  BY <1>0, <1>3 DEF Ask, Goto
<1>4. CASE NotDue(c) \/ Deny(c) \/ Send(c) \/ Unknown(c)
  BY <1>0, <1>4 DEF NotDue, Deny, Send, Unknown, Goto
<1>5. CASE RefreshFails(c)
  BY <1>0, <1>5 DEF RefreshFails, Return
<1>6. CASE NothingToSend(c) \/ Serve(c) \/ Serve2(c) \/ Fails(c)
  BY <1>0, <1>6 DEF NothingToSend, Serve, Serve2, Fails, Return
<1> QED BY <1>1, <1>2, <1>3, <1>4, <1>5, <1>6 DEF Due, Refresh, Answered

(* SameAccount is preserved.                                               *)
LEMMA SameStep ==
    ASSUME TypeOK, SameAccount, Next
    PROVE  SameAccount'
<1> USE SessionAssumption DEF client, calls, tokens, server, history
<1>0. /\ pc \in [Callers -> Places] /\ tok \in [Callers -> 0..Len(issued)]
      /\ \A d \in Callers : pc[d] \in {"refresh", "renewed"} => tok[d] # NoPair
      /\ \A d \in Callers : pc[d] \in {"refresh", "renewed"} => d \in Refreshing
  BY DEF TypeOK, Refreshing
<1>1. CASE Quiet
  BY <1>1 DEF SameAccount, Quiet
<1>2. ASSUME NEW u \in Users, AskSignIn(u) \/ SignInFails(u)
      PROVE  SameAccount'
  <2>1. Quiet
    BY <1>2 DEF AskSignIn, SignInFails, Quiet, Fresh
  <2> QED BY <1>1, <2>1
<1>3. ASSUME NEW u \in Users, SignedIn(u)
      PROVE  SameAccount'
  <2>1. issued'[mem'] = u
    BY <1>3, PairsStay DEF SignedIn
  <2>2. \A d \in Callers : ~Fresh(d)'
    BY <1>0, <1>3 DEF SignedIn, Fresh
  <2>3. saving' = saving \cup {u} /\ crossed' = (saving # {})
    BY <1>3 DEF SignedIn
  <2> QED BY <2>1, <2>2, <2>3 DEF SameAccount
<1>4. ASSUME NEW u \in Users, SaveMetadata(u)
      PROVE  SameAccount'
  <2>1. /\ u \in saving /\ meta' = u /\ saving' = saving \ {u}
        /\ UNCHANGED <<mem, pc, tok, issued, stale, crossed>>
    BY <1>4 DEF SaveMetadata
  <2>2. ~crossed /\ mem # NoPair => saving' = {} /\ u = issued[mem]
    BY <2>1 DEF SameAccount
  <2> QED BY <2>1, <2>2 DEF SameAccount, Fresh
<1>5. CASE SignOut
  <2>1. mem' = NoPair /\ pc' = pc /\ stale' = Refreshing
    BY <1>5 DEF SignOut, Clear
  <2> QED BY <1>0, <2>1 DEF SameAccount, Fresh
<1>6. CASE Restart
  <2>1. /\ saving' = {} /\ UNCHANGED <<mem, meta, issued>> /\ crossed' = (crossed \/ saving # {})
        /\ \A d \in Callers : pc'[d] = "out"
    BY <1>6 DEF Restart
  <2> QED BY <2>1 DEF SameAccount, Fresh
<1>7. CASE Reload
  <2>1. Quiet
    BY <1>7 DEF Reload, Quiet, Fresh
  <2> QED BY <1>1, <2>1
<1>8. ASSUME NEW c \in Callers, Rotate(c)
      PROVE  SameAccount'
  <2>1. tok[c] # NoPair /\ tok[c] \in 1..Len(issued) /\ issued[tok[c]] \in Users
    BY <1>0, <1>8 DEF Rotate, TypeOK, NoPair
  <2>2. /\ issued'[NewPair] = issued[tok[c]]
        /\ \A p \in 1..Len(issued) : issued'[p] = issued[p]
        /\ mem # NoPair => mem \in 1..Len(issued)
        /\ \A d \in Callers : tok[d] # NoPair => tok[d] \in 1..Len(issued)
    BY <1>8, <2>1, PairsStay DEF Rotate
  <2>3. /\ tok' = [tok EXCEPT ![c] = NewPair] /\ pc' = [pc EXCEPT ![c] = "renewed"] /\ pc[c] = "refresh"
        /\ UNCHANGED <<mem, meta, saving, stale, crossed>>
    BY <1>8 DEF Rotate, Goto
  <2>4. ASSUME NEW d \in Callers, Fresh(d)', ~crossed
        PROVE  mem # NoPair /\ issued'[tok'[d]] = issued'[mem]
    <3>1. Fresh(d) /\ mem # NoPair /\ issued[tok[d]] = issued[mem]
      BY <1>0, <2>3, <2>4 DEF SameAccount, Fresh
    <3>2. CASE d = c
      BY <1>0, <2>2, <2>3, <3>1, <3>2
    <3>3. CASE d # c
      BY <1>0, <2>2, <2>3, <3>1, <3>3 DEF Fresh
    <3> QED BY <3>2, <3>3
  <2>5. mem # NoPair => issued'[mem] = issued[mem]
    BY <2>2
  <2> QED BY <2>3, <2>4, <2>5 DEF SameAccount
<1>9. ASSUME NEW c \in Callers, Renewed(c)
      PROVE  SameAccount'
  <2>1. CASE c \in stale
    BY <1>9, <2>1 DEF Renewed, SameAccount
  <2>2. CASE c \notin stale
    <3>1. /\ mem' = tok[c] /\ pc[c] = "renewed" /\ pc' = [pc EXCEPT ![c] = "read"] /\ tok[c] # NoPair
          /\ meta' \in {meta, NoUser} /\ stale' = stale
          /\ UNCHANGED <<saving, tok, issued, crossed>>
      BY <1>0, <1>9, <2>2 DEF Renewed, Goto
    <3>2. ~crossed => mem # NoPair /\ issued[tok[c]] = issued[mem]
      BY <2>2, <3>1 DEF SameAccount, Fresh
    <3>3. \A d \in Callers : Fresh(d)' => Fresh(d)
      BY <1>0, <3>1 DEF Fresh
    <3> QED BY <3>1, <3>2, <3>3 DEF SameAccount
  <2> QED BY <2>1, <2>2
<1>10. ASSUME NEW c \in Callers, Denied(c)
      PROVE  SameAccount'
  <2>1. mem' = NoPair /\ pc' = [pc EXCEPT ![c] = "out"] /\ stale' = Refreshing \ {c}
    BY <1>10 DEF Denied, Clear, Return
  <2> QED BY <1>0, <2>1 DEF SameAccount, Fresh
<1> QED BY <1>1, <1>2, <1>3, <1>4, <1>5, <1>6, <1>7, <1>8, <1>9, <1>10, CallsQuiet
        DEF Next, SignIn, Call, Refreshes

(* OwnersTokens is preserved: a confirmation by the window finds the       *)
(* account whole, and what could change it is noticed.                     *)
LEMMA OwnersStep ==
    ASSUME TypeOK, SameAccount, OwnersTokens, Next
    PROVE  OwnersTokens'
<1> USE SessionAssumption DEF client, calls, tokens, server, history
<1>0. /\ pc \in [Callers -> Places] /\ tok \in [Callers -> 0..Len(issued)] /\ Window \in Callers
      /\ \A d \in Callers : pc[d] \in {"refresh", "renewed", "sent", "sent2"} => tok[d] # NoPair
      /\ step = NoUser <=> pc[Window] = "out"
  BY DEF TypeOK, Callers
<1>1. ASSUME step' # NoUser => step' = step, switched' = switched, crossed' = crossed, issued' = issued,
             mem' \in {mem, NoPair},
             pc'[Window] \in {"sent", "sent2"} =>
                 (pc[Window] \in {"sent", "sent2"} /\ tok'[Window] = tok[Window])
                 \/ (mem # NoPair /\ tok'[Window] = mem)
      PROVE  OwnersTokens'
  BY <1>1 DEF OwnersTokens
<1>2. ASSUME NEW u \in Users, AskSignIn(u) \/ SignInFails(u) \/ SaveMetadata(u)
      PROVE  OwnersTokens'
  BY <1>1, <1>2 DEF AskSignIn, SignInFails, SaveMetadata
<1>3. ASSUME NEW u \in Users, SignedIn(u)
      PROVE  OwnersTokens'
  BY <1>3 DEF SignedIn, OwnersTokens
<1>4. CASE SignOut \/ Restart
  BY <1>0, <1>4 DEF SignOut, Restart, OwnersTokens
<1>5. CASE Reload
  BY <1>1, <1>5 DEF Reload
<1>6. ASSUME NEW c \in Callers, Confirm(c)
      PROVE  OwnersTokens'
  <2>1. CASE c = Window
    <3>1. /\ step' = meta /\ meta \in Owners /\ switched' = (saving # {} \/ crossed) /\ mem # NoPair
          /\ pc'[Window] = "confirmed" /\ UNCHANGED <<mem, issued, crossed>>
      BY <1>0, <1>6, <2>1 DEF Confirm
    <3> QED BY <3>1 DEF OwnersTokens, SameAccount
  <2>2. CASE c # Window
    BY <1>0, <1>1, <1>6, <2>2 DEF Confirm
  <2> QED BY <2>1, <2>2
<1>7. ASSUME NEW c \in Callers, NothingToRefresh(c) \/ NothingToSend(c) \/ Fails(c) \/ RefreshFails(c)
      PROVE  OwnersTokens'
  BY <1>0, <1>1, <1>7 DEF NothingToRefresh, NothingToSend, Fails, RefreshFails, Return
<1>8. ASSUME NEW c \in Callers, Serve(c) \/ Serve2(c)
      PROVE  OwnersTokens'
  BY <1>0, <1>1, <1>8 DEF Serve, Serve2, Return
<1>9. ASSUME NEW c \in Callers, Ask(c) \/ NotDue(c) \/ Deny(c) \/ Send(c) \/ Unknown(c)
      PROVE  OwnersTokens'
  BY <1>0, <1>1, <1>9 DEF Ask, NotDue, Deny, Send, Unknown, Goto
<1>10. ASSUME NEW c \in Callers, Rotate(c)
      PROVE  OwnersTokens'
  <2>1. tok[c] # NoPair /\ tok[c] \in 1..Len(issued) /\ issued[tok[c]] \in Users
    BY <1>0, <1>10 DEF Rotate, TypeOK, NoPair
  <2>2. /\ \A p \in 1..Len(issued) : issued'[p] = issued[p]
        /\ mem # NoPair => mem \in 1..Len(issued)
        /\ \A d \in Callers : tok[d] # NoPair => tok[d] \in 1..Len(issued)
    BY <1>10, <2>1, PairsStay DEF Rotate
  <2>3. /\ tok' = [tok EXCEPT ![c] = NewPair] /\ pc' = [pc EXCEPT ![c] = "renewed"]
        /\ UNCHANGED <<mem, step, switched, crossed>>
    BY <1>10 DEF Rotate, Goto
  <2>4. pc'[Window] \in {"sent", "sent2"} =>
            pc[Window] \in {"sent", "sent2"} /\ tok'[Window] = tok[Window] /\ tok[Window] # NoPair
    BY <1>0, <2>3
  <2> QED BY <1>0, <2>2, <2>3, <2>4 DEF OwnersTokens
<1>11. ASSUME NEW c \in Callers, Renewed(c)
      PROVE  OwnersTokens'
  <2>1. CASE c \in stale
    BY <1>11, <2>1 DEF Renewed, OwnersTokens, Goto
  <2>2. CASE c \notin stale
    <3>1. /\ mem' = tok[c] /\ pc[c] = "renewed" /\ pc' = [pc EXCEPT ![c] = "read"]
          /\ UNCHANGED <<tok, issued, crossed, switched, step>>
      BY <1>11, <2>2 DEF Renewed, Goto
    <3>2. ~crossed => mem # NoPair /\ issued[tok[c]] = issued[mem]
      BY <2>2, <3>1 DEF SameAccount, Fresh
    <3> QED BY <1>0, <3>1, <3>2 DEF OwnersTokens
  <2> QED BY <2>1, <2>2
<1>12. ASSUME NEW c \in Callers, Denied(c)
      PROVE  OwnersTokens'
  <2>1. /\ mem' = NoPair /\ pc' = [pc EXCEPT ![c] = "out"] /\ tok' = [tok EXCEPT ![c] = NoPair]
        /\ step' = (IF c = Window THEN NoUser ELSE step) /\ switched' = switched /\ crossed' = FALSE
        /\ issued' = issued
    BY <1>12 DEF Denied, Clear, Return
  <2> QED BY <1>0, <2>1 DEF OwnersTokens
<1> QED BY <1>2, <1>3, <1>4, <1>5, <1>6, <1>7, <1>8, <1>9, <1>10, <1>11, <1>12
        DEF Next, SignIn, Call, Refreshes, Answered, Due, Refresh

(* The effect of the window's step.                                        *)
LEMMA EffectGives ==
    ASSUME TypeOK, pc[Window] \in {"sent", "sent2"}, Effect
    PROVE  /\ step \in Owners /\ issued[tok[Window]] \in Users
           /\ \A u \in Owners : \A a \in Users :
                 done'[u][a] = IF u = step /\ a = issued[tok[Window]] THEN Count(done[u][a]) ELSE done[u][a]
<1> USE SessionAssumption
<1>0. Window \in Callers
  BY DEF Callers
<1>1. step \in Owners /\ done \in [Owners -> [Users -> 0..MaxEffects]]
  BY DEF TypeOK
<1>2. tok[Window] \in 1..Len(issued)
  BY <1>0 DEF TypeOK, NoPair
<1>3. issued[tok[Window]] \in Users
  BY <1>2 DEF TypeOK
<1> DEFINE a == issued[tok[Window]]
<1>4. done' = [done EXCEPT ![step] = [done[step] EXCEPT ![a] = Count(done[step][a])]]
  BY DEF Effect
<1>5. a \in Users
  BY <1>3
<1> HIDE DEF a
<1>6. ASSUME NEW u \in Owners, NEW b \in Users
      PROVE  done'[u][b] = IF u = step /\ b = a THEN Count(done[u][b]) ELSE done[u][b]
  BY <1>1, <1>4, <1>5
<1> QED BY <1>1, <1>5, <1>6 DEF a

(* KeyedOnce is preserved.                                                 *)
LEMMA KeyedStep ==
    ASSUME TypeOK, KeyedOnce, Next
    PROVE  KeyedOnce'
<1> USE SessionAssumption DEF client, calls, tokens, server, history
<1>0. /\ pc \in [Callers -> Places] /\ Window \in Callers
      /\ done \in [Owners -> [Users -> 0..MaxEffects]]
      /\ step = NoUser <=> pc[Window] = "out"
      /\ step \in Owners \cup {NoUser}
  BY DEF TypeOK, Callers
<1>1. ASSUME done' = done, ledger' = ledger, keyless' = keyless,
             pc'[Window] = "sent2" => pc[Window] = "sent2" /\ step' = step
      PROVE  KeyedOnce'
  BY <1>1 DEF KeyedOnce
<1>2. ASSUME NEW u \in Users, SignIn(u)
      PROVE  KeyedOnce'
  BY <1>1, <1>2 DEF SignIn, AskSignIn, SignInFails, SignedIn, SaveMetadata
<1>3. CASE SignOut \/ Restart \/ Reload
  BY <1>0, <1>1, <1>3 DEF SignOut, Restart, Reload
<1>4. ASSUME NEW c \in Callers, Confirm(c)
      PROVE  KeyedOnce'
  BY <1>0, <1>1, <1>4 DEF Confirm
<1>5. ASSUME NEW c \in Callers,
             NothingToRefresh(c) \/ NothingToSend(c) \/ Fails(c) \/ RefreshFails(c) \/ Denied(c)
      PROVE  KeyedOnce'
  BY <1>0, <1>1, <1>5 DEF NothingToRefresh, NothingToSend, Fails, RefreshFails, Denied, Return
<1>6. ASSUME NEW c \in Callers, Ask(c) \/ NotDue(c) \/ Deny(c) \/ Send(c) \/ Rotate(c) \/ Renewed(c)
      PROVE  KeyedOnce'
  BY <1>0, <1>1, <1>6 DEF Ask, NotDue, Deny, Send, Rotate, Renewed, Goto
<1>7. ASSUME NEW c \in Callers, Unknown(c)
      PROVE  KeyedOnce'
  <2>1. /\ keyless \subseteq keyless' /\ UNCHANGED <<done, ledger, step>>
        /\ c = Window => step \in keyless'
        /\ pc' = [pc EXCEPT ![c] = "sent2"]
    BY <1>7 DEF Unknown, Goto
  <2> QED BY <1>0, <2>1 DEF KeyedOnce
<1>8. ASSUME NEW c \in Callers, Serve(c)
      PROVE  KeyedOnce'
  <2>1. pc'[Window] = "sent2" => pc[Window] = "sent2" /\ step' = step
    BY <1>0, <1>8 DEF Serve, Return
  <2>2. CASE done' = done /\ ledger' = ledger
    BY <1>1, <1>8, <2>1, <2>2 DEF Serve
  <2>3. CASE /\ c = Window /\ <<issued[tok[c]], step>> \notin ledger /\ Effect
             /\ ledger' = ledger \cup {<<issued[tok[c]], step>>}
    <3> DEFINE b == issued[tok[Window]]
    <3>1. /\ step \in Owners /\ b \in Users
          /\ \A u \in Owners : \A a \in Users :
                done'[u][a] = IF u = step /\ a = b THEN Count(done[u][a]) ELSE done[u][a]
      BY <1>8, <2>3, EffectGives DEF Serve
    <3>2. <<b, step>> \notin ledger /\ ledger' = ledger \cup {<<b, step>>} /\ keyless' = keyless
      BY <1>8, <2>3 DEF Serve
    <3> HIDE DEF b
    <3>3. Count(0) = 1
      BY DEF Count
    <3>4. ASSUME NEW u \in Owners \ keyless, NEW a \in Users, done'[u][a] # 0
          PROVE  done'[u][a] = 1 /\ <<a, u>> \in ledger'
      <4>1. done[u][a] # 0 => done[u][a] = 1 /\ <<a, u>> \in ledger
        BY DEF KeyedOnce
      <4>2. CASE u = step /\ a = b
        BY <3>1, <3>2, <3>3, <4>1, <4>2
      <4>3. CASE ~(u = step /\ a = b)
        BY <3>1, <3>2, <3>4, <4>1, <4>3
      <4> QED BY <4>2, <4>3
    <3> QED BY <2>1, <3>2, <3>4 DEF KeyedOnce
  <2> QED BY <1>8, <2>2, <2>3 DEF Serve
<1>9. ASSUME NEW c \in Callers, Serve2(c)
      PROVE  KeyedOnce'
  <2>1. pc'[Window] = "sent2" => pc[Window] = "sent2" /\ step' = step
    BY <1>0, <1>9 DEF Serve2, Return
  <2>2. ledger' = ledger /\ keyless' = keyless
    BY <1>9 DEF Serve2
  <2>3. CASE done' = done
    BY <1>1, <2>1, <2>2, <2>3
  <2>4. CASE c = Window /\ Effect
    <3>1. \A u \in Owners : \A a \in Users : u # step => done'[u][a] = done[u][a]
      BY <1>9, <2>4, EffectGives DEF Serve2
    <3>2. step \in keyless
      BY <1>9, <2>4 DEF Serve2, KeyedOnce
    <3> QED BY <2>1, <2>2, <3>1, <3>2 DEF KeyedOnce
  <2> QED BY <1>9, <2>3, <2>4 DEF Serve2
<1> QED BY <1>2, <1>3, <1>4, <1>5, <1>6, <1>7, <1>8, <1>9
        DEF Next, Call, Refreshes, Answered, Due, Refresh

LEMMA WholeStep == Whole /\ [Next]_vars => Whole'
<1> SUFFICES ASSUME Whole, [Next]_vars PROVE Whole'
  OBVIOUS
<1>1. CASE Next
  <2>1. TypeOK'
    BY <1>1, TypeAccount, TypeCall DEF Whole, Next
  <2> QED BY <1>1, <2>1, SameStep, OwnersStep, KeyedStep DEF Whole
<1>2. CASE UNCHANGED vars
  <2> USE <1>2 DEF vars, client, calls, tokens, server, history, Whole
  <2>1. Refreshing' = Refreshing
    BY DEF Refreshing
  <2>2. TypeOK'
    <3>1. AccountTyped' /\ TokensTyped' /\ CallsTyped'
      BY TypeParts DEF AccountTyped, TokensTyped, CallsTyped
    <3>2. ServerTyped' /\ HistoryTyped'
      BY <2>1, TypeParts DEF ServerTyped, HistoryTyped
    <3> QED BY <3>1, <3>2 DEF TypeOK, AccountTyped, TokensTyped, CallsTyped, ServerTyped, HistoryTyped
  <2>3. SameAccount' /\ OwnersTokens' /\ KeyedOnce'
    BY DEF SameAccount, Fresh, OwnersTokens, KeyedOnce
  <2> QED BY <2>2, <2>3
<1> QED BY <1>1, <1>2

(* Whole always holds.                                                     *)
THEOREM WholeAlways == Spec => []Whole
<1> QED BY InitWhole, WholeStep, PTL DEF Spec

(* The variables hold what the type invariant says.                        *)
THEOREM TypeCorrect == Spec => []TypeOK
<1>1. Whole => TypeOK
  BY DEF Whole
<1> QED BY <1>1, WholeAlways, PTL

(* The user_id and the tokens of the client belong to one account, unless  *)
(* a sign-in is between its two saves or something has crossed.            *)
THEOREM IdentityIsWhole == Spec => []IdentityWhole
<1>1. Whole => IdentityWhole
  BY DEF Whole, SameAccount, IdentityWhole
<1> QED BY <1>1, WholeAlways, PTL

(* A plan step whose requests all had their key is done at most once in    *)
(* its owner's account, whatever is lost, refreshed or confirmed again.    *)
THEOREM DoneOnce == Spec => []StepOnce
<1>1. Whole => StepOnce
  <2> SUFFICES ASSUME Whole, NEW u \in Owners, done[u][u] > 1, u \notin keyless
               PROVE  FALSE
    BY DEF StepOnce
  <2>1. u \in Users
    BY SessionAssumption
  <2>2. done[u][u] \in 0..MaxEffects
    BY <2>1 DEF Whole, TypeOK
  <2>3. done[u][u] # 0 => done[u][u] = 1
    BY <2>1 DEF Whole, KeyedOnce
  <2> QED BY <2>2, <2>3
<1> QED BY <1>1, WholeAlways, PTL

(* The ownership check holds until the effect: it is done in the account   *)
(* of the plan's owner unless the account changed hands during the step.   *)
THEOREM StepsLandAtHome == Spec => LandsAtHome
<1> DEFINE AtHome == \A u \in Owners : \A a \in Users \ {u} : done'[u][a] # done[u][a] => switched
<1>1. ASSUME Whole, Next PROVE AtHome
  <2> SUFFICES ASSUME NEW u \in Owners, NEW a \in Users \ {u}, done'[u][a] # done[u][a]
               PROVE  switched
    OBVIOUS
  <2>1. pc[Window] \in {"sent", "sent2"} /\ Effect
    <3> USE DEF client, calls, tokens, server, history
    <3>1. (\E v \in Users : SignIn(v)) \/ SignOut \/ Restart \/ Reload => done' = done
      BY DEF SignIn, AskSignIn, SignInFails, SignedIn, SaveMetadata, SignOut, Restart, Reload
    <3>2. ASSUME NEW c \in Callers, Confirm(c) \/ Due(c) \/ NotDue(c) \/ Refreshes(c) \/ Send(c)
                                    \/ NothingToSend(c) \/ Unknown(c) \/ Refresh(c) \/ Fails(c)
          PROVE  done' = done
      BY <3>2 DEF Confirm, Due, NotDue, Refreshes, Rotate, Deny, Renewed, Denied, RefreshFails, Send,
                  NothingToSend, Unknown, Refresh, Fails, Ask, NothingToRefresh
    <3>3. ASSUME NEW c \in Callers, Serve(c) \/ Serve2(c)
          PROVE  done' = done \/ (c = Window /\ pc[c] \in {"sent", "sent2"} /\ Effect)
      BY <3>3 DEF Serve, Serve2
    <3> QED BY <1>1, <3>1, <3>2, <3>3 DEF Next, Call, Answered
  <2>2. u = step /\ a = issued[tok[Window]]
    BY <1>1, <2>1, EffectGives DEF Whole
  <2>3. step # NoUser /\ switched \in BOOLEAN
    BY <1>1, <2>1 DEF Whole, TypeOK
  <2> QED BY <1>1, <2>1, <2>2, <2>3 DEF Whole, OwnersTokens
<1>2. Whole /\ [Next]_vars => [AtHome]_vars
  BY <1>1
<1>3. Spec => [][AtHome]_vars
  BY <1>2, WholeAlways, PTL DEF Spec
<1> QED BY <1>3 DEF LandsAtHome
=============================================================================
