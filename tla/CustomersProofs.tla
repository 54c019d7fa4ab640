---------------------------- MODULE CustomersProofs ----------------------------
(***************************************************************************)
(* Theorems about what belongs to one person, customer or administrator:   *)
(* sessions and second factors, the dashboard and its order desk, carts,   *)
(* addresses, claimed orders and parcels.  They hold for any number of     *)
(* rows, requests, tabs and people.                                        *)
(*                                                                         *)
(* Each rests on an invariant of its own, of three kinds: what a request   *)
(* that holds a lock knows of the row (AuthSessions, SecondFactors,        *)
(* AddressBook), what a copy still says of the row it was taken from, by   *)
(* its version (Carts, OrderDesk) or by the order in which values are      *)
(* handed on (DashboardSession), and which rows an order can be in that    *)
(* only its parcels moved (Shipments).                                     *)
(***************************************************************************)
EXTENDS CustomerServices, TLAPS, FiniteSetTheorems

-----------------------------------------------------------------------------
(* AuthSessions *)

\* A token is a row once it was issued; its session is a row then, too.
TokensAreRows ==
    /\ \A t \in Token : t > issued <=> tokens[t].st = "none"
    /\ \A t \in Token :
          tokens[t].st # "none" /\ tokens[t].session # NoSession
              => sessions[tokens[t].session] # "none"

\* A refresh holds its token, which is live, and knows its session once it has checked it; a
\* revocation has seen tokens that were issued.
TokenIsHeld(r) ==
    /\ \A t \in refreshes[r].seen : t <= issued
    /\ refreshes[r].pc \in {"locked", "checked"} =>
          /\ refreshes[r].token \in Token
          /\ tokenLock[refreshes[r].token] = r
          /\ tokens[refreshes[r].token].st = "live"
    /\ refreshes[r].pc = "checked" => refreshes[r].session = tokens[refreshes[r].token].session

\* Two live tokens of a session are one.
LiveIsOne ==
    \A t, u \in Token :
        /\ tokens[t].st = "live" /\ tokens[u].st = "live"
        /\ tokens[t].session = tokens[u].session /\ tokens[t].session # NoSession
        => t = u

\* The inductive invariant of AuthSessions.
SessionInv ==
    SessionTypeOK /\ TokensAreRows /\ LiveIsOne /\ \A r \in Refresh : TokenIsHeld(r)

\* Rows of refresh_tokens.
TokenRow == [st : {"none", "live", "revoked", "expired"}, session : Session \cup {NoSession}]

\* Tokens that end are those of before, and no longer live.
LEMMA TokensEnd ==
    ASSUME SessionTypeOK, NEW ts \in SUBSET Token
    PROVE  /\ Ended(ts) \in [Token -> TokenRow]
           /\ \A t \in Token : Ended(ts)[t].session = tokens[t].session
           /\ \A t \in Token \ ts : Ended(ts)[t] = tokens[t]
           /\ \A t \in ts : Ended(ts)[t].st = "revoked"
BY DEF SessionTypeOK, Ended, TokenRow

\* The next token, in a table with as many live tokens.
LEMMA TokenIsIssued ==
    ASSUME SessionTypeOK, NEW table \in [Token -> TokenRow], NEW s \in Session, issued < MaxTokens
    PROVE  /\ issued + 1 \in Token
           /\ WithToken(table, s) \in [Token -> TokenRow]
           /\ WithToken(table, s)[issued + 1] = [st |-> "live", session |-> s]
           /\ \A t \in Token \ {issued + 1} : WithToken(table, s)[t] = table[t]
<1>1. issued + 1 \in Token
    BY SessionAssumption DEF SessionTypeOK, Token
<1>2. [st |-> "live", session |-> s] \in TokenRow
    BY DEF TokenRow
<1> QED
    BY <1>1, <1>2 DEF WithToken

\* A step that makes no token live, ends none that is held, and forgets no session.
LEMMA TokensStepBack ==
    ASSUME SessionInv, SessionTypeOK', issued' = issued,
           \A t \in Token : /\ tokens'[t].session = tokens[t].session
                            /\ tokens'[t].st = "live" => tokens[t].st = "live"
                            /\ tokens[t].st = "none" <=> tokens'[t].st = "none",
           \A s \in Session : sessions[s] # "none" => sessions'[s] # "none"
    PROVE  TokensAreRows' /\ LiveIsOne'
BY DEF SessionInv, SessionTypeOK, TokensAreRows, LiveIsOne

\* The next token, of a session that has no live one.
LEMMA TokensStepOn ==
    ASSUME SessionInv, SessionTypeOK', NEW s \in Session, issued < MaxTokens, issued' = issued + 1,
           NEW table \in [Token -> TokenRow], tokens' = WithToken(table, s),
           \A t \in Token : /\ table[t].session = tokens[t].session
                            /\ table[t].st = "live" => tokens[t].st = "live"
                            /\ tokens[t].st = "none" <=> table[t].st = "none",
           \A t \in Token : ~(table[t].st = "live" /\ table[t].session = s),
           \A x \in Session : sessions[x] # "none" => sessions'[x] # "none",
           sessions'[s] # "none"
    PROVE  TokensAreRows' /\ LiveIsOne'
<1>1. /\ issued + 1 \in Token
      /\ tokens'[issued + 1] = [st |-> "live", session |-> s]
      /\ \A t \in Token \ {issued + 1} : tokens'[t] = table[t]
    BY TokenIsIssued DEF SessionInv
<1>2. \A t \in Token : t \in Nat /\ issued \in Nat
    BY DEF SessionInv, SessionTypeOK, Token
<1>3. TokensAreRows'
    <2>1. ASSUME NEW t \in Token PROVE t > issued + 1 <=> tokens'[t].st = "none"
        BY <1>1, <1>2 DEF SessionInv, TokensAreRows
    <2>2. ASSUME NEW t \in Token, tokens'[t].st # "none", tokens'[t].session # NoSession
          PROVE  sessions'[tokens'[t].session] # "none"
        <3>1. CASE t = issued + 1
            BY <1>1, <3>1
        <3>2. CASE t # issued + 1
            <4>1. tokens'[t] = table[t]
                BY <1>1, <3>2
            <4>2. tokens[t].session \in Session
                BY <2>2, <4>1 DEF SessionInv, SessionTypeOK
            <4> QED
                BY <2>2, <4>1, <4>2 DEF SessionInv, TokensAreRows
        <3> QED
            BY <3>1, <3>2
    <2> QED
        BY <2>1, <2>2 DEF TokensAreRows
<1>4. LiveIsOne'
    <2> SUFFICES ASSUME NEW t \in Token, NEW u \in Token,
                        tokens'[t].st = "live", tokens'[u].st = "live",
                        tokens'[t].session = tokens'[u].session, tokens'[t].session # NoSession
                 PROVE  t = u
        BY DEF LiveIsOne
    <2>1. CASE t = issued + 1 \/ u = issued + 1
        BY <1>1, <2>1
    <2>2. CASE t # issued + 1 /\ u # issued + 1
        BY <1>1, <2>2 DEF SessionInv, LiveIsOne
    <2> QED
        BY <2>1, <2>2
<1> QED
    BY <1>3, <1>4

\* The invariant of AuthSessions holds throughout.
LEMMA SessionInductive == SessionSpec => []SessionInv
<1> USE SessionAssumption, UnheldAssumption
<1>0. /\ Idle \in RequestStates /\ Idle.pc = "idle" /\ Idle.seen = {}
      /\ \A t \in Token, s \in Session \cup {NoSession}, seen \in SUBSET Token :
            /\ [Idle EXCEPT !.pc = "locked", !.token = t] \in RequestStates
            /\ [Idle EXCEPT !.pc = "revoking", !.session = s, !.seen = seen] \in RequestStates
    BY DEF Idle, RequestStates
<1>1. SessionInit => SessionInv
  <2> SUFFICES ASSUME SessionInit PROVE SessionInv
      OBVIOUS
  <2>1. SessionTypeOK
      <3>1. issued \in 0..MaxTokens /\ sessions \in [Session -> {"none", "active", "expired", "revoked"}]
          BY DEF SessionInit
      <3>2. tokens \in [Token -> TokenRow]
          BY DEF SessionInit, TokenRow
      <3> QED
          BY <1>0, <3>1, <3>2 DEF SessionInit, SessionTypeOK, TokenRow
  <2>2. TokensAreRows
      BY DEF SessionInit, TokensAreRows, Token
  <2>3. LiveIsOne
      BY DEF SessionInit, LiveIsOne
  <2>4. \A r \in Refresh : TokenIsHeld(r)
      BY <1>0 DEF SessionInit, TokenIsHeld
  <2> QED
      BY <2>1, <2>2, <2>3, <2>4 DEF SessionInv
<1>2. SessionInv /\ [SessionNext]_sessionVars => SessionInv'
  <2> SUFFICES ASSUME SessionInv, [SessionNext]_sessionVars PROVE SessionInv'
      OBVIOUS
  <2>t. /\ sessions \in [Session -> {"none", "active", "expired", "revoked"}]
        /\ tokens \in [Token -> TokenRow] /\ issued \in 0..MaxTokens
        /\ tokenLock \in [Token -> Refresh \cup {Unheld}]
        /\ refreshes \in [Refresh -> RequestStates]
        /\ SessionTypeOK
      BY DEF SessionInv, SessionTypeOK, TokenRow
  <2>h. \A r \in Refresh : TokenIsHeld(r)
      BY DEF SessionInv
  \* A step by which no refresh goes on, and whose tokens are not held.
  <2>o. ASSUME \A t \in Token : tokenLock[t] # Unheld => tokens'[t] = tokens[t],
               UNCHANGED <<issued, tokenLock, refreshes>>
        PROVE  \A r \in Refresh : TokenIsHeld(r)'
      BY <2>t, <2>h, <2>o DEF TokenIsHeld
  \* A step of one request, to which others lose none of their tokens.
  <2>s. ASSUME NEW r \in Refresh, NEW q \in RequestStates, refreshes' = [refreshes EXCEPT ![r] = q],
               \A t \in Token : tokenLock[t] \in Refresh \ {r} =>
                   tokens'[t] = tokens[t] /\ tokenLock'[t] = tokenLock[t],
               issued' = issued, TokenIsHeld(r)'
        PROVE  \A x \in Refresh : TokenIsHeld(x)'
      <3> SUFFICES ASSUME NEW x \in Refresh, x # r PROVE TokenIsHeld(x)'
          BY <2>s
      <3>1. refreshes'[x] = refreshes[x]
          BY <2>s, <2>t
      <3> QED
          BY <2>s, <2>h, <3>1 DEF TokenIsHeld
  <2>1. ASSUME NEW s \in Session, Login(s) PROVE SessionInv'
      <3>1. /\ issued + 1 \in Token /\ tokens' \in [Token -> TokenRow]
            /\ \A t \in Token \ {issued + 1} : tokens'[t] = tokens[t]
          <4>1. issued < MaxTokens /\ tokens' = WithToken(tokens, s)
              BY <2>1 DEF Login
          <4>2. PICK table \in [Token -> TokenRow] : table = tokens
              BY <2>t
          <4>3. /\ issued + 1 \in Token /\ WithToken(table, s) \in [Token -> TokenRow]
                /\ \A t \in Token \ {issued + 1} : WithToken(table, s)[t] = table[t]
              BY <2>t, <4>1, TokenIsIssued
          <4> QED
              BY <4>1, <4>2, <4>3
      <3>2. SessionTypeOK'
          BY <2>1, <2>t, <3>1 DEF Login, SessionTypeOK, TokenRow
      <3>3. tokens[issued + 1].st = "none"
          BY <2>t, <3>1 DEF SessionInv, TokensAreRows
      <3>4. \A t \in Token : ~(tokens[t].st = "live" /\ tokens[t].session = s)
          BY <2>1 DEF Login, SessionInv, TokensAreRows
      <3>5. TokensAreRows' /\ LiveIsOne'
          BY <2>1, <2>t, <3>2, <3>4, TokensStepOn DEF Login
      <3>6. ASSUME NEW r \in Refresh PROVE TokenIsHeld(r)'
          <4>1. /\ refreshes' = refreshes /\ tokenLock' = tokenLock /\ issued' = issued + 1
              BY <2>1 DEF Login
          <4>2. \A t \in refreshes[r].seen : t \in Token /\ t <= issued
              BY <2>t, <2>h DEF TokenIsHeld, RequestStates
          <4>3. \A t \in refreshes[r].seen : t <= issued + 1
              BY <2>t, <4>2 DEF Token
          <4> QED
              BY <2>h, <3>1, <3>3, <4>1, <4>3 DEF TokenIsHeld
      <3> QED
          BY <3>2, <3>5, <3>6 DEF SessionInv
  <2>2. ASSUME NEW s \in Session, ExpireSession(s) PROVE SessionInv'
      <3>1. SessionTypeOK'
          BY <2>2, <2>t DEF ExpireSession, SessionTypeOK
      <3>2. TokensAreRows' /\ LiveIsOne'
          BY <2>2, <2>t, <3>1, TokensStepBack DEF ExpireSession
      <3> QED
          BY <2>2, <2>o, <3>1, <3>2 DEF ExpireSession, SessionInv
  <2>3. ASSUME NEW t \in Token, Logout(t) PROVE SessionInv'
      <3>1. /\ tokens' \in [Token -> TokenRow]
            /\ \A u \in Token : /\ tokens'[u].session = tokens[u].session
                                /\ u # t => tokens'[u] = tokens[u]
                                /\ tokens'[u].st = "live" => tokens[u].st = "live"
                                /\ tokens[u].st = "none" <=> tokens'[u].st = "none"
          BY <2>3, <2>t, TokensEnd DEF Logout
      <3>2. SessionTypeOK' /\ \A x \in Session : sessions[x] # "none" => sessions'[x] # "none"
          BY <2>3, <2>t, <3>1 DEF Logout, SessionTypeOK, TokenRow
      <3>3. TokensAreRows' /\ LiveIsOne'
          BY <2>3, <3>1, <3>2, TokensStepBack DEF Logout
      <3> QED
          BY <2>3, <2>o, <3>1, <3>2, <3>3 DEF Logout, SessionInv
  <2>4. ASSUME NEW t \in Token, ExpireToken(t) PROVE SessionInv'
      <3>1. /\ tokens' \in [Token -> TokenRow]
            /\ \A u \in Token : /\ tokens'[u].session = tokens[u].session
                                /\ u # t => tokens'[u] = tokens[u]
                                /\ tokens'[u].st = "live" => tokens[u].st = "live"
                                /\ tokens[u].st = "none" <=> tokens'[u].st = "none"
          BY <2>4, <2>t DEF ExpireToken, TokenRow
      <3>2. SessionTypeOK'
          BY <2>4, <2>t, <3>1 DEF ExpireToken, SessionTypeOK, TokenRow
      <3>3. TokensAreRows' /\ LiveIsOne'
          BY <2>4, <3>1, <3>2, TokensStepBack DEF ExpireToken
      <3> QED
          BY <2>4, <2>o, <3>1, <3>2, <3>3 DEF ExpireToken, SessionInv
  <2>5. ASSUME NEW r \in Refresh, NEW t \in Token, LockToken(r, t) PROVE SessionInv'
      <3>1. [Idle EXCEPT !.pc = "locked", !.token = t] \in RequestStates
          BY <1>0
      <3>2. SessionTypeOK'
          BY <2>5, <2>t, <3>1 DEF LockToken, SessionTypeOK
      <3>3. TokensAreRows' /\ LiveIsOne'
          BY <2>5, <3>2, TokensStepBack DEF LockToken
      <3>4. refreshes'[r] = [Idle EXCEPT !.pc = "locked", !.token = t] /\ tokenLock'[t] = r
          BY <2>5, <2>t DEF LockToken
      <3>5. refreshes'[r].pc = "locked" /\ refreshes'[r].token = t /\ refreshes'[r].seen = {}
          BY <3>4 DEF Idle
      <3>6. TokenIsHeld(r)'
          BY <2>5, <3>4, <3>5 DEF LockToken, TokenIsHeld
      <3>7. \A u \in Token : tokenLock[u] \in Refresh \ {r} =>
                   tokens'[u] = tokens[u] /\ tokenLock'[u] = tokenLock[u]
          BY <2>5, <2>t DEF LockToken
      <3>8. \A x \in Refresh : TokenIsHeld(x)'
          BY <2>5, <2>s, <3>1, <3>6, <3>7 DEF LockToken
      <3> QED
          BY <3>2, <3>3, <3>8 DEF SessionInv
  <2>6. ASSUME NEW r \in Refresh, CheckSession(r) PROVE SessionInv'
      <3> DEFINE t == refreshes[r].token
      <3>1. t \in Token /\ tokenLock[t] = r /\ tokens[t].st = "live" /\ refreshes[r] \in RequestStates
          BY <2>6, <2>t, <2>h DEF CheckSession, TokenIsHeld
      <3> HIDE DEF t
      <3>2. CASE tokens[t].session = NoSession \/ sessions[tokens[t].session] = "active"
          <4>1. PICK q : q = [refreshes[r] EXCEPT !.pc = "checked", !.session = tokens[t].session]
              OBVIOUS
          <4>2. /\ refreshes' = [refreshes EXCEPT ![r] = q]
                /\ UNCHANGED <<sessions, tokens, issued, tokenLock>>
              BY <2>6, <2>t, <3>2, <4>1 DEF CheckSession, t
          <4>3. /\ q \in RequestStates /\ q.pc = "checked" /\ q.token = t
                /\ q.session = tokens[t].session /\ q.seen = refreshes[r].seen
              BY <2>t, <3>1, <4>1 DEF RequestStates, TokenRow, t
          <4>4. SessionTypeOK'
              BY <2>t, <4>2, <4>3 DEF SessionTypeOK
          <4>5. TokensAreRows' /\ LiveIsOne'
              BY <4>2, <4>4, TokensStepBack
          <4>6. TokenIsHeld(r)'
              BY <2>t, <2>h, <3>1, <4>2, <4>3 DEF TokenIsHeld
          <4>7. \A x \in Refresh : TokenIsHeld(x)'
              BY <2>s, <4>2, <4>3, <4>6
          <4> QED
              BY <4>4, <4>5, <4>7 DEF SessionInv
      <3>3. CASE ~(tokens[t].session = NoSession \/ sessions[tokens[t].session] = "active")
          <4>1. /\ tokens' = Ended({t}) /\ tokenLock' = [tokenLock EXCEPT ![t] = Unheld]
                /\ refreshes' = [refreshes EXCEPT ![r] = Idle] /\ UNCHANGED <<sessions, issued>>
              BY <2>6, <3>3 DEF CheckSession, t
          <4>2. /\ tokens' \in [Token -> TokenRow]
                /\ \A u \in Token : tokens'[u].session = tokens[u].session
                /\ \A u \in Token \ {t} : tokens'[u] = tokens[u]
                /\ tokens'[t].st = "revoked"
              BY <2>t, <3>1, <4>1, TokensEnd
          <4>3. SessionTypeOK'
              BY <1>0, <2>t, <3>1, <4>1, <4>2 DEF SessionTypeOK, TokenRow
          <4>4. TokensAreRows' /\ LiveIsOne'
              BY <3>1, <4>1, <4>2, <4>3, TokensStepBack
          <4>5. TokenIsHeld(r)'
              BY <1>0, <2>t, <4>1 DEF TokenIsHeld
          <4>6. \A u \in Token : tokenLock[u] \in Refresh \ {r} =>
                   tokens'[u] = tokens[u] /\ tokenLock'[u] = tokenLock[u]
              BY <2>t, <3>1, <4>1, <4>2
          <4>7. \A x \in Refresh : TokenIsHeld(x)'
              BY <1>0, <2>s, <4>1, <4>5, <4>6
          <4> QED
              BY <4>3, <4>4, <4>7 DEF SessionInv
      <3> QED
          BY <3>2, <3>3
  <2>7. ASSUME NEW r \in Refresh, RotateToken(r) PROVE SessionInv'
      <3> DEFINE t == refreshes[r].token
      <3>1. /\ t \in Token /\ tokenLock[t] = r /\ tokens[t].st = "live"
            /\ refreshes[r].session = tokens[t].session
          BY <2>7, <2>h DEF RotateToken, TokenIsHeld
      <3> HIDE DEF t
      <3>2. PICK table : table = Ended({t})
          OBVIOUS
      <3>3. /\ table \in [Token -> TokenRow]
            /\ \A u \in Token : table[u].session = tokens[u].session
            /\ \A u \in Token \ {t} : table[u] = tokens[u]
            /\ table[t].st = "revoked"
          BY <2>t, <3>1, <3>2, TokensEnd
      <3>4. PICK s \in Session :
                /\ tokens' = WithToken(table, s)
                /\ \/ s = tokens[t].session /\ sessions' = sessions
                   \/ sessions[s] = "none" /\ sessions' = [sessions EXCEPT ![s] = "active"]
          <4>1. CASE refreshes[r].session # NoSession
              BY <2>7, <2>t, <3>1, <3>2, <4>1 DEF RotateToken, TokenRow, t
          <4>2. CASE refreshes[r].session = NoSession
              BY <2>7, <3>2, <4>2 DEF RotateToken, t
          <4> QED
              BY <4>1, <4>2
      <3>5. /\ issued < MaxTokens /\ issued' = issued + 1
            /\ tokenLock' = [tokenLock EXCEPT ![t] = Unheld]
            /\ refreshes' = [refreshes EXCEPT ![r] = Idle]
          BY <2>7 DEF RotateToken, t
      <3>6. /\ issued + 1 \in Token /\ tokens' \in [Token -> TokenRow]
            /\ \A u \in Token \ {issued + 1} : tokens'[u] = table[u]
          <4>1. /\ issued + 1 \in Token /\ WithToken(table, s) \in [Token -> TokenRow]
                /\ \A u \in Token \ {issued + 1} : WithToken(table, s)[u] = table[u]
              BY <2>t, <3>3, <3>5, TokenIsIssued
          <4> QED
              BY <3>4, <4>1
      <3>7. SessionTypeOK'
          <4>1. issued' \in 0..MaxTokens
              BY <2>t, <3>5, <3>6 DEF Token
          <4>2. sessions' \in [Session -> {"none", "active", "expired", "revoked"}]
              BY <2>t, <3>4
          <4> QED
              BY <1>0, <2>t, <3>1, <3>5, <3>6, <4>1, <4>2 DEF SessionTypeOK, TokenRow
      <3>8. tokens[issued + 1].st = "none"
          BY <2>t, <3>6 DEF SessionInv, TokensAreRows
      <3>9. \A u \in Token : ~(table[u].st = "live" /\ table[u].session = s)
          <4>1. CASE s = tokens[t].session
              BY <3>1, <3>3, <4>1 DEF SessionInv, LiveIsOne
          <4>2. CASE sessions[s] = "none"
              BY <3>3, <4>2 DEF SessionInv, TokensAreRows
          <4> QED
              BY <3>4, <4>1, <4>2
      <3>10. sessions'[s] # "none" /\ \A x \in Session : sessions[x] # "none" => sessions'[x] # "none"
          BY <2>t, <3>1, <3>4 DEF SessionInv, TokensAreRows
      <3>11. \A u \in Token : /\ table[u].session = tokens[u].session
                              /\ table[u].st = "live" => tokens[u].st = "live"
                              /\ tokens[u].st = "none" <=> table[u].st = "none"
          BY <3>1, <3>3
      <3>12. TokensAreRows' /\ LiveIsOne'
          BY <3>3, <3>4, <3>5, <3>7, <3>9, <3>10, <3>11, TokensStepOn
      <3>13. TokenIsHeld(r)'
          BY <1>0, <2>t, <3>5 DEF TokenIsHeld
      <3>14. ASSUME NEW u \in Token, tokenLock[u] \in Refresh \ {r}
             PROVE  tokenLock'[u] = tokenLock[u]
          BY <2>t, <3>1, <3>5, <3>14
      <3>15. ASSUME NEW x \in Refresh \ {r} PROVE TokenIsHeld(x)'
          <4>1. refreshes'[x] = refreshes[x]
              BY <2>t, <3>5
          <4>2. ASSUME refreshes[x].pc \in {"locked", "checked"}
                PROVE  LET u == refreshes[x].token
                       IN u \in Token /\ tokens'[u] = tokens[u] /\ tokenLock'[u] = tokenLock[u]
              <5>1. PICK u : u = refreshes[x].token
                  OBVIOUS
              <5>2. u \in Token /\ tokenLock[u] = x /\ tokens[u].st = "live"
                  BY <2>h, <4>2, <5>1 DEF TokenIsHeld
              <5>3. u # t /\ u # issued + 1
                  BY <3>1, <3>8, <5>2
              <5> QED
                  BY <3>3, <3>6, <3>14, <5>1, <5>2, <5>3
          <4>3. \A u \in refreshes[x].seen : u \in Token /\ u <= issued
              BY <2>t, <2>h DEF TokenIsHeld, RequestStates
          <4>4. \A u \in refreshes[x].seen : u <= issued'
              BY <2>t, <3>5, <4>3 DEF Token
          <4> QED
              BY <2>h, <4>1, <4>2, <4>4 DEF TokenIsHeld
      <3> QED
          BY <3>7, <3>12, <3>13, <3>15 DEF SessionInv
  <2>8. ASSUME NEW r \in Refresh, RefreshFails(r) PROVE SessionInv'
      <3> DEFINE t == refreshes[r].token
      <3>1. t \in Token /\ tokenLock[t] = r /\ tokens[t].st = "live"
          BY <2>8, <2>h DEF RefreshFails, TokenIsHeld
      <3> HIDE DEF t
      <3>2. /\ tokens' \in {tokens, Ended({t})} /\ tokenLock' = [tokenLock EXCEPT ![t] = Unheld]
            /\ refreshes' = [refreshes EXCEPT ![r] = Idle] /\ UNCHANGED <<sessions, issued>>
          BY <2>8 DEF RefreshFails, t
      <3>3. /\ tokens' \in [Token -> TokenRow]
            /\ \A u \in Token : tokens'[u].session = tokens[u].session
            /\ \A u \in Token \ {t} : tokens'[u] = tokens[u]
            /\ tokens'[t].st \in {"live", "revoked"}
          BY <2>t, <3>1, <3>2, TokensEnd
      <3>4. SessionTypeOK'
          BY <1>0, <2>t, <3>1, <3>2, <3>3 DEF SessionTypeOK, TokenRow
      <3>5. \A u \in Token : /\ tokens'[u].st = "live" => tokens[u].st = "live"
                             /\ tokens[u].st = "none" <=> tokens'[u].st = "none"
          BY <3>1, <3>3
      <3>6. TokensAreRows' /\ LiveIsOne'
          BY <3>2, <3>3, <3>4, <3>5, TokensStepBack
      <3>7. TokenIsHeld(r)'
          BY <1>0, <2>t, <3>2 DEF TokenIsHeld
      <3>8. \A u \in Token : tokenLock[u] \in Refresh \ {r} =>
                   tokens'[u] = tokens[u] /\ tokenLock'[u] = tokenLock[u]
          BY <2>t, <3>1, <3>2, <3>3
      <3>9. \A x \in Refresh : TokenIsHeld(x)'
          BY <1>0, <2>s, <3>2, <3>7, <3>8
      <3> QED
          BY <3>4, <3>6, <3>9 DEF SessionInv
  <2>9. ASSUME NEW r \in Refresh, NEW s \in Session, StartRevoke(r, s) PROVE SessionInv'
      <3>1. PICK q : q = [Idle EXCEPT !.pc = "revoking", !.session = s, !.seen = Live(s)]
          OBVIOUS
      <3>2. q \in RequestStates /\ q.pc = "revoking" /\ q.seen = Live(s)
          <4>1. Live(s) \in SUBSET Token
              BY DEF Live
          <4>2. q \in RequestStates
              BY <3>1, <4>1 DEF Idle, RequestStates
          <4> QED
              BY <3>1, <4>2 DEF Idle
      <3>8. \A t \in Live(s) : t <= issued
          BY <2>t DEF Live, Token, SessionInv, TokensAreRows
      <3>3. /\ refreshes' = [refreshes EXCEPT ![r] = q]
            /\ UNCHANGED <<sessions, tokens, issued, tokenLock>>
          BY <2>9, <3>1 DEF StartRevoke
      <3>4. SessionTypeOK'
          BY <2>t, <3>2, <3>3 DEF SessionTypeOK
      <3>5. TokensAreRows' /\ LiveIsOne'
          BY <3>3, <3>4, TokensStepBack
      <3>6. TokenIsHeld(r)'
          BY <2>t, <3>2, <3>3, <3>8 DEF TokenIsHeld
      <3>7. \A x \in Refresh : TokenIsHeld(x)'
          BY <2>s, <3>2, <3>3, <3>6
      <3> QED
          BY <3>4, <3>5, <3>7 DEF SessionInv
  <2>10. ASSUME NEW r \in Refresh, FinishRevoke(r) PROVE SessionInv'
      <3> DEFINE seen == refreshes[r].seen
      <3>1. seen \in SUBSET Token
          BY <2>t DEF RequestStates
      <3> HIDE DEF seen
      <3>2. /\ \A t \in seen : tokenLock[t] = Unheld
            /\ tokens' = Ended(seen) /\ refreshes' = [refreshes EXCEPT ![r] = Idle]
            /\ sessions' = [sessions EXCEPT ![refreshes[r].session] = "revoked"]
            /\ UNCHANGED <<issued, tokenLock>>
          BY <2>10 DEF FinishRevoke, seen
      <3>3. /\ tokens' \in [Token -> TokenRow]
            /\ \A t \in Token : tokens'[t].session = tokens[t].session
            /\ \A t \in Token \ seen : tokens'[t] = tokens[t]
            /\ \A t \in seen : tokens'[t].st = "revoked"
          BY <2>t, <3>1, <3>2, TokensEnd
      <3>4. SessionTypeOK'
          <4>1. sessions' \in [Session -> {"none", "active", "expired", "revoked"}]
              BY <2>t, <3>2
          <4> QED
              BY <1>0, <2>t, <3>2, <3>3, <4>1 DEF SessionTypeOK, TokenRow
      <3>5. ASSUME NEW t \in Token
            PROVE  /\ tokens'[t].st = "live" => tokens[t].st = "live"
                   /\ tokens[t].st = "none" <=> tokens'[t].st = "none"
          <4>1. CASE t \in seen
              <5>1. t <= issued /\ t \in Nat /\ issued \in Nat
                  BY <2>t, <2>h, <4>1 DEF TokenIsHeld, seen, Token
              <5> QED
                  BY <3>3, <4>1, <5>1 DEF SessionInv, TokensAreRows
          <4>2. CASE t \notin seen
              BY <3>3, <4>2
          <4> QED
              BY <4>1, <4>2
      <3>6. \A x \in Session : sessions[x] # "none" => sessions'[x] # "none"
          BY <2>t, <3>2
      <3>7. TokensAreRows' /\ LiveIsOne'
          BY <3>2, <3>3, <3>4, <3>5, <3>6, TokensStepBack
      <3>8. TokenIsHeld(r)'
          BY <1>0, <2>t, <3>2 DEF TokenIsHeld
      <3>9. \A t \in Token : tokenLock[t] \in Refresh \ {r} =>
                   tokens'[t] = tokens[t] /\ tokenLock'[t] = tokenLock[t]
          BY <3>2, <3>3
      <3>10. \A x \in Refresh : TokenIsHeld(x)'
          BY <1>0, <2>s, <3>2, <3>8, <3>9
      <3> QED
          BY <3>4, <3>7, <3>10 DEF SessionInv
  <2>11. CASE UNCHANGED sessionVars
      <3>1. UNCHANGED <<sessions, tokens, issued, tokenLock, refreshes>>
          BY <2>11 DEF sessionVars
      <3>2. SessionTypeOK' /\ TokensAreRows' /\ LiveIsOne'
          BY <3>1 DEF SessionInv, SessionTypeOK, TokensAreRows, LiveIsOne
      <3> QED
          BY <2>h, <3>1, <3>2 DEF SessionInv, TokenIsHeld
  <2>12. ASSUME NEW r \in Refresh, NEW t \in Token, ReplayToken(r, t) PROVE SessionInv'
      <3>1. tokens[t].session \in Session /\ StartRevoke(r, tokens[t].session)
          BY <2>t, <2>12 DEF ReplayToken, TokenRow
      <3> QED
          BY <2>9, <3>1
  <2>13. ASSUME NEW r \in Refresh, NEW s \in Session, RevokeDevice(r, s) PROVE SessionInv'
      BY <2>9, <2>13 DEF RevokeDevice
  <2> QED
      BY <2>1, <2>2, <2>3, <2>4, <2>5, <2>6, <2>7, <2>8, <2>9, <2>10, <2>11, <2>12, <2>13
      DEF SessionNext
<1> QED
    BY <1>1, <1>2, PTL DEF SessionSpec

\* At most one element, at most one.
LEMMA OneAtMost ==
    ASSUME NEW S, \A x, y \in S : x = y
    PROVE  IsFiniteSet(S) /\ Cardinality(S) <= 1 /\ (S # {} => Cardinality(S) = 1)
<1>1. CASE S = {}
    <2>1. IsFiniteSet(S) /\ Cardinality(S) = 0
        BY <1>1, FS_EmptySet
    <2> QED
        BY <1>1, <2>1
<1>2. CASE S # {}
    <2>1. PICK x \in S : TRUE
        BY <1>2
    <2>2. S = {x}
        BY <2>1
    <2>3. IsFiniteSet(S) /\ Cardinality(S) = 1
        BY <2>2, FS_Singleton
    <2> QED
        BY <2>3
<1> QED
    BY <1>1, <1>2

\* A session never has two tokens that could be refreshed (services/authTokens.js), for any
\* number of sessions, tokens and requests.
LEMMA OneLiveFromInv == ASSUME SessionInv PROVE OneLiveToken
<1> SUFFICES ASSUME NEW s \in Session PROVE Cardinality(Live(s)) <= 1
    BY DEF OneLiveToken
<1>1. \A t, u \in Live(s) : t = u
    BY SessionAssumption DEF Live, SessionInv, LiveIsOne
<1> QED
    BY <1>1, OneAtMost

-----------------------------------------------------------------------------
(* OrderClaims *)

\* A guest order that belongs to an account is never given to another one
\* (services/orderClaims.js), for any number of accounts, orders, tokens and requests: both
\* writers of the column ask for an order without owner in the statement or under its lock.
LEMMA OrdersStayOwned == ClaimSpec => OwnerStays
<1> DEFINE Owners == owner = [o \in GuestOrder |-> owner[o]]
           Stays == \A o \in GuestOrder : owner[o] # NoAccount => owner'[o] = owner[o]
<1>1. ClaimInit => Owners
    BY DEF ClaimInit
<1>2. Owners /\ [ClaimNext]_claimVars => Owners' /\ [Stays]_owner
  <2> SUFFICES ASSUME Owners, [ClaimNext]_claimVars PROVE Owners' /\ Stays
      OBVIOUS
  <2>1. ASSUME NEW a \in Account, VerifyEmail(a) PROVE Owners' /\ Stays
      BY <2>1 DEF VerifyEmail, AutoLinked, Unclaimed
  <2>2. ASSUME NEW c \in Claimant, ConfirmClaim(c) PROVE Owners' /\ Stays
      <3>1. PICK q : q = claimant[c]
          OBVIOUS
      <3>2. owner' = IF owner[q.order] = NoAccount THEN [owner EXCEPT ![q.order] = q.account]
                     ELSE owner
          BY <2>2, <3>1 DEF ConfirmClaim, Unclaimed
      <3> QED
          BY <3>2
  <2>3. CASE UNCHANGED owner
      BY <2>3
  <2>4. ASSUME NEW a \in Account, NEW m \in Address,
               RequestEmailChange(a, m) \/ ConfirmEmailChange(a, m) \/ ExpireEmailChange(a, m)
        PROVE  UNCHANGED owner
      BY <2>4 DEF RequestEmailChange, ConfirmEmailChange, ExpireEmailChange
  <2>5. ASSUME NEW c \in Claimant,
               \/ \E a \in Account, o \in GuestOrder : RequestClaim(c, a, o)
               \/ \E t \in DOMAIN claims : LockClaim(c, t)
               \/ IssueClaim(c) \/ AbortClaim(c)
        PROVE  UNCHANGED owner
      BY <2>5 DEF RequestClaim, LockClaim, IssueClaim, AbortClaim
  <2>6. ASSUME \/ \E t \in DOMAIN claims : ExpireClaim(t)
               \/ UNCHANGED claimVars
        PROVE  UNCHANGED owner
      BY <2>6 DEF ExpireClaim, claimVars
  <2> QED
      BY <2>1, <2>2, <2>3, <2>4, <2>5, <2>6 DEF ClaimNext
<1> QED
    BY <1>1, <1>2, PTL DEF ClaimSpec, OwnerStays

-----------------------------------------------------------------------------
(* Carts *)

\* A checkout that was opened has a cart, which only goes on from the version it saw.
CheckoutFollows(k) ==
    LET q == checkouts[k]
    IN q.pc \notin {"idle", "refused"} =>
        /\ q.cart \in Cart /\ carts[q.cart].st # "none"
        /\ q.version <= carts[q.cart].version
        /\ q.pc = "seen" /\ q.version = carts[q.cart].version => q.qty = carts[q.cart].qty

\* The inductive invariant of Carts.
CartInv == CartTypeOK /\ OneOrderAsSeen /\ \A k \in Checkout : CheckoutFollows(k)

\* What a request of the cart does to a row: one without an order gets a new version with its
\* lines, or ends with those it has.
RowGoesOn(old, new) ==
    /\ old.st # "converted" /\ new.st \notin {"none", "converted"}
    /\ new.order = NoCheckout
    /\ old.version <= new.version
    /\ new.version = old.version => new.qty = old.qty

LEMMA CartsGoOn ==
    ASSUME CartInv, checkouts' = checkouts, carts' \in [Cart -> CartStates],
           \A c \in Cart : carts'[c] = carts[c] \/ RowGoesOn(carts[c], carts'[c])
    PROVE  CartInv'
<1>1. ASSUME NEW c \in Cart, RowGoesOn(carts[c], carts'[c])
      PROVE  carts'[c].st # "none" /\ carts'[c].st # "converted" /\ carts'[c].order = NoCheckout
    BY <1>1 DEF RowGoesOn
<1>2. CartTypeOK'
    BY <1>1 DEF CartInv, CartTypeOK
<1>3. ASSUME NEW k \in Checkout PROVE CheckoutFollows(k)'
    <2> SUFFICES ASSUME checkouts[k].pc \notin {"idle", "refused"}
                 PROVE  LET q == checkouts[k]
                        IN /\ q.cart \in Cart /\ carts'[q.cart].st # "none"
                           /\ q.version <= carts'[q.cart].version
                           /\ q.pc = "seen" /\ q.version = carts'[q.cart].version
                                => q.qty = carts'[q.cart].qty
        BY DEF CheckoutFollows
    <2>1. PICK q : q = checkouts[k]
        OBVIOUS
    <2>2. CheckoutFollows(k)
        BY DEF CartInv
    <2>3. PICK c \in Cart : c = q.cart
        BY <2>1, <2>2 DEF CheckoutFollows
    <2>4. q.version \in Nat /\ carts[c].version \in Nat /\ carts'[c].version \in Nat
        BY <2>1 DEF CartInv, CartTypeOK, CartStates, CheckoutStates
    <2>5. CASE carts'[c] = carts[c]
        BY <2>1, <2>2, <2>3, <2>5 DEF CheckoutFollows
    <2>6. CASE RowGoesOn(carts[c], carts'[c])
        BY <2>1, <2>2, <2>3, <2>4, <2>6 DEF CheckoutFollows, RowGoesOn
    <2> QED
        BY <2>1, <2>3, <2>5, <2>6
<1>4. ASSUME NEW k \in Checkout, Standing(k)
      PROVE  /\ carts'[checkouts[k].cart].order = k
             /\ checkouts[k].version # NoVersion
                  => carts'[checkouts[k].cart].qty = checkouts[k].qty
    <2>1. checkouts[k].cart \in Cart
        BY <1>4 DEF CartInv, CheckoutFollows, Standing, OrderAsSeen
    <2>2. /\ carts[checkouts[k].cart].order = k
          /\ checkouts[k].version # NoVersion
               => carts[checkouts[k].cart].qty = checkouts[k].qty
        BY <1>4 DEF CartInv, OneOrderAsSeen, OrderAsSeen
    <2>3. carts[checkouts[k].cart].st = "converted"
        BY <2>1, <2>2, CartAssumption DEF CartInv, CartTypeOK
    <2> QED
        BY <2>1, <2>2, <2>3 DEF RowGoesOn
<1>5. OneOrderAsSeen'
    BY <1>4 DEF OneOrderAsSeen, OrderAsSeen, Standing
<1> QED
    BY <1>2, <1>3, <1>5 DEF CartInv

\* A step of one checkout, by which no cart moves.
LEMMA CheckoutGoesOn ==
    ASSUME CartInv, carts' = carts, NEW k \in Checkout, NEW q \in CheckoutStates,
           checkouts' = [checkouts EXCEPT ![k] = q], CheckoutFollows(k)',
           Standing(k)' => /\ carts[q.cart].order = k
                           /\ q.version # NoVersion => carts[q.cart].qty = q.qty
    PROVE  CartInv'
<1>1. /\ checkouts' \in [Checkout -> CheckoutStates] /\ checkouts'[k] = q
      /\ \A x \in Checkout \ {k} : checkouts'[x] = checkouts[x]
    BY DEF CartInv, CartTypeOK
<1>2. CartTypeOK'
    BY <1>1 DEF CartInv, CartTypeOK
<1>3. \A x \in Checkout : CheckoutFollows(x)'
    BY <1>1 DEF CartInv, CheckoutFollows
<1>4. OneOrderAsSeen'
    BY <1>1 DEF CartInv, OneOrderAsSeen, OrderAsSeen, Standing
<1> QED
    BY <1>2, <1>3, <1>4 DEF CartInv

\* A priced row, of a cart that there is or is created by the request.
LEMMA RowIsPriced ==
    ASSUME CartInv, NEW c \in Cart, NEW whose \in {"customer", "guest"}, NEW qty \in 0..MaxQty,
           carts[c].st = "active" \/ carts[c] = Unborn, carts[c].version < MaxVersion - 1
    PROVE  /\ Priced(Resolved(c, whose), c, qty) \in [Cart -> CartStates]
           /\ \A x \in Cart \ {c} : Priced(Resolved(c, whose), c, qty)[x] = carts[x]
           /\ RowGoesOn(carts[c], Priced(Resolved(c, whose), c, qty)[c])
<1>0. carts \in [Cart -> CartStates] /\ MaxVersion \in Nat
    BY CartAssumption DEF CartInv, CartTypeOK
<1>1. PICK table : table = Resolved(c, whose)
    OBVIOUS
<1>2. /\ table \in [Cart -> CartStates] /\ \A x \in Cart \ {c} : table[x] = carts[x]
      /\ table[c].st = "active" /\ table[c].order = NoCheckout
      /\ table[c].version < MaxVersion /\ carts[c].version <= table[c].version
    <2>1. CASE carts[c] = Unborn
        <3>1. PICK row : row = Born(whose, 0)
            OBVIOUS
        <3>2. /\ row \in CartStates /\ row.st = "active" /\ row.order = NoCheckout /\ row.version = 1
              /\ Unborn.version = 0
            <4>1. row = [st |-> "active", owner |-> whose, qty |-> 0, version |-> 1,
                         order |-> NoCheckout]
                BY <3>1 DEF Born, Unborn
            <4>2. 0 \in 0..MaxQty /\ 1 \in 0..MaxVersion
                BY CartAssumption
            <4> QED
                BY <4>1, <4>2 DEF Unborn, CartStates
        <3>3. table = [carts EXCEPT ![c] = row]
            BY <1>1, <2>1, <3>1 DEF Resolved
        <3> QED
            BY <1>0, <2>1, <3>2, <3>3
    <2>2. CASE carts[c] # Unborn
        <3>1. table = carts /\ carts[c].st = "active" /\ carts[c].version \in Nat
            BY <1>0, <1>1, <2>2 DEF Resolved, CartStates
        <3> QED
            BY <1>0, <3>1 DEF CartInv, CartTypeOK
    <2> QED
        BY <2>1, <2>2
<1>3. PICK row : row = [table[c] EXCEPT !.qty = qty, !.version = @ + 1]
    OBVIOUS
<1>4. Priced(table, c, qty) = [table EXCEPT ![c] = row]
    BY <1>2, <1>3 DEF Priced
<1>5. /\ row \in CartStates /\ row.st = "active" /\ row.order = NoCheckout
      /\ row.version = table[c].version + 1
    <2>1. table[c] \in CartStates /\ table[c].version + 1 \in 0..MaxVersion
        BY <1>0, <1>2 DEF CartStates
    <2> QED
        BY <1>2, <1>3, <2>1 DEF CartStates
<1>6. carts[c].version \in Nat /\ table[c].version \in Nat /\ carts[c].st # "converted"
    BY <1>0, <1>2 DEF CartStates, Unborn
<1> QED
    BY <1>1, <1>2, <1>4, <1>5, <1>6 DEF RowGoesOn

\* The invariant of Carts holds throughout.
LEMMA CartInductive == CartSpec => []CartInv
<1> USE CartAssumption
<1>1. CartInit => CartInv
  <2> SUFFICES ASSUME CartInit PROVE CartInv
      OBVIOUS
  <2>1. Unborn \in CartStates /\ Unborn.st = "none" /\ Unborn.order = NoCheckout
      BY DEF Unborn, CartStates
  <2>2. CartTypeOK
      BY <2>1 DEF CartInit, CartTypeOK, CheckoutStates, NoView, NoVersion
  <2>3. OneOrderAsSeen /\ \A k \in Checkout : CheckoutFollows(k)
      BY DEF CartInit, OneOrderAsSeen, OrderAsSeen, Standing, CheckoutFollows, NoView
  <2> QED
      BY <2>2, <2>3 DEF CartInv
<1>2. CartInv /\ [CartNext]_cartVars => CartInv'
  <2> SUFFICES ASSUME CartInv, [CartNext]_cartVars PROVE CartInv'
      OBVIOUS
  <2>t. /\ carts \in [Cart -> CartStates] /\ checkouts \in [Checkout -> CheckoutStates]
        /\ \A c \in Cart : carts[c].st = "converted" <=> carts[c].order # NoCheckout
      BY DEF CartInv, CartTypeOK
  <2>1. ASSUME NEW c \in Cart, ViewCart(c) PROVE CartInv'
      <3>1. PICK qty \in 0..carts[c].qty : carts' = Priced(carts, c, qty)
          BY <2>1 DEF ViewCart
      <3>2. PICK row : row = [carts[c] EXCEPT !.qty = qty, !.version = @ + 1]
          OBVIOUS
      <3>3. carts[c].st = "active" /\ carts[c].version < MaxVersion /\ checkouts' = checkouts
          BY <2>1 DEF ViewCart
      <3>4. row \in CartStates /\ row.st = "active" /\ row.version = carts[c].version + 1
            /\ row.order = carts[c].order /\ carts[c].version \in Nat
          <4>1. PICK old \in CartStates : old = carts[c]
              BY <2>t
          <4>2. /\ old.version \in Nat /\ old.qty \in 0..MaxQty
                /\ old.version + 1 \in 0..MaxVersion
              BY <3>3, <4>1 DEF CartStates
          <4>3. qty \in 0..MaxQty
              BY <4>1, <4>2
          <4>4. row = [old EXCEPT !.qty = qty, !.version = old.version + 1]
              BY <3>2, <4>1
          <4>5. row \in CartStates
              BY <4>2, <4>3, <4>4 DEF CartStates
          <4> QED
              BY <3>3, <4>1, <4>2, <4>4, <4>5 DEF CartStates
      <3>5. carts' = [carts EXCEPT ![c] = row]
          BY <2>t, <3>1, <3>2 DEF Priced
      <3>6. RowGoesOn(carts[c], row)
          BY <2>t, <3>3, <3>4 DEF RowGoesOn
      <3> QED
          BY <2>t, <3>3, <3>4, <3>5, <3>6, CartsGoOn
  <2>2. ASSUME NEW c \in Cart, EndCart(c) PROVE CartInv'
      <3>1. carts' = [carts EXCEPT ![c].st = "ended"]
          BY <2>2 DEF EndCart
      <3>2. PICK row : row = [carts[c] EXCEPT !.st = "ended"]
          OBVIOUS
      <3>3. /\ row \in CartStates /\ row.st = "ended" /\ row.version = carts[c].version
            /\ row.qty = carts[c].qty /\ row.order = carts[c].order /\ carts[c].version \in Nat
          BY <2>t, <3>2 DEF CartStates
      <3>4. carts' = [carts EXCEPT ![c] = row] /\ carts[c].st = "active" /\ checkouts' = checkouts
          BY <2>2, <2>t, <3>1, <3>2 DEF EndCart
      <3>5. RowGoesOn(carts[c], row)
          BY <2>t, <3>3, <3>4 DEF RowGoesOn
      <3> QED
          BY <2>t, <3>3, <3>4, <3>5, CartsGoOn
  <2>3. ASSUME NEW c \in Cart, NEW whose \in {"customer", "guest"}, MutateCart(c, whose)
        PROVE  CartInv'
      <3>1. PICK qty \in 0..MaxQty : carts' = Priced(Resolved(c, whose), c, qty)
          BY <2>3 DEF MutateCart
      <3>2. /\ carts[c].st = "active" \/ carts[c] = Unborn
            /\ carts[c].version < MaxVersion - 1 /\ checkouts' = checkouts
          BY <2>3 DEF MutateCart, ResolveCustomerCart, ResolveGuestCart, OfCustomer
      <3>3. /\ carts' \in [Cart -> CartStates] /\ RowGoesOn(carts[c], carts'[c])
            /\ \A x \in Cart \ {c} : carts'[x] = carts[x]
          BY <3>1, <3>2, RowIsPriced
      <3> QED
          BY <3>2, <3>3, CartsGoOn
  <2>4. ASSUME NEW g \in Cart, NEW c \in Cart, MergeGuestIntoCustomer(g, c) PROVE CartInv'
      <3>1. PICK qty : qty = IF carts[g].qty + carts[c].qty > MaxQty THEN MaxQty
                             ELSE carts[g].qty + carts[c].qty
          OBVIOUS
      <3>2. qty \in 0..MaxQty
          BY <2>t, <3>1 DEF CartStates
      <3>3. /\ carts[c].st = "active" \/ carts[c] = Unborn
            /\ carts[c].version < MaxVersion - 1 /\ checkouts' = checkouts
            /\ g # c /\ carts[g].st = "active"
          BY <2>4 DEF MergeGuestIntoCustomer, ResolveCustomerCart, OfCustomer
      <3>4. PICK table : table = Priced(Resolved(c, "customer"), c, qty)
          OBVIOUS
      <3>5. /\ table \in [Cart -> CartStates] /\ RowGoesOn(carts[c], table[c])
            /\ \A x \in Cart \ {c} : table[x] = carts[x]
          BY <3>2, <3>3, <3>4, RowIsPriced
      <3>6. PICK row : row = [table[g] EXCEPT !.st = "merged", !.owner = "customer"]
          OBVIOUS
      <3>7. carts' = [table EXCEPT ![g] = row]
          BY <2>4, <3>1, <3>4, <3>5, <3>6 DEF MergeGuestIntoCustomer
      <3>8. /\ row \in CartStates /\ row.st = "merged" /\ row.version = carts[g].version
            /\ row.qty = carts[g].qty /\ row.order = carts[g].order /\ carts[g].version \in Nat
          <4>1. PICK old \in CartStates : old = carts[g] /\ old = table[g]
              BY <2>t, <3>3, <3>5
          <4>2. row = [old EXCEPT !.st = "merged", !.owner = "customer"]
              BY <3>6, <4>1
          <4>3. row \in CartStates
              BY <4>2 DEF CartStates
          <4>4. /\ row.st = "merged" /\ row.version = old.version
                /\ row.qty = old.qty /\ row.order = old.order /\ old.version \in Nat
              BY <4>2 DEF CartStates
          <4> QED
              BY <4>1, <4>3, <4>4
      <3>9. RowGoesOn(carts[g], row)
          BY <2>t, <3>3, <3>8 DEF RowGoesOn
      <3> QED
          BY <3>3, <3>5, <3>7, <3>8, <3>9, CartsGoOn
  <2>5. ASSUME NEW k \in Checkout, NEW c \in Cart, OpenCheckout(k, c) PROVE CartInv'
      <3>1. PICK version \in {carts[c].version, NoVersion} :
                checkouts' = [checkouts EXCEPT ![k] =
                    [pc |-> "seen", cart |-> c, version |-> version, qty |-> carts[c].qty]]
          BY <2>5 DEF OpenCheckout
      <3>a. PICK q : q = [pc |-> "seen", cart |-> c, version |-> version, qty |-> carts[c].qty]
          OBVIOUS
      <3>2. /\ checkouts' = [checkouts EXCEPT ![k] = q] /\ carts' = carts
            /\ carts[c].st = "active"
          BY <2>5, <3>1, <3>a DEF OpenCheckout
      <3>b. /\ carts[c].version \in 0..MaxVersion /\ version \in 0..MaxVersion
            /\ version <= carts[c].version /\ carts[c].qty \in 0..MaxQty
          BY <2>t, <3>1 DEF CartStates, NoVersion
      <3>3. /\ q \in CheckoutStates /\ q.pc = "seen" /\ q.cart = c /\ q.version <= carts[c].version
            /\ q.qty = carts[c].qty
          BY <3>a, <3>b DEF CheckoutStates
      <3>4. CheckoutFollows(k)' /\ ~Standing(k)'
          BY <2>t, <3>2, <3>3 DEF CheckoutFollows, Standing, OrderAsSeen
      <3> QED
          BY <3>2, <3>3, <3>4, CheckoutGoesOn
  <2>6. ASSUME NEW k \in Checkout, PlaceOrder(k) PROVE CartInv'
      <3>1. PICK c \in Cart : c = checkouts[k].cart
          BY <2>6 DEF CartInv, CheckoutFollows, PlaceOrder
      <3>2. /\ checkouts[k].pc = "seen" /\ carts[c].st = "active"
            /\ checkouts[k].version <= carts[c].version
            /\ checkouts[k].version # NoVersion => carts[c].qty = checkouts[k].qty
          BY <2>6, <3>1 DEF CartInv, CheckoutFollows, PlaceOrder, VersionConflict
      <3>3. PICK row, q : /\ row = [carts[c] EXCEPT !.st = "converted", !.order = k]
                          /\ q = [checkouts[k] EXCEPT !.pc = "initializing"]
          OBVIOUS
      <3>4. carts' = [carts EXCEPT ![c] = row] /\ checkouts' = [checkouts EXCEPT ![k] = q]
          BY <2>6, <2>t, <3>1, <3>3 DEF PlaceOrder, Convert
      <3>5. /\ row \in CartStates /\ row.st = "converted" /\ row.order = k /\ k # NoCheckout
            /\ row.qty = carts[c].qty /\ row.version = carts[c].version
          BY <2>t, <3>3 DEF CartStates
      <3>6. /\ q \in CheckoutStates /\ q.pc = "initializing" /\ q.cart = c
            /\ q.version <= carts[c].version
            /\ q.version # NoVersion => q.qty = carts[c].qty
          BY <2>t, <3>1, <3>2, <3>3 DEF CheckoutStates
      <3>7. CartTypeOK'
          BY <2>t, <3>4, <3>5, <3>6 DEF CartTypeOK
      <3>8. ASSUME NEW x \in Checkout
            PROVE  CheckoutFollows(x)' /\ (Standing(x)' => OrderAsSeen(x)')
          <4>0. carts[c].version \in Nat
              BY <2>t DEF CartStates
          <4>1. CASE x = k
              <5>1. checkouts'[x] = q /\ carts'[c] = row
                  BY <2>t, <3>4, <4>1
              <5> QED
                  BY <3>5, <3>6, <4>0, <4>1, <5>1 DEF CheckoutFollows, Standing, OrderAsSeen
          <4>2. CASE x # k
              <5>1. checkouts'[x] = checkouts[x] /\ CheckoutFollows(x)
                  BY <2>t, <3>4, <4>2 DEF CartInv
              <5>2. PICK y : y = checkouts[x]
                  OBVIOUS
              <5>3. CASE y.cart = c
                  <6>1. carts'[c] = row
                      BY <2>t, <3>4
                  <6>2. ~Standing(x)
                      BY <2>t, <3>2, <4>2, <5>2, <5>3 DEF CartInv, OneOrderAsSeen, OrderAsSeen
                  <6> QED
                      BY <3>5, <5>1, <5>2, <5>3, <6>1, <6>2 DEF CheckoutFollows, Standing, OrderAsSeen
              <5>4. CASE y.cart # c /\ y.pc \notin {"idle", "refused"}
                  <6>1. y.cart \in Cart /\ carts'[y.cart] = carts[y.cart]
                      BY <2>t, <3>4, <5>1, <5>2, <5>4 DEF CheckoutFollows
                  <6> QED
                      BY <5>1, <5>2, <6>1 DEF CheckoutFollows, CartInv, OneOrderAsSeen, OrderAsSeen, Standing
              <5>5. CASE y.pc \in {"idle", "refused"}
                  BY <5>1, <5>2, <5>5 DEF CheckoutFollows, Standing, OrderAsSeen
              <5> QED
                  BY <5>3, <5>4, <5>5
          <4> QED
              BY <4>1, <4>2
      <3> QED
          BY <3>7, <3>8 DEF CartInv, OneOrderAsSeen, OrderAsSeen
  <2>11. ASSUME NEW k \in Checkout, RefuseOrder(k) PROVE CartInv'
      <3>1. PICK q : q = [NoView EXCEPT !.pc = "refused"]
          OBVIOUS
      <3>2. q \in CheckoutStates /\ q.pc = "refused"
          BY <3>1 DEF NoView, NoVersion, CheckoutStates
      <3>3. checkouts' = [checkouts EXCEPT ![k] = q] /\ checkouts'[k] = q /\ carts' = carts
          BY <2>11, <2>t, <3>1 DEF RefuseOrder
      <3>4. CheckoutFollows(k)' /\ ~Standing(k)'
          BY <3>2, <3>3 DEF CheckoutFollows, Standing
      <3> QED
          BY <3>2, <3>3, <3>4, CheckoutGoesOn
  <2>7. ASSUME NEW k \in Checkout, InitializePayment(k) PROVE CartInv'
      <3>1. PICK pc \in {"placed", "failing"} :
                /\ checkouts' = [checkouts EXCEPT ![k].pc = pc] /\ carts' = carts
                /\ Standing(k)
          BY <2>7 DEF InitializePayment, Standing
      <3>2. checkouts[k].pc \notin {"idle", "refused"}
          BY <2>7 DEF InitializePayment
      <3>3. PICK q : q = [checkouts[k] EXCEPT !.pc = pc]
          OBVIOUS
      <3>4. checkouts' = [checkouts EXCEPT ![k] = q] /\ checkouts'[k] = q
          BY <2>t, <3>1, <3>3
      <3>5. /\ q \in CheckoutStates /\ q.pc = pc /\ q.cart = checkouts[k].cart
            /\ q.version = checkouts[k].version /\ q.qty = checkouts[k].qty
          BY <2>t, <3>3 DEF CheckoutStates
      <3>6. CheckoutFollows(k)'
          BY <3>1, <3>2, <3>4, <3>5 DEF CheckoutFollows, CartInv
      <3>7. Standing(k)' => /\ carts[q.cart].order = k
                            /\ q.version # NoVersion => carts[q.cart].qty = q.qty
          BY <3>1, <3>4, <3>5 DEF Standing, CartInv, OneOrderAsSeen, OrderAsSeen
      <3> QED
          BY <3>1, <3>4, <3>5, <3>6, <3>7, CheckoutGoesOn
  <2>8. ASSUME NEW k \in Checkout, CompensateCheckout(k) PROVE CartInv'
      <3>0. checkouts[k].pc = "failing"
          BY <2>8 DEF CompensateCheckout
      <3>1. PICK c \in Cart : c = checkouts[k].cart
          BY <3>0 DEF CartInv, CheckoutFollows
      <3>2. /\ carts[c].order = k /\ carts[c].st = "converted"
            /\ checkouts[k].version # NoVersion => carts[c].qty = checkouts[k].qty
            /\ checkouts[k].version <= carts[c].version
          BY <2>t, <3>0, <3>1 DEF CartInv, OneOrderAsSeen, OrderAsSeen, Standing, CheckoutFollows
      <3>3. PICK row : row = [carts[c] EXCEPT !.st = "active", !.order = NoCheckout]
          OBVIOUS
      <3>4. PICK pc \in {"stuck", "cancelled"} :
                /\ checkouts' = [checkouts EXCEPT ![k].pc = pc]
                /\ pc = "stuck" => carts' = carts
                /\ pc = "cancelled" => carts' = [carts EXCEPT ![c] = row]
          BY <2>8, <2>t, <3>1, <3>3 DEF CompensateCheckout
      <3>5. PICK q : q = [checkouts[k] EXCEPT !.pc = pc]
          OBVIOUS
      <3>6. checkouts' = [checkouts EXCEPT ![k] = q] /\ checkouts'[k] = q
          BY <2>t, <3>4, <3>5
      <3>7. /\ q \in CheckoutStates /\ q.pc = pc /\ q.cart = c
            /\ q.version = checkouts[k].version /\ q.qty = checkouts[k].qty
          BY <2>t, <3>1, <3>5 DEF CheckoutStates
      <3>8. CASE pc = "stuck"
          <4>1. CheckoutFollows(k)'
              BY <3>0, <3>1, <3>4, <3>6, <3>7, <3>8 DEF CheckoutFollows, CartInv
          <4> QED
              BY <3>2, <3>4, <3>6, <3>7, <3>8, <4>1, CheckoutGoesOn
      <3>9. CASE pc = "cancelled"
          <4>1. carts' = [carts EXCEPT ![c] = row]
              BY <3>4, <3>9
          <4>2. /\ row \in CartStates /\ row.st = "active" /\ row.order = NoCheckout
                /\ row.qty = carts[c].qty /\ row.version = carts[c].version
              BY <2>t, <3>3 DEF CartStates
          <4>3. CartTypeOK'
              BY <2>t, <3>6, <3>7, <4>1, <4>2 DEF CartTypeOK
          <4>4. ASSUME NEW x \in Checkout
                PROVE  CheckoutFollows(x)' /\ (Standing(x)' => OrderAsSeen(x)')
              <5>1. CASE x = k
                  <6>1. checkouts'[x] = q /\ carts'[c] = row
                      BY <2>t, <3>6, <4>1, <5>1
                  <6> QED
                      BY <3>2, <3>7, <3>9, <4>2, <5>1, <6>1 DEF CheckoutFollows, Standing, OrderAsSeen
              <5>2. CASE x # k
                  <6>1. checkouts'[x] = checkouts[x] /\ CheckoutFollows(x)
                      BY <2>t, <3>6, <5>2 DEF CartInv
                  <6>2. PICK y : y = checkouts[x]
                      OBVIOUS
                  <6>3. CASE y.cart = c
                      <7>1. carts'[c] = row
                          BY <2>t, <4>1
                      <7>2. ~Standing(x)
                          BY <3>2, <5>2, <6>2, <6>3 DEF CartInv, OneOrderAsSeen, OrderAsSeen
                      <7> QED
                          BY <4>2, <6>1, <6>2, <6>3, <7>1, <7>2 DEF CheckoutFollows, Standing, OrderAsSeen
                  <6>4. CASE y.cart # c /\ y.pc \notin {"idle", "refused"}
                      <7>1. y.cart \in Cart /\ carts'[y.cart] = carts[y.cart]
                          BY <2>t, <4>1, <6>1, <6>2, <6>4 DEF CheckoutFollows
                      <7> QED
                          BY <6>1, <6>2, <7>1 DEF CheckoutFollows, CartInv, OneOrderAsSeen, OrderAsSeen, Standing
                  <6>5. CASE y.pc \in {"idle", "refused"}
                      BY <6>1, <6>2, <6>5 DEF CheckoutFollows, Standing, OrderAsSeen
                  <6> QED
                      BY <6>3, <6>4, <6>5
              <5> QED
                  BY <5>1, <5>2
          <4> QED
              BY <4>3, <4>4 DEF CartInv, OneOrderAsSeen, OrderAsSeen
      <3> QED
          BY <3>8, <3>9
  <2>9. CASE UNCHANGED cartVars
      BY <2>9 DEF cartVars, CartInv, CartTypeOK, OneOrderAsSeen, OrderAsSeen, Standing, CheckoutFollows
  <2> QED
      BY <2>1, <2>2, <2>3, <2>4, <2>5, <2>6, <2>7, <2>8, <2>9, <2>11 DEF CartNext
<1> QED
    BY <1>1, <1>2, PTL DEF CartSpec

-----------------------------------------------------------------------------
(* AddressBook *)

EditStates ==
    [pc : {"idle", "clear"} \cup Kind, op : {"create", "edit"}, row : Slot \cup {NoSlot},
     asked : SUBSET Kind, todo : SUBSET Kind, found : Slot \cup {NoSlot},
     cleared : SUBSET (Slot \X Kind)]
BookTypeOK ==
    /\ book \in [Slot -> [live : BOOLEAN, of : SUBSET Kind]]
    /\ edit \in [Shopper -> EditStates]
    /\ rowLock \in [Slot -> Shopper \cup {NoShopper}]

\* At most one row is the default of a kind, and a row that is not live is of none.
DefaultIsOne ==
    /\ \A k \in Kind : \A s, u \in DefaultOf(k) : s = u
    /\ \A s \in Slot : ~book[s].live => book[s].of = {}

\* An update holds its row, which is live; a create has chosen a row that is not.  A request
\* has cleared, or is about to clear, defaults of the kinds it asks for, and none of the row at
\* hand.
EditHolds(p) ==
    LET q == edit[p]
    IN q.pc # "idle" =>
        /\ q.row \in Slot
        /\ q.op = "edit" => rowLock[q.row] = p /\ book[q.row].live
        /\ q.op = "create" => ~book[q.row].live
        /\ q.todo \subseteq q.asked
        /\ q.pc \in Kind => q.pc \in q.asked
        /\ \A s \in Slot, k \in Kind : <<s, k>> \in q.cleared => k \in q.asked

\* Two creates have chosen two rows.
CreatesApart ==
    \A p, q \in Shopper :
        /\ edit[p].pc # "idle" /\ edit[q].pc # "idle"
        /\ edit[p].op = "create" /\ edit[q].op = "create" /\ edit[p].row = edit[q].row
        => p = q

\* The inductive invariant of AddressBook.
BookInv == BookTypeOK /\ DefaultIsOne /\ CreatesApart /\ \A p \in Shopper : EditHolds(p)

\* A request that has found a row, and one that is done with it.
Sought(q, k, s) ==
    [q EXCEPT !.todo = q.todo \ {k}, !.found = s, !.pc = IF s = NoSlot THEN "clear" ELSE k]
Emptied(q, cleared) == [q EXCEPT !.pc = "clear", !.found = NoSlot, !.cleared = cleared]

\* What DefaultStays says of one step.
DefaultsStay ==
    \A k \in Kind :
        DefaultOf(k) # {} => \/ Cardinality(DefaultOf(k)') = 1
                             \/ \E s \in DefaultOf(k) : ~book'[s].live

\* A step that leaves a kind's defaults as they are, or to one row.
LEMMA DefaultsGoOn ==
    ASSUME BookInv, \A k \in Kind : DefaultOf(k)' = DefaultOf(k) \/ \E s \in Slot : DefaultOf(k)' = {s}
    PROVE  DefaultsStay /\ \A k \in Kind : \A s, u \in DefaultOf(k)' : s = u
<1> SUFFICES ASSUME NEW k \in Kind
             PROVE  /\ DefaultOf(k) # {} => Cardinality(DefaultOf(k)') = 1
                    /\ \A s, u \in DefaultOf(k)' : s = u
    BY DEF DefaultsStay
<1>1. PICK S : S = DefaultOf(k)'
    OBVIOUS
<1>2. \A s, u \in S : s = u
    BY <1>1 DEF BookInv, DefaultIsOne
<1>3. S # {} => Cardinality(S) = 1
    BY <1>2, OneAtMost
<1>4. DefaultOf(k) # {} => S # {}
    BY <1>1
<1> QED
    BY <1>1, <1>2, <1>3, <1>4

\* A transaction ends, with the rows it found or with others.
LEMMA EditEnds ==
    ASSUME BookInv, NEW p \in Shopper, NEW rows \in [Slot -> [live : BOOLEAN, of : SUBSET Kind]],
           EndEdit(p, rows),
           \A s \in Slot : ~rows[s].live => rows[s].of = {},
           \A k \in Kind : \A s, u \in Slot :
              rows[s].live /\ rows[u].live /\ k \in rows[s].of /\ k \in rows[u].of => s = u,
           \A s \in Slot : book[s].live => rows[s].live,
           \A s \in Slot : rows[s].live /\ ~book[s].live =>
              edit[p].pc # "idle" /\ edit[p].op = "create" /\ edit[p].row = s
    PROVE  BookInv'
<1>0. NoEdit \in EditStates /\ NoEdit.pc = "idle"
    BY DEF NoEdit, EditStates
<1>1. /\ book' = rows /\ edit' = [edit EXCEPT ![p] = NoEdit]
      /\ rowLock' = [s \in Slot |-> IF rowLock[s] = p THEN NoShopper ELSE rowLock[s]]
    BY DEF EndEdit, Unlocked
<1>2. BookTypeOK'
    BY <1>0, <1>1 DEF BookInv, BookTypeOK
<1>3. DefaultIsOne'
    BY <1>1 DEF DefaultIsOne, DefaultOf, LiveAddresses
<1>4. /\ edit'[p].pc = "idle" /\ \A q \in Shopper \ {p} : edit'[q] = edit[q]
    BY <1>0, <1>1 DEF BookInv, BookTypeOK
<1>5. CreatesApart'
    BY <1>4 DEF BookInv, CreatesApart
<1>6. ASSUME NEW q \in Shopper \ {p} PROVE EditHolds(q)'
    <2>1. EditHolds(q) /\ edit'[q] = edit[q]
        BY <1>4 DEF BookInv
    <2>2. PICK e : e = edit[q]
        OBVIOUS
    <2>3. ASSUME e.pc # "idle", e.op = "edit" PROVE rowLock'[e.row] = q /\ book'[e.row].live
        BY <1>1, <2>1, <2>2, <2>3 DEF EditHolds
    <2>4. ASSUME e.pc # "idle", e.op = "create" PROVE ~book'[e.row].live
        BY <1>1, <2>1, <2>2, <2>4 DEF EditHolds, BookInv, CreatesApart
    <2> QED
        BY <2>1, <2>2, <2>3, <2>4 DEF EditHolds
<1>7. EditHolds(p)'
    BY <1>4 DEF EditHolds
<1> QED
    BY <1>2, <1>3, <1>5, <1>6, <1>7 DEF BookInv

\* A request goes on: it may lock rows that nobody else holds.
LEMMA EditGoesOn ==
    ASSUME BookInv, NEW p \in Shopper, NEW q \in EditStates, edit' = [edit EXCEPT ![p] = q], book' = book,
           rowLock' \in [Slot -> Shopper \cup {NoShopper}],
           \A s \in Slot : rowLock[s] \notin {NoShopper} => rowLock'[s] = rowLock[s],
           EditHolds(p)',
           \A x \in Shopper \ {p} : q.op = "create" /\ edit[x].pc # "idle" /\ edit[x].op = "create"
              => edit[x].row # q.row
    PROVE  BookInv'
<1>1. edit'[p] = q /\ \A x \in Shopper \ {p} : edit'[x] = edit[x]
    BY DEF BookInv, BookTypeOK
<1>2. BookTypeOK'
    BY DEF BookInv, BookTypeOK
<1>3. DefaultIsOne'
    BY DEF BookInv, DefaultIsOne, DefaultOf, LiveAddresses
<1>4. CreatesApart'
    BY <1>1 DEF BookInv, CreatesApart
<1>5. ASSUME NEW x \in Shopper \ {p} PROVE EditHolds(x)'
    <2>1. EditHolds(x) /\ edit'[x] = edit[x]
        BY <1>1 DEF BookInv
    <2>2. PICK e : e = edit[x]
        OBVIOUS
    <2>3. ASSUME e.pc # "idle", e.op = "edit" PROVE rowLock'[e.row] = x
        BY <2>1, <2>2, <2>3, AddressAssumption DEF EditHolds
    <2> QED
        BY <2>1, <2>2, <2>3 DEF EditHolds
<1> QED
    BY <1>2, <1>3, <1>4, <1>5 DEF BookInv

\* The rows of a request that saves row s.
Saved(p, s) ==
    [Cleared(p) EXCEPT ![s] =
        [live |-> TRUE,
         of |-> (IF edit[p].op = "create" THEN {} ELSE book[s].of) \cup edit[p].asked]]

\* A request that asked for kinds and has no rival leaves each to the row at hand, and takes
\* no other.
LEMMA SavedDefaults ==
    ASSUME BookInv, NEW p \in Shopper, edit[p].pc = "clear", Rivals(p) = {},
           NEW s \in Slot, s = edit[p].row, NEW rows, rows = Saved(p, s),
           NEW k \in Kind, NEW u \in Slot
    PROVE  rows[u].live /\ k \in rows[u].of
              <=> IF k \in edit[p].asked THEN u = s ELSE book[u].live /\ k \in book[u].of
<1>1. PICK q \in EditStates : q = edit[p]
    BY DEF BookInv, BookTypeOK
<1>2. EditHolds(p)
    BY DEF BookInv
<1>3. rows[s] = [live |-> TRUE, of |-> (IF q.op = "create" THEN {} ELSE book[s].of) \cup q.asked]
    BY <1>1 DEF Saved, Cleared
<1>4. ASSUME u # s
      PROVE  rows[u].live = book[u].live /\ rows[u].of = {x \in book[u].of : <<u, x>> \notin q.cleared}
    <2>1. rows[u] = Cleared(p)[u]
        BY <1>4 DEF Saved, Cleared
    <2>2. PICK b \in [live : BOOLEAN, of : SUBSET Kind] : b = book[u]
        BY DEF BookInv, BookTypeOK
    <2>3. Cleared(p)[u] = [b EXCEPT !.of = {x \in @ : <<u, x>> \notin q.cleared}]
        BY <1>1, <2>2 DEF Cleared
    <2> QED
        BY <2>1, <2>2, <2>3
<1>5. CASE u = s
    BY <1>1, <1>2, <1>3, <1>5 DEF EditHolds, EditStates, BookInv, DefaultIsOne
<1>6. CASE u # s
    <2>1. ASSUME k \in q.asked, book[u].live, k \in book[u].of PROVE <<u, k>> \in q.cleared
        BY <1>1, <1>6, <2>1 DEF Rivals, DefaultOf, LiveAddresses
    <2>2. ASSUME k \notin q.asked PROVE <<u, k>> \notin q.cleared
        BY <1>1, <1>2, <2>2 DEF EditHolds
    <2> QED
        BY <1>1, <1>4, <1>6, <2>1, <2>2
<1> QED
    BY <1>5, <1>6

\* An account keeps its default addresses (services/customerAddresses.js), for any number of
\* addresses and requests.
LEMMA DefaultsStayHolds == AddressSpec => DefaultStays
<1> USE AddressAssumption
<1>0. NoEdit \in EditStates /\ NoEdit.pc = "idle"
    BY DEF NoEdit, EditStates
<1>1. AddressInit => BookInv
    <2> SUFFICES ASSUME AddressInit PROVE BookInv
        OBVIOUS
    <2>1. BookTypeOK
        BY <1>0 DEF AddressInit, BookTypeOK
    <2>2. DefaultIsOne
        BY DEF AddressInit, DefaultIsOne, DefaultOf, LiveAddresses
    <2>3. CreatesApart /\ \A p \in Shopper : EditHolds(p)
        BY <1>0 DEF AddressInit, CreatesApart, EditHolds
    <2> QED
        BY <2>1, <2>2, <2>3 DEF BookInv
<1>2. BookInv /\ [AddressNext]_addressVars => BookInv' /\ [DefaultsStay]_addressVars
  <2> SUFFICES ASSUME BookInv, [AddressNext]_addressVars PROVE BookInv' /\ [DefaultsStay]_addressVars
      OBVIOUS
  <2>t. /\ book \in [Slot -> [live : BOOLEAN, of : SUBSET Kind]]
        /\ edit \in [Shopper -> EditStates]
        /\ rowLock \in [Slot -> Shopper \cup {NoShopper}]
      BY DEF BookInv, BookTypeOK
  \* Steps that move no row.
  <2>b. ASSUME book' = book PROVE DefaultsStay
      <3>1. \A k \in Kind : DefaultOf(k)' = DefaultOf(k)
          BY <2>b DEF DefaultOf, LiveAddresses
      <3> QED
          BY <3>1, DefaultsGoOn
  <2>1. ASSUME NEW p \in Shopper, NEW s \in Slot, NEW asked \in SUBSET Kind, CreateAddress(p, s, asked)
        PROVE  BookInv' /\ DefaultsStay
      <3>1. PICK kinds \in SUBSET Kind :
                edit' = [edit EXCEPT ![p] = [NoEdit EXCEPT !.pc = "clear", !.row = s,
                                                          !.asked = kinds, !.todo = kinds]]
          BY <2>1 DEF CreateAddress
      <3>2. PICK q : q = [NoEdit EXCEPT !.pc = "clear", !.row = s, !.asked = kinds, !.todo = kinds]
          OBVIOUS
      <3>3. /\ q \in EditStates /\ q.pc = "clear" /\ q.op = "create" /\ q.row = s
            /\ q.asked = kinds /\ q.todo = kinds /\ q.cleared = {}
          BY <3>2 DEF NoEdit, EditStates
      <3>4. edit' = [edit EXCEPT ![p] = q] /\ edit'[p] = q /\ book' = book /\ rowLock' = rowLock
          BY <2>1, <2>t, <3>1, <3>2 DEF CreateAddress
      <3>5. ~book[s].live /\ \A x \in Shopper : edit[x].row # s
          BY <2>1 DEF CreateAddress, FreeSlots, LiveAddresses
      <3>6. EditHolds(p)'
          BY <3>3, <3>4, <3>5 DEF EditHolds, Kind
      <3> QED
          BY <2>b, <2>t, <3>3, <3>4, <3>5, <3>6, EditGoesOn
  <2>2. ASSUME NEW p \in Shopper, NEW s \in Slot, NEW asked \in SUBSET Kind, LoadOwnedAddress(p, s, asked)
        PROVE  BookInv' /\ DefaultsStay
      <3>1. PICK q : q = [NoEdit EXCEPT !.pc = "clear", !.op = "edit", !.row = s,
                                        !.asked = asked, !.todo = asked]
          OBVIOUS
      <3>2. /\ q \in EditStates /\ q.pc = "clear" /\ q.op = "edit" /\ q.row = s
            /\ q.asked = asked /\ q.todo = asked /\ q.cleared = {}
          BY <3>1 DEF NoEdit, EditStates
      <3>3. /\ edit' = [edit EXCEPT ![p] = q] /\ edit'[p] = q /\ book' = book
            /\ rowLock' = [rowLock EXCEPT ![s] = p] /\ rowLock[s] = NoShopper /\ book[s].live
          BY <2>2, <2>t, <3>1 DEF LoadOwnedAddress, LiveAddresses
      <3>4. EditHolds(p)'
          BY <2>t, <3>2, <3>3 DEF EditHolds, Kind
      <3> QED
          BY <2>b, <2>t, <3>2, <3>3, <3>4, EditGoesOn
  <2>3. ASSUME NEW p \in Shopper, NEW k \in Kind, FindDefault(p, k) PROVE BookInv' /\ DefaultsStay
      <3>1. PICK old \in EditStates : old = edit[p]
          BY <2>t
      <3>2. PICK s \in {NoSlot} \cup Slot : edit' = [edit EXCEPT ![p] = Sought(edit[p], k, s)]
          BY <2>3, <2>t DEF FindDefault, Sought
      <3>3. PICK pc : pc = IF s = NoSlot THEN "clear" ELSE k
          OBVIOUS
      <3>4. PICK q : q = Sought(old, k, s)
          OBVIOUS
      <3>5. edit' = [edit EXCEPT ![p] = q] /\ edit'[p] = q
          BY <2>t, <3>1, <3>2, <3>4
      <3>6. book' = book /\ rowLock' = rowLock /\ old.pc = "clear" /\ k \in old.todo
          BY <2>3, <3>1 DEF FindDefault
      <3>7. /\ q \in EditStates /\ q.pc = pc /\ q.op = old.op /\ q.row = old.row
            /\ q.asked = old.asked /\ q.todo = old.todo \ {k} /\ q.cleared = old.cleared
          BY <3>3, <3>4 DEF EditStates, Sought
      <3>8. EditHolds(p)'
          BY <3>1, <3>3, <3>5, <3>6, <3>7 DEF BookInv, EditHolds
      <3>9. ASSUME NEW x \in Shopper \ {p}, q.op = "create", edit[x].pc # "idle", edit[x].op = "create"
            PROVE  edit[x].row # q.row
          BY <3>1, <3>6, <3>7, <3>9 DEF BookInv, CreatesApart
      <3> QED
          BY <2>b, <2>t, <3>5, <3>6, <3>7, <3>8, <3>9, EditGoesOn
  <2>4. ASSUME NEW p \in Shopper, NEW k \in Kind, ClearDefault(p, k) PROVE BookInv' /\ DefaultsStay
      <3>1. PICK old \in EditStates : old = edit[p]
          BY <2>t
      <3>2. PICK s : s = old.found
          OBVIOUS
      <3>3. old.pc = k /\ rowLock[s] \in {NoShopper, p} /\ book' = book
          BY <2>4, <3>1, <3>2 DEF ClearDefault, Free
      <3>4. PICK cleared \in SUBSET (Slot \X Kind) :
                /\ edit' = [edit EXCEPT ![p] = Emptied(edit[p], cleared)]
                /\ \A u \in Slot, x \in Kind : <<u, x>> \in cleared =>
                      <<u, x>> \in old.cleared \/ x = k
                /\ rowLock' = rowLock \/ (s \in Slot /\ rowLock' = [rowLock EXCEPT ![s] = p])
          <4>1. CASE s \in DefaultOf(k)
              <5>1. PICK cleared : cleared = old.cleared \cup {<<s, k>>}
                  OBVIOUS
              <5>2. s \in Slot
                  BY <4>1 DEF DefaultOf, LiveAddresses
              <5>3. cleared \in SUBSET (Slot \X Kind)
                  BY <5>1, <5>2 DEF EditStates
              <5>4. /\ edit' = [edit EXCEPT ![p] =
                                   Emptied(edit[p], edit[p].cleared \cup {<<edit[p].found, k>>})]
                    /\ rowLock' = [rowLock EXCEPT ![s] = p]
                  BY <2>4, <2>t, <3>1, <3>2, <4>1 DEF ClearDefault, Emptied
              <5> QED
                  BY <5>1, <5>2, <5>3, <5>4, <3>1, <3>2
          <4>2. CASE s \notin DefaultOf(k)
              <5>1. PICK y : y = [old EXCEPT !.pc = "clear", !.found = NoSlot]
                  OBVIOUS
              <5>2. y = Emptied(old, old.cleared)
                  BY <5>1 DEF EditStates, Emptied
              <5>3. edit' = [edit EXCEPT ![p] = y] /\ rowLock' = rowLock
                  BY <2>4, <2>t, <3>1, <3>2, <4>2, <5>1 DEF ClearDefault
              <5>4. /\ edit' = [edit EXCEPT ![p] = Emptied(edit[p], old.cleared)]
                    /\ old.cleared \in SUBSET (Slot \X Kind)
                  BY <2>t, <3>1, <5>2, <5>3 DEF EditStates
              <5> QED
                  BY <5>3, <5>4
          <4> QED
              BY <4>1, <4>2
      <3>5. PICK q : q = Emptied(old, cleared)
          OBVIOUS
      <3>6. edit' = [edit EXCEPT ![p] = q] /\ edit'[p] = q
          BY <2>t, <3>1, <3>4, <3>5
      <3>7. /\ q \in EditStates /\ q.pc = "clear" /\ q.op = old.op /\ q.row = old.row
            /\ q.asked = old.asked /\ q.todo = old.todo /\ q.cleared = cleared
          BY <3>5 DEF EditStates, Emptied
      <3>8. /\ rowLock' \in [Slot -> Shopper \cup {NoShopper}]
            /\ \A u \in Slot : rowLock[u] # NoShopper => rowLock'[u] = rowLock[u]
          BY <2>t, <3>3, <3>4
      <3>9. EditHolds(p) /\ old.pc # "idle"
          BY <3>3 DEF BookInv, Kind
      <3>10. EditHolds(p)'
          BY <3>1, <3>3, <3>4, <3>6, <3>7, <3>8, <3>9 DEF EditHolds, Kind
      <3>11. ASSUME NEW x \in Shopper \ {p}, q.op = "create", edit[x].pc # "idle", edit[x].op = "create"
             PROVE  edit[x].row # q.row
          BY <3>1, <3>7, <3>9, <3>11 DEF BookInv, CreatesApart
      <3> QED
          BY <2>b, <3>3, <3>6, <3>7, <3>8, <3>10, <3>11, EditGoesOn
  <2>e. ASSUME NEW p \in Shopper, EndEdit(p, book) PROVE BookInv' /\ DefaultsStay
      <3>1. book' = book
          BY <2>e DEF EndEdit
      <3>2. \A k \in Kind : \A s, u \in Slot :
                book[s].live /\ book[u].live /\ k \in book[s].of /\ k \in book[u].of => s = u
          BY DEF BookInv, DefaultIsOne, DefaultOf, LiveAddresses
      <3>3. \A s \in Slot : ~book[s].live => book[s].of = {}
          BY DEF BookInv, DefaultIsOne
      <3> QED
          BY <2>b, <2>e, <2>t, <3>1, <3>2, <3>3, EditEnds
  <2>5. ASSUME NEW p \in Shopper, SaveAddress(p) PROVE BookInv' /\ DefaultsStay
      <3>1. PICK q \in EditStates : q = edit[p]
          BY <2>t
      <3>2. q.pc = "clear"
          BY <2>5, <3>1 DEF SaveAddress, SaveKeeping
      <3>3. /\ q.row \in Slot /\ (q.op = "edit" => book[q.row].live)
            /\ (q.op = "create" => ~book[q.row].live) /\ q.op \in {"edit", "create"}
          BY <3>1, <3>2 DEF BookInv, EditHolds, EditStates
      <3>4. CASE Rivals(p) # {}
          BY <2>5, <2>e, <3>4 DEF SaveAddress, SaveKeeping
      <3>5. CASE Rivals(p) = {}
          <4>1. PICK s \in Slot : s = q.row
              BY <3>3
          <4>2. PICK rows : rows = Saved(p, s)
              OBVIOUS
          <4>3. EndEdit(p, rows)
              BY <2>5, <3>1, <3>3, <3>5, <4>1, <4>2
              DEF SaveAddress, SaveKeeping, LiveAddresses, Saved
          <4>4. ASSUME NEW k \in Kind, NEW u \in Slot
                PROVE  rows[u].live /\ k \in rows[u].of
                          <=> IF k \in edit[p].asked THEN u = s ELSE book[u].live /\ k \in book[u].of
              <5>1. edit[p].pc = "clear" /\ s = edit[p].row
                  BY <3>1, <3>2, <4>1
              <5> QED
                  BY <3>5, <4>2, <5>1, SavedDefaults
          <4>5. rows[s].live /\ rows[s] \in [live : BOOLEAN, of : SUBSET Kind]
              BY <2>t, <3>1, <4>2 DEF Saved, Cleared, EditStates
          <4>6. ASSUME NEW u \in Slot \ {s}
                PROVE  /\ rows[u] \in [live : BOOLEAN, of : SUBSET Kind]
                       /\ rows[u].live = book[u].live /\ rows[u].of \subseteq book[u].of
              <5>1. rows[u] = Cleared(p)[u]
                  BY <4>2 DEF Saved, Cleared
              <5>2. PICK b \in [live : BOOLEAN, of : SUBSET Kind] : b = book[u]
                  BY <2>t
              <5>3. Cleared(p)[u] = [b EXCEPT !.of = {x \in @ : <<u, x>> \notin edit[p].cleared}]
                  BY <5>2 DEF Cleared
              <5> QED
                  BY <5>1, <5>2, <5>3
          <4>7. rows \in [Slot -> [live : BOOLEAN, of : SUBSET Kind]]
              <5>1. rows = [u \in Slot |-> rows[u]]
                  BY <4>2 DEF Saved, Cleared
              <5> QED
                  BY <4>5, <4>6, <5>1
          <4>8. \A u \in Slot : ~rows[u].live => rows[u].of = {}
              BY <4>5, <4>6 DEF BookInv, DefaultIsOne
          <4>9. \A k \in Kind : \A u, v \in Slot :
                    rows[u].live /\ rows[v].live /\ k \in rows[u].of /\ k \in rows[v].of => u = v
              BY <4>4 DEF BookInv, DefaultIsOne, DefaultOf, LiveAddresses
          <4>10. \A u \in Slot : /\ book[u].live => rows[u].live
                                 /\ rows[u].live /\ ~book[u].live =>
                                      edit[p].pc # "idle" /\ edit[p].op = "create" /\ edit[p].row = u
              BY <3>1, <3>2, <3>3, <4>1, <4>5, <4>6
          <4>11. BookInv'
              BY <4>3, <4>7, <4>8, <4>9, <4>10, EditEnds
          <4>12. \A k \in Kind : DefaultOf(k)' = DefaultOf(k) \/ \E u \in Slot : DefaultOf(k)' = {u}
              <5>1. book' = rows
                  BY <4>3 DEF EndEdit
              <5> QED
                  BY <4>4, <5>1 DEF DefaultOf, LiveAddresses
          <4> QED
              BY <4>11, <4>12, DefaultsGoOn
      <3> QED
          BY <3>4, <3>5
  <2>6. ASSUME NEW p \in Shopper, BreakOff(p) PROVE BookInv' /\ DefaultsStay
      BY <2>6, <2>e DEF BreakOff
  <2>7. ASSUME NEW s \in Slot, SoftDelete(s) PROVE BookInv' /\ DefaultsStay
      <3>1. /\ book' = [book EXCEPT ![s] = [live |-> FALSE, of |-> {}]]
            /\ UNCHANGED <<edit, rowLock>> /\ book[s].live /\ rowLock[s] = NoShopper
          BY <2>7 DEF SoftDelete, LiveAddresses
      <3>2. BookTypeOK'
          BY <2>t, <3>1 DEF BookTypeOK
      <3>3. book'[s] = [live |-> FALSE, of |-> {}] /\ \A u \in Slot \ {s} : book'[u] = book[u]
          BY <2>t, <3>1
      <3>4. DefaultIsOne'
          BY <3>3 DEF BookInv, DefaultIsOne, DefaultOf, LiveAddresses
      <3>5. CreatesApart'
          BY <3>1 DEF BookInv, CreatesApart
      <3>6. ASSUME NEW p \in Shopper PROVE EditHolds(p)'
          BY <2>t, <3>1, <3>3 DEF BookInv, EditHolds
      <3>7. ASSUME NEW k \in Kind, DefaultOf(k) # {}
            PROVE  Cardinality(DefaultOf(k)') = 1 \/ \E u \in DefaultOf(k) : ~book'[u].live
          <4>1. CASE s \in DefaultOf(k)
              BY <3>3, <4>1
          <4>2. CASE s \notin DefaultOf(k)
              <5>1. PICK S : S = DefaultOf(k)'
                  OBVIOUS
              <5>2. S = DefaultOf(k)
                  BY <3>1, <3>3, <4>2, <5>1 DEF DefaultOf, LiveAddresses
              <5>3. Cardinality(S) = 1
                  BY <3>7, <5>2, OneAtMost DEF BookInv, DefaultIsOne
              <5> QED
                  BY <5>1, <5>3
          <4> QED
              BY <4>1, <4>2
      <3> QED
          BY <3>2, <3>4, <3>5, <3>6, <3>7 DEF BookInv, DefaultsStay
  <2>8. CASE UNCHANGED addressVars
      <3>1. UNCHANGED <<book, edit, rowLock>>
          BY <2>8 DEF addressVars
      <3> QED
          BY <2>8, <3>1 DEF BookInv, BookTypeOK, DefaultIsOne, DefaultOf, LiveAddresses, CreatesApart, EditHolds
  <2> QED
      BY <2>1, <2>2, <2>3, <2>4, <2>5, <2>6, <2>7, <2>8 DEF AddressNext
<1>3. [DefaultsStay]_addressVars
      => [\A k \in Kind :
            DefaultOf(k) # {} => \/ Cardinality(DefaultOf(k)') = 1
                                 \/ \E s \in DefaultOf(k) : ~book'[s].live]_addressVars
    BY DEF DefaultsStay
<1> QED
    BY <1>1, <1>2, <1>3, PTL DEF AddressSpec, DefaultStays

-----------------------------------------------------------------------------
(* SecondFactors *)

ProofStates ==
    [pc : {"idle", "sent", "deleting", "locked"},
     kind : {"none", "confirm", "verify", "recover", "regenerate", "registration", "step_up"},
     at : 0..MaxStep, seen : -1..MaxStep, rows : SUBSET (Secret \cup CodeSet \cup Challenge)]
SecretRow == [st : {"none", "pending", "enabled", "disabled", "gone"}, last : -1..MaxStep]
ChallengeRow == [st : {"none", "issued", "used"}, purpose : {"registration", "step_up"}]

\* A request that has locked a row knows the last step of a secret, and that a recovery code or
\* a challenge is unused.
RowsAreHeld(w) ==
    provers[w].pc = "locked" =>
        /\ \A t \in Secret : t \in provers[w].rows => provers[w].seen = secrets[t].last
        /\ \A g \in CodeSet : g \in provers[w].rows => codeSets[g] = "live"
        /\ \A h \in Challenge : h \in provers[w].rows => webauthn[h].st = "issued"

\* No row is locked by two.
LocksApart ==
    \A w, x \in Prover : w # x /\ provers[w].pc = "locked" /\ provers[x].pc = "locked"
                            => provers[w].rows \cap provers[x].rows = {}

\* The rows remember what was accepted.
AcceptedIsKnown ==
    /\ \A t \in Secret, n \in Nat : <<t, n>> \in accepted => n <= secrets[t].last
    /\ \A g \in CodeSet : <<g, 0>> \in accepted => codeSets[g] = "used"
    /\ \A h \in Challenge : <<h, 0>> \in accepted => webauthn[h].st = "used"

\* The inductive invariant of SecondFactors.
FactorInv ==
    /\ FactorTypeOK /\ LocksApart /\ AcceptedIsKnown /\ replayed = FALSE
    /\ \A w \in Prover : RowsAreHeld(w)

\* A step of one request that moves no row.
LEMMA ProofGoesOn ==
    ASSUME FactorInv, NEW w \in Prover, NEW q \in ProofStates, provers' = [provers EXCEPT ![w] = q],
           UNCHANGED <<secrets, passkeys, codeSets, webauthn, timeStep, accepted, replayed>>,
           RowsAreHeld(w)',
           q.pc = "locked" => \A r \in q.rows : FactorIsFree(r)
    PROVE  FactorInv'
<1>1. /\ provers' \in [Prover -> ProofStates] /\ provers'[w] = q
      /\ \A x \in Prover \ {w} : provers'[x] = provers[x]
    BY DEF FactorInv, FactorTypeOK, ProofStates
<1>2. FactorTypeOK'
    BY <1>1 DEF FactorInv, FactorTypeOK, ProofStates
<1>3. LocksApart'
    BY <1>1 DEF FactorInv, LocksApart, FactorIsFree
<1>4. AcceptedIsKnown'
    BY DEF FactorInv, AcceptedIsKnown
<1>5. \A x \in Prover : RowsAreHeld(x)'
    BY <1>1 DEF FactorInv, RowsAreHeld
<1> QED
    BY <1>2, <1>3, <1>4, <1>5 DEF FactorInv

\* A request ends; what moves of the rows moves in rows of its own, or in rows that nobody
\* could hold.
LEMMA ProofEnds ==
    ASSUME FactorInv, NEW w \in Prover, provers' = [provers EXCEPT ![w] = NoProof], FactorTypeOK',
           \A x \in Prover \ {w} : provers[x].pc = "locked" =>
               /\ \A t \in Secret : t \in provers[x].rows => secrets'[t].last = secrets[t].last
               /\ \A g \in CodeSet : g \in provers[x].rows => codeSets'[g] = codeSets[g]
               /\ \A h \in Challenge : h \in provers[x].rows => webauthn'[h] = webauthn[h],
           AcceptedIsKnown', replayed' = FALSE
    PROVE  FactorInv'
<1>1. /\ provers'[w].pc = "idle" /\ \A x \in Prover \ {w} : provers'[x] = provers[x]
    BY DEF FactorInv, FactorTypeOK, NoProof
<1>2. LocksApart'
    BY <1>1 DEF FactorInv, LocksApart
<1>3. ASSUME NEW x \in Prover PROVE RowsAreHeld(x)'
    <2>1. CASE x = w
        BY <1>1, <2>1 DEF RowsAreHeld
    <2>2. CASE x # w
        BY <1>1, <2>2 DEF RowsAreHeld, FactorInv
    <2> QED
        BY <2>1, <2>2
<1> QED
    BY <1>2, <1>3 DEF FactorInv

\* The invariant of SecondFactors holds throughout.
LEMMA FactorInductive == FactorSpec => []FactorInv
<1> USE FactorAssumption, TablesAssumption
<1>0. NoProof \in ProofStates /\ NoProof.pc = "idle" /\ NoProof.rows = {}
    BY DEF NoProof, ProofStates
<1>1. FactorInit => FactorInv
  <2> SUFFICES ASSUME FactorInit PROVE FactorInv
      OBVIOUS
  <2>1. FactorTypeOK
      <3>1. secrets \in [Secret -> SecretRow] /\ webauthn \in [Challenge -> ChallengeRow]
          BY DEF FactorInit, SecretRow, ChallengeRow
      <3>2. provers \in [Prover -> ProofStates]
          BY <1>0 DEF FactorInit
      <3>3. /\ passkeys \in [Passkey -> {"none", "active", "revoked"}]
            /\ codeSets \in [CodeSet -> {"none", "live", "used", "void"}]
            /\ timeStep \in 0..MaxStep
          BY DEF FactorInit
      <3>4. replayed \in BOOLEAN /\ accepted = {}
          BY DEF FactorInit
      <3> QED
          BY <3>1, <3>2, <3>3, <3>4 DEF FactorTypeOK, ProofStates, SecretRow, ChallengeRow
  <2>2. LocksApart /\ AcceptedIsKnown /\ replayed = FALSE /\ \A w \in Prover : RowsAreHeld(w)
      BY <1>0 DEF FactorInit, LocksApart, AcceptedIsKnown, RowsAreHeld
  <2> QED
      BY <2>1, <2>2 DEF FactorInv
<1>2. FactorInv /\ [FactorNext]_factorVars => FactorInv'
  <2> SUFFICES ASSUME FactorInv, [FactorNext]_factorVars PROVE FactorInv'
      OBVIOUS
  <2>t. /\ secrets \in [Secret -> SecretRow] /\ webauthn \in [Challenge -> ChallengeRow]
        /\ codeSets \in [CodeSet -> {"none", "live", "used", "void"}]
        /\ provers \in [Prover -> ProofStates] /\ timeStep \in 0..MaxStep
        /\ accepted \subseteq (Secret \cup CodeSet \cup Challenge) \X (0..MaxStep)
        /\ FactorTypeOK /\ replayed = FALSE
      BY DEF FactorInv, FactorTypeOK, SecretRow, ChallengeRow, ProofStates
  \* Steps of rows that change no last step, and no code or challenge that could be held.
  <2>r. ASSUME provers' = provers, accepted' = accepted, replayed' = replayed, FactorTypeOK',
               \A t \in Secret : secrets'[t].last = secrets[t].last, codeSets' = codeSets,
               \A h \in Challenge : webauthn[h].st # "none" => webauthn'[h] = webauthn[h]
        PROVE  FactorInv'
      <3>1. LocksApart'
          BY <2>r DEF FactorInv, LocksApart
      <3>2. AcceptedIsKnown'
          BY <2>r DEF FactorInv, AcceptedIsKnown
      <3>3. ASSUME NEW w \in Prover PROVE RowsAreHeld(w)'
          BY <2>r DEF FactorInv, RowsAreHeld
      <3> QED
          BY <2>r, <3>1, <3>2, <3>3 DEF FactorInv
  <2>1. ASSUME NEW t \in Secret, BeginSetup(t) PROVE FactorInv'
      <3>1. \A u \in Secret : /\ secrets'[u] \in SecretRow /\ secrets'[u].last = secrets[u].last
          BY <2>1, <2>t DEF BeginSetup, SecretRow
      <3>2. secrets' = [u \in Secret |-> secrets'[u]]
          BY <2>1 DEF BeginSetup
      <3>3. /\ UNCHANGED <<passkeys, codeSets, webauthn, timeStep, provers, accepted, replayed>>
            /\ secrets' \in [Secret -> SecretRow]
          BY <2>1, <3>1, <3>2 DEF BeginSetup
      <3>4. FactorTypeOK'
          BY <2>t, <3>3 DEF FactorTypeOK, SecretRow
      <3> QED
          BY <2>r, <3>1, <3>3, <3>4
  <2>2. ASSUME NEW t \in Secret, DisableTotp(t) PROVE FactorInv'
      <3>1. /\ UNCHANGED <<passkeys, codeSets, webauthn, timeStep, provers, accepted, replayed>>
            /\ secrets' \in [Secret -> SecretRow]
            /\ \A u \in Secret : secrets'[u].last = secrets[u].last
          BY <2>2, <2>t DEF DisableTotp, SecretRow
      <3>2. FactorTypeOK'
          BY <2>t, <3>1 DEF FactorTypeOK, SecretRow
      <3> QED
          BY <2>r, <3>1, <3>2
  <2>3. ASSUME NEW w \in Prover, NEW kind \in {"confirm", "verify"}, NEW n \in 0..MaxStep,
               SubmitCode(w, kind, n)
        PROVE  FactorInv'
      <3>1. PICK q : q = [NoProof EXCEPT !.pc = "sent", !.kind = kind, !.at = n]
          OBVIOUS
      <3>2. q \in ProofStates /\ q.pc = "sent"
          BY <1>0, <3>1 DEF ProofStates
      <3>3. /\ provers' = [provers EXCEPT ![w] = q] /\ provers'[w] = q
            /\ UNCHANGED <<secrets, passkeys, codeSets, webauthn, timeStep, accepted, replayed>>
          BY <2>3, <2>t, <3>1 DEF SubmitCode
      <3>4. RowsAreHeld(w)'
          BY <3>2, <3>3 DEF RowsAreHeld
      <3> QED
          BY <3>2, <3>3, <3>4, ProofGoesOn
  <2>4. ASSUME NEW w \in Prover, NEW t \in Secret, LockMethod(w, t) PROVE FactorInv'
      <3>1. PICK q : q = [provers[w] EXCEPT !.pc = "locked", !.seen = secrets[t].last, !.rows = {t}]
          OBVIOUS
      <3>2. secrets[t].last \in -1..MaxStep
          BY <2>t DEF SecretRow
      <3>3. q \in ProofStates /\ q.pc = "locked" /\ q.seen = secrets[t].last /\ q.rows = {t}
          BY <2>t, <3>1, <3>2 DEF ProofStates
      <3>4. /\ provers' = [provers EXCEPT ![w] = q] /\ provers'[w] = q /\ FactorIsFree(t)
            /\ UNCHANGED <<secrets, passkeys, codeSets, webauthn, timeStep, accepted, replayed>>
          BY <2>4, <2>t, <3>1 DEF LockMethod, TakeMethod
      <3>5. RowsAreHeld(w)'
          BY <3>3, <3>4 DEF RowsAreHeld
      <3> QED
          BY <3>3, <3>4, <3>5, ProofGoesOn
  <2>5. ASSUME NEW w \in Prover, NEW t \in Secret, AcceptCode(w, t) PROVE FactorInv'
      <3>1. PICK q \in ProofStates : q = provers[w]
          BY <2>t
      <3>2. /\ q.pc = "locked" /\ t \in q.rows /\ q.at > q.seen
            /\ secrets' = [secrets EXCEPT ![t] = [st |-> "enabled", last |-> q.at]]
            /\ provers' = [provers EXCEPT ![w] = NoProof] /\ accepted' = accepted \cup {<<t, q.at>>}
            /\ replayed' = (replayed \/ <<t, q.at>> \in accepted)
            /\ UNCHANGED <<passkeys, codeSets, webauthn, timeStep>>
          BY <2>5, <3>1 DEF AcceptCode, AcceptProof
      <3>3. q.at \in 0..MaxStep /\ q.at \in Nat /\ q.seen = secrets[t].last /\ secrets[t].last \in Int
          BY <2>t, <3>1, <3>2 DEF FactorInv, RowsAreHeld, ProofStates, SecretRow
      <3>4. <<t, q.at>> \notin accepted
          BY <3>2, <3>3 DEF FactorInv, AcceptedIsKnown
      <3>5. FactorTypeOK'
          <4>1. [st |-> "enabled", last |-> q.at] \in SecretRow
              BY <3>3 DEF SecretRow
          <4>2. secrets' \in [Secret -> SecretRow] /\ provers' \in [Prover -> ProofStates]
              BY <1>0, <2>t, <3>2, <4>1
          <4> QED
              BY <2>t, <3>2, <3>3, <3>4, <4>2 DEF FactorTypeOK, SecretRow, ProofStates
      <3>6. \A u \in Secret : secrets'[u].last = IF u = t THEN q.at ELSE secrets[u].last
          BY <2>t, <3>2
      <3>7. AcceptedIsKnown'
          <4>1. ASSUME NEW u \in Secret, NEW n \in Nat, <<u, n>> \in accepted'
                PROVE  n <= secrets'[u].last
              <5>1. CASE u = t /\ n = q.at
                  BY <3>3, <3>6, <5>1
              <5>2. CASE <<u, n>> \in accepted
                  BY <3>2, <3>3, <3>6, <5>2 DEF FactorInv, AcceptedIsKnown
              <5> QED
                  BY <3>2, <4>1, <5>1, <5>2
          <4>2. ASSUME NEW g \in CodeSet \cup Challenge, <<g, 0>> \in accepted'
                PROVE  <<g, 0>> \in accepted
              BY <3>2, <4>2
          <4> QED
              BY <3>2, <4>1, <4>2 DEF FactorInv, AcceptedIsKnown
      <3>8. ASSUME NEW x \in Prover \ {w}, provers[x].pc = "locked" PROVE t \notin provers[x].rows
          BY <3>1, <3>2, <3>8 DEF FactorInv, LocksApart
      <3> QED
          <4>1. ASSUME NEW x \in Prover \ {w}, provers[x].pc = "locked"
                PROVE  /\ \A u \in Secret : u \in provers[x].rows => secrets'[u].last = secrets[u].last
                       /\ \A g \in CodeSet : g \in provers[x].rows => codeSets'[g] = codeSets[g]
                       /\ \A h \in Challenge : h \in provers[x].rows => webauthn'[h] = webauthn[h]
              BY <3>2, <3>6, <3>8, <4>1
          <4>2. replayed' = FALSE /\ provers' = [provers EXCEPT ![w] = NoProof]
              BY <2>t, <3>2, <3>4
          <4> QED
              BY <3>5, <3>7, <4>1, <4>2, ProofEnds
  <2>6. ASSUME NEW w \in Prover, NEW g \in CodeSet, UseRecoveryCode(w, g) PROVE FactorInv'
      <3>1. PICK q : q = [NoProof EXCEPT !.pc = "locked", !.kind = "recover", !.rows = {g}]
          OBVIOUS
      <3>2. q \in ProofStates /\ q.pc = "locked" /\ q.rows = {g}
          BY <1>0, <3>1 DEF ProofStates
      <3>3. /\ provers' = [provers EXCEPT ![w] = q] /\ provers'[w] = q /\ FactorIsFree(g)
            /\ UNCHANGED <<secrets, passkeys, codeSets, webauthn, timeStep, accepted, replayed>>
            /\ codeSets[g] = "live"
          BY <2>6, <2>t, <3>1 DEF UseRecoveryCode
      <3>4. RowsAreHeld(w)'
          BY <3>2, <3>3 DEF RowsAreHeld
      <3> QED
          BY <3>2, <3>3, <3>4, ProofGoesOn
  <2>7. ASSUME NEW w \in Prover, NEW g \in CodeSet, CommitRecovery(w, g) PROVE FactorInv'
      <3>1. /\ provers[w].pc = "locked" /\ g \in provers[w].rows
            /\ codeSets' = [codeSets EXCEPT ![g] = "used"]
            /\ provers' = [provers EXCEPT ![w] = NoProof] /\ accepted' = accepted \cup {<<g, 0>>}
            /\ replayed' = (replayed \/ <<g, 0>> \in accepted)
            /\ UNCHANGED <<secrets, passkeys, webauthn, timeStep>>
          BY <2>7 DEF CommitRecovery, AcceptProof
      <3>2. codeSets[g] = "live" /\ <<g, 0>> \notin accepted
          BY <3>1 DEF FactorInv, RowsAreHeld, AcceptedIsKnown
      <3>3. FactorTypeOK'
          <4>1. /\ provers' \in [Prover -> ProofStates]
                /\ codeSets' \in [CodeSet -> {"none", "live", "used", "void"}]
              BY <1>0, <2>t, <3>1
          <4> QED
              BY <2>t, <3>1, <3>2, <4>1 DEF FactorTypeOK, ProofStates
      <3>4. AcceptedIsKnown'
          BY <2>t, <3>1 DEF FactorInv, AcceptedIsKnown
      <3>5. ASSUME NEW x \in Prover \ {w}, provers[x].pc = "locked" PROVE g \notin provers[x].rows
          BY <3>1, <3>5 DEF FactorInv, LocksApart
      <3> QED
          <4>1. ASSUME NEW x \in Prover \ {w}, provers[x].pc = "locked"
                PROVE  /\ \A t \in Secret : t \in provers[x].rows => secrets'[t].last = secrets[t].last
                       /\ \A h \in CodeSet : h \in provers[x].rows => codeSets'[h] = codeSets[h]
                       /\ \A h \in Challenge : h \in provers[x].rows => webauthn'[h] = webauthn[h]
              BY <2>t, <3>1, <3>5, <4>1
          <4>2. replayed' = FALSE /\ provers' = [provers EXCEPT ![w] = NoProof]
              BY <2>t, <3>1, <3>2
          <4> QED
              BY <3>3, <3>4, <4>1, <4>2, ProofEnds
  <2>8. ASSUME NEW w \in Prover, NEW g \in CodeSet, CommitCodes(w, g) PROVE FactorInv'
      <3>1. /\ provers[w].pc = "locked" /\ codeSets[g] = "none"
            /\ codeSets' = [h \in CodeSet |-> IF h = g THEN "live"
                                ELSE IF h \in provers[w].rows THEN "void" ELSE codeSets[h]]
            /\ provers' = [provers EXCEPT ![w] = NoProof]
            /\ UNCHANGED <<secrets, passkeys, webauthn, timeStep, accepted, replayed>>
          BY <2>8 DEF CommitCodes
      <3>2. FactorTypeOK'
          <4>1. /\ provers' \in [Prover -> ProofStates]
                /\ codeSets' \in [CodeSet -> {"none", "live", "used", "void"}]
              BY <1>0, <2>t, <3>1
          <4> QED
              BY <2>t, <3>1, <4>1 DEF FactorTypeOK, ProofStates
      <3>3. \A h \in CodeSet : h \in provers[w].rows => codeSets[h] = "live"
          BY <3>1 DEF FactorInv, RowsAreHeld
      <3>4. AcceptedIsKnown'
          <4>1. ASSUME NEW h \in CodeSet, <<h, 0>> \in accepted PROVE codeSets'[h] = "used"
              BY <3>1, <3>3, <4>1 DEF FactorInv, AcceptedIsKnown
          <4> QED
              BY <3>1, <4>1 DEF FactorInv, AcceptedIsKnown
      <3>5. ASSUME NEW x \in Prover \ {w}, provers[x].pc = "locked", NEW h \in CodeSet, h \in provers[x].rows
            PROVE  codeSets'[h] = codeSets[h]
          <4>1. h \notin provers[w].rows
              BY <3>1, <3>5 DEF FactorInv, LocksApart
          <4>2. codeSets[h] = "live"
              BY <3>5 DEF FactorInv, RowsAreHeld
          <4> QED
              BY <3>1, <4>1, <4>2
      <3> QED
          BY <2>t, <3>1, <3>2, <3>4, <3>5, ProofEnds
  <2>9. ASSUME NEW w \in Prover, NEW h \in Challenge, ClaimChallenge(w, h) PROVE FactorInv'
      <3>1. PICK q : q = [NoProof EXCEPT !.pc = "locked", !.kind = webauthn[h].purpose, !.rows = {h}]
          OBVIOUS
      <3>2. webauthn[h].purpose \in {"registration", "step_up"}
          BY <2>t DEF ChallengeRow
      <3>3. q \in ProofStates /\ q.pc = "locked" /\ q.rows = {h}
          BY <1>0, <3>1, <3>2 DEF ProofStates
      <3>4. /\ provers' = [provers EXCEPT ![w] = q] /\ provers'[w] = q /\ FactorIsFree(h)
            /\ UNCHANGED <<secrets, passkeys, codeSets, webauthn, timeStep, accepted, replayed>>
            /\ webauthn[h].st = "issued"
          BY <2>9, <2>t, <3>1 DEF ClaimChallenge
      <3>5. RowsAreHeld(w)'
          BY <3>3, <3>4 DEF RowsAreHeld
      <3> QED
          BY <3>3, <3>4, <3>5, ProofGoesOn
  <2>10. ASSUME NEW w \in Prover, NEW h \in Challenge, NEW p \in Passkey,
                RegisterPasskey(w, h, p) \/ ProvePasskey(w, h, p)
         PROVE  FactorInv'
      <3>1. /\ provers[w].pc = "locked" /\ h \in provers[w].rows
            /\ webauthn' = [webauthn EXCEPT ![h].st = "used"]
            /\ provers' = [provers EXCEPT ![w] = NoProof] /\ accepted' = accepted \cup {<<h, 0>>}
            /\ replayed' = (replayed \/ <<h, 0>> \in accepted)
            /\ UNCHANGED <<secrets, codeSets, timeStep>>
          BY <2>10 DEF RegisterPasskey, ProvePasskey, CommitChallenge, AcceptProof
      <3>2. webauthn[h].st = "issued" /\ <<h, 0>> \notin accepted
          BY <3>1 DEF FactorInv, RowsAreHeld, AcceptedIsKnown
      <3>3. passkeys' \in [Passkey -> {"none", "active", "revoked"}]
          BY <2>10, <2>t DEF RegisterPasskey, ProvePasskey, FactorTypeOK
      <3>4. /\ webauthn' \in [Challenge -> ChallengeRow] /\ webauthn'[h].st = "used"
            /\ \A x \in Challenge \ {h} : webauthn'[x] = webauthn[x]
          BY <2>t, <3>1 DEF ChallengeRow
      <3>5. FactorTypeOK'
          <4>1. provers' \in [Prover -> ProofStates]
              BY <1>0, <2>t, <3>1
          <4> QED
              BY <2>t, <3>1, <3>2, <3>3, <3>4, <4>1 DEF FactorTypeOK, ProofStates, ChallengeRow
      <3>6. AcceptedIsKnown'
          BY <2>t, <3>1, <3>4 DEF FactorInv, AcceptedIsKnown
      <3>7. ASSUME NEW x \in Prover \ {w}, provers[x].pc = "locked" PROVE h \notin provers[x].rows
          BY <3>1, <3>7 DEF FactorInv, LocksApart
      <3> QED
          <4>1. ASSUME NEW x \in Prover \ {w}, provers[x].pc = "locked"
                PROVE  /\ \A t \in Secret : t \in provers[x].rows => secrets'[t].last = secrets[t].last
                       /\ \A g \in CodeSet : g \in provers[x].rows => codeSets'[g] = codeSets[g]
                       /\ \A y \in Challenge : y \in provers[x].rows => webauthn'[y] = webauthn[y]
              BY <3>1, <3>4, <3>7, <4>1
          <4>2. replayed' = FALSE /\ provers' = [provers EXCEPT ![w] = NoProof]
              BY <2>t, <3>1, <3>2
          <4> QED
              BY <3>5, <3>6, <4>1, <4>2, ProofEnds
  <2>11. ASSUME NEW w \in Prover, BeginRegeneration(w) PROVE FactorInv'
      <3>1. PICK q : q = [NoProof EXCEPT !.pc = "deleting", !.kind = "regenerate", !.rows = LiveSets]
          OBVIOUS
      <3>2. q \in ProofStates /\ q.pc = "deleting"
          <4>1. LiveSets \in SUBSET (Secret \cup CodeSet \cup Challenge)
              BY DEF LiveSets
          <4> QED
              BY <1>0, <3>1, <4>1 DEF ProofStates
      <3>3. /\ provers' = [provers EXCEPT ![w] = q] /\ provers'[w] = q
            /\ UNCHANGED <<secrets, passkeys, codeSets, webauthn, timeStep, accepted, replayed>>
          BY <2>11, <2>t, <3>1 DEF BeginRegeneration
      <3>4. RowsAreHeld(w)'
          BY <3>2, <3>3 DEF RowsAreHeld
      <3> QED
          BY <3>2, <3>3, <3>4, ProofGoesOn
  <2>12. ASSUME NEW w \in Prover, DeleteCodes(w) PROVE FactorInv'
      <3>1. PICK q : q = [provers[w] EXCEPT !.pc = "locked", !.rows = provers[w].rows \cap LiveSets]
          OBVIOUS
      <3>2. q \in ProofStates /\ q.pc = "locked" /\ q.rows = provers[w].rows \cap LiveSets
          BY <2>t, <3>1 DEF ProofStates
      <3>3. /\ provers' = [provers EXCEPT ![w] = q] /\ provers'[w] = q
            /\ \A r \in provers[w].rows : FactorIsFree(r)
            /\ UNCHANGED <<secrets, passkeys, codeSets, webauthn, timeStep, accepted, replayed>>
          BY <2>12, <2>t, <3>1 DEF DeleteCodes
      <3>4. RowsAreHeld(w)'
          BY <3>2, <3>3 DEF RowsAreHeld, LiveSets
      <3> QED
          BY <3>2, <3>3, <3>4, ProofGoesOn
  <2>13. ASSUME NEW w \in Prover, AbortProof(w) PROVE FactorInv'
      <3>1. /\ provers' = [provers EXCEPT ![w] = NoProof] /\ provers'[w] = NoProof
            /\ UNCHANGED <<secrets, passkeys, codeSets, webauthn, timeStep, accepted, replayed>>
          BY <2>13, <2>t DEF AbortProof
      <3>2. RowsAreHeld(w)'
          BY <1>0, <3>1 DEF RowsAreHeld
      <3> QED
          BY <1>0, <3>1, <3>2, ProofGoesOn
  <2>14. ASSUME NEW h \in Challenge, NEW purpose \in {"registration", "step_up"},
                IssueChallenge(h, purpose)
         PROVE  FactorInv'
      <3>1. /\ webauthn[h].st = "none"
            /\ webauthn' = [webauthn EXCEPT ![h] = [st |-> "issued", purpose |-> purpose]]
            /\ UNCHANGED <<secrets, passkeys, codeSets, timeStep, provers, accepted, replayed>>
          BY <2>14 DEF IssueChallenge
      <3>2. FactorTypeOK'
          <4>1. [st |-> "issued", purpose |-> purpose] \in ChallengeRow
              BY DEF ChallengeRow
          <4>2. webauthn' \in [Challenge -> ChallengeRow]
              BY <2>t, <3>1, <4>1
          <4> QED
              BY <2>t, <3>1, <4>2 DEF FactorTypeOK, ChallengeRow
      <3> QED
          BY <2>r, <2>t, <3>1, <3>2
  <2>15. ASSUME (\E p \in Passkey : RemovePasskey(p)) \/ NextTimeStep PROVE FactorInv'
      <3>1. UNCHANGED <<secrets, codeSets, webauthn, provers, accepted, replayed>>
          BY <2>15 DEF RemovePasskey, NextTimeStep
      <3>2. passkeys' \in [Passkey -> {"none", "active", "revoked"}] /\ timeStep' \in 0..MaxStep
          BY <2>15, <2>t DEF RemovePasskey, NextTimeStep, FactorTypeOK
      <3>3. FactorTypeOK'
          BY <2>t, <3>1, <3>2 DEF FactorTypeOK
      <3> QED
          BY <2>r, <3>1, <3>3
  <2>16. CASE UNCHANGED factorVars
      <3>1. UNCHANGED <<secrets, passkeys, codeSets, webauthn, timeStep, provers, accepted, replayed>>
          BY <2>16 DEF factorVars
      <3>2. FactorTypeOK'
          BY <2>t, <3>1 DEF FactorTypeOK
      <3> QED
          BY <2>r, <3>1, <3>2
  <2> QED
      BY <2>1, <2>2, <2>3, <2>4, <2>5, <2>6, <2>7, <2>8, <2>9, <2>10, <2>11, <2>12, <2>13, <2>14,
         <2>15, <2>16
      DEF FactorNext
<1> QED
    BY <1>1, <1>2, PTL DEF FactorSpec

-----------------------------------------------------------------------------
(* DashboardSession *)

SessionRow == [st : {"active", "replayed", "ended"}, pair : Nat \ {0}, expired : Nat]
TabRow == [auth : BOOLEAN, gen : Nat, last : Nat]
FlightRow ==
    [st : {"none", "sent", "refused", "renewed", "stored"}, pair : Nat, got : Nat,
     clear : BOOLEAN, cause : Nat]
FetchRow ==
    [st : {"none", "sent", "refused", "waiting"}, tab : Tab \cup {NoTab}, pair : Nat, gen : Nat,
     canRetry : BOOLEAN]
DashboardRows ==
    /\ session \in SessionRow /\ jar \in Nat /\ tabs \in [Tab -> TabRow]
    /\ flight \in [Tab -> FlightRow] /\ requests \in [Request -> FetchRow] /\ excuse \in BOOLEAN

\* Nobody has a pair the server has not issued.  A pair that was not stored yet is the newest,
\* and nobody else has seen it; a pair that was stored is in the cookies, or a newer one is.
PairsAreHandedOn ==
    /\ jar <= session.pair
    /\ \A t \in Tab :
         /\ flight[t].pair <= session.pair /\ flight[t].got <= session.pair
         /\ tabs[t].last <= session.pair
         /\ jar # 0 => tabs[t].last <= jar
         /\ flight[t].st = "none" => flight[t].pair = 0 /\ flight[t].cause = 0
         /\ flight[t].st = "stored" /\ jar # 0 => flight[t].got <= jar
         /\ flight[t].st = "renewed" =>
              /\ flight[t].got = session.pair /\ jar < session.pair
              /\ \A u \in Tab : /\ flight[u].pair < session.pair
                                /\ flight[u].st = "renewed" => u = t

\* A request that was sent in the generation of its tab has the tab's pair or a newer one.
Recent(q) ==
    q.st # "none" =>
        /\ q.tab \in Tab /\ q.gen <= tabs[q.tab].gen
        /\ q.gen = tabs[q.tab].gen /\ q.pair # 0 => tabs[q.tab].last <= q.pair
RequestsAreRecent == \A r \in Request : Recent(requests[r])

\* As long as no answer was lost and no token was presented twice, what is presented is live.
PresentedIsLive ==
    ~excuse =>
        /\ session.st # "replayed"
        /\ \A t, u \in Tab : flight[t].pair = flight[u].pair /\ flight[t].pair # 0 => t = u
        /\ session.st = "active" =>
             /\ \A t \in Tab : flight[t].st = "sent" /\ flight[t].pair # 0
                                 => flight[t].pair = session.pair
             /\ jar \in {0, session.pair} \/ \E t \in Tab : flight[t].st = "renewed" /\ flight[t].pair = jar

\* The inductive invariant of DashboardSession.
DashboardInv ==
    DashboardRows /\ PairsAreHandedOn /\ RequestsAreRecent /\ PresentedIsLive /\ RefreshIsShared

\* A refresh as it takes off.
SentFor(t, clear, cause) == [st |-> "sent", pair |-> jar, got |-> 0, clear |-> clear, cause |-> cause]

LEMMA TakesOff ==
    ASSUME DashboardInv, NEW t \in Tab, NEW clear \in BOOLEAN, NEW cause \in Nat, Takeoff(t, clear, cause),
           flight[t].st = "none", cause # 0 => tabs[t].last <= cause,
           UNCHANGED <<session, jar, tabs>>
    PROVE  /\ flight' \in [Tab -> FlightRow] /\ excuse' \in BOOLEAN
           /\ PairsAreHandedOn' /\ PresentedIsLive' /\ RefreshIsShared'
<1>t. /\ session \in SessionRow /\ jar \in Nat /\ tabs \in [Tab -> TabRow]
      /\ flight \in [Tab -> FlightRow] /\ excuse \in BOOLEAN
    BY DEF DashboardInv, DashboardRows
<1>1. PICK f : f = SentFor(t, clear, cause)
    OBVIOUS
<1>2. /\ f \in FlightRow /\ f.st = "sent" /\ f.pair = jar /\ f.got = 0 /\ f.cause = cause
    BY <1>t, <1>1 DEF SentFor, FlightRow
<1>3. /\ flight' = [flight EXCEPT ![t] = f]
      /\ excuse' = (excuse \/ \E other \in Tab \ {t} : jar # 0 /\ flight[other].pair = jar)
    BY <1>1 DEF Takeoff, SentFor
<1>4. flight'[t] = f /\ \A u \in Tab \ {t} : flight'[u] = flight[u]
    BY <1>t, <1>3
<1>5. session.pair \in Nat /\ session.pair # 0 /\ jar \in Nat
    BY <1>t DEF SessionRow
<1>6. PairsAreHandedOn'
    <2> SUFFICES ASSUME NEW u \in Tab
                 PROVE  /\ jar <= session.pair
                        /\ flight'[u].pair <= session.pair /\ flight'[u].got <= session.pair
                        /\ tabs[u].last <= session.pair
                        /\ jar # 0 => tabs[u].last <= jar
                        /\ flight'[u].st = "none" => flight'[u].pair = 0 /\ flight'[u].cause = 0
                        /\ flight'[u].st = "stored" /\ jar # 0 => flight'[u].got <= jar
                        /\ flight'[u].st = "renewed" =>
                             /\ flight'[u].got = session.pair /\ jar < session.pair
                             /\ \A v \in Tab : /\ flight'[v].pair < session.pair
                                               /\ flight'[v].st = "renewed" => v = u
        BY DEF PairsAreHandedOn, DashboardInv
    <2>1. CASE u = t
        BY <1>2, <1>4, <1>5, <2>1 DEF DashboardInv, PairsAreHandedOn
    <2>2. CASE u # t
        BY <1>2, <1>4, <1>5, <2>2 DEF DashboardInv, PairsAreHandedOn
    <2> QED
        BY <2>1, <2>2
<1>7. PresentedIsLive'
    <2> SUFFICES ASSUME ~excuse'
                 PROVE  /\ session.st # "replayed"
                        /\ \A u, v \in Tab : flight'[u].pair = flight'[v].pair /\ flight'[u].pair # 0 => u = v
                        /\ session.st = "active" =>
                             /\ \A u \in Tab : flight'[u].st = "sent" /\ flight'[u].pair # 0
                                                 => flight'[u].pair = session.pair
                             /\ \/ jar \in {0, session.pair}
                                \/ \E u \in Tab : flight'[u].st = "renewed" /\ flight'[u].pair = jar
        BY DEF PresentedIsLive
    <2>1. ~excuse /\ \A u \in Tab \ {t} : jar # 0 => flight[u].pair # jar
        BY <1>3
    <2>2. PresentedIsLive
        BY DEF DashboardInv
    <2>3. session.st = "active" => jar \in {0, session.pair}
        <3> SUFFICES ASSUME session.st = "active", jar # 0 PROVE jar = session.pair
            OBVIOUS
        <3>1. \A u \in Tab : flight[u].st = "renewed" => flight[u].pair # jar
            BY <2>1
        <3> QED
            BY <2>1, <2>2, <3>1 DEF PresentedIsLive
    <2> QED
        BY <1>2, <1>4, <2>1, <2>2, <2>3 DEF PresentedIsLive
<1>8. RefreshIsShared'
    BY <1>2, <1>4 DEF DashboardInv, RefreshIsShared
<1> QED
    BY <1>t, <1>2, <1>3, <1>6, <1>7, <1>8

\* Requests go on, while no tab renews its pair.
LEMMA RequestsGoOn ==
    ASSUME DashboardInv, tabs' \in [Tab -> TabRow],
           \A t \in Tab : tabs'[t].gen = tabs[t].gen /\ tabs'[t].last = tabs[t].last,
           requests' \in [Request -> FetchRow], \A r \in Request : Recent(requests'[r])
    PROVE  /\ RequestsAreRecent'
           /\ UNCHANGED <<session, jar, flight, excuse>> => DashboardInv'
<1>1. RequestsAreRecent'
    <2> SUFFICES ASSUME NEW r \in Request, requests'[r].st # "none"
                 PROVE  LET q == requests'[r]
                        IN /\ q.tab \in Tab /\ q.gen <= tabs'[q.tab].gen
                           /\ q.gen = tabs'[q.tab].gen /\ q.pair # 0 => tabs'[q.tab].last <= q.pair
        BY DEF RequestsAreRecent, Recent
    <2>1. PICK q : q = requests'[r]
        OBVIOUS
    <2>2. /\ q.tab \in Tab /\ q.gen <= tabs[q.tab].gen
          /\ q.gen = tabs[q.tab].gen /\ q.pair # 0 => tabs[q.tab].last <= q.pair
        BY <2>1 DEF Recent
    <2> QED
        BY <2>1, <2>2
<1>2. ASSUME UNCHANGED <<session, jar, flight, excuse>> PROVE DashboardInv'
    <2>1. DashboardRows' /\ PairsAreHandedOn' /\ PresentedIsLive' /\ RefreshIsShared'
        BY <1>2 DEF DashboardInv, DashboardRows, PairsAreHandedOn, PresentedIsLive, RefreshIsShared
    <2> QED
        BY <1>1, <2>1 DEF DashboardInv
<1> QED
    BY <1>1, <1>2

\* What is sent has what the cookies hold.
LEMMA FetchIsRecent ==
    ASSUME DashboardInv, NEW t \in Tab, NEW canRetry \in BOOLEAN
    PROVE  Fetch(t, canRetry, tabs[t].gen) \in FetchRow /\ Recent(Fetch(t, canRetry, tabs[t].gen))
<1>1. PICK q : q = Fetch(t, canRetry, tabs[t].gen)
    OBVIOUS
<1>2. /\ q.tab = t /\ q.gen = tabs[t].gen /\ q.pair = jar /\ q.st = "sent"
      /\ jar \in Nat /\ tabs[t].gen \in Nat /\ (jar # 0 => tabs[t].last <= jar)
    BY <1>1 DEF Fetch, DashboardInv, DashboardRows, PairsAreHandedOn, TabRow
<1>3. q \in FetchRow
    BY <1>1, <1>2 DEF Fetch, FetchRow
<1>4. Recent(q)
    BY <1>2 DEF Recent
<1> QED
    BY <1>1, <1>3, <1>4

LEMMA NoRequestIsRecent == NoRequest \in FetchRow /\ Recent(NoRequest)
BY DEF NoRequest, FetchRow, Recent

\* One request goes on.
LEMMA RequestGoesOn ==
    ASSUME DashboardInv, UNCHANGED tabs, NEW r \in Request, NEW q \in FetchRow, Recent(q),
           requests' = [requests EXCEPT ![r] = q]
    PROVE  /\ requests' \in [Request -> FetchRow] /\ RequestsAreRecent'
           /\ UNCHANGED <<session, jar, flight, excuse>> => DashboardInv'
<1>1. requests' \in [Request -> FetchRow] /\ \A x \in Request : Recent(requests'[x])
    BY DEF DashboardInv, DashboardRows, RequestsAreRecent
<1>2. tabs' \in [Tab -> TabRow]
    BY DEF DashboardInv, DashboardRows
<1> QED
    BY <1>1, <1>2, RequestsGoOn

\* A tab forgets the session, and nothing else.
LEMMA SignedOutTabs ==
    ASSUME DashboardInv, NEW t \in Tab
    PROVE  /\ SignedOut(t) \in [Tab -> TabRow]
           /\ \A u \in Tab : SignedOut(t)[u].gen = tabs[u].gen /\ SignedOut(t)[u].last = tabs[u].last
BY DEF SignedOut, DashboardInv, DashboardRows, TabRow

\* The invariant of DashboardSession holds throughout.
LEMMA DashboardInductive == DashboardSpec => []DashboardInv
<1> USE DashboardAssumption
<1>0. /\ NoFlight \in FlightRow /\ NoFlight.st = "none" /\ NoFlight.pair = 0 /\ NoFlight.got = 0
      /\ NoFlight.cause = 0
    BY DEF NoFlight, FlightRow
<1>1. DashboardInit => DashboardInv
  <2> SUFFICES ASSUME DashboardInit PROVE DashboardInv
      OBVIOUS
  <2>1. DashboardRows
      <3>1. session \in SessionRow /\ jar \in Nat
          BY DEF DashboardInit, SessionRow
      <3>2. tabs \in [Tab -> TabRow]
          BY DEF DashboardInit, TabRow
      <3>3. /\ flight \in [Tab -> FlightRow] /\ requests \in [Request -> FetchRow]
            /\ excuse \in BOOLEAN
          BY <1>0, NoRequestIsRecent DEF DashboardInit
      <3> QED
          BY <3>1, <3>2, <3>3 DEF DashboardRows
  <2>2. session.pair = 1 /\ session.st = "active" /\ jar = 1 /\ excuse = FALSE
        /\ \A t \in Tab : tabs[t].last = 0 /\ flight[t] = NoFlight
      BY DEF DashboardInit
  <2>3. PairsAreHandedOn
      BY <1>0, <2>2 DEF PairsAreHandedOn
  <2>4. PresentedIsLive /\ RefreshIsShared
      BY <1>0, <2>2 DEF PresentedIsLive, RefreshIsShared
  <2>5. RequestsAreRecent
      BY NoRequestIsRecent DEF DashboardInit, RequestsAreRecent
  <2> QED
      BY <2>1, <2>3, <2>4, <2>5 DEF DashboardInv
<1>2. DashboardInv /\ [DashboardNext]_dashboardVars => DashboardInv'
  <2> SUFFICES ASSUME DashboardInv, [DashboardNext]_dashboardVars PROVE DashboardInv'
      OBVIOUS
  <2>t. /\ session \in SessionRow /\ jar \in Nat /\ tabs \in [Tab -> TabRow]
        /\ flight \in [Tab -> FlightRow] /\ requests \in [Request -> FetchRow] /\ excuse \in BOOLEAN
        /\ session.pair \in Nat /\ session.pair # 0
      BY DEF DashboardInv, DashboardRows, SessionRow
  <2>q. /\ \A r \in Request : Recent(requests[r])
        /\ PairsAreHandedOn /\ PresentedIsLive /\ RefreshIsShared /\ RequestsAreRecent
      BY DEF DashboardInv, RequestsAreRecent
  \* Numbers of a refresh.
  <2>n. \A u \in Tab : /\ flight[u].pair \in Nat /\ flight[u].got \in Nat /\ flight[u].cause \in Nat
                       /\ tabs[u].last \in Nat /\ tabs[u].gen \in Nat
      BY <2>t DEF FlightRow, TabRow
  <2>1. ASSUME NEW r \in Request, Serve(r) PROVE DashboardInv'
      <3>1. PICK q : q = IF requests[r].pair > session.expired /\ session.st = "active"
                         THEN NoRequest ELSE [requests[r] EXCEPT !.st = "refused"]
          OBVIOUS
      <3>2. requests' = [requests EXCEPT ![r] = q] /\ UNCHANGED <<session, jar, tabs, flight, excuse>>
          BY <2>1, <3>1 DEF Serve
      <3>3. q \in FetchRow /\ Recent(q)
          <4>1. PICK y : y = [requests[r] EXCEPT !.st = "refused"]
              OBVIOUS
          <4>2. y \in FetchRow /\ y.tab = requests[r].tab /\ y.gen = requests[r].gen
                /\ y.pair = requests[r].pair /\ requests[r].st = "sent"
              BY <2>t, <2>1, <4>1 DEF FetchRow, Serve
          <4>3. Recent(y)
              BY <2>q, <4>2 DEF Recent
          <4> QED
              BY <3>1, <4>1, <4>2, <4>3, NoRequestIsRecent
      <3> QED
          BY <3>2, <3>3, RequestGoesOn
  <2>2. ASSUME NEW r \in Request, NEW t \in Tab, Send(t, r) PROVE DashboardInv'
      <3>1. PICK q : q = Fetch(t, TRUE, tabs[t].gen)
          OBVIOUS
      <3>2. requests' = [requests EXCEPT ![r] = q] /\ UNCHANGED <<session, jar, tabs, flight, excuse>>
          BY <2>2, <3>1 DEF Send
      <3> QED
          BY <3>1, <3>2, FetchIsRecent, RequestGoesOn
  <2>3. ASSUME NEW r \in Request, Unauthorized(r) PROVE DashboardInv'
      <3>1. PICK t \in Tab : t = requests[r].tab
          BY <2>3, <2>q DEF Unauthorized, Recent
      <3>2. PICK w : w = [requests[r] EXCEPT !.st = "waiting"]
          OBVIOUS
      <3>3. /\ w \in FetchRow /\ w.tab = t /\ w.gen = requests[r].gen /\ w.pair = requests[r].pair
            /\ requests[r].st = "refused" /\ UNCHANGED <<session, jar>>
          BY <2>t, <2>3, <3>1, <3>2 DEF FetchRow, Unauthorized
      <3>4. Recent(w)
          BY <2>q, <3>1, <3>3 DEF Recent
      <3>5. CASE /\ requests' = [requests EXCEPT ![r] = NoRequest]
                 /\ tabs' \in {tabs, SignedOut(t)} /\ UNCHANGED <<flight, excuse>>
          <4>1. /\ tabs' \in [Tab -> TabRow]
                /\ \A u \in Tab : tabs'[u].gen = tabs[u].gen /\ tabs'[u].last = tabs[u].last
              BY <2>t, <3>5, SignedOutTabs
          <4>2. requests' \in [Request -> FetchRow] /\ \A x \in Request : Recent(requests'[x])
              BY <2>t, <2>q, <3>5, NoRequestIsRecent
          <4> QED
              BY <3>3, <3>5, <4>1, <4>2, RequestsGoOn
      <3>6. CASE /\ requests' = [requests EXCEPT ![r] = Fetch(t, FALSE, tabs[t].gen)]
                 /\ UNCHANGED <<tabs, flight, excuse>>
          BY <3>3, <3>6, FetchIsRecent, RequestGoesOn
      <3>7. CASE /\ requests' = [requests EXCEPT ![r] = w] /\ UNCHANGED <<tabs, flight, excuse>>
          BY <3>3, <3>4, <3>7, RequestGoesOn
      <3>8. CASE /\ ~Superseded(r) /\ ~Joins(t)
                 /\ requests' = [requests EXCEPT ![r] = w] /\ Takeoff(t, TRUE, requests[r].pair)
                 /\ UNCHANGED tabs
          <4>1. /\ flight[t].st = "none" /\ requests[r].gen = tabs[t].gen
                /\ requests[r].pair \in Nat
              BY <2>t, <3>1, <3>8 DEF Joins, Refreshing, Superseded, FetchRow
          <4>2. requests[r].pair # 0 => tabs[t].last <= requests[r].pair
              BY <2>q, <3>1, <3>3, <4>1 DEF Recent
          <4>3. PICK cause \in Nat : cause = requests[r].pair
              BY <4>1
          <4>4. /\ flight' \in [Tab -> FlightRow] /\ excuse' \in BOOLEAN
                /\ PairsAreHandedOn' /\ PresentedIsLive' /\ RefreshIsShared'
              BY <3>3, <3>8, <4>1, <4>2, <4>3, TakesOff
          <4>5. requests' \in [Request -> FetchRow] /\ RequestsAreRecent'
              BY <3>3, <3>4, <3>8, RequestGoesOn
          <4> QED
              BY <2>t, <3>3, <3>8, <4>4, <4>5 DEF DashboardInv, DashboardRows
      <3>9. CASE /\ requests' = [requests EXCEPT ![r] = NoRequest] /\ UNCHANGED <<tabs, flight, excuse>>
          BY <3>3, <3>9, NoRequestIsRecent, RequestGoesOn
      <3>10. CASE ~requests[r].canRetry
          BY <2>3, <3>1, <3>5, <3>10 DEF Unauthorized
      <3>11. CASE requests[r].canRetry /\ Superseded(r)
          BY <2>3, <3>1, <3>6, <3>11 DEF Unauthorized
      <3>12. CASE requests[r].canRetry /\ ~Superseded(r) /\ Joins(t)
          BY <2>3, <2>t, <3>1, <3>2, <3>7, <3>12 DEF Unauthorized
      <3>13. CASE requests[r].canRetry /\ ~Superseded(r) /\ ~Joins(t)
          BY <2>3, <2>t, <3>1, <3>2, <3>8, <3>9, <3>13 DEF Unauthorized
      <3> QED
          BY <3>10, <3>11, <3>12, <3>13
  <2>4. ASSUME NEW t \in Tab, KeepAlive(t) PROVE DashboardInv'
      <3>1. /\ flight[t].st = "none" /\ Takeoff(t, FALSE, 0) /\ UNCHANGED <<session, jar, tabs, requests>>
          BY <2>4 DEF KeepAlive, Joins, Refreshing
      <3>2. /\ flight' \in [Tab -> FlightRow] /\ excuse' \in BOOLEAN
            /\ PairsAreHandedOn' /\ PresentedIsLive' /\ RefreshIsShared'
          BY <3>1, TakesOff
      <3>3. RequestsAreRecent'
          BY <2>q, <3>1 DEF RequestsAreRecent, Recent
      <3> QED
          BY <2>t, <3>1, <3>2, <3>3 DEF DashboardInv, DashboardRows
  <2>5. ASSUME NEW t \in Tab, RefreshServed(t), session.st = "active" /\ flight[t].pair = session.pair
        PROVE  DashboardInv'
      <3>1. PICK f : f = [flight[t] EXCEPT !.st = "renewed", !.got = session.pair + 1]
          OBVIOUS
      <3>2. /\ f \in FlightRow /\ f.st = "renewed" /\ f.got = session.pair + 1
            /\ f.pair = session.pair /\ f.cause = flight[t].cause
          <4>1. PICK n \in Nat : n = session.pair + 1
              BY <2>t
          <4>2. flight[t] \in FlightRow /\ f = [flight[t] EXCEPT !.st = "renewed", !.got = n]
              BY <2>t, <3>1, <4>1
          <4>3. f \in FlightRow
              BY <4>2 DEF FlightRow
          <4> QED
              BY <2>5, <4>1, <4>2, <4>3 DEF FlightRow
      <3>3. PICK row : row = [session EXCEPT !.pair = session.pair + 1]
          OBVIOUS
      <3>4. row \in SessionRow /\ row.pair = session.pair + 1 /\ row.st = session.st
          BY <2>t, <3>3 DEF SessionRow
      <3>5. /\ session' = row /\ flight' = [flight EXCEPT ![t] = f]
            /\ UNCHANGED <<jar, tabs, requests, excuse>> /\ flight[t].st = "sent"
          BY <2>5, <2>t, <3>1, <3>3 DEF RefreshServed
      <3>6. flight'[t] = f /\ \A u \in Tab \ {t} : flight'[u] = flight[u]
          BY <2>t, <3>5
      <3>7. \A u \in Tab : flight[u].st # "renewed"
          BY <2>q, <2>n, <2>t, <2>5 DEF PairsAreHandedOn
      <3>8. DashboardRows'
          BY <2>t, <3>2, <3>4, <3>5 DEF DashboardRows
      <3>9. PairsAreHandedOn'
          <4> SUFFICES ASSUME NEW u \in Tab
                       PROVE  /\ jar <= row.pair
                              /\ flight'[u].pair <= row.pair /\ flight'[u].got <= row.pair
                              /\ tabs[u].last <= row.pair
                              /\ jar # 0 => tabs[u].last <= jar
                              /\ flight'[u].st = "none" => flight'[u].pair = 0 /\ flight'[u].cause = 0
                              /\ flight'[u].st = "stored" /\ jar # 0 => flight'[u].got <= jar
                              /\ flight'[u].st = "renewed" =>
                                   /\ flight'[u].got = row.pair /\ jar < row.pair
                                   /\ \A v \in Tab : /\ flight'[v].pair < row.pair
                                                     /\ flight'[v].st = "renewed" => v = u
              BY <2>q, <2>t, <3>4, <3>5 DEF PairsAreHandedOn
          <4>1. \A v \in Tab : flight'[v].pair <= session.pair /\ flight'[v].pair \in Nat
                              /\ (flight'[v].st = "renewed" => v = t)
              BY <2>q, <2>n, <2>t, <3>2, <3>6, <3>7 DEF PairsAreHandedOn
          <4>2. jar <= session.pair
              BY <2>q DEF PairsAreHandedOn
          <4>3. CASE u = t
              BY <2>q, <2>n, <2>t, <3>2, <3>4, <3>6, <4>1, <4>2, <4>3 DEF PairsAreHandedOn
          <4>4. CASE u # t
              BY <2>q, <2>n, <2>t, <3>2, <3>4, <3>6, <3>7, <4>1, <4>2, <4>4 DEF PairsAreHandedOn
          <4> QED
              BY <4>3, <4>4
      <3>10. PresentedIsLive'
          <4> SUFFICES ASSUME ~excuse
                       PROVE  /\ row.st # "replayed"
                              /\ \A u, v \in Tab : flight'[u].pair = flight'[v].pair /\ flight'[u].pair # 0 => u = v
                              /\ \A u \in Tab : flight'[u].st = "sent" => flight'[u].pair = 0
                              /\ \/ jar = 0
                                 \/ \E u \in Tab : flight'[u].st = "renewed" /\ flight'[u].pair = jar
              BY <3>4, <3>5 DEF PresentedIsLive
          <4>1. \A u \in Tab : flight'[u].pair = flight[u].pair
              BY <2>5, <3>2, <3>6
          <4>2. \A u, v \in Tab : flight[u].pair = flight[v].pair /\ flight[u].pair # 0 => u = v
              BY <2>q DEF PresentedIsLive
          <4>3. \A u \in Tab : flight'[u].st = "sent" => flight'[u].pair = 0
              BY <2>q, <2>t, <2>5, <3>2, <3>6, <4>2 DEF PresentedIsLive
          <4>4. jar = 0 \/ jar = session.pair
              BY <2>q, <2>5, <3>7 DEF PresentedIsLive
          <4> QED
              BY <2>5, <3>2, <3>4, <3>6, <4>1, <4>2, <4>3, <4>4
      <3>11. RefreshIsShared'
          BY <2>q, <3>2, <3>5, <3>6 DEF RefreshIsShared
      <3>12. RequestsAreRecent'
          BY <2>q, <3>5 DEF RequestsAreRecent, Recent
      <3> QED
          BY <3>8, <3>9, <3>10, <3>11, <3>12 DEF DashboardInv
  \* Refreshes end or are refused: no pair, request or tab is touched.
  <2>f. ASSUME NEW t \in Tab, NEW f \in FlightRow, flight' = [flight EXCEPT ![t] = f],
               f.st = "refused" /\ f.got = flight[t].got /\ f.pair = flight[t].pair /\ f.cause = flight[t].cause,
               session' \in SessionRow, session'.pair = session.pair, session'.st # "active" \/ session'.st = session.st,
               UNCHANGED <<jar, tabs, requests>>, excuse' \in BOOLEAN, excuse => excuse',
               ~excuse' => session'.st # "replayed" /\ flight[t].st # "renewed"
        PROVE  DashboardInv'
      <3>1. flight'[t] = f /\ \A u \in Tab \ {t} : flight'[u] = flight[u]
          BY <2>t, <2>f
      <3>2. DashboardRows'
          BY <2>t, <2>f DEF DashboardRows
      <3>3. PairsAreHandedOn'
          BY <2>q, <2>n, <2>t, <2>f, <3>1 DEF PairsAreHandedOn
      <3>4. PresentedIsLive'
          BY <2>q, <2>f, <3>1 DEF PresentedIsLive
      <3>5. RefreshIsShared' /\ RequestsAreRecent'
          BY <2>q, <2>f, <3>1 DEF RefreshIsShared, RequestsAreRecent, Recent
      <3> QED
          BY <3>2, <3>3, <3>4, <3>5 DEF DashboardInv
  <2>6. ASSUME NEW t \in Tab, RefreshServed(t), ~(session.st = "active" /\ flight[t].pair = session.pair)
        PROVE  DashboardInv'
      <3>1. PICK f : f = [flight[t] EXCEPT !.st = "refused"]
          OBVIOUS
      <3>2. /\ f \in FlightRow /\ f.st = "refused" /\ f.got = flight[t].got
            /\ f.pair = flight[t].pair /\ f.cause = flight[t].cause
          BY <2>t, <3>1 DEF FlightRow
      <3>3. PICK row : row = [session EXCEPT !.st = "replayed"]
          OBVIOUS
      <3>4. row \in SessionRow /\ row.st = "replayed" /\ row.pair = session.pair
          BY <2>t, <3>3 DEF SessionRow
      <3>5. /\ flight' = [flight EXCEPT ![t] = f] /\ flight[t].st = "sent"
            /\ session' = IF session.st = "active" /\ flight[t].pair # 0 THEN row ELSE session
            /\ UNCHANGED <<jar, tabs, requests, excuse>>
          BY <2>6, <2>t, <3>1, <3>3 DEF RefreshServed
      <3>6. ~excuse => session' = session /\ session.st # "replayed"
          BY <2>6, <2>q, <3>5 DEF PresentedIsLive
      <3>7. /\ session' \in SessionRow /\ session'.pair = session.pair
            /\ session'.st # "active" \/ session'.st = session.st
          BY <2>t, <3>4, <3>5
      <3> QED
          BY <2>f, <2>t, <3>2, <3>5, <3>6, <3>7
  <2>7. ASSUME NEW t \in Tab, RefreshLost(t) PROVE DashboardInv'
      <3>1. PICK f : f = [flight[t] EXCEPT !.st = "refused"]
          OBVIOUS
      <3>2. /\ f \in FlightRow /\ f.st = "refused" /\ f.got = flight[t].got
            /\ f.pair = flight[t].pair /\ f.cause = flight[t].cause
          BY <2>t, <3>1 DEF FlightRow
      <3>3. /\ flight' = [flight EXCEPT ![t] = f] /\ UNCHANGED <<session, jar, tabs, requests>>
            /\ excuse' = (excuse \/ flight[t].st = "renewed")
          BY <2>7, <2>t, <3>1 DEF RefreshLost
      <3>4. ~excuse => session.st # "replayed"
          BY <2>q DEF PresentedIsLive
      <3> QED
          BY <2>f, <2>t, <3>2, <3>3, <3>4
  <2>8. ASSUME NEW t \in Tab, StoreCookies(t) PROVE DashboardInv'
      <3>1. PICK f : f = [flight[t] EXCEPT !.st = "stored"]
          OBVIOUS
      <3>2. /\ f \in FlightRow /\ f.st = "stored" /\ f.got = flight[t].got
            /\ f.pair = flight[t].pair /\ f.cause = flight[t].cause
          BY <2>t, <3>1 DEF FlightRow
      <3>3. /\ flight' = [flight EXCEPT ![t] = f] /\ UNCHANGED <<session, tabs, requests, excuse>>
            /\ jar' = flight[t].got /\ flight[t].st = "renewed"
          BY <2>8, <2>t, <3>1 DEF StoreCookies
      <3>4. jar' = session.pair /\ \A u \in Tab : flight[u].st = "renewed" => u = t
          BY <2>q, <3>3 DEF PairsAreHandedOn
      <3>5. flight'[t] = f /\ \A u \in Tab \ {t} : flight'[u] = flight[u]
          BY <2>t, <3>3
      <3>6. DashboardRows'
          BY <2>t, <3>2, <3>3, <3>4 DEF DashboardRows
      <3>7. PairsAreHandedOn'
          BY <2>q, <2>n, <2>t, <3>2, <3>3, <3>4, <3>5 DEF PairsAreHandedOn
      <3>8. PresentedIsLive'
          BY <2>q, <3>2, <3>3, <3>4, <3>5 DEF PresentedIsLive
      <3>9. RefreshIsShared' /\ RequestsAreRecent'
          BY <2>q, <3>2, <3>3, <3>5 DEF RefreshIsShared, RequestsAreRecent, Recent
      <3> QED
          BY <3>6, <3>7, <3>8, <3>9 DEF DashboardInv
  \* A refresh is over.
  <2>g. ASSUME NEW t \in Tab, flight[t].st \in {"stored", "refused"}, flight' = [flight EXCEPT ![t] = NoFlight],
               UNCHANGED <<session, jar, excuse>>, tabs' \in [Tab -> TabRow],
               requests' \in [Request -> FetchRow], RequestsAreRecent',
               \A u \in Tab \ {t} : tabs'[u].last = tabs[u].last,
               tabs'[t].last <= session.pair, jar # 0 => tabs'[t].last <= jar
        PROVE  DashboardInv'
      <3>1. flight'[t] = NoFlight /\ \A u \in Tab \ {t} : flight'[u] = flight[u]
          BY <2>t, <2>g
      <3>2. DashboardRows'
          BY <1>0, <2>t, <2>g DEF DashboardRows
      <3>3. PairsAreHandedOn'
          <4> SUFFICES ASSUME NEW u \in Tab
                       PROVE  /\ jar <= session.pair
                              /\ flight'[u].pair <= session.pair /\ flight'[u].got <= session.pair
                              /\ tabs'[u].last <= session.pair
                              /\ jar # 0 => tabs'[u].last <= jar
                              /\ flight'[u].st = "none" => flight'[u].pair = 0 /\ flight'[u].cause = 0
                              /\ flight'[u].st = "stored" /\ jar # 0 => flight'[u].got <= jar
                              /\ flight'[u].st = "renewed" =>
                                   /\ flight'[u].got = session.pair /\ jar < session.pair
                                   /\ \A v \in Tab : /\ flight'[v].pair < session.pair
                                                     /\ flight'[v].st = "renewed" => v = u
              BY <2>q, <2>g DEF PairsAreHandedOn
          <4>1. \A v \in Tab : /\ flight'[v].pair = 0 \/ flight'[v].pair = flight[v].pair
                              /\ flight'[v].st = "renewed" => flight[v].st = "renewed"
              BY <1>0, <3>1
          <4>2. CASE u = t
              BY <1>0, <2>q, <2>t, <2>g, <3>1, <4>2 DEF PairsAreHandedOn
          <4>3. CASE u # t
              <5>1. flight'[u] = flight[u] /\ tabs'[u].last = tabs[u].last
                  BY <2>g, <3>1, <4>3
              <5>2. ASSUME flight[u].st = "renewed"
                    PROVE  /\ flight[u].got = session.pair /\ jar < session.pair
                           /\ \A v \in Tab : /\ flight'[v].pair < session.pair
                                             /\ flight'[v].st = "renewed" => v = u
                  <6>1. \A v \in Tab : flight[v].pair < session.pair /\ (flight[v].st = "renewed" => v = u)
                      BY <2>q, <5>2 DEF PairsAreHandedOn
                  <6>2. 0 < session.pair
                      BY <2>t
                  <6>3. ASSUME NEW v \in Tab
                        PROVE  flight'[v].pair < session.pair /\ (flight'[v].st = "renewed" => v = u)
                      <7>1. CASE v = t
                          BY <1>0, <2>g, <3>1, <4>3, <5>2, <6>2, <7>1
                      <7>2. CASE v # t
                          BY <3>1, <6>1, <7>2
                      <7> QED
                          BY <7>1, <7>2
                  <6>4. flight[u].got = session.pair /\ jar < session.pair
                      BY <2>q, <5>2 DEF PairsAreHandedOn
                  <6> QED
                      BY <6>3, <6>4
              <5> QED
                  BY <2>q, <5>1, <5>2 DEF PairsAreHandedOn
          <4> QED
              BY <4>2, <4>3
      <3>4. PresentedIsLive'
          BY <1>0, <2>q, <2>g, <3>1 DEF PresentedIsLive
      <3>5. RefreshIsShared'
          BY <1>0, <2>q, <2>g, <3>1 DEF RefreshIsShared
      <3> QED
          BY <2>g, <3>2, <3>3, <3>4, <3>5 DEF DashboardInv
  <2>9. ASSUME NEW t \in Tab, RefreshDone(t) PROVE DashboardInv'
      <3>1. PICK row : row = [auth |-> TRUE, gen |-> tabs[t].gen + 1, last |-> flight[t].got]
          OBVIOUS
      <3>2. row \in TabRow /\ row.gen = tabs[t].gen + 1 /\ row.last = flight[t].got
          BY <2>n, <3>1 DEF TabRow
      <3>3. PICK q : q = Fetch(t, FALSE, tabs[t].gen + 1)
          OBVIOUS
      <3>4. /\ q \in FetchRow /\ q.tab = t /\ q.gen = tabs[t].gen + 1 /\ q.pair = jar /\ q.st = "sent"
          BY <2>t, <2>n, <3>3 DEF Fetch, FetchRow
      <3>5. /\ flight[t].st = "stored" /\ tabs' = [tabs EXCEPT ![t] = row]
            /\ requests' = [r \in Request |->
                   IF requests[r].st = "waiting" /\ requests[r].tab = t THEN q ELSE requests[r]]
            /\ flight' = [flight EXCEPT ![t] = NoFlight] /\ UNCHANGED <<session, jar, excuse>>
          BY <2>9, <3>1, <3>3 DEF RefreshDone
      <3>6. /\ tabs' \in [Tab -> TabRow] /\ tabs'[t] = row
            /\ \A u \in Tab \ {t} : tabs'[u] = tabs[u]
            /\ requests' \in [Request -> FetchRow]
          BY <2>t, <3>2, <3>4, <3>5
      <3>7. flight[t].got <= session.pair /\ (jar # 0 => flight[t].got <= jar)
          BY <2>q, <3>5 DEF PairsAreHandedOn
      <3>8. ASSUME NEW r \in Request, requests'[r].st # "none"
            PROVE  /\ requests'[r].tab \in Tab /\ requests'[r].gen <= tabs'[requests'[r].tab].gen
                   /\ requests'[r].gen = tabs'[requests'[r].tab].gen /\ requests'[r].pair # 0
                        => tabs'[requests'[r].tab].last <= requests'[r].pair
          <4>1. CASE requests[r].st = "waiting" /\ requests[r].tab = t
              BY <2>n, <3>2, <3>4, <3>5, <3>6, <3>7, <4>1
          <4>2. CASE ~(requests[r].st = "waiting" /\ requests[r].tab = t)
              <5>1. PICK y \in FetchRow : y = requests[r] /\ y = requests'[r]
                  BY <2>t, <3>5, <4>2
              <5>2. Recent(y) /\ y.st # "none" /\ y.gen \in Nat
                  BY <2>q, <3>8, <5>1 DEF FetchRow
              <5>3. CASE y.tab = t
                  BY <2>n, <3>2, <3>6, <5>1, <5>2, <5>3 DEF Recent
              <5>4. CASE y.tab # t
                  BY <3>6, <5>1, <5>2, <5>4 DEF Recent
              <5> QED
                  BY <5>3, <5>4
          <4> QED
              BY <4>1, <4>2
      <3>9. RequestsAreRecent'
          BY <3>8 DEF RequestsAreRecent, Recent
      <3> QED
          BY <2>g, <3>2, <3>5, <3>6, <3>7, <3>9
  <2>10. ASSUME NEW t \in Tab, RefreshFailed(t) PROVE DashboardInv'
      <3>1. /\ flight[t].st = "refused" /\ tabs' \in {tabs, SignedOut(t)}
            /\ requests' = [r \in Request |->
                  IF requests[r].st = "waiting" /\ requests[r].tab = t THEN NoRequest ELSE requests[r]]
            /\ flight' = [flight EXCEPT ![t] = NoFlight] /\ UNCHANGED <<session, jar, excuse>>
          BY <2>10 DEF RefreshFailed
      <3>2. /\ tabs' \in [Tab -> TabRow]
            /\ \A u \in Tab : tabs'[u].gen = tabs[u].gen /\ tabs'[u].last = tabs[u].last
          BY <2>t, <3>1, SignedOutTabs
      <3>3. requests' \in [Request -> FetchRow] /\ \A r \in Request : Recent(requests'[r])
          BY <2>t, <2>q, <3>1, NoRequestIsRecent
      <3>4. RequestsAreRecent'
          BY <3>2, <3>3, RequestsGoOn
      <3>5. tabs'[t].last <= session.pair /\ (jar # 0 => tabs'[t].last <= jar)
          BY <2>q, <3>2 DEF PairsAreHandedOn
      <3> QED
          BY <2>g, <3>1, <3>2, <3>3, <3>4, <3>5
  \* A tab signs out, or access tokens expire.
  <2>s. ASSUME session' \in SessionRow, session'.pair = session.pair,
               session'.st = session.st \/ session'.st = "ended", jar' \in {0, jar},
               tabs' \in [Tab -> TabRow],
               \A u \in Tab : tabs'[u].gen = tabs[u].gen /\ tabs'[u].last = tabs[u].last,
               UNCHANGED <<flight, requests, excuse>>
        PROVE  DashboardInv'
      <3>1. DashboardRows'
          BY <2>t, <2>s DEF DashboardRows
      <3>2. PairsAreHandedOn'
          BY <2>q, <2>t, <2>n, <2>s DEF PairsAreHandedOn
      <3>3. PresentedIsLive'
          BY <2>q, <2>s DEF PresentedIsLive
      <3>4. RefreshIsShared'
          BY <2>q, <2>s DEF RefreshIsShared
      <3>5. RequestsAreRecent'
          BY <2>t, <2>q, <2>s, RequestsGoOn
      <3> QED
          BY <3>1, <3>2, <3>3, <3>4, <3>5 DEF DashboardInv
  <2>11. ASSUME NEW t \in Tab, SignOut(t) PROVE DashboardInv'
      <3>1. PICK row : row = [session EXCEPT !.st = "ended"]
          OBVIOUS
      <3>2. row \in SessionRow /\ row.st = "ended" /\ row.pair = session.pair
          BY <2>t, <3>1 DEF SessionRow
      <3>3. /\ session' \in {row, session} /\ jar' \in {0, jar} /\ tabs' = SignedOut(t)
            /\ UNCHANGED <<flight, requests, excuse>>
          BY <2>11, <3>1 DEF SignOut
      <3>4. /\ tabs' \in [Tab -> TabRow]
            /\ \A u \in Tab : tabs'[u].gen = tabs[u].gen /\ tabs'[u].last = tabs[u].last
          BY <3>3, SignedOutTabs
      <3> QED
          BY <2>s, <2>t, <3>2, <3>3, <3>4
  <2>12. CASE ExpireAccess
      <3>1. PICK row : row = [session EXCEPT !.expired = session.pair]
          OBVIOUS
      <3>2. row \in SessionRow /\ row.st = session.st /\ row.pair = session.pair
          BY <2>t, <3>1 DEF SessionRow
      <3>3. session' = row /\ UNCHANGED <<jar, tabs, flight, requests, excuse>>
          BY <2>12, <3>1 DEF ExpireAccess
      <3> QED
          BY <2>s, <2>t, <3>2, <3>3
  <2>13. CASE UNCHANGED dashboardVars
      <3>1. UNCHANGED <<session, jar, tabs, flight, requests, excuse>>
          BY <2>13 DEF dashboardVars
      <3> QED
          BY <2>s, <2>t, <3>1
  <2> QED
      BY <2>1, <2>2, <2>3, <2>4, <2>5, <2>6, <2>7, <2>8, <2>9, <2>10, <2>11, <2>12, <2>13
      DEF DashboardNext
<1> QED
    BY <1>1, <1>2, PTL DEF DashboardSpec

\* The pieces of CredentialsWorkOnce.
LEMMA DashboardFromInv == ASSUME DashboardInv PROVE RefreshIsShared /\ SessionEndsForCause
BY DEF DashboardInv, PresentedIsLive, SessionEndsForCause

-----------------------------------------------------------------------------
(* OrderDesk *)

DeskStatuses == Lifecycle!OrderStatuses
PreviewRow == [st : {"none", "pending", "shown"}, of : SUBSET DeskOrder, to : Target, valid : SUBSET DeskOrder]
DeskRows ==
    /\ orders \in [DeskOrder -> DeskRow]
    /\ bulk \in Target /\ bulkPreview \in PreviewRow /\ selectedIds \subseteq DeskOrder

\* A copy of a row says what the row says, or is of an earlier version; a row the screen hides
\* has a version no row reaches.
Copied(o, version, status) ==
    /\ version \in Nat
    /\ version <= orders[o].version \/ version = MaxMoves + 1
    /\ version = orders[o].version => status = orders[o].status

\* The rows on the screen, and the writes made from them, are copies.
ListIsCopied == \A o \in DeskOrder : Copied(o, list[o].version, list[o].status)
DetailIsCopied ==
    detail = NoDetail \/ (detail.order \in DeskOrder /\ Copied(detail.order, detail.row.version, detail.row.status))
FormIsCopied ==
    shipping = Closed \/ /\ shipping.order \in DeskOrder /\ shipping.tracked \in BOOLEAN
                         /\ Copied(shipping.order, shipping.row.version, shipping.row.status)
WrittenFrom(w) ==
    /\ w.order \in DeskOrder /\ w.to \in DeskStatuses /\ w.tracked \in BOOLEAN
    /\ Copied(w.order, w.version, w.shown)
WritesAreCopied == \A w \in inFlight : WrittenFrom(w)

\* The inductive invariant of OrderDesk.
DeskInv ==
    /\ DeskRows /\ ListIsCopied /\ DetailIsCopied /\ FormIsCopied /\ WritesAreCopied
    /\ PreviewIsOfSelection

\* A row is replaced by one of a later version, or by one with the same status and version.
Advances(old, new) ==
    \/ old.version < new.version
    \/ old.version = new.version /\ old.status = new.status

LEMMA MovedAdvances ==
    ASSUME NEW row \in DeskRow, NEW to \in DeskStatuses
    PROVE  /\ Moved(row, to).version \in Nat /\ Moved(row, to).status \in DeskStatuses
           /\ Moved(row, to).tracked = row.tracked /\ Advances(row, Moved(row, to))
           /\ Moved(row, to) = [status |-> Moved(row, to).status, version |-> Moved(row, to).version,
                                tracked |-> Moved(row, to).tracked]
<1> USE DeskAssumption
<1>1. row.status \in DeskStatuses /\ row.version \in 0..MaxMoves /\ row.tracked \in BOOLEAN
      /\ row = [status |-> row.status, version |-> row.version, tracked |-> row.tracked]
    BY DEF DeskRow, DeskStatuses
<1>2. row.version \in Nat
    BY <1>1
<1>3. CASE to = row.status
    BY <1>1, <1>2, <1>3 DEF Moved, Advances
<1>4. CASE to # row.status
    <2>1. PICK y : y = [row EXCEPT !.status = to, !.version = row.version + 1]
        OBVIOUS
    <2>2. /\ y = [status |-> to, version |-> row.version + 1, tracked |-> row.tracked]
        BY <1>1, <2>1
    <2>3. Moved(row, to) = y
        BY <1>4, <2>1 DEF Moved
    <2>4. row.version + 1 \in Nat /\ row.version < row.version + 1
        BY <1>2
    <2> QED
        BY <2>2, <2>3, <2>4 DEF Advances
<1> QED
    BY <1>3, <1>4

\* What the API makes of a row, by a write or otherwise, is a row that goes on.
LEMMA ServedAdvances ==
    ASSUME DeskInv, NEW w \in inFlight, Served(w).version <= MaxMoves
    PROVE  Served(w) \in DeskRow /\ Advances(orders[w.order], Served(w))
<1> USE DeskAssumption
<1>1. PICK row \in DeskRow : row = orders[w.order]
    BY DEF DeskInv, DeskRows, WritesAreCopied, WrittenFrom
<1>2. w.to \in DeskStatuses /\ w.tracked \in BOOLEAN
    BY DEF DeskInv, WritesAreCopied, WrittenFrom
<1>3. PICK m : m = Moved(row, w.to)
    OBVIOUS
<1>4. /\ m.version \in Nat /\ m.status \in DeskStatuses /\ m.tracked \in BOOLEAN /\ Advances(row, m)
      /\ m = [status |-> m.status, version |-> m.version, tracked |-> m.tracked]
    BY <1>2, <1>3, MovedAdvances DEF DeskRow
<1>5. PICK a : a = [m EXCEPT !.tracked = TRUE]
    OBVIOUS
<1>6. a = [status |-> m.status, version |-> m.version, tracked |-> TRUE]
    BY <1>4, <1>5
<1>7. PICK b : b = [row EXCEPT !.tracked = w.tracked]
    OBVIOUS
<1>8. b \in DeskRow /\ b.version = row.version /\ b.status = row.status
    BY <1>2, <1>7 DEF DeskRow
<1>9. PICK s : s = Served(w)
    OBVIOUS
<1>10. s \in {row, m, a, b}
    BY <1>1, <1>3, <1>5, <1>7, <1>9 DEF Served
<1>11. s.version <= MaxMoves
    BY <1>9
<1>12. ASSUME s \in {m, a} PROVE s \in DeskRow /\ Advances(row, s)
    <2>1. s.version = m.version /\ s.status = m.status /\ s.tracked \in BOOLEAN
          /\ s = [status |-> s.status, version |-> s.version, tracked |-> s.tracked]
        <3>1. CASE s = m
            BY <1>4, <3>1
        <3>2. CASE s = a
            <4>1. a.version = m.version /\ a.status = m.status /\ a.tracked = TRUE
                BY <1>6
            <4> QED
                BY <1>6, <3>2, <4>1
        <3> QED
            BY <1>12, <3>1, <3>2
    <2>2. s.version \in 0..MaxMoves
        BY <1>4, <1>11, <2>1
    <2>3. s \in DeskRow
        BY <1>4, <2>1, <2>2 DEF DeskRow, DeskStatuses
    <2> QED
        BY <1>4, <2>1, <2>3 DEF Advances
<1>13. ASSUME s \in {row, b} PROVE s \in DeskRow /\ Advances(row, s)
    BY <1>8, <1>13 DEF Advances
<1> QED
    BY <1>1, <1>9, <1>10, <1>12, <1>13

\* A row goes on, and what was copied from it stays a copy.
LEMMA CopiesStay ==
    ASSUME DeskInv, NEW o \in DeskOrder, NEW row \in DeskRow, Advances(orders[o], row),
           orders' = [orders EXCEPT ![o] = row],
           NEW p \in DeskOrder, NEW version, NEW status, Copied(p, version, status)
    PROVE  Copied(p, version, status)'
<1> USE DeskAssumption
<1>1. orders[p].version \in 0..MaxMoves /\ row.version \in 0..MaxMoves
    BY DEF DeskInv, DeskRows, DeskRow
<1>2. orders'[p] = IF p = o THEN row ELSE orders[p]
    BY DEF DeskInv, DeskRows
<1>3. CASE p = o
    <2>1. orders'[p] = row /\ Advances(orders[p], row)
        BY <1>2, <1>3
    <2>2. CASE orders[p].version < row.version
        BY <1>1, <2>1, <2>2 DEF Copied
    <2>3. CASE orders[p].version = row.version /\ orders[p].status = row.status
        BY <1>1, <2>1, <2>3 DEF Copied
    <2> QED
        BY <2>1, <2>2, <2>3 DEF Advances
<1>4. CASE p # o
    BY <1>2, <1>4 DEF Copied
<1> QED
    BY <1>3, <1>4

\* The rows are as they were: copies stay copies.
LEMMA CopiesAsBefore ==
    ASSUME UNCHANGED orders, NEW p, NEW version, NEW status, Copied(p, version, status)
    PROVE  Copied(p, version, status)'
BY DEF Copied

LEMMA HiddenIsCopied ==
    ASSUME DeskInv, NEW o \in DeskOrder
    PROVE  Copied(o, Hidden.version, Hidden.status) /\ Copied(o, orders[o].version, orders[o].status)
<1>1. orders[o].version \in 0..MaxMoves /\ MaxMoves \in Nat
    BY DeskAssumption DEF DeskInv, DeskRows, DeskRow
<1> QED
    BY <1>1 DEF Hidden, Copied

\* The invariant of OrderDesk holds throughout.
LEMMA DeskInductive == DeskSpec => []DeskInv
<1> USE DeskAssumption, TargetAssumption
<1>0. /\ (CHOOSE t \in Target : TRUE) \in Target
      /\ NoPreview \in PreviewRow /\ NoPreview.st = "none"
    BY DEF NoPreview, PreviewRow
<1>1. DeskInit => DeskInv
  <2> SUFFICES ASSUME DeskInit PROVE DeskInv
      OBVIOUS
  <2>1. PICK row : row = [status |-> "ready_to_ship", version |-> 0, tracked |-> FALSE]
      OBVIOUS
  <2>2. row \in DeskRow /\ row.version = 0
      BY <2>1 DEF DeskRow, Lifecycle!OrderStatuses
  <2>3. DeskRows
      BY <1>0, <2>1, <2>2 DEF DeskInit, DeskRows
  <2>4. \A o \in DeskOrder : orders[o] = row /\ list[o] = row
      BY <2>1 DEF DeskInit
  <2>5. ListIsCopied
      BY <2>2, <2>4 DEF ListIsCopied, Copied
  <2>6. DetailIsCopied /\ FormIsCopied /\ WritesAreCopied /\ PreviewIsOfSelection
      BY DEF DeskInit, DetailIsCopied, FormIsCopied, WritesAreCopied, PreviewIsOfSelection
  <2> QED
      BY <2>3, <2>5, <2>6 DEF DeskInv
<1>2. DeskInv /\ [DeskNext]_deskVars => DeskInv'
  <2> SUFFICES ASSUME DeskInv, [DeskNext]_deskVars PROVE DeskInv'
      OBVIOUS
  <2>t. /\ orders \in [DeskOrder -> DeskRow] /\ bulk \in Target /\ bulkPreview \in PreviewRow
        /\ selectedIds \subseteq DeskOrder
      BY DEF DeskInv, DeskRows
  <2>q. ListIsCopied /\ DetailIsCopied /\ FormIsCopied /\ WritesAreCopied /\ PreviewIsOfSelection
      BY DEF DeskInv
  \* Each part of the invariant, while what it speaks of is left alone.
  <2>a. /\ UNCHANGED <<orders, list>> => ListIsCopied'
        /\ UNCHANGED <<orders, detail>> => DetailIsCopied'
        /\ UNCHANGED <<orders, shipping>> => FormIsCopied'
        /\ UNCHANGED <<orders, inFlight>> => WritesAreCopied'
        /\ UNCHANGED <<orders, selectedIds, bulk, bulkPreview>> => DeskRows'
        /\ UNCHANGED <<selectedIds, bulk, bulkPreview>> => PreviewIsOfSelection'
      <3>1. UNCHANGED <<orders, list>> => ListIsCopied'
          BY <2>q DEF ListIsCopied, Copied
      <3>2. UNCHANGED <<orders, detail>> => DetailIsCopied'
          BY <2>q DEF DetailIsCopied, Copied, NoDetail, Hidden
      <3>3. UNCHANGED <<orders, shipping>> => FormIsCopied'
          BY <2>q DEF FormIsCopied, Copied, Closed, Hidden
      <3>4. UNCHANGED <<orders, inFlight>> => WritesAreCopied'
          BY <2>q DEF WritesAreCopied, WrittenFrom, Copied
      <3>5. UNCHANGED <<orders, selectedIds, bulk, bulkPreview>> => DeskRows'
          BY <2>t DEF DeskRows
      <3>6. UNCHANGED <<selectedIds, bulk, bulkPreview>> => PreviewIsOfSelection'
          BY <2>q DEF PreviewIsOfSelection
      <3> QED
          BY <3>1, <3>2, <3>3, <3>4, <3>5, <3>6
  \* A write is sent.
  <2>w. ASSUME UNCHANGED <<orders, list, detail, selectedIds, bulk, bulkPreview, shipping>>,
               \A w \in inFlight' : w \in inFlight \/ WrittenFrom(w)
        PROVE  DeskInv'
      <3>1. \A w \in inFlight' : WrittenFrom(w)
          BY <2>q, <2>w DEF WritesAreCopied
      <3>2. WritesAreCopied'
          BY <2>w, <3>1 DEF WritesAreCopied, WrittenFrom, Copied
      <3> QED
          BY <2>a, <2>w, <3>2 DEF DeskInv
  <2>1. ASSUME NEW shown \in SUBSET DeskOrder, FetchOrders(shown) PROVE DeskInv'
      <3>1. /\ UNCHANGED <<orders, detail, selectedIds, bulk, bulkPreview, shipping, inFlight>>
            /\ \A o \in DeskOrder : list'[o] = orders[o] \/ list'[o] = Hidden
          BY <2>1 DEF FetchOrders
      <3>2. \A o \in DeskOrder : Copied(o, list'[o].version, list'[o].status)
          BY <3>1, HiddenIsCopied
      <3>3. ListIsCopied'
          BY <3>1, <3>2 DEF ListIsCopied, Copied
      <3> QED
          BY <2>a, <3>1, <3>3 DEF DeskInv
  <2>2. ASSUME NEW o \in DeskOrder, FetchDetail(o) PROVE DeskInv'
      <3>1. /\ UNCHANGED <<orders, list, selectedIds, bulk, bulkPreview, shipping, inFlight>>
            /\ detail'.order = o /\ detail'.row = orders[o]
          BY <2>2 DEF FetchDetail
      <3>2. DetailIsCopied'
          BY <3>1, HiddenIsCopied DEF DetailIsCopied, Copied
      <3> QED
          BY <2>a, <3>1, <3>2 DEF DeskInv
  <2>3. CASE CloseDetail
      <3>1. /\ UNCHANGED <<orders, list, selectedIds, bulk, bulkPreview, shipping, inFlight>>
            /\ detail' = NoDetail
          BY <2>3 DEF CloseDetail
      <3>2. DetailIsCopied'
          BY <3>1 DEF DetailIsCopied, NoDetail, Hidden
      <3> QED
          BY <2>a, <3>1, <3>2 DEF DeskInv
  \* The bulk bar is set afresh.
  <2>b. ASSUME UNCHANGED <<orders, list, detail, shipping, inFlight>>, bulk' \in Target,
               bulkPreview' = NoPreview, selectedIds' \subseteq DeskOrder
        PROVE  DeskInv'
      <3>1. DeskRows' /\ PreviewIsOfSelection'
          BY <1>0, <2>t, <2>b DEF DeskRows, PreviewIsOfSelection
      <3> QED
          BY <2>a, <2>b, <3>1 DEF DeskInv
  <2>4. ASSUME NEW o \in DeskOrder, ToggleOrder(o) PROVE DeskInv'
      BY <2>t, <2>4, <2>b DEF ToggleOrder
  <2>5. CASE SelectAll
      <3>1. PICK shown : shown = {o \in DeskOrder : list[o] # Hidden}
          OBVIOUS
      <3> QED
          BY <2>t, <2>5, <2>b, <3>1 DEF SelectAll
  <2>6. ASSUME NEW t \in Target, ChooseTarget(t) PROVE DeskInv'
      BY <2>t, <2>6, <2>b DEF ChooseTarget
  <2>p. ASSUME UNCHANGED <<orders, list, detail, selectedIds, bulk, shipping, inFlight>>,
               NEW p \in PreviewRow, bulkPreview' = p,
               selectedIds # {} => p.of = selectedIds /\ p.to = bulk
        PROVE  DeskInv'
      <3>1. DeskRows' /\ PreviewIsOfSelection'
          BY <2>t, <2>p DEF DeskRows, PreviewIsOfSelection
      <3> QED
          BY <2>a, <2>p, <3>1 DEF DeskInv
  <2>7. CASE AskPreview
      <3>1. PICK p : p = [st |-> "pending", of |-> selectedIds, to |-> bulk, valid |-> {}]
          OBVIOUS
      <3>2. p \in PreviewRow /\ p.of = selectedIds /\ p.to = bulk
          BY <2>t, <3>1 DEF PreviewRow
      <3> QED
          BY <2>7, <2>p, <3>1, <3>2 DEF AskPreview
  <2>8. CASE AnswerPreview
      <3>1. PICK good : good = {o \in bulkPreview.of : Valid(orders[o].status, bulkPreview.to)}
          OBVIOUS
      <3>2. PICK p : p = [bulkPreview EXCEPT !.st = "shown", !.valid = good]
          OBVIOUS
      <3>3. p \in PreviewRow /\ p.of = bulkPreview.of /\ p.to = bulkPreview.to
          BY <2>t, <3>1, <3>2 DEF PreviewRow
      <3>4. /\ bulkPreview' = p /\ bulkPreview.st = "pending"
            /\ UNCHANGED <<orders, list, detail, selectedIds, bulk, shipping, inFlight>>
          BY <2>8, <3>1, <3>2 DEF AnswerPreview
      <3>5. selectedIds # {} => p.of = selectedIds /\ p.to = bulk
          BY <2>q, <3>3, <3>4 DEF PreviewIsOfSelection
      <3> QED
          BY <2>p, <3>3, <3>4, <3>5
  <2>9. CASE ApplyBulk
      <3>1. PICK chosen : chosen = {o \in bulkPreview.valid : list[o] # Hidden}
          OBVIOUS
      <3>2. chosen \subseteq DeskOrder
          BY <2>t, <3>1 DEF PreviewRow
      <3>3. /\ UNCHANGED <<orders, list, detail, selectedIds, bulk, bulkPreview, shipping>>
            /\ inFlight' = inFlight \cup {DeskWrite("bulk", o, list[o], bulk, FALSE) : o \in chosen}
          BY <2>9, <3>1 DEF ApplyBulk
      <3>4. ASSUME NEW w \in inFlight' PROVE w \in inFlight \/ WrittenFrom(w)
          <4>1. CASE w \in inFlight
              BY <4>1
          <4>2. ASSUME NEW o \in chosen, w = DeskWrite("bulk", o, list[o], bulk, FALSE)
                PROVE  WrittenFrom(w)
              <5>1. /\ w.order = o /\ w.version = list[o].version /\ w.shown = list[o].status
                    /\ w.to = bulk /\ w.tracked = FALSE
                  BY <4>2 DEF DeskWrite
              <5>2. o \in DeskOrder /\ bulk \in DeskStatuses
                  BY <2>t, <3>2 DEF DeskStatuses
              <5> QED
                  BY <2>q, <5>1, <5>2 DEF WrittenFrom, ListIsCopied
          <4> QED
              BY <3>3, <4>1, <4>2
      <3> QED
          BY <2>w, <3>3, <3>4
  <2>10. ASSUME NEW to \in Target, ClickTransition(to) PROVE DeskInv'
      <3>1. PICK w : w = DeskWrite("move", detail.order, detail.row, to, FALSE)
          OBVIOUS
      <3>2. /\ w.order = detail.order /\ w.version = detail.row.version
            /\ w.shown = detail.row.status /\ w.to = to /\ w.tracked = FALSE
          BY <3>1 DEF DeskWrite
      <3>3. /\ UNCHANGED <<orders, list, detail, selectedIds, bulk, bulkPreview, shipping>>
            /\ inFlight' = inFlight \cup {w} /\ detail # NoDetail
          BY <2>10, <3>1 DEF ClickTransition
      <3>4. WrittenFrom(w)
          BY <2>q, <3>2, <3>3 DEF WrittenFrom, DetailIsCopied, DeskStatuses
      <3> QED
          BY <2>w, <3>3, <3>4
  <2>11. ASSUME NEW o \in DeskOrder, OpenShipping(o) PROVE DeskInv'
      <3>1. PICK tracked \in BOOLEAN :
              \/ /\ list[o] # Hidden /\ detail = NoDetail
                 /\ shipping' = [order |-> o, row |-> list[o], tracked |-> tracked]
                 /\ UNCHANGED detail
              \/ /\ detail.order = o /\ detail' = NoDetail
                 /\ shipping' = [order |-> o, row |-> detail.row, tracked |-> tracked]
          BY <2>11 DEF OpenShipping
      <3>2. UNCHANGED <<orders, list, selectedIds, bulk, bulkPreview, inFlight>>
          BY <2>11 DEF OpenShipping
      <3>3. detail.order = o => detail # NoDetail
          BY DEF NoDetail
      <3>4. PICK row : row \in {list[o], detail.row} /\ (row # list[o] => detail.order = o)
                       /\ shipping' = [order |-> o, row |-> row, tracked |-> tracked]
          BY <3>1
      <3>5. Copied(o, row.version, row.status)
          BY <2>q, <3>3, <3>4 DEF ListIsCopied, DetailIsCopied
      <3>6. shipping'.order = o /\ shipping'.row = row /\ shipping'.tracked \in BOOLEAN
          BY <3>4
      <3>7. FormIsCopied'
          BY <3>2, <3>5, <3>6 DEF FormIsCopied, Copied
      <3>8. DetailIsCopied'
          BY <2>a, <3>1, <3>2 DEF DetailIsCopied, NoDetail, Hidden
      <3> QED
          BY <2>a, <3>2, <3>7, <3>8 DEF DeskInv
  <2>12. CASE CloseShipping
      <3>1. /\ UNCHANGED <<orders, list, detail, selectedIds, bulk, bulkPreview, inFlight>>
            /\ shipping' = Closed
          BY <2>12 DEF CloseShipping
      <3>2. FormIsCopied'
          BY <3>1 DEF FormIsCopied, Closed, Hidden
      <3> QED
          BY <2>a, <3>1, <3>2 DEF DeskInv
  <2>13. CASE SaveShipping
      <3>1. PICK w : w = DeskWrite("ship", shipping.order, shipping.row, "shipped", shipping.tracked)
          OBVIOUS
      <3>2. /\ w.order = shipping.order /\ w.version = shipping.row.version
            /\ w.shown = shipping.row.status /\ w.to = "shipped" /\ w.tracked = shipping.tracked
          BY <3>1 DEF DeskWrite
      <3>3. /\ UNCHANGED <<orders, list, detail, selectedIds, bulk, bulkPreview, shipping>>
            /\ inFlight' = inFlight \cup {w} /\ shipping # Closed
          BY <2>13, <3>1 DEF SaveShipping
      <3>4. "shipped" \in DeskStatuses
          BY DEF DeskStatuses, Lifecycle!OrderStatuses
      <3>5. WrittenFrom(w)
          BY <2>q, <3>2, <3>3, <3>4 DEF WrittenFrom, FormIsCopied
      <3> QED
          BY <2>w, <3>3, <3>5
  \* A row goes on, by a write of the desk or elsewhere.
  <2>r. ASSUME NEW o \in DeskOrder, NEW row \in DeskRow, Advances(orders[o], row),
               orders' = [orders EXCEPT ![o] = row], UNCHANGED <<list, detail, bulk, bulkPreview>>,
               selectedIds' \in {{}, selectedIds}, shipping' \in {Closed, shipping},
               inFlight' \subseteq inFlight
        PROVE  DeskInv'
      <3>1. DeskRows'
          BY <2>t, <2>r DEF DeskRows
      <3>2. ASSUME NEW p \in DeskOrder, NEW version, NEW status, Copied(p, version, status)
            PROVE  Copied(p, version, status)'
          BY <2>r, <3>2, CopiesStay
      <3>3. ListIsCopied'
          BY <2>q, <2>r, <3>2 DEF ListIsCopied
      <3>4. DetailIsCopied'
          BY <2>q, <2>r, <3>2 DEF DetailIsCopied, NoDetail, Hidden
      <3>5. FormIsCopied'
          BY <2>q, <2>r, <3>2 DEF FormIsCopied, Closed, Hidden
      <3>6. WritesAreCopied'
          BY <2>q, <2>r, <3>2 DEF WritesAreCopied, WrittenFrom
      <3>7. PreviewIsOfSelection'
          BY <2>q, <2>r DEF PreviewIsOfSelection
      <3> QED
          BY <3>1, <3>3, <3>4, <3>5, <3>6, <3>7 DEF DeskInv
  <2>14. ASSUME NEW w \in inFlight, ServeWrite(w) PROVE DeskInv'
      <3>1. w.order \in DeskOrder
          BY <2>q DEF WritesAreCopied, WrittenFrom
      <3>2. /\ Served(w).version <= MaxMoves
            /\ orders' = [orders EXCEPT ![w.order] = Served(w)]
            /\ UNCHANGED <<list, detail, bulk, bulkPreview>> /\ inFlight' \subseteq inFlight
            /\ selectedIds' \in {{}, selectedIds} /\ shipping' \in {Closed, shipping}
          BY <2>14 DEF ServeWrite
      <3>3. PICK row : row = Served(w)
          OBVIOUS
      <3>4. row \in DeskRow /\ Advances(orders[w.order], row)
          BY <3>2, <3>3, ServedAdvances
      <3> QED
          BY <2>r, <3>1, <3>2, <3>3, <3>4
  <2>15. ASSUME NEW o \in DeskOrder, Elsewhere(o) PROVE DeskInv'
      <3>1. PICK row \in {[orders[o] EXCEPT !.tracked = ~@]} \cup
              {Moved(orders[o], t) : t \in Target \cap Lifecycle!OrderTransitions[orders[o].status]} :
              row.version <= MaxMoves /\ orders' = [orders EXCEPT ![o] = row]
          BY <2>15 DEF Elsewhere
      <3>2. UNCHANGED <<list, detail, selectedIds, bulk, bulkPreview, shipping, inFlight>>
          BY <2>15 DEF Elsewhere
      <3>3. PICK old \in DeskRow : old = orders[o]
          BY <2>t
      <3>4. CASE row = [old EXCEPT !.tracked = ~@]
          <4>1. row \in DeskRow /\ row.version = old.version /\ row.status = old.status
              BY <3>3, <3>4 DEF DeskRow
          <4>2. Advances(old, row)
              BY <4>1 DEF Advances
          <4> QED
              BY <2>r, <3>1, <3>2, <3>3, <4>1, <4>2
      <3>5. ASSUME NEW t \in Target, row = Moved(old, t) PROVE DeskInv'
          <4>1. t \in DeskStatuses
              BY DEF DeskStatuses
          <4>2. /\ row.version \in Nat /\ row.status \in DeskStatuses /\ row.tracked = old.tracked
                /\ Advances(old, row)
                /\ row = [status |-> row.status, version |-> row.version, tracked |-> row.tracked]
              BY <3>5, <4>1, MovedAdvances
          <4>3. row.version \in 0..MaxMoves /\ row.tracked \in BOOLEAN
              BY <3>1, <3>3, <4>2 DEF DeskRow
          <4>4. row \in DeskRow
              BY <4>2, <4>3 DEF DeskRow, DeskStatuses
          <4> QED
              BY <2>r, <3>1, <3>2, <3>3, <4>2, <4>4
      <3> QED
          BY <3>1, <3>3, <3>4, <3>5
  <2>16. CASE UNCHANGED deskVars
      BY <2>a, <2>16 DEF deskVars, DeskInv
  <2> QED
      BY <2>1, <2>2, <2>3, <2>4, <2>5, <2>6, <2>7, <2>8, <2>9, <2>10, <2>11, <2>12, <2>13, <2>14,
         <2>15, <2>16
      DEF DeskNext
<1> QED
    BY <1>1, <1>2, PTL DEF DeskSpec

\* The pieces of ActsAsSeen.
LEMMA DeskFromInv == ASSUME DeskInv PROVE MovesAreAsShown /\ PreviewIsOfSelection
BY DEF DeskInv, WritesAreCopied, WrittenFrom, Copied, MovesAreAsShown

-----------------------------------------------------------------------------
(* Shipments *)

\* How the units of some parcels are added up.
Adds(g, rows, S) ==
    g = [s \in SUBSET S |-> IF s = {} THEN 0
                            ELSE LET x == CHOOSE x \in s : TRUE IN rows[x].qty + g[s \ {x}]]
Adder(rows, S) == CHOOSE g : Adds(g, rows, S)

LEMMA UnitsByAdder == ASSUME NEW rows, NEW S PROVE Units(rows, S) = Adder(rows, S)[S]
BY DEF Units, MapThenSumSet, MapThenFoldSet, Adder, Adds

\* The sum of no parcels is 0.
LEMMA NoUnits == ASSUME NEW rows PROVE Units(rows, {}) = 0
<1>1. PICK z : z = [s \in SUBSET {} |-> 0]
    OBVIOUS
<1>2. Adds(z, rows, {})
    BY <1>1 DEF Adds
<1>3. Adds(Adder(rows, {}), rows, {})
    BY <1>2, Zenon DEF Adder
<1>4. Adder(rows, {})[{}] = 0
    BY <1>3, {} \in SUBSET {} DEF Adds
<1> QED
    BY <1>4, UnitsByAdder

\* The sum over some parcels is of their quantities, and of nothing else.
LEMMA UnitsAgree ==
    ASSUME NEW S, NEW old, NEW new, \A s \in S : new[s].qty = old[s].qty
    PROVE  Units(new, S) = Units(old, S)
<1>1. ASSUME NEW g, NEW s \in SUBSET S, s # {}
      PROVE  LET x == CHOOSE x \in s : TRUE IN new[x].qty + g[s \ {x}] = old[x].qty + g[s \ {x}]
    <2>1. (CHOOSE x \in s : TRUE) \in s
        BY <1>1
    <2> QED
        BY <2>1
<1>2. \A g : Adds(g, new, S) <=> Adds(g, old, S)
    BY <1>1, Zenon DEF Adds
<1>3. Adder(new, S) = Adder(old, S)
    BY <1>2, Zenon DEF Adder
<1> QED
    BY <1>3, UnitsByAdder

\* Rows that agree on the parcels give the order one fulfillment.
LEMMA FulfillmentAgrees ==
    ASSUME NEW old, NEW new, Parcels(new) = Parcels(old), \A s \in Parcels(old) : new[s] = old[s]
    PROVE  Fulfillment(new) = Fulfillment(old)
<1>1. ASSUME NEW states PROVE Sent(new, states) = Sent(old, states)
    <2>1. PICK S : S = {s \in Parcels(old) : old[s].st \in states}
        OBVIOUS
    <2>2. S = {s \in Parcels(new) : new[s].st \in states}
        BY <2>1
    <2>3. Units(new, S) = Units(old, S)
        BY <2>1, UnitsAgree
    <2> QED
        BY <2>1, <2>2, <2>3 DEF Sent
<1> QED
    BY <1>1 DEF Fulfillment

Recomputable == {"unfulfilled", "processing", "shipped", "delivered", "returned"}

LEMMA FulfillmentIsOneOf == ASSUME NEW rows PROVE Fulfillment(rows) \in Recomputable
<1> DEFINE shipped == Sent(rows, {"shipped", "in_transit", "delivered", "returned"})
           delivered == Sent(rows, {"delivered", "returned"})
           returned == Sent(rows, {"returned"})
<1>1. Fulfillment(rows) = CASE returned >= Ordered -> "returned"
         [] returned < Ordered /\ delivered >= Ordered -> "delivered"
         [] delivered < Ordered /\ shipped >= Ordered -> "shipped"
         [] shipped < Ordered /\ shipped > 0 -> "processing"
         [] OTHER -> "unfulfilled"
    BY DEF Fulfillment
<1> HIDE DEF shipped, delivered, returned
<1> QED
    BY <1>1 DEF Recomputable

\* The rows an order is in as long as its parcels alone change it: from none of them does a
\* recomputation move the legacy status alone, which would have the trigger undo it.
MovedByParcels(row) ==
    /\ row \in OrderRow
    /\ row.order \in {"paid", "processing", "shipped", "delivered"}
    /\ row.fulfillment \in Recomputable
    /\ row.fulfillment \in {"processing", "shipped", "delivered"} =>
         row.status = row.fulfillment /\ row.order = row.fulfillment
    /\ row.fulfillment = "returned" => row.status = "delivered"

LEMMA RecomputedSays ==
    ASSUME NEW row, MovedByParcels(row), NEW rows
    PROVE  /\ MovedByParcels(Recomputed(row, rows))
           /\ Recomputed(row, rows).fulfillment = Fulfillment(rows)
<1>1. PICK f \in Recomputable : f = Fulfillment(rows)
    BY FulfillmentIsOneOf
<1>2. PICK legacy : legacy = IF f = "unfulfilled" THEN row.status
                             ELSE IF f = "returned" THEN "delivered" ELSE f
    OBVIOUS
<1>3. PICK column : column = IF f \in {"unfulfilled", "returned"} THEN row.order ELSE f
    OBVIOUS
<1>4. PICK new : new = [row EXCEPT !.status = legacy, !.order = column, !.fulfillment = f]
    OBVIOUS
<1>5. row.order \notin {"cancelled", "partially_refunded", "refunded"}
    BY DEF MovedByParcels
<1>6. Recomputed(row, rows) = TriggerUpdate(row, new)
    BY <1>1, <1>2, <1>3, <1>4, <1>5 DEF Recomputed
<1>7. /\ new.status = legacy /\ new.order = column /\ new.fulfillment = f
      /\ new.payment = row.payment /\ new.method = row.method
      /\ new = [status |-> legacy, order |-> column, payment |-> row.payment, fulfillment |-> f,
                method |-> row.method]
    BY <1>4 DEF MovedByParcels, OrderRow
<1>8. legacy \in LegacyStatuses /\ column \in {"paid", "processing", "shipped", "delivered"}
    BY <1>2, <1>3 DEF MovedByParcels, OrderRow, LegacyStatuses, Recomputable
<1>9. new \in OrderRow
    BY <1>7, <1>8 DEF MovedByParcels, OrderRow, OrderStatuses, FulfillmentStatuses, Recomputable
<1>10. MovedByParcels(new)
    BY <1>2, <1>3, <1>7, <1>8, <1>9 DEF MovedByParcels, Recomputable
<1>11. new.status # row.status => new.order # row.order \/ new.fulfillment # row.fulfillment
    BY <1>2, <1>3, <1>7 DEF MovedByParcels, Recomputable
<1>12. new.status = row.status /\ new.order # row.order => ProjectLegacyStatus(new.order, row.status) = new.status
    BY <1>2, <1>3, <1>7 DEF ProjectLegacyStatus, MovedByParcels, Recomputable
<1>13. TriggerUpdate(row, new) = new
    <2>1. CASE new.status # row.status
        BY <1>11, <2>1 DEF TriggerUpdate
    <2>2. CASE new.status = row.status
        <3>1. PICK st : st = IF new.order # row.order
                             THEN ProjectLegacyStatus(new.order, row.status) ELSE new.status
            OBVIOUS
        <3>2. st = new.status
            BY <1>12, <2>2, <3>1
        <3>3. TriggerUpdate(row, new) = [new EXCEPT !.status = st]
            BY <2>2, <3>1 DEF TriggerUpdate
        <3> QED
            BY <1>7, <3>2, <3>3
    <2> QED
        BY <2>1, <2>2
<1> QED
    BY <1>1, <1>6, <1>7, <1>10, <1>13

ParcelRow == [st : ShipmentStatuses \cup {"none"}, qty : Nat, of : Shipment \cup {NoShipment}]
MoveRow == [s : Shipment \cup {NoShipment}, to : ShipmentStatuses]

\* The inductive invariant of Shipments.
ShipmentInv ==
    /\ shipments \in [Shipment -> ParcelRow] /\ moves \in [Carrier -> MoveRow]
    /\ orderChanges \in Nat
    /\ orderChanges = 0 => MovedByParcels(order)
    /\ FulfilmentMatchesShipments

\* A shipment row is committed, and the order with it when the row is a parcel's.
LEMMA RowsCommitted ==
    ASSUME ShipmentInv, NEW s \in Shipment, NEW row \in ParcelRow,
           shipments[s].st = "none" \/ shipments[s].of = row.of, row.st # "none" \/ row.of = NoShipment,
           CommitRows([shipments EXCEPT ![s] = row], s), moves' \in [Carrier -> MoveRow],
           UNCHANGED orderChanges
    PROVE  ShipmentInv'
<1>1. PICK rows : rows = [shipments EXCEPT ![s] = row]
    OBVIOUS
<1>2. /\ rows \in [Shipment -> ParcelRow] /\ rows[s] = row
      /\ \A x \in Shipment \ {s} : rows[x] = shipments[x]
    BY <1>1 DEF ShipmentInv
<1>3. shipments' = rows /\ order' = IF row.of = NoShipment THEN Recomputed(order, rows) ELSE order
    BY <1>1, <1>2 DEF CommitRows
<1>4. ASSUME orderChanges = 0 PROVE MovedByParcels(order') /\ order'.fulfillment = Fulfillment(rows)
    <2>1. MovedByParcels(order) /\ order.fulfillment = Fulfillment(shipments)
        BY <1>4 DEF ShipmentInv, FulfilmentMatchesShipments
    <2>2. CASE row.of = NoShipment
        BY <1>3, <2>1, <2>2, RecomputedSays
    <2>3. CASE row.of # NoShipment
        <3>1. s \notin Parcels(rows) /\ s \notin Parcels(shipments)
            BY <1>2, <2>3 DEF Parcels
        <3>2. Parcels(rows) = Parcels(shipments)
            BY <1>2, <3>1 DEF Parcels
        <3>3. \A x \in Parcels(shipments) : rows[x] = shipments[x]
            BY <1>2, <3>1 DEF Parcels
        <3>4. Fulfillment(rows) = Fulfillment(shipments)
            BY <3>2, <3>3, FulfillmentAgrees
        <3> QED
            BY <1>3, <2>1, <2>3, <3>4
    <2> QED
        BY <2>2, <2>3
<1>5. Fulfillment(shipments)' = Fulfillment(rows)
    BY <1>3
<1> QED
    BY <1>2, <1>3, <1>4, <1>5 DEF ShipmentInv, FulfilmentMatchesShipments

\* The invariant of Shipments holds throughout.
LEMMA ShipmentInductive == ShipmentSpec => []ShipmentInv
<1> USE ShipmentAssumption
<1>0. "pending" \in ShipmentStatuses /\ "shipped" \in ShipmentStatuses
    BY DEF ShipmentStatuses
<1>1. ShipmentInit => ShipmentInv
  <2> SUFFICES ASSUME ShipmentInit PROVE ShipmentInv
      OBVIOUS
  <2>1. PICK row : row = [status |-> "payment_pending", order |-> "pending_payment", payment |-> "pending",
                          fulfillment |-> "unfulfilled", method |-> "card"]
      OBVIOUS
  <2>2. TriggerInsert("payment_pending", "card") = row
      <3>1. PICK base : base = [status |-> "payment_pending", order |-> "pending_payment",
                payment |-> "pending", fulfillment |-> "unfulfilled", method |-> "card"]
          OBVIOUS
      <3>2. DerivedColumns(base) = [base EXCEPT !.order = "pending_payment", !.fulfillment = "unfulfilled",
                                                !.payment = "pending"]
          BY <3>1 DEF DerivedColumns
      <3>3. DerivedColumns(base) = row
          BY <2>1, <3>1, <3>2
      <3> QED
          BY <3>1, <3>3 DEF TriggerInsert
  <2>3. PICK new : new = [row EXCEPT !.status = "paid"]
      OBVIOUS
  <2>4. new = [status |-> "paid", order |-> "pending_payment", payment |-> "pending",
               fulfillment |-> "unfulfilled", method |-> "card"]
      BY <2>1, <2>3
  <2>5. order = TriggerUpdate(row, new)
      BY <2>2, <2>3 DEF ShipmentInit, SetStatus
  <2>6. TriggerUpdate(row, new) = DerivedColumns(new)
      BY <2>1, <2>4 DEF TriggerUpdate
  <2>7. DerivedColumns(new) = [new EXCEPT !.order = "paid", !.payment = "paid"]
      BY <2>4 DEF DerivedColumns
  <2>8. order = [status |-> "paid", order |-> "paid", payment |-> "paid",
                 fulfillment |-> "unfulfilled", method |-> "card"]
      BY <2>4, <2>5, <2>6, <2>7
  <2>9. MovedByParcels(order)
      BY <2>8 DEF MovedByParcels, OrderRow, LegacyStatuses, OrderStatuses, PaymentStatuses,
                  FulfillmentStatuses, Methods, Recomputable
  <2>10. NoParcel \in ParcelRow /\ NoParcel.st = "none"
      BY DEF NoParcel, ParcelRow
  <2>11. Parcels(shipments) = {}
      BY <2>10 DEF ShipmentInit, Parcels
  <2>12. ASSUME NEW states PROVE Sent(shipments, states) = 0
      <3>1. {s \in Parcels(shipments) : shipments[s].st \in states} = {}
          BY <2>11
      <3> QED
          BY <3>1, NoUnits DEF Sent
  <2>13. Fulfillment(shipments) = "unfulfilled"
      BY <2>12 DEF Fulfillment
  <2>14. shipments \in [Shipment -> ParcelRow] /\ moves \in [Carrier -> MoveRow] /\ orderChanges = 0
      BY <1>0, <2>10 DEF ShipmentInit, MoveRow
  <2> QED
      BY <2>8, <2>9, <2>13, <2>14 DEF ShipmentInv, FulfilmentMatchesShipments
<1>2. ShipmentInv /\ [ShipmentNext]_shipmentVars => ShipmentInv'
  <2> SUFFICES ASSUME ShipmentInv, [ShipmentNext]_shipmentVars PROVE ShipmentInv'
      OBVIOUS
  <2>t. /\ shipments \in [Shipment -> ParcelRow] /\ moves \in [Carrier -> MoveRow] /\ orderChanges \in Nat
      BY DEF ShipmentInv
  \* Neither the order nor a shipment is touched.
  <2>m. ASSUME moves' \in [Carrier -> MoveRow], UNCHANGED <<order, shipments, orderChanges>>
        PROVE  ShipmentInv'
      <3>1. Fulfillment(shipments)' = Fulfillment(shipments)
          BY <2>m
      <3> QED
          BY <2>m, <3>1 DEF ShipmentInv, FulfilmentMatchesShipments
  <2>1. ASSUME NEW s \in Shipment, NEW qty \in 1..Ordered, NEW of \in Shipment \cup {NoShipment},
               NEW tracked \in BOOLEAN, CreateShipment(s, qty, of, tracked)
        PROVE  ShipmentInv'
      <3>1. PICK row : row = [st |-> IF tracked THEN "shipped" ELSE "pending", qty |-> qty, of |-> of]
          OBVIOUS
      <3>2. row \in ParcelRow /\ row.st # "none"
          BY <1>0, <3>1 DEF ParcelRow
      <3>3. /\ CommitRows([shipments EXCEPT ![s] = row], s) /\ UNCHANGED <<moves, orderChanges>>
            /\ shipments[s].st = "none"
          BY <2>1, <3>1 DEF CreateShipment, NoParcel
      <3> QED
          BY <2>t, <3>2, <3>3, RowsCommitted
  <2>2. ASSUME NEW c \in Carrier, NEW s \in Shipment, NEW to \in ShipmentStatuses, MoveShipment(c, s, to)
        PROVE  ShipmentInv'
      <3>1. PICK m : m = [s |-> s, to |-> to]
          OBVIOUS
      <3>2. m \in MoveRow
          BY <3>1 DEF MoveRow
      <3>3. moves' = [moves EXCEPT ![c] = m] /\ UNCHANGED <<order, shipments, orderChanges>>
          BY <2>2, <3>1 DEF MoveShipment
      <3> QED
          BY <2>t, <2>m, <3>2, <3>3
  <2>3. PICK idle : idle = [s |-> NoShipment, to |-> "pending"]
      OBVIOUS
  <2>4. idle \in MoveRow
      BY <1>0, <2>3 DEF MoveRow
  <2>5. ASSUME NEW c \in Carrier, CommitMove(c) PROVE ShipmentInv'
      <3>1. PICK m \in MoveRow : m = moves[c]
          BY <2>t
      <3>2. m.s \in Shipment /\ m.to \in ShipmentStatuses
          BY <2>5, <3>1 DEF CommitMove, MoveRow
      <3>3. PICK row : row = [shipments[m.s] EXCEPT !.st = m.to]
          OBVIOUS
      <3>4. row \in ParcelRow /\ row.of = shipments[m.s].of /\ row.st = m.to
          BY <2>t, <3>2, <3>3 DEF ParcelRow
      <3>5. [shipments EXCEPT ![m.s].st = m.to] = [shipments EXCEPT ![m.s] = row]
          BY <3>3
      <3>6. /\ CommitRows([shipments EXCEPT ![m.s] = row], m.s)
            /\ moves' = [moves EXCEPT ![c] = idle] /\ UNCHANGED orderChanges
          BY <2>3, <2>5, <3>1, <3>5 DEF CommitMove
      <3>7. row.st # "none"
          BY <3>2, <3>4 DEF ShipmentStatuses
      <3> QED
          BY <2>t, <2>4, <3>2, <3>4, <3>6, <3>7, RowsCommitted
  <2>6. ASSUME NEW c \in Carrier, AbortMove(c) PROVE ShipmentInv'
      <3>1. moves' = [moves EXCEPT ![c] = idle] /\ UNCHANGED <<order, shipments, orderChanges>>
          BY <2>3, <2>6 DEF AbortMove
      <3> QED
          BY <2>t, <2>m, <2>4, <3>1
  <2>7. ASSUME NEW changes, ChangeOrder(changes) PROVE ShipmentInv'
      <3>1. orderChanges' = orderChanges + 1 /\ UNCHANGED <<shipments, moves>>
          BY <2>7 DEF ChangeOrder
      <3>2. orderChanges' \in Nat /\ orderChanges' # 0
          BY <2>t, <3>1
      <3> QED
          BY <2>t, <3>1, <3>2 DEF ShipmentInv, FulfilmentMatchesShipments
  <2>8. CASE UNCHANGED shipmentVars
      BY <2>t, <2>m, <2>8 DEF shipmentVars
  <2> QED
      BY <2>1, <2>2, <2>5, <2>6, <2>7, <2>8 DEF ShipmentNext
<1> QED
    BY <1>1, <1>2, PTL DEF ShipmentSpec

-----------------------------------------------------------------------------
(* What the project claims *)

\* However requests for a new token, logouts and replayed tokens interleave, a session has at
\* most one token that can be refreshed (routes/auth.js, the locked rotation); a time step, a
\* challenge or a recovery code proves the second factor once (services/mfa.js); a tab never
\* refreshes for a token it has replaced, and the server ends a session as stolen only after
\* an answer was lost or two tabs presented one token (apps/web, lib/api/core.ts).
THEOREM CredentialsWorkOnceHolds ==
    SessionSpec /\ FactorSpec /\ DashboardSpec => []CredentialsWorkOnce
<1>1. SessionInv /\ FactorInv /\ DashboardInv => CredentialsWorkOnce
    BY OneLiveFromInv, DashboardFromInv DEF CredentialsWorkOnce, CodesWorkOnce, FactorInv
<1> QED
    BY <1>1, SessionInductive, FactorInductive, DashboardInductive, PTL

\* A checkout orders the cart its customer saw, once (modules/cart/service.js, routes/payment.js), and
\* a write of the order desk that the API still accepts finds the order in the status the
\* screen showed, a bulk run the orders and the target that were previewed
\* (orders-section.tsx), however old the screen is and whoever moved the rows since.
THEOREM ActsAsSeenHolds == CartSpec /\ DeskSpec => []ActsAsSeen
<1>1. CartInv /\ DeskInv => ActsAsSeen
    BY DeskFromInv DEF ActsAsSeen, CartInv
<1> QED
    BY <1>1, CartInductive, DeskInductive, PTL

\* No step takes an order from the account that claimed it (services/orderClaims.js), and no
\* step leaves an account that had a default address of a kind without one, or with two,
\* unless that address is deleted (services/customerAddresses.js), whatever requests overlap.
THEOREM HoldingsStayHolds == ClaimSpec /\ AddressSpec => HoldingsStay
BY OrdersStayOwned, DefaultsStayHolds, PTL DEF HoldingsStay

\* As long as only its parcels move it, an order's fulfillment_status is what its parcels, as
\* committed, add up to, however they are created, moved and returned at the same time
\* (modules/shipping/service.js, recomputeOrderFulfillment, and the trigger of migration 044).
THEOREM FulfilmentMatchesShipmentsHolds == ShipmentSpec => []FulfilmentMatchesShipments
<1>1. ShipmentInv => FulfilmentMatchesShipments
    BY DEF ShipmentInv
<1> QED
    BY <1>1, ShipmentInductive, PTL
=============================================================================
