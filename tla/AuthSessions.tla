----------------------------- MODULE AuthSessions -----------------------------
(***************************************************************************)
(* Device sessions and refresh tokens of one user of the dashboard         *)
(* (routes/auth.js, services/authTokens.js, modules/security/sessions.js). *)
(* A refresh, a logout and a revocation are transactions under READ        *)
(* COMMITTED, cut where they wait for a row or read one without a lock.    *)
(*                                                                         *)
(* An access token works while its session is active (attachSession), so   *)
(* it is no state of its own.  A token from before sessions existed has    *)
(* none and gets one when it is refreshed.  A client may present any token *)
(* it was ever given, at once or again.                                    *)
(***************************************************************************)
EXTENDS Naturals, FiniteSets

CONSTANTS
    Session,    \* rows auth_sessions may hold
    NoSession,  \* session_id of a token from before sessions
    Refresh,    \* requests of clients and of the user's security page
    MaxTokens   \* bound: refresh_tokens

ASSUME SessionAssumption ==
    /\ NoSession \notin Session
    /\ MaxTokens \in Nat \ {0}

VARIABLES
    sessions,   \* auth_sessions
    tokens,     \* refresh_tokens
    issued,     \* tokens issued so far
    tokenLock,  \* the request that holds a token's row
    refreshes   \* what each request is doing

sessionVars == <<sessions, tokens, issued, tokenLock, refreshes>>

Token == 1..MaxTokens
Unheld == "free"
ASSUME UnheldAssumption == Unheld \notin Refresh
RequestStates ==
    [pc : {"idle", "locked", "checked", "revoking"},
     token : Token \cup {0}, session : Session \cup {NoSession}, seen : SUBSET Token]
Idle == [pc |-> "idle", token |-> 0, session |-> NoSession, seen |-> {}]

Live(s) == {t \in Token : tokens[t].st = "live" /\ tokens[t].session = s}
Ended(ts) == [t \in Token |-> IF t \in ts THEN [tokens[t] EXCEPT !.st = "revoked"] ELSE tokens[t]]

\* Both functions with the next token, which belongs to s.
WithToken(table, s) == [table EXCEPT ![issued + 1] = [st |-> "live", session |-> s]]

-----------------------------------------------------------------------------
\* A login: createSession and issueRefreshToken.
Login(s) ==
    /\ issued < MaxTokens
    /\ sessions[s] = "none"
    /\ sessions' = [sessions EXCEPT ![s] = "active"]
    /\ tokens' = WithToken(tokens, s)
    /\ issued' = issued + 1
    /\ UNCHANGED <<tokenLock, refreshes>>

\* Mutant of LockToken: the token is read without FOR UPDATE.
ReadToken(r, t) ==
    /\ refreshes[r] = Idle
    /\ tokens[t].st = "live"
    /\ refreshes' = [refreshes EXCEPT ![r] = [Idle EXCEPT !.pc = "locked", !.token = t]]
    /\ UNCHANGED <<sessions, tokens, issued, tokenLock>>

\* /session/refresh with a token that is live: getRefreshSession waits for its row.
LockToken(r, t) ==
    /\ refreshes[r] = Idle
    /\ tokens[t].st = "live"
    /\ tokenLock[t] = Unheld
    /\ tokenLock' = [tokenLock EXCEPT ![t] = r]
    /\ refreshes' = [refreshes EXCEPT ![r] = [Idle EXCEPT !.pc = "locked", !.token = t]]
    /\ UNCHANGED <<sessions, tokens, issued>>

\* loadActiveSession, which locks nothing: in a session that has ended, the token is used up
\* and the answer is SESSION_REVOKED.
CheckSession(r) ==
    LET t == refreshes[r].token
        s == tokens[t].session
    IN /\ refreshes[r].pc = "locked"
       /\ IF s = NoSession \/ sessions[s] = "active"
          THEN /\ refreshes' = [refreshes EXCEPT ![r].pc = "checked", ![r].session = s]
               /\ UNCHANGED <<tokens, tokenLock>>
          ELSE /\ tokens' = Ended({t})
               /\ tokenLock' = [tokenLock EXCEPT ![t] = Unheld]
               /\ refreshes' = [refreshes EXCEPT ![r] = Idle]
       /\ UNCHANGED <<sessions, issued>>

\* issueAppSession and the commit: the next token of the session, or of a new one.
RotateToken(r) ==
    LET t == refreshes[r].token
    IN /\ refreshes[r].pc = "checked"
       /\ issued < MaxTokens
       /\ IF refreshes[r].session # NoSession
          THEN tokens' = WithToken(Ended({t}), refreshes[r].session) /\ UNCHANGED sessions
          ELSE \E s \in Session :
                 /\ sessions[s] = "none"
                 /\ sessions' = [sessions EXCEPT ![s] = "active"]
                 /\ tokens' = WithToken(Ended({t}), s)
       /\ issued' = issued + 1
       /\ tokenLock' = [tokenLock EXCEPT ![t] = Unheld]
       /\ refreshes' = [refreshes EXCEPT ![r] = Idle]

\* The user lost access to every workspace, or an error rolls the refresh back.
RefreshFails(r) ==
    LET t == refreshes[r].token
    IN /\ refreshes[r].pc \in {"locked", "checked"}
       /\ tokens' \in {tokens, Ended({t})}
       /\ tokenLock' = [tokenLock EXCEPT ![t] = Unheld]
       /\ refreshes' = [refreshes EXCEPT ![r] = Idle]
       /\ UNCHANGED <<sessions, issued>>

\* The statements of revokeSession, revokeOtherSessions and revokeSessionFamily start: the
\* session's row is held, the tokens committed by now are to follow.
StartRevoke(r, s) ==
    /\ refreshes[r] = Idle
    /\ sessions[s] \in {"active", "expired"}
    /\ \A other \in Refresh : refreshes[other].pc = "revoking" => refreshes[other].session # s
    /\ refreshes' = [refreshes EXCEPT ![r] =
          [Idle EXCEPT !.pc = "revoking", !.session = s, !.seen = Live(s)]]
    /\ UNCHANGED <<sessions, tokens, issued, tokenLock>>

\* The user ends a device, or all others: one session after the other.
RevokeDevice(r, s) == StartRevoke(r, s)

\* A token that is no longer live is presented: its session's family, which is the session,
\* goes.  A token that merely expired is treated the same.
ReplayToken(r, t) ==
    /\ tokens[t].st \in {"revoked", "expired"}
    /\ tokens[t].session # NoSession
    /\ StartRevoke(r, tokens[t].session)

\* The tokens follow once no refresh holds one of them, and the transaction commits.
FinishRevoke(r) ==
    /\ refreshes[r].pc = "revoking"
    /\ \A t \in refreshes[r].seen : tokenLock[t] = Unheld
    /\ sessions' = [sessions EXCEPT ![refreshes[r].session] = "revoked"]
    /\ tokens' = Ended(refreshes[r].seen)
    /\ refreshes' = [refreshes EXCEPT ![r] = Idle]
    /\ UNCHANGED <<issued, tokenLock>>

\* /session/logout with any token: the token first, then its session.  A revocation that
\* holds the session waits for the token in turn; the database ends one of the two.
Logout(t) ==
    LET s == tokens[t].session
    IN /\ tokens[t].st # "none"
       /\ tokenLock[t] = Unheld
       /\ \A r \in Refresh : refreshes[r].pc = "revoking" => refreshes[r].session # s
       /\ tokens' = IF tokens[t].st \in {"live", "expired"} THEN Ended({t}) ELSE tokens
       /\ sessions' = [x \in Session |-> IF x = s THEN "revoked" ELSE sessions[x]]
       /\ UNCHANGED <<issued, tokenLock, refreshes>>

\* expires_at passes; a token a refresh holds was read before.
ExpireToken(t) ==
    /\ tokens[t].st = "live"
    /\ tokenLock[t] = Unheld
    /\ tokens' = [tokens EXCEPT ![t].st = "expired"]
    /\ UNCHANGED <<sessions, issued, tokenLock, refreshes>>

\* expires_at of the session passes, 30 days after the login; no refresh extends it.
ExpireSession(s) ==
    /\ sessions[s] = "active"
    /\ sessions' = [sessions EXCEPT ![s] = "expired"]
    /\ UNCHANGED <<tokens, issued, tokenLock, refreshes>>

-----------------------------------------------------------------------------
\* One token from before sessions may be in use.
SessionInit ==
    /\ sessions = [s \in Session |-> "none"]
    /\ issued \in {0, 1}
    /\ tokens = [t \in Token |-> [st |-> IF t <= issued THEN "live" ELSE "none",
                                  session |-> NoSession]]
    /\ tokenLock = [t \in Token |-> Unheld]
    /\ refreshes = [r \in Refresh |-> Idle]

SessionNext ==
    \/ \E s \in Session : Login(s) \/ ExpireSession(s)
    \/ \E t \in Token : Logout(t) \/ ExpireToken(t)
    \/ \E r \in Refresh :
         \/ CheckSession(r) \/ RotateToken(r) \/ RefreshFails(r) \/ FinishRevoke(r)
         \/ \E t \in Token : LockToken(r, t) \/ ReplayToken(r, t)
         \/ \E s \in Session : RevokeDevice(r, s)

SessionSpec == SessionInit /\ [][SessionNext]_sessionVars

-----------------------------------------------------------------------------
(* Properties *)

\* Rows, locks and requests hold values of their kind.
SessionTypeOK ==
    /\ sessions \in [Session -> {"none", "active", "expired", "revoked"}]
    /\ tokens \in [Token -> [st : {"none", "live", "revoked", "expired"},
                             session : Session \cup {NoSession}]]
    /\ issued \in 0..MaxTokens
    /\ tokenLock \in [Token -> Refresh \cup {Unheld}]
    /\ refreshes \in [Refresh -> RequestStates]

\* However refreshes of the same token, replays, revocations, logouts and expiry interleave,
\* a session never has two tokens that could be refreshed: a stolen copy and the original
\* cannot both go on, one of them ends the session.
OneLiveToken == \A s \in Session : Cardinality(Live(s)) <= 1
=============================================================================
