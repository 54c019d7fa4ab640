---------------------------- MODULE SecondFactors ----------------------------
(***************************************************************************)
(* The second factors of one person (modules/security/mfa.js,              *)
(* routes/security.js): a TOTP secret, passkeys, recovery codes.  Each     *)
(* request is a transaction that proves a factor or changes one.  A        *)
(* recovery code stands for its whole set, a wrong code or assertion is a  *)
(* transaction that aborts, and whether the tenant's policy allows a       *)
(* factor to be removed is left open.                                      *)
(***************************************************************************)
EXTENDS Integers

CONSTANTS
    Secret,     \* rows of user_mfa_methods
    Passkey,    \* authenticators
    CodeSet,    \* generations of recovery codes
    Challenge,  \* rows of webauthn_challenges
    Prover,     \* requests in progress
    MaxStep     \* bound: time steps of thirty seconds

ASSUME FactorAssumption == MaxStep \in Nat

\* Rows of different tables are different.
ASSUME TablesAssumption ==
    Secret \cap CodeSet = {} /\ Secret \cap Challenge = {} /\ CodeSet \cap Challenge = {}

VARIABLES
    secrets,     \* state of each TOTP secret and its last_used_step (-1: null)
    passkeys,    \* state of each passkey
    codeSets,    \* state of each set of recovery codes
    webauthn,    \* state and purpose of each challenge
    timeStep,    \* the current time step
    provers,     \* the transaction of each request
    accepted,    \* the codes and challenges accepted so far (history)
    replayed     \* whether one of them was accepted again (history)

factorVars == <<secrets, passkeys, codeSets, webauthn, timeStep, provers, accepted, replayed>>

\* rows: what the request has locked, or in "deleting" the rows its delete will wait for.
NoProof == [pc |-> "idle", kind |-> "none", at |-> 0, seen |-> -1, rows |-> {}]

FactorIsFree(r) == \A w \in Prover : provers[w].pc = "locked" => r \notin provers[w].rows
LiveSets == {g \in CodeSet : codeSets[g] = "live"}

\* The request commits, having accepted the proof x.
AcceptProof(w, x) ==
    /\ provers' = [provers EXCEPT ![w] = NoProof]
    /\ accepted' = accepted \cup {x}
    /\ replayed' = (replayed \/ x \in accepted)

-----------------------------------------------------------------------------
\* beginTotpSetup: a pending secret is replaced, once a confirmation of it has ended; an
\* enabled one is kept.
BeginSetup(t) ==
    /\ secrets[t].st = "none"
    /\ \A u \in Secret : /\ secrets[u].st # "enabled"
                         /\ secrets[u].st = "pending" => FactorIsFree(u)
    /\ secrets' = [u \in Secret |-> [secrets[u] EXCEPT !.st =
           IF u = t THEN "pending" ELSE IF @ = "pending" THEN "gone" ELSE @]]
    /\ UNCHANGED <<passkeys, codeSets, webauthn, timeStep, provers, accepted, replayed>>

\* A request with the code of time step n, which the window of a step either side allows.
SubmitCode(w, kind, n) ==
    /\ provers[w].pc = "idle" /\ n \in timeStep - 1..timeStep + 1
    /\ provers' = [provers EXCEPT ![w] = [NoProof EXCEPT !.pc = "sent", !.kind = kind, !.at = n]]
    /\ UNCHANGED <<secrets, passkeys, codeSets, webauthn, timeStep, accepted, replayed>>

TakeMethod(w, t) ==
    /\ provers[w].pc = "sent"
    /\ secrets[t].st = IF provers[w].kind = "confirm" THEN "pending" ELSE "enabled"
    /\ provers' = [provers EXCEPT ![w].pc = "locked", ![w].seen = secrets[t].last, ![w].rows = {t}]
    /\ UNCHANGED <<secrets, passkeys, codeSets, webauthn, timeStep, accepted, replayed>>

\* Mutant of LockMethod: the select has no "for update".
ReadMethod(w, t) == TakeMethod(w, t)

\* The secret is locked, after whoever had it; the row is checked again then.
LockMethod(w, t) == FactorIsFree(t) /\ TakeMethod(w, t)

\* confirmTotpSetup and verifyTotp: the step is recorded and the session is verified.
AcceptCode(w, t) ==
    LET q == provers[w]
    IN /\ q.pc = "locked" /\ t \in q.rows
       /\ q.at > q.seen
       /\ secrets' = [secrets EXCEPT ![t] = [st |-> "enabled", last |-> q.at]]
       /\ AcceptProof(w, <<t, q.at>>)
       /\ UNCHANGED <<passkeys, codeSets, webauthn, timeStep>>

\* disableTotp, of a pending secret too
DisableTotp(t) ==
    /\ secrets[t].st \in {"pending", "enabled"} /\ FactorIsFree(t)
    /\ secrets' = [secrets EXCEPT ![t].st = "disabled"]
    /\ UNCHANGED <<passkeys, codeSets, webauthn, timeStep, provers, accepted, replayed>>

-----------------------------------------------------------------------------
\* consumeRecoveryCode: the update locks an unused code.
UseRecoveryCode(w, g) ==
    /\ provers[w].pc = "idle" /\ codeSets[g] = "live" /\ FactorIsFree(g)
    /\ provers' = [provers EXCEPT ![w] = [NoProof EXCEPT !.pc = "locked", !.kind = "recover",
                                                         !.rows = {g}]]
    /\ UNCHANGED <<secrets, passkeys, codeSets, webauthn, timeStep, accepted, replayed>>

CommitRecovery(w, g) ==
    /\ provers[w].pc = "locked" /\ g \in provers[w].rows /\ provers[w].kind = "recover"
    /\ codeSets' = [codeSets EXCEPT ![g] = "used"]
    /\ AcceptProof(w, <<g, 0>>)
    /\ UNCHANGED <<secrets, passkeys, webauthn, timeStep>>

\* regenerateRecoveryCodes: the delete sees the unused codes of its start,
BeginRegeneration(w) ==
    /\ provers[w].pc = "idle"
    /\ provers' = [provers EXCEPT ![w] = [NoProof EXCEPT !.pc = "deleting", !.kind = "regenerate",
                                                         !.rows = LiveSets]]
    /\ UNCHANGED <<secrets, passkeys, codeSets, webauthn, timeStep, accepted, replayed>>

\* waits for those that are locked and takes those still unused,
DeleteCodes(w) ==
    /\ provers[w].pc = "deleting"
    /\ \A g \in provers[w].rows : FactorIsFree(g)
    /\ provers' = [provers EXCEPT ![w].pc = "locked", ![w].rows = @ \cap LiveSets]
    /\ UNCHANGED <<secrets, passkeys, codeSets, webauthn, timeStep, accepted, replayed>>

\* and a new set is committed in their place.
CommitCodes(w, g) ==
    /\ provers[w].pc = "locked" /\ provers[w].kind = "regenerate"
    /\ codeSets[g] = "none"
    /\ codeSets' = [h \in CodeSet |-> IF h = g THEN "live"
                                      ELSE IF h \in provers[w].rows THEN "void" ELSE codeSets[h]]
    /\ provers' = [provers EXCEPT ![w] = NoProof]
    /\ UNCHANGED <<secrets, passkeys, webauthn, timeStep, accepted, replayed>>

-----------------------------------------------------------------------------
\* registration-options; step-up options, which need a passkey
IssueChallenge(h, purpose) ==
    /\ webauthn[h].st = "none"
    /\ purpose = "step_up" => \E p \in Passkey : passkeys[p] = "active"
    /\ webauthn' = [webauthn EXCEPT ![h] = [st |-> "issued", purpose |-> purpose]]
    /\ UNCHANGED <<secrets, passkeys, codeSets, timeStep, provers, accepted, replayed>>

\* The challenge is marked used in the statement that finds it; a locked one is not found.
ClaimChallenge(w, h) ==
    /\ provers[w].pc = "idle" /\ webauthn[h].st = "issued" /\ FactorIsFree(h)
    /\ provers' = [provers EXCEPT ![w] = [NoProof EXCEPT !.pc = "locked",
                       !.kind = webauthn[h].purpose, !.rows = {h}]]
    /\ UNCHANGED <<secrets, passkeys, codeSets, webauthn, timeStep, accepted, replayed>>

CommitChallenge(w, h) ==
    /\ provers[w].pc = "locked" /\ h \in provers[w].rows
    /\ webauthn' = [webauthn EXCEPT ![h].st = "used"]
    /\ AcceptProof(w, <<h, 0>>)
    /\ UNCHANGED <<secrets, codeSets, timeStep>>

\* A passkey that nobody has registered is added.
RegisterPasskey(w, h, p) ==
    /\ webauthn[h].purpose = "registration" /\ passkeys[p] = "none"
    /\ CommitChallenge(w, h)
    /\ passkeys' = [passkeys EXCEPT ![p] = "active"]

\* An assertion of a passkey that is still registered.
ProvePasskey(w, h, p) ==
    /\ webauthn[h].purpose = "step_up" /\ passkeys[p] = "active"
    /\ CommitChallenge(w, h)
    /\ UNCHANGED passkeys

RemovePasskey(p) ==
    /\ passkeys[p] = "active"
    /\ passkeys' = [passkeys EXCEPT ![p] = "revoked"]
    /\ UNCHANGED <<secrets, codeSets, webauthn, timeStep, provers, accepted, replayed>>

-----------------------------------------------------------------------------
\* Any error of a request, a wrong code included, undoes all it did.
AbortProof(w) ==
    /\ provers[w].pc # "idle"
    /\ provers' = [provers EXCEPT ![w] = NoProof]
    /\ UNCHANGED <<secrets, passkeys, codeSets, webauthn, timeStep, accepted, replayed>>

NextTimeStep ==
    /\ timeStep < MaxStep
    /\ timeStep' = timeStep + 1
    /\ UNCHANGED <<secrets, passkeys, codeSets, webauthn, provers, accepted, replayed>>

FactorInit ==
    /\ secrets = [t \in Secret |-> [st |-> "none", last |-> -1]]
    /\ passkeys = [p \in Passkey |-> "none"]
    /\ codeSets = [g \in CodeSet |-> "none"]
    /\ webauthn = [h \in Challenge |-> [st |-> "none", purpose |-> "registration"]]
    /\ timeStep = 0 /\ provers = [w \in Prover |-> NoProof]
    /\ accepted = {} /\ replayed = FALSE

FactorNext ==
    \/ \E t \in Secret : BeginSetup(t) \/ DisableTotp(t)
    \/ \E w \in Prover :
         \/ \E kind \in {"confirm", "verify"}, n \in 0..MaxStep : SubmitCode(w, kind, n)
         \/ \E t \in Secret : LockMethod(w, t) \/ AcceptCode(w, t)
         \/ \E g \in CodeSet : UseRecoveryCode(w, g) \/ CommitRecovery(w, g) \/ CommitCodes(w, g)
         \/ \E h \in Challenge :
              \/ ClaimChallenge(w, h)
              \/ \E p \in Passkey : RegisterPasskey(w, h, p) \/ ProvePasskey(w, h, p)
         \/ BeginRegeneration(w) \/ DeleteCodes(w) \/ AbortProof(w)
    \/ \E h \in Challenge, purpose \in {"registration", "step_up"} : IssueChallenge(h, purpose)
    \/ \E p \in Passkey : RemovePasskey(p)
    \/ NextTimeStep

FactorSpec == FactorInit /\ [][FactorNext]_factorVars

-----------------------------------------------------------------------------
(* Properties *)

\* Factors, challenges and requests hold values of their kind.
FactorTypeOK ==
    /\ secrets \in [Secret -> [st : {"none", "pending", "enabled", "disabled", "gone"},
                               last : -1..MaxStep]]
    /\ passkeys \in [Passkey -> {"none", "active", "revoked"}]
    /\ codeSets \in [CodeSet -> {"none", "live", "used", "void"}]
    /\ webauthn \in [Challenge -> [st : {"none", "issued", "used"},
                                     purpose : {"registration", "step_up"}]]
    /\ timeStep \in 0..MaxStep
    /\ provers \in [Prover -> [pc : {"idle", "sent", "deleting", "locked"},
                               kind : {"none", "confirm", "verify", "recover", "regenerate",
                                       "registration", "step_up"},
                               at : 0..MaxStep, seen : -1..MaxStep,
                               rows : SUBSET (Secret \cup CodeSet \cup Challenge)]]
    /\ accepted \subseteq (Secret \cup CodeSet \cup Challenge) \X (0..MaxStep)
    /\ replayed \in BOOLEAN

\* "Two concurrent submissions of the same code serialise on the lock and only the first one
\* wins" (mfa.js:130-131): a time step's code, a recovery code and a challenge prove something
\* once, whatever other requests of the person do at the same time.
CodesWorkOnce == ~replayed
=============================================================================
