----------------------------- MODULE ApiRequests -----------------------------
(***************************************************************************)
(* Requests of an integration that carry one Idempotency-Key on one route  *)
(* of the external API (routes/v1.js, middleware/externalApi.js), in the   *)
(* transaction that db.js keeps for a request: it begins with the first    *)
(* tenant query, commits when a response below 400 has been sent and rolls *)
(* back when the response is an error or the connection closes.            *)
(*                                                                         *)
(* Nothing deletes a completed key: expires_at is written and never read.  *)
(* What a handler does after its transaction has ended runs without a      *)
(* tenant and changes no row, except that opening a second transaction     *)
(* keeps a pooled connection for ever.                                     *)
(***************************************************************************)
EXTENDS Naturals, FiniteSets

CONSTANTS
    Call,           \* requests that carry the key
    NoCall,
    Body,           \* request bodies
    MonthlyQuota,   \* max_api_calls_month
    MaxCallFaults   \* bound: failed commits, time-outs, closed connections

ASSUME ApiAssumption ==
    /\ NoCall \notin Call
    /\ {MonthlyQuota, MaxCallFaults} \subseteq Nat

VARIABLES
    calls,      \* each request: where it is, its body and the answer the client got
    keyRow,     \* the committed row of api_idempotency_keys
    keyHolder,  \* the request whose transaction holds an uncommitted row
    counted,    \* call_count of api_usage_counters
    effects,    \* requests whose mutation is committed (history)
    leaked,     \* connections opened by a finalized request, which nobody releases
    callFaults

callVars == <<calls, keyRow, keyHolder, counted, effects, leaked, callFaults>>

\* "ok" names the request that ran, so a replay is the same answer as the first.
Answers ==
    [kind : {"none", "limited", "conflict", "in_progress", "error", "timeout"}, of : {NoCall}]
      \cup [kind : {"ok", "replay"}, of : Call]
CallStates ==
    [pc : {"idle", "sent", "counted", "claimed", "mutated", "answered", "orphan", "done"},
     body : Body, answer : Answers, closed : BOOLEAN]
NoRow == [status |-> "none", of |-> NoCall]

Refuse(kind) == [kind |-> kind, of |-> NoCall]
Goto(c, pc) == calls' = [calls EXCEPT ![c].pc = pc]
Reply(c, pc, answer) == calls' = [calls EXCEPT ![c].pc = pc, ![c].answer = answer]
CallFault == callFaults < MaxCallFaults /\ callFaults' = callFaults + 1

SendCall(c) ==
    /\ calls[c].pc = "idle"
    /\ \E b \in Body : calls' = [calls EXCEPT ![c].pc = "sent", ![c].body = b]
    /\ UNCHANGED <<keyRow, keyHolder, counted, effects, leaked, callFaults>>

\* enforceMonthlyQuota: counted at once on the system connection, then compared.
EnforceMonthlyQuota(c) ==
    /\ calls[c].pc = "sent"
    /\ counted' = counted + 1
    /\ IF MonthlyQuota > 0 /\ counted' > MonthlyQuota
       THEN Reply(c, "done", Refuse("limited"))
       ELSE Goto(c, "counted")
    /\ UNCHANGED <<keyRow, keyHolder, effects, leaked, callFaults>>

\* claimIdempotency on a key with a committed row: another body is a conflict.
Existing(c) ==
    IF calls[keyRow.of].body # calls[c].body THEN Refuse("conflict")
    ELSE IF keyRow.status = "completed" THEN [kind |-> "replay", of |-> keyRow.of]
    ELSE Refuse("in_progress")

\* Mutant of ClaimIdempotency: the key is looked up and inserted later.
ClaimUnlocked(c) ==
    /\ calls[c].pc = "counted"
    /\ IF keyRow = NoRow
       THEN keyHolder' = c /\ Goto(c, "claimed")
       ELSE Reply(c, "done", Existing(c)) /\ UNCHANGED keyHolder
    /\ UNCHANGED <<keyRow, counted, effects, leaked, callFaults>>

\* claimIdempotency: the insert waits for the transaction that inserted the same key.
ClaimIdempotency(c) ==
    /\ calls[c].pc = "counted"
    /\ keyHolder = NoCall
    /\ IF keyRow = NoRow
       THEN keyHolder' = c /\ Goto(c, "claimed")
       ELSE Reply(c, "done", Existing(c)) /\ UNCHANGED keyHolder
    /\ UNCHANGED <<keyRow, counted, effects, leaked, callFaults>>

\* The handler writes, or fails: releaseIdempotency, an error response and a rollback.
RunOperation(c) ==
    /\ calls[c].pc = "claimed"
    /\ \/ Goto(c, "mutated") /\ UNCHANGED keyHolder
       \/ Reply(c, "done", Refuse("error")) /\ keyHolder' = NoCall
    /\ UNCHANGED <<keyRow, counted, effects, leaked, callFaults>>

\* The wrapped res.json: completeIdempotency joins the transaction, the response goes out.
AnswerCall(c) ==
    /\ calls[c].pc = "mutated"
    /\ Reply(c, "answered", [kind |-> "ok", of |-> c])
    /\ UNCHANGED <<keyRow, keyHolder, counted, effects, leaked, callFaults>>

\* finalizeRequestContext on 'finish'.
CommitCall(c) ==
    /\ calls[c].pc = "answered"
    /\ keyRow' = [status |-> "completed", of |-> c]
    /\ keyHolder' = NoCall
    /\ effects' = effects \cup {c}
    /\ Goto(c, "done")
    /\ UNCHANGED <<counted, leaked, callFaults>>

\* The commit fails after the response was sent: a warning in the log.
CommitFails(c) ==
    /\ CallFault
    /\ calls[c].pc = "answered"
    /\ keyHolder' = NoCall
    /\ Goto(c, "done")
    /\ UNCHANGED <<keyRow, counted, effects, leaked>>

\* requestTimeout answers 503, or the connection closes: a rollback, and the handler goes on.
AbandonCall(c) ==
    /\ CallFault
    /\ calls[c].pc \in {"claimed", "mutated"}
    /\ \E closed \in BOOLEAN :
         calls' = [calls EXCEPT ![c].pc = "orphan", ![c].closed = closed,
                                ![c].answer = Refuse(IF closed THEN "none" ELSE "timeout")]
    /\ keyHolder' = NoCall
    /\ UNCHANGED <<keyRow, counted, effects, leaked>>

\* The handler fails outside its transaction.  If no response was sent, the error response
\* calls releaseIdempotency, which opens a transaction that is never ended.
OrphanEnds(c) ==
    /\ calls[c].pc = "orphan"
    /\ leaked' = leaked + (IF calls[c].closed THEN 1 ELSE 0)
    /\ Goto(c, "done")
    /\ UNCHANGED <<keyRow, keyHolder, counted, effects, callFaults>>

-----------------------------------------------------------------------------
ApiInit ==
    /\ calls \in [Call -> {[pc |-> "idle", body |-> b, answer |-> Refuse("none"),
                            closed |-> FALSE] : b \in Body}]
    /\ \A c, d \in Call : calls[c] = calls[d]
    /\ keyRow = NoRow
    /\ keyHolder = NoCall
    /\ counted = 0
    /\ effects = {}
    /\ leaked = 0
    /\ callFaults = 0

ApiNext ==
    \E c \in Call :
        \/ SendCall(c) \/ EnforceMonthlyQuota(c) \/ ClaimIdempotency(c) \/ RunOperation(c)
        \/ AnswerCall(c) \/ CommitCall(c) \/ CommitFails(c) \/ AbandonCall(c) \/ OrphanEnds(c)

ApiSpec == ApiInit /\ [][ApiNext]_callVars

-----------------------------------------------------------------------------
(* Properties *)

\* Every request and the key row hold values of their kind; a lost connection belongs to a
\* request that was abandoned.
ApiTypeOK ==
    /\ calls \in [Call -> CallStates]
    /\ keyRow \in [status : {"none", "in_progress", "completed"}, of : Call \cup {NoCall}]
    /\ keyHolder \in Call \cup {NoCall}
    /\ {counted, callFaults, leaked} \subseteq Nat
    /\ effects \subseteq Call
    /\ leaked <= callFaults

\* Retries, concurrent requests, time-outs, closed connections and failed commits never
\* make one key run twice, and whoever is told the outcome of a run that is committed is
\* told the outcome of that run, for the body they sent.
KeyRunsOnce ==
    /\ Cardinality(effects) <= 1
    /\ keyRow # NoRow <=> effects # {}
    /\ \A c \in Call :
         calls[c].answer.kind = "replay" =>
            /\ calls[c].answer.of \in effects
            /\ calls[calls[c].answer.of].body = calls[c].body
=============================================================================
