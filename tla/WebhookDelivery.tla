--------------------------- MODULE WebhookDelivery ---------------------------
(***************************************************************************)
(* Webhooks of one organization: the outbox written with the business      *)
(* transaction (modules/integrations/outbox.js), the workers that claim    *)
(* and send its rows (worker.js), and the administrator's endpoint and     *)
(* retry actions (service.js).                                             *)
(*                                                                         *)
(* A claim commits before the request is sent, and the result is written   *)
(* by a second transaction that stays open during the request.  A worker   *)
(* may therefore die, or lose its transaction, at any point in between;    *)
(* and the write names the row only, not the claim it belongs to.          *)
(*                                                                         *)
(* There is no clock: a pending or retried row is due at any time.  A lock *)
(* is stale when its worker is gone; it may also go stale under a worker   *)
(* that is slower than the limit, which counts as a fault.  "trusted" says *)
(* whether every claim so far stood until its worker let go of it.         *)
(***************************************************************************)
EXTENDS Naturals, FiniteSets

CONSTANTS
    Event,            \* events that may be emitted (aggregate and version)
    Endpoint,         \* webhook endpoints, all subscribed to every event
    Worker,           \* worker processes
    NoRow,            \* a worker that holds no claim
    MaxAttempts,      \* DEFAULT_MAX_ATTEMPTS of a delivery
    RetryBudget,      \* attempts a manual retry adds (3 in the code)
    AttemptCap,       \* bound: attempts are counted up to it
    FailureThreshold, \* FAILURE_DISABLE_THRESHOLD
    Verdicts,         \* what classifyResponse may make of an answer
    MaxFaults,        \* bound: crashes, errors, slow answers and overtaken workers
    AdminStatuses,    \* statuses administrators give endpoints
    ManualRetries     \* administrators press "retry"

ASSUME BudgetAssumption ==
    /\ MaxAttempts \in Nat \ {0}
    /\ FailureThreshold \in Nat \ {0}
    /\ RetryBudget \in Nat \ {0}
    /\ AttemptCap \in Nat
    /\ MaxAttempts <= AttemptCap
    /\ MaxFaults \in Nat
ASSUME RowAssumption == NoRow \notin Event \X Endpoint
ASSUME WebhookChoices ==
    /\ Verdicts \subseteq {"delivered", "failed_retryable", "failed_permanent"}
    /\ ManualRetries \in BOOLEAN
    /\ AdminStatuses \subseteq {"active", "disabled", "archived"}

VARIABLES
    endpoints,   \* webhook_endpoints: status, consecutive_failures
    deliveries,  \* webhook_deliveries: status, attempt, max_attempts
    workers,     \* what each worker holds between its statements
    accepted,    \* deliveries their receiver has answered with a 2xx (history)
    faults,      \* crashes, errors and overtaken workers so far
    trusted      \* no live worker was overtaken and no acknowledgement lost (history)

vars == <<endpoints, deliveries, workers, accepted, faults, trusted>>

Rows == Event \X Endpoint

DeliveryStatuses == {"none", "pending", "processing", "retry", "delivered",
                     "dead_letter", "cancelled"}
Ended == {"delivered", "dead_letter", "cancelled"}

\* pc: "loading" after the claim, "sending" after the context was read, "recording" when
\* the request is over, "failing" in the catch of the loop.  attempt and max are the
\* claimed row's, as the claim returned it.
WorkerStates ==
    [pc : {"idle", "loading", "sending", "recording", "failing"},
     row : Rows \cup {NoRow}, attempt : 0..AttemptCap, max : Nat,
     verdict : {"delivered", "failed_retryable", "failed_permanent"}]

DeliveryRow == [st : DeliveryStatuses, attempt : 0..AttemptCap, max : Nat]
EndpointRow == [st : {"active", "disabled", "archived"}, failures : Nat]

Idle == [pc |-> "idle", row |-> NoRow, attempt |-> 0, max |-> 0, verdict |-> "delivered"]

TypeOK ==
    /\ endpoints \in [Endpoint -> EndpointRow]
    /\ deliveries \in [Rows -> DeliveryRow]
    /\ workers \in [Worker -> WorkerStates]
    /\ accepted \subseteq Rows
    /\ faults \in 0..MaxFaults
    /\ trusted \in BOOLEAN

Works(w, d) == workers[w].pc # "idle" /\ workers[w].row = d

Larger(a, b) == IF a > b THEN a ELSE b
Smaller(a, b) == IF a < b THEN a ELSE b

-----------------------------------------------------------------------------
(* outbox.js *)

\* emitEvent with fanout, in the transaction of the business change: one delivery per
\* active endpoint.  An event recorded before is recognised by its version and changes
\* nothing; one without an active endpoint leaves no delivery.
EmitEvent(e) ==
    /\ \A p \in Endpoint : deliveries[<<e, p>>].st = "none"
    /\ \E p \in Endpoint : endpoints[p].st = "active"
    /\ deliveries' = [d \in Rows |->
            IF d[1] = e /\ endpoints[d[2]].st = "active"
            THEN [st |-> "pending", attempt |-> 0, max |-> MaxAttempts]
            ELSE deliveries[d]]
    /\ UNCHANGED <<endpoints, workers, accepted, faults, trusted>>

\* enqueueTestDelivery: an event of its own for one endpoint, which must be active.
EnqueueTestDelivery(e, p) ==
    /\ \A q \in Endpoint : deliveries[<<e, q>>].st = "none"
    /\ endpoints[p].st = "active"
    /\ deliveries' = [deliveries EXCEPT ![<<e, p>>] =
                        [st |-> "pending", attempt |-> 0, max |-> MaxAttempts]]
    /\ UNCHANGED <<endpoints, workers, accepted, faults, trusted>>

-----------------------------------------------------------------------------
(* worker.js *)

\* Mutants of Stale: a row is due again as soon as it is processing; a stale lock is
\* never broken.
StaleAtOnce(d) == deliveries[d].st = "processing"
StaleNever(d) == FALSE

\* A lock whose worker is gone.
Stale(d) == deliveries[d].st = "processing" /\ \A w \in Worker : ~Works(w, d)

\* A lock that went stale under a worker slower than the limit.
Overtaken(d) == faults < MaxFaults /\ \E w \in Worker : Works(w, d)

\* The claim of processWebhookDeliveries: one UPDATE, row-locked with SKIP LOCKED.
Claim(w, d) ==
    /\ workers[w].pc = "idle"
    /\ \/ /\ deliveries[d].st \in {"pending", "retry"} \/ Stale(d)
          /\ UNCHANGED <<faults, trusted>>
       \/ /\ deliveries[d].st = "processing" /\ Overtaken(d)
          /\ faults' = faults + 1
          /\ trusted' = FALSE
    /\ LET attempt == Smaller(deliveries[d].attempt + 1, AttemptCap)
       IN /\ deliveries' = [deliveries EXCEPT ![d].st = "processing", ![d].attempt = attempt]
          /\ workers' = [workers EXCEPT ![w] =
               [pc |-> "loading", row |-> d, attempt |-> attempt, max |-> deliveries[d].max,
                verdict |-> "delivered"]]
    /\ UNCHANGED <<endpoints, accepted>>

\* processDelivery up to the request: an endpoint that is not active cancels the row.
LoadDeliveryContext(w) ==
    LET d == workers[w].row
    IN /\ workers[w].pc = "loading"
       /\ IF endpoints[d[2]].st = "active"
          THEN /\ workers' = [workers EXCEPT ![w].pc = "sending"]
               /\ UNCHANGED deliveries
          ELSE /\ deliveries' = [deliveries EXCEPT ![d].st = "cancelled"]
               /\ workers' = [workers EXCEPT ![w] = Idle]
       /\ UNCHANGED <<endpoints, accepted, faults, trusted>>

\* sendWebhook: the receiver answers, refuses or is not reached.  A worker may also find
\* no usable secret here, which counts as a permanent failure.
SendWebhook(w) ==
    /\ workers[w].pc = "sending"
    /\ \E verdict \in Verdicts :
         /\ workers' = [workers EXCEPT ![w].pc = "recording", ![w].verdict = verdict]
         /\ accepted' = accepted \cup
              (IF verdict = "delivered" THEN {workers[w].row} ELSE {})
    /\ UNCHANGED <<endpoints, deliveries, faults, trusted>>

\* The request outlasts idle_in_transaction_session_timeout: the receiver may have
\* accepted it, but the transaction that would record it is gone.
SendTooLong(w) ==
    /\ faults < MaxFaults
    /\ workers[w].pc = "sending"
    /\ workers' = [workers EXCEPT ![w].pc = "failing"]
    /\ accepted' \in {accepted, accepted \cup {workers[w].row}}
    /\ faults' = faults + 1
    /\ UNCHANGED <<endpoints, deliveries, trusted>>

\* recordSuccess
RecordSuccess(w) ==
    LET d == workers[w].row
    IN /\ deliveries' = [deliveries EXCEPT ![d].st = "delivered"]
       /\ endpoints' = [endpoints EXCEPT ![d[2]].failures = 0]

\* The endpoint's streak grows; the failure that reaches the threshold switches it off.
CountFailure(p) ==
    endpoints' = [endpoints EXCEPT ![p].failures = @ + 1,
        ![p].st = IF @ = "active" /\ endpoints[p].failures + 1 >= FailureThreshold
                  THEN "disabled" ELSE @]

\* Mutant of RecordFailure: the budget is off by one.
RecordFailureLate(w) ==
    LET d == workers[w].row
        dead == workers[w].verdict = "failed_permanent" \/ workers[w].attempt > workers[w].max
    IN /\ deliveries' = [deliveries EXCEPT ![d].st = IF dead THEN "dead_letter" ELSE "retry"]
       /\ CountFailure(d[2])

\* recordFailure: the row is retried within the budget its claim saw.
RecordFailure(w) ==
    LET d == workers[w].row
        dead == workers[w].verdict = "failed_permanent" \/ workers[w].attempt >= workers[w].max
    IN /\ deliveries' = [deliveries EXCEPT ![d].st = IF dead THEN "dead_letter" ELSE "retry"]
       /\ CountFailure(d[2])

\* Mutant of RecordResult: an answer that is not a permanent failure is a success.
RecordRetryableAsSuccess(w) ==
    /\ workers[w].pc = "recording"
    /\ IF workers[w].verdict # "failed_permanent" THEN RecordSuccess(w) ELSE RecordFailure(w)
    /\ workers' = [workers EXCEPT ![w] = Idle]
    /\ UNCHANGED <<accepted, faults, trusted>>

\* The transaction of processDelivery writes the result and commits.
RecordResult(w) ==
    /\ workers[w].pc = "recording"
    /\ IF workers[w].verdict = "delivered" THEN RecordSuccess(w) ELSE RecordFailure(w)
    /\ workers' = [workers EXCEPT ![w] = Idle]
    /\ UNCHANGED <<accepted, faults, trusted>>

\* ... and the acknowledgement of the commit is lost: the worker takes it for an error.
RecordUnacknowledged(w) ==
    /\ faults < MaxFaults
    /\ workers[w].pc = "recording"
    /\ IF workers[w].verdict = "delivered" THEN RecordSuccess(w) ELSE RecordFailure(w)
    /\ workers' = [workers EXCEPT ![w].pc = "failing"]
    /\ faults' = faults + 1
    /\ trusted' = FALSE
    /\ UNCHANGED accepted

\* A database error before the commit.
DatabaseError(w) ==
    /\ faults < MaxFaults
    /\ workers[w].pc \in {"loading", "sending", "recording"}
    /\ workers' = [workers EXCEPT ![w].pc = "failing"]
    /\ faults' = faults + 1
    /\ UNCHANGED <<endpoints, deliveries, accepted, trusted>>

\* The catch of the loop: whatever the row says, it is retried.
RequeueAfterError(w) ==
    /\ workers[w].pc = "failing"
    /\ deliveries' = [deliveries EXCEPT ![workers[w].row].st = "retry"]
    /\ workers' = [workers EXCEPT ![w] = Idle]
    /\ UNCHANGED <<endpoints, accepted, faults, trusted>>

\* The process stops, or the statement of the catch fails too: the row keeps its lock.
Crash(w) ==
    /\ faults < MaxFaults
    /\ workers[w].pc # "idle"
    /\ workers' = [workers EXCEPT ![w] = Idle]
    /\ faults' = faults + 1
    /\ UNCHANGED <<endpoints, deliveries, accepted, trusted>>

-----------------------------------------------------------------------------
(* service.js: administrators *)

\* Mutant of SetEndpointStatus: the streak survives re-enabling.
SetEndpointStatusKeepsStreak(p) ==
    /\ \E st \in AdminStatuses : endpoints' = [endpoints EXCEPT ![p].st = st]
    /\ UNCHANGED <<deliveries, workers, accepted, faults, trusted>>

\* setEndpointStatus
SetEndpointStatus(p) ==
    /\ \E st \in AdminStatuses :
         endpoints' = [endpoints EXCEPT ![p] =
            [st |-> st, failures |-> IF st = "active" THEN 0 ELSE @.failures]]
    /\ UNCHANGED <<deliveries, workers, accepted, faults, trusted>>

\* retryDelivery: a fresh budget for a row that ended without success or waits.
RetryDelivery(d) ==
    /\ ManualRetries
    /\ deliveries[d].st \in {"dead_letter", "retry", "cancelled"}
    /\ deliveries[d].attempt + RetryBudget <= AttemptCap    \* bound
    /\ deliveries' = [deliveries EXCEPT ![d].st = "pending",
                        ![d].max = Larger(@, deliveries[d].attempt + RetryBudget)]
    /\ UNCHANGED <<endpoints, workers, accepted, faults, trusted>>

-----------------------------------------------------------------------------
Init ==
    /\ endpoints = [p \in Endpoint |-> [st |-> "active", failures |-> 0]]
    /\ deliveries = [d \in Rows |-> [st |-> "none", attempt |-> 0, max |-> 0]]
    /\ workers = [w \in Worker |-> Idle]
    /\ accepted = {}
    /\ faults = 0
    /\ trusted = TRUE

WorkerStep(w) ==
    \/ LoadDeliveryContext(w)
    \/ SendWebhook(w)
    \/ RecordResult(w)
    \/ RequeueAfterError(w)

Next ==
    \/ \E e \in Event : EmitEvent(e) \/ \E p \in Endpoint : EnqueueTestDelivery(e, p)
    \/ \E w \in Worker :
         \/ \E d \in Rows : Claim(w, d)
         \/ WorkerStep(w)
         \/ SendTooLong(w)
         \/ RecordUnacknowledged(w)
         \/ DatabaseError(w)
         \/ Crash(w)
    \/ \E p \in Endpoint : SetEndpointStatus(p)
    \/ \E d \in Rows : RetryDelivery(d)

Spec == Init /\ [][Next]_vars

\* Each process runs the worker on a timer and the rows that waited longest come first;
\* what a worker claimed it carries on with, and a request ends by its own timeout.
FairSpec ==
    /\ Spec
    /\ \A d \in Rows : SF_vars(\E w \in Worker : Claim(w, d))
    /\ \A w \in Worker : WF_vars(WorkerStep(w))

-----------------------------------------------------------------------------
(* Properties *)

\* No two workers send the same delivery at a time, through crashes, stale locks and
\* manual retries, as long as no live worker was overtaken and no acknowledgement lost.
OneSender ==
    trusted => \A v, w \in Worker : \A d \in Rows : Works(v, d) /\ Works(w, d) => v = w

\* A row says delivered only if its receiver accepted it at least once, whatever happens
\* to the workers.
DeliveredWasAccepted ==
    \A d \in Rows : deliveries[d].st = "delivered" => d \in accepted

\* A delivered row stays so, hence is never sent again, under the condition of OneSender:
\* an overtaken worker, and one that takes its commit for lost, write over it.
DeliveredStays ==
    [][trusted' =>
         \A d \in Rows : deliveries[d].st = "delivered" => deliveries'[d].st = "delivered"]_vars

\* An endpoint in service has not reached the failure threshold: it was switched off by
\* the failure that reached it, and re-enabling starts a new streak.
ActiveIsBelowThreshold ==
    \A p \in Endpoint : endpoints[p].st = "active" => endpoints[p].failures < FailureThreshold

\* A row is sent no more often than its budget, manual retries included, and once more
\* for each crash or error, whose attempts are compared with nothing.
AttemptsWithinBudget ==
    trusted => \A d \in Rows : deliveries[d].attempt <= deliveries[d].max + faults

\* Nothing is lost: an emitted event is in the end delivered to the endpoint, given up or
\* cancelled, also when workers crash on it or are overtaken.  (Faults are finite here: a
\* receiver whose every answer outlasts the transaction is retried for ever.)
DeliveryEnds ==
    \A d \in Rows : deliveries[d].st # "none" ~> deliveries[d].st \in Ended
=============================================================================
