------------------------ MODULE WebhookDeliveryProofs ------------------------
(***************************************************************************)
(* Theorems about WebhookDelivery, for any number of events, endpoints and *)
(* workers.                                                                *)
(*                                                                         *)
(* OneSender and DeliveredStays rest on one invariant, HeldIsProcessing: a *)
(* row some worker is busy with says processing.  It holds until a live    *)
(* worker is overtaken or the acknowledgement of a commit is lost.         *)
(* ActiveIsBelowThreshold and DeliveredWasAccepted hold throughout.        *)
(***************************************************************************)
EXTENDS WebhookDelivery, TLAPS

\* A busy worker holds a row.
BusyHasRow == \A w \in Worker : workers[w].pc # "idle" => workers[w].row \in Rows

Typed == TypeOK /\ BusyHasRow

\* A worker is busy with a row only while the row says processing.
HeldIsProcessing ==
    \A w \in Worker : \A d \in Rows : Works(w, d) => deliveries[d].st = "processing"

\* A worker about to record a success has had its request accepted.
AcceptedBeforeRecorded ==
    \A w \in Worker : workers[w].pc = "recording" /\ workers[w].verdict = "delivered"
                        => workers[w].row \in accepted

-----------------------------------------------------------------------------
(* Types *)

\* Every step keeps the rows and the workers well typed.
LEMMA TypedInductive == Spec => []Typed
<1> USE BudgetAssumption, RowAssumption, WebhookChoices
<1>1. Init => Typed
  <2>1. Idle \in WorkerStates
      BY DEF Idle, WorkerStates
  <2> QED
      BY <2>1 DEF Init, Typed, TypeOK, BusyHasRow, Idle, DeliveryStatuses, EndpointRow,
                  DeliveryRow
<1>2. Typed /\ [Next]_vars => Typed'
  <2> SUFFICES ASSUME Typed, [Next]_vars PROVE Typed'
      OBVIOUS
  <2> USE DEF Typed, TypeOK, BusyHasRow
  <2>1. ASSUME NEW e \in Event, EmitEvent(e) PROVE Typed'
    <3>1. deliveries' \in [Rows -> DeliveryRow]
        BY <2>1 DEF EmitEvent, DeliveryStatuses, DeliveryRow
    <3> QED
        BY <2>1, <3>1 DEF EmitEvent
  <2>2. ASSUME NEW e \in Event, NEW p \in Endpoint, EnqueueTestDelivery(e, p) PROVE Typed'
    <3>1. deliveries' \in [Rows -> DeliveryRow]
        BY <2>2 DEF EnqueueTestDelivery, DeliveryStatuses, DeliveryRow, Rows
    <3> QED
        BY <2>2, <3>1 DEF EnqueueTestDelivery
  <2>3. ASSUME NEW w \in Worker, NEW d \in Rows, Claim(w, d) PROVE Typed'
    <3> DEFINE att == Smaller(deliveries[d].attempt + 1, AttemptCap)
    <3>1. /\ deliveries' = [deliveries EXCEPT ![d].st = "processing", ![d].attempt = att]
          /\ workers' = [workers EXCEPT ![w] =
                [pc |-> "loading", row |-> d, attempt |-> att,
                 max |-> deliveries[d].max, verdict |-> "delivered"]]
        BY <2>3 DEF Claim
    <3>2. deliveries[d] \in DeliveryRow
        OBVIOUS
    <3>3. att \in 0..AttemptCap
        BY <3>2 DEF Smaller, DeliveryRow
    <3> HIDE DEF att
    <3>4. deliveries' \in [Rows -> DeliveryRow]
        BY <3>1, <3>2, <3>3 DEF DeliveryStatuses, DeliveryRow
    <3>5. [pc |-> "loading", row |-> d, attempt |-> att, max |-> deliveries[d].max,
           verdict |-> "delivered"] \in WorkerStates
        BY <3>2, <3>3 DEF WorkerStates, DeliveryRow
    <3> DEFINE claimed == [pc |-> "loading", row |-> d, attempt |-> att,
                           max |-> deliveries[d].max, verdict |-> "delivered"]
    <3>6. workers' \in [Worker -> WorkerStates] /\ BusyHasRow'
      <4>1. workers' = [workers EXCEPT ![w] = claimed] /\ claimed.row = d
          BY <3>1
      <4>2. claimed \in WorkerStates
          BY <3>5
      <4> HIDE DEF claimed
      <4> QED
          BY <4>1, <4>2
    <3>7. faults' \in 0..MaxFaults /\ trusted' \in BOOLEAN
      <4>1. \/ UNCHANGED <<faults, trusted>>
            \/ faults < MaxFaults /\ faults' = faults + 1 /\ trusted' = FALSE
          BY <2>3 DEF Claim, Overtaken
      <4>2. faults \in 0..MaxFaults /\ MaxFaults \in Nat
          OBVIOUS
      <4>3. faults' \in 0..MaxFaults
          BY <4>1, <4>2
      <4>4. trusted' \in BOOLEAN
          BY <4>1
      <4> QED
          BY <4>3, <4>4
    <3> QED
        BY <2>3, <3>4, <3>6, <3>7 DEF Claim
  <2>4. ASSUME NEW w \in Worker, LoadDeliveryContext(w) PROVE Typed'
    <3>1. workers[w].row \in Rows
        BY <2>4 DEF LoadDeliveryContext
    <3>2. deliveries' \in [Rows -> DeliveryRow]
        BY <2>4, <3>1 DEF LoadDeliveryContext, DeliveryStatuses, DeliveryRow
    <3>3. CASE workers' = [workers EXCEPT ![w].pc = "sending"]
        BY <2>4, <3>1, <3>2, <3>3 DEF LoadDeliveryContext, WorkerStates
    <3>4. CASE workers' = [workers EXCEPT ![w] = Idle]
        BY <2>4, <3>2, <3>4 DEF LoadDeliveryContext, WorkerStates, Idle
    <3> QED
        BY <2>4, <3>3, <3>4 DEF LoadDeliveryContext
  <2>5. ASSUME NEW w \in Worker, SendWebhook(w) PROVE Typed'
    <3>1. PICK verdict \in Verdicts :
             /\ workers' = [workers EXCEPT ![w].pc = "recording", ![w].verdict = verdict]
             /\ accepted' = accepted \cup
                  (IF verdict = "delivered" THEN {workers[w].row} ELSE {})
        BY <2>5 DEF SendWebhook
    <3>2. workers[w].row \in Rows
        BY <2>5 DEF SendWebhook
    <3>3. /\ workers' \in [Worker -> WorkerStates]
          /\ \A v \in Worker : workers'[v].pc # "idle" => workers'[v].row \in Rows
      <4>1. workers[w] \in WorkerStates
          OBVIOUS
      <4> DEFINE r == [workers[w] EXCEPT !.pc = "recording", !.verdict = verdict]
      <4>3. r \in WorkerStates /\ r.row = workers[w].row
          BY <4>1, WebhookChoices DEF WorkerStates
      <4>4. workers' = [workers EXCEPT ![w] = r]
          BY <3>1, <4>1 DEF WorkerStates
      <4> HIDE DEF r
      <4> QED
          BY <3>2, <4>3, <4>4
    <3>4. accepted' \subseteq Rows
        BY <3>1, <3>2
    <3> QED
        BY <2>5, <3>3, <3>4 DEF SendWebhook
  <2>6. ASSUME NEW w \in Worker, SendTooLong(w) PROVE Typed'
    <3>1. workers' \in [Worker -> WorkerStates] /\ BusyHasRow'
        BY <2>6 DEF SendTooLong, WorkerStates
    <3>2. accepted' \subseteq Rows
        BY <2>6 DEF SendTooLong
    <3>3. faults' \in 0..MaxFaults
        BY <2>6 DEF SendTooLong
    <3> QED
        BY <2>6, <3>1, <3>2, <3>3 DEF SendTooLong
  <2>7. ASSUME NEW w \in Worker, workers[w].pc = "recording",
               IF workers[w].verdict = "delivered" THEN RecordSuccess(w) ELSE RecordFailure(w)
        PROVE  /\ endpoints' \in [Endpoint -> EndpointRow]
               /\ deliveries' \in [Rows -> DeliveryRow]
    <3>1. workers[w].row \in Rows /\ workers[w].row[2] \in Endpoint
        BY <2>7 DEF Rows
    <3>2. CASE RecordSuccess(w)
      <4>1. deliveries' \in [Rows -> DeliveryRow]
          BY <3>1, <3>2 DEF RecordSuccess, DeliveryStatuses, DeliveryRow
      <4>2. endpoints' \in [Endpoint -> EndpointRow]
          BY <3>1, <3>2 DEF RecordSuccess, EndpointRow
      <4> QED
          BY <4>1, <4>2
    <3>3. CASE RecordFailure(w)
      <4>1. deliveries' \in [Rows -> DeliveryRow]
          BY <3>1, <3>3 DEF RecordFailure, DeliveryStatuses, DeliveryRow
      <4>2. endpoints' \in [Endpoint -> EndpointRow]
          BY <3>1, <3>3 DEF RecordFailure, CountFailure, EndpointRow
      <4> QED
          BY <4>1, <4>2
    <3> QED
        BY <2>7, <3>2, <3>3
  <2>8. ASSUME NEW w \in Worker, RecordResult(w) PROVE Typed'
    <3>1. workers' \in [Worker -> WorkerStates] /\ BusyHasRow'
        BY <2>8 DEF RecordResult, WorkerStates, Idle
    <3>2. /\ endpoints' \in [Endpoint -> EndpointRow]
          /\ deliveries' \in [Rows -> DeliveryRow]
        BY <2>8, <2>7 DEF RecordResult
    <3> QED
        BY <2>8, <3>1, <3>2 DEF RecordResult
  <2>9. ASSUME NEW w \in Worker, RecordUnacknowledged(w) PROVE Typed'
    <3>1. workers' \in [Worker -> WorkerStates] /\ BusyHasRow'
        BY <2>9 DEF RecordUnacknowledged, WorkerStates
    <3>2. /\ endpoints' \in [Endpoint -> EndpointRow]
          /\ deliveries' \in [Rows -> DeliveryRow]
        BY <2>9, <2>7 DEF RecordUnacknowledged
    <3>3. faults' \in 0..MaxFaults
        BY <2>9 DEF RecordUnacknowledged
    <3> QED
        BY <2>9, <3>1, <3>2, <3>3 DEF RecordUnacknowledged
  <2>10. ASSUME NEW w \in Worker, DatabaseError(w) PROVE Typed'
    <3>1. workers' \in [Worker -> WorkerStates] /\ BusyHasRow'
        BY <2>10 DEF DatabaseError, WorkerStates
    <3>2. faults' \in 0..MaxFaults
        BY <2>10 DEF DatabaseError
    <3> QED
        BY <2>10, <3>1, <3>2 DEF DatabaseError
  <2>11. ASSUME NEW w \in Worker, RequeueAfterError(w) PROVE Typed'
    <3>1. workers[w].row \in Rows
        BY <2>11 DEF RequeueAfterError
    <3>2. deliveries' \in [Rows -> DeliveryRow]
        BY <2>11, <3>1 DEF RequeueAfterError, DeliveryStatuses, DeliveryRow
    <3>3. workers' \in [Worker -> WorkerStates] /\ BusyHasRow'
        BY <2>11 DEF RequeueAfterError, WorkerStates, Idle
    <3> QED
        BY <2>11, <3>2, <3>3 DEF RequeueAfterError
  <2>12. ASSUME NEW w \in Worker, Crash(w) PROVE Typed'
    <3>1. workers' \in [Worker -> WorkerStates] /\ BusyHasRow'
        BY <2>12 DEF Crash, WorkerStates, Idle
    <3>2. faults' \in 0..MaxFaults
        BY <2>12 DEF Crash
    <3> QED
        BY <2>12, <3>1, <3>2 DEF Crash
  <2>13. ASSUME NEW p \in Endpoint, SetEndpointStatus(p) PROVE Typed'
    <3>1. endpoints' \in [Endpoint -> EndpointRow]
        BY <2>13 DEF SetEndpointStatus, EndpointRow
    <3> QED
        BY <2>13, <3>1 DEF SetEndpointStatus
  <2>14. ASSUME NEW d \in Rows, RetryDelivery(d) PROVE Typed'
    <3> DEFINE more == Larger(deliveries[d].max, deliveries[d].attempt + RetryBudget)
    <3>1. more \in Nat
        BY DEF Larger, DeliveryRow
    <3>2. deliveries' = [deliveries EXCEPT ![d].st = "pending", ![d].max = more]
        BY <2>14 DEF RetryDelivery
    <3> HIDE DEF more
    <3>3. deliveries' \in [Rows -> DeliveryRow]
        BY <3>1, <3>2 DEF DeliveryStatuses, DeliveryRow
    <3> QED
        BY <2>14, <3>3 DEF RetryDelivery
  <2>15. CASE UNCHANGED vars
      BY <2>15 DEF vars
  <2> QED
      BY <2>1, <2>2, <2>3, <2>4, <2>5, <2>6, <2>8, <2>9, <2>10, <2>11, <2>12, <2>13,
         <2>14, <2>15 DEF Next, WorkerStep
<1> QED
    BY <1>1, <1>2, PTL DEF Spec

\* Every reachable state is well typed.
THEOREM WebhookTypes == Spec => []TypeOK
<1>1. Typed => TypeOK
    BY DEF Typed
<1> QED
    BY <1>1, TypedInductive, PTL

-----------------------------------------------------------------------------
(* The receiver's acceptance comes before the row's *)

Acceptance == DeliveredWasAccepted /\ AcceptedBeforeRecorded

\* The acceptance precedes the record, with stale locks broken under live workers and
\* acknowledgements lost as well.
THEOREM WebhookDeliveredWasAccepted == Spec => []DeliveredWasAccepted
<1>1. Init => Acceptance
    BY DEF Init, Acceptance, DeliveredWasAccepted, AcceptedBeforeRecorded, Idle
<1>2. Typed /\ Acceptance /\ [Next]_vars => Acceptance'
  <2> SUFFICES ASSUME Typed, Acceptance, [Next]_vars PROVE Acceptance'
      OBVIOUS
  <2> USE DEF Typed, TypeOK, BusyHasRow, Acceptance, DeliveredWasAccepted,
              AcceptedBeforeRecorded
  <2>1. ASSUME NEW e \in Event, EmitEvent(e) PROVE Acceptance'
      BY <2>1 DEF EmitEvent
  <2>2. ASSUME NEW e \in Event, NEW p \in Endpoint, EnqueueTestDelivery(e, p)
        PROVE Acceptance'
      BY <2>2 DEF EnqueueTestDelivery
  <2>3. ASSUME NEW w \in Worker, NEW d \in Rows, Claim(w, d) PROVE Acceptance'
      BY <2>3 DEF Claim
  <2>4. ASSUME NEW w \in Worker, LoadDeliveryContext(w) PROVE Acceptance'
    <3>1. AcceptedBeforeRecorded'
        BY <2>4 DEF LoadDeliveryContext, Idle, WorkerStates
    <3>2. DeliveredWasAccepted'
        BY <2>4 DEF LoadDeliveryContext, DeliveryRow
    <3> QED
        BY <3>1, <3>2
  <2>5. ASSUME NEW w \in Worker, SendWebhook(w) PROVE Acceptance'
      BY <2>5 DEF SendWebhook
  <2>6. ASSUME NEW w \in Worker, SendTooLong(w) PROVE Acceptance'
      BY <2>6 DEF SendTooLong
  <2>7. ASSUME NEW w \in Worker, RecordResult(w) PROVE Acceptance'
    <3>1. AcceptedBeforeRecorded'
        BY <2>7 DEF RecordResult, Idle
    <3>2. DeliveredWasAccepted'
        BY <2>7 DEF RecordResult, RecordSuccess, RecordFailure, DeliveryRow
    <3> QED
        BY <3>1, <3>2
  <2>8. ASSUME NEW w \in Worker, RecordUnacknowledged(w) PROVE Acceptance'
    <3>1. AcceptedBeforeRecorded'
        BY <2>8 DEF RecordUnacknowledged, WorkerStates
    <3>2. DeliveredWasAccepted'
        BY <2>8 DEF RecordUnacknowledged, RecordSuccess, RecordFailure, DeliveryRow
    <3> QED
        BY <3>1, <3>2
  <2>9. ASSUME NEW w \in Worker, DatabaseError(w) PROVE Acceptance'
      BY <2>9 DEF DatabaseError
  <2>10. ASSUME NEW w \in Worker, RequeueAfterError(w) PROVE Acceptance'
      BY <2>10 DEF RequeueAfterError, Idle
  <2>11. ASSUME NEW w \in Worker, Crash(w) PROVE Acceptance'
      BY <2>11 DEF Crash, Idle
  <2>12. ASSUME NEW p \in Endpoint, SetEndpointStatus(p) PROVE Acceptance'
      BY <2>12 DEF SetEndpointStatus
  <2>13. ASSUME NEW d \in Rows, RetryDelivery(d) PROVE Acceptance'
      BY <2>13 DEF RetryDelivery
  <2>14. CASE UNCHANGED vars
      BY <2>14 DEF vars
  <2> QED
      BY <2>1, <2>2, <2>3, <2>4, <2>5, <2>6, <2>7, <2>8, <2>9, <2>10, <2>11, <2>12, <2>13,
         <2>14 DEF Next, WorkerStep
<1>3. Acceptance => DeliveredWasAccepted
    BY DEF Acceptance
<1> QED
    BY <1>1, <1>2, <1>3, TypedInductive, PTL DEF Spec

-----------------------------------------------------------------------------
(* The failure threshold *)

\* The streak of an active endpoint is counted and compared in one step, so it never
\* reaches the threshold unseen.
THEOREM WebhookActiveIsBelowThreshold == Spec => []ActiveIsBelowThreshold
<1> USE BudgetAssumption
<1>1. Init => ActiveIsBelowThreshold
    BY DEF Init, ActiveIsBelowThreshold
<1>2. Typed /\ ActiveIsBelowThreshold /\ [Next]_vars => ActiveIsBelowThreshold'
  <2> SUFFICES ASSUME Typed, ActiveIsBelowThreshold, [Next]_vars
               PROVE  ActiveIsBelowThreshold'
      OBVIOUS
  <2>1. /\ endpoints \in [Endpoint -> EndpointRow]
        /\ \A w \in Worker : workers[w].pc # "idle" => workers[w].row[2] \in Endpoint
      BY DEF Typed, TypeOK, BusyHasRow, Rows
  <2>2. CASE UNCHANGED endpoints
      BY <2>2 DEF ActiveIsBelowThreshold
  <2>3. ASSUME NEW p \in Endpoint, endpoints' = [endpoints EXCEPT ![p].failures = 0]
        PROVE ActiveIsBelowThreshold'
      BY <2>1, <2>3 DEF ActiveIsBelowThreshold, EndpointRow
  <2>4. ASSUME NEW p \in Endpoint, CountFailure(p) PROVE ActiveIsBelowThreshold'
      BY <2>1, <2>4 DEF CountFailure, ActiveIsBelowThreshold, EndpointRow
  <2>5. ASSUME NEW p \in Endpoint, SetEndpointStatus(p) PROVE ActiveIsBelowThreshold'
      BY <2>1, <2>5 DEF SetEndpointStatus, ActiveIsBelowThreshold, EndpointRow
  <2>6. ASSUME NEW w \in Worker, RecordResult(w) \/ RecordUnacknowledged(w)
        PROVE ActiveIsBelowThreshold'
      BY <2>1, <2>3, <2>4, <2>6
         DEF RecordResult, RecordUnacknowledged, RecordSuccess, RecordFailure
  <2> QED
      BY <2>2, <2>5, <2>6
         DEF Next, WorkerStep, vars, EmitEvent, EnqueueTestDelivery, Claim,
             LoadDeliveryContext, SendWebhook, SendTooLong, DatabaseError,
             RequeueAfterError, Crash, RetryDelivery
<1> QED
    BY <1>1, <1>2, TypedInductive, PTL DEF Spec

-----------------------------------------------------------------------------
(* One sender at a time, and a delivered row stays delivered *)

Exclusive ==
    \A v, w \in Worker : \A d \in Rows : Works(v, d) /\ Works(w, d) => v = w

Custody == trusted => Exclusive /\ HeldIsProcessing

\* While no live worker was overtaken and every commit was acknowledged, a busy worker's
\* row says processing and is its alone.
LEMMA CustodyInductive == Spec => []Custody
<1>1. Init => Custody
    BY DEF Init, Custody, Exclusive, HeldIsProcessing, Works, Idle
<1>2. Typed /\ Custody /\ [Next]_vars => Custody'
  <2> DEFINE Held == Exclusive /\ HeldIsProcessing
  <2> SUFFICES ASSUME Typed, Custody, [Next]_vars, trusted' PROVE Held'
      BY DEF Custody
  <2>0. trusted
      BY DEF Next, WorkerStep, vars, EmitEvent, EnqueueTestDelivery, Claim,
             LoadDeliveryContext, SendWebhook, SendTooLong, RecordResult,
             RecordUnacknowledged, DatabaseError, RequeueAfterError, Crash,
             SetEndpointStatus, RetryDelivery
  <2> USE <2>0 DEF Custody, Exclusive, HeldIsProcessing, Works
  <2>1. /\ workers \in [Worker -> WorkerStates]
        /\ deliveries \in [Rows -> DeliveryRow]
        /\ \A w \in Worker : workers[w].pc # "idle" => workers[w].row \in Rows
      BY DEF Typed, TypeOK, BusyHasRow
  \* A step of a busy worker that keeps its row, and the row's status.
  <2>2. ASSUME NEW w \in Worker, workers[w].pc # "idle",
               \A v \in Worker : v # w => workers'[v] = workers[v],
               workers'[w].row = workers[w].row, UNCHANGED deliveries
        PROVE  Held'
      BY <2>1, <2>2
  \* A step in which a worker lets go of its row, whatever becomes of the row.
  <2>3. ASSUME NEW w \in Worker, workers[w].pc # "idle",
               workers' = [workers EXCEPT ![w] = Idle],
               \A d \in Rows : d # workers[w].row => deliveries'[d] = deliveries[d]
        PROVE  Held'
      BY <2>1, <2>3 DEF Idle
  \* A step outside the workers that leaves the rows in processing alone.
  <2>4. ASSUME UNCHANGED workers,
               \A d \in Rows : deliveries[d].st = "processing" => deliveries'[d] = deliveries[d]
        PROVE  Held'
      BY <2>1, <2>4
  <2>5. ASSUME NEW w \in Worker, NEW d \in Rows, Claim(w, d) PROVE Held'
    <3>1. /\ deliveries[d].st \in {"pending", "retry"} \/ Stale(d)
          /\ deliveries'[d].st = "processing"
          /\ \A c \in Rows : c # d => deliveries'[c] = deliveries[c]
          /\ workers'[w].row = d
          /\ \A v \in Worker : v # w => workers'[v] = workers[v]
        BY <2>1, <2>5 DEF Claim, DeliveryRow, WorkerStates
    <3>2. \A v \in Worker : ~Works(v, d)
        BY <3>1 DEF Stale
    <3> QED
        BY <2>1, <3>1, <3>2
  <2>6. ASSUME NEW w \in Worker, LoadDeliveryContext(w) PROVE Held'
    <3>1. CASE /\ workers' = [workers EXCEPT ![w].pc = "sending"]
               /\ UNCHANGED deliveries
        BY <2>1, <2>2, <2>6, <3>1 DEF LoadDeliveryContext, WorkerStates
    <3>2. CASE /\ deliveries' = [deliveries EXCEPT ![workers[w].row].st = "cancelled"]
               /\ workers' = [workers EXCEPT ![w] = Idle]
        BY <2>1, <2>3, <2>6, <3>2 DEF LoadDeliveryContext
    <3> QED
        BY <2>6, <3>1, <3>2 DEF LoadDeliveryContext
  <2>7. ASSUME NEW w \in Worker, SendWebhook(w) \/ SendTooLong(w) \/ DatabaseError(w)
        PROVE  Held'
      BY <2>1, <2>2, <2>7 DEF SendWebhook, SendTooLong, DatabaseError, WorkerStates
  <2>8. ASSUME NEW w \in Worker, RecordResult(w) \/ RequeueAfterError(w) \/ Crash(w)
        PROVE  Held'
      BY <2>1, <2>3, <2>8
         DEF RecordResult, RecordSuccess, RecordFailure, RequeueAfterError, Crash
  <2>9. ASSUME NEW e \in Event, EmitEvent(e) PROVE Held'
      BY <2>1, <2>4, <2>9 DEF EmitEvent, Rows
  <2>10. ASSUME NEW e \in Event, NEW p \in Endpoint, EnqueueTestDelivery(e, p)
         PROVE  Held'
      BY <2>1, <2>4, <2>10 DEF EnqueueTestDelivery
  <2>11. ASSUME NEW p \in Endpoint, SetEndpointStatus(p) PROVE Held'
      BY <2>4, <2>11 DEF SetEndpointStatus
  <2>12. ASSUME NEW d \in Rows, RetryDelivery(d) PROVE Held'
      BY <2>1, <2>4, <2>12 DEF RetryDelivery
  <2>13. CASE UNCHANGED vars
      BY <2>4, <2>13 DEF vars
  <2> QED
      BY <2>5, <2>6, <2>7, <2>8, <2>9, <2>10, <2>11, <2>12, <2>13
         DEF Next, WorkerStep, RecordUnacknowledged
<1> QED
    BY <1>1, <1>2, TypedInductive, PTL DEF Spec

\* No two workers send the same delivery at a time.
THEOREM WebhookOneSender == Spec => []OneSender
<1>1. Custody => OneSender
    BY DEF Custody, Exclusive, OneSender
<1> QED
    BY <1>1, CustodyInductive, PTL

\* A delivered row is never touched again: every writer finds it out of processing.
THEOREM WebhookDeliveredStays == Spec => DeliveredStays
<1> DEFINE Stays ==
        \A d \in Rows : deliveries[d].st = "delivered" => deliveries'[d].st = "delivered"
<1>1. Typed /\ Custody /\ [Next]_vars => [trusted' => Stays]_vars
  <2> SUFFICES ASSUME Typed, Custody, Next, trusted' PROVE Stays
      OBVIOUS
  <2>0. trusted
      BY DEF Next, WorkerStep, EmitEvent, EnqueueTestDelivery, Claim,
             LoadDeliveryContext, SendWebhook, SendTooLong, RecordResult,
             RecordUnacknowledged, DatabaseError, RequeueAfterError, Crash,
             SetEndpointStatus, RetryDelivery
  <2>1. /\ deliveries \in [Rows -> DeliveryRow]
        /\ \A w \in Worker : workers[w].pc # "idle" =>
              workers[w].row \in Rows /\ deliveries[workers[w].row].st = "processing"
      BY <2>0 DEF Typed, TypeOK, BusyHasRow, Custody, HeldIsProcessing, Works
  \* Every step writes no row but those found in another state than delivered.
  <2>2. ASSUME NEW d \in Rows, deliveries[d].st # "delivered",
               \A c \in Rows : c # d => deliveries'[c] = deliveries[c]
        PROVE  Stays
      BY <2>2
  <2>3. CASE UNCHANGED deliveries
      BY <2>3
  <2>4. ASSUME NEW e \in Event, EmitEvent(e) PROVE Stays
      BY <2>1, <2>4 DEF EmitEvent, Rows
  <2>5. ASSUME NEW e \in Event, NEW p \in Endpoint, EnqueueTestDelivery(e, p) PROVE Stays
      BY <2>1, <2>2, <2>5 DEF EnqueueTestDelivery, Rows
  <2>6. ASSUME NEW w \in Worker, NEW d \in Rows, Claim(w, d) PROVE Stays
      BY <2>1, <2>2, <2>6 DEF Claim, Stale
  <2>7. ASSUME NEW w \in Worker,
               LoadDeliveryContext(w) \/ RecordResult(w) \/ RequeueAfterError(w)
        PROVE  Stays
      BY <2>1, <2>2, <2>3, <2>7
         DEF LoadDeliveryContext, RecordResult, RecordSuccess, RecordFailure,
             RequeueAfterError
  <2>8. ASSUME NEW d \in Rows, RetryDelivery(d) PROVE Stays
      BY <2>1, <2>2, <2>8 DEF RetryDelivery
  <2> QED
      BY <2>3, <2>4, <2>5, <2>6, <2>7, <2>8
         DEF Next, WorkerStep, RecordUnacknowledged, SendWebhook, SendTooLong,
             DatabaseError, Crash, SetEndpointStatus
<1> QED
    BY <1>1, CustodyInductive, TypedInductive, PTL DEF Spec, DeliveredStays

-----------------------------------------------------------------------------
(* The attempts of a row stay within its budget *)

\* The row is due again: the next claim counts one more attempt.
Due(d) == deliveries[d].st \in {"pending", "retry"} \/ Stale(d)

\* A row that is due, or whose worker is about to requeue it, has an attempt left; any
\* other worker compares the numbers the row still has.
WithinBudget ==
    \A d \in Rows :
        /\ deliveries[d].attempt <= deliveries[d].max + faults
        /\ Due(d) => deliveries[d].attempt < deliveries[d].max + faults
        /\ \A w \in Worker : Works(w, d) =>
             /\ workers[w].pc = "failing" => deliveries[d].attempt < deliveries[d].max + faults
             /\ workers[w].pc # "failing" => /\ workers[w].attempt = deliveries[d].attempt
                                            /\ workers[w].max = deliveries[d].max

Budgeted == trusted => WithinBudget

\* An error gives the row one attempt more before it is due again; a result is retried
\* only below the maximum the row still has.
LEMMA BudgetedInductive == Spec => []Budgeted
<1> USE BudgetAssumption, RowAssumption
<1>1. Init => Budgeted
    BY DEF Init, Budgeted, WithinBudget, Due, Stale, Works, Idle
<1>2. Typed /\ Custody /\ Budgeted /\ [Next]_vars => Budgeted'
  <2> SUFFICES ASSUME Typed, Custody, Budgeted, [Next]_vars, trusted' PROVE WithinBudget'
      BY DEF Budgeted
  <2>0. trusted
      BY DEF Next, WorkerStep, vars, EmitEvent, EnqueueTestDelivery, Claim,
             LoadDeliveryContext, SendWebhook, SendTooLong, RecordResult,
             RecordUnacknowledged, DatabaseError, RequeueAfterError, Crash,
             SetEndpointStatus, RetryDelivery
  <2>1. /\ workers \in [Worker -> WorkerStates]
        /\ deliveries \in [Rows -> DeliveryRow]
        /\ faults \in Nat
        /\ \A w \in Worker : workers[w].pc # "idle" => workers[w].row \in Rows
        /\ \A d \in Rows : deliveries[d].attempt \in Nat /\ deliveries[d].max \in Nat
      BY DEF Typed, TypeOK, BusyHasRow, DeliveryRow
  <2>c. Exclusive /\ HeldIsProcessing /\ WithinBudget
      BY <2>0 DEF Custody, Budgeted
  <2> USE DEF WithinBudget, Due, Stale, Works
  \* A step of a busy worker that keeps its row and what it knows of it.
  <2>2. ASSUME NEW w \in Worker, workers[w].pc # "idle", workers[w].pc # "failing",
               \A v \in Worker : v # w => workers'[v] = workers[v],
               workers'[w].row = workers[w].row, workers'[w].attempt = workers[w].attempt,
               workers'[w].max = workers[w].max, workers'[w].pc \notin {"idle", "failing"},
               UNCHANGED <<deliveries, faults>>
        PROVE  WithinBudget'
      BY <2>1, <2>2, <2>c
  \* An error sends the worker to the catch of its loop.
  <2>3. ASSUME NEW w \in Worker, workers[w].pc # "idle", workers[w].pc # "failing",
               workers' = [workers EXCEPT ![w].pc = "failing"],
               faults' = faults + 1, UNCHANGED deliveries
        PROVE  WithinBudget'
    <3>1. /\ workers'[w].row = workers[w].row /\ workers'[w].pc = "failing"
          /\ \A v \in Worker : v # w => workers'[v] = workers[v]
        BY <2>1, <2>3 DEF WorkerStates
    <3> QED
        BY <2>1, <2>3, <2>c, <3>1
  \* A worker lets go of its row and leaves it ended, or due with an attempt left.
  <2>4. ASSUME NEW w \in Worker, workers[w].pc # "idle",
               workers' = [workers EXCEPT ![w] = Idle],
               NEW st \in DeliveryStatuses, st # "processing",
               deliveries' = [deliveries EXCEPT ![workers[w].row].st = st],
               st \in {"pending", "retry"} =>
                  deliveries[workers[w].row].attempt < deliveries[workers[w].row].max + faults,
               UNCHANGED faults
        PROVE  WithinBudget'
    <3> DEFINE d == workers[w].row
    <3>1. /\ d \in Rows /\ workers'[w].pc = "idle"
          /\ \A v \in Worker : v # w => workers'[v] = workers[v]
          /\ deliveries'[d].st = st /\ deliveries'[d].attempt = deliveries[d].attempt
          /\ deliveries'[d].max = deliveries[d].max
          /\ \A c \in Rows : c # d => deliveries'[c] = deliveries[c]
        BY <2>1, <2>4 DEF Idle, DeliveryRow
    <3>2. \A v \in Worker : v # w => ~Works(v, d)
        BY <2>4, <2>c, <3>1 DEF Exclusive
    <3>3. ASSUME NEW c \in Rows, c # d, Due(c)'  PROVE Due(c)
        BY <3>1, <3>3
    <3> HIDE DEF d
    <3> QED
        BY <2>1, <2>4, <2>c, <3>1, <3>2, <3>3 DEF d
  \* A step outside the workers that leaves every row as it was, or free with an attempt
  \* left.
  <2>5. ASSUME UNCHANGED <<workers, faults>>,
               \A d \in Rows : \/ deliveries'[d] = deliveries[d]
                               \/ /\ deliveries[d].st # "processing"
                                  /\ deliveries'[d].st # "processing"
                                  /\ deliveries'[d].attempt \in Nat
                                  /\ deliveries'[d].max \in Nat
                                  /\ deliveries'[d].attempt < deliveries'[d].max
        PROVE  WithinBudget'
      BY <2>1, <2>5, <2>c DEF HeldIsProcessing
  <2>6. ASSUME NEW w \in Worker, NEW d \in Rows, Claim(w, d) PROVE WithinBudget'
    <3> DEFINE attempt == Smaller(deliveries[d].attempt + 1, AttemptCap)
    <3>1. /\ deliveries[d].st \in {"pending", "retry"} \/ Stale(d)
          /\ UNCHANGED faults
          /\ workers[w].pc = "idle"
        BY <2>6 DEF Claim
    <3>2. /\ deliveries' = [deliveries EXCEPT ![d].st = "processing", ![d].attempt = attempt]
          /\ workers' = [workers EXCEPT ![w] = [pc |-> "loading", row |-> d,
                attempt |-> attempt, max |-> deliveries[d].max, verdict |-> "delivered"]]
        BY <2>6 DEF Claim
    <3>3. attempt \in Nat /\ attempt <= deliveries[d].attempt + 1
        BY <2>1 DEF Smaller
    <3> HIDE DEF attempt
    <3>4. /\ deliveries'[d].st = "processing" /\ deliveries'[d].attempt = attempt
          /\ deliveries'[d].max = deliveries[d].max
          /\ \A c \in Rows : c # d => deliveries'[c] = deliveries[c]
          /\ workers'[w].row = d /\ workers'[w].pc = "loading"
          /\ workers'[w].attempt = attempt /\ workers'[w].max = deliveries[d].max
          /\ \A v \in Worker : v # w => workers'[v] = workers[v]
        BY <2>1, <3>2 DEF DeliveryRow
    <3>5. \A v \in Worker : ~Works(v, d)
        BY <2>c, <3>1 DEF HeldIsProcessing
    <3>6. ASSUME NEW c \in Rows, c # d, Due(c)' PROVE Due(c)
        BY <3>1, <3>4, <3>6
    <3> QED
        BY <2>1, <2>c, <3>1, <3>3, <3>4, <3>5, <3>6
  <2>7. ASSUME NEW w \in Worker, LoadDeliveryContext(w) PROVE WithinBudget'
    <3>1. CASE /\ workers' = [workers EXCEPT ![w].pc = "sending"]
               /\ UNCHANGED deliveries
        BY <2>1, <2>2, <2>7, <3>1 DEF LoadDeliveryContext, WorkerStates
    <3>2. CASE /\ deliveries' = [deliveries EXCEPT ![workers[w].row].st = "cancelled"]
               /\ workers' = [workers EXCEPT ![w] = Idle]
        BY <2>4, <2>7, <3>2 DEF LoadDeliveryContext, DeliveryStatuses
    <3> QED
        BY <2>7, <3>1, <3>2 DEF LoadDeliveryContext
  <2>8. ASSUME NEW w \in Worker, SendWebhook(w) PROVE WithinBudget'
      BY <2>1, <2>2, <2>8 DEF SendWebhook, WorkerStates
  <2>9. ASSUME NEW w \in Worker, SendTooLong(w) \/ DatabaseError(w) PROVE WithinBudget'
      BY <2>3, <2>9 DEF SendTooLong, DatabaseError
  <2>10. ASSUME NEW w \in Worker, RecordResult(w) PROVE WithinBudget'
    <3> DEFINE d == workers[w].row
    <3>1. PICK st \in {"delivered", "dead_letter", "retry"} :
             /\ deliveries' = [deliveries EXCEPT ![d].st = st]
             /\ st = "retry" => ~(workers[w].attempt >= workers[w].max)
        BY <2>10 DEF RecordResult, RecordSuccess, RecordFailure
    <3>2. /\ workers[w].attempt = deliveries[d].attempt
          /\ workers[w].max = deliveries[d].max
        BY <2>1, <2>10, <2>c DEF RecordResult
    <3>3. st = "retry" => deliveries[d].attempt < deliveries[d].max + faults
        BY <2>1, <2>10, <3>1, <3>2 DEF RecordResult
    <3> QED
        BY <2>4, <2>10, <3>1, <3>3 DEF RecordResult, DeliveryStatuses
  <2>11. ASSUME NEW w \in Worker, RequeueAfterError(w) PROVE WithinBudget'
    <3>1. deliveries[workers[w].row].attempt < deliveries[workers[w].row].max + faults
        BY <2>1, <2>11, <2>c DEF RequeueAfterError
    <3> QED
        BY <2>4, <2>11, <3>1 DEF RequeueAfterError, DeliveryStatuses
  <2>12. ASSUME NEW w \in Worker, Crash(w) PROVE WithinBudget'
    <3>1. /\ faults' = faults + 1 /\ deliveries' = deliveries
          /\ \A v \in Worker : v # w => workers'[v] = workers[v]
          /\ workers'[w].pc = "idle"
        BY <2>1, <2>12 DEF Crash, Idle
    <3> QED
        BY <2>1, <2>c, <3>1
  <2>13. ASSUME NEW e \in Event, EmitEvent(e) PROVE WithinBudget'
    <3>1. \A d \in Rows : \/ deliveries'[d] = deliveries[d]
                         \/ /\ deliveries[d].st = "none"
                            /\ deliveries'[d] = [st |-> "pending", attempt |-> 0,
                                                max |-> MaxAttempts]
        BY <2>13 DEF EmitEvent, Rows
    <3> QED
        BY <2>5, <2>13, <3>1 DEF EmitEvent
  <2>14. ASSUME NEW e \in Event, NEW p \in Endpoint, EnqueueTestDelivery(e, p)
         PROVE  WithinBudget'
    <3>1. \A d \in Rows : \/ deliveries'[d] = deliveries[d]
                         \/ /\ deliveries[d].st = "none"
                            /\ deliveries'[d] = [st |-> "pending", attempt |-> 0,
                                                max |-> MaxAttempts]
        BY <2>1, <2>14 DEF EnqueueTestDelivery, Rows
    <3> QED
        BY <2>5, <2>14, <3>1 DEF EnqueueTestDelivery
  <2>15. ASSUME NEW d \in Rows, RetryDelivery(d) PROVE WithinBudget'
    <3> DEFINE more == Larger(deliveries[d].max, deliveries[d].attempt + RetryBudget)
    <3>1. more \in Nat /\ deliveries[d].attempt < more
        BY <2>1 DEF Larger
    <3>2. deliveries' = [deliveries EXCEPT ![d].st = "pending", ![d].max = more]
        BY <2>15 DEF RetryDelivery
    <3> HIDE DEF more
    <3>3. /\ deliveries'[d].st = "pending" /\ deliveries'[d].max = more
          /\ deliveries'[d].attempt = deliveries[d].attempt
          /\ \A c \in Rows : c # d => deliveries'[c] = deliveries[c]
        BY <2>1, <3>2 DEF DeliveryRow
    <3> QED
        BY <2>1, <2>5, <2>15, <3>1, <3>3 DEF RetryDelivery
  <2>16. ASSUME NEW p \in Endpoint, SetEndpointStatus(p) PROVE WithinBudget'
      BY <2>5, <2>16 DEF SetEndpointStatus
  <2>17. CASE UNCHANGED vars
      BY <2>5, <2>17 DEF vars
  <2> QED
      BY <2>6, <2>7, <2>8, <2>9, <2>10, <2>11, <2>12, <2>13, <2>14, <2>15, <2>16, <2>17
         DEF Next, WorkerStep, RecordUnacknowledged
<1> QED
    BY <1>1, <1>2, TypedInductive, CustodyInductive, PTL DEF Spec

\* A row is attempted no more often than its budget says, manual retries included, and
\* once more for each crash or error.
THEOREM WebhookAttemptsWithinBudget == Spec => []AttemptsWithinBudget
<1>1. Budgeted => AttemptsWithinBudget
    BY DEF Budgeted, WithinBudget, AttemptsWithinBudget
<1> QED
    BY <1>1, BudgetedInductive, PTL
=============================================================================
