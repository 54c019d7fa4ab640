--------------------------- MODULE PaymentCallbacks ---------------------------
(***************************************************************************)
(* The payment callbacks of one order, processed by several requests and   *)
(* retry scripts at once (services/paymentCallbackEvents.js).  The claim   *)
(* of an event, the question to the provider, the order's lock and the     *)
(* final write are steps of one transaction; a process that fails writes   *)
(* its failure afterwards, whatever became of the event meanwhile.  Stock  *)
(* and coupon move with the order and are those of OrderInventory.         *)
(***************************************************************************)
EXTENDS FiniteSets

CONSTANTS
    CallbackEvent,  \* rows of payment_callback_events: one per reference or mock status
    NoEvent,
    Processor       \* callback requests and retry scripts

ASSUME CallbackAssumption == NoEvent \notin CallbackEvent

VARIABLES
    callbacks,   \* processing_status and result_status of each event
    paying,      \* status of the order
    processors,  \* the transaction of each process
    reopened     \* whether anybody else took the order out of paid or cancelled (history)

callbackVars == <<callbacks, paying, processors, reopened>>

\* "processing" is set and replaced in one transaction, so nobody sees it.
EventStatuses == {"none", "pending", "failed", "processed"}
Verdicts == {"paid", "cancelled"}
PayingStatuses == {"payment_pending", "processing"} \cup Verdicts

NoProcess == [pc |-> "idle", event |-> NoEvent, proposed |-> "cancelled", seen |-> "payment_pending"]

\* What a process that has lost its transaction, or committed it, still knows.
Ending(p, pc) == [NoProcess EXCEPT !.pc = pc, !.event = processors[p].event]

\* The claim locks the event's row, and the order's row is locked after the provider answered.
EventIsFree(e) ==
    \A p \in Processor : processors[p].pc \in {"claimed", "asked", "locked"} => processors[p].event # e
OrderIsFree == \A p \in Processor : processors[p].pc # "locked"

-----------------------------------------------------------------------------
\* enqueuePaymentCallbackEvent: a repeated callback finds the row of the first.
EnqueueCallback(e) ==
    /\ callbacks[e].st = "none"
    /\ callbacks' = [callbacks EXCEPT ![e].st = "pending"]
    /\ UNCHANGED <<paying, processors, reopened>>

\* claimPaymentCallbackEvent, once a claim of the same row has ended: a processed event is
\* only reported again.  (next_retry_at may be near or far.)
ClaimCallback(p, e) ==
    /\ processors[p].pc = "idle"
    /\ EventIsFree(e)
    /\ callbacks[e].st \in {"pending", "failed"}
    /\ processors' = [processors EXCEPT ![p] = [NoProcess EXCEPT !.pc = "claimed", !.event = e]]
    /\ UNCHANGED <<callbacks, paying, reopened>>

\* retrievePayment, or the status in a mock payload.
AskProvider(p, proposed) ==
    /\ processors[p].pc = "claimed"
    /\ processors' = [processors EXCEPT ![p].pc = "asked", ![p].proposed = proposed]
    /\ UNCHANGED <<callbacks, paying, reopened>>

\* Mutant of LockOrder: the order is read and not locked.
ReadOrder(p) ==
    /\ processors[p].pc = "asked"
    /\ processors' = [processors EXCEPT ![p].pc = "locked", ![p].seen = paying]
    /\ UNCHANGED <<callbacks, paying, reopened>>

\* lockOrderForCallback
LockOrder(p) ==
    /\ processors[p].pc = "asked" /\ OrderIsFree
    /\ processors' = [processors EXCEPT ![p].pc = "locked", ![p].seen = paying]
    /\ UNCHANGED <<callbacks, paying, reopened>>

\* resolveTerminalGuardedStatus
GuardedStatus(current, proposed) == IF current \in Verdicts THEN current ELSE proposed

\* The order and the event are written and committed.
CommitCallback(p) ==
    LET q == processors[p]
        next == GuardedStatus(q.seen, q.proposed)
    IN /\ q.pc = "locked"
       /\ paying' = next
       /\ callbacks' = [callbacks EXCEPT ![q.event] = [st |-> "processed", result |-> next]]
       /\ processors' = [processors EXCEPT ![p] = Ending(p, "committed")]
       /\ UNCHANGED reopened

\* The customer is read for the mail, on another connection.
ReportCallback(p) ==
    /\ processors[p].pc = "committed"
    /\ \E after \in {NoProcess, Ending(p, "failing")} :
         processors' = [processors EXCEPT ![p] = after]
    /\ UNCHANGED <<callbacks, paying, reopened>>

\* A step of the transaction throws, and it is rolled back.
CallbackThrows(p) ==
    /\ processors[p].pc \in {"claimed", "asked", "locked"}
    /\ processors' = [processors EXCEPT ![p] = Ending(p, "failing")]
    /\ UNCHANGED <<callbacks, paying, reopened>>

\* The catch marks the event failed, unless that fails too; a claim of another process makes
\* it wait.
MarkFailed(p) ==
    LET e == processors[p].event
    IN /\ processors[p].pc = "failing"
       /\ \/ EventIsFree(e) /\ callbacks' = [callbacks EXCEPT ![e].st = "failed"]
          \/ UNCHANGED callbacks
       /\ processors' = [processors EXCEPT ![p] = NoProcess]
       /\ UNCHANGED <<paying, reopened>>

\* A process dies; what it had not committed is rolled back.
ProcessorCrash(p) ==
    /\ processors[p].pc # "idle"
    /\ processors' = [processors EXCEPT ![p] = NoProcess]
    /\ UNCHANGED <<callbacks, paying, reopened>>

\* Administrators, the expiry and the end of /initialize move the order too.
OthersMoveOrder(to) ==
    /\ OrderIsFree /\ to # paying
    /\ paying' = to
    /\ reopened' = (reopened \/ paying \in Verdicts)
    /\ UNCHANGED <<callbacks, processors>>

-----------------------------------------------------------------------------
CallbackInit ==
    /\ callbacks = [e \in CallbackEvent |-> [st |-> "none", result |-> "none"]]
    /\ paying = "payment_pending"
    /\ processors = [p \in Processor |-> NoProcess]
    /\ reopened = FALSE

CallbackNext ==
    \/ \E e \in CallbackEvent : EnqueueCallback(e)
    \/ \E p \in Processor :
         \/ \E e \in CallbackEvent : ClaimCallback(p, e)
         \/ \E proposed \in Verdicts : AskProvider(p, proposed)
         \/ LockOrder(p) \/ CommitCallback(p) \/ ReportCallback(p)
         \/ CallbackThrows(p) \/ MarkFailed(p) \/ ProcessorCrash(p)
    \/ \E to \in PayingStatuses : OthersMoveOrder(to)

CallbackSpec == CallbackInit /\ [][CallbackNext]_callbackVars

-----------------------------------------------------------------------------
(* Properties *)

\* Events, the order and processes hold values of their kind.
CallbackTypeOK ==
    /\ callbacks \in [CallbackEvent -> [st : EventStatuses, result : Verdicts \cup {"none"}]]
    /\ paying \in PayingStatuses
    /\ processors \in [Processor ->
           [pc : {"idle", "claimed", "asked", "locked", "committed", "failing"},
            event : CallbackEvent \cup {NoEvent}, proposed : Verdicts, seen : PayingStatuses]]
    /\ reopened \in BOOLEAN

\* One payment has one verdict ("terminal [...] is not taken back by a later event",
\* paymentCallbackEvents.js:136-137): as long as nobody else takes the order out of paid or
\* cancelled, every event processed for it recorded the status it has.  That holds when
\* events with contrary outcomes are processed at once, an answer comes late, and an event
\* that was processed is marked failed by a process that lost track of it and runs again.
OneVerdict ==
    ~reopened => \A e \in CallbackEvent : callbacks[e].result \in {"none", paying}
=============================================================================
