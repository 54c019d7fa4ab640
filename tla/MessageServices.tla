---------------------------- MODULE MessageServices ----------------------------
(***************************************************************************)
(* The services that write to customers and payers: consents and their     *)
(* notifications, the mails about an order, and payment callbacks.  They   *)
(* share no row.                                                           *)
(***************************************************************************)
EXTENDS Notifications, OrderMail, PaymentCallbacks

messagesVars == <<notifyVars, mailVars, callbackVars>>

\* A message is in one hand and is not written over by another (Notifications); the row of a
\* mail that was sent stays so, and every copy but the first has its reason (OrderMail).
CustodyIsKept == NotifyCustody /\ SentStays /\ CopiesAreExplained
=============================================================================
