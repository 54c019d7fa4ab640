------------------------------- MODULE OrderMail -------------------------------
(***************************************************************************)
(* The mails about one order's status: the trigger of migration 044 queues *)
(* one per change of order_status, and deliverPendingOrderNotifications    *)
(* (services/orderOperations.js) sends them, started by a timer, by        *)
(* requests that changed an order and by hand, in as many processes as     *)
(* run.  The claim commits on its own; each mail of the batch is sent and  *)
(* then recorded by a statement of its own.  So a mail may be sent twice,  *)
(* and the properties say when.                                            *)
(*                                                                         *)
(* The number of attempts is not limited and only spaces the retries, so   *)
(* neither is modelled.                                                    *)
(***************************************************************************)
EXTENDS Naturals, FiniteSetsExt

CONSTANTS
    Mailer,        \* runs of deliverPendingOrderNotifications at the same time
    MaxMails,      \* bound: changes of order_status
    MaxMailFaults  \* bound: overtaken and dead mailers, mails that went out and are not known to

ASSUME MailAssumption == {MaxMails, MaxMailFaults} \subseteq Nat /\ IsFiniteSet(Mailer)

VARIABLES
    mails,      \* order_notification_outbox.status, in order of id; "none" for a later row
    mailers,    \* the batch each mailer has left, and how its current mail went
    recorded,   \* rows a mailer recorded as sent (history)
    copies,     \* how many mails of each row went out (history)
    excused,    \* how often each row gave a reason to send again (history)
    mailFaults

mailVars == <<mails, mailers, recorded, copies, excused, mailFaults>>

Mail == 1..MaxMails
InStatus(sts) == {m \in Mail : mails[m] \in sts}
HeldElsewhere(w) == UNION {mailers[v].batch : v \in Mailer \ {w}}

\* panelya_append_order_events
QueueMail ==
    \E m \in Mail :
        /\ mails[m] = "none" /\ \A n \in 1..(m - 1) : mails[n] # "none"
        /\ mails' = [mails EXCEPT ![m] = "pending"]
        /\ UNCHANGED <<mailers, recorded, copies, excused, mailFaults>>

MailFault == mailFaults < MaxMailFaults /\ mailFaults' = mailFaults + 1

\* What waits, and what has been processing for ten minutes, because its mailer died or, a
\* fault, is slow.
DueMails(w, due) ==
    LET waiting == InStatus({"pending", "failed"})
        stale == InStatus({"processing"})
    IN /\ mailers[w].batch = {} /\ due # {}
       /\ \/ due = waiting \cup (stale \ HeldElsewhere(w)) /\ UNCHANGED mailFaults
          \/ stale \cap HeldElsewhere(w) # {} /\ due = waiting \cup stale /\ MailFault

\* Mutant of ClaimMails: the rows are locked for the claim and not marked.
ReadMails(w, due) ==
    /\ DueMails(w, due)
    /\ mailers' = [mailers EXCEPT ![w].batch = due]
    /\ UNCHANGED <<mails, recorded, copies, excused>>

\* The claim.  Nobody knows of a row that is processing whether its mail went out.
ClaimMails(w, due) ==
    /\ DueMails(w, due)
    /\ mails' = [m \in Mail |-> IF m \in due THEN "processing" ELSE mails[m]]
    /\ mailers' = [mailers EXCEPT ![w].batch = due]
    /\ excused' = [m \in Mail |->
          IF m \in due /\ mails[m] = "processing" THEN excused[m] + 1 ELSE excused[m]]
    /\ UNCHANGED <<recorded, copies>>

\* sendOrderStatusEmail for the next row of the batch.  It may go out and count as failed: the
\* provider's answer is lost, or the statement that would record it fails.
SendMail(w) ==
    LET m == Min(mailers[w].batch)
        goes(result) == mailers' = [mailers EXCEPT ![w].result = result]
        out == copies' = [copies EXCEPT ![m] = @ + 1]
    IN /\ mailers[w].batch # {}
       /\ mailers[w].result = "none"
       /\ \/ goes("sent") /\ out /\ UNCHANGED <<excused, mailFaults>>
          \/ goes("failed") /\ UNCHANGED <<copies, excused, mailFaults>>
          \/ goes("failed") /\ out /\ excused' = [excused EXCEPT ![m] = @ + 1] /\ MailFault
       /\ UNCHANGED <<mails, recorded>>

\* Mutant of RecordMail: the result is written whatever the row says by now.
RecordMailAnyway(w) ==
    LET m == Min(mailers[w].batch)
    IN /\ mailers[w].result # "none"
       /\ mails' = [mails EXCEPT ![m] = mailers[w].result]
       /\ recorded' = IF mailers[w].result = "sent" THEN recorded \cup {m} ELSE recorded
       /\ mailers' = [mailers EXCEPT ![w] = [batch |-> @.batch \ {m}, result |-> "none"]]
       /\ UNCHANGED <<copies, excused, mailFaults>>

\* The result, if the row is still processing.
RecordMail(w) ==
    LET m == Min(mailers[w].batch)
        counts == mails[m] = "processing"
    IN /\ mailers[w].result # "none"
       /\ mails' = IF counts THEN [mails EXCEPT ![m] = mailers[w].result] ELSE mails
       /\ recorded' = IF counts /\ mailers[w].result = "sent" THEN recorded \cup {m} ELSE recorded
       /\ mailers' = [mailers EXCEPT ![w] = [batch |-> @.batch \ {m}, result |-> "none"]]
       /\ UNCHANGED <<copies, excused, mailFaults>>

\* The process stops, or the record of a failure fails and ends the loop.
MailerCrash(w) ==
    /\ MailFault
    /\ mailers[w].batch # {}
    /\ mailers' = [mailers EXCEPT ![w] = [batch |-> {}, result |-> "none"]]
    /\ UNCHANGED <<mails, recorded, copies, excused>>

-----------------------------------------------------------------------------
MailInit ==
    /\ mails = [m \in Mail |-> "none"]
    /\ mailers = [w \in Mailer |-> [batch |-> {}, result |-> "none"]]
    /\ recorded = {}
    /\ copies = [m \in Mail |-> 0] /\ excused = [m \in Mail |-> 0]
    /\ mailFaults = 0

MailNext ==
    \/ QueueMail
    \/ \E w \in Mailer :
         \/ SendMail(w) \/ RecordMail(w) \/ MailerCrash(w)
         \/ \E due \in SUBSET Mail : ClaimMails(w, due)

MailSpec == MailInit /\ [][MailNext]_mailVars

-----------------------------------------------------------------------------
(* Properties *)

\* Rows and mailers hold values the table and the code know.
MailTypeOK ==
    /\ mails \in [Mail -> {"none", "pending", "processing", "sent", "failed"}]
    /\ mailers \in [Mailer -> [batch : SUBSET Mail, result : {"none", "sent", "failed"}]]
    /\ recorded \subseteq Mail
    /\ {copies, excused} \subseteq [Mail -> Nat]
    /\ mailFaults \in 0..MaxMailFaults

\* A row that was recorded as sent stays sent: no late result of an overtaken mailer and no
\* claim takes it up again.
SentStays == \A m \in recorded : mails[m] = "sent"

\* A change of status is mailed once, and once more at most for each occasion to: a claim of the
\* row while it was processing, whose first mailer may have sent or may still send, and a mail
\* that went out and counted as failed.
CopiesAreExplained == \A m \in Mail : copies[m] <= 1 + excused[m]
=============================================================================
