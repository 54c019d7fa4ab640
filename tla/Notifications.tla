---------------------------- MODULE Notifications ----------------------------
(***************************************************************************)
(* Notifications to one recipient over one channel about one product       *)
(* (modules/notifications): alert subscriptions with double opt-in,        *)
(* consents and suppression, the outbox, and the workers that claim a row, *)
(* check the consent again and send it (worker.js).                        *)
(*                                                                         *)
(* The claim commits on its own.  Everything after it, the request to the  *)
(* provider included, is one transaction; when it fails, the catch of the  *)
(* loop puts the row back, and when the process dies nothing does.         *)
(*                                                                         *)
(* The favourite alert shares the code of the price alert.  Prices are     *)
(* levels that differ by more than PRICE_DROP_MIN_FRACTION.  Expiry dates  *)
(* of consents are not set by any code and are left out.                   *)
(***************************************************************************)
EXTENDS Naturals, FiniteSets

CONSTANTS
    Alerts,          \* subscription types in use
    TopPrice,        \* price levels are 1..TopPrice
    Notifier,        \* worker processes
    NoMessage,       \* a worker that holds no row
    NotifyAttempts,  \* max_attempts of a row (5 in the table)
    NotifyRetry,     \* attempts a manual retry adds (3 in the code)
    MaxSignUps,      \* bound: guest sign-ups, each with a confirmation token
    MaxChoices,      \* bound: what the recipient and the administrators do
    MaxNotifyFaults  \* bound: worker errors and crashes

ASSUME NotificationAssumption ==
    /\ Alerts \subseteq {"back_in_stock", "price_drop"}
    /\ {TopPrice, NotifyAttempts, NotifyRetry} \subseteq Nat \ {0}
    /\ {MaxSignUps, MaxChoices, MaxNotifyFaults} \subseteq Nat

VARIABLES
    price,         \* effective price of the product
    subs,          \* notification_subscriptions, by type
    consents,      \* communication_consents: the purposes granted
    suppressed,    \* a row in communication_suppressions
    outbox,        \* notification_outbox
    notifiers,     \* what each worker holds
    mailed,        \* rows the provider accepted (history)
    signUps,       \* confirmation tokens issued so far
    choices,       \* what the recipient and the administrators did so far
    notifyFaults,  \* worker errors and crashes so far
    abandoned      \* rows whose worker died (history)

recipientVars == <<price, subs, consents, suppressed, signUps>>
notifyVars == <<recipientVars, outbox, notifiers, mailed, choices, notifyFaults, abandoned>>

\* A consent is for an alert or for general marketing, which no outbox event uses.
Purposes == Alerts \cup {"marketing"}

\* A row is named by its idempotency key: back_in_stock once per subscription, a price
\* alert once per price, an opt-in once per confirmation token.  at is 0 where unused.
AlertMessage(a, at) == [event |-> a, at |-> at, token |-> 0]
OptIn(a, t) == [event |-> a, at |-> 0, token |-> t]
IsOptIn(m) == m.token # 0
Messages ==
    {OptIn(a, t) : a \in Alerts, t \in 1..MaxSignUps}
      \cup {AlertMessage(a, 0) : a \in Alerts \cap {"back_in_stock"}}
      \cup {AlertMessage(a, at) : a \in Alerts \cap {"price_drop"}, at \in 1..TopPrice}

ASSUME NoMessageAssumption == NoMessage \notin Messages

MessageStatuses == {"none", "pending", "processing", "sent", "failed", "dead"}

\* allowed: the recipient could be written to at some moment since the claim (history).
NotifierStates ==
    [pc : {"idle", "claimed", "sending", "recording", "failing"},
     m : Messages \cup {NoMessage},
     result : {"sent", "temporary", "permanent"}, allowed : BOOLEAN]

Resting == [pc |-> "idle", m |-> NoMessage, result |-> "sent", allowed |-> FALSE]

\* canSend: transactional mail always, other mail with consent and no suppression.
CanSend(m) ==
    \/ IsOptIn(m)
    \/ ~suppressed /\ m.event \in consents

Unsent == [st |-> "pending", attempts |-> 0, max |-> NotifyAttempts]

\* Bounds what recipient and administrators do in one behaviour.
Choose == choices < MaxChoices /\ choices' = choices + 1

\* enqueue: a key that exists is left alone.
Enqueued(m) == [outbox EXCEPT ![m] = IF @.st = "none" THEN Unsent ELSE @]

\* cancelPendingOutbox over the given rows
Cancelled(ms) ==
    [m \in Messages |->
        IF m \in ms /\ outbox[m].st \in {"pending", "failed"}
        THEN [outbox[m] EXCEPT !.st = "dead"] ELSE outbox[m]]

\* grantConsent: a purpose not granted before also lifts the suppression.
Grant(p) ==
    /\ consents' = consents \cup {p}
    /\ suppressed' = (suppressed /\ p \in consents)
    /\ notifiers' = [w \in Notifier |->
          [notifiers[w] EXCEPT !.allowed =
             @ \/ (/\ notifiers[w].pc # "idle"
                   /\ ~suppressed'
                   /\ notifiers[w].m.event \in consents')]]

-----------------------------------------------------------------------------
(* service.js: subscribers *)

\* The upsert of createSubscription: only an unsubscribed row changes its status, and an
\* existing row keeps its confirmation token and its baseline.
Upserted(a, st, token) ==
    [subs EXCEPT ![a] =
        IF @.st = "none" THEN [st |-> st, token |-> token, baseline |-> price, low |-> 0]
        ELSE IF @.st = "unsubscribed" THEN [@ EXCEPT !.st = st] ELSE @]

\* createSubscription of a signed-in customer, who consents by it.
SubscribeAccount(a) ==
    /\ Choose
    /\ subs' = Upserted(a, "active", 0)
    /\ Grant(a)
    /\ UNCHANGED <<price, signUps, outbox, mailed, notifyFaults, abandoned>>

\* createSubscription of a guest: a new token is mailed while the row waits for one.
SubscribeGuest(a) ==
    /\ Choose
    /\ signUps < MaxSignUps
    /\ signUps' = signUps + 1
    /\ subs' = Upserted(a, "pending", signUps')
    /\ outbox' = IF subs'[a].st = "pending" THEN Enqueued(OptIn(a, signUps')) ELSE outbox
    /\ UNCHANGED <<price, consents, suppressed, notifiers, mailed, notifyFaults, abandoned>>

\* confirmSubscription: the guest follows the link of a mail that arrived.  Only a row that
\* is not active is touched, and only the token the row holds is known.
ConfirmSubscription(a, t) ==
    /\ Choose
    /\ OptIn(a, t) \in mailed
    /\ subs[a].token = t
    /\ subs[a].st # "active"
    /\ subs' = [subs EXCEPT ![a].st = "active", ![a].token = 0]
    /\ Grant(a)
    /\ UNCHANGED <<price, signUps, outbox, mailed, notifyFaults, abandoned>>

\* cancelSubscription: the consent stays, the queued alerts of the type die.
CancelSubscription(a) ==
    /\ Choose
    /\ subs[a].st \notin {"none", "unsubscribed"}
    /\ subs' = [subs EXCEPT ![a].st = "unsubscribed"]
    /\ outbox' = Cancelled({m \in Messages : m.event = a /\ ~IsOptIn(m)})
    /\ UNCHANGED <<price, consents, suppressed, signUps, notifiers, mailed, notifyFaults, abandoned>>

\* suppressChannel: every consent of the channel is revoked and every queued row dies.
SuppressChannel ==
    /\ suppressed' = TRUE
    /\ consents' = {}
    /\ outbox' = Cancelled(Messages)

\* consumeUnsubscribeToken: the link of an alert that arrived.
ConsumeUnsubscribeToken(a) ==
    /\ Choose
    /\ \E m \in Messages : m.event = a /\ ~IsOptIn(m) /\ m \in mailed
    /\ subs' = [subs EXCEPT ![a].st = "unsubscribed"]
    /\ SuppressChannel
    /\ UNCHANGED <<price, signUps, notifiers, mailed, notifyFaults, abandoned>>

\* optOutAllMarketing and manualSuppress: the same without a subscription.
OptOutAll ==
    /\ Choose
    /\ SuppressChannel
    /\ UNCHANGED <<price, subs, signUps, notifiers, mailed, notifyFaults, abandoned>>

\* applyPreferences and the consent routes, one toggle.
GrantPurpose(p) ==
    /\ Choose
    /\ Grant(p)
    /\ UNCHANGED <<price, subs, signUps, outbox, mailed, notifyFaults, abandoned>>

\* revokeConsent: the queued rows of the purpose's event die; a purpose without an event
\* takes every queued row with it.
RevokePurpose(p) ==
    /\ Choose
    /\ consents' = consents \ {p}
    /\ outbox' = Cancelled(IF p = "marketing" THEN Messages
                           ELSE {m \in Messages : m.event = p /\ ~IsOptIn(m)})
    /\ UNCHANGED <<price, subs, suppressed, signUps, notifiers, mailed, notifyFaults, abandoned>>

-----------------------------------------------------------------------------
(* service.js: triggers, inside the transaction of the catalogue or of the stock *)

\* notifyRestockTransitions, triggerBackInStock: one alert per subscription, which is used
\* up by it; without consent it waits for the next restock.
TriggerBackInStock ==
    LET m == AlertMessage("back_in_stock", 0)
    IN /\ "back_in_stock" \in Alerts
       /\ subs["back_in_stock"].st = "active"
       /\ CanSend(m)
       /\ outbox[m].st = "none"
       /\ outbox' = Enqueued(m)
       /\ subs' = [subs EXCEPT !["back_in_stock"].st = "notified"]
       /\ UNCHANGED <<price, consents, suppressed, signUps, notifiers, mailed, choices,
                      notifyFaults, abandoned>>

\* triggerEffectivePriceChange, notifyPriceSensitive: below the baseline and below the
\* lowest price announced so far.
ChangePrice(new) ==
    LET m == AlertMessage("price_drop", new)
        due == /\ "price_drop" \in Alerts
               /\ subs["price_drop"].st = "active"
               /\ new < subs["price_drop"].baseline
               /\ subs["price_drop"].low = 0 \/ new < subs["price_drop"].low
               /\ CanSend(m)
               /\ outbox[m].st = "none"
    IN /\ new # price
       /\ price' = new
       /\ IF due
          THEN outbox' = Enqueued(m) /\ subs' = [subs EXCEPT !["price_drop"].low = new]
          ELSE UNCHANGED <<outbox, subs>>
       /\ UNCHANGED <<consents, suppressed, signUps, notifiers, mailed, choices,
                      notifyFaults, abandoned>>

-----------------------------------------------------------------------------
(* worker.js *)

Hold(w, pc) == notifiers' = [notifiers EXCEPT ![w].pc = pc]
Release(w) == notifiers' = [notifiers EXCEPT ![w] = Resting]

\* Mutant of ClaimMessage: a row some worker holds is taken as well.
ClaimMessageAgain(w, m) ==
    /\ notifiers[w].pc = "idle"
    /\ outbox[m].st \in {"pending", "failed", "processing"}
    /\ outbox' = [outbox EXCEPT ![m].st = "processing", ![m].attempts = @ + 1]
    /\ notifiers' = [notifiers EXCEPT ![w] =
          [pc |-> "claimed", m |-> m, result |-> "sent", allowed |-> CanSend(m)]]
    /\ UNCHANGED <<recipientVars, mailed, choices, notifyFaults, abandoned>>

\* The claim of processNotificationOutbox, one UPDATE with SKIP LOCKED.  A row that is
\* processing is never taken again, however old its lock.
ClaimMessage(w, m) ==
    /\ notifiers[w].pc = "idle"
    /\ outbox[m].st \in {"pending", "failed"}
    /\ outbox' = [outbox EXCEPT ![m].st = "processing", ![m].attempts = @ + 1]
    /\ notifiers' = [notifiers EXCEPT ![w] =
          [pc |-> "claimed", m |-> m, result |-> "sent", allowed |-> CanSend(m)]]
    /\ UNCHANGED <<recipientVars, mailed, choices, notifyFaults, abandoned>>

\* Mutant of CheckConsent: the check made when the row was queued is trusted.
CheckNothing(w) ==
    /\ notifiers[w].pc = "claimed"
    /\ Hold(w, "sending")
    /\ UNCHANGED <<recipientVars, outbox, mailed, choices, notifyFaults, abandoned>>

\* The transaction starts: without consent the row dies.
CheckConsent(w) ==
    LET m == notifiers[w].m
    IN /\ notifiers[w].pc = "claimed"
       /\ IF CanSend(m)
          THEN Hold(w, "sending") /\ UNCHANGED outbox
          ELSE outbox' = [outbox EXCEPT ![m].st = "dead"] /\ Release(w)
       /\ UNCHANGED <<recipientVars, mailed, choices, notifyFaults, abandoned>>

\* provider.send, or no provider, which counts as a temporary failure.
SendMessage(w) ==
    /\ notifiers[w].pc = "sending"
    /\ \E result \in {"sent", "temporary", "permanent"} :
         /\ notifiers' = [notifiers EXCEPT ![w].pc = "recording", ![w].result = result]
         /\ mailed' = mailed \cup (IF result = "sent" THEN {notifiers[w].m} ELSE {})
    /\ UNCHANGED <<recipientVars, outbox, choices, notifyFaults, abandoned>>

\* Mutant of FinalizeOutbox: a status outside the table's CHECK.
FinalizeUnknown(w) ==
    /\ notifiers[w].pc = "recording"
    /\ outbox' = [outbox EXCEPT ![notifiers[w].m].st = notifiers[w].result]
    /\ Release(w)
    /\ UNCHANGED <<recipientVars, mailed, choices, notifyFaults, abandoned>>

\* recordDelivery, finalizeOutbox and the commit.
FinalizeOutbox(w) ==
    LET m == notifiers[w].m
        exhausted == outbox[m].attempts >= outbox[m].max
    IN /\ notifiers[w].pc = "recording"
       /\ outbox' = [outbox EXCEPT ![m].st =
            IF notifiers[w].result = "sent" THEN "sent"
            ELSE IF notifiers[w].result = "permanent" \/ exhausted THEN "dead" ELSE "failed"]
       /\ Release(w)
       /\ UNCHANGED <<recipientVars, mailed, choices, notifyFaults, abandoned>>

\* The transaction fails, before or after the provider accepted the mail.
NotifyError(w) ==
    /\ notifyFaults < MaxNotifyFaults
    /\ notifiers[w].pc \in {"claimed", "sending", "recording"}
    /\ Hold(w, "failing")
    /\ notifyFaults' = notifyFaults + 1
    /\ UNCHANGED <<recipientVars, outbox, mailed, choices, abandoned>>

\* The catch: the row is due again whatever its attempts are.
RequeueMessage(w) ==
    /\ notifiers[w].pc = "failing"
    /\ outbox' = [outbox EXCEPT ![notifiers[w].m].st = "failed"]
    /\ Release(w)
    /\ UNCHANGED <<recipientVars, mailed, choices, notifyFaults, abandoned>>

\* The process stops: nobody resets the row.
NotifierCrash(w) ==
    /\ notifyFaults < MaxNotifyFaults
    /\ notifiers[w].pc # "idle"
    /\ abandoned' = abandoned \cup {notifiers[w].m}
    /\ Release(w)
    /\ notifyFaults' = notifyFaults + 1
    /\ UNCHANGED <<recipientVars, outbox, mailed, choices>>

\* retryOutbox: an administrator revives a failed or dead row with a larger budget.
RetryOutbox(m) ==
    /\ Choose
    /\ outbox[m].st \in {"failed", "dead"}
    /\ outbox' = [outbox EXCEPT ![m].st = "pending",
          ![m].max = IF @ > outbox[m].attempts + NotifyRetry THEN @
                     ELSE outbox[m].attempts + NotifyRetry]
    /\ UNCHANGED <<recipientVars, notifiers, mailed, notifyFaults, abandoned>>

-----------------------------------------------------------------------------
NotifyInit ==
    /\ price = TopPrice
    /\ subs = [a \in Alerts |-> [st |-> "none", token |-> 0, baseline |-> 0, low |-> 0]]
    /\ consents = {}
    /\ suppressed = FALSE
    /\ outbox = [m \in Messages |-> [st |-> "none", attempts |-> 0, max |-> NotifyAttempts]]
    /\ notifiers = [w \in Notifier |-> Resting]
    /\ mailed = {}
    /\ signUps = 0
    /\ choices = 0
    /\ notifyFaults = 0
    /\ abandoned = {}

NotifierStep(w) ==
    CheckConsent(w) \/ SendMessage(w) \/ FinalizeOutbox(w) \/ RequeueMessage(w)

NotifyNext ==
    \/ \E a \in Alerts :
         \/ SubscribeAccount(a) \/ SubscribeGuest(a) \/ CancelSubscription(a)
         \/ ConsumeUnsubscribeToken(a)
         \/ \E t \in 1..MaxSignUps : ConfirmSubscription(a, t)
    \/ \E p \in Purposes : GrantPurpose(p) \/ RevokePurpose(p)
    \/ OptOutAll
    \/ TriggerBackInStock
    \/ \E new \in 1..TopPrice : ChangePrice(new)
    \/ \E w \in Notifier :
         \/ \E m \in Messages : ClaimMessage(w, m)
         \/ NotifierStep(w) \/ NotifyError(w) \/ NotifierCrash(w)
    \/ \E m \in Messages : RetryOutbox(m)

NotifySpec == NotifyInit /\ [][NotifyNext]_notifyVars

-----------------------------------------------------------------------------
(* Properties *)

\* Every column holds a value the migration's CHECK constraints allow.
NotifyTypeOK ==
    /\ price \in 1..TopPrice
    /\ subs \in [Alerts -> [st : {"none", "pending", "active", "notified", "unsubscribed"},
                            token : 0..MaxSignUps, baseline : 0..TopPrice, low : 0..TopPrice]]
    /\ consents \subseteq Purposes
    /\ suppressed \in BOOLEAN
    /\ outbox \in [Messages -> [st : MessageStatuses, attempts : Nat, max : Nat]]
    /\ notifiers \in [Notifier -> NotifierStates]
    /\ mailed \subseteq Messages
    /\ {signUps, choices, notifyFaults} \subseteq Nat
    /\ abandoned \subseteq Messages

\* A row that is processing is in the hands of exactly one worker, unless the worker that
\* took it died, and what a worker holds is processing: no opt-out, retry or second worker
\* changes a row under a worker, so the end it records is the end of its own request.
NotifyCustody ==
    \A m \in Messages :
        LET holders == {w \in Notifier : notifiers[w].m = m}
        IN /\ Cardinality(holders) <= 1
           /\ holders # {} => outbox[m].st = "processing"
           /\ outbox[m].st = "processing" => holders # {} \/ m \in abandoned

\* A worker writes to the recipient only if they could be written to at some moment after
\* the worker claimed the row: an opt-out by link, preference or administrator that was
\* committed before the claim wins over queued rows, errors and manual retries.
OptOutWins ==
    \A w \in Notifier :
        notifiers[w].pc \in {"sending", "recording"} =>
            IsOptIn(notifiers[w].m) \/ notifiers[w].allowed
=============================================================================
