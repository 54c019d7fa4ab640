---------------------------- MODULE MessagesProofs ----------------------------
(***************************************************************************)
(* Theorems about the services that write to customers and payers, for any *)
(* number of messages, workers, events and faults.                         *)
(*                                                                         *)
(* Each rests on an invariant of its own.  Notifications: two workers hold *)
(* two rows, a held row says processing, and a worker that could send now  *)
(* is allowed to.  OrderMail: the copies of a mail, the mailers that may   *)
(* still send it and a row that waits are covered by the reasons to send.  *)
(* PaymentCallbacks: one process holds the order's lock, and knows the     *)
(* status it has.                                                          *)
(***************************************************************************)
EXTENDS MessageServices, TLAPS, FiniteSetTheorems, WellFoundedInduction

-----------------------------------------------------------------------------
(* Notifications *)

\* A worker that is not idle holds a row, an idle one holds none.
BusyHoldsMessage ==
    \A w \in Notifier : IF notifiers[w].pc = "idle" THEN notifiers[w] = Resting
                        ELSE notifiers[w].m \in Messages

\* Two workers hold two rows, a held row says processing, and a row that says processing is
\* held, or its worker died.
EachHasItsOwn ==
    /\ \A v, w \in Notifier :
          notifiers[v].pc # "idle" /\ notifiers[w].m = notifiers[v].m => v = w
    /\ \A w \in Notifier :
          notifiers[w].pc # "idle" => outbox[notifiers[w].m].st = "processing"
    /\ \A m \in Messages : outbox[m].st = "processing" =>
          m \in abandoned \/ \E w \in Notifier : notifiers[w].m = m

\* Whoever can be written to now is allowed to be.
AllowedIfCanSend ==
    \A w \in Notifier :
        notifiers[w].pc # "idle" /\ CanSend(notifiers[w].m) =>
            IsOptIn(notifiers[w].m) \/ notifiers[w].allowed

NotifyInv ==
    NotifyTypeOK /\ BusyHoldsMessage /\ EachHasItsOwn /\ AllowedIfCanSend /\ OptOutWins

\* What the recipient, the administrators and the catalogue do to workers and rows: they
\* leave rows that are processing alone, and who may be written to from now on is allowed.
HandsOff ==
    /\ notifiers' \in [Notifier -> NotifierStates]
    /\ outbox' \in [Messages -> [st : MessageStatuses, attempts : Nat, max : Nat]]
    /\ \A w \in Notifier :
          /\ notifiers'[w].pc = notifiers[w].pc /\ notifiers'[w].m = notifiers[w].m
          /\ notifiers[w].pc = "idle" => notifiers'[w] = notifiers[w]
          /\ notifiers[w].allowed => notifiers'[w].allowed
          /\ notifiers[w].pc # "idle" /\ ~suppressed' /\ notifiers[w].m.event \in consents'
               => notifiers'[w].allowed \/ CanSend(notifiers[w].m)
    /\ \A m \in Messages : outbox'[m].st = "processing" <=> outbox[m].st = "processing"
    /\ abandoned' = abandoned

\* What keeps its hands off held rows keeps the invariant.
LEMMA HandsOffKeeps == ASSUME NotifyInv, NotifyTypeOK', HandsOff PROVE NotifyInv'
<1>1. BusyHoldsMessage'
    BY DEF NotifyInv, HandsOff, BusyHoldsMessage
<1>2. EachHasItsOwn'
    BY DEF NotifyInv, HandsOff, EachHasItsOwn, BusyHoldsMessage
<1>3. AllowedIfCanSend' /\ OptOutWins'
    BY DEF NotifyInv, HandsOff, AllowedIfCanSend, OptOutWins, CanSend
<1> QED
    BY <1>1, <1>2, <1>3 DEF NotifyInv

\* No row is queued and no worker holds one.
LEMMA NotifyInitially == NotifyInit => NotifyInv
<1> SUFFICES ASSUME NotifyInit PROVE NotifyInv
    OBVIOUS
<1> USE NotificationAssumption, NoMessageAssumption
<1>1. NotifyTypeOK
  <2>1. Resting \in NotifierStates
      BY DEF Resting, NotifierStates
  <2>2. outbox \in [Messages -> [st : MessageStatuses, attempts : Nat, max : Nat]]
      BY DEF NotifyInit, MessageStatuses
  <2>3. subs \in [Alerts -> [st : {"none", "pending", "active", "notified", "unsubscribed"},
                             token : 0..MaxSignUps, baseline : 0..TopPrice, low : 0..TopPrice]]
      BY DEF NotifyInit
  <2>4. price \in 1..TopPrice /\ notifiers \in [Notifier -> NotifierStates]
      BY <2>1 DEF NotifyInit
  <2>5. consents \subseteq Purposes /\ mailed \subseteq Messages /\ abandoned \subseteq Messages
      BY DEF NotifyInit
  <2>6. {signUps, choices, notifyFaults} \subseteq Nat
      BY DEF NotifyInit
  <2>7. suppressed \in BOOLEAN
      BY DEF NotifyInit
  <2> QED
      BY <2>2, <2>3, <2>4, <2>5, <2>6, <2>7 DEF NotifyTypeOK
<1>2. BusyHoldsMessage /\ EachHasItsOwn /\ AllowedIfCanSend /\ OptOutWins
    BY DEF NotifyInit, Resting, BusyHoldsMessage, EachHasItsOwn, AllowedIfCanSend, OptOutWins
<1> QED
    BY <1>1, <1>2 DEF NotifyInv

\* grantConsent allows every worker whose row it covers, and changes nothing else of it.
LEMMA GrantHandsOff ==
    ASSUME NotifyTypeOK, BusyHoldsMessage, NEW p \in Purposes, Grant(p)
    PROVE  /\ consents' \subseteq Purposes /\ suppressed' \in BOOLEAN
           /\ notifiers' \in [Notifier -> NotifierStates]
           /\ \A w \in Notifier :
                 /\ notifiers'[w].pc = notifiers[w].pc /\ notifiers'[w].m = notifiers[w].m
                 /\ notifiers[w].pc = "idle" => notifiers'[w] = notifiers[w]
                 /\ notifiers[w].allowed => notifiers'[w].allowed
                 /\ notifiers[w].pc # "idle" /\ ~suppressed' /\ notifiers[w].m.event \in consents'
                      => notifiers'[w].allowed
<1>1. consents' \subseteq Purposes /\ suppressed' \in BOOLEAN
    BY DEF Grant, NotifyTypeOK
<1> DEFINE now(w) == notifiers[w].allowed \/ (/\ notifiers[w].pc # "idle" /\ ~suppressed'
                                             /\ notifiers[w].m.event \in consents')
<1>2. ASSUME NEW w \in Notifier
      PROVE  /\ notifiers'[w] = [notifiers[w] EXCEPT !.allowed = now(w)]
             /\ notifiers[w] \in NotifierStates
    BY DEF Grant, NotifyTypeOK, NotifierStates
<1>3. ASSUME NEW w \in Notifier PROVE now(w) \in BOOLEAN
    BY <1>2 DEF NotifierStates
<1> HIDE DEF now
<1>4. ASSUME NEW w \in Notifier
      PROVE  /\ notifiers'[w] \in NotifierStates /\ notifiers'[w].allowed = now(w)
             /\ notifiers'[w].pc = notifiers[w].pc /\ notifiers'[w].m = notifiers[w].m
             /\ now(w) = notifiers[w].allowed => notifiers'[w] = notifiers[w]
  <2> DEFINE s == notifiers[w]
             b == now(w)
  <2>1. s \in NotifierStates /\ b \in BOOLEAN /\ notifiers'[w] = [s EXCEPT !.allowed = b]
      BY <1>2, <1>3
  <2> HIDE DEF s, b
  <2>2. /\ [s EXCEPT !.allowed = b] \in NotifierStates /\ [s EXCEPT !.allowed = b].allowed = b
        /\ [s EXCEPT !.allowed = b].pc = s.pc /\ [s EXCEPT !.allowed = b].m = s.m
        /\ b = s.allowed => [s EXCEPT !.allowed = b] = s
      BY <2>1 DEF NotifierStates
  <2> QED
      BY <2>1, <2>2 DEF s, b
<1>5. notifiers' \in [Notifier -> NotifierStates]
  <2>1. notifiers' = [w \in Notifier |-> notifiers'[w]]
      BY DEF Grant
  <2> QED
      BY <2>1, <1>4
<1>6. ASSUME NEW w \in Notifier, notifiers[w].pc = "idle" PROVE notifiers'[w] = notifiers[w]
  <2>1. now(w) = notifiers[w].allowed
      BY <1>2, <1>6 DEF now, NotifierStates
  <2> QED
      BY <2>1, <1>4
<1> QED
    BY <1>1, <1>4, <1>5, <1>6 DEF now

\* cancelPendingOutbox leaves rows that are processing alone.
LEMMA CancelledHandsOff ==
    ASSUME NotifyTypeOK, NEW ms
    PROVE  /\ Cancelled(ms) \in [Messages -> [st : MessageStatuses, attempts : Nat, max : Nat]]
           /\ \A m \in Messages :
                 Cancelled(ms)[m].st = "processing" <=> outbox[m].st = "processing"
    BY DEF Cancelled, NotifyTypeOK, MessageStatuses

\* So does enqueue.
LEMMA EnqueuedHandsOff ==
    ASSUME NotifyTypeOK, NEW m
    PROVE  /\ Enqueued(m) \in [Messages -> [st : MessageStatuses, attempts : Nat, max : Nat]]
           /\ \A n \in Messages :
                 Enqueued(m)[n].st = "processing" <=> outbox[n].st = "processing"
    BY NotificationAssumption DEF Enqueued, NotifyTypeOK, MessageStatuses, Unsent

\* A step that changes nothing.
LEMMA NotifyStays == ASSUME NotifyInv, UNCHANGED notifyVars PROVE NotifyInv'
    BY DEF NotifyInv, notifyVars, recipientVars, NotifyTypeOK, BusyHoldsMessage, EachHasItsOwn,
           AllowedIfCanSend, OptOutWins, CanSend
\* Rows of notification_subscriptions.
SubRow == [st : {"none", "pending", "active", "notified", "unsubscribed"},
           token : 0..MaxSignUps, baseline : 0..TopPrice, low : 0..TopPrice]

\* createSubscription leaves well-typed subscriptions.
LEMMA UpsertedType ==
    ASSUME NotifyTypeOK, NEW a \in Alerts, NEW st \in {"active", "pending"},
           NEW t \in 0..MaxSignUps
    PROVE  Upserted(a, st, t) \in [Alerts -> SubRow]
<1>1. subs \in [Alerts -> SubRow] /\ price \in 0..TopPrice /\ 0 \in 0..TopPrice
    BY NotificationAssumption DEF NotifyTypeOK, SubRow
<1>2. [st |-> st, token |-> t, baseline |-> price, low |-> 0] \in SubRow
    BY <1>1 DEF SubRow
<1>3. [subs[a] EXCEPT !.st = st] \in SubRow
    BY <1>1 DEF SubRow
<1> QED
    BY <1>1, <1>2, <1>3 DEF Upserted

\* Sign-ups, confirmations, preferences, opt-outs and cancellations.
LEMMA RecipientSteps ==
    ASSUME NotifyInv,
           \/ \E a \in Alerts :
                \/ SubscribeAccount(a) \/ SubscribeGuest(a) \/ CancelSubscription(a)
                \/ ConsumeUnsubscribeToken(a)
                \/ \E t \in 1..MaxSignUps : ConfirmSubscription(a, t)
           \/ \E p \in Purposes : GrantPurpose(p) \/ RevokePurpose(p)
           \/ OptOutAll
    PROVE  NotifyInv'
<1> USE NotificationAssumption
<1>t. NotifyTypeOK /\ BusyHoldsMessage
    BY DEF NotifyInv
<1>a. Alerts \subseteq Purposes
    BY DEF Purposes
<1>1. ASSUME NEW a \in Alerts, SubscribeAccount(a) PROVE NotifyInv'
  <2>1. subs' \in [Alerts -> SubRow]
      BY <1>1, <1>t, UpsertedType DEF SubscribeAccount
  <2>2. Grant(a) /\ choices' \in Nat
      BY <1>1, <1>t DEF SubscribeAccount, Choose, NotifyTypeOK
  <2>3. NotifyTypeOK'
      BY <1>1, <1>a, <1>t, <2>1, <2>2, GrantHandsOff DEF SubscribeAccount, NotifyTypeOK, SubRow
  <2>4. HandsOff
      BY <1>1, <1>a, <1>t, <2>2, GrantHandsOff DEF SubscribeAccount, NotifyTypeOK, HandsOff
  <2> QED
      BY <2>3, <2>4, HandsOffKeeps
<1>2. ASSUME NEW a \in Alerts, SubscribeGuest(a) PROVE NotifyInv'
  <2>1. signUps' \in 0..MaxSignUps /\ choices' \in Nat
      BY <1>2, <1>t DEF SubscribeGuest, Choose, NotifyTypeOK
  <2>2. subs' \in [Alerts -> SubRow]
      BY <1>2, <1>t, <2>1, UpsertedType DEF SubscribeGuest
  <2>3. /\ outbox' \in [Messages -> [st : MessageStatuses, attempts : Nat, max : Nat]]
        /\ \A n \in Messages : outbox'[n].st = "processing" <=> outbox[n].st = "processing"
    <3>1. outbox' = Enqueued(OptIn(a, signUps')) \/ outbox' = outbox
        BY <1>2 DEF SubscribeGuest
    <3> QED
        BY <3>1, <1>t, EnqueuedHandsOff DEF NotifyTypeOK
  <2>4. NotifyTypeOK'
      BY <1>2, <1>t, <2>1, <2>2, <2>3 DEF SubscribeGuest, NotifyTypeOK, SubRow
  <2>5. HandsOff
      BY <1>2, <1>t, <2>3 DEF SubscribeGuest, NotifyTypeOK, HandsOff, CanSend
  <2> QED
      BY <2>4, <2>5, HandsOffKeeps
<1>3. ASSUME NEW a \in Alerts, NEW t \in 1..MaxSignUps, ConfirmSubscription(a, t)
      PROVE  NotifyInv'
  <2>1. subs' \in [Alerts -> SubRow]
      BY <1>3, <1>t DEF ConfirmSubscription, NotifyTypeOK, SubRow
  <2>2. Grant(a) /\ choices' \in Nat
      BY <1>3, <1>t DEF ConfirmSubscription, Choose, NotifyTypeOK
  <2>3. NotifyTypeOK'
      BY <1>3, <1>a, <1>t, <2>1, <2>2, GrantHandsOff DEF ConfirmSubscription, NotifyTypeOK, SubRow
  <2>4. HandsOff
      BY <1>3, <1>a, <1>t, <2>2, GrantHandsOff DEF ConfirmSubscription, NotifyTypeOK, HandsOff
  <2> QED
      BY <2>3, <2>4, HandsOffKeeps
<1>4. ASSUME NEW p \in Purposes, GrantPurpose(p) PROVE NotifyInv'
  <2>2. Grant(p) /\ choices' \in Nat
      BY <1>4, <1>t DEF GrantPurpose, Choose, NotifyTypeOK
  <2>3. NotifyTypeOK'
      BY <1>4, <1>t, <2>2, GrantHandsOff DEF GrantPurpose, NotifyTypeOK
  <2>4. HandsOff
      BY <1>4, <1>t, <2>2, GrantHandsOff DEF GrantPurpose, NotifyTypeOK, HandsOff
  <2> QED
      BY <2>3, <2>4, HandsOffKeeps
<1>5. ASSUME NEW a \in Alerts, CancelSubscription(a) PROVE NotifyInv'
  <2>1. subs' \in [Alerts -> SubRow] /\ choices' \in Nat
      BY <1>5, <1>t DEF CancelSubscription, Choose, NotifyTypeOK, SubRow
  <2>2. PICK ms : outbox' = Cancelled(ms)
      BY <1>5 DEF CancelSubscription
  <2>3. NotifyTypeOK'
      BY <1>5, <1>t, <2>1, <2>2, CancelledHandsOff DEF CancelSubscription, NotifyTypeOK, SubRow
  <2>4. HandsOff
      BY <1>5, <1>t, <2>2, CancelledHandsOff
         DEF CancelSubscription, NotifyTypeOK, HandsOff, CanSend
  <2> QED
      BY <2>3, <2>4, HandsOffKeeps
<1>6. ASSUME SuppressChannel, notifiers' = notifiers, abandoned' = abandoned, choices' \in Nat,
             subs' \in [Alerts -> SubRow],
             UNCHANGED <<price, signUps, mailed, notifyFaults>>
      PROVE  NotifyInv'
  <2>3. NotifyTypeOK'
      BY <1>6, <1>t, CancelledHandsOff DEF SuppressChannel, NotifyTypeOK, SubRow
  <2>4. HandsOff
      BY <1>6, <1>t, CancelledHandsOff DEF SuppressChannel, NotifyTypeOK, HandsOff
  <2> QED
      BY <2>3, <2>4, HandsOffKeeps
<1>7. ASSUME NEW a \in Alerts, ConsumeUnsubscribeToken(a) PROVE NotifyInv'
  <2>1. subs' \in [Alerts -> SubRow] /\ choices' \in Nat
      BY <1>7, <1>t DEF ConsumeUnsubscribeToken, Choose, NotifyTypeOK, SubRow
  <2> QED
      BY <1>6, <1>7, <2>1 DEF ConsumeUnsubscribeToken
<1>8. ASSUME OptOutAll PROVE NotifyInv'
  <2>1. subs' \in [Alerts -> SubRow] /\ choices' \in Nat
      BY <1>8, <1>t DEF OptOutAll, Choose, NotifyTypeOK, SubRow
  <2> QED
      BY <1>6, <1>8, <2>1 DEF OptOutAll
<1>9. ASSUME NEW p \in Purposes, RevokePurpose(p) PROVE NotifyInv'
  <2>1. choices' \in Nat /\ consents' \subseteq consents
      BY <1>9, <1>t DEF RevokePurpose, Choose, NotifyTypeOK
  <2>2. PICK ms : outbox' = Cancelled(ms)
      BY <1>9 DEF RevokePurpose
  <2>3. NotifyTypeOK'
      BY <1>9, <1>t, <2>1, <2>2, CancelledHandsOff DEF RevokePurpose, NotifyTypeOK
  <2>4. HandsOff
      BY <1>9, <1>t, <2>1, <2>2, CancelledHandsOff
         DEF RevokePurpose, NotifyTypeOK, HandsOff, CanSend
  <2> QED
      BY <2>3, <2>4, HandsOffKeeps
<1> QED
    BY <1>1, <1>2, <1>3, <1>4, <1>5, <1>7, <1>8, <1>9

\* Restocks, price changes and manual retries.
LEMMA CatalogueSteps ==
    ASSUME NotifyInv,
           \/ TriggerBackInStock
           \/ \E new \in 1..TopPrice : ChangePrice(new)
           \/ \E m \in Messages : RetryOutbox(m)
    PROVE  NotifyInv'
<1> USE NotificationAssumption
<1>t. NotifyTypeOK
    BY DEF NotifyInv
<1>1. ASSUME TriggerBackInStock PROVE NotifyInv'
  <2>1. subs' \in [Alerts -> SubRow]
      BY <1>1, <1>t DEF TriggerBackInStock, NotifyTypeOK, SubRow
  <2>2. PICK m : outbox' = Enqueued(m)
      BY <1>1 DEF TriggerBackInStock
  <2>3. NotifyTypeOK'
      BY <1>1, <1>t, <2>1, <2>2, EnqueuedHandsOff DEF TriggerBackInStock, NotifyTypeOK, SubRow
  <2>4. HandsOff
      BY <1>1, <1>t, <2>2, EnqueuedHandsOff DEF TriggerBackInStock, NotifyTypeOK, HandsOff, CanSend
  <2> QED
      BY <2>3, <2>4, HandsOffKeeps
<1>2. ASSUME NEW new \in 1..TopPrice, ChangePrice(new) PROVE NotifyInv'
  <2>1. subs' \in [Alerts -> SubRow] /\ price' \in 1..TopPrice
      BY <1>2, <1>t DEF ChangePrice, NotifyTypeOK, SubRow
  <2>2. /\ outbox' \in [Messages -> [st : MessageStatuses, attempts : Nat, max : Nat]]
        /\ \A n \in Messages : outbox'[n].st = "processing" <=> outbox[n].st = "processing"
    <3>1. outbox' = outbox \/ \E m : outbox' = Enqueued(m)
        BY <1>2 DEF ChangePrice
    <3> QED
        BY <3>1, <1>t, EnqueuedHandsOff DEF NotifyTypeOK
  <2>3. NotifyTypeOK'
      BY <1>2, <1>t, <2>1, <2>2 DEF ChangePrice, NotifyTypeOK, SubRow
  <2>4. HandsOff
      BY <1>2, <1>t, <2>2 DEF ChangePrice, NotifyTypeOK, HandsOff, CanSend
  <2> QED
      BY <2>3, <2>4, HandsOffKeeps
<1>3. ASSUME NEW m \in Messages, RetryOutbox(m) PROVE NotifyInv'
  <2>1. choices' \in Nat
      BY <1>3, <1>t DEF RetryOutbox, Choose, NotifyTypeOK
  <2>2. /\ outbox' \in [Messages -> [st : MessageStatuses, attempts : Nat, max : Nat]]
        /\ \A n \in Messages : outbox'[n].st = "processing" <=> outbox[n].st = "processing"
    <3>1. /\ outbox[m].attempts \in Nat /\ outbox[m].max \in Nat
          /\ outbox[m].st # "processing"
        BY <1>3, <1>t DEF RetryOutbox, NotifyTypeOK
    <3> DEFINE max == IF outbox[m].max > outbox[m].attempts + NotifyRetry THEN outbox[m].max
                      ELSE outbox[m].attempts + NotifyRetry
    <3>2. /\ outbox' = [outbox EXCEPT ![m].st = "pending", ![m].max = max]
          /\ max \in Nat
        BY <1>3, <3>1, <1>t DEF RetryOutbox, NotifyTypeOK
    <3> HIDE DEF max
    <3> QED
        BY <3>1, <3>2, <1>t DEF NotifyTypeOK, MessageStatuses
  <2>3. NotifyTypeOK'
      BY <1>3, <1>t, <2>1, <2>2 DEF RetryOutbox, recipientVars, NotifyTypeOK
  <2>4. HandsOff
      BY <1>3, <1>t, <2>2 DEF RetryOutbox, recipientVars, NotifyTypeOK, HandsOff, CanSend
  <2> QED
      BY <2>3, <2>4, HandsOffKeeps
<1> QED
    BY <1>1, <1>2, <1>3

\* A worker that keeps its row.
LEMMA WorkerGoesOn ==
    ASSUME NotifyInv, NEW w \in Notifier, notifiers[w].pc # "idle",
           NEW r \in NotifierStates, r.pc # "idle",
           r.m = notifiers[w].m, r.allowed = notifiers[w].allowed,
           r.pc \in {"sending", "recording"} => IsOptIn(r.m) \/ r.allowed,
           notifiers' = [notifiers EXCEPT ![w] = r],
           mailed' \subseteq Messages, notifyFaults' \in Nat,
           UNCHANGED <<recipientVars, outbox, choices, abandoned>>
    PROVE  NotifyInv'
<1> USE DEF NotifyInv
<1>1. NotifyTypeOK'
    BY DEF NotifyTypeOK, recipientVars
<1>2. BusyHoldsMessage'
    BY DEF BusyHoldsMessage, NotifyTypeOK
<1>3. EachHasItsOwn'
    BY DEF EachHasItsOwn, NotifyTypeOK
<1>4. AllowedIfCanSend'
    BY DEF AllowedIfCanSend, NotifyTypeOK, CanSend, recipientVars
<1>5. OptOutWins'
    BY DEF OptOutWins, NotifyTypeOK
<1> QED
    BY <1>1, <1>2, <1>3, <1>4, <1>5

\* A worker that finishes its row, puts it back, or dies with it.
LEMMA WorkerLetsGo ==
    ASSUME NotifyInv, NEW w \in Notifier, notifiers[w].pc # "idle",
           notifiers' = [notifiers EXCEPT ![w] = Resting],
           \/ /\ \E st \in {"sent", "failed", "dead"} :
                    outbox' = [outbox EXCEPT ![notifiers[w].m].st = st]
              /\ UNCHANGED abandoned
           \/ /\ UNCHANGED outbox
              /\ abandoned' = abandoned \cup {notifiers[w].m},
           notifyFaults' \in Nat, UNCHANGED <<recipientVars, mailed, choices>>
    PROVE  NotifyInv'
<1> USE DEF NotifyInv
<1> DEFINE m == notifiers[w].m
<1>1. /\ m \in Messages /\ Resting \in NotifierStates
      /\ Resting.pc = "idle" /\ Resting.m = NoMessage
    BY DEF BusyHoldsMessage, Resting, NotifierStates
<1>2. NotifyTypeOK'
  <2>1. outbox' \in [Messages -> [st : MessageStatuses, attempts : Nat, max : Nat]]
      BY <1>1 DEF NotifyTypeOK, MessageStatuses
  <2>2. abandoned' \subseteq Messages
      BY <1>1 DEF NotifyTypeOK
  <2> QED
      BY <1>1, <2>1, <2>2 DEF NotifyTypeOK, recipientVars
<1>3. BusyHoldsMessage'
    BY <1>1 DEF BusyHoldsMessage, NotifyTypeOK
<1>4. EachHasItsOwn'
  <2>1. notifiers'[w] = Resting /\ \A v \in Notifier \ {w} : notifiers'[v] = notifiers[v]
      BY DEF NotifyTypeOK
  <2>2. \A v \in Notifier \ {w} : notifiers[v].m # m
      BY DEF EachHasItsOwn
  <2>3. \A n \in Messages \ {m} : outbox'[n] = outbox[n]
      BY <1>1 DEF NotifyTypeOK
  <2>4. m \in abandoned' \/ outbox'[m].st # "processing"
      BY <1>1 DEF NotifyTypeOK
  <2>5. abandoned \subseteq abandoned'
      OBVIOUS
  <2>6. \A u, v \in Notifier :
          notifiers'[v].pc # "idle" /\ notifiers'[u].m = notifiers'[v].m => v = u
      BY <1>1, <2>1, NoMessageAssumption DEF EachHasItsOwn, BusyHoldsMessage
  <2>7. \A v \in Notifier : notifiers'[v].pc # "idle" => outbox'[notifiers'[v].m].st = "processing"
    <3> SUFFICES ASSUME NEW v \in Notifier, notifiers'[v].pc # "idle"
                 PROVE  outbox'[notifiers'[v].m].st = "processing"
        OBVIOUS
    <3>1. v # w /\ notifiers'[v] = notifiers[v]
        BY <1>1, <2>1
    <3>2. notifiers[v].m \in Messages \ {m} /\ outbox[notifiers[v].m].st = "processing"
        BY <2>2, <3>1 DEF EachHasItsOwn, BusyHoldsMessage
    <3> QED
        BY <2>3, <3>1, <3>2
  <2>8. \A n \in Messages : outbox'[n].st = "processing" =>
          n \in abandoned' \/ \E v \in Notifier : notifiers'[v].m = n
    <3> SUFFICES ASSUME NEW n \in Messages \ {m}, outbox'[n].st = "processing", n \notin abandoned'
                 PROVE  \E v \in Notifier : notifiers'[v].m = n
        BY <2>4
    <3>1. PICK v \in Notifier : notifiers[v].m = n
        BY <2>3, <2>5 DEF EachHasItsOwn
    <3> QED
        BY <3>1, <2>1
  <2> HIDE DEF m
  <2> QED
      BY <2>6, <2>7, <2>8 DEF EachHasItsOwn
<1>5. AllowedIfCanSend'
    BY <1>1 DEF AllowedIfCanSend, NotifyTypeOK, CanSend, recipientVars
<1>6. OptOutWins'
    BY <1>1 DEF OptOutWins, NotifyTypeOK
<1> QED
    BY <1>2, <1>3, <1>4, <1>5, <1>6

\* All of worker.js.
LEMMA WorkerSteps ==
    ASSUME NotifyInv, NEW w \in Notifier,
           \/ \E m \in Messages : ClaimMessage(w, m)
           \/ NotifierStep(w) \/ NotifyError(w) \/ NotifierCrash(w)
    PROVE  NotifyInv'
<1>t. NotifyTypeOK /\ BusyHoldsMessage
    BY DEF NotifyInv
<1>f. notifyFaults \in Nat /\ notifiers[w] \in NotifierStates /\ mailed \subseteq Messages
    BY <1>t DEF NotifyTypeOK
<1>1. ASSUME NEW m \in Messages, ClaimMessage(w, m) PROVE NotifyInv'
  <2> DEFINE r == [pc |-> "claimed", m |-> m, result |-> "sent", allowed |-> CanSend(m)]
  <2>1. /\ notifiers' = [notifiers EXCEPT ![w] = r]
        /\ outbox' = [outbox EXCEPT ![m].st = "processing", ![m].attempts = @ + 1]
        /\ outbox[m].st # "processing" /\ notifiers[w].pc = "idle"
        /\ UNCHANGED <<recipientVars, mailed, choices, notifyFaults, abandoned>>
      BY <1>1 DEF ClaimMessage
  <2>2. CanSend(m) \in BOOLEAN
      BY <1>t DEF CanSend, NotifyTypeOK
  <2>3. /\ r \in NotifierStates /\ r.pc = "claimed" /\ r.m = m
        /\ r.allowed <=> CanSend(m)
      BY <2>2 DEF NotifierStates
  <2> HIDE DEF r
  <2>4. \A v \in Notifier : notifiers[v].m # m
    <3>1. \A v \in Notifier : notifiers[v].pc # "idle" => notifiers[v].m # m
        BY <2>1 DEF NotifyInv, EachHasItsOwn
    <3> QED
        BY <3>1, <1>t, NoMessageAssumption DEF BusyHoldsMessage, Resting
  <2>5. NotifyTypeOK'
    <3>1. outbox' \in [Messages -> [st : MessageStatuses, attempts : Nat, max : Nat]]
        BY <1>t, <2>1 DEF NotifyTypeOK, MessageStatuses
    <3> QED
        BY <1>t, <2>1, <2>3, <3>1 DEF NotifyTypeOK, recipientVars
  <2>6. BusyHoldsMessage'
      BY <1>t, <2>1, <2>3 DEF BusyHoldsMessage, NotifyTypeOK
  <2>7. EachHasItsOwn'
      BY <1>t, <2>1, <2>3, <2>4 DEF NotifyInv, EachHasItsOwn, BusyHoldsMessage, NotifyTypeOK
  <2>8. AllowedIfCanSend'
      BY <1>t, <2>1, <2>3 DEF NotifyInv, AllowedIfCanSend, NotifyTypeOK, CanSend, recipientVars
  <2>9. OptOutWins'
      BY <1>t, <2>1, <2>3 DEF NotifyInv, OptOutWins, NotifyTypeOK
  <2> QED
      BY <2>5, <2>6, <2>7, <2>8, <2>9 DEF NotifyInv
<1>2. ASSUME CheckConsent(w) PROVE NotifyInv'
  <2>1. CASE CanSend(notifiers[w].m)
    <3> DEFINE r == [notifiers[w] EXCEPT !.pc = "sending"]
    <3>1. /\ notifiers' = [notifiers EXCEPT ![w] = r]
          /\ UNCHANGED <<recipientVars, outbox, mailed, choices, notifyFaults, abandoned>>
          /\ notifiers[w].pc # "idle"
        BY <1>2, <2>1, <1>f DEF CheckConsent, Hold, NotifierStates
    <3>2. r \in NotifierStates /\ r.pc = "sending" /\ r.m = notifiers[w].m
          /\ r.allowed = notifiers[w].allowed
        BY <1>f DEF NotifierStates
    <3>3. IsOptIn(r.m) \/ r.allowed
        BY <2>1, <3>1, <3>2 DEF NotifyInv, AllowedIfCanSend
    <3> HIDE DEF r
    <3> QED
        BY <1>f, <3>1, <3>2, <3>3, WorkerGoesOn
  <2>2. CASE ~CanSend(notifiers[w].m)
      BY <1>2, <2>2, <1>f, WorkerLetsGo DEF CheckConsent, Release
  <2> QED
      BY <2>1, <2>2
<1>3. ASSUME SendMessage(w) PROVE NotifyInv'
  <2>1. PICK result \in {"sent", "temporary", "permanent"} :
          /\ notifiers' = [notifiers EXCEPT ![w].pc = "recording", ![w].result = result]
          /\ mailed' = mailed \cup (IF result = "sent" THEN {notifiers[w].m} ELSE {})
      BY <1>3 DEF SendMessage
  <2> DEFINE r == [notifiers[w] EXCEPT !.pc = "recording", !.result = result]
  <2>2. notifiers' = [notifiers EXCEPT ![w] = r]
      BY <2>1, <1>f DEF NotifierStates
  <2>3. /\ r \in NotifierStates /\ r.pc = "recording" /\ r.m = notifiers[w].m
        /\ r.allowed = notifiers[w].allowed
      BY <1>f DEF NotifierStates
  <2>4. notifiers[w].pc = "sending" /\ notifiers[w].m \in Messages
      BY <1>3, <1>t DEF SendMessage, BusyHoldsMessage
  <2>5. IsOptIn(r.m) \/ r.allowed
      BY <2>3, <2>4 DEF NotifyInv, OptOutWins
  <2>6. mailed' \subseteq Messages
      BY <2>1, <2>4, <1>f
  <2> HIDE DEF r
  <2> QED
      BY <1>3, <1>f, <2>2, <2>3, <2>4, <2>5, <2>6, WorkerGoesOn DEF SendMessage
<1>4. ASSUME FinalizeOutbox(w) \/ RequeueMessage(w) PROVE NotifyInv'
    BY <1>4, <1>f, WorkerLetsGo DEF FinalizeOutbox, RequeueMessage, Release
<1>5. ASSUME NotifyError(w) PROVE NotifyInv'
  <2> DEFINE r == [notifiers[w] EXCEPT !.pc = "failing"]
  <2>1. /\ notifiers' = [notifiers EXCEPT ![w] = r] /\ notifyFaults' \in Nat
        /\ notifiers[w].pc # "idle"
      BY <1>5, <1>f DEF NotifyError, Hold, NotifierStates
  <2>2. /\ r \in NotifierStates /\ r.pc = "failing" /\ r.m = notifiers[w].m
        /\ r.allowed = notifiers[w].allowed
      BY <1>f DEF NotifierStates
  <2> HIDE DEF r
  <2> QED
      BY <1>5, <1>f, <2>1, <2>2, WorkerGoesOn DEF NotifyError
<1>6. ASSUME NotifierCrash(w) PROVE NotifyInv'
  <2>1. notifyFaults' \in Nat /\ notifiers[w].pc # "idle"
      BY <1>6, <1>f DEF NotifierCrash
  <2> QED
      BY <1>6, <2>1, WorkerLetsGo DEF NotifierCrash, Release
<1> QED
    BY <1>1, <1>2, <1>3, <1>4, <1>5, <1>6 DEF NotifierStep

\* The invariant of Notifications holds throughout.
LEMMA NotifyInductive == NotifySpec => []NotifyInv
<1>1. NotifyInv /\ [NotifyNext]_notifyVars => NotifyInv'
    BY RecipientSteps, CatalogueSteps, WorkerSteps, NotifyStays DEF NotifyNext
<1> QED
    BY <1>1, NotifyInitially, PTL DEF NotifySpec

\* An opt-out that was committed before a worker claimed a row is respected by that worker
\* (worker.js), whatever errors, crashes and manual retries there are.
THEOREM OptOutWinsHolds == NotifySpec => []OptOutWins
<1>1. NotifyInv => OptOutWins
    BY DEF NotifyInv
<1> QED
    BY <1>1, NotifyInductive, PTL

\* A row is in the hands of one worker and says so, until the worker is done or dies.
LEMMA CustodyFromInv == NotifyInv => NotifyCustody
<1> SUFFICES ASSUME NotifyInv, NEW m \in Messages
             PROVE  LET holders == {w \in Notifier : notifiers[w].m = m}
                    IN /\ Cardinality(holders) <= 1
                       /\ holders # {} => outbox[m].st = "processing"
                       /\ outbox[m].st = "processing" => holders # {} \/ m \in abandoned
    BY DEF NotifyCustody
<1> DEFINE holders == {w \in Notifier : notifiers[w].m = m}
<1>1. \A w \in holders : notifiers[w].pc # "idle"
    BY NoMessageAssumption DEF NotifyInv, BusyHoldsMessage, Resting
<1>2. \A v, w \in holders : v = w
    BY <1>1 DEF NotifyInv, EachHasItsOwn
<1>3. Cardinality(holders) <= 1
  <2>1. CASE holders = {}
      BY <2>1, FS_EmptySet
  <2>2. CASE holders # {}
    <3>1. PICK w : w \in holders
        BY <2>2
    <3>2. holders = {w}
        BY <1>2, <3>1
    <3> HIDE DEF holders
    <3>3. Cardinality(holders) = 1
        BY <3>2, FS_Singleton
    <3> QED
        BY <3>3
  <2> QED
      BY <2>1, <2>2
<1> QED
    BY <1>1, <1>3 DEF NotifyInv, EachHasItsOwn

-----------------------------------------------------------------------------
(* Order mails *)

\* A mailer with a result has a mail it belongs to.
ResultHasMail == \A w \in Mailer : mailers[w].result # "none" => mailers[w].batch # {}

\* The mailers that may still send mail m: it is in their batch, and has not gone out from there.
Senders(m) ==
    {w \in Mailer : /\ m \in mailers[w].batch
                    /\ ~(mailers[w].result = "sent" /\ m = Min(mailers[w].batch))}

\* A row that will be claimed without an excuse.
Waits(m) == IF mails[m] \in {"none", "pending", "failed"} THEN 1 ELSE 0

\* What went out, may still go out and will be claimed is covered by the excuses.
Covered(m) == copies[m] + Cardinality(Senders(m)) + Waits(m) <= 1 + excused[m]

MailInv == MailTypeOK /\ ResultHasMail /\ SentStays /\ \A m \in Mail : Covered(m)

\* How the number of senders may move.
LEMMA SendersMove ==
    ASSUME IsFiniteSet(Mailer), NEW S \in SUBSET Mailer, NEW T \in SUBSET Mailer, NEW w
    PROVE  /\ Cardinality(S) \in Nat /\ Cardinality(T) \in Nat
           /\ T \subseteq S => Cardinality(T) <= Cardinality(S)
           /\ T \subseteq S \cup {w} => Cardinality(T) <= Cardinality(S) + 1
           /\ w \in S /\ T \subseteq S \ {w} => Cardinality(T) + 1 <= Cardinality(S)
<1>1. /\ IsFiniteSet(S) /\ IsFiniteSet(T) /\ IsFiniteSet(S \cup {w}) /\ IsFiniteSet(S \ {w})
      /\ Cardinality(S) \in Nat /\ Cardinality(T) \in Nat
    BY FS_Subset, FS_CardinalityType, FS_AddElement, FS_RemoveElement
<1>2. /\ Cardinality(S \cup {w}) <= Cardinality(S) + 1
      /\ w \in S => Cardinality(S \ {w}) = Cardinality(S) - 1
    BY <1>1, FS_AddElement, FS_RemoveElement
<1>3. Cardinality(S \cup {w}) \in Nat /\ Cardinality(S \ {w}) \in Nat
    BY <1>1, FS_CardinalityType
<1>4. /\ T \subseteq S => Cardinality(T) <= Cardinality(S)
      /\ T \subseteq S \cup {w} => Cardinality(T) <= Cardinality(S \cup {w})
      /\ T \subseteq S \ {w} => Cardinality(T) <= Cardinality(S \ {w})
    BY <1>1, FS_Subset
<1> QED
    BY <1>1, <1>2, <1>3, <1>4

\* The excuses still cover a mail when neither its copies nor its senders nor what waits grows.
LEMMA StillCovered ==
    ASSUME IsFiniteSet(Mailer), MailTypeOK, MailTypeOK', NEW m \in Mail, Covered(m),
           NEW w,
           \/ /\ Senders(m)' \subseteq Senders(m)
              /\ copies'[m] + Waits(m)' + excused[m] <= copies[m] + Waits(m) + excused'[m]
           \/ /\ Senders(m)' \subseteq Senders(m) \cup {w}
              /\ copies'[m] + Waits(m)' + 1 + excused[m] <= copies[m] + Waits(m) + excused'[m]
           \/ /\ w \in Senders(m) /\ Senders(m)' \subseteq Senders(m) \ {w}
              /\ copies'[m] + Waits(m)' + excused[m] <= copies[m] + Waits(m) + excused'[m] + 1
    PROVE  Covered(m)'
<1>1. Senders(m) \in SUBSET Mailer /\ Senders(m)' \in SUBSET Mailer
    BY DEF Senders
<1>2. /\ {copies[m], copies'[m], excused[m], excused'[m]} \subseteq Nat
      /\ {Waits(m), Waits(m)'} \subseteq Nat
    BY DEF MailTypeOK, Waits
<1>3. PICK S, T : S = Senders(m) /\ T = Senders(m)'
    OBVIOUS
<1>4. /\ Cardinality(S) \in Nat /\ Cardinality(T) \in Nat
      /\ T \subseteq S => Cardinality(T) <= Cardinality(S)
      /\ T \subseteq S \cup {w} => Cardinality(T) <= Cardinality(S) + 1
      /\ w \in S /\ T \subseteq S \ {w} => Cardinality(T) + 1 <= Cardinality(S)
    BY <1>1, <1>3, SendersMove
<1>5. copies[m] + Cardinality(S) + Waits(m) <= 1 + excused[m]
    BY <1>3 DEF Covered
<1>6. copies'[m] + Cardinality(T) + Waits(m)' <= 1 + excused'[m]
    BY <1>2, <1>3, <1>4, <1>5
<1> QED
    BY <1>3, <1>6 DEF Covered

\* The current mail of a batch is one of it.
LEMMA MinOfBatch ==
    ASSUME NEW S \in SUBSET Nat, S # {}
    PROVE  Min(S) \in S
<1>1. \E x \in S : \A y \in S : ~(<<y, x>> \in OpToRel(<, Nat))
    BY NatLessThanWellFounded, WFMin, Zenon
<1>2. PICK x \in S : \A y \in S : ~(y < x)
    BY <1>1 DEF OpToRel
<1>3. \E z \in S : \A y \in S : z <= y
    BY <1>2
<1> QED
    BY <1>3 DEF Min

\* A recorded mail is not processing, so neither a claim nor a late result touches it; a claim
\* finds no sender of a row that waits, or counts the row as an excuse.
LEMMA MailInductive == MailSpec => []MailInv
<1> USE MailAssumption
<1>1. MailInit => MailInv
  <2> SUFFICES ASSUME MailInit PROVE MailInv
      OBVIOUS
  <2>1. MailTypeOK /\ ResultHasMail /\ SentStays
      BY DEF MailInit, MailTypeOK, ResultHasMail, SentStays
  <2>2. \A m \in Mail : Senders(m) = {}
      BY DEF MailInit, Senders
  <2>3. \A m \in Mail : Covered(m)
      BY <2>2, FS_EmptySet DEF MailInit, Covered, Waits
  <2> QED
      BY <2>1, <2>3 DEF MailInv
<1>2. MailInv /\ [MailNext]_mailVars => MailInv'
  <2> SUFFICES ASSUME MailInv, [MailNext]_mailVars PROVE MailInv'
      OBVIOUS
  <2>t. /\ mails \in [Mail -> {"none", "pending", "processing", "sent", "failed"}]
        /\ mailers \in [Mailer -> [batch : SUBSET Mail, result : {"none", "sent", "failed"}]]
        /\ recorded \subseteq Mail /\ mailFaults \in 0..MaxMailFaults
        /\ copies \in [Mail -> Nat] /\ excused \in [Mail -> Nat]
        /\ MailTypeOK /\ ResultHasMail /\ SentStays /\ \A m \in Mail : Covered(m)
      BY DEF MailInv, MailTypeOK
  <2>f. MailFault => mailFaults' \in 0..MaxMailFaults
      BY <2>t DEF MailFault
  <2>1. ASSUME QueueMail PROVE MailInv'
    <3>1. PICK q \in Mail : /\ mails[q] = "none" /\ mails' = [mails EXCEPT ![q] = "pending"]
                            /\ UNCHANGED <<mailers, recorded, copies, excused, mailFaults>>
        BY <2>1 DEF QueueMail
    <3>2. MailTypeOK' /\ ResultHasMail' /\ SentStays'
        BY <2>t, <3>1 DEF MailTypeOK, ResultHasMail, SentStays
    <3>3. ASSUME NEW m \in Mail PROVE Covered(m)'
        <4>1. Senders(m)' = Senders(m) /\ Waits(m)' = Waits(m)
            BY <2>t, <3>1 DEF Senders, Waits
        <4> QED
            BY <2>t, <3>1, <4>1 DEF Covered
    <3> QED
        BY <3>2, <3>3 DEF MailInv
  <2>2. ASSUME NEW w \in Mailer, NEW due \in SUBSET Mail, ClaimMails(w, due) PROVE MailInv'
    <3>1. /\ due # {} /\ \A m \in due : mails[m] \in {"pending", "failed", "processing"}
          /\ mailers[w].batch = {}
          /\ mails' = [m \in Mail |-> IF m \in due THEN "processing" ELSE mails[m]]
          /\ mailers' = [mailers EXCEPT ![w].batch = due]
          /\ excused' = [m \in Mail |->
                IF m \in due /\ mails[m] = "processing" THEN excused[m] + 1 ELSE excused[m]]
          /\ UNCHANGED <<recorded, copies>>
        BY <2>2 DEF ClaimMails, DueMails, InStatus
    <3>2. mailFaults' \in 0..MaxMailFaults
        BY <2>2, <2>t, <2>f DEF ClaimMails, DueMails
    <3>3. MailTypeOK' /\ ResultHasMail' /\ SentStays'
        BY <2>t, <3>1, <3>2 DEF MailTypeOK, ResultHasMail, SentStays
    <3>4. ASSUME NEW m \in Mail PROVE Covered(m)'
        <4>1. mailers'[w].batch = due /\ \A v \in Mailer \ {w} : mailers'[v] = mailers[v]
            BY <2>t, <3>1
        <4>2. CASE m \in due
            <5>1. Senders(m)' \subseteq Senders(m) \cup {w}
                BY <4>1 DEF Senders
            <5>2. Waits(m)' + 1 + excused[m] <= Waits(m) + excused'[m]
                BY <2>t, <3>1, <4>2 DEF Waits
            <5>3. copies'[m] = copies[m] /\ {copies[m], excused[m], excused'[m]} \subseteq Nat
                BY <2>t, <3>1
            <5>4. copies'[m] + Waits(m)' + 1 + excused[m] <= copies[m] + Waits(m) + excused'[m]
                BY <5>2, <5>3 DEF Waits
            <5> QED
                BY <2>t, <3>3, <5>1, <5>4, StillCovered
        <4>3. CASE m \notin due
            <5>1. Senders(m)' \subseteq Senders(m)
                BY <4>1, <4>3 DEF Senders
            <5>2. copies'[m] + Waits(m)' + excused[m] <= copies[m] + Waits(m) + excused'[m]
                BY <2>t, <3>1, <4>3 DEF Waits
            <5> QED
                BY <2>t, <3>3, <5>1, <5>2, StillCovered
        <4> QED
            BY <4>2, <4>3
    <3> QED
        BY <3>3, <3>4 DEF MailInv
  <2>3. ASSUME NEW w \in Mailer, SendMail(w) PROVE MailInv'
    <3>1. PICK c : c = Min(mailers[w].batch)
        OBVIOUS
    <3>2. c \in Mail /\ c \in mailers[w].batch
      <4>1. mailers[w].batch \in SUBSET Nat /\ mailers[w].batch # {}
          BY <2>3, <2>t DEF SendMail, Mail
      <4> QED
          BY <2>t, <3>1, <4>1, MinOfBatch
    <3>3. PICK result \in {"sent", "failed"} :
          /\ mailers' = [mailers EXCEPT ![w].result = result] /\ mailers[w].result = "none"
          /\ \/ /\ result = "sent" /\ copies' = [copies EXCEPT ![c] = @ + 1]
                /\ UNCHANGED <<excused, mailFaults>>
             \/ result = "failed" /\ UNCHANGED <<copies, excused, mailFaults>>
             \/ /\ result = "failed" /\ copies' = [copies EXCEPT ![c] = @ + 1]
                /\ excused' = [excused EXCEPT ![c] = @ + 1] /\ MailFault
          /\ UNCHANGED <<mails, recorded>>
        BY <2>3, <3>1 DEF SendMail
    <3>4. MailTypeOK' /\ ResultHasMail' /\ SentStays'
        BY <2>t, <2>f, <3>2, <3>3 DEF MailTypeOK, ResultHasMail, SentStays
    <3>5. ASSUME NEW m \in Mail PROVE Covered(m)'
        <4>1. /\ mailers'[w].batch = mailers[w].batch /\ mailers'[w].result = result
              /\ \A v \in Mailer \ {w} : mailers'[v] = mailers[v]
            BY <2>t, <3>3
        <4>2. Senders(m)' \subseteq Senders(m) /\ Waits(m)' = Waits(m)
            BY <3>3, <4>1 DEF Senders, Waits
        <4>3. CASE m # c \/ result = "failed"
            <5>1. copies'[m] + Waits(m)' + excused[m] <= copies[m] + Waits(m) + excused'[m]
                BY <2>t, <3>2, <3>3, <4>2, <4>3 DEF Waits
            <5> QED
                BY <2>t, <3>4, <4>2, <5>1, StillCovered
        <4>4. CASE m = c /\ result = "sent"
            <5>1. w \in Senders(m) /\ Senders(m)' \subseteq Senders(m) \ {w}
                BY <3>1, <3>2, <3>3, <4>1, <4>2, <4>4 DEF Senders
            <5>2. copies'[m] + Waits(m)' + excused[m] <= copies[m] + Waits(m) + excused'[m] + 1
                BY <2>t, <3>2, <3>3, <4>2, <4>4 DEF Waits
            <5> QED
                BY <2>t, <3>4, <5>1, <5>2, StillCovered
        <4> QED
            BY <3>3, <4>3, <4>4
    <3> QED
        BY <3>4, <3>5 DEF MailInv
  <2>4. ASSUME NEW w \in Mailer, RecordMail(w) PROVE MailInv'
    <3>1. PICK c : c = Min(mailers[w].batch)
        OBVIOUS
    <3>2. c \in Mail /\ c \in mailers[w].batch
      <4>1. mailers[w].batch \in SUBSET Nat /\ mailers[w].batch # {}
          BY <2>4, <2>t DEF RecordMail, ResultHasMail, Mail
      <4> QED
          BY <2>t, <3>1, <4>1, MinOfBatch
    <3>3. /\ mailers' = [mailers EXCEPT ![w] = [batch |-> @.batch \ {c}, result |-> "none"]]
          /\ UNCHANGED <<copies, excused, mailFaults>>
          /\ \/ /\ mails[c] = "processing" /\ mails' = [mails EXCEPT ![c] = mailers[w].result]
                /\ recorded' = IF mailers[w].result = "sent" THEN recorded \cup {c} ELSE recorded
             \/ UNCHANGED <<mails, recorded>>
          /\ mailers[w].result \in {"sent", "failed"}
        BY <2>4, <2>t, <3>1 DEF RecordMail
    <3>4. /\ mailers' \in [Mailer -> [batch : SUBSET Mail, result : {"none", "sent", "failed"}]]
          /\ ResultHasMail'
        BY <2>t, <3>3 DEF ResultHasMail
    <3>5. MailTypeOK' /\ SentStays'
        BY <2>t, <3>2, <3>3, <3>4 DEF MailTypeOK, SentStays
    <3>6. ASSUME NEW m \in Mail PROVE Covered(m)'
        <4>1. /\ mailers'[w].batch = mailers[w].batch \ {c} /\ mailers'[w].result = "none"
              /\ \A v \in Mailer \ {w} : mailers'[v] = mailers[v]
            BY <2>t, <3>3
        <4>2. Senders(m)' \subseteq Senders(m)
            BY <3>1, <4>1 DEF Senders
        <4>3. copies'[m] = copies[m] /\ excused'[m] = excused[m]
              /\ {copies[m], excused[m]} \subseteq Nat
            BY <2>t, <3>3
        <4>4. CASE m = c /\ mails'[c] = "failed" /\ mailers[w].result = "failed"
            <5>1. w \in Senders(m) /\ Senders(m)' \subseteq Senders(m) \ {w}
                BY <3>2, <4>1, <4>2, <4>4 DEF Senders
            <5>2. copies'[m] + Waits(m)' + excused[m] <= copies[m] + Waits(m) + excused'[m] + 1
                BY <4>3 DEF Waits
            <5> QED
                BY <2>t, <3>5, <5>1, <5>2, StillCovered
        <4>5. CASE ~(m = c /\ mails'[c] = "failed" /\ mailers[w].result = "failed")
            <5>1. Waits(m)' <= Waits(m)
                BY <2>t, <3>2, <3>3, <4>5 DEF Waits
            <5>2. copies'[m] + Waits(m)' + excused[m] <= copies[m] + Waits(m) + excused'[m]
                BY <4>3, <5>1 DEF Waits
            <5> QED
                BY <2>t, <3>5, <4>2, <5>2, StillCovered
        <4> QED
            BY <4>4, <4>5
    <3> QED
        BY <3>4, <3>5, <3>6 DEF MailInv
  <2>5. ASSUME NEW w \in Mailer, MailerCrash(w) PROVE MailInv'
    <3>1. /\ mailers' = [mailers EXCEPT ![w] = [batch |-> {}, result |-> "none"]]
          /\ UNCHANGED <<mails, recorded, copies, excused>> /\ mailFaults' \in 0..MaxMailFaults
        BY <2>5, <2>f DEF MailerCrash
    <3>2. MailTypeOK' /\ ResultHasMail' /\ SentStays'
        BY <2>t, <3>1 DEF MailTypeOK, ResultHasMail, SentStays
    <3>3. ASSUME NEW m \in Mail PROVE Covered(m)'
        <4>1. Senders(m)' \subseteq Senders(m)
            BY <2>t, <3>1 DEF Senders
        <4>2. copies'[m] + Waits(m)' + excused[m] <= copies[m] + Waits(m) + excused'[m]
            BY <2>t, <3>1 DEF Waits
        <4> QED
            BY <2>t, <3>2, <4>1, <4>2, StillCovered
    <3> QED
        BY <3>2, <3>3 DEF MailInv
  <2>6. CASE UNCHANGED mailVars
      BY <2>6 DEF mailVars, MailInv, MailTypeOK, ResultHasMail, SentStays, Covered, Senders, Waits
  <2> QED
      BY <2>1, <2>2, <2>3, <2>4, <2>5, <2>6 DEF MailNext
<1> QED
    BY <1>1, <1>2, PTL DEF MailSpec

\* What went out is within what the excuses cover.
LEMMA CopiesFromInv == ASSUME MailInv PROVE CopiesAreExplained
<1> SUFFICES ASSUME NEW m \in Mail PROVE copies[m] <= 1 + excused[m]
    BY DEF CopiesAreExplained
<1>1. /\ copies[m] \in Nat /\ excused[m] \in Nat /\ Waits(m) \in Nat
      /\ Senders(m) \in SUBSET Mailer
    BY DEF MailInv, MailTypeOK, Waits, Senders
<1>2. Cardinality(Senders(m)) \in Nat
    BY <1>1, MailAssumption, SendersMove
<1> QED
    BY <1>1, <1>2 DEF MailInv, Covered

\* A notification is in one hand; the row of an order mail that was recorded as sent stays sent,
\* and every copy of the mail but the first has its reason (worker.js, orderOperations.js), for
\* any number of workers, mailers and faults.
THEOREM CustodyIsKeptHolds == NotifySpec /\ MailSpec => []CustodyIsKept
<1>1. NotifyInv /\ MailInv => CustodyIsKept
    BY CustodyFromInv, CopiesFromInv DEF MailInv, CustodyIsKept
<1> QED
    BY <1>1, NotifyInductive, MailInductive, PTL

-----------------------------------------------------------------------------
(* Payment callbacks *)

\* A process that is not idle works on an event.
BusyOnEvent ==
    \A p \in Processor : processors[p].pc # "idle" => processors[p].event \in CallbackEvent

\* At most one process holds the order's lock, and it knows the status the order has.
LockedKnowsOrder ==
    \A p \in Processor : processors[p].pc = "locked" =>
        /\ processors[p].seen = paying
        /\ \A q \in Processor : processors[q].pc = "locked" => q = p

CallbackInv == CallbackTypeOK /\ BusyOnEvent /\ LockedKnowsOrder /\ OneVerdict

-----------------------------------------------------------------------------
\* The transactions of the processes, by what they remember.
CallbackProcess ==
    [pc : {"idle", "claimed", "asked", "locked", "committed", "failing"},
     event : CallbackEvent \cup {NoEvent}, proposed : Verdicts, seen : PayingStatuses]

\* A step that leaves one process without the lock, and everything else as it was, keeps the
\* invariant.
LEMMA OneProcessMoves ==
    ASSUME CallbackInv, NEW p \in Processor, NEW r \in CallbackProcess,
           processors' = [processors EXCEPT ![p] = r],
           r.pc # "locked", r.pc # "idle" => r.event \in CallbackEvent,
           callbacks' \in [CallbackEvent ->
                              [st : EventStatuses, result : Verdicts \cup {"none"}]],
           \A e \in CallbackEvent : callbacks'[e].result = callbacks[e].result,
           UNCHANGED <<paying, reopened>>
    PROVE  CallbackInv'
<1>1. CallbackTypeOK'
    BY DEF CallbackInv, CallbackTypeOK, CallbackProcess
<1>2. BusyOnEvent'
    BY DEF CallbackInv, CallbackTypeOK, BusyOnEvent
<1>3. LockedKnowsOrder'
    BY DEF CallbackInv, CallbackTypeOK, LockedKnowsOrder
<1>4. OneVerdict'
    BY DEF CallbackInv, OneVerdict
<1> QED
    BY <1>1, <1>2, <1>3, <1>4 DEF CallbackInv

\* The invariant of PaymentCallbacks holds throughout.
LEMMA CallbackInductive == CallbackSpec => []CallbackInv
<1>1. CallbackInit => CallbackInv
  <2> SUFFICES ASSUME CallbackInit PROVE CallbackInv
      OBVIOUS
  <2>1. NoProcess \in CallbackProcess /\ NoProcess.pc = "idle"
      BY DEF NoProcess, CallbackProcess, Verdicts, PayingStatuses
  <2>2. callbacks \in [CallbackEvent -> [st : EventStatuses, result : Verdicts \cup {"none"}]]
      BY DEF CallbackInit, EventStatuses
  <2>3. paying \in PayingStatuses /\ processors \in [Processor -> CallbackProcess]
      BY <2>1 DEF CallbackInit, PayingStatuses
  <2>4. CallbackTypeOK
      BY <2>2, <2>3 DEF CallbackInit, CallbackTypeOK, CallbackProcess
  <2>5. BusyOnEvent /\ LockedKnowsOrder /\ OneVerdict
      BY <2>1 DEF CallbackInit, BusyOnEvent, LockedKnowsOrder, OneVerdict
  <2> QED
      BY <2>4, <2>5 DEF CallbackInv
<1>2. CallbackInv /\ [CallbackNext]_callbackVars => CallbackInv'
  <2> SUFFICES ASSUME CallbackInv, [CallbackNext]_callbackVars PROVE CallbackInv'
      OBVIOUS
  <2>a. /\ NoProcess \in CallbackProcess /\ NoProcess.pc = "idle"
        /\ \A p \in Processor : processors[p] \in CallbackProcess
      BY DEF CallbackInv, CallbackTypeOK, CallbackProcess, NoProcess, Verdicts, PayingStatuses
  <2>b. ASSUME NEW p \in Processor, NEW pc \in {"committed", "failing"},
               processors[p].pc # "idle"
        PROVE  /\ Ending(p, pc) \in CallbackProcess /\ Ending(p, pc).pc = pc
               /\ Ending(p, pc).event \in CallbackEvent
      BY <2>a, <2>b DEF Ending, CallbackProcess, NoProcess, CallbackInv, BusyOnEvent, Verdicts,
                        PayingStatuses
  <2>1. ASSUME NEW e \in CallbackEvent, EnqueueCallback(e) PROVE CallbackInv'
    <3>1. /\ callbacks' \in [CallbackEvent -> [st : EventStatuses, result : Verdicts \cup {"none"}]]
          /\ \A f \in CallbackEvent : callbacks'[f].result = callbacks[f].result
        BY <2>1 DEF EnqueueCallback, CallbackInv, CallbackTypeOK, EventStatuses
    <3> QED
        BY <2>1, <3>1 DEF EnqueueCallback, CallbackInv, CallbackTypeOK, BusyOnEvent,
                          LockedKnowsOrder, OneVerdict
  <2>2. ASSUME NEW p \in Processor, NEW e \in CallbackEvent, ClaimCallback(p, e)
        PROVE  CallbackInv'
    <3> DEFINE r == [NoProcess EXCEPT !.pc = "claimed", !.event = e]
    <3>1. r \in CallbackProcess /\ r.pc = "claimed" /\ r.event \in CallbackEvent
        BY DEF CallbackProcess, NoProcess, Verdicts, PayingStatuses
    <3>2. processors' = [processors EXCEPT ![p] = r]
        BY <2>2 DEF ClaimCallback
    <3> HIDE DEF r
    <3> QED
        BY <2>2, <3>1, <3>2, OneProcessMoves DEF ClaimCallback, CallbackInv, CallbackTypeOK
  <2>3. ASSUME NEW p \in Processor, NEW proposed \in Verdicts, AskProvider(p, proposed)
        PROVE  CallbackInv'
    <3> DEFINE r == [processors[p] EXCEPT !.pc = "asked", !.proposed = proposed]
    <3>1. r \in CallbackProcess /\ r.pc = "asked" /\ r.event = processors[p].event
        BY <2>a DEF CallbackProcess
    <3>2. processors' = [processors EXCEPT ![p] = r]
        BY <2>3, <2>a DEF AskProvider, CallbackProcess
    <3>3. processors[p].event \in CallbackEvent
        BY <2>3 DEF AskProvider, CallbackInv, BusyOnEvent
    <3> HIDE DEF r
    <3> QED
        BY <2>3, <3>1, <3>2, <3>3, OneProcessMoves DEF AskProvider, CallbackInv, CallbackTypeOK
  <2>4. ASSUME NEW p \in Processor, LockOrder(p) PROVE CallbackInv'
    <3>1. CallbackTypeOK'
        BY <2>4 DEF LockOrder, CallbackInv, CallbackTypeOK
    <3>2. BusyOnEvent' /\ OneVerdict'
        BY <2>4 DEF LockOrder, CallbackInv, CallbackTypeOK, BusyOnEvent, OneVerdict
    <3>3. LockedKnowsOrder'
        BY <2>4 DEF LockOrder, OrderIsFree, CallbackInv, CallbackTypeOK, LockedKnowsOrder
    <3> QED
        BY <3>1, <3>2, <3>3 DEF CallbackInv
  <2>5. ASSUME NEW p \in Processor, CommitCallback(p) PROVE CallbackInv'
    <3> DEFINE e == processors[p].event
               next == GuardedStatus(processors[p].seen, processors[p].proposed)
    <3>1. /\ e \in CallbackEvent /\ processors[p].seen = paying
          /\ \A q \in Processor \ {p} : processors[q].pc # "locked"
        BY <2>5 DEF CommitCallback, CallbackInv, BusyOnEvent, LockedKnowsOrder
    <3>2. next \in Verdicts /\ (paying \in Verdicts => next = paying)
        BY <3>1, <2>a DEF GuardedStatus, CallbackProcess
    <3>3. /\ paying' = next /\ reopened' = reopened
          /\ callbacks' = [callbacks EXCEPT ![e] = [st |-> "processed", result |-> next]]
          /\ processors' = [processors EXCEPT ![p] = Ending(p, "committed")]
        BY <2>5 DEF CommitCallback
    <3> HIDE DEF e, next
    <3>4. CallbackTypeOK'
      <4>1. callbacks' \in [CallbackEvent -> [st : EventStatuses, result : Verdicts \cup {"none"}]]
          BY <3>1, <3>2, <3>3 DEF CallbackInv, CallbackTypeOK, EventStatuses
      <4>2. processors[p].pc # "idle"
          BY <2>5 DEF CommitCallback
      <4>3. processors' \in [Processor -> CallbackProcess]
          BY <3>3, <2>a, <2>b, <4>2 DEF CallbackInv, CallbackTypeOK
      <4> QED
          BY <3>2, <3>3, <4>1, <4>3 DEF CallbackInv, CallbackTypeOK, PayingStatuses,
                                        CallbackProcess
    <3>5. BusyOnEvent' /\ LockedKnowsOrder'
      <4>1. /\ Ending(p, "committed").pc = "committed"
            /\ Ending(p, "committed").event \in CallbackEvent
          BY <2>b, <2>5 DEF CommitCallback
      <4> QED
          BY <3>1, <3>3, <4>1 DEF CallbackInv, CallbackTypeOK, BusyOnEvent, LockedKnowsOrder
    <3>6. OneVerdict'
        BY <3>1, <3>2, <3>3 DEF CallbackInv, CallbackTypeOK, OneVerdict, Verdicts
    <3> QED
        BY <3>4, <3>5, <3>6 DEF CallbackInv
  <2>6. ASSUME NEW p \in Processor,
               ReportCallback(p) \/ CallbackThrows(p) \/ MarkFailed(p) \/ ProcessorCrash(p)
        PROVE  CallbackInv'
    <3>1. processors[p].pc # "idle"
        BY <2>6 DEF ReportCallback, CallbackThrows, MarkFailed, ProcessorCrash
    <3>2. PICK r \in {NoProcess, Ending(p, "failing")} : processors' = [processors EXCEPT ![p] = r]
        BY <2>6 DEF ReportCallback, CallbackThrows, MarkFailed, ProcessorCrash
    <3>3. r \in CallbackProcess /\ r.pc # "locked" /\ (r.pc # "idle" => r.event \in CallbackEvent)
        BY <3>1, <3>2, <2>a, <2>b
    <3>4. /\ callbacks' \in [CallbackEvent -> [st : EventStatuses, result : Verdicts \cup {"none"}]]
          /\ \A e \in CallbackEvent : callbacks'[e].result = callbacks[e].result
        BY <2>6 DEF ReportCallback, CallbackThrows, MarkFailed, ProcessorCrash, CallbackInv,
                    CallbackTypeOK, EventStatuses
    <3>5. UNCHANGED <<paying, reopened>>
        BY <2>6 DEF ReportCallback, CallbackThrows, MarkFailed, ProcessorCrash
    <3> QED
        BY <3>2, <3>3, <3>4, <3>5, OneProcessMoves
  <2>7. ASSUME NEW to \in PayingStatuses, OthersMoveOrder(to) PROVE CallbackInv'
      BY <2>7 DEF OthersMoveOrder, OrderIsFree, CallbackInv, CallbackTypeOK, BusyOnEvent,
                  LockedKnowsOrder, OneVerdict
  <2>8. CASE UNCHANGED callbackVars
      BY <2>8 DEF callbackVars, CallbackInv, CallbackTypeOK, BusyOnEvent, LockedKnowsOrder,
                  OneVerdict
  <2> QED
      BY <2>1, <2>2, <2>3, <2>4, <2>5, <2>6, <2>7, <2>8 DEF CallbackNext
<1> QED
    BY <1>1, <1>2, PTL DEF CallbackSpec

\* Events processed for a payment agree with the status of its order
\* (paymentCallbackEvents.js), whatever processes fail, die or answer late, until somebody
\* else takes the order out of paid or cancelled.
THEOREM OneVerdictHolds == CallbackSpec => []OneVerdict
<1>1. CallbackInv => OneVerdict
    BY DEF CallbackInv
<1> QED
    BY <1>1, CallbackInductive, PTL
=============================================================================
