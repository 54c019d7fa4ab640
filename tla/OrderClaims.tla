------------------------------ MODULE OrderClaims ------------------------------
(***************************************************************************)
(* How guest orders of a store come to belong to customer accounts         *)
(* (services/orderClaims.js, services/customerAuthFlows.js,                *)
(* routes/customerAuth.js).  An account claims an order with a token sent  *)
(* to the address of the order, or has every order under its own address   *)
(* linked when it verifies that address.  A change of address moves the    *)
(* customer record that the account shares with earlier guest orders.      *)
(***************************************************************************)
EXTENDS Naturals, Sequences

CONSTANTS
    Account,   \* customer accounts
    GuestOrder,
    Customer,  \* customer records, shared by accounts and orders
    Address,   \* addresses
    NoAccount, \* no account: the order has no owner
    Claimant,  \* requests in progress
    MaxClaims  \* bound: claim tokens ever issued

ASSUME ClaimAssumption == NoAccount \notin Account /\ MaxClaims \in Nat

VARIABLES
    login,        \* customer_accounts.email
    change,       \* the new address of an account's open email_change token, if any
    customer,     \* customer_id of accounts and orders
    customerMail, \* customers.email
    owner,        \* orders.customer_account_id
    claims,       \* order_account_claim_tokens
    claimant      \* the transaction of each request

claimVars == <<login, change, customer, customerMail, owner, claims, claimant>>

ClaimStatuses == {"live", "spent"}
Unclaimed(o) == owner[o] = NoAccount

NoClaimRequest == [pc |-> "idle", account |-> NoAccount, order |-> CHOOSE o \in GuestOrder : TRUE,
              token |-> 0]
TokenLocked(t) == \E c \in Claimant : claimant[c].pc = "holding" /\ claimant[c].token = t

\* The live tokens of an account for an order.
LiveClaims(a, o) ==
    {t \in DOMAIN claims : claims[t].account = a /\ claims[t].order = o /\ claims[t].status = "live"}
Spent(ts) ==
    [t \in DOMAIN claims |->
        IF t \in ts THEN [claims[t] EXCEPT !.status = "spent"] ELSE claims[t]]

-----------------------------------------------------------------------------
(* Addresses *)

\* Mutant of AutoLinked: the update does not ask whether the order has an owner.
LinkedAnyway(a) == [o \in GuestOrder |-> IF customerMail[customer[o]] = login[a] THEN a ELSE owner[o]]

\* autoLinkVerifiedGuestOrders: the orders of customers with the account's address.
AutoLinked(a) ==
    [o \in GuestOrder |->
        IF Unclaimed(o) /\ customerMail[customer[o]] = login[a] THEN a ELSE owner[o]]

\* POST verify-email.  An account may hold several signup tokens and use them one by one;
\* the date it sets, email_verified_at, decides nothing here.
VerifyEmail(a) ==
    /\ owner' = AutoLinked(a)
    /\ UNCHANGED <<login, change, customer, customerMail, claims, claimant>>

\* requestEmailChange: earlier tokens are consumed.  (Two requests at once may leave two open;
\* each would be confirmed by the same rules.)
RequestEmailChange(a, m) ==
    /\ \A b \in Account : login[b] # m
    /\ change' = [change EXCEPT ![a] = {m}]
    /\ UNCHANGED <<login, customer, customerMail, owner, claims, claimant>>

\* confirmEmailChange: the account and its customer record move to the new address.
ConfirmEmailChange(a, m) ==
    /\ m \in change[a]
    /\ \A b \in Account \ {a} : login[b] # m
    /\ change' = [change EXCEPT ![a] = {}]
    /\ login' = [login EXCEPT ![a] = m]
    /\ customerMail' = [customerMail EXCEPT ![customer[a]] = m]
    /\ UNCHANGED <<customer, owner, claims, claimant>>

ExpireEmailChange(a, m) ==
    /\ m \in change[a]
    /\ change' = [change EXCEPT ![a] = {}]
    /\ UNCHANGED <<login, customer, customerMail, owner, claims, claimant>>

-----------------------------------------------------------------------------
(* Claims *)

\* requestOrderClaim: the order is free; earlier tokens of the account are used up, after
\* waiting for the one a confirmation has locked.
RequestClaim(c, a, o) ==
    /\ claimant[c].pc = "idle" /\ Len(claims) < MaxClaims
    /\ Unclaimed(o)
    /\ \A t \in LiveClaims(a, o) : ~TokenLocked(t)
    /\ claims' = Spent(LiveClaims(a, o))
    /\ claimant' = [claimant EXCEPT ![c] =
           [NoClaimRequest EXCEPT !.pc = "issuing", !.account = a, !.order = o]]
    /\ UNCHANGED <<login, change, customer, customerMail, owner>>

\* Its second half: the insert and the commit.
IssueClaim(c) ==
    LET q == claimant[c]
    IN /\ q.pc = "issuing" /\ Len(claims) < MaxClaims
       /\ claims' = Append(claims, [account |-> q.account, order |-> q.order, status |-> "live"])
       /\ claimant' = [claimant EXCEPT ![c] = NoClaimRequest]
       /\ UNCHANGED <<login, change, customer, customerMail, owner>>

\* confirmOrderClaim, by the account the token was issued to: the token is locked.
LockClaim(c, t) ==
    /\ claimant[c].pc = "idle"
    /\ claims[t].status = "live" /\ ~TokenLocked(t)
    /\ claimant' = [claimant EXCEPT ![c] =
           [pc |-> "holding", account |-> claims[t].account, order |-> claims[t].order, token |-> t]]
    /\ UNCHANGED <<login, change, customer, customerMail, owner, claims>>

\* The order is locked, read, linked if it has no owner, and the token used up either way.
ConfirmClaim(c) ==
    LET q == claimant[c]
    IN /\ q.pc = "holding"
       /\ owner' = IF Unclaimed(q.order) THEN [owner EXCEPT ![q.order] = q.account] ELSE owner
       /\ claims' = Spent({q.token})
       /\ claimant' = [claimant EXCEPT ![c] = NoClaimRequest]
       /\ UNCHANGED <<login, change, customer, customerMail>>

\* A confirmation fails and is rolled back: its token is free again.
AbortClaim(c) ==
    /\ claimant[c].pc = "holding"
    /\ claimant' = [claimant EXCEPT ![c] = NoClaimRequest]
    /\ UNCHANGED <<login, change, customer, customerMail, owner, claims>>

ExpireClaim(t) ==
    /\ claims[t].status = "live"
    /\ claims' = [claims EXCEPT ![t].status = "spent"]
    /\ UNCHANGED <<login, change, customer, customerMail, owner, claimant>>

-----------------------------------------------------------------------------
\* Guest orders, and accounts that registered with distinct addresses: registration takes
\* the customer record of its address, which earlier guest orders of that address have too.
ClaimInit ==
    /\ login \in [Account -> Address]
    /\ \A a, b \in Account : login[a] = login[b] => a = b
    /\ customer \in [Account \cup GuestOrder -> Customer]
    /\ customerMail \in [Customer -> Address]
    /\ \A c, d \in Customer : customerMail[c] = customerMail[d] => c = d
    /\ \A a \in Account : customerMail[customer[a]] = login[a]
    /\ change = [a \in Account |-> {}]
    /\ owner = [o \in GuestOrder |-> NoAccount]
    /\ claims = <<>>
    /\ claimant = [c \in Claimant |-> NoClaimRequest]

ClaimNext ==
    \/ \E a \in Account : VerifyEmail(a)
    \/ \E a \in Account, m \in Address :
         RequestEmailChange(a, m) \/ ConfirmEmailChange(a, m) \/ ExpireEmailChange(a, m)
    \/ \E c \in Claimant :
         \/ \E a \in Account, o \in GuestOrder : RequestClaim(c, a, o)
         \/ \E t \in DOMAIN claims : LockClaim(c, t)
         \/ IssueClaim(c) \/ ConfirmClaim(c) \/ AbortClaim(c)
    \/ \E t \in DOMAIN claims : ExpireClaim(t)

ClaimSpec == ClaimInit /\ [][ClaimNext]_claimVars

-----------------------------------------------------------------------------
(* Properties *)

\* Accounts, tokens and requests hold values of their kind, and no two accounts share an
\* address whatever changes of address overlap.
ClaimTypeOK ==
    /\ login \in [Account -> Address] /\ \A a, b \in Account : login[a] = login[b] => a = b
    /\ change \in [Account -> SUBSET Address]
    /\ customer \in [Account \cup GuestOrder -> Customer]
    /\ customerMail \in [Customer -> Address]
    /\ owner \in [GuestOrder -> Account \cup {NoAccount}]
    /\ claims \in Seq([account : Account, order : GuestOrder, status : ClaimStatuses])
    /\ claimant \in [Claimant ->
           [pc : {"idle", "issuing", "holding"}, account : Account \cup {NoAccount},
            order : GuestOrder, token : 0..MaxClaims]]

\* An order that belongs to an account is never given to another one: not by a token issued
\* while it was free, not by two confirmations at once, not by an address that is verified
\* or changed later ("never reveals which one", services/orderClaims.js:14).
OwnerStays == [][\A o \in GuestOrder : owner[o] # NoAccount => owner'[o] = owner[o]]_owner
=============================================================================
