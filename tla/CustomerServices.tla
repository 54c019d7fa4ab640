---------------------------- MODULE CustomerServices ----------------------------
(***************************************************************************)
(* What belongs to one person, customer or administrator: sessions and     *)
(* second factors, the dashboard and its order desk, carts, addresses,     *)
(* claimed orders and parcels.  They share no row.                         *)
(***************************************************************************)
EXTENDS AuthSessions, DashboardSession, Carts, OrderClaims, SecondFactors, Shipments,
        OrderDesk, AddressBook

\* A session has one token that can be refreshed (AuthSessions), a code, a challenge or a
\* recovery code proves something once (SecondFactors), and a tab presents each token once
\* (DashboardSession).
CredentialsWorkOnce == OneLiveToken /\ CodesWorkOnce /\ RefreshIsShared /\ SessionEndsForCause

\* What somebody decides by a screen is done to what the screen said: the cart that is ordered
\* (Carts), the orders that are moved, alone or in bulk (OrderDesk).
ActsAsSeen == OneOrderAsSeen /\ MovesAreAsShown /\ PreviewIsOfSelection

\* What an account holds, guest orders (OrderClaims) and default addresses (AddressBook), it
\* keeps.
HoldingsStay == OwnerStays /\ DefaultStays
=============================================================================
