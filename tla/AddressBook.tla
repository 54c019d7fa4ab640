------------------------------ MODULE AddressBook ------------------------------
(***************************************************************************)
(* The address book of one customer account (services/                     *)
(* customerAddresses.js, migration 056): addresses are saved, edited,      *)
(* made the default for shipping or billing and deleted by requests that   *)
(* overlap.  Each request is one READ COMMITTED transaction of several     *)
(* statements.  It may be broken off at any of them, by a lost connection  *)
(* or as the victim of the deadlock two requests can get into.             *)
(*                                                                         *)
(* Two requests that count the addresses before either inserts may both    *)
(* pass the limit of 20 (createAddress locks nothing), so no property is   *)
(* stated of their number.                                                 *)
(***************************************************************************)
EXTENDS Naturals, FiniteSets

CONSTANTS
    MaxAddresses, \* bound: live rows of customer_addresses at a time
    Shopper,      \* requests in progress at a time
    NoShopper

ASSUME AddressAssumption == MaxAddresses \in Nat /\ NoShopper \notin Shopper

VARIABLES
    book,     \* whether a row is live, and the kinds it is the default of
    edit,     \* the transaction each request runs
    rowLock   \* the transaction that holds each row

addressVars == <<book, edit, rowLock>>

Kind == {"shipping", "billing"}
Slot == 1..MaxAddresses  \* a deleted row's stands for the next row inserted
NoSlot == 0
NoEdit == [pc |-> "idle", op |-> "create", row |-> NoSlot, asked |-> {}, todo |-> {},
           found |-> NoSlot, cleared |-> {}]

LiveAddresses == {s \in Slot : book[s].live}
FreeSlots == {s \in Slot \ LiveAddresses : \A p \in Shopper : edit[p].row # s}
DefaultOf(k) == {s \in LiveAddresses : k \in book[s].of}
Free(s, p) == rowLock[s] \in {NoShopper, p}
Unlocked(p) == [s \in Slot |-> IF rowLock[s] = p THEN NoShopper ELSE rowLock[s]]

\* The transaction ends, and what it changed stays or never was.
EndEdit(p, rows) ==
    /\ book' = rows
    /\ edit' = [edit EXCEPT ![p] = NoEdit]
    /\ rowLock' = Unlocked(p)

-----------------------------------------------------------------------------
\* createAddress: the first address becomes the default of everything.
CreateAddress(p, s, asked) ==
    /\ edit[p].pc = "idle"
    /\ s \in FreeSlots /\ \A r \in FreeSlots : s <= r
    /\ LET kinds == IF LiveAddresses = {} THEN Kind ELSE asked
       IN edit' = [edit EXCEPT ![p] = [NoEdit EXCEPT !.pc = "clear", !.row = s,
                                                     !.asked = kinds, !.todo = kinds]]
    /\ UNCHANGED <<book, rowLock>>

\* loadOwnedAddress of an update, or of POST /:id/default, which is one that asks for one kind
\* and changes no text.
LoadOwnedAddress(p, s, asked) ==
    /\ edit[p].pc = "idle" /\ s \in LiveAddresses
    /\ rowLock[s] = NoShopper
    /\ rowLock' = [rowLock EXCEPT ![s] = p]
    /\ edit' = [edit EXCEPT ![p] = [NoEdit EXCEPT !.pc = "clear", !.op = "edit", !.row = s,
                                                 !.asked = asked, !.todo = asked]]
    /\ UNCHANGED book

\* clearDefault, first of shipping: the default row the statement sees.  It excepts the row at
\* hand, which a create does not have yet.
FindDefault(p, k) ==
    /\ edit[p].pc = "clear" /\ k \in edit[p].todo
    /\ k = "billing" => "shipping" \notin edit[p].todo
    /\ \E s \in {NoSlot} \cup Slot :
         /\ LET others == DefaultOf(k) \ {edit[p].row}
            IN s \in (IF others = {} THEN {NoSlot} ELSE others)
         /\ edit' = [edit EXCEPT ![p].todo = @ \ {k}, ![p].found = s,
                                 ![p].pc = IF s = NoSlot THEN "clear" ELSE k]
    /\ UNCHANGED <<book, rowLock>>

\* ... and its row, once it can be locked and if it is still the default.
ClearDefault(p, k) ==
    LET s == edit[p].found
    IN /\ edit[p].pc = k /\ Free(s, p)
       /\ IF s \in DefaultOf(k)
          THEN /\ rowLock' = [rowLock EXCEPT ![s] = p]
               /\ edit' = [edit EXCEPT ![p].pc = "clear", ![p].found = NoSlot,
                                       ![p].cleared = @ \cup {<<s, k>>}]
          ELSE /\ edit' = [edit EXCEPT ![p].pc = "clear", ![p].found = NoSlot]
               /\ UNCHANGED rowLock
       /\ UNCHANGED book

\* Rows that are a default of what this request makes another row the default of.
Rivals(p) ==
    {s \in Slot \ {edit[p].row} :
       \E k \in edit[p].asked : s \in DefaultOf(k) /\ <<s, k>> \notin edit[p].cleared}

Cleared(p) ==
    [s \in Slot |-> [book[s] EXCEPT !.of = {k \in @ : <<s, k>> \notin edit[p].cleared}]]

\* The insert or update and the commit.  A rival makes the partial unique index refuse them,
\* once the transaction that holds the rival has ended.  An update finds no row if it was
\* deleted.
SaveKeeping(p, kept) ==
    LET s == edit[p].row
    IN /\ edit[p].pc = "clear" /\ edit[p].todo = {} /\ Free(s, p)
       /\ \A r \in Rivals(p) : Free(r, p)
       /\ IF Rivals(p) # {} THEN EndEdit(p, book)
          ELSE IF edit[p].op = "create" \/ s \in LiveAddresses
               THEN EndEdit(p, [Cleared(p) EXCEPT ![s] =
                                  [live |-> TRUE, of |-> kept \cup edit[p].asked]])
               ELSE EndEdit(p, Cleared(p))

\* Mutant of SaveAddress: an update sets the flags to what the form says.
SaveAsSent(p) == SaveKeeping(p, {})

\* An update adds defaults and never takes one.
SaveAddress(p) == SaveKeeping(p, IF edit[p].op = "create" THEN {} ELSE book[edit[p].row].of)

\* softDeleteAddress, one statement.
SoftDelete(s) ==
    /\ s \in LiveAddresses /\ rowLock[s] = NoShopper
    /\ book' = [book EXCEPT ![s] = [live |-> FALSE, of |-> {}]]
    /\ UNCHANGED <<edit, rowLock>>

\* The request is broken off and rolled back.
BreakOff(p) == edit[p].pc # "idle" /\ EndEdit(p, book)

-----------------------------------------------------------------------------
AddressInit ==
    /\ book = [s \in Slot |-> [live |-> FALSE, of |-> {}]]
    /\ edit = [p \in Shopper |-> NoEdit]
    /\ rowLock = [s \in Slot |-> NoShopper]

AddressNext ==
    \/ \E p \in Shopper, s \in Slot, asked \in SUBSET Kind :
         CreateAddress(p, s, asked) \/ LoadOwnedAddress(p, s, asked)
    \/ \E p \in Shopper, k \in Kind : FindDefault(p, k) \/ ClearDefault(p, k)
    \/ \E p \in Shopper : SaveAddress(p) \/ BreakOff(p)
    \/ \E s \in Slot : SoftDelete(s)

AddressSpec == AddressInit /\ [][AddressNext]_addressVars

-----------------------------------------------------------------------------
(* Properties *)

\* Rows and transactions hold values of their kind.
AddressTypeOK ==
    /\ book \in [Slot -> [live : BOOLEAN, of : SUBSET Kind]]
    /\ \A p \in Shopper :
         /\ edit[p].pc \in {"idle", "clear"} \cup Kind
         /\ edit[p].row \in Slot \cup {NoSlot} /\ edit[p].asked \subseteq Kind
         /\ edit[p].cleared \subseteq Slot \X Kind
    /\ rowLock \in [Slot -> Shopper \cup {NoShopper}]

\* An account keeps its default address of a kind, and one only, until that address is
\* deleted: two requests that take it from the same row, or one that gives it to a row
\* somebody deletes, never leave the checkout without it.
DefaultStays ==
    [][\A k \in Kind :
         DefaultOf(k) # {} => \/ Cardinality(DefaultOf(k)') = 1
                              \/ \E s \in DefaultOf(k) : ~book'[s].live]_addressVars
=============================================================================
