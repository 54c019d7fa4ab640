------------------------------- MODULE StoreTeam -------------------------------
(***************************************************************************)
(* Members and invites of one store (routes/organizations.js,              *)
(* routes/platform.js).  An invite, its acceptance and an addition by the  *)
(* platform are transactions under READ COMMITTED; a change of role and a  *)
(* removal are a read and an update, each a statement of its own.          *)
(*                                                                         *)
(* A person is an e-mail with its user.  Of the roles, owner alone matters *)
(* here; the others are staff.                                             *)
(***************************************************************************)
EXTENDS Naturals, FiniteSets

CONSTANTS
    Person,     \* who may be a member
    Founder,    \* the owner of a new store
    NoPerson,
    Recruiter,  \* requests
    SeatLimits, \* values of max_members; 0 is no limit
    MaxInvites, \* bound: organization_invites
    MaxAdded    \* bound: additions by the platform

ASSUME TeamAssumption ==
    /\ Founder \in Person /\ NoPerson \notin Person
    /\ SeatLimits \subseteq Nat /\ SeatLimits # {}
    /\ MaxInvites \in Nat /\ MaxAdded \in Nat

VARIABLES
    members,    \* memberships, by person
    invites,    \* organization_invites
    admissions, \* times each invite let somebody in (history)
    seats,      \* max_members of the plan
    seatLock,   \* holder of the advisory lock plan_capacity:members
    storeLock,  \* the acceptance that holds its invite's row and the store's
    recruiters, \* what each request is doing
    added       \* additions by the platform so far

teamVars == <<members, invites, admissions, seats, seatLock, storeLock, recruiters, added>>

Invite == 1..MaxInvites
NoRecruiter == "free"
ASSUME RecruiterAssumption == NoRecruiter \notin Recruiter
Stranger == [st |-> "none", role |-> "staff", by |-> "invite"]
MemberStates ==
    [st : {"none", "active", "disabled"}, role : {"owner", "staff"}, by : {"invite", "platform"}]
RecruiterStates ==
    [pc : {"idle", "inviting", "accepting", "joining", "changing"},
     person : Person \cup {NoPerson}, invite : Invite \cup {0}]
NoTask == [pc |-> "idle", person |-> NoPerson, invite |-> 0]

Members == {p \in Person : members[p].st = "active"}
HasRoom == seats = 0 \/ Cardinality(Members) + 1 <= seats
OpenTo(p) == {i \in Invite : invites[i].st \in {"open", "expired"} /\ invites[i].person = p}

\* assertPlanCapacity: without a limit there is no lock; a full plan ends the transaction.
TakeSeat(w, next) ==
    IF seats = 0
    THEN recruiters' = next /\ UNCHANGED seatLock
    ELSE seatLock = NoRecruiter /\ HasRoom /\ seatLock' = w /\ recruiters' = next

\* Everything request w holds, at the end of its transaction.
Released(w) ==
    /\ seatLock' = IF seatLock = w THEN NoRecruiter ELSE seatLock
    /\ storeLock' = IF storeLock = w THEN NoRecruiter ELSE storeLock
    /\ recruiters' = [recruiters EXCEPT ![w] = NoTask]

-----------------------------------------------------------------------------
(* Invites *)

\* POST invites: room for one more, and the address is not that of an active member.
StartInvite(w, p) ==
    /\ recruiters[w] = NoTask
    /\ p \notin Members
    /\ TakeSeat(w, [recruiters EXCEPT ![w] = [NoTask EXCEPT !.pc = "inviting", !.person = p]])
    /\ UNCHANGED <<members, invites, admissions, seats, storeLock, added>>

\* The earlier invites of the address are closed and the new one is written, which refers to
\* the store and so waits for an acceptance.  The unique index admits one that is not closed.
ReplaceInvite(w) ==
    LET p == recruiters[w].person
    IN /\ recruiters[w].pc = "inviting"
       /\ storeLock = NoRecruiter
       /\ \E i \in Invite :
            /\ invites[i].st = "none" /\ \A j \in 1..(i - 1) : invites[j].st # "none"
            /\ invites' = [j \in Invite |->
                 IF j = i THEN [st |-> "open", person |-> p]
                 ELSE IF j \in OpenTo(p) THEN [invites[j] EXCEPT !.st = "replaced"]
                 ELSE invites[j]]
       /\ Released(w)
       /\ UNCHANGED <<members, admissions, seats, added>>

\* Mutant of LockInvite: the invite is read without FOR UPDATE.
ReadInvite(w, i) ==
    /\ recruiters[w] = NoTask
    /\ invites[i].st = "open"
    /\ recruiters' = [recruiters EXCEPT ![w] =
          [pc |-> "accepting", person |-> invites[i].person, invite |-> i]]
    /\ UNCHANGED <<members, invites, admissions, seats, seatLock, storeLock, added>>

\* POST invites/accept: FOR UPDATE of the join takes the row of an invite that is open and the
\* row of the store.
LockInvite(w, i) ==
    /\ recruiters[w] = NoTask
    /\ invites[i].st = "open"
    /\ storeLock = NoRecruiter
    /\ storeLock' = w
    /\ recruiters' = [recruiters EXCEPT ![w] =
          [pc |-> "accepting", person |-> invites[i].person, invite |-> i]]
    /\ UNCHANGED <<members, invites, admissions, seats, seatLock, added>>

\* Mutant of AssertSeat: the seat was checked when the invite was written.
TrustInvite(w) ==
    /\ recruiters[w].pc = "accepting"
    /\ recruiters' = [recruiters EXCEPT ![w].pc = "joining"]
    /\ UNCHANGED <<members, invites, admissions, seats, seatLock, storeLock, added>>

\* The user, created when there is none, and the seat, counted again.
AssertSeat(w) ==
    /\ recruiters[w].pc = "accepting"
    /\ TakeSeat(w, [recruiters EXCEPT ![w].pc = "joining"])
    /\ UNCHANGED <<members, invites, admissions, seats, storeLock, added>>

\* The membership, the closed invite and the commit.  An invite never makes an owner.
Join(w) ==
    LET i == recruiters[w].invite
    IN /\ recruiters[w].pc = "joining"
       /\ members' = [members EXCEPT ![recruiters[w].person] =
             [st |-> "active", role |-> "staff", by |-> "invite"]]
       /\ invites' = [invites EXCEPT ![i].st = IF @ = "open" THEN "used" ELSE @]
       /\ admissions' = [admissions EXCEPT ![i] = @ + 1]
       /\ Released(w)
       /\ UNCHANGED <<seats, added>>

\* Anything that fails rolls back: a full plan, an error, or the database that ends one of an
\* acceptance (store, then seat) and an invite (seat, then store) that wait for each other.
RollBack(w) ==
    /\ recruiters[w].pc \in {"inviting", "accepting", "joining"}
    /\ Released(w)
    /\ UNCHANGED <<members, invites, admissions, seats, added>>

\* Seven days pass; now() is when a transaction began.
ExpireInvite(i) ==
    /\ invites[i].st = "open"
    /\ \A w \in Recruiter : recruiters[w].invite # i
    /\ invites' = [invites EXCEPT ![i].st = "expired"]
    /\ UNCHANGED <<members, admissions, seats, seatLock, storeLock, recruiters, added>>

-----------------------------------------------------------------------------
(* Members *)

\* PUT and DELETE members/:id read the membership; an owner's is refused.
ReadMember(w, p) ==
    /\ recruiters[w] = NoTask
    /\ members[p].st = "active" /\ members[p].role # "owner"
    /\ recruiters' = [recruiters EXCEPT ![w] = [NoTask EXCEPT !.pc = "changing", !.person = p]]
    /\ UNCHANGED <<members, invites, admissions, seats, seatLock, storeLock, added>>

\* The update does not ask again whether the member is active, or an owner by now.
ChangeRole(w) ==
    /\ recruiters[w].pc = "changing"
    /\ members' = [members EXCEPT ![recruiters[w].person].role = "staff"]
    /\ Released(w)
    /\ UNCHANGED <<invites, admissions, seats, added>>

RemoveMember(w) ==
    /\ recruiters[w].pc = "changing"
    /\ members' = [members EXCEPT ![recruiters[w].person].st = "disabled"]
    /\ Released(w)
    /\ UNCHANGED <<invites, admissions, seats, added>>

\* POST platform/stores/:id/users, which asks for no seat; a new row refers to the store.
PlatformAdd(p, role) ==
    /\ added < MaxAdded
    /\ members[p].st = "none" => storeLock = NoRecruiter
    /\ added' = added + 1
    /\ members' = [members EXCEPT ![p] = [st |-> "active", role |-> role, by |-> "platform"]]
    /\ UNCHANGED <<invites, admissions, seats, seatLock, storeLock, recruiters>>

-----------------------------------------------------------------------------
TeamInit ==
    /\ members = [p \in Person |->
          IF p = Founder THEN [st |-> "active", role |-> "owner", by |-> "invite"] ELSE Stranger]
    /\ invites = [i \in Invite |-> [st |-> "none", person |-> NoPerson]]
    /\ admissions = [i \in Invite |-> 0]
    /\ seats \in SeatLimits
    /\ seatLock = NoRecruiter
    /\ storeLock = NoRecruiter
    /\ recruiters = [w \in Recruiter |-> NoTask]
    /\ added = 0

TeamNext ==
    \/ \E w \in Recruiter :
         \/ ReplaceInvite(w) \/ AssertSeat(w) \/ Join(w) \/ RollBack(w)
         \/ ChangeRole(w) \/ RemoveMember(w)
         \/ \E p \in Person : StartInvite(w, p) \/ ReadMember(w, p)
         \/ \E i \in Invite : LockInvite(w, i)
    \/ \E i \in Invite : ExpireInvite(i)
    \/ \E p \in Person, role \in {"owner", "staff"} : PlatformAdd(p, role)

TeamSpec == TeamInit /\ [][TeamNext]_teamVars

-----------------------------------------------------------------------------
(* Properties *)

\* Memberships, invites, locks and requests hold values of their kind.
TeamTypeOK ==
    /\ members \in [Person -> MemberStates]
    /\ invites \in [Invite -> [st : {"none", "open", "expired", "replaced", "used"},
                               person : Person \cup {NoPerson}]]
    /\ admissions \in [Invite -> Nat]
    /\ seats \in SeatLimits
    /\ seatLock \in Recruiter \cup {NoRecruiter}
    /\ storeLock \in Recruiter \cup {NoRecruiter}
    /\ recruiters \in [Recruiter -> RecruiterStates]
    /\ added \in 0..MaxAdded

\* Invites accepted at the same time, beside removals and additions by the platform, never
\* take the members who joined by invite, the founder among them, over the plan's seats.
SeatsWithinPlan ==
    seats # 0 => Cardinality({p \in Members : members[p].by = "invite"}) <= seats

\* An invite lets its address in once, and one that was replaced by a newer invite, or that
\* expired unused, never did: not even when it is being accepted while that happens.
InviteAdmitsOnce == \A i \in Invite : admissions[i] = IF invites[i].st = "used" THEN 1 ELSE 0
=============================================================================
