----------------------------- MODULE CustomDomains -----------------------------
(***************************************************************************)
(* The custom domains of several organizations (services/customDomains.js, *)
(* routes/domains.js, routes/domainOperations.js): claims, challenges that *)
(* are proven by a DNS record, activation, pauses and releases.  Every     *)
(* operation is one transaction that locks its row.  What keeps a hostname *)
(* with one organization is the unique index of migration 062 over all     *)
(* rows that are not released.                                             *)
(***************************************************************************)
EXTENDS Naturals, FiniteSets

CONSTANTS
    Org,           \* organizations
    Host,          \* hostnames
    NoHost,
    MaxDomains,    \* domains a plan allows
    MaxChallenges  \* bound: challenges issued

ASSUME DomainAssumption ==
    /\ NoHost \notin Host
    /\ MaxDomains \in Nat \ {0}
    /\ MaxChallenges \in Nat

VARIABLES
    domains,     \* custom_domains, by organization and hostname
    canonical,   \* the canonical domain of each organization
    dns,         \* challenges published under each hostname
    challenges,  \* challenges issued so far; a challenge is its number
    holder       \* who holds each hostname and since which challenge (history)

domainVars == <<domains, canonical, dns, challenges, holder>>

DomainStatuses == {"none", "pending_verification", "verified", "active", "disabled", "released"}

\* proof: the challenge the owner has proven (history)
Absent == [st |-> "none", token |-> 0, expired |-> FALSE, proof |-> 0]
Holds(o, h) == domains[o][h].st \notin {"none", "released"}

\* Writes a row: one that is not released must not meet another organization's.
Write(o, h, row) ==
    /\ row.st # "released" => \A p \in Org \ {o} : ~Holds(p, h)
    /\ domains' = [domains EXCEPT ![o][h] = row]
    /\ holder' = IF row.st # "released" /\ holder[h].org # o
                 THEN [holder EXCEPT ![h] = [org |-> o, since |-> challenges]] ELSE holder

\* A row with a new challenge that nobody has published yet.
Challenged(o, h) ==
    /\ challenges < MaxChallenges
    /\ challenges' = challenges + 1
    /\ Write(o, h, [domains[o][h] EXCEPT !.st = "pending_verification", !.token = challenges',
                                         !.expired = FALSE])

\* canonical without h
Uncanonical(o, h) == [canonical EXCEPT ![o] = IF @ = h THEN NoHost ELSE @]

-----------------------------------------------------------------------------
(* The tenant *)

\* addDomain: assertPlanCapacity under its lock, then a new row or a released one revived.
AddDomain(o, h) ==
    /\ Cardinality({g \in Host : Holds(o, g)}) < MaxDomains
    /\ ~Holds(o, h)
    /\ Challenged(o, h)
    /\ canonical' = Uncanonical(o, h)
    /\ UNCHANGED dns

\* reissueChallenge: any row that is not active, one that was released included.
ReissueChallenge(o, h) ==
    /\ domains[o][h].st \notin {"none", "active"}
    /\ Challenged(o, h)
    /\ UNCHANGED <<canonical, dns>>

\* verifyDomain: the record carries the challenge.
VerifyDomain(o, h) ==
    LET row == domains[o][h]
    IN /\ row.st \notin {"none", "active"}
       /\ row.token # 0 /\ ~row.expired
       /\ row.token \in dns[h]
       /\ Write(o, h, [row EXCEPT !.st = "verified", !.proof = row.token])
       /\ UNCHANGED <<canonical, dns, challenges>>

\* activateDomain
ActivateDomain(o, h) ==
    /\ domains[o][h].st = "verified"
    /\ Write(o, h, [domains[o][h] EXCEPT !.st = "active"])
    /\ UNCHANGED <<canonical, dns, challenges>>

\* setCanonical: only an active domain.
SetCanonical(o, h) ==
    /\ domains[o][h].st = "active"
    /\ canonical' = [canonical EXCEPT ![o] = h]
    /\ UNCHANGED <<domains, dns, challenges, holder>>

\* disableDomain, by the tenant or a super administrator: any row, a released one included.
DisableDomain(o, h) ==
    /\ domains[o][h].st # "none"
    /\ Write(o, h, [domains[o][h] EXCEPT !.st = "disabled"])
    /\ canonical' = Uncanonical(o, h)
    /\ UNCHANGED <<dns, challenges>>

\* Mutant of ReleaseDomain: the challenge stays valid.
ReleaseKeepsChallenge(o, h) ==
    /\ Holds(o, h)
    /\ domains[o][h].st # "active"
    /\ Write(o, h, [domains[o][h] EXCEPT !.st = "released"])
    /\ canonical' = Uncanonical(o, h)
    /\ UNCHANGED <<dns, challenges>>

\* releaseDomain: the hostname is free, and the challenge is gone.
ReleaseDomain(o, h) ==
    /\ Holds(o, h)
    /\ domains[o][h].st # "active"
    /\ Write(o, h, [domains[o][h] EXCEPT !.st = "released", !.token = 0])
    /\ canonical' = Uncanonical(o, h)
    /\ UNCHANGED <<dns, challenges>>

-----------------------------------------------------------------------------
(* The world *)

\* Whoever controls the zone of h publishes a challenge it was given, or removes the records.
PublishRecord(o, h) ==
    /\ domains[o][h].token # 0
    /\ dns' = [dns EXCEPT ![h] = @ \cup {domains[o][h].token}]
    /\ UNCHANGED <<domains, canonical, challenges, holder>>

RemoveRecords(h) ==
    /\ dns' = [dns EXCEPT ![h] = {}]
    /\ UNCHANGED <<domains, canonical, challenges, holder>>

\* DOMAIN_CHALLENGE_TTL_HOURS are over.
ExpireChallenge(o, h) ==
    /\ domains[o][h].token # 0
    /\ domains' = [domains EXCEPT ![o][h].expired = TRUE]
    /\ UNCHANGED <<canonical, dns, challenges, holder>>

-----------------------------------------------------------------------------
DomainInit ==
    /\ domains = [o \in Org |-> [h \in Host |-> Absent]]
    /\ canonical = [o \in Org |-> NoHost]
    /\ dns = [h \in Host |-> {}]
    /\ challenges = 0
    /\ holder = [h \in Host |-> [org |-> NoHost, since |-> 0]]

DomainNext ==
    \E h \in Host :
      \/ RemoveRecords(h)
      \/ \E o \in Org :
           \/ AddDomain(o, h) \/ ReissueChallenge(o, h) \/ VerifyDomain(o, h)
           \/ ActivateDomain(o, h) \/ SetCanonical(o, h) \/ DisableDomain(o, h)
           \/ ReleaseDomain(o, h) \/ PublishRecord(o, h) \/ ExpireChallenge(o, h)

DomainSpec == DomainInit /\ [][DomainNext]_domainVars

-----------------------------------------------------------------------------
(* Properties *)

\* Rows, records and holders hold values of their kind.
DomainTypeOK ==
    /\ domains \in [Org -> [Host -> [st : DomainStatuses, token : 0..MaxChallenges,
                                     expired : BOOLEAN, proof : 0..MaxChallenges]]]
    /\ canonical \in [Org -> Host \cup {NoHost}]
    /\ dns \in [Host -> SUBSET (1..MaxChallenges)]
    /\ challenges \in 0..MaxChallenges
    /\ holder \in [Host -> [org : Org \cup {NoHost}, since : 0..MaxChallenges]]

\* A hostname resolves to an organization only if that organization proved it, with a
\* challenge issued after the hostname last changed hands: no release, new claim, pause,
\* reissue or return of an old row lets a proof from an earlier tenure serve again.  The
\* canonical domain is one that resolves.
HandOverIsProven ==
    \A o \in Org, h \in Host :
        /\ domains[o][h].st = "active" =>
             holder[h].org = o /\ domains[o][h].proof > holder[h].since
        /\ canonical[o] = h => domains[o][h].st = "active"
=============================================================================
