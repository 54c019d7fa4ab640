------------------------------- MODULE ApiKeys -------------------------------
(***************************************************************************)
(* API keys of one tenant (modules/integrations/service.js) and the plan   *)
(* limit on them (services/planLimits.js).  Administrators create, rotate  *)
(* and revoke keys at the same time, each in a transaction under READ      *)
(* COMMITTED; the advisory locks are held until it ends.                   *)
(*                                                                         *)
(* The limit is read before the capacity lock is taken.  A rotation adds a *)
(* row without asking for capacity, and the key it replaces counts against *)
(* the plan for as long as nobody revokes it.  The other counted resources *)
(* (products, members, domains, webhooks...) take the same lock.           *)
(***************************************************************************)
EXTENDS Naturals, FiniteSets

CONSTANTS
    Key,       \* rows api_keys may hold; a row is a new id
    NoKey,
    KeyAdmin,  \* requests of administrators
    Limit      \* values max_api_keys takes as the plan changes; 0 is no limit

ASSUME KeyAssumption ==
    /\ NoKey \notin Key
    /\ Limit \subseteq Nat /\ Limit # {}

VARIABLES
    keys,          \* api_keys
    planLimit,     \* max_api_keys in force
    peakLimit,     \* the largest limit so far (history)
    capacityLock,  \* holder of the advisory lock plan_capacity:api_keys
    rotationLock,  \* holder of api_key_rotation, by rotation group
    keyAdmins      \* what each request is doing

keyVars == <<keys, planLimit, peakLimit, capacityLock, rotationLock, keyAdmins>>

KeyStates ==
    [st : {"none", "active", "revoked"}, overlap : {"none", "open", "ended"},
     from : Key \cup {NoKey}, group : Key \cup {NoKey}]
Unused == [st |-> "none", overlap |-> "none", from |-> NoKey, group |-> NoKey]
KeyAdminStates ==
    [pc : {"idle", "limit", "room", "loaded", "reread", "done"},
     key : Key \cup {NoKey}, seen : Nat]

NoAdmin == "free"
ASSUME AdminAssumption == NoAdmin \notin KeyAdmin
Active == {k \in Key : keys[k].st = "active"}
Unlimited(l) == l = 0
Higher(l) == IF Unlimited(l) \/ Unlimited(peakLimit) THEN 0
             ELSE IF l > peakLimit THEN l ELSE peakLimit
Step(a, pc) == keyAdmins' = [keyAdmins EXCEPT ![a].pc = pc]

-----------------------------------------------------------------------------
(* createApiKey *)

\* assertPlanCapacity, before its lock: fetchPlanLimitSnapshot.
ReadLimit(a) ==
    /\ keyAdmins[a].pc = "idle"
    /\ keyAdmins' = [keyAdmins EXCEPT ![a].pc = "limit", ![a].seen = planLimit]
    /\ UNCHANGED <<keys, planLimit, peakLimit, capacityLock, rotationLock>>

\* Mutant of AssertCapacity: counted without the lock.
CountUnlocked(a) ==
    /\ keyAdmins[a].pc = "limit"
    /\ IF Unlimited(keyAdmins[a].seen) \/ Cardinality(Active) + 1 <= keyAdmins[a].seen
       THEN Step(a, "room") ELSE Step(a, "done")
    /\ UNCHANGED <<keys, planLimit, peakLimit, capacityLock, rotationLock>>

\* assertPlanCapacity: without a limit there is no lock; a full plan ends the transaction.
AssertCapacity(a) ==
    /\ keyAdmins[a].pc = "limit"
    /\ IF Unlimited(keyAdmins[a].seen)
       THEN Step(a, "room") /\ UNCHANGED capacityLock
       ELSE /\ capacityLock = NoAdmin
            /\ IF Cardinality(Active) + 1 <= keyAdmins[a].seen
               THEN Step(a, "room") /\ capacityLock' = a
               ELSE Step(a, "done") /\ UNCHANGED capacityLock
    /\ UNCHANGED <<keys, planLimit, peakLimit, rotationLock>>

\* The insert and the commit, which frees the lock.
InsertKey(a) ==
    /\ keyAdmins[a].pc = "room"
    /\ \E k \in Key :
         /\ keys[k] = Unused
         /\ keys' = [keys EXCEPT ![k] =
              [st |-> "active", overlap |-> "none", from |-> NoKey, group |-> k]]
    /\ capacityLock' = IF capacityLock = a THEN NoAdmin ELSE capacityLock
    /\ Step(a, "done")
    /\ UNCHANGED <<planLimit, peakLimit, rotationLock>>

-----------------------------------------------------------------------------
(* rotateApiKey *)

\* The key is loaded and its status checked.
LoadKey(a, k) ==
    /\ keyAdmins[a].pc = "idle"
    /\ keys[k].st = "active"
    /\ keyAdmins' = [keyAdmins EXCEPT ![a].pc = "loaded", ![a].key = k]
    /\ UNCHANGED <<keys, planLimit, peakLimit, capacityLock, rotationLock>>

\* Mutant of LockAndReread: what was loaded before the lock is trusted.
LockOnly(a) ==
    LET k == keyAdmins[a].key
    IN /\ keyAdmins[a].pc = "loaded"
       /\ rotationLock[keys[k].group] = NoAdmin
       /\ rotationLock' = [rotationLock EXCEPT ![keys[k].group] = a]
       /\ Step(a, "reread")
       /\ UNCHANGED <<keys, planLimit, peakLimit, capacityLock>>

\* The lock of the rotation group, and the key again: the loser of two rotations stops.
LockAndReread(a) ==
    LET k == keyAdmins[a].key
    IN /\ keyAdmins[a].pc = "loaded"
       /\ rotationLock[keys[k].group] = NoAdmin
       /\ IF keys[k].overlap # "none" \/ keys[k].st # "active"
          THEN Step(a, "done") /\ UNCHANGED rotationLock
          ELSE Step(a, "reread") /\ rotationLock' = [rotationLock EXCEPT ![keys[k].group] = a]
       /\ UNCHANGED <<keys, planLimit, peakLimit, capacityLock>>

\* The successor, the end of the old key's overlap and the commit.  A key revoked since it
\* was reread fails the table's CHECK when nothing preceded it; another one goes through.
RotateKey(a) ==
    LET k == keyAdmins[a].key
        refused == keys[k].st = "revoked" /\ keys[k].from = NoKey
    IN /\ keyAdmins[a].pc = "reread"
       /\ IF refused THEN UNCHANGED keys
          ELSE \E new \in Key, overlap \in {"open", "ended"} :
                 /\ keys[new] = Unused
                 /\ keys' = [keys EXCEPT
                      ![new] = [st |-> "active", overlap |-> "none", from |-> k,
                                group |-> keys[k].group],
                      ![k].overlap = overlap]
       /\ rotationLock' = [rotationLock EXCEPT ![keys[k].group] = NoAdmin]
       /\ Step(a, "done")
       /\ UNCHANGED <<planLimit, peakLimit, capacityLock>>

-----------------------------------------------------------------------------
\* revokeApiKey, whatever the row has become since it was loaded.
RevokeKey(a, k) ==
    /\ keyAdmins[a].pc = "idle"
    /\ keys[k].st = "active"
    /\ keys' = [keys EXCEPT ![k].st = "revoked", ![k].overlap = "none"]
    /\ Step(a, "done")
    /\ UNCHANGED <<planLimit, peakLimit, capacityLock, rotationLock>>

\* Time passes overlap_until; no row changes.
OverlapEnds(k) ==
    /\ keys[k].overlap = "open"
    /\ keys' = [keys EXCEPT ![k].overlap = "ended"]
    /\ UNCHANGED <<planLimit, peakLimit, capacityLock, rotationLock, keyAdmins>>

\* The tenant changes plan, or an override starts or ends.
ChangeLimit(l) ==
    /\ l # planLimit
    /\ planLimit' = l
    /\ peakLimit' = Higher(l)
    /\ UNCHANGED <<keys, capacityLock, rotationLock, keyAdmins>>

-----------------------------------------------------------------------------
KeyInit ==
    /\ keys = [k \in Key |-> Unused]
    /\ planLimit \in Limit
    /\ peakLimit = planLimit
    /\ capacityLock = NoAdmin
    /\ rotationLock = [k \in Key |-> NoAdmin]
    /\ keyAdmins = [a \in KeyAdmin |-> [pc |-> "idle", key |-> NoKey, seen |-> 0]]

KeyNext ==
    \/ \E a \in KeyAdmin :
         \/ ReadLimit(a) \/ AssertCapacity(a) \/ InsertKey(a)
         \/ LockAndReread(a) \/ RotateKey(a)
         \/ \E k \in Key : LoadKey(a, k) \/ RevokeKey(a, k)
    \/ \E k \in Key : OverlapEnds(k)
    \/ \E l \in Limit : ChangeLimit(l)

KeySpec == KeyInit /\ [][KeyNext]_keyVars

-----------------------------------------------------------------------------
(* Properties *)

\* Columns, locks and requests hold values of their kind.
KeyTypeOK ==
    /\ keys \in [Key -> KeyStates]
    /\ planLimit \in Limit
    /\ peakLimit \in Nat
    /\ capacityLock \in KeyAdmin \cup {NoAdmin}
    /\ rotationLock \in [Key -> KeyAdmin \cup {NoAdmin}]
    /\ keyAdmins \in [KeyAdmin -> KeyAdminStates]

\* Rotations that race each other, revocations and the end of overlaps leave each rotation
\* group at most one key without an end; every other usable key of it is running out.
OneCurrentKey ==
    \A k, other \in Active :
        /\ keys[k].group = keys[other].group
        /\ keys[k].overlap = "none" /\ keys[other].overlap = "none"
        => k = other

\* However creations race each other and the plan changes, the active keys somebody created
\* never exceed the largest limit the plan has had: rotation is the only way past it.
CreatedWithinPlan ==
    Unlimited(peakLimit) \/ Cardinality({k \in Active : keys[k].from = NoKey}) <= peakLimit
=============================================================================
