----------------------------- MODULE Subscriptions -----------------------------
(***************************************************************************)
(* The subscriptions of one store and the plan versions they are pinned to *)
(* (services/subscriptionLifecycle.js, subscriptionService.js,             *)
(* subscriptionWorker.js, planVersions.js): grants by super                *)
(* administrators, transitions, plan changes, the sweep of the worker, and *)
(* the publication of versions.  Status and terms are those of the         *)
(* subscription written last.  Limits, invoices and notices are abstracted.*)
(***************************************************************************)
EXTENDS Naturals, Sequences, FiniteSets

CONSTANTS
    Plan,             \* plans
    Granter,          \* requests that grant a subscription
    Publisher,        \* requests that publish a version
    MaxSubscriptions, \* bound: subscriptions of the store
    MaxDrafts,        \* bound: versions drafted by administrators
    MaxEdits          \* bound: transitions, plan changes and cancellations by administrators

ASSUME SubscriptionAssumption ==
    /\ Plan # {}
    /\ MaxSubscriptions \in Nat \ {0}
    /\ MaxDrafts \in Nat /\ MaxEdits \in Nat

VARIABLES
    contracts, \* subscriptions of the store, in the order of their insertion
    current,   \* the subscription with the latest updated_at
    trials,    \* outcomes in organization_trials
    versions,  \* status of the versions of each plan
    granter,   \* what each grant has read, and whether it holds the row lock
    publisher, \* what each publication has locked
    edits      \* administrators' changes so far

subVars == <<contracts, current, trials, versions, granter, publisher, edits>>

SubStates ==
    {"trialing", "active", "past_due", "grace_period", "suspended", "cancelled", "expired"}

Targets ==
    [trialing     |-> {"active", "cancelled", "expired"},
     active       |-> {"past_due", "cancelled", "suspended"},
     past_due     |-> {"active", "grace_period", "cancelled", "suspended"},
     grace_period |-> {"active", "suspended", "cancelled"},
     suspended    |-> {"active", "cancelled"},
     cancelled    |-> {"active"},
     expired      |-> {"active"}]

\* pin: the plan and number of plan_version_id, number 0 for none; end and grace: a time limit
\* is not set, running or over
Row(st, plan, version, end) ==
    [st |-> st, plan |-> plan, pin |-> <<plan, version>>, end |-> end, grace |-> "none",
     ending |-> FALSE]

ActiveVersions(p) == {v \in DOMAIN versions[p] : versions[p][v] = "active"}

\* A grant holds the lock of the subscription it read until it commits.
GrantHolds(s) == \E g \in Granter : granter[g].pc \in {"locked", "resolved"} /\ granter[g].row = s
Fresh(s) == s \in DOMAIN contracts /\ ~GrantHolds(s)

NoGrant == [pc |-> "idle", row |-> 0, plan |-> CHOOSE p \in Plan : TRUE, version |-> 0,
            trial |-> FALSE]
NoPublication == [pc |-> "idle", plan |-> CHOOSE p \in Plan : TRUE, draft |-> 0, old |-> 0]

-----------------------------------------------------------------------------
(* Lifecycle *)

\* transitionSubscription of row s: the edge is checked under the row lock; the column
\* effects are those of transitionEffects.
Transition(s, to, grace) ==
    /\ Fresh(s)
    /\ to \in Targets[contracts[s].st]
    /\ contracts' = [contracts EXCEPT ![s].st = to,
                            ![s].grace = IF to = "suspended" THEN @
                                         ELSE IF to = "grace_period" THEN grace ELSE "none"]
    /\ current' = s

\* POST transition: the row written last; the administrator may leave out grace_until.
AdminTransition(to) ==
    /\ edits < MaxEdits
    /\ edits' = edits + 1
    /\ \E grace \in {"none", "running"} :
         /\ grace = "none" \/ to = "grace_period"
         /\ Transition(current, to, grace)
    /\ UNCHANGED <<trials, versions, granter, publisher>>

\* expireDueTrials, on a row whose trial_end has passed.
ExpireDueTrial(s) ==
    /\ contracts[s].st = "trialing" /\ contracts[s].end = "over"
    /\ Transition(s, "expired", "none")
    /\ trials' = [i \in DOMAIN trials |-> IF trials[i] = "running" THEN "expired" ELSE trials[i]]
    /\ UNCHANGED <<versions, granter, publisher, edits>>

\* escalatePastDue: payment has been failing for PAST_DUE_GRACE_AFTER_DAYS.
EscalatePastDue(s) ==
    /\ contracts[s].st = "past_due"
    /\ Transition(s, "grace_period", "running")
    /\ UNCHANGED <<trials, versions, granter, publisher, edits>>

\* suspendExpiredGrace
SuspendExpiredGrace(s) ==
    /\ contracts[s].st = "grace_period" /\ contracts[s].grace = "over"
    /\ Transition(s, "suspended", "none")
    /\ UNCHANGED <<trials, versions, granter, publisher, edits>>

\* Deadlines pass.
DeadlinePasses(s) ==
    /\ \/ contracts[s].end = "running" /\ contracts' = [contracts EXCEPT ![s].end = "over"]
       \/ contracts[s].grace = "running" /\ contracts' = [contracts EXCEPT ![s].grace = "over"]
    /\ UNCHANGED <<current, trials, versions, granter, publisher, edits>>

-----------------------------------------------------------------------------
(* Grants: startSubscription *)

\* loadSubscription finds the row written last, and waits for its lock.
GrantBegin(g, p, trial) ==
    /\ granter[g].pc = "idle"
    /\ Len(contracts) + Cardinality({h \in Granter : granter[h].pc # "idle"}) < MaxSubscriptions
    /\ granter' = [granter EXCEPT ![g] = [NoGrant EXCEPT !.pc = "waiting", !.row = current,
                                                         !.plan = p, !.trial = trial]]
    /\ UNCHANGED <<contracts, current, trials, versions, publisher, edits>>

\* The lock is free: the row that was found is read again, though it may no longer be the
\* latest.  A store with a subscription that has not ended is refused.
GrantLock(g) ==
    LET s == granter[g].row
    IN /\ granter[g].pc = "waiting" /\ Fresh(s)
       /\ granter' = [granter EXCEPT ![g] =
              IF contracts[s].st \in {"cancelled", "expired"}
              THEN [@ EXCEPT !.pc = "locked"] ELSE NoGrant]
       /\ UNCHANGED <<contracts, current, trials, versions, publisher, edits>>

\* resolveActiveVersion
GrantResolve(g) ==
    /\ granter[g].pc = "locked"
    /\ \/ /\ ActiveVersions(granter[g].plan) = {}
          /\ granter' = [granter EXCEPT ![g] = NoGrant]
       \/ \E v \in ActiveVersions(granter[g].plan) :
            granter' = [granter EXCEPT ![g].pc = "resolved", ![g].version = v]
    /\ UNCHANGED <<contracts, current, trials, versions, publisher, edits>>

\* assertTrialAllowed, the insertions and the commit.  A store that had a trial is refused,
\* and so is a second running trial by its unique index.  Of two grants that overlapped, the
\* one that began later is the latest.
GrantCommit(g) ==
    LET q == granter[g]
        n == Len(contracts) + 1
    IN /\ q.pc = "resolved"
       /\ granter' = [granter EXCEPT ![g] = NoGrant]
       /\ IF q.trial /\ trials # <<>>
          THEN UNCHANGED <<contracts, current, trials>>
          ELSE /\ contracts' = Append(contracts,
                      Row(IF q.trial THEN "trialing" ELSE "active", q.plan, q.version,
                          IF q.trial THEN "running" ELSE "none"))
               /\ current' \in IF current = q.row THEN {n} ELSE {n, current}
               /\ trials' = IF q.trial THEN Append(trials, "running") ELSE trials
       /\ UNCHANGED <<versions, publisher, edits>>

-----------------------------------------------------------------------------
(* Plan changes and scheduled cancellation *)

\* requestPlanChange, when it is applied at once; else it is only recorded for the end of the
\* period, and no code applies the record.
RequestPlanChange(p) ==
    /\ edits < MaxEdits /\ Fresh(current)
    /\ edits' = edits + 1
    /\ \E v \in ActiveVersions(p) :
         contracts' = [contracts EXCEPT ![current].plan = p, ![current].pin = <<p, v>>]
    /\ UNCHANGED <<current, trials, versions, granter, publisher>>

\* PATCH /platform/stores/:id/plan renames the plan of every live row and keeps its pin.  Rows
\* of grants that overlapped may be live together; either may have the later created_at.
PlatformPlanChange(p) ==
    /\ edits < MaxEdits
    /\ edits' = edits + 1
    /\ LET live == {s \in DOMAIN contracts : contracts[s].st \in {"trialing", "active", "past_due"}}
       IN /\ \A s \in live : ~GrantHolds(s)
          /\ contracts' = [s \in DOMAIN contracts |->
                          IF s \in live THEN [contracts[s] EXCEPT !.plan = p] ELSE contracts[s]]
          /\ current' \in IF live = {} THEN {current} ELSE live
    /\ UNCHANGED <<trials, versions, granter, publisher>>

\* cancelAtPeriodEnd and resumeScheduledCancel: a flag that no worker reads.
ScheduleCancel(ending) ==
    /\ edits < MaxEdits /\ Fresh(current)
    /\ ending \/ contracts[current].ending
    /\ edits' = edits + 1
    /\ contracts' = [contracts EXCEPT ![current].ending = ending]
    /\ UNCHANGED <<current, trials, versions, granter, publisher>>

-----------------------------------------------------------------------------
(* Versions *)

Drafts == {d \in Plan \X (2..MaxDrafts + 1) : d[2] \in DOMAIN versions[d[1]]}

CreateDraftVersion(p) ==
    /\ Cardinality(Drafts) < MaxDrafts
    /\ versions' = [versions EXCEPT ![p] = Append(@, "draft")]
    /\ UNCHANGED <<contracts, current, trials, granter, publisher, edits>>

\* publishVersion: the draft is locked and must still be one.
PublishLock(u, p, v) ==
    /\ publisher[u].pc = "idle"
    /\ \A w \in Publisher :
         ~(publisher[w].pc # "idle" /\ publisher[w].plan = p /\ publisher[w].draft = v)
    /\ v \in DOMAIN versions[p] /\ versions[p][v] = "draft"
    /\ publisher' = [publisher EXCEPT ![u] =
           [NoPublication EXCEPT !.pc = "locked", !.plan = p, !.draft = v]]
    /\ UNCHANGED <<contracts, current, trials, versions, granter, edits>>

\* The update that retires sees the version active in its snapshot, and waits if another
\* publication holds that row.
PublishFind(u) ==
    /\ publisher[u].pc = "locked"
    /\ \E old \in IF ActiveVersions(publisher[u].plan) = {} THEN {0}
                 ELSE ActiveVersions(publisher[u].plan) :
         publisher' = [publisher EXCEPT ![u].pc = "found", ![u].old = old]
    /\ UNCHANGED <<contracts, current, trials, versions, granter, edits>>

PublishRetire(u) ==
    LET q == publisher[u]
    IN /\ q.pc = "found"
       /\ \A w \in Publisher :
            ~(publisher[w].pc = "retired" /\ q.old # 0 /\ publisher[w].plan = q.plan
              /\ publisher[w].old = q.old)
       /\ publisher' = [publisher EXCEPT ![u].pc = "retired",
                                         ![u].old = IF @ \in ActiveVersions(q.plan) THEN @ ELSE 0]
       /\ UNCHANGED <<contracts, current, trials, versions, granter, edits>>

\* Mutant of PublishCommit: no index keeps a second version from becoming active.
PublishCommitUnchecked(u) ==
    LET q == publisher[u]
    IN /\ q.pc = "retired"
       /\ publisher' = [publisher EXCEPT ![u] = NoPublication]
       /\ versions' = [versions EXCEPT ![q.plan] = [v \in DOMAIN @ |->
              IF v = q.draft THEN "active" ELSE IF v = q.old THEN "retired" ELSE @[v]]]
       /\ UNCHANGED <<contracts, current, trials, granter, edits>>

\* Activation and commit, or a rollback by idx_plan_versions_one_active.
PublishCommit(u) ==
    LET q == publisher[u]
    IN /\ q.pc = "retired"
       /\ publisher' = [publisher EXCEPT ![u] = NoPublication]
       /\ versions' = IF ActiveVersions(q.plan) \subseteq {q.old}
                      THEN [versions EXCEPT ![q.plan] = [v \in DOMAIN @ |->
                                IF v = q.draft THEN "active"
                                ELSE IF v = q.old THEN "retired" ELSE @[v]]]
                      ELSE versions
       /\ UNCHANGED <<contracts, current, trials, granter, edits>>

-----------------------------------------------------------------------------
\* A store that signed up after migration 058 (no version, no trial_end, no trial recorded),
\* or one that was on trial when it ran.
SubInit ==
    /\ \E p \in Plan :
         \/ contracts = <<Row("trialing", p, 0, "none")>> /\ trials = <<>>
         \/ contracts = <<Row("trialing", p, 1, "running")>> /\ trials = <<"running">>
    /\ current = 1
    /\ versions = [p \in Plan |-> <<"active">>]
    /\ granter = [g \in Granter |-> NoGrant]
    /\ publisher = [u \in Publisher |-> NoPublication]
    /\ edits = 0

SubNext ==
    \/ \E to \in SubStates : AdminTransition(to)
    \/ \E s \in DOMAIN contracts :
         ExpireDueTrial(s) \/ EscalatePastDue(s) \/ SuspendExpiredGrace(s) \/ DeadlinePasses(s)
    \/ \E g \in Granter :
         \/ \E p \in Plan, trial \in BOOLEAN : GrantBegin(g, p, trial)
         \/ GrantLock(g) \/ GrantResolve(g) \/ GrantCommit(g)
    \/ \E p \in Plan :
         RequestPlanChange(p) \/ PlatformPlanChange(p) \/ CreateDraftVersion(p)
    \/ \E ending \in BOOLEAN : ScheduleCancel(ending)
    \/ \E u \in Publisher :
         \/ \E p \in Plan, v \in 1..MaxDrafts + 1 : PublishLock(u, p, v)
         \/ PublishFind(u) \/ PublishRetire(u) \/ PublishCommit(u)

SubSpec == SubInit /\ [][SubNext]_subVars

-----------------------------------------------------------------------------
(* Properties *)

\* Subscriptions, versions and requests hold values of their kind.
SubTypeOK ==
    /\ \A s \in DOMAIN contracts :
         contracts[s] \in [st : SubStates, plan : Plan, pin : Plan \X (0..MaxDrafts + 1),
                     end : {"none", "running", "over"}, grace : {"none", "running", "over"},
                     ending : BOOLEAN]
    /\ current \in DOMAIN contracts
    /\ \A i \in DOMAIN trials : trials[i] \in {"running", "expired"}
    /\ versions \in
         [Plan -> UNION {[1..n -> {"draft", "active", "retired"}] : n \in 1..MaxDrafts + 1}]
    /\ \A g \in Granter : granter[g].pc \in {"idle", "waiting", "locked", "resolved"}
    /\ \A u \in Publisher : publisher[u].pc \in {"idle", "locked", "found", "retired"}
    /\ edits \in 0..MaxEdits

\* Every plan sells exactly one version at any time, however publications overlap and
\* whichever of them is rolled back, and no subscription is pinned to terms that were never
\* published, though a grant may outlast the version it resolved.
SoldVersionsArePublished ==
    /\ \A p \in Plan : Cardinality(ActiveVersions(p)) = 1
    /\ \A s \in DOMAIN contracts :
         LET pin == contracts[s].pin IN pin[2] # 0 => versions[pin[1]][pin[2]] # "draft"
=============================================================================
