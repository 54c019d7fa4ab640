---------------------------- MODULE PlatformServices ----------------------------
(***************************************************************************)
(* The services between a store and the platform: imports, the public API  *)
(* and its keys, custom domains, subscriptions, the team, and the          *)
(* migrations of the database.  They share no row.                         *)
(***************************************************************************)
EXTENDS ImportJobs, ApiRequests, ApiKeys, CustomDomains, Subscriptions, StoreTeam, Migrations

platformVars ==
    <<importVars, callVars, keyVars, domainVars, subVars, teamVars, migrationVars>>

\* Keys and members (ApiKeys, StoreTeam) stay within what the plan allows.
WithinPlan == CreatedWithinPlan /\ SeatsWithinPlan

\* A product row of an import (ImportJobs), a migration (Migrations), an invite (StoreTeam) and
\* the requests under one idempotency key (ApiRequests) take effect once.
AppliedOnce == RowAppliedOnce /\ MigratedOnce /\ InviteAdmitsOnce /\ KeyRunsOnce
=============================================================================
