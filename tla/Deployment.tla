------------------------------ MODULE Deployment ------------------------------
(***************************************************************************)
(* Bringing up one or two Compose stacks on one database: the compute      *)
(* migrations and the web role (migrate.py), the web's own migrations      *)
(* (drizzle, external), the web's table grants (web_grants.py), then web.  *)
(* Each command is one transaction; a command that fails leaves its stack  *)
(* to be brought up again from the start.                                  *)
(***************************************************************************)
EXTENDS Integers, Sequences, FiniteSets

CONSTANTS
  Stacks,       \* deployments that share the database
  FilesOf,      \* the numbered migration files of each stack's release
  TablesOf,     \* the web tables of each stack's release
  Legacy,       \* web tables that exist and are owned by the web role
  NoStack,
  MaxFailures,  \* commands that fail
  MaxUpdates    \* times a running stack is brought up again

Migrations == UNION {FilesOf[s] : s \in Stacks}
Tables == Legacy \cup UNION {TablesOf[s] : s \in Stacks}

ASSUME DeploymentAssumption ==
  /\ \A s \in Stacks : FilesOf[s] \subseteq Nat /\ IsFiniteSet(FilesOf[s])
  \* A release has the files of the releases before it.
  /\ \A s, t \in Stacks : \A f \in FilesOf[s], g \in FilesOf[t] : f < g => f \in FilesOf[t]
  /\ NoStack \notin Stacks
  /\ MaxFailures \in Nat /\ MaxUpdates \in Nat

VARIABLES
  lock,      \* who holds pg_advisory_xact_lock(_MIGRATION_LOCK_ID)
  applied,   \* the files executed on the schema, in order
  recorded,  \* compute.schema_migrations
  seen,      \* the recorded versions each migrating stack read
  newly,     \* the files its open transaction executed
  webRole,   \* whether the web role exists, with SELECT on compute.jobs
  table,     \* each web table's owner and whether the web role may use it
  defaults,  \* default privileges of the web role on new tables
  stage,     \* how far each stack has come
  failures, updates

deploymentVars == <<lock, applied, recorded, seen, newly, webRole, table, defaults,
          stage, failures, updates>>
schema == <<applied, recorded>>
web == <<webRole, table, defaults>>
counts == <<failures, updates>>

NoTable == [owner |-> "none", granted |-> FALSE]
Exists(t) == table[t].owner # "none"

DeploymentTypeOK ==
  /\ lock \in Stacks \cup {NoStack}
  /\ applied \in Seq(Migrations)
  /\ recorded \subseteq Migrations
  /\ seen \in [Stacks -> SUBSET Migrations]
  /\ newly \in [Stacks -> Seq(Migrations)]
  /\ webRole \in BOOLEAN /\ defaults \in BOOLEAN
  /\ table \in [Tables -> [owner : {"none", "web", "owner"}, granted : BOOLEAN]]
  /\ stage \in [Stacks -> {"start", "migrating", "migrated", "web_migrated", "up"}]
  /\ failures \in 0..MaxFailures /\ updates \in 0..MaxUpdates

DeploymentInit ==
  /\ lock = NoStack
  /\ applied = <<>>
  /\ recorded = {}
  /\ seen = [s \in Stacks |-> {}]
  /\ newly = [s \in Stacks |-> <<>>]
  /\ webRole = (Legacy # {})
  /\ table = [t \in Tables |-> IF t \in Legacy THEN [owner |-> "web", granted |-> TRUE] ELSE NoTable]
  /\ defaults = FALSE
  /\ stage = [s \in Stacks |-> "start"]
  /\ failures = 0 /\ updates = 0

-----------------------------------------------------------------------------
(* migrate.py: install_compute_schema and provision_web_role *)

LockUnguarded(s) ==
  /\ stage[s] = "start"
  /\ lock' = s
  /\ seen' = [seen EXCEPT ![s] = recorded]
  /\ newly' = [newly EXCEPT ![s] = <<>>]
  /\ stage' = [stage EXCEPT ![s] = "migrating"]
  /\ UNCHANGED <<schema, web, counts>>

\* The advisory lock is taken before the recorded versions are read.
LockMigrations(s) ==
  /\ stage[s] = "start" /\ lock = NoStack
  /\ lock' = s
  /\ seen' = [seen EXCEPT ![s] = recorded]
  /\ newly' = [newly EXCEPT ![s] = <<>>]
  /\ stage' = [stage EXCEPT ![s] = "migrating"]
  /\ UNCHANGED <<schema, web, counts>>

Pending(s) == FilesOf[s] \ (seen[s] \cup {newly[s][i] : i \in DOMAIN newly[s]})

\* The next file in name order.
ApplyFile(s) ==
  /\ stage[s] = "migrating"
  /\ \E f \in Pending(s) :
       /\ \A g \in Pending(s) : f <= g
       /\ newly' = [newly EXCEPT ![s] = Append(@, f)]
  /\ UNCHANGED <<lock, schema, seen, web, stage, counts>>

\* transfer_web_ownership: the web role's tables become the owner's.
transferred(t) == IF Exists(t) THEN [table[t] EXCEPT !.owner = "owner"] ELSE table[t]

\* provision_web_role revokes every privilege on public tables and the default
\* ones; then the transaction commits.
CommitMigrations(s) ==
  /\ stage[s] = "migrating" /\ Pending(s) = {}
  /\ applied' = applied \o newly[s]
  /\ recorded' = recorded \cup {newly[s][i] : i \in DOMAIN newly[s]}
  /\ webRole' = TRUE
  /\ table' = [t \in Tables |-> [transferred(t) EXCEPT !.granted = FALSE]]
  /\ defaults' = FALSE
  /\ lock' = NoStack
  /\ stage' = [stage EXCEPT ![s] = "migrated"]
  /\ UNCHANGED <<seen, newly, counts>>

-----------------------------------------------------------------------------
(* The web's migrations and grants *)

\* External: the release's tables are created by the owner.
WebMigrate(s) ==
  /\ stage[s] = "migrated"
  /\ table' = [t \in Tables |-> IF t \in TablesOf[s] /\ ~Exists(t)
                                THEN [owner |-> "owner", granted |-> defaults] ELSE table[t]]
  /\ stage' = [stage EXCEPT ![s] = "web_migrated"]
  /\ UNCHANGED <<lock, schema, seen, newly, webRole, defaults, counts>>

GrantOwnTables(s) ==
  /\ stage[s] = "web_migrated"
  /\ table' = [t \in Tables |-> [table[t] EXCEPT !.granted = @ \/ t \in TablesOf[s]]]
  /\ defaults' = TRUE
  /\ stage' = [stage EXCEPT ![s] = "up"]
  /\ UNCHANGED <<lock, schema, seen, newly, webRole, counts>>

\* GRANT ... ON ALL TABLES IN SCHEMA public; then web may start.
grant_web_tables(s) ==
  /\ stage[s] = "web_migrated"
  /\ table' = [t \in Tables |-> [table[t] EXCEPT !.granted = Exists(t)]]
  /\ defaults' = TRUE
  /\ stage' = [stage EXCEPT ![s] = "up"]
  /\ UNCHANGED <<lock, schema, seen, newly, webRole, counts>>

\* A command fails: its transaction is rolled back and the stack stops there.
Fails(s) ==
  /\ failures < MaxFailures
  /\ stage[s] \in {"migrating", "migrated", "web_migrated"}
  /\ failures' = failures + 1
  /\ lock' = IF stage[s] = "migrating" THEN NoStack ELSE lock
  /\ stage' = [stage EXCEPT ![s] = "start"]
  /\ UNCHANGED <<schema, seen, newly, web, updates>>

\* "up" for another release: all of it once more.
Update(s) ==
  /\ stage[s] = "up" /\ updates < MaxUpdates
  /\ updates' = updates + 1
  /\ stage' = [stage EXCEPT ![s] = "start"]
  /\ UNCHANGED <<lock, schema, seen, newly, web, failures>>

-----------------------------------------------------------------------------
Progress(s) ==
  LockMigrations(s) \/ ApplyFile(s) \/ CommitMigrations(s) \/ WebMigrate(s) \/ grant_web_tables(s)

DeploymentNext == \E s \in Stacks : Progress(s) \/ Fails(s) \/ Update(s)

DeploymentSpec == DeploymentInit /\ [][DeploymentNext]_deploymentVars

\* A stack that was not left up is brought up again.
FairDeployment == DeploymentSpec /\ \A s \in Stacks : WF_deploymentVars(Progress(s))

-----------------------------------------------------------------------------
(* Properties *)

\* Whatever the stacks' releases, failures and order, every migration file is
\* executed on the schema at most once, in name order, and is recorded exactly
\* when it was (install_compute_schema).
AppliedOnceInOrder ==
  /\ \A i, j \in DOMAIN applied : i < j => applied[i] < applied[j]
  /\ recorded = {applied[i] : i \in DOMAIN applied}

\* Once every stack is up for good, the web role may use every web table: the
\* revocations of one stack's migration never outlive the last grant
\* (provision_web_role against grant_web_tables).
EventuallyGranted == <>[](\A t \in Tables : Exists(t) => table[t] = [owner |-> "owner", granted |-> TRUE])
=============================================================================
