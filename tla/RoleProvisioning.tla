--------------------------- MODULE RoleProvisioning ---------------------------
(***************************************************************************)
(* tsdhn-queue-grants (queue_grants.py): one transaction that retires the  *)
(* roles of the last configuration and creates or repairs the three        *)
(* runtime roles, run again at every deployment, with names that change    *)
(* between deployments, runs that fail half way and an operator who edits  *)
(* roles by hand.                                                          *)
(*                                                                         *)
(* Two runs never overlap past _load_role_state: its REVOKE updates the    *)
(* catalog row of the state table, on which a second run waits and then    *)
(* fails.  The roles a transaction has altered are locked until it ends.   *)
(***************************************************************************)
EXTENDS Integers

CONSTANTS
  Names,      \* names of database roles
  Protected,  \* APP_DB_ROLE and the owner of COMPUTE_DATABASE_URL
  MaxRuns,    \* bound: provisioning runs
  MaxEdits,   \* bound: edits by hand
  Editable,   \* bound: the privileges edited by hand
  NoName      \* no role recorded

Kinds == {"producer", "worker", "purger"}
Order == <<"producer", "worker", "purger">>

\* What a role may do: on the queue's tables, on the schema and table of
\* compute.jobs, by its attributes and memberships ("authority"), by default ACLs
\* that are global or of a managed schema ("managed_default"), by EXECUTE on
\* compute_purger_can_delete, and what this program knows nothing of: other
\* tables, schemas and functions ("other_grant"), default ACLs of another schema
\* or of an object type that is not listed ("other_default").
QueuePrivileges == {"produce", "consume", "inspect", "q_insert", "q_delete"}
ComputePrivileges == {"c_usage", "c_create", "c_select", "c_insert", "c_update"}
Outside == {"other_grant", "other_default"}
Privileges ==
  QueuePrivileges \cup ComputePrivileges \cup {"authority", "managed_default", "execute"}
    \cup Outside

ASSUME RolesAssumption ==
  /\ Protected \subseteq Names /\ NoName \notin Names
  /\ MaxRuns \in Nat /\ MaxEdits \in Nat
  /\ Editable \subseteq Privileges

\* rqueue's capabilities: CONSUME carries INSERT on the queue's jobs.
capability(kind) ==
  CASE kind = "producer" -> {"produce", "q_insert"}
    [] kind = "worker"   -> {"consume", "q_insert"}
    [] kind = "purger"   -> {"inspect"}

\* queue_roles.
extra_queue_privileges(kind) == IF kind = "purger" THEN {"q_delete"} ELSE {}
compute_privileges(kind) ==
  CASE kind = "producer" -> {"c_select", "c_insert"}
    [] kind = "worker"   -> {"c_select", "c_update"}
    [] kind = "purger"   -> {}

\* What docs/database.md promises of each role.
Promised(kind) ==
  CASE kind = "producer" -> {"produce", "q_insert", "c_usage", "c_select", "c_insert"}
    [] kind = "worker"   -> {"consume", "c_usage", "c_select", "c_update"}
    [] kind = "purger"   -> {"inspect", "q_delete", "execute"}

\* What no statement of a run takes from a role that stays.
Survives == Outside \cup {"execute"}

\* A role has all that its kind is promised, and beyond that only what survives.
AsPromised(may, kind) == Promised(kind) \subseteq may /\ may \subseteq Promised(kind) \cup Survives

NoRole == [by |-> "none", may |-> {}]
Roles == [by : {"none", "module", "hand"}, may : SUBSET Privileges]

VARIABLES
  db,       \* what is committed: roles, grants, recorded names, policy
  tx,       \* what the open transaction sees
  pc,       \* the step of provision_queue_roles it is at
  config,   \* the configured names
  left,     \* recorded kinds still to look at for retirement
  locked,   \* roles the transaction altered
  drifted,  \* roles edited by hand since they were provisioned
  unseen,   \* roles dropped by hand, or created by hand during a run
  runs, edits

vars == <<db, tx, pc, config, left, locked, drifted, unseen, runs, edits>>
handVars == <<drifted, unseen, edits>>

States ==
  [role    : [Names -> Roles],
   granted : SUBSET Names,                      \* rqueue's role_queue_grants
   record  : [Kinds -> Names \cup {NoName}],    \* queue_runtime_roles
   policy  : Names \cup {NoName}]               \* whom the delete policy is for

TypeOK ==
  /\ db \in States /\ tx \in States
  /\ pc \in {"idle", "retire", "save"} \cup Kinds
  /\ config \in [Kinds -> Names]
  /\ left \subseteq Kinds
  /\ locked \subseteq Names /\ drifted \subseteq Names /\ unseen \subseteq Names
  /\ runs \in 0..MaxRuns /\ edits \in 0..MaxEdits

Init ==
  /\ db = [role    |-> [n \in Names |-> IF n \in Protected
                                        THEN [by |-> "hand", may |-> {"authority"}] ELSE NoRole],
           granted |-> {},
           record  |-> [k \in Kinds |-> NoName],
           policy  |-> NoName]
  /\ tx = db
  /\ pc = "idle"
  /\ config \in [Kinds -> Names]
  /\ left = {}
  /\ locked = {}
  /\ drifted = {}
  /\ unseen = {}
  /\ runs = 0 /\ edits = 0

Exists(s, n) == s.role[n].by # "none"
Current == {config[k] : k \in Kinds}

-----------------------------------------------------------------------------
(* One run *)

_validate_role_names(c) ==
  /\ \A j, k \in Kinds : j # k => c[j] # c[k]
  /\ \A k \in Kinds : c[k] \notin Protected

accept_existing_role_names(c) == TRUE

_validate_existing_role_names(c) ==
  \A k \in Kinds : Exists(db, c[k]) => c[k] \in db.granted

\* The run starts with the names of its environment, reads the recorded ones
\* and checks.  A check that fails raises before anything is written.
Begin(c) ==
  /\ pc = "idle" /\ runs < MaxRuns
  /\ runs' = runs + 1
  /\ config' = c
  /\ tx' = db
  /\ locked' = {}
  /\ IF _validate_role_names(c) /\ _validate_existing_role_names(c)
     THEN pc' = "retire" /\ left' = {k \in Kinds : db.record[k] # NoName}
     ELSE UNCHANGED <<pc, left>>
  /\ UNCHANGED <<db, handVars>>

\* _retire_role: the policy, the authority, the grants and the role go.
retired(s, k) ==
  LET n == s.record[k]
  IN IF ~Exists(s, n) THEN s
     ELSE [s EXCEPT !.policy = IF k = "purger" THEN NoName ELSE @,
                    !.role[n] = NoRole,
                    !.granted = @ \ {n}]

RetirePrevious(k) ==
  /\ pc = "retire" /\ k \in left
  /\ left' = left \ {k}
  /\ IF tx.record[k] \in Current THEN UNCHANGED <<tx, locked>>
     ELSE tx' = retired(tx, k) /\ locked' = locked \cup {tx.record[k]}
  /\ UNCHANGED <<db, pc, config, handVars, runs>>

RetiredAll ==
  /\ pc = "retire" /\ left = {}
  /\ pc' = Order[1]
  /\ UNCHANGED <<db, tx, config, left, locked, handVars, runs>>

\* rqueue's provision_role: the role, its capabilities and its grant row.  What
\* the role has on the queue's tables is replaced.
provision_role(s, n, k) ==
  [s EXCEPT !.role[n] = [by  |-> IF @.by = "none" THEN "module" ELSE @.by,
                         may |-> (@.may \ QueuePrivileges) \cup capability(k)],
            !.granted = @ \cup {n}]

reset_nothing(s, n) == s

\* Role attributes and memberships go, and the default ACLs its query lists.
_reset_role_security(s, n) ==
  [s EXCEPT !.role[n].may = @ \ {"authority", "managed_default"}]

\* EXECUTE on the function the policy calls, revoked from PUBLIC only, and the
\* policy, dropped and created for the new role.
_grant_purger_delete_policy(s, n) ==
  [s EXCEPT !.role[n].may = @ \cup {"execute"}, !.policy = n]

\* The worker loses INSERT; the purger gets DELETE and its policy.
queue_privileges(s, n, k) ==
  LET t == [s EXCEPT !.role[n].may = (IF k = "worker" THEN @ \ {"q_insert"} ELSE @)
                                       \cup extra_queue_privileges(k)]
  IN IF k = "purger" THEN _grant_purger_delete_policy(t, n) ELSE t

_grant_compute_access(s, n, k) ==
  [s EXCEPT !.role[n].may = (@ \ ComputePrivileges) \cup compute_privileges(k)
                              \cup (IF compute_privileges(k) = {} THEN {} ELSE {"c_usage"})]

ProvisionRole(k) ==
  /\ pc = k
  /\ LET n == config[k]
         s == _reset_role_security(provision_role(tx, n, k), n)
     IN /\ tx' = _grant_compute_access(queue_privileges(s, n, k), n, k)
        /\ locked' = locked \cup {n}
  /\ pc' = CASE k = "producer" -> "worker" [] k = "worker" -> "purger" [] OTHER -> "save"
  /\ UNCHANGED <<db, config, left, handVars, runs>>

CommitUnrecorded ==
  /\ pc = "save"
  /\ db' = tx
  /\ tx' = db'
  /\ drifted' = drifted \ locked
  /\ locked' = {}
  /\ pc' = "idle"
  /\ UNCHANGED <<config, left, unseen, edits, runs>>

\* _save_role_state, and the commit.
Commit ==
  /\ pc = "save"
  /\ db' = [tx EXCEPT !.record = config]
  /\ tx' = db'
  /\ drifted' = drifted \ locked
  /\ locked' = {}
  /\ pc' = "idle"
  /\ UNCHANGED <<config, left, unseen, edits, runs>>

\* A statement fails, a password is missing or the process dies.
Rollback ==
  /\ pc # "idle"
  /\ tx' = db
  /\ locked' = {}
  /\ pc' = "idle"
  /\ UNCHANGED <<db, config, left, handVars, runs>>

-----------------------------------------------------------------------------
(* The operator: edits of roles no open transaction has altered. *)

Edit(n, r) ==
  /\ edits < MaxEdits /\ n \notin locked
  /\ edits' = edits + 1
  /\ drifted' = drifted \cup {n}
  /\ LET edited(s) == [s EXCEPT !.role[n] = r,
                                !.policy = IF r = NoRole /\ @ = n THEN NoName ELSE @]
     IN db' = edited(db) /\ tx' = edited(tx)
  /\ UNCHANGED <<pc, config, left, locked, runs>>

\* GRANT or REVOKE, ALTER ROLE, ALTER DEFAULT PRIVILEGES.
AlterByHand(n) ==
  /\ Exists(db, n)
  /\ UNCHANGED unseen
  /\ \E p \in Editable :
       Edit(n, [db.role[n] EXCEPT !.may = IF p \in @ THEN @ \ {p} ELSE @ \cup {p}])

CreateByHand(n) ==
  /\ ~Exists(db, n)
  /\ unseen' = IF pc = "idle" THEN unseen ELSE unseen \cup {n}
  /\ Edit(n, [by |-> "hand", may |-> {}])

\* DROP OWNED takes the policy for the role with it; rqueue's grant row stays.
DropByHand(n) ==
  /\ Exists(db, n)
  /\ unseen' = unseen \cup {n}
  /\ Edit(n, NoRole)

-----------------------------------------------------------------------------
Next ==
  \/ \E c \in [Kinds -> Names] : Begin(c)
  \/ \E k \in Kinds : RetirePrevious(k) \/ ProvisionRole(k)
  \/ RetiredAll \/ Commit \/ Rollback
  \/ \E n \in Names : AlterByHand(n) \/ CreateByHand(n) \/ DropByHand(n)

Spec == Init /\ [][Next]_vars

-----------------------------------------------------------------------------
(* Properties *)

\* After any sequence of renamed, swapped and failed configurations, every
\* recorded role that was not edited since has what its kind is promised, and
\* the delete policy names the recorded purger.  Of what an earlier configuration
\* or an operator left on it a run repairs the queue's tables, compute.jobs and
\* its schema, attributes, memberships and the default ACLs of the managed
\* schemas.  It does not repair everything docs/database.md says it does ("removes
\* any grant or membership added by hand"): grants on other objects and default
\* ACLs of other schemas stay, and so does EXECUTE on compute_purger_can_delete
\* on a role that was the purger under an earlier configuration.
RecordedRolesExact ==
  \A k \in Kinds :
    LET n == db.record[k]
    IN n \notin drifted \cup {NoName} =>
         /\ AsPromised(db.role[n].may, k)
         /\ k = "purger" => db.policy = n

\* Nothing is orphaned: the roles with queue grants are the recorded ones, so
\* the next run retires those its configuration no longer names.  Only the
\* grant row of a role that was dropped by hand can outlive its record.
GrantsAreRecorded ==
  db.granted \ unseen = {db.record[k] : k \in Kinds} \ (unseen \cup {NoName})

\* What _validate_existing_role_names says: an existing role this module did
\* not create never reaches provision_role, unless its name was that of a
\* provisioned role an operator dropped, or it was created during the run.
UnmanagedUntouched ==
  [][Commit => \A n \in Names \ unseen :
                 db.role[n].by = "hand" => db'.role[n] = db.role[n]]_vars
=============================================================================
