------------------------ MODULE RoleProvisioningProofs ------------------------
(***************************************************************************)
(* The provisioning of database roles, for any number of names, runs and   *)
(* edits by hand: nothing granted is forgotten and no role the module did  *)
(* not create is changed.                                                  *)
(***************************************************************************)
EXTENDS RoleProvisioning, TLAPS

\* Kinds the open transaction has provisioned.
Provisioned ==
  CASE pc = "worker" -> {"producer"}
    [] pc = "purger" -> {"producer", "worker"}
    [] pc = "save"   -> Kinds
    [] OTHER         -> {}

\* A recorded role the open transaction has not retired.
Kept(n) == \E k \in Kinds : db.record[k] = n /\ (k \in left \/ n \in Current)

\* The record names a role for one kind only, and is not written before Commit.
RecordInv ==
  /\ tx.record = db.record
  /\ \A j, k \in Kinds : j # k /\ db.record[j] = db.record[k] => db.record[j] = NoName
  /\ pc # "idle" => \A j, k \in Kinds : j # k => config[j] # config[k]
  /\ pc = "retire" => \A k \in left : db.record[k] \in Names
  /\ pc \in Kinds \cup {"save"} => left = {}

\* Who has grants, before and during a run.
GrantInv ==
  /\ \A n \in Names \ unseen : n \in db.granted <=> \E k \in Kinds : db.record[k] = n
  /\ pc # "idle" =>
       \A n \in Names \ unseen :
         n \in tx.granted <=> Kept(n) \/ \E k \in Provisioned : config[k] = n
  /\ pc # "idle" => \A k \in Provisioned : config[k] \in locked

\* Who created whom: grants are of the module's own roles, and a run leaves
\* alone every role that is neither configured nor recorded.
OriginInv ==
  /\ \A n \in db.granted \ unseen : db.role[n].by = "module"
  /\ pc # "idle" => \A n \in tx.granted \ unseen : tx.role[n].by = "module"
  /\ pc # "idle" => \A n \in Current \ unseen :
       db.role[n].by # "hand" /\ tx.role[n].by # "hand"
  /\ pc # "idle" => \A n \in Names \ (Current \cup unseen) :
       (\A k \in Kinds : db.record[k] # n) => tx.role[n] = db.role[n]

\* What the transaction has provisioned is as promised, and locked until Commit.
ExactInv ==
  /\ RecordedRolesExact
  /\ pc # "idle" => \A k \in Provisioned :
       /\ AsPromised(tx.role[config[k]].may, k)
       /\ k = "purger" => tx.policy = config[k]

IInv == TypeOK /\ RecordInv /\ GrantInv /\ OriginInv /\ ExactInv

-----------------------------------------------------------------------------
(* What the statements of a run do to a state of the database *)

\* The parts of a state in which one role is replaced.
Replaced(s, t, n, r, g, p) ==
  /\ t \in States
  /\ t.record = s.record /\ t.granted = g /\ t.policy = p
  /\ t.role[n] = r
  /\ \A m \in Names : m # n => t.role[m] = s.role[m]

\* A state stays a state when one role, the grants and the policy are replaced.
LEMMA RoleReplaced ==
  ASSUME NEW s \in States, NEW n \in Names, NEW r \in Roles,
         NEW g \in SUBSET Names, NEW p \in Names \cup {NoName}
  PROVE  Replaced(s, [s EXCEPT !.role[n] = r, !.granted = g, !.policy = p], n, r, g, p)
BY DEF States, Replaced

\* provision_role grants to the role and keeps its origin, if it has one.
LEMMA ProvisionRoleEffect ==
  ASSUME NEW s \in States, NEW n \in Names, NEW k \in Kinds
  PROVE  Replaced(s, provision_role(s, n, k), n,
                  [by  |-> IF s.role[n].by = "none" THEN "module" ELSE s.role[n].by,
                   may |-> (s.role[n].may \ QueuePrivileges) \cup capability(k)],
                  s.granted \cup {n}, s.policy)
<1> DEFINE r == [by  |-> IF s.role[n].by = "none" THEN "module" ELSE s.role[n].by,
                 may |-> (s.role[n].may \ QueuePrivileges) \cup capability(k)]
<1>1. s.role[n] \in Roles BY DEF States
<1>2. capability(k) \subseteq Privileges BY DEF capability, Privileges, QueuePrivileges, Kinds
<1>3. r \in Roles BY <1>1, <1>2 DEF Roles
<1>4. provision_role(s, n, k)
        = [s EXCEPT !.role[n] = r, !.granted = s.granted \cup {n}, !.policy = s.policy]
  BY DEF provision_role, States
<1>5. s.policy \in Names \cup {NoName} /\ s.granted \cup {n} \in SUBSET Names BY DEF States
<1> HIDE DEF r
<1>6. Replaced(s, [s EXCEPT !.role[n] = r, !.granted = s.granted \cup {n},
                            !.policy = s.policy], n, r, s.granted \cup {n}, s.policy)
  BY <1>3, <1>5, RoleReplaced
<1>7. QED BY <1>4, <1>6 DEF r

\* _reset_role_security takes away attributes, memberships and managed defaults.
LEMMA ResetEffect ==
  ASSUME NEW s \in States, NEW n \in Names
  PROVE  Replaced(s, _reset_role_security(s, n), n,
                  [by |-> s.role[n].by, may |-> s.role[n].may \ {"authority", "managed_default"}],
                  s.granted, s.policy)
<1> DEFINE r == [by |-> s.role[n].by, may |-> s.role[n].may \ {"authority", "managed_default"}]
<1>1. s.role[n] \in Roles BY DEF States
<1>2. r \in Roles /\ r = [s.role[n] EXCEPT !.may = s.role[n].may \ {"authority", "managed_default"}]
  BY <1>1 DEF Roles
<1>3. _reset_role_security(s, n)
        = [s EXCEPT !.role[n] = r, !.granted = s.granted, !.policy = s.policy]
  BY <1>1, <1>2 DEF _reset_role_security, States
<1>4. s.policy \in Names \cup {NoName} /\ s.granted \in SUBSET Names BY DEF States
<1> HIDE DEF r
<1>5. Replaced(s, [s EXCEPT !.role[n] = r, !.granted = s.granted, !.policy = s.policy],
               n, r, s.granted, s.policy)
  BY <1>2, <1>4, RoleReplaced
<1>6. QED BY <1>3, <1>5 DEF r

\* The worker loses INSERT, the purger gets DELETE, EXECUTE and the policy.
LEMMA QueuePrivilegesEffect ==
  ASSUME NEW s \in States, NEW n \in Names, NEW k \in Kinds
  PROVE  Replaced(s, queue_privileges(s, n, k), n,
                  [by  |-> s.role[n].by,
                   may |-> (IF k = "worker" THEN s.role[n].may \ {"q_insert"}
                            ELSE s.role[n].may) \cup extra_queue_privileges(k)
                             \cup (IF k = "purger" THEN {"execute"} ELSE {})],
                  s.granted, IF k = "purger" THEN n ELSE s.policy)
<1> DEFINE may == (IF k = "worker" THEN s.role[n].may \ {"q_insert"} ELSE s.role[n].may)
                    \cup extra_queue_privileges(k)
                    \cup (IF k = "purger" THEN {"execute"} ELSE {})
           r == [by |-> s.role[n].by, may |-> may]
           p == IF k = "purger" THEN n ELSE s.policy
<1>1. s.role[n] \in Roles BY DEF States
<1>2. may \in SUBSET Privileges BY <1>1 DEF Roles, extra_queue_privileges, Privileges, QueuePrivileges
<1>3. r \in Roles /\ r = [s.role[n] EXCEPT !.may = may] BY <1>1, <1>2 DEF Roles
<1>4. queue_privileges(s, n, k)
        = [s EXCEPT !.role[n] = r, !.granted = s.granted, !.policy = p]
  <2>1. CASE k = "purger"
    <3> DEFINE m == s.role[n].may \cup extra_queue_privileges(k)
               t == [s EXCEPT !.role[n].may = m]
    <3>1. queue_privileges(s, n, k) = [t EXCEPT !.role[n].may = @ \cup {"execute"}, !.policy = n]
      BY <2>1 DEF queue_privileges, _grant_purger_delete_policy
    <3>2. may = m \cup {"execute"} /\ p = n BY <2>1
    <3> HIDE DEF m, may, p
    <3>3. t.role[n].may = m BY <1>1 DEF States, Roles
    <3>4. [t EXCEPT !.role[n].may = m \cup {"execute"}, !.policy = n]
            = [s EXCEPT !.role[n] = r, !.granted = s.granted, !.policy = p]
      BY <1>1, <1>3, <3>2 DEF States, Roles
    <3>5. QED BY <3>1, <3>3, <3>4
  <2>2. CASE k # "purger"
    BY <1>1, <1>3, <2>2 DEF queue_privileges, States
  <2>3. QED BY <2>1, <2>2
<1>5. p \in Names \cup {NoName} /\ s.granted \in SUBSET Names BY DEF States
<1> HIDE DEF r, p
<1>6. Replaced(s, [s EXCEPT !.role[n] = r, !.granted = s.granted, !.policy = p],
               n, r, s.granted, p)
  BY <1>3, <1>5, RoleReplaced
<1>7. QED BY <1>4, <1>6 DEF r, p

\* Compute privileges are taken away and given as the kind has them.
LEMMA ComputeAccessEffect ==
  ASSUME NEW s \in States, NEW n \in Names, NEW k \in Kinds
  PROVE  Replaced(s, _grant_compute_access(s, n, k), n,
                  [by  |-> s.role[n].by,
                   may |-> (s.role[n].may \ ComputePrivileges) \cup compute_privileges(k)
                             \cup (IF compute_privileges(k) = {} THEN {} ELSE {"c_usage"})],
                  s.granted, s.policy)
<1> DEFINE may == (s.role[n].may \ ComputePrivileges) \cup compute_privileges(k)
                    \cup (IF compute_privileges(k) = {} THEN {} ELSE {"c_usage"})
           r == [by |-> s.role[n].by, may |-> may]
<1>1. s.role[n] \in Roles BY DEF States
<1>2. compute_privileges(k) \subseteq Privileges BY DEF compute_privileges, Privileges, ComputePrivileges, Kinds
<1>3. may \in SUBSET Privileges BY <1>1, <1>2 DEF Roles, Privileges, ComputePrivileges
<1>4. r \in Roles /\ r = [s.role[n] EXCEPT !.may = may] BY <1>1, <1>3 DEF Roles
<1>5. _grant_compute_access(s, n, k)
        = [s EXCEPT !.role[n] = r, !.granted = s.granted, !.policy = s.policy]
  BY <1>1, <1>4 DEF _grant_compute_access, States
<1>6. s.policy \in Names \cup {NoName} /\ s.granted \in SUBSET Names BY DEF States
<1> HIDE DEF r
<1>7. Replaced(s, [s EXCEPT !.role[n] = r, !.granted = s.granted, !.policy = s.policy],
               n, r, s.granted, s.policy)
  BY <1>4, <1>6, RoleReplaced
<1>8. QED BY <1>5, <1>7 DEF r

\* All of them together, as ProvisionRole applies them.
ProvisionedState(s, n, k) ==
  LET t == _reset_role_security(provision_role(s, n, k), n)
  IN _grant_compute_access(queue_privileges(t, n, k), n, k)

\* A provisioned role is as promised to its kind, whatever it had.
LEMMA ProvisionedEffect ==
  ASSUME NEW s \in States, NEW n \in Names, NEW k \in Kinds,
         NEW t, t = ProvisionedState(s, n, k)
  PROVE  /\ t \in States /\ t.record = s.record
         /\ t.granted = s.granted \cup {n}
         /\ t.policy = IF k = "purger" THEN n ELSE s.policy
         /\ t.role[n].by = IF s.role[n].by = "none" THEN "module" ELSE s.role[n].by
         /\ AsPromised(t.role[n].may, k)
         /\ \A m \in Names : m # n => t.role[m] = s.role[m]
<1> DEFINE t1 == provision_role(s, n, k)
           t2 == _reset_role_security(t1, n)
           t3 == queue_privileges(t2, n, k)
           t4 == _grant_compute_access(t3, n, k)
<1>1. /\ t1 \in States /\ t1.record = s.record /\ t1.granted = s.granted \cup {n}
      /\ t1.policy = s.policy
      /\ t1.role[n].by = IF s.role[n].by = "none" THEN "module" ELSE s.role[n].by
      /\ t1.role[n].may = (s.role[n].may \ QueuePrivileges) \cup capability(k)
      /\ \A m \in Names : m # n => t1.role[m] = s.role[m]
  <2>1. Replaced(s, t1, n,
                 [by  |-> IF s.role[n].by = "none" THEN "module" ELSE s.role[n].by,
                  may |-> (s.role[n].may \ QueuePrivileges) \cup capability(k)],
                 s.granted \cup {n}, s.policy)
    BY ProvisionRoleEffect
  <2>2. QED BY <2>1 DEF Replaced
<1> HIDE DEF t1
<1>2. /\ t2 \in States /\ t2.record = t1.record /\ t2.granted = t1.granted
      /\ t2.policy = t1.policy /\ t2.role[n].by = t1.role[n].by
      /\ t2.role[n].may = t1.role[n].may \ {"authority", "managed_default"}
      /\ \A m \in Names : m # n => t2.role[m] = t1.role[m]
  <2>1. Replaced(t1, t2, n, [by |-> t1.role[n].by, may |-> t1.role[n].may \ {"authority", "managed_default"}],
                 t1.granted, t1.policy)
    BY <1>1, ResetEffect
  <2>2. QED BY <2>1 DEF Replaced
<1> HIDE DEF t2
<1>3. /\ t3 \in States /\ t3.record = t2.record /\ t3.granted = t2.granted
      /\ t3.policy = (IF k = "purger" THEN n ELSE t2.policy)
      /\ t3.role[n].by = t2.role[n].by
      /\ t3.role[n].may = (IF k = "worker" THEN t2.role[n].may \ {"q_insert"}
                           ELSE t2.role[n].may) \cup extra_queue_privileges(k)
                          \cup (IF k = "purger" THEN {"execute"} ELSE {})
      /\ \A m \in Names : m # n => t3.role[m] = t2.role[m]
  <2>1. Replaced(t2, t3, n,
                 [by  |-> t2.role[n].by,
                  may |-> (IF k = "worker" THEN t2.role[n].may \ {"q_insert"}
                           ELSE t2.role[n].may) \cup extra_queue_privileges(k)
                            \cup (IF k = "purger" THEN {"execute"} ELSE {})],
                 t2.granted, IF k = "purger" THEN n ELSE t2.policy)
    BY <1>2, QueuePrivilegesEffect
  <2>2. QED BY <2>1 DEF Replaced
<1> HIDE DEF t3
<1>4. /\ t4 \in States /\ t4.record = t3.record /\ t4.granted = t3.granted
      /\ t4.policy = t3.policy /\ t4.role[n].by = t3.role[n].by
      /\ t4.role[n].may = (t3.role[n].may \ ComputePrivileges) \cup compute_privileges(k)
                            \cup (IF compute_privileges(k) = {} THEN {} ELSE {"c_usage"})
      /\ \A m \in Names : m # n => t4.role[m] = t3.role[m]
  <2>1. Replaced(t3, t4, n,
                 [by  |-> t3.role[n].by,
                  may |-> (t3.role[n].may \ ComputePrivileges) \cup compute_privileges(k)
                            \cup (IF compute_privileges(k) = {} THEN {} ELSE {"c_usage"})],
                 t3.granted, t3.policy)
    BY <1>3, ComputeAccessEffect
  <2>2. QED BY <2>1 DEF Replaced
<1>5. t = t4 BY DEF ProvisionedState, t1, t2, t3
<1> HIDE DEF t4
<1>6. AsPromised(t4.role[n].may, k)
  <2>1. s.role[n].may \subseteq Privileges BY DEF States, Roles
  <2>2. CASE k = "producer"
    BY <1>1, <1>2, <1>3, <1>4, <2>1, <2>2
       DEF capability, extra_queue_privileges, compute_privileges, Promised,
           AsPromised, Survives, Outside, Privileges, QueuePrivileges, ComputePrivileges
  <2>3. CASE k = "worker"
    BY <1>1, <1>2, <1>3, <1>4, <2>1, <2>3
       DEF capability, extra_queue_privileges, compute_privileges, Promised,
           AsPromised, Survives, Outside, Privileges, QueuePrivileges, ComputePrivileges
  <2>4. CASE k = "purger"
    BY <1>1, <1>2, <1>3, <1>4, <2>1, <2>4
       DEF capability, extra_queue_privileges, compute_privileges, Promised,
           AsPromised, Survives, Outside, Privileges, QueuePrivileges, ComputePrivileges
  <2>5. QED BY <2>2, <2>3, <2>4 DEF Kinds
<1>7. QED BY <1>1, <1>2, <1>3, <1>4, <1>5, <1>6 DEF AsPromised

\* A retired role is gone with its grants, unless it was gone before.
LEMMA RetiredEffect ==
  ASSUME NEW s \in States, NEW k \in Kinds, NEW n \in Names, n = s.record[k],
         NEW t, t = retired(s, k)
  PROVE  /\ t \in States /\ t.record = s.record
         /\ n \in t.granted => n \in s.granted /\ s.role[n].by = "none"
         /\ \A m \in Names : m # n =>
              t.role[m] = s.role[m] /\ (m \in t.granted <=> m \in s.granted)
<1>1. CASE ~Exists(s, n) BY <1>1 DEF retired, Exists
<1>2. CASE Exists(s, n)
  <2> DEFINE p == IF k = "purger" THEN NoName ELSE s.policy
  <2>1. t = [s EXCEPT !.role[n] = NoRole, !.granted = s.granted \ {n}, !.policy = p]
    BY <1>2 DEF retired, States
  <2>2. p \in Names \cup {NoName} /\ NoRole \in Roles BY DEF States, Roles, NoRole
  <2>3. s.granted \ {n} \in SUBSET Names BY DEF States
  <2> HIDE DEF p
  <2>4. Replaced(s, [s EXCEPT !.role[n] = NoRole, !.granted = s.granted \ {n}, !.policy = p],
                 n, NoRole, s.granted \ {n}, p)
    BY <2>2, <2>3, RoleReplaced
  <2>5. QED BY <2>1, <2>4 DEF Replaced
<1>3. QED BY <1>1, <1>2

\* An edit by hand replaces one role; a dropped one takes its policy along.
EditedState(s, n, r) ==
  [s EXCEPT !.role[n] = r, !.policy = IF r = NoRole /\ @ = n THEN NoName ELSE @]

\* Only the edited role changes, and the policy only with it.
LEMMA EditedEffect ==
  ASSUME NEW s \in States, NEW n \in Names, NEW r \in Roles,
         NEW t, t = EditedState(s, n, r)
  PROVE  /\ t \in States /\ t.record = s.record /\ t.granted = s.granted
         /\ s.policy # n => t.policy = s.policy
         /\ t.role[n] = r
         /\ \A m \in Names : m # n => t.role[m] = s.role[m]
<1> DEFINE p == IF r = NoRole /\ s.policy = n THEN NoName ELSE s.policy
<1>1. t = [s EXCEPT !.role[n] = r, !.granted = s.granted, !.policy = p]
  BY DEF States, EditedState
<1>2. p \in Names \cup {NoName} /\ s.granted \in SUBSET Names BY DEF States
<1>3. s.policy # n => p = s.policy OBVIOUS
<1> HIDE DEF p
<1>4. Replaced(s, [s EXCEPT !.role[n] = r, !.granted = s.granted, !.policy = p],
               n, r, s.granted, p)
  BY <1>2, RoleReplaced
<1>5. QED BY <1>1, <1>3, <1>4 DEF Replaced

-----------------------------------------------------------------------------
(* The invariant, action by action *)

\* No role is recorded or granted at first.
LEMMA InitIInv == ASSUME Init PROVE IInv
<1>1. TypeOK
  <2>1. [by |-> "hand", may |-> {"authority"}] \in Roles /\ NoRole \in Roles
    BY DEF Roles, NoRole, Privileges
  <2>2. db \in States BY <2>1 DEF Init, States
  <2>3. QED BY <2>2, RolesAssumption DEF Init, TypeOK, RolesAssumption
<1>2. \A k \in Kinds : db.record[k] = NoName BY DEF Init
<1>3. RecordInv BY <1>2 DEF Init, RecordInv, Kinds
<1>4. GrantInv BY <1>2, RolesAssumption DEF Init, GrantInv, RolesAssumption
<1>5. OriginInv BY DEF Init, OriginInv
<1>6. ExactInv BY <1>2 DEF Init, ExactInv, RecordedRolesExact
<1>7. QED BY <1>1, <1>3, <1>4, <1>5, <1>6 DEF IInv

\* A run that passes the checks has names of roles the module may touch.
LEMMA BeginStep ==
  ASSUME IInv, NEW c \in [Kinds -> Names], Begin(c) PROVE IInv'
<1> USE DEF IInv
<1>1. TypeOK'
  <2>1. pc' \in {"idle", "retire"} /\ left' \subseteq Kinds BY DEF Begin, TypeOK
  <2>2. runs' \in 0..MaxRuns BY RolesAssumption DEF Begin, TypeOK, RolesAssumption
  <2>3. /\ db' = db /\ tx' = db /\ config' = c /\ locked' = {}
        /\ drifted' = drifted /\ unseen' = unseen /\ edits' = edits
    BY DEF Begin, handVars
  <2>4. QED BY <2>1, <2>2, <2>3 DEF TypeOK
<1>2. CASE ~(_validate_role_names(c) /\ _validate_existing_role_names(c))
  <2>1. pc' = "idle" /\ db' = db /\ tx' = db /\ drifted' = drifted /\ unseen' = unseen
    BY <1>2 DEF Begin, handVars
  <2>2. RecordInv' BY <2>1 DEF RecordInv, Kinds
  <2>3. GrantInv' BY <2>1 DEF GrantInv
  <2>4. OriginInv' BY <2>1 DEF OriginInv
  <2>5. ExactInv' BY <2>1 DEF ExactInv, RecordedRolesExact
  <2>6. QED BY <1>1, <2>2, <2>3, <2>4, <2>5
<1>3. CASE _validate_role_names(c) /\ _validate_existing_role_names(c)
  <2>1. /\ pc' = "retire" /\ db' = db /\ tx' = db /\ config' = c
        /\ drifted' = drifted /\ unseen' = unseen
        /\ left' = {k \in Kinds : db.record[k] # NoName}
    BY <1>3 DEF Begin, handVars
  <2>2. RecordInv'
    BY <1>3, <2>1 DEF RecordInv, Kinds, _validate_role_names, TypeOK, States
  <2>3. Provisioned' = {} BY <2>1 DEF Provisioned
  <2>4. GrantInv'
    <3>1. ASSUME NEW n \in Names PROVE Kept(n)' <=> \E k \in Kinds : db.record[k] = n
      BY <2>1, RolesAssumption DEF Kept, RolesAssumption
    <3>2. QED BY <2>1, <2>3, <3>1 DEF GrantInv
  <2>5. OriginInv'
    <3>1. ASSUME NEW n \in Current' \ unseen PROVE db.role[n].by # "hand"
      <4>1. PICK k \in Kinds : n = c[k] BY <2>1, <3>1 DEF Current
      <4>2. Exists(db, n) => n \in db.granted
        BY <1>3, <4>1 DEF _validate_existing_role_names
      <4>3. QED BY <3>1, <4>2 DEF OriginInv, Exists
    <3>2. QED BY <2>1, <3>1 DEF OriginInv
  <2>6. ExactInv' BY <2>1, <2>3 DEF ExactInv, RecordedRolesExact
  <2>7. QED BY <1>1, <2>2, <2>4, <2>5, <2>6
<1>4. QED BY <1>2, <1>3

\* Retiring takes the grants of exactly the recorded roles that go.
LEMMA RetireStep ==
  ASSUME IInv, NEW k \in Kinds, RetirePrevious(k) PROVE IInv'
<1> USE DEF IInv
<1>1. /\ pc = "retire" /\ pc' = "retire" /\ k \in left /\ left' = left \ {k}
      /\ db' = db /\ config' = config /\ drifted' = drifted /\ unseen' = unseen
      /\ edits' = edits /\ runs' = runs
  BY DEF RetirePrevious, handVars
<1>2. Provisioned = {} /\ Provisioned' = {} /\ Current' = Current
  BY <1>1 DEF Provisioned, Current
<1> DEFINE n == db.record[k]
<1>3. n \in Names /\ tx.record[k] = n BY <1>1 DEF RecordInv
<1>4. tx' \in States /\ tx'.record = tx.record /\ locked' \in SUBSET Names
  <2>1. CASE n \in Current BY <1>3, <2>1 DEF RetirePrevious, TypeOK
  <2>2. CASE n \notin Current
    <3>1. tx' = retired(tx, k) /\ locked' = locked \cup {n}
      BY <1>3, <2>2 DEF RetirePrevious
    <3>2. tx \in States BY DEF TypeOK
    <3>3. tx' \in States /\ tx'.record = tx.record BY <1>3, <3>1, <3>2, RetiredEffect
    <3>4. QED BY <1>3, <3>1, <3>3 DEF TypeOK
  <2>3. QED BY <2>1, <2>2
<1>5. TypeOK' BY <1>1, <1>4 DEF TypeOK
<1>6. RecordInv' BY <1>1, <1>4 DEF RecordInv, Kinds
<1>7. ExactInv' BY <1>1, <1>2 DEF ExactInv, RecordedRolesExact
<1>8. CASE n \in Current
  <2>1. tx' = tx BY <1>3, <1>8 DEF RetirePrevious
  <2>2. \A m \in Names : Kept(m)' <=> Kept(m) BY <1>1, <1>2, <1>8 DEF Kept
  <2>3. GrantInv' BY <1>1, <1>2, <2>1, <2>2 DEF GrantInv
  <2>4. OriginInv' BY <1>1, <1>2, <2>1 DEF OriginInv
  <2>5. QED BY <1>5, <1>6, <1>7, <2>3, <2>4
<1>9. CASE n \notin Current
  <2>1. tx' = retired(tx, k) BY <1>3, <1>9 DEF RetirePrevious
  <2>2. tx \in States BY DEF TypeOK
  <2>3. /\ n \in tx'.granted => n \in tx.granted /\ tx.role[n].by = "none"
        /\ \A m \in Names : m # n =>
             tx'.role[m] = tx.role[m] /\ (m \in tx'.granted <=> m \in tx.granted)
    BY <1>3, <2>1, <2>2, RetiredEffect
  <2>4. n \notin tx'.granted \ unseen BY <1>1, <2>3 DEF OriginInv
  <2>5. ~Kept(n)'
    BY <1>1, <1>2, <1>3, <1>9, RolesAssumption DEF Kept, RecordInv, RolesAssumption
  <2>6. \A m \in Names : m # n => (Kept(m)' <=> Kept(m)) BY <1>1, <1>2 DEF Kept
  <2>7. GrantInv' BY <1>1, <1>2, <1>3, <2>3, <2>4, <2>5, <2>6 DEF GrantInv
  <2>8. OriginInv'
    <3>1. \A m \in tx'.granted \ unseen : m \in Names /\ m # n /\ m \in tx.granted
      BY <1>4, <2>3, <2>4 DEF States
    <3>2. \A m \in Current : m \in Names /\ m # n BY <1>9 DEF Current, TypeOK
    <3>3. \A m \in Names : (\A j \in Kinds : db.record[j] # m) => m # n OBVIOUS
    <3>4. QED BY <1>1, <1>2, <2>3, <3>1, <3>2, <3>3 DEF OriginInv
  <2>9. QED BY <1>5, <1>6, <1>7, <2>7, <2>8
<1>10. QED BY <1>8, <1>9

\* When nothing is left to retire, the kept roles are the configured ones.
LEMMA RetiredAllStep == ASSUME IInv, RetiredAll PROVE IInv'
<1> USE DEF IInv
<1>1. /\ pc = "retire" /\ pc' = "producer" /\ left = {} /\ left' = left
      /\ UNCHANGED <<db, tx, config, locked, drifted, unseen, edits, runs>>
  BY DEF RetiredAll, Order, handVars
<1>2. Provisioned = {} /\ Provisioned' = {} BY <1>1 DEF Provisioned
<1>3. \A n \in Names : Kept(n)' <=> Kept(n) BY <1>1 DEF Kept, Current
<1>4. TypeOK' BY <1>1 DEF TypeOK, Kinds
<1>5. RecordInv' BY <1>1 DEF RecordInv, Kinds
<1>6. GrantInv' BY <1>1, <1>2, <1>3 DEF GrantInv
<1>7. OriginInv' BY <1>1 DEF OriginInv, Current
<1>8. ExactInv' BY <1>1, <1>2 DEF ExactInv, RecordedRolesExact
<1>9. QED BY <1>4, <1>5, <1>6, <1>7, <1>8

\* Provisioning adds one configured role, as promised, granted and locked.
LEMMA ProvisionStep ==
  ASSUME IInv, NEW k \in Kinds, ProvisionRole(k) PROVE IInv'
<1> USE DEF IInv
<1> DEFINE n == config[k]
<1>1. /\ pc = k /\ locked' = locked \cup {n} /\ tx' = ProvisionedState(tx, n, k)
      /\ UNCHANGED <<db, config, left, drifted, unseen, edits, runs>>
  BY DEF ProvisionRole, ProvisionedState, handVars
<1>2. pc' = CASE k = "producer" -> "worker" [] k = "worker" -> "purger" [] OTHER -> "save"
  BY DEF ProvisionRole
<1>3. pc' \in {"worker", "purger", "save"} /\ pc # "idle" /\ pc # "retire"
  BY <1>1, <1>2 DEF Kinds
<1>4. Provisioned' = Provisioned \cup {k} /\ k \notin Provisioned
  BY <1>1, <1>2 DEF Provisioned, Kinds
<1>5. n \in Names /\ tx \in States BY DEF TypeOK
<1>6. /\ tx' \in States /\ tx'.record = tx.record
      /\ tx'.granted = tx.granted \cup {n}
      /\ tx'.policy = IF k = "purger" THEN n ELSE tx.policy
      /\ tx'.role[n].by = IF tx.role[n].by = "none" THEN "module" ELSE tx.role[n].by
      /\ AsPromised(tx'.role[n].may, k)
      /\ \A m \in Names : m # n => tx'.role[m] = tx.role[m]
  BY <1>1, <1>5, ProvisionedEffect
<1>7. \A j \in Kinds : j # k => config[j] \in Names /\ config[j] # n
  BY <1>1, <1>3 DEF RecordInv, TypeOK
<1>8. Provisioned \subseteq Kinds BY DEF Provisioned, Kinds
<1>9. TypeOK' BY <1>1, <1>3, <1>5, <1>6 DEF TypeOK, Kinds
<1>10. RecordInv' BY <1>1, <1>3, <1>6 DEF RecordInv, Kinds
<1>11. GrantInv'
  <2>1. \A m \in Names : Kept(m)' <=> Kept(m) BY <1>1 DEF Kept, Current
  <2>2. \A m \in Names : (\E j \in Provisioned' : config'[j] = m)
                           <=> m = n \/ \E j \in Provisioned : config[j] = m
    BY <1>1, <1>4
  <2>3. ASSUME NEW m \in Names \ unseen
        PROVE  m \in tx'.granted <=> Kept(m)' \/ \E j \in Provisioned' : config'[j] = m
    <3>1. m \in tx.granted <=> Kept(m) \/ \E j \in Provisioned : config[j] = m
      BY <1>3 DEF GrantInv
    <3>2. QED BY <1>6, <2>1, <2>2, <3>1
  <2>4. \A j \in Provisioned' : config'[j] \in locked' BY <1>1, <1>3, <1>4 DEF GrantInv
  <2>5. QED BY <1>1, <2>3, <2>4 DEF GrantInv
<1>12. OriginInv'
  <2>1. n \in Current /\ Current' = Current BY <1>1 DEF Current
  <2>2. n \notin unseen => tx'.role[n].by = "module"
    <3>1. tx.role[n].by \in {"none", "module", "hand"} BY <1>5 DEF States, Roles
    <3>2. n \notin unseen => tx.role[n].by # "hand" BY <1>3, <2>1 DEF OriginInv
    <3>3. QED BY <1>6, <3>1, <3>2
  <2>3. \A m \in tx'.granted \ unseen : tx'.role[m].by = "module"
    BY <1>3, <1>5, <1>6, <2>2 DEF OriginInv, States
  <2>4. \A m \in Current \ unseen : tx'.role[m].by # "hand"
    BY <1>3, <1>6, <2>2 DEF OriginInv, Current, TypeOK
  <2>5. QED BY <1>1, <1>3, <1>6, <2>1, <2>3, <2>4 DEF OriginInv
<1>13. ExactInv'
  <2>1. ASSUME NEW j \in Provisioned'
        PROVE  /\ AsPromised(tx'.role[config[j]].may, j)
               /\ j = "purger" => tx'.policy = config[j]
    <3>1. CASE j = k BY <1>6, <3>1
    <3>2. CASE j # k
      <4>1. j \in Provisioned /\ j \in Kinds BY <1>4, <1>8, <2>1, <3>2
      <4>2. tx'.role[config[j]] = tx.role[config[j]] BY <1>6, <1>7, <3>2, <4>1
      <4>3. j = "purger" => tx'.policy = tx.policy BY <1>6, <3>2
      <4>4. QED BY <1>3, <4>1, <4>2, <4>3 DEF ExactInv
    <3>3. QED BY <3>1, <3>2
  <2>2. QED BY <1>1, <2>1 DEF ExactInv, RecordedRolesExact
<1>14. QED BY <1>9, <1>10, <1>11, <1>12, <1>13

\* Commit makes the configuration the record: what is granted is what is named.
LEMMA CommitStep == ASSUME IInv, Commit PROVE IInv'
<1> USE DEF IInv
<1>1. /\ pc = "save" /\ pc' = "idle" /\ locked' = {} /\ drifted' = drifted \ locked
      /\ UNCHANGED <<config, left, unseen, edits, runs>>
  BY DEF Commit
<1>2. Provisioned = Kinds /\ left = {} BY <1>1 DEF Provisioned, RecordInv
<1>3. /\ db' \in States /\ tx' = db' /\ db'.record = config
      /\ db'.role = tx.role /\ db'.granted = tx.granted /\ db'.policy = tx.policy
  BY DEF Commit, TypeOK, States
<1>4. TypeOK' BY <1>1, <1>3 DEF TypeOK
<1>5. RecordInv' BY <1>1, <1>3 DEF RecordInv, Kinds
<1>6. GrantInv'
  <2>1. ASSUME NEW n \in Names \ unseen
        PROVE  n \in tx.granted <=> \E k \in Kinds : config[k] = n
    <3>1. n \in tx.granted <=> Kept(n) \/ \E k \in Kinds : config[k] = n
      BY <1>1, <1>2 DEF GrantInv
    <3>2. Kept(n) => \E k \in Kinds : config[k] = n BY <1>2 DEF Kept, Current
    <3>3. QED BY <3>1, <3>2
  <2>2. QED BY <1>1, <1>3, <2>1 DEF GrantInv
<1>7. OriginInv' BY <1>1, <1>3 DEF OriginInv
<1>8. ExactInv'
  <2>1. \A k \in Kinds : /\ AsPromised(tx.role[config[k]].may, k)
                         /\ k = "purger" => tx.policy = config[k]
    BY <1>1, <1>2 DEF ExactInv
  <2>2. QED BY <1>1, <1>3, <2>1 DEF ExactInv, RecordedRolesExact
<1>9. QED BY <1>4, <1>5, <1>6, <1>7, <1>8

\* A rolled back run leaves what is committed.
LEMMA RollbackStep == ASSUME IInv, Rollback PROVE IInv'
<1> USE DEF IInv
<1>1. /\ pc' = "idle" /\ locked' = {} /\ tx' = db
      /\ UNCHANGED <<db, config, left, drifted, unseen, edits, runs>>
  BY DEF Rollback, handVars
<1>2. TypeOK' BY <1>1 DEF TypeOK
<1>3. RecordInv' BY <1>1 DEF RecordInv, Kinds
<1>4. GrantInv' BY <1>1 DEF GrantInv
<1>5. OriginInv' BY <1>1 DEF OriginInv
<1>6. ExactInv' BY <1>1 DEF ExactInv, RecordedRolesExact
<1>7. QED BY <1>2, <1>3, <1>4, <1>5, <1>6

\* An edit touches no role the open transaction has provisioned.  It keeps a
\* role's origin, or the role is unseen, or no grants are at stake.
LEMMA EditStep ==
  ASSUME IInv, NEW n \in Names, NEW r \in Roles, Edit(n, r),
         unseen' \in SUBSET Names, unseen \subseteq unseen',
         n \notin unseen' => \/ r.by = db.role[n].by
                             \/ pc = "idle" /\ db.role[n].by = "none"
  PROVE  IInv'
<1> USE DEF IInv
<1>1. /\ n \notin locked /\ drifted' = drifted \cup {n} /\ edits' \in 0..MaxEdits
      /\ UNCHANGED <<pc, config, left, locked, runs>>
  BY RolesAssumption DEF Edit, TypeOK, RolesAssumption
<1>2. /\ db' = EditedState(db, n, r) /\ tx' = EditedState(tx, n, r)
      /\ db \in States /\ tx \in States
  BY DEF Edit, EditedState, TypeOK
<1>3. /\ db' \in States /\ db'.record = db.record /\ db'.granted = db.granted
      /\ db.policy # n => db'.policy = db.policy
      /\ db'.role[n] = r
      /\ \A m \in Names : m # n => db'.role[m] = db.role[m]
  BY <1>2, EditedEffect
<1>4. /\ tx' \in States /\ tx'.record = tx.record /\ tx'.granted = tx.granted
      /\ tx.policy # n => tx'.policy = tx.policy
      /\ tx'.role[n] = r
      /\ \A m \in Names : m # n => tx'.role[m] = tx.role[m]
  BY <1>2, EditedEffect
<1>5. Provisioned' = Provisioned /\ Provisioned \subseteq Kinds /\ Current' = Current
  BY <1>1 DEF Provisioned, Kinds, Current
<1>6. TypeOK' BY <1>1, <1>3, <1>4 DEF TypeOK
<1>7. RecordInv' BY <1>1, <1>3, <1>4 DEF RecordInv
<1>8. GrantInv'
  <2>1. \A m \in Names : Kept(m)' <=> Kept(m) BY <1>1, <1>3, <1>5 DEF Kept
  <2>2. QED BY <1>1, <1>3, <1>4, <1>5, <2>1 DEF GrantInv
<1>9. OriginInv'
  <2>1. db.granted \subseteq Names /\ tx.granted \subseteq Names /\ Current \subseteq Names
    BY DEF TypeOK, States, Current
  <2>2. \A m \in db'.granted \ unseen' : db'.role[m].by = "module"
    BY <1>3, <2>1 DEF OriginInv
  <2>3. ASSUME pc # "idle", n \in tx.granted \ unseen' PROVE r.by = "module"
    <3>1. Kept(n) BY <1>1, <2>3 DEF GrantInv
    <3>2. n \in db.granted BY <2>3, <3>1 DEF Kept, GrantInv
    <3>3. QED BY <2>3, <3>2 DEF OriginInv
  <2>4. pc # "idle" => \A m \in tx'.granted \ unseen' : tx'.role[m].by = "module"
    BY <1>4, <2>1, <2>3 DEF OriginInv
  <2>5. pc # "idle" => \A m \in Current \ unseen' :
          db'.role[m].by # "hand" /\ tx'.role[m].by # "hand"
    BY <1>3, <1>4, <2>1 DEF OriginInv
  <2>6. pc # "idle" => \A m \in Names \ (Current \cup unseen') :
          (\A k \in Kinds : db'.record[k] # m) => tx'.role[m] = db'.role[m]
    BY <1>3, <1>4 DEF OriginInv
  <2>7. QED BY <1>1, <1>5, <2>2, <2>4, <2>5, <2>6 DEF OriginInv
<1>10. ExactInv'
  <2>1. RecordedRolesExact'
    <3>1. \A k \in Kinds : db.record[k] \in Names \cup {NoName} BY DEF TypeOK, States
    <3>2. QED BY <1>1, <1>3, <3>1 DEF RecordedRolesExact, ExactInv
  <2>2. ASSUME pc # "idle", NEW k \in Provisioned
        PROVE  /\ AsPromised(tx'.role[config[k]].may, k)
               /\ k = "purger" => tx'.policy = config[k]
    <3>1. config[k] \in Names /\ config[k] # n
      BY <1>1, <1>5, <2>2 DEF GrantInv, TypeOK
    <3>2. QED BY <1>4, <2>2, <3>1 DEF ExactInv
  <2>3. QED BY <1>1, <1>5, <2>1, <2>2 DEF ExactInv
<1>11. QED BY <1>6, <1>7, <1>8, <1>9, <1>10

-----------------------------------------------------------------------------

\* Every step of a run, of a failure and of an operator keeps the invariant.
LEMMA InductiveIInv == Spec => []IInv
<1>1. IInv /\ [Next]_vars => IInv'
  <2> SUFFICES ASSUME IInv, [Next]_vars PROVE IInv' OBVIOUS
  <2>1. ASSUME NEW n \in Names, AlterByHand(n) PROVE IInv'
    <3>1. PICK p \in Editable :
            Edit(n, [db.role[n] EXCEPT !.may = IF p \in @ THEN @ \ {p} ELSE @ \cup {p}])
      BY <2>1 DEF AlterByHand
    <3> DEFINE r == [db.role[n] EXCEPT !.may = IF p \in @ THEN @ \ {p} ELSE @ \cup {p}]
    <3>2. db.role[n] \in Roles BY DEF IInv, TypeOK, States
    <3>3. r \in Roles /\ r.by = db.role[n].by BY <3>2, RolesAssumption DEF Roles, RolesAssumption
    <3>4. unseen' = unseen /\ unseen \in SUBSET Names BY <2>1 DEF AlterByHand, IInv, TypeOK
    <3> HIDE DEF r
    <3>5. Edit(n, r) BY <3>1 DEF r
    <3>6. QED BY <3>3, <3>4, <3>5, EditStep
  <2>2. ASSUME NEW n \in Names, CreateByHand(n) PROVE IInv'
    <3> DEFINE r == [by |-> "hand", may |-> {}]
    <3>1. r \in Roles BY DEF Roles
    <3>2. Edit(n, r) /\ db.role[n].by = "none" BY <2>2 DEF CreateByHand, Exists
    <3>3. /\ unseen' \in SUBSET Names /\ unseen \subseteq unseen'
          /\ n \notin unseen' => pc = "idle"
      BY <2>2 DEF CreateByHand, IInv, TypeOK
    <3> HIDE DEF r
    <3>4. QED BY <3>1, <3>2, <3>3, EditStep
  <2>3. ASSUME NEW n \in Names, DropByHand(n) PROVE IInv'
    <3>1. NoRole \in Roles /\ Edit(n, NoRole) BY <2>3 DEF DropByHand, NoRole, Roles
    <3>2. unseen' \in SUBSET Names /\ unseen \subseteq unseen' /\ n \in unseen'
      BY <2>3 DEF DropByHand, IInv, TypeOK
    <3>3. QED BY <3>1, <3>2, EditStep
  <2>4. CASE UNCHANGED vars
    <3>1. UNCHANGED <<db, tx, pc, config, left, locked, drifted, unseen, runs, edits>>
      BY <2>4 DEF vars
    <3>2. TypeOK' BY <3>1 DEF IInv, TypeOK
    <3>3. RecordInv' BY <3>1 DEF IInv, RecordInv
    <3>4. GrantInv' BY <3>1 DEF IInv, GrantInv, Kept, Current, Provisioned
    <3>5. OriginInv' BY <3>1 DEF IInv, OriginInv, Current
    <3>6. ExactInv' BY <3>1 DEF IInv, ExactInv, RecordedRolesExact, Provisioned
    <3>7. QED BY <3>2, <3>3, <3>4, <3>5, <3>6 DEF IInv
  <2>5. QED BY <2>1, <2>2, <2>3, <2>4, BeginStep, RetireStep, RetiredAllStep,
               ProvisionStep, CommitStep, RollbackStep DEF Next
<1>2. Init => IInv BY InitIInv
<1>3. QED BY <1>1, <1>2, PTL DEF Spec

\* For any number of names, runs and edits every variable keeps its type.
THEOREM TypeCorrect == Spec => []TypeOK
<1>1. IInv => TypeOK BY DEF IInv
<1>2. QED BY <1>1, InductiveIInv, PTL

\* For any number of names, failed runs and edits of any privilege at any time,
\* every recorded role that was not edited since has what is promised to its
\* kind, and beyond that at most the grants no statement of a run revokes: those
\* on objects the program does not manage, and EXECUTE on the purger's function.
THEOREM RecordedStayExact == Spec => []RecordedRolesExact
<1>1. IInv => RecordedRolesExact BY DEF IInv, ExactInv
<1>2. QED BY <1>1, InductiveIInv, PTL

\* For any number of names, failed runs and edits at any time, the roles with
\* queue grants are the recorded ones.
THEOREM GrantsStayRecorded == Spec => []GrantsAreRecorded
<1>1. IInv => GrantsAreRecorded
  <2> SUFFICES ASSUME IInv PROVE GrantsAreRecorded OBVIOUS
  <2>1. db.granted \subseteq Names /\ \A k \in Kinds : db.record[k] \in Names \cup {NoName}
    BY DEF IInv, TypeOK, States
  <2>2. \A n \in Names \ unseen : n \in db.granted <=> \E k \in Kinds : db.record[k] = n
    BY DEF IInv, GrantInv
  <2>3. QED BY <2>1, <2>2, RolesAssumption DEF GrantsAreRecorded, RolesAssumption
<1>2. QED BY <1>1, InductiveIInv, PTL

\* For any number of names, failed runs and edits at any time, no commit
\* changes an existing role the module did not create.
THEOREM UnmanagedStayUntouched == Spec => UnmanagedUntouched
<1>1. IInv /\ Commit => \A n \in Names \ unseen :
                          db.role[n].by = "hand" => db'.role[n] = db.role[n]
  <2> SUFFICES ASSUME IInv, Commit, NEW n \in Names \ unseen, db.role[n].by = "hand"
               PROVE  db'.role[n] = db.role[n]
    OBVIOUS
  <2>1. pc # "idle" /\ db'.role = tx.role BY DEF Commit, IInv, TypeOK, States
  <2>2. n \notin Current BY <2>1 DEF IInv, OriginInv
  <2>3. n \notin db.granted BY DEF IInv, OriginInv
  <2>4. \A k \in Kinds : db.record[k] # n BY <2>3 DEF IInv, GrantInv
  <2>5. tx.role[n] = db.role[n] BY <2>1, <2>2, <2>4 DEF IInv, OriginInv
  <2>6. QED BY <2>1, <2>5
<1>2. QED BY <1>1, InductiveIInv, PTL DEF UnmanagedUntouched
===============================================================================
