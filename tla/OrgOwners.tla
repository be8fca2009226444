------------------------------- MODULE OrgOwners -------------------------------
(***************************************************************************)
(* Who runs the instance and its organizations: the superadmin and         *)
(* suspended marks of users, the roles in org_members, and the requests    *)
(* that change them or delete an account or an organization.               *)
(*                                                                         *)
(* A request asks whether it may, then runs one statement or transaction.  *)
(* A transaction locks rows one by one, in the order of their ids, looks,  *)
(* and writes as it commits.  Statements see what was committed when they  *)
(* began, and look again at a row they had to wait for (READ COMMITTED).   *)
(***************************************************************************)
EXTENDS Integers, FiniteSets

CONSTANTS
  User,       \* user ids
  Org,        \* organization ids
  Request,    \* goroutines that serve requests
  NoRow       \* no row

ASSUME OwnersAssumption ==
  /\ User \subseteq Nat /\ User # {}
  /\ Org \subseteq Nat
  /\ User \cap Org = {}
  /\ NoRow \notin User \cup Org

VARIABLES
  users,       \* the accounts that exist
  super,       \* is_superadmin
  suspended,   \* suspended_at is set
  orgs,        \* the organizations that exist
  role,        \* org_members, "none" where there is no row
  ownerless,   \* a history: organizations that got a plain member when they had no owner
  tx,          \* what each request is doing
  todo,        \* the rows its statement has yet to lock
  held         \* the rows its transaction has locked

userVars == <<users, super, suspended>>
orgVars  == <<orgs, role, ownerless>>
lockVars == <<todo, held>>
vars == <<userVars, orgVars, tx, lockVars>>

Idle == [op |-> "none"]

Job == [op   : {"insert", "upsert", "change", "deleteOrg", "deleteUser", "suspend", "demote"},
        step : {"write", "supers", "user", "orgs"},
        user : User,              \* whose row or role changes
        org  : Org \cup {NoRow},
        to   : {"none", "member", "owner"},
        next : User \cup {NoRow}] \* a transfer: who steps down afterwards

Active == super \ suspended

Members(o) == {u \in User : role[o][u] # "none"}
Owners(o)  == {u \in User : role[o][u] = "owner"}

TypeOK ==
  /\ users \subseteq User
  /\ super \subseteq users /\ suspended \subseteq users
  /\ orgs \subseteq Org
  /\ ownerless \subseteq orgs
  /\ role \in [Org -> [User -> {"none", "member", "owner"}]]
  /\ \A o \in Org : Members(o) \subseteq users
  /\ \A o \in Org \ orgs : Members(o) = {}
  /\ tx \in [Request -> {Idle} \cup Job]
  /\ todo \in [Request -> SUBSET (User \cup Org)]
  /\ held \in [Request -> SUBSET (User \cup Org)]

\* Everybody has signed up and some are superadmins.
Init ==
  /\ users = User
  /\ super \in (SUBSET User) \ {{}}
  /\ suspended = {}
  /\ orgs = {}
  /\ role = [o \in Org |-> [u \in User |-> "none"]]
  /\ ownerless = {}
  /\ tx = [q \in Request |-> Idle]
  /\ todo = [q \in Request |-> {}]
  /\ held = [q \in Request |-> {}]

-----------------------------------------------------------------------------
(* Row locks *)

HeldByOther(q, r) == \E p \in Request \ {q} : r \in held[p]

\* A mutant: every lock is FOR NO KEY UPDATE.
NoKeyUpdate(r) == FALSE

\* FOR UPDATE, which also holds off new rows that refer to this one.
ForUpdate(r) ==
  \E p \in Request :
    /\ r \in held[p]
    /\ \/ tx[p].op = "deleteUser" /\ tx[p].user = r /\ tx[p].step \in {"orgs", "write"}
       \/ tx[p].op = "deleteOrg"

Commit(q) ==
  /\ tx' = [tx EXCEPT ![q] = Idle]
  /\ todo' = [todo EXCEPT ![q] = {}]
  /\ held' = [held EXCEPT ![q] = {}]

\* The next statement, which wants these rows.
Goto(q, s, rows) ==
  /\ tx' = [tx EXCEPT ![q].step = s]
  /\ todo' = [todo EXCEPT ![q] = rows]
  /\ UNCHANGED held

Ask(q, op, step, rows, u, o, to, next) ==
  /\ tx[q] = Idle
  /\ tx' = [tx EXCEPT ![q] = [op |-> op, step |-> step, user |-> u, org |-> o, to |-> to, next |-> next]]
  /\ todo' = [todo EXCEPT ![q] = rows]
  /\ UNCHANGED <<userVars, orgVars, held>>

At(q, ops, step) == tx[q] # Idle /\ tx[q].op \in ops /\ tx[q].step = step

\* A superadmin whose row changed while the statement waited is left out.
LockRow(q) ==
  /\ \E r \in todo[q] :
       /\ \A s \in todo[q] : r <= s
       /\ ~ HeldByOther(q, r)
       /\ todo' = [todo EXCEPT ![q] = @ \ {r}]
       /\ held' = [held EXCEPT ![q] = IF tx[q].step = "supers" /\ r \notin Active THEN @ ELSE @ \cup {r}]
  /\ UNCHANGED <<userVars, orgVars, tx>>

-----------------------------------------------------------------------------
(* What requests ask first *)

\* IsOwner: an owner, or a superadmin in admin mode.
IsOwner(o, u) == u \in Owners(o) \/ u \in Active

\* Create inserts the organization and then its creator's membership.  When the
\* second insert fails, the first one stands.  An id nothing refers to any more
\* stands for a new one.
CreateOrg(q, u, o) ==
  /\ tx[q] = Idle
  /\ u \in users
  /\ o \notin orgs /\ \A p \in Request : tx[p] # Idle => tx[p].org # o
  /\ orgs' = orgs \cup {o}
  /\ tx' = [tx EXCEPT ![q] = [op |-> "insert", step |-> "write", user |-> u, org |-> o,
                              to |-> "owner", next |-> NoRow]]
  /\ UNCHANGED <<userVars, role, ownerless, lockVars>>

\* Nothing asks whether the organization has got its owner yet.
AskAddMember(q, a, u, o, r) ==
  /\ o \in orgs /\ IsOwner(o, a)
  /\ u \in users
  /\ Ask(q, "insert", "write", {}, u, o, r, NoRow)

AdminAddOwner(q, u, o) ==
  /\ o \in orgs
  /\ u \in users \ suspended
  /\ Ask(q, "upsert", "write", {}, u, o, "owner", NoRow)

AskRole(q, a, u, o, r) ==
  /\ o \in orgs /\ IsOwner(o, a)
  /\ role[o][u] \notin {"none", r}
  /\ Ask(q, "change", "orgs", {o}, u, o, r, NoRow)

AskRemove(q, a, u, o) ==
  /\ o \in orgs
  /\ a = u \/ IsOwner(o, a)
  /\ u \in Members(o)
  /\ Ask(q, "change", "orgs", {o}, u, o, "none", NoRow)

\* Promote or add the new owner first, then demote the old one.
AskTransfer(q, a, u, o) ==
  /\ o \in orgs /\ IsOwner(o, a)
  /\ u \in users /\ u # a
  /\ IF u \in Members(o)
     THEN Ask(q, "change", "orgs", {o}, u, o, "owner", a)
     ELSE Ask(q, "insert", "write", {}, u, o, "owner", a)

AskDeleteOrg(q, a, o) ==
  /\ o \in orgs /\ IsOwner(o, a)
  /\ Ask(q, "deleteOrg", "orgs", {o}, a, o, "none", NoRow)

\* DeleteUser's early checks; the transaction repeats both.
AskDeleteUser(q, u) ==
  /\ u \in users
  /\ \A o \in orgs : Owners(o) # {u}
  /\ Active # {u}
  /\ Ask(q, "deleteUser", "supers", Active, u, NoRow, "none", NoRow)

AskSuspendOrDemote(q, a, u, op) ==
  /\ op \in {"suspend", "demote"}
  /\ a \in Active /\ u \in users \ {a}
  /\ Ask(q, op, "supers", Active, u, NoRow, "none", NoRow)

-----------------------------------------------------------------------------
(* Statements and transactions *)

SetRole(o, u, r) == role' = [role EXCEPT ![o][u] = r]

\* The end of a request, or the second half of a transfer.
Finish(q) ==
  IF tx[q].next = NoRow THEN Commit(q)
  ELSE /\ tx' = [tx EXCEPT ![q] = [op |-> "change", step |-> "orgs", user |-> tx[q].next,
                                   org |-> tx[q].org, to |-> "member", next |-> NoRow]]
       /\ todo' = [todo EXCEPT ![q] = {tx[q].org}]
       /\ held' = [held EXCEPT ![q] = {}]

\* A request is refused, fails or is cancelled, PostgreSQL ends a deadlock, or
\* the server dies: what the transaction did is undone.
Rollback(q) == tx[q] # Idle /\ Commit(q) /\ UNCHANGED <<userVars, orgVars>>

\* AddMember: one insert, which waits for the rows it refers to.
AddMember(q) ==
  /\ At(q, {"insert"}, "write")
  /\ LET u == tx[q].user
         o == tx[q].org
     IN /\ ~ ForUpdate(u) /\ ~ ForUpdate(o)
        /\ u \in users /\ o \in orgs /\ role[o][u] = "none"
        /\ SetRole(o, u, tx[q].to)
        /\ ownerless' = IF tx[q].to # "owner" /\ Owners(o) = {} THEN ownerless \cup {o} ELSE ownerless
  /\ Finish(q)
  /\ UNCHANGED <<userVars, orgs>>

\* SetOwner, which updates a member's row with no lock on the organization
SetOwner(q) ==
  /\ At(q, {"upsert"}, "write")
  /\ LET u == tx[q].user
         o == tx[q].org
     IN /\ u \in users /\ o \in orgs
        /\ u \in Members(o) \/ (~ ForUpdate(u) /\ ~ ForUpdate(o))
        /\ SetRole(o, u, "owner")
  /\ Commit(q)
  /\ UNCHANGED <<userVars, orgs, ownerless>>

IsLastOwner(u, o) == Owners(o) = {u}

\* changeMember, with the organization's row locked
ChangeMember(q) ==
  /\ At(q, {"change"}, "orgs")
  /\ todo[q] = {}
  /\ tx[q].to # "owner" => ~ IsLastOwner(tx[q].user, tx[q].org)
  /\ Goto(q, "write", {})
  /\ UNCHANGED <<userVars, orgVars>>

\* A change of no row, of a member removed meanwhile, is no error.
WriteMember(q) ==
  /\ At(q, {"change"}, "write")
  /\ IF tx[q].user \in Members(tx[q].org) THEN SetRole(tx[q].org, tx[q].user, tx[q].to)
                                          ELSE UNCHANGED role
  /\ Finish(q)
  /\ UNCHANGED <<userVars, orgs, ownerless>>

\* Without live repositories; the memberships go with the row.
DeleteOrg(q) ==
  /\ At(q, {"deleteOrg"}, "orgs")
  /\ todo[q] = {}
  /\ orgs' = orgs \ {tx[q].org}
  /\ ownerless' = ownerless \ {tx[q].org}
  /\ role' = [role EXCEPT ![tx[q].org] = [u \in User |-> "none"]]
  /\ Commit(q)
  /\ UNCHANGED userVars

OthersRemain(q) == held[q] # {tx[q].user}

\* keepActiveSuperadmin, once every row it found active is locked
KeepActiveSuperadmin(q) ==
  /\ At(q, {"deleteUser", "suspend", "demote"}, "supers")
  /\ todo[q] = {}
  /\ OthersRemain(q)
  /\ IF tx[q].op = "deleteUser" THEN Goto(q, "user", {tx[q].user}) ELSE Goto(q, "write", {})
  /\ UNCHANGED <<userVars, orgVars>>

\* Suspend or Demote
WriteUser(q) ==
  /\ At(q, {"suspend", "demote"}, "write")
  /\ ~ HeldByOther(q, tx[q].user)
  /\ IF tx[q].op = "suspend"
     THEN suspended' = suspended \cup ({tx[q].user} \cap users) /\ UNCHANGED super
     ELSE super' = super \ {tx[q].user} /\ UNCHANGED suspended
  /\ Commit(q)
  /\ UNCHANGED <<users, orgVars>>

LockOrgs(q) ==
  /\ At(q, {"deleteUser"}, "user")
  /\ todo[q] = {}
  /\ Goto(q, "orgs", {o \in orgs : tx[q].user \in Members(o)})
  /\ UNCHANGED <<userVars, orgVars>>

\* Sole owners may not go.
CheckOrgs(q) ==
  /\ At(q, {"deleteUser"}, "orgs")
  /\ todo[q] = {}
  /\ \A o \in orgs : ~ IsLastOwner(tx[q].user, o)
  /\ Goto(q, "write", {})
  /\ UNCHANGED <<userVars, orgVars>>

\* A mutant: the foreign key does not cascade.
RoleStays(u) == role

WithoutMember(u) == [o \in Org |-> [role[o] EXCEPT ![u] = "none"]]

\* The account goes, its memberships with it, unless its repositories are not
\* those that were moved aside.
DeleteUser(q) ==
  /\ At(q, {"deleteUser"}, "write")
  /\ LET u == tx[q].user
     IN /\ users' = users \ {u}
        /\ super' = super \ {u}
        /\ suspended' = suspended \ {u}
        /\ role' = WithoutMember(u)
  /\ Commit(q)
  /\ UNCHANGED <<orgs, ownerless>>

-----------------------------------------------------------------------------
(* Single statements of a superadmin *)

Promote(a, u) ==
  /\ a \in Active /\ u \in users \ (suspended \cup {a})
  /\ \A p \in Request : u \notin held[p]
  /\ super' = super \cup {u}
  /\ UNCHANGED <<users, suspended, orgVars, tx, lockVars>>

Unsuspend(a, u) ==
  /\ a \in Active /\ u # a
  /\ \A p \in Request : u \notin held[p]
  /\ suspended' = suspended \ {u}
  /\ UNCHANGED <<users, super, orgVars, tx, lockVars>>

\* Somebody signs up.  An id nothing refers to any more stands for a new one.
Register(u) ==
  /\ u \notin users
  /\ \A p \in Request : tx[p] # Idle => u \notin {tx[p].user, tx[p].next}
  /\ users' = users \cup {u}
  /\ UNCHANGED <<super, suspended, orgVars, tx, lockVars>>

Step(q) ==
  \/ LockRow(q) \/ AddMember(q) \/ SetOwner(q) \/ ChangeMember(q) \/ WriteMember(q)
  \/ DeleteOrg(q) \/ KeepActiveSuperadmin(q) \/ WriteUser(q)
  \/ LockOrgs(q) \/ CheckOrgs(q) \/ DeleteUser(q) \/ Rollback(q)

AskOrg(q, a, u, o) ==
  \/ CreateOrg(q, u, o) \/ AdminAddOwner(q, u, o) \/ AskRemove(q, a, u, o)
  \/ AskTransfer(q, a, u, o) \/ AskDeleteOrg(q, a, o)
  \/ \E r \in {"member", "owner"} : AskAddMember(q, a, u, o, r) \/ AskRole(q, a, u, o, r)

Next ==
  \/ \E q \in Request : Step(q)
  \/ \E q \in Request, a, u \in User, o \in Org : AskOrg(q, a, u, o)
  \/ \E q \in Request, u \in User : AskDeleteUser(q, u)
  \/ \E q \in Request, a, u \in User, op \in {"suspend", "demote"} : AskSuspendOrDemote(q, a, u, op)
  \/ \E a, u \in User : Promote(a, u) \/ Unsuspend(a, u)
  \/ \E u \in User : Register(u)

Spec == Init /\ [][Next]_vars

-----------------------------------------------------------------------------
(* Properties *)

\* ErrLastOrgOwner: whoever leaves, is demoted or deletes the account at the
\* same time, an organization that has members has an owner.  Excused, until it
\* is deleted, is one that Create left without its owner and that a superadmin
\* then gave a plain member: there the checks for the last owner find none.
MembersHaveOwner == \A o \in orgs \ ownerless : Members(o) # {} => Owners(o) # {}

\* ErrLastSuperadmin: the instance always has an active superadmin.
SuperadminRemains == Active # {}
=============================================================================
