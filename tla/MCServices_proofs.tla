-------------------------- MODULE MCServices_proofs --------------------------
(***************************************************************************)
(* Theorems about the services that MCServices composes: what is proved of *)
(* each of them alone holds of all behaviours of ServicesSpec, for any     *)
(* values of the constants.  The owners of organizations come first, with  *)
(* all their proofs; those of the other services are in                    *)
(* BackgroundTasks_proofs (BT) and RepositoryServices_proofs (RS).         *)
(***************************************************************************)
EXTENDS MCServices, FiniteSetTheorems, TLAPS

\* No row is locked twice.
Exclusive == \A p, q \in Request : p # q => held[p] \cap held[q] = {}

Named(q) == tx[q].op \in {"insert", "upsert", "change", "deleteOrg"} => tx[q].org \in Org

\* An organization whose first member was an owner has one.
Owned(o) == o \in orgs \ ownerless => \E v \in User : role[o][v] = "owner"

OtherOwner(u, o) == \E v \in User \ {u} : role[o][v] = "owner"

\* What changes a member does so where there is an owner, and only a new owner
\* is followed by somebody who steps down.
WorksOnOwned(q) ==
  /\ tx[q].op = "change" => Owned(tx[q].org)
  /\ tx[q].op = "insert" /\ tx[q].to # "owner" => tx[q].next = NoRow

\* From its check to its write, a change of a member holds the organization,
\* where somebody else is an owner.
ChangeHolds(q) ==
  tx[q].op = "change" =>
    /\ tx[q].step = "orgs" => tx[q].org \in todo[q] \cup held[q]
    /\ tx[q].step = "write" => tx[q].org \in held[q]
    /\ tx[q].step = "write" /\ tx[q].to # "owner" /\ tx[q].org \in orgs \ ownerless =>
         OtherOwner(tx[q].user, tx[q].org)

\* The deletion of an account holds the account, so that it joins nothing, and
\* every organization the account is in.
DeletionHolds(q) ==
  tx[q].op = "deleteUser" =>
    /\ tx[q].step = "user" => tx[q].user \in todo[q] \cup held[q]
    /\ tx[q].step \in {"orgs", "write"} => tx[q].user \in held[q]
    /\ \A o \in orgs :
         role[o][tx[q].user] # "none" =>
           /\ tx[q].step = "orgs" => o \in todo[q] \cup held[q]
           /\ tx[q].step = "write" => o \in held[q] /\ (o \notin ownerless => OtherOwner(tx[q].user, o))

JobInv(q) == Named(q) /\ WorksOnOwned(q) /\ ChangeHolds(q) /\ DeletionHolds(q)

IInv ==
  /\ TypeOK
  /\ Exclusive
  /\ MembersHaveOwner
  /\ \A q \in Request : JobInv(q)

-----------------------------------------------------------------------------
(* Types *)

LEMMA InitTypeOK == Init => TypeOK
BY OwnersAssumption DEF Init, TypeOK, Members

\* What leaves the roles, the organizations and the users' rows alone only has
\* the state of requests to get right.
LEMMA RequestTypes ==
  ASSUME TypeOK, UNCHANGED <<userVars, orgVars>>,
         tx' \in [Request -> {Idle} \cup Job],
         todo' \in [Request -> SUBSET (User \cup Org)],
         held' \in [Request -> SUBSET (User \cup Org)]
  PROVE  TypeOK'
BY DEF TypeOK, Members, userVars, orgVars

LEMMA CommitTypes ==
  ASSUME TypeOK, NEW q \in Request, Commit(q)
  PROVE  /\ tx' \in [Request -> {Idle} \cup Job]
         /\ todo' \in [Request -> SUBSET (User \cup Org)]
         /\ held' \in [Request -> SUBSET (User \cup Org)]
BY DEF TypeOK, Commit

LEMMA GotoTypes ==
  ASSUME TypeOK, NEW q \in Request, tx[q] # Idle,
         NEW s \in {"write", "supers", "user", "orgs"},
         NEW rows \in SUBSET (User \cup Org), Goto(q, s, rows)
  PROVE  /\ tx' \in [Request -> {Idle} \cup Job]
         /\ todo' \in [Request -> SUBSET (User \cup Org)]
         /\ held' \in [Request -> SUBSET (User \cup Org)]
<1>1. tx[q] \in Job
  BY DEF TypeOK
<1>2. [tx[q] EXCEPT !.step = s] \in Job
  BY <1>1 DEF Job
<1>. QED
  BY <1>2 DEF TypeOK, Goto

LEMMA AskTypes ==
  ASSUME TypeOK, NEW q \in Request,
         NEW op \in {"insert", "upsert", "change", "deleteOrg", "deleteUser", "suspend", "demote"},
         NEW s \in {"write", "supers", "user", "orgs"},
         NEW rows \in SUBSET (User \cup Org), NEW u \in User, NEW o \in Org \cup {NoRow},
         NEW to \in {"none", "member", "owner"}, NEW next \in User \cup {NoRow},
         Ask(q, op, s, rows, u, o, to, next)
  PROVE  TypeOK'
<1>1. [op |-> op, step |-> s, user |-> u, org |-> o, to |-> to, next |-> next] \in Job
  BY DEF Job
<1>2. tx' \in [Request -> {Idle} \cup Job]
  BY <1>1 DEF TypeOK, Ask
<1>3. /\ todo' \in [Request -> SUBSET (User \cup Org)]
      /\ held' \in [Request -> SUBSET (User \cup Org)]
  BY DEF TypeOK, Ask
<1>. QED
  BY <1>2, <1>3, RequestTypes DEF Ask

LEMMA FinishTypes ==
  ASSUME TypeOK, NEW q \in Request, tx[q] # Idle, tx[q].org \in Org, Finish(q)
  PROVE  /\ tx' \in [Request -> {Idle} \cup Job]
         /\ todo' \in [Request -> SUBSET (User \cup Org)]
         /\ held' \in [Request -> SUBSET (User \cup Org)]
<1>1. CASE tx[q].next = NoRow
  BY <1>1, CommitTypes DEF Finish
<1>2. CASE tx[q].next # NoRow
  <2>1. tx[q] \in Job
    BY DEF TypeOK
  <2>2. tx[q].next \in User
    BY <2>1, <1>2 DEF Job
  <2>3. [op |-> "change", step |-> "orgs", user |-> tx[q].next,
         org |-> tx[q].org, to |-> "member", next |-> NoRow] \in Job
    BY <2>2 DEF Job
  <2>4. tx' \in [Request -> {Idle} \cup Job]
    BY <1>2, <2>3 DEF TypeOK, Finish
  <2>. QED
    BY <1>2, <2>4 DEF TypeOK, Finish
<1>. QED
  BY <1>1, <1>2

\* A role given to a user of an organization that both exist.
LEMMA SetRoleTypes ==
  ASSUME TypeOK, NEW o \in Org, NEW u \in User, NEW r \in {"none", "member", "owner"},
         o \in orgs, u \in users, SetRole(o, u, r), UNCHANGED <<userVars, orgs>>,
         ownerless' \subseteq orgs,
         tx' \in [Request -> {Idle} \cup Job],
         todo' \in [Request -> SUBSET (User \cup Org)],
         held' \in [Request -> SUBSET (User \cup Org)]
  PROVE  TypeOK'
<1>1. role' \in [Org -> [User -> {"none", "member", "owner"}]]
  BY DEF TypeOK, SetRole
<1>2. \A p \in Org, v \in User : role'[p][v] # "none" => role[p][v] # "none" \/ (p = o /\ v = u)
  BY DEF TypeOK, SetRole
<1>. QED
  BY <1>1, <1>2 DEF TypeOK, Members, userVars

\* The requests that are asked: each starts a job.
LEMMA AskedTypes ==
  ASSUME TypeOK, NEW q \in Request, NEW a \in User, NEW u \in User,
         \/ AskDeleteUser(q, u)
         \/ \E op \in {"suspend", "demote"} : AskSuspendOrDemote(q, a, u, op)
  PROVE  TypeOK'
<1>1. Active \in SUBSET (User \cup Org)
  BY DEF TypeOK, Active
<1>2. CASE AskDeleteUser(q, u)
  BY <1>1, <1>2, AskTypes DEF AskDeleteUser
<1>3. CASE \E op \in {"suspend", "demote"} : AskSuspendOrDemote(q, a, u, op)
  BY <1>1, <1>3, AskTypes DEF AskSuspendOrDemote
<1>. QED
  BY <1>2, <1>3

LEMMA AskOrgTypes ==
  ASSUME TypeOK, NEW q \in Request, NEW a \in User, NEW u \in User, NEW o \in Org,
         AskOrg(q, a, u, o)
  PROVE  TypeOK'
<1>1. CASE CreateOrg(q, u, o)
  <2>1. [op |-> "insert", step |-> "write", user |-> u, org |-> o,
         to |-> "owner", next |-> NoRow] \in Job
    BY DEF Job
  <2>. QED
    BY <1>1, <2>1 DEF TypeOK, CreateOrg, userVars, lockVars, Members
<1>2. CASE AdminAddOwner(q, u, o)
  BY <1>2, AskTypes DEF AdminAddOwner
<1>3. CASE AskRemove(q, a, u, o)
  BY <1>3, AskTypes DEF AskRemove
<1>4. CASE AskTransfer(q, a, u, o)
  BY <1>4, AskTypes DEF AskTransfer
<1>5. CASE AskDeleteOrg(q, a, o)
  BY <1>5, AskTypes DEF AskDeleteOrg
<1>6. ASSUME NEW r \in {"member", "owner"}, AskAddMember(q, a, u, o, r)
      PROVE  TypeOK'
  BY <1>6, AskTypes DEF AskAddMember
<1>7. ASSUME NEW r \in {"member", "owner"}, AskRole(q, a, u, o, r)
      PROVE  TypeOK'
  BY <1>7, AskTypes DEF AskRole
<1>. QED
  BY <1>1, <1>2, <1>3, <1>4, <1>5, <1>6, <1>7 DEF AskOrg

\* The next step of a request, which is about an organization when it writes a
\* membership.
LEMMA StepTypes ==
  ASSUME TypeOK, NEW q \in Request, Named(q), Step(q)
  PROVE  TypeOK'
<1>1. tx[q] # Idle => tx[q] \in Job
  BY DEF TypeOK
<1>2. CASE LockRow(q)
  <2>1. PICK r \in todo[q] :
           /\ todo' = [todo EXCEPT ![q] = @ \ {r}]
           /\ held' = [held EXCEPT ![q] = IF tx[q].step = "supers" /\ r \notin Active
                                          THEN @ ELSE @ \cup {r}]
    BY <1>2 DEF LockRow
  <2>2. r \in User \cup Org
    BY DEF TypeOK
  <2>3. todo' \in [Request -> SUBSET (User \cup Org)]
    BY <2>1 DEF TypeOK
  <2>4. held' \in [Request -> SUBSET (User \cup Org)]
    BY <2>1, <2>2 DEF TypeOK
  <2>. QED
    BY <1>2, <2>3, <2>4, RequestTypes DEF LockRow, TypeOK
<1>3. CASE AddMember(q)
  <2>1. tx[q].org \in Org /\ tx[q].user \in User /\ tx[q].to \in {"none", "member", "owner"}
    BY <1>1, <1>3 DEF AddMember, At, Named, Job
  <2>2. ownerless' \subseteq orgs
    BY <1>3 DEF AddMember, TypeOK
  <2>. QED
    BY <1>3, <2>1, <2>2, FinishTypes, SetRoleTypes DEF AddMember, At
<1>4. CASE SetOwner(q)
  <2>1. tx[q].org \in Org /\ tx[q].user \in User
    BY <1>1, <1>4 DEF SetOwner, At, Named, Job
  <2>. QED
    BY <1>4, <2>1, CommitTypes, SetRoleTypes DEF SetOwner, TypeOK
<1>5. CASE ChangeMember(q)
  BY <1>5, GotoTypes, RequestTypes DEF ChangeMember, At
<1>6. CASE WriteMember(q)
  <2>1. tx[q].org \in Org /\ tx[q].user \in User /\ tx[q].to \in {"none", "member", "owner"}
    BY <1>1, <1>6 DEF WriteMember, At, Named, Job
  <2>2. CASE tx[q].user \in Members(tx[q].org)
    <3>1. tx[q].user \in users /\ tx[q].org \in orgs /\ ownerless' \subseteq orgs
      BY <1>6, <2>1, <2>2 DEF WriteMember, TypeOK
    <3>. QED
      BY <1>6, <2>1, <2>2, <3>1, FinishTypes, SetRoleTypes DEF WriteMember, At
  <2>3. CASE tx[q].user \notin Members(tx[q].org)
    BY <1>6, <2>1, <2>3, FinishTypes, RequestTypes DEF WriteMember, At, orgVars
  <2>. QED
    BY <2>2, <2>3
<1>7. CASE DeleteOrg(q)
  <2>1. role' \in [Org -> [User -> {"none", "member", "owner"}]]
    BY <1>7 DEF DeleteOrg, TypeOK
  <2>2. \A p \in Org, v \in User :
           role'[p][v] # "none" => role[p][v] # "none" /\ p # tx[q].org
    BY <1>7 DEF DeleteOrg, TypeOK
  <2>3. users' = users /\ super' = super /\ suspended' = suspended
        /\ orgs' = orgs \ {tx[q].org} /\ ownerless' = ownerless \ {tx[q].org}
    BY <1>7 DEF DeleteOrg, userVars
  <2>. QED
    BY <1>7, <2>1, <2>2, <2>3, CommitTypes DEF DeleteOrg, TypeOK, Members
<1>8. CASE KeepActiveSuperadmin(q)
  <2>1. {tx[q].user} \in SUBSET (User \cup Org)
    BY <1>1, <1>8 DEF KeepActiveSuperadmin, At, Job
  <2>. QED
    BY <1>8, <2>1, GotoTypes, RequestTypes DEF KeepActiveSuperadmin, At
<1>9. CASE WriteUser(q)
  BY <1>9, CommitTypes DEF WriteUser, TypeOK, Members, orgVars
<1>10. CASE LockOrgs(q)
  BY <1>10, GotoTypes, RequestTypes DEF LockOrgs, At, TypeOK
<1>11. CASE CheckOrgs(q)
  BY <1>11, GotoTypes, RequestTypes DEF CheckOrgs, At
<1>12. CASE DeleteUser(q)
  <2>1. role' \in [Org -> [User -> {"none", "member", "owner"}]]
    BY <1>12 DEF DeleteUser, WithoutMember, TypeOK
  <2>2. \A p \in Org, v \in User :
           role'[p][v] # "none" => role[p][v] # "none" /\ v # tx[q].user
    BY <1>12 DEF DeleteUser, WithoutMember, TypeOK
  <2>. QED
    BY <1>12, <2>1, <2>2, CommitTypes DEF DeleteUser, WithoutMember, TypeOK, Members
<1>13. CASE Rollback(q)
  BY <1>13, CommitTypes, RequestTypes DEF Rollback
<1>. QED
  BY <1>2, <1>3, <1>4, <1>5, <1>6, <1>7, <1>8, <1>9, <1>10, <1>11, <1>12, <1>13 DEF Step

LEMMA SingleTypes ==
  ASSUME TypeOK, NEW a \in User, NEW u \in User,
         Promote(a, u) \/ Unsuspend(a, u) \/ Register(u)
  PROVE  TypeOK'
BY DEF TypeOK, Promote, Unsuspend, Register, Members, orgVars, lockVars

LEMMA StutterTypes == TypeOK /\ UNCHANGED vars => TypeOK'
BY DEF TypeOK, vars, userVars, orgVars, lockVars, Members

-----------------------------------------------------------------------------
(* What a step leaves to the requests that do not take it *)

\* A request's part of the invariant survives the steps of others that keep
\* the owners of what it has locked, and give the user it deletes no role.
LEMMA Rely ==
  ASSUME TypeOK, TypeOK', NEW p \in Request, JobInv(p),
         tx'[p] = tx[p], todo'[p] = todo[p], held'[p] = held[p],
         \A o \in orgs' : o \in ownerless => o \in ownerless',
         \A o \in (orgs \cap orgs') \ ownerless' :
            (\E v \in User : role[o][v] = "owner") => \E v \in User : role'[o][v] = "owner",
         \A o \in held[p] \cap orgs', v \in User :
            role[o][v] = "owner" => role'[o][v] = "owner",
         tx[p].op \in {"insert", "change"} /\ tx[p].org \in orgs' => tx[p].org \in orgs,
         tx[p].op = "deleteUser" /\ tx[p].step \in {"orgs", "write"} =>
            \A o \in orgs' : role'[o][tx[p].user] # "none" =>
                               o \in orgs /\ role[o][tx[p].user] # "none"
  PROVE  JobInv(p)'
<1>1. Named(p)'
  BY DEF JobInv, Named
<1>2. WorksOnOwned(p)'
  BY DEF JobInv, WorksOnOwned, Owned
<1>3. ChangeHolds(p)'
  BY DEF JobInv, ChangeHolds, OtherOwner
<1>4. DeletionHolds(p)'
  BY DEF JobInv, DeletionHolds, OtherOwner
<1>. QED
  BY <1>1, <1>2, <1>3, <1>4 DEF JobInv

Untouched(q) ==
  \A p \in Request \ {q} : tx'[p] = tx[p] /\ todo'[p] = todo[p] /\ held'[p] = held[p]

\* When no role and no organization changes, only the acting request matters.
LEMMA QuietStep ==
  ASSUME TypeOK, TypeOK', MembersHaveOwner, NEW q \in Request, Untouched(q), UNCHANGED orgVars,
         \A p \in Request : JobInv(p), JobInv(q)'
  PROVE  /\ MembersHaveOwner'
         /\ \A p \in Request : JobInv(p)'
<1>1. MembersHaveOwner'
  BY DEF MembersHaveOwner, Members, Owners, orgVars
<1>2. \A p \in Request \ {q} : JobInv(p)'
  BY Rely DEF Untouched, orgVars
<1>. QED
  BY <1>1, <1>2

\* Jobs end, go on and begin without touching each other.
LEMMA CommitJob ==
  ASSUME TypeOK, NEW q \in Request, Commit(q)
  PROVE  /\ Untouched(q) /\ JobInv(q)'
         /\ Exclusive => Exclusive'
<1>1. tx'[q] = Idle /\ held'[q] = {}
  BY DEF Commit, TypeOK
<1>2. Untouched(q)
  BY DEF Commit, TypeOK, Untouched
<1>3. JobInv(q)'
  BY <1>1 DEF JobInv, Named, WorksOnOwned, ChangeHolds, DeletionHolds, Idle
<1>. QED
  BY <1>1, <1>2, <1>3 DEF Exclusive, Untouched

LEMMA GotoJob ==
  ASSUME TypeOK, NEW q \in Request, tx[q] # Idle, NEW s, NEW rows, Goto(q, s, rows)
  PROVE  /\ Untouched(q)
         /\ todo'[q] = rows /\ held'[q] = held[q]
         /\ tx'[q].op = tx[q].op /\ tx'[q].step = s /\ tx'[q].user = tx[q].user
         /\ tx'[q].org = tx[q].org /\ tx'[q].to = tx[q].to /\ tx'[q].next = tx[q].next
         /\ Exclusive => Exclusive'
<1>1. tx[q] \in Job
  BY DEF TypeOK
<1>2. tx'[q] = [tx[q] EXCEPT !.step = s]
  BY DEF TypeOK, Goto
<1>3. /\ tx'[q].op = tx[q].op /\ tx'[q].step = s /\ tx'[q].user = tx[q].user
      /\ tx'[q].org = tx[q].org /\ tx'[q].to = tx[q].to /\ tx'[q].next = tx[q].next
  BY <1>1, <1>2 DEF Job
<1>. QED
  BY <1>3 DEF TypeOK, Goto, Untouched, Exclusive

LEMMA AskJob ==
  ASSUME TypeOK, NEW q \in Request, NEW op, NEW s, NEW rows, NEW u, NEW o, NEW to, NEW next,
         Ask(q, op, s, rows, u, o, to, next)
  PROVE  /\ Untouched(q)
         /\ todo'[q] = rows /\ held'[q] = held[q]
         /\ tx'[q] = [op |-> op, step |-> s, user |-> u, org |-> o, to |-> to, next |-> next]
         /\ Exclusive => Exclusive'
         /\ UNCHANGED orgVars
BY DEF TypeOK, Ask, Untouched, Exclusive

-----------------------------------------------------------------------------
(* Steps that write no role *)

Quiet(q) ==
  Untouched(q) /\ JobInv(q)' /\ Exclusive' /\ UNCHANGED orgVars

LEMMA QuietStepOfRequest ==
  ASSUME IInv, NEW q \in Request,
         \/ LockRow(q) \/ ChangeMember(q) \/ KeepActiveSuperadmin(q) \/ WriteUser(q)
         \/ LockOrgs(q) \/ CheckOrgs(q) \/ Rollback(q)
  PROVE  Quiet(q)
<1>. USE DEF IInv
<1>0. JobInv(q) /\ (tx[q] # Idle => tx[q] \in Job)
  BY DEF TypeOK
<1>1. CASE LockRow(q)
  <2>1. PICK r \in todo[q] :
           /\ ~ HeldByOther(q, r)
           /\ todo' = [todo EXCEPT ![q] = @ \ {r}]
           /\ held' = [held EXCEPT ![q] = IF tx[q].step = "supers" /\ r \notin Active
                                          THEN @ ELSE @ \cup {r}]
    BY <1>1 DEF LockRow
  <2>2. UNCHANGED <<orgVars, tx>>
    BY <1>1 DEF LockRow
  <2>3. Untouched(q)
    BY <2>1, <2>2 DEF Untouched, TypeOK
  <2>4. /\ todo'[q] = todo[q] \ {r}
        /\ held'[q] \subseteq held[q] \cup {r}
        /\ tx[q].step # "supers" => held'[q] = held[q] \cup {r}
        /\ held[q] \subseteq held'[q]
    BY <2>1 DEF TypeOK
  <2>5. Exclusive'
    BY <2>1, <2>3, <2>4 DEF Exclusive, Untouched, HeldByOther
  <2>6. Named(q)' /\ WorksOnOwned(q)'
    BY <1>0, <2>2 DEF JobInv, Named, WorksOnOwned, Owned, orgVars
  <2>7. ChangeHolds(q)'
    BY <1>0, <2>2, <2>4 DEF JobInv, ChangeHolds, OtherOwner, orgVars
  <2>8. DeletionHolds(q)'
    BY <1>0, <2>2, <2>4 DEF JobInv, DeletionHolds, OtherOwner, orgVars
  <2>. QED
    BY <2>2, <2>3, <2>5, <2>6, <2>7, <2>8 DEF JobInv, Quiet
<1>2. CASE ChangeMember(q)
  <2>1. tx[q] # Idle /\ tx[q].op = "change" /\ tx[q].step = "orgs" /\ todo[q] = {}
    BY <1>2 DEF ChangeMember, At
  <2>2. /\ Untouched(q) /\ Exclusive' /\ held'[q] = held[q]
        /\ tx'[q].op = "change" /\ tx'[q].step = "write" /\ tx'[q].user = tx[q].user
        /\ tx'[q].org = tx[q].org /\ tx'[q].to = tx[q].to
    BY <1>2, <2>1, GotoJob DEF ChangeMember
  <2>3. UNCHANGED orgVars
    BY <1>2 DEF ChangeMember
  <2>4. tx[q].org \in held[q] /\ Owned(tx[q].org) /\ tx[q].org \in Org
    BY <1>0, <2>1 DEF JobInv, ChangeHolds, WorksOnOwned, Named
  <2>5. tx[q].to # "owner" /\ tx[q].org \in orgs \ ownerless => OtherOwner(tx[q].user, tx[q].org)
    BY <1>2, <2>1, <2>4 DEF ChangeMember, IsLastOwner, Owners, Owned, OtherOwner
  <2>6. Named(q)' /\ WorksOnOwned(q)' /\ ChangeHolds(q)' /\ DeletionHolds(q)'
    BY <2>2, <2>3, <2>4, <2>5
       DEF Named, WorksOnOwned, ChangeHolds, DeletionHolds, Owned, OtherOwner, orgVars
  <2>. QED
    BY <2>2, <2>3, <2>6 DEF Quiet, JobInv
<1>3. CASE KeepActiveSuperadmin(q)
  <2>1. tx[q] # Idle /\ tx[q].op \in {"deleteUser", "suspend", "demote"}
    BY <1>3 DEF KeepActiveSuperadmin, At
  <2>2. UNCHANGED orgVars
    BY <1>3 DEF KeepActiveSuperadmin
  <2>3. CASE tx[q].op = "deleteUser"
    <3>1. /\ Untouched(q) /\ Exclusive' /\ todo'[q] = {tx[q].user}
          /\ tx'[q].op = "deleteUser" /\ tx'[q].step = "user" /\ tx'[q].user = tx[q].user
      BY <1>3, <2>1, <2>3, GotoJob DEF KeepActiveSuperadmin
    <3>. QED
      BY <2>2, <3>1 DEF Quiet, JobInv, Named, WorksOnOwned, ChangeHolds, DeletionHolds
  <2>4. CASE tx[q].op # "deleteUser"
    <3>1. /\ Untouched(q) /\ Exclusive' /\ tx'[q].op \in {"suspend", "demote"}
      BY <1>3, <2>1, <2>4, GotoJob DEF KeepActiveSuperadmin
    <3>. QED
      BY <2>2, <3>1 DEF Quiet, JobInv, Named, WorksOnOwned, ChangeHolds, DeletionHolds
  <2>. QED
    BY <2>3, <2>4
<1>4. CASE WriteUser(q)
  BY <1>4, CommitJob DEF WriteUser, Quiet
<1>5. CASE LockOrgs(q)
  <2>1. tx[q] # Idle /\ tx[q].op = "deleteUser" /\ tx[q].step = "user" /\ todo[q] = {}
    BY <1>5 DEF LockOrgs, At
  <2>2. /\ Untouched(q) /\ Exclusive' /\ held'[q] = held[q]
        /\ todo'[q] = {o \in orgs : tx[q].user \in Members(o)}
        /\ tx'[q].op = "deleteUser" /\ tx'[q].step = "orgs" /\ tx'[q].user = tx[q].user
    BY <1>5, <2>1, GotoJob DEF LockOrgs
  <2>3. UNCHANGED orgVars
    BY <1>5 DEF LockOrgs
  <2>4. tx[q].user \in held[q] /\ tx[q].user \in User
    BY <1>0, <2>1 DEF JobInv, DeletionHolds, Job
  <2>5. DeletionHolds(q)'
    BY <2>2, <2>3, <2>4 DEF DeletionHolds, Members, orgVars
  <2>. QED
    BY <2>2, <2>3, <2>5 DEF Quiet, JobInv, Named, WorksOnOwned, ChangeHolds
<1>6. CASE CheckOrgs(q)
  <2>1. tx[q] # Idle /\ tx[q].op = "deleteUser" /\ tx[q].step = "orgs" /\ todo[q] = {}
    BY <1>6 DEF CheckOrgs, At
  <2>2. /\ Untouched(q) /\ Exclusive' /\ held'[q] = held[q]
        /\ tx'[q].op = "deleteUser" /\ tx'[q].step = "write" /\ tx'[q].user = tx[q].user
    BY <1>6, <2>1, GotoJob DEF CheckOrgs
  <2>3. UNCHANGED orgVars
    BY <1>6 DEF CheckOrgs
  <2>4. tx[q].user \in held[q] /\ tx[q].user \in User
    BY <1>0, <2>1 DEF JobInv, DeletionHolds, Job
  <2>5. ASSUME NEW o \in orgs, role[o][tx[q].user] # "none"
        PROVE  o \in held[q] /\ (o \notin ownerless => OtherOwner(tx[q].user, o))
    <3>1. o \in held[q]
      BY <1>0, <2>1, <2>5 DEF JobInv, DeletionHolds
    <3>2. o \notin ownerless => Owners(o) # {} /\ Owners(o) # {tx[q].user}
      BY <1>6, <2>4, <2>5 DEF CheckOrgs, IsLastOwner, MembersHaveOwner, Members
    <3>. QED
      BY <3>1, <3>2 DEF Owners, OtherOwner
  <2>6. DeletionHolds(q)'
    BY <2>2, <2>3, <2>4, <2>5 DEF DeletionHolds, OtherOwner, orgVars
  <2>. QED
    BY <2>2, <2>3, <2>6 DEF Quiet, JobInv, Named, WorksOnOwned, ChangeHolds
<1>7. CASE Rollback(q)
  BY <1>7, CommitJob DEF Rollback, Quiet
<1>. QED
  BY <1>1, <1>2, <1>3, <1>4, <1>5, <1>6, <1>7

\* A request that is asked is a job that has locked nothing it needs yet.
LEMMA QuietAsk ==
  ASSUME TypeOK, Exclusive, NEW q \in Request,
         NEW op, NEW s, NEW rows, NEW u, NEW o, NEW to, NEW next,
         Ask(q, op, s, rows, u, o, to, next),
         op \in {"insert", "upsert", "change", "deleteOrg"} => o \in Org,
         op = "change" => s = "orgs" /\ rows = {o} /\ Owned(o),
         op = "insert" /\ to # "owner" => next = NoRow,
         op = "deleteUser" => s = "supers"
  PROVE  Quiet(q)
<1>1. /\ Untouched(q) /\ Exclusive' /\ UNCHANGED orgVars /\ todo'[q] = rows
      /\ tx'[q] = [op |-> op, step |-> s, user |-> u, org |-> o, to |-> to, next |-> next]
  BY AskJob
<1>2. tx'[q].op = op /\ tx'[q].step = s /\ tx'[q].org = o /\ tx'[q].to = to /\ tx'[q].next = next
  BY <1>1
<1>3. Owned(o) => Owned(o)'
  BY <1>1 DEF Owned, orgVars
<1>4. Named(q)' /\ WorksOnOwned(q)'
  BY <1>2, <1>3 DEF Named, WorksOnOwned, Owned
<1>5. ChangeHolds(q)' /\ DeletionHolds(q)'
  BY <1>1, <1>2 DEF ChangeHolds, DeletionHolds
<1>. QED
  BY <1>1, <1>4, <1>5 DEF Quiet, JobInv

LEMMA QuietAskUser ==
  ASSUME IInv, NEW q \in Request, NEW a \in User, NEW u \in User,
         \/ AskDeleteUser(q, u)
         \/ \E op \in {"suspend", "demote"} : AskSuspendOrDemote(q, a, u, op)
  PROVE  Quiet(q)
<1>1. TypeOK /\ Exclusive
  BY DEF IInv
<1>2. CASE AskDeleteUser(q, u)
  BY <1>1, <1>2, QuietAsk DEF AskDeleteUser
<1>3. CASE \E op \in {"suspend", "demote"} : AskSuspendOrDemote(q, a, u, op)
  BY <1>1, <1>3, QuietAsk DEF AskSuspendOrDemote
<1>. QED
  BY <1>2, <1>3

\* A member to change was found where, as invariantly, there is an owner.
LEMMA QuietAskOrg ==
  ASSUME IInv, NEW q \in Request, NEW a \in User, NEW u \in User, NEW o \in Org,
         AskOrg(q, a, u, o), ~ CreateOrg(q, u, o)
  PROVE  Quiet(q)
<1>1. TypeOK /\ Exclusive
  BY DEF IInv
<1>2. \A v \in User : role[o][v] # "none" => Owned(o)
  BY DEF IInv, MembersHaveOwner, Members, Owners, Owned
<1>3. CASE AdminAddOwner(q, u, o)
  BY <1>1, <1>3, QuietAsk DEF AdminAddOwner
<1>4. CASE AskRemove(q, a, u, o)
  BY <1>1, <1>2, <1>4, QuietAsk DEF AskRemove, Members
<1>5. CASE AskTransfer(q, a, u, o)
  <2>1. CASE u \in Members(o)
    <3>1. Owned(o)
      BY <1>2, <2>1 DEF Members
    <3>. QED
      BY <1>1, <1>5, <2>1, <3>1, QuietAsk DEF AskTransfer
  <2>2. CASE u \notin Members(o)
    BY <1>1, <1>5, <2>2, QuietAsk DEF AskTransfer
  <2>. QED
    BY <2>1, <2>2
<1>6. CASE AskDeleteOrg(q, a, o)
  BY <1>1, <1>6, QuietAsk DEF AskDeleteOrg
<1>7. ASSUME NEW r \in {"member", "owner"}, AskAddMember(q, a, u, o, r)
      PROVE  Quiet(q)
  BY <1>1, <1>7, QuietAsk DEF AskAddMember
<1>8. ASSUME NEW r \in {"member", "owner"}, AskRole(q, a, u, o, r)
      PROVE  Quiet(q)
  <2>1. Owned(o)
    BY <1>2, <1>8 DEF AskRole
  <2>. QED
    BY <1>1, <1>8, <2>1, QuietAsk DEF AskRole
<1>. QED
  BY <1>3, <1>4, <1>5, <1>6, <1>7, <1>8 DEF AskOrg

-----------------------------------------------------------------------------
(* Steps that write roles or organizations *)

\* A new organization has no members, and nothing refers to it yet.
LEMMA CreateOrgStep ==
  ASSUME IInv, TypeOK', NEW q \in Request, NEW u \in User, NEW o \in Org, CreateOrg(q, u, o)
  PROVE  IInv'
<1>. USE DEF IInv
<1>1. /\ o \notin orgs /\ orgs' = orgs \cup {o} /\ role' = role /\ ownerless' = ownerless
      /\ \A p \in Request : tx[p] # Idle => tx[p].org # o
      /\ held' = held /\ todo' = todo /\ tx[q] = Idle
      /\ tx'[q].op = "insert" /\ tx'[q].org = o /\ tx'[q].to = "owner"
  BY DEF CreateOrg, lockVars, TypeOK
<1>2. \A p \in Request \ {q} : tx'[p] = tx[p]
  BY DEF CreateOrg, TypeOK
<1>3. \A v \in User : role[o][v] = "none"
  BY <1>1 DEF TypeOK, Members
<1>4. MembersHaveOwner'
  BY <1>1, <1>3 DEF MembersHaveOwner, Members, Owners
<1>5. ASSUME NEW p \in Request \ {q}
      PROVE  JobInv(p)'
  <2>1. tx[p].op \in {"insert", "change"} => tx[p].org # o
    BY <1>1 DEF Idle
  <2>2. tx[p].op = "deleteUser" => tx[p].user \in User
    BY DEF TypeOK, Job, Idle
  <2>. QED
    BY <1>1, <1>2, <1>3, <2>1, <2>2, Rely
<1>6. JobInv(q)'
  BY <1>1 DEF JobInv, Named, WorksOnOwned, ChangeHolds, DeletionHolds
<1>7. Exclusive'
  BY <1>1 DEF Exclusive
<1>. QED
  BY <1>4, <1>5, <1>6, <1>7

OwnedAfter(o) == o \in orgs' \ ownerless' => \E v \in User : role'[o][v] = "owner"

LEMMA FinishJob ==
  ASSUME TypeOK, Exclusive, NEW q \in Request, Finish(q), tx[q].org \in Org,
         tx[q].next # NoRow => OwnedAfter(tx[q].org)
  PROVE  Untouched(q) /\ JobInv(q)' /\ Exclusive'
<1>1. CASE tx[q].next = NoRow
  BY <1>1, CommitJob DEF Finish
<1>2. CASE tx[q].next # NoRow
  <2>1. /\ tx'[q] = [op |-> "change", step |-> "orgs", user |-> tx[q].next,
                     org |-> tx[q].org, to |-> "member", next |-> NoRow]
        /\ todo'[q] = {tx[q].org} /\ held'[q] = {}
    BY <1>2 DEF Finish, TypeOK
  <2>2. Untouched(q)
    BY <1>2 DEF Finish, TypeOK, Untouched
  <2>3. JobInv(q)'
    BY <1>2, <2>1 DEF JobInv, Named, WorksOnOwned, ChangeHolds, DeletionHolds, Owned, OwnedAfter
  <2>. QED
    BY <2>1, <2>2, <2>3 DEF Exclusive, Untouched
<1>. QED
  BY <1>1, <1>2

\* What a step owes to the other requests and to the organizations.
Keeps(q) ==
  /\ orgs' \subseteq orgs
  /\ \A o \in orgs' : o \in ownerless => o \in ownerless'
  /\ \A o \in orgs' \ ownerless' :
       (\E v \in User : role[o][v] = "owner") => \E v \in User : role'[o][v] = "owner"
  /\ \A p \in Request \ {q} : \A o \in held[p] \cap orgs', v \in User :
        role[o][v] = "owner" => role'[o][v] = "owner"
  /\ \A p \in Request \ {q} : tx[p].op = "deleteUser" /\ tx[p].step \in {"orgs", "write"} =>
        \A o \in orgs' : role'[o][tx[p].user] # "none" => role[o][tx[p].user] # "none"
  /\ \A o \in orgs' \ ownerless' : Members(o)' # {} => (\E v \in User : role'[o][v] = "owner")

LEMMA RoleStep ==
  ASSUME IInv, TypeOK', NEW q \in Request, Keeps(q), Untouched(q), JobInv(q)', Exclusive'
  PROVE  IInv'
<1>1. MembersHaveOwner'
  BY DEF Keeps, MembersHaveOwner, Owners
<1>2. ASSUME NEW p \in Request \ {q}
      PROVE  JobInv(p)'
  BY <1>2, Rely DEF IInv, Keeps, Untouched
<1>. QED
  BY <1>1, <1>2 DEF IInv

\* Giving a role, where no deletion of the account is under way: the new
\* member is an owner, or the organization has one, or is excused from now on.
LEMMA GiveRoleKeeps ==
  ASSUME IInv, NEW q \in Request, NEW o \in Org, NEW u \in User,
         NEW r \in {"none", "member", "owner"},
         UNCHANGED orgs, o \in orgs, SetRole(o, u, r), ownerless \subseteq ownerless',
         role[o][u] # "none" \/ ~ ForUpdate(u),
         r = "owner" \/ (role[o][u] # "owner" /\ (Owners(o) # {} \/ o \in ownerless'))
  PROVE  Keeps(q)
<1>1. \A x \in Org, v \in User :
         role'[x][v] = IF x = o /\ v = u THEN r ELSE role[x][v]
  BY DEF SetRole, IInv, TypeOK
<1>2. orgs' = orgs /\ orgs \subseteq Org
  BY DEF IInv, TypeOK
<1>3. \A x \in orgs, v \in User : role[x][v] = "owner" => role'[x][v] = "owner"
  BY <1>1, <1>2
<1>4. ASSUME NEW p \in Request \ {q}, tx[p].op = "deleteUser", tx[p].step \in {"orgs", "write"},
             NEW x \in orgs', role'[x][tx[p].user] # "none"
      PROVE  role[x][tx[p].user] # "none"
  <2>1. tx[p].user \in User
    BY <1>4 DEF IInv, TypeOK, Job, Idle
  <2>2. tx[p].user \in held[p]
    BY <1>4 DEF IInv, JobInv, DeletionHolds
  <2>3. tx[p].user = u => role[o][u] # "none"
    BY <1>4, <2>2 DEF ForUpdate
  <2>. QED
    BY <1>1, <1>2, <1>4, <2>1, <2>3
<1>5. ASSUME NEW x \in orgs' \ ownerless', Members(x)' # {}
      PROVE  \E v \in User : role'[x][v] = "owner"
  <2>1. CASE x = o
    BY <1>1, <1>3, <1>5, <2>1 DEF Owners
  <2>2. CASE x # o
    BY <1>1, <1>2, <1>5, <2>2 DEF IInv, MembersHaveOwner, Members, Owners
  <2>. QED
    BY <2>1, <2>2
<1>. QED
  BY <1>2, <1>3, <1>4, <1>5 DEF Keeps

LEMMA AddMemberStep ==
  ASSUME IInv, TypeOK', NEW q \in Request, AddMember(q)
  PROVE  IInv'
<1>1. /\ tx[q] # Idle /\ tx[q].op = "insert"
      /\ ~ ForUpdate(tx[q].user) /\ tx[q].org \in orgs /\ role[tx[q].org][tx[q].user] = "none"
      /\ SetRole(tx[q].org, tx[q].user, tx[q].to) /\ Finish(q) /\ orgs' = orgs
  BY DEF AddMember, At
<1>2. /\ tx[q].org \in Org /\ tx[q].user \in User /\ tx[q].to \in {"none", "member", "owner"}
  BY <1>1 DEF IInv, TypeOK, Job, JobInv, Named
<1>3. /\ tx[q].to = "owner" \/ tx[q].next = NoRow
      /\ tx[q].to = "owner" \/ Owners(tx[q].org) # {} \/ tx[q].org \in ownerless'
      /\ ownerless \subseteq ownerless'
  BY <1>1 DEF IInv, JobInv, WorksOnOwned, AddMember
<1>4. Keeps(q)
  BY <1>1, <1>2, <1>3, GiveRoleKeeps
<1>5. tx[q].next # NoRow => OwnedAfter(tx[q].org)
  <2>1. \A v \in User : role'[tx[q].org][v] = IF v = tx[q].user THEN tx[q].to
                                              ELSE role[tx[q].org][v]
    BY <1>1, <1>2 DEF SetRole, IInv, TypeOK
  <2>. QED
    BY <1>1, <1>2, <1>3, <2>1 DEF OwnedAfter
<1>. QED
  BY <1>1, <1>2, <1>4, <1>5, FinishJob, RoleStep DEF IInv

LEMMA SetOwnerStep ==
  ASSUME IInv, TypeOK', NEW q \in Request, SetOwner(q)
  PROVE  IInv'
<1>1. /\ tx[q] # Idle /\ tx[q].op = "upsert" /\ tx[q].org \in orgs
      /\ tx[q].user \in Members(tx[q].org) \/ ~ ForUpdate(tx[q].user)
      /\ SetRole(tx[q].org, tx[q].user, "owner") /\ Commit(q) /\ orgs' = orgs /\ ownerless' = ownerless
  BY DEF SetOwner, At
<1>2. /\ tx[q].org \in Org /\ tx[q].user \in User
  BY <1>1 DEF IInv, TypeOK, Job, JobInv, Named
<1>3. Keeps(q)
  BY <1>1, <1>2, GiveRoleKeeps DEF Members
<1>. QED
  BY <1>1, <1>3, CommitJob, RoleStep DEF IInv

\* Whoever is no longer an owner leaves another one behind, and only the
\* request that holds the organization takes an owner away.
LEMMA WriteMemberStep ==
  ASSUME IInv, TypeOK', NEW q \in Request, WriteMember(q)
  PROVE  IInv'
<1>1. /\ tx[q] # Idle /\ tx[q].op = "change" /\ tx[q].step = "write"
      /\ Finish(q) /\ orgs' = orgs /\ ownerless' = ownerless
  BY DEF WriteMember, At
<1>2. /\ tx[q].org \in Org /\ tx[q].user \in User /\ tx[q].to \in {"none", "member", "owner"}
  BY <1>1 DEF IInv, TypeOK, Job, JobInv, Named
<1>3. /\ tx[q].org \in held[q]
      /\ tx[q].to # "owner" /\ tx[q].org \in orgs \ ownerless => OtherOwner(tx[q].user, tx[q].org)
      /\ Owned(tx[q].org)
  BY <1>1 DEF IInv, JobInv, ChangeHolds, WorksOnOwned
<1>4. Keeps(q) /\ OwnedAfter(tx[q].org)
  <2>1. CASE tx[q].user \notin Members(tx[q].org)
    <3>1. role' = role
      BY <2>1 DEF WriteMember
    <3>2. \A o \in orgs \ ownerless : Members(o) # {} => (\E v \in User : role[o][v] = "owner")
      BY DEF IInv, MembersHaveOwner, Owners
    <3>3. \A o \in orgs' \ ownerless' : Members(o)' # {} => (\E v \in User : role'[o][v] = "owner")
      BY <1>1, <3>1, <3>2 DEF Members
    <3>4. OwnedAfter(tx[q].org)
      BY <1>1, <1>3, <3>1 DEF Owned, OwnedAfter
    <3>. QED
      BY <1>1, <3>1, <3>3, <3>4 DEF Keeps
  <2>2. CASE tx[q].user \in Members(tx[q].org)
    <3>1. SetRole(tx[q].org, tx[q].user, tx[q].to)
      BY <2>2 DEF WriteMember
    <3>2. \A x \in Org, v \in User :
             role'[x][v] = IF x = tx[q].org /\ v = tx[q].user THEN tx[q].to ELSE role[x][v]
      BY <1>2, <3>1 DEF SetRole, IInv, TypeOK
    <3>3. orgs \subseteq Org
      BY DEF IInv, TypeOK
    <3>4. \A x \in orgs, v \in User : role[x][v] = "none" => role'[x][v] = "none"
      BY <2>2, <3>2, <3>3 DEF Members
    <3>5. \A x \in orgs \ {tx[q].org}, v \in User : role'[x][v] = role[x][v]
      BY <3>2, <3>3
    <3>6. tx[q].org \in orgs \ ownerless => \E v \in User : role'[tx[q].org][v] = "owner"
      BY <1>2, <1>3, <3>2 DEF OtherOwner
    <3>7. \A p \in Request \ {q} : tx[q].org \notin held[p]
      BY <1>3 DEF IInv, Exclusive
    <3>8. \A p \in Request : tx[p].op = "deleteUser" => tx[p].user \in User
      BY DEF IInv, TypeOK, Job, Idle
    <3>9. \A o \in orgs' \ ownerless' : Members(o)' # {} => (\E v \in User : role'[o][v] = "owner")
      BY <1>1, <3>4, <3>5, <3>6 DEF IInv, MembersHaveOwner, Members, Owners
    <3>10. \A o \in orgs \ ownerless : (\E v \in User : role[o][v] = "owner") =>
              \E v \in User : role'[o][v] = "owner"
      BY <3>5, <3>6
    <3>11. \A p \in Request \ {q} : \A o \in held[p] \cap orgs, v \in User :
              role[o][v] = "owner" => role'[o][v] = "owner"
      BY <3>5, <3>7
    <3>12. \A p \in Request : tx[p].op = "deleteUser" =>
              \A o \in orgs : role'[o][tx[p].user] # "none" => role[o][tx[p].user] # "none"
      BY <3>4, <3>8
    <3>13. OwnedAfter(tx[q].org)
      BY <1>1, <3>6 DEF OwnedAfter
    <3>. QED
      BY <1>1, <3>9, <3>10, <3>11, <3>12, <3>13 DEF Keeps
  <2>. QED
    BY <2>1, <2>2
<1>. QED
  BY <1>1, <1>2, <1>4, FinishJob, RoleStep DEF IInv

LEMMA DeleteOrgStep ==
  ASSUME IInv, TypeOK', NEW q \in Request, DeleteOrg(q)
  PROVE  IInv'
<1>1. orgs' = orgs \ {tx[q].org} /\ ownerless' = ownerless \ {tx[q].org} /\ Commit(q)
  BY DEF DeleteOrg
<1>2. \A o \in orgs', v \in User : role'[o][v] = role[o][v]
  BY <1>1 DEF DeleteOrg, IInv, TypeOK
<1>3. \A p \in Request : tx[p].op = "deleteUser" => tx[p].user \in User
  BY DEF IInv, TypeOK, Job, Idle
<1>4. \A o \in orgs' \ ownerless' : Members(o)' # {} => (\E v \in User : role'[o][v] = "owner")
  BY <1>1, <1>2 DEF IInv, MembersHaveOwner, Members, Owners
<1>5. Keeps(q)
  BY <1>1, <1>2, <1>3, <1>4 DEF Keeps
<1>. QED
  BY <1>1, <1>5, CommitJob, RoleStep DEF IInv

\* The deleted account was in no organization that it does not hold, nor in
\* one without another owner.
LEMMA DeleteUserStep ==
  ASSUME IInv, TypeOK', NEW q \in Request, DeleteUser(q)
  PROVE  IInv'
<1>1. /\ tx[q] # Idle /\ tx[q].op = "deleteUser" /\ tx[q].step = "write"
      /\ Commit(q) /\ orgs' = orgs /\ ownerless' = ownerless
  BY DEF DeleteUser, At
<1>2. tx[q].user \in User
  BY <1>1 DEF IInv, TypeOK, Job
<1>3. \A o \in orgs : role[o][tx[q].user] # "none" =>
         o \in held[q] /\ (o \notin ownerless => OtherOwner(tx[q].user, o))
  BY <1>1 DEF IInv, JobInv, DeletionHolds
<1>4. \A o \in orgs, v \in User : role'[o][v] = IF v = tx[q].user THEN "none" ELSE role[o][v]
  BY <1>2 DEF DeleteUser, WithoutMember, IInv, TypeOK
<1>5. \A o \in orgs \ ownerless : (\E v \in User : role[o][v] = "owner") =>
         \E v \in User \ {tx[q].user} : role[o][v] = "owner"
  BY <1>3 DEF OtherOwner
<1>6. \A o \in orgs \ ownerless :
         (\E v \in User : role[o][v] = "owner") => \E v \in User : role'[o][v] = "owner"
  BY <1>4, <1>5
<1>7. \A p \in Request \ {q} : \A o \in held[p] \cap orgs, v \in User :
        role[o][v] = "owner" => role'[o][v] = "owner"
  BY <1>3, <1>4 DEF IInv, Exclusive
<1>8. \A p \in Request : tx[p].op = "deleteUser" => tx[p].user \in User
  BY DEF IInv, TypeOK, Job, Idle
<1>9. \A o \in orgs' \ ownerless' : Members(o)' # {} => (\E v \in User : role'[o][v] = "owner")
  BY <1>1, <1>4, <1>6 DEF IInv, MembersHaveOwner, Members, Owners
<1>10. Keeps(q)
  BY <1>1, <1>4, <1>6, <1>7, <1>8, <1>9 DEF Keeps
<1>. QED
  BY <1>1, <1>10, CommitJob, RoleStep DEF IInv

-----------------------------------------------------------------------------
(* The theorems *)

LEMMA QuietKeeps ==
  ASSUME IInv, TypeOK', NEW q \in Request, Quiet(q)
  PROVE  IInv'
BY QuietStep DEF IInv, Quiet

LEMMA InitIInv == Init => IInv
<1>. SUFFICES ASSUME Init PROVE IInv
  OBVIOUS
<1>1. MembersHaveOwner /\ Exclusive
  BY DEF Init, MembersHaveOwner, Exclusive
<1>2. \A q \in Request : tx[q].op = "none"
  BY DEF Init, Idle
<1>. QED
  BY <1>1, <1>2, InitTypeOK
     DEF IInv, JobInv, Named, WorksOnOwned, ChangeHolds, DeletionHolds

\* Every step keeps the types and the invariant.
LEMMA NextIInv ==
  ASSUME IInv, [Next]_vars
  PROVE  IInv'
<1>0. TypeOK /\ \A q \in Request : Named(q)
  BY DEF IInv, JobInv
<1>1. ASSUME NEW q \in Request, Step(q)
      PROVE  IInv'
  <2>1. TypeOK'
    BY <1>0, <1>1, StepTypes
  <2>. QED
    BY <1>1, <2>1, AddMemberStep, SetOwnerStep, WriteMemberStep, DeleteOrgStep, DeleteUserStep,
       QuietStepOfRequest, QuietKeeps DEF Step
<1>2. ASSUME NEW q \in Request, NEW a \in User, NEW u \in User, NEW o \in Org, AskOrg(q, a, u, o)
      PROVE  IInv'
  <2>1. TypeOK'
    BY <1>0, <1>2, AskOrgTypes
  <2>. QED
    BY <1>2, <2>1, CreateOrgStep, QuietAskOrg, QuietKeeps
<1>3. ASSUME NEW q \in Request, NEW a \in User, NEW u \in User,
             \/ AskDeleteUser(q, u)
             \/ \E op \in {"suspend", "demote"} : AskSuspendOrDemote(q, a, u, op)
      PROVE  IInv'
  BY <1>0, <1>3, AskedTypes, QuietAskUser, QuietKeeps
<1>4. ASSUME NEW a \in User, NEW u \in User, Promote(a, u) \/ Unsuspend(a, u) \/ Register(u)
      PROVE  IInv'
  <2>1. TypeOK'
    BY <1>0, <1>4, SingleTypes
  <2>2. UNCHANGED <<orgVars, tx, lockVars>>
    BY <1>4 DEF Promote, Unsuspend, Register
  <2>. QED
    BY <2>1, <2>2 DEF IInv, Exclusive, MembersHaveOwner, Members, Owners, JobInv, Named,
       WorksOnOwned, ChangeHolds, DeletionHolds, Owned, OtherOwner, orgVars, lockVars
<1>5. CASE UNCHANGED vars
  <2>1. TypeOK'
    BY <1>0, <1>5, StutterTypes
  <2>. QED
    BY <1>5, <2>1 DEF IInv, Exclusive, MembersHaveOwner, Members, Owners, JobInv, Named,
       WorksOnOwned, ChangeHolds, DeletionHolds, Owned, OtherOwner, vars, orgVars, lockVars
<1>6. PICK a \in User : TRUE
  BY OwnersAssumption
<1>. QED
  BY <1>1, <1>2, <1>3, <1>4, <1>5, <1>6 DEF Next

\* The tables hold what their columns may hold, and nobody is in an
\* organization or a superadmin without an account.
THEOREM TypeCorrect == Spec => []TypeOK
<1>1. Init => IInv
  BY InitIInv
<1>2. IInv /\ [Next]_vars => IInv'
  BY NextIInv
<1>3. IInv => TypeOK
  BY DEF IInv
<1>. QED
  BY <1>1, <1>2, <1>3, PTL DEF Spec

\* However many owners leave, are demoted or delete their accounts at once, an
\* organization whose first member was an owner has an owner as long as it has
\* members (ErrLastOrgOwner).
THEOREM OwnersRemain == Spec => []MembersHaveOwner
<1>1. Init => IInv
  BY InitIInv
<1>2. IInv /\ [Next]_vars => IInv'
  BY NextIInv
<1>3. IInv => MembersHaveOwner
  BY DEF IInv
<1>. QED
  BY <1>1, <1>2, <1>3, PTL DEF Spec

-----------------------------------------------------------------------------
(***************************************************************************)
(* The other services                                                      *)
(***************************************************************************)
BT == INSTANCE BackgroundTasks_proofs WITH
  Sweeper <- Worker,
  hook <- v1, first <- v2, row <- v3, listed <- v4, sender <- v5, sent <- v6,
  redelivered <- v7, lost <- v8,
  user <- v1, jobs <- v2, status <- v3, ended <- v4, old <- v5, step <- v6,
  slots <- v7, temp <- v8, repos <- v9, dirs <- v10, torn <- v11, crashes <- v12,
  repo <- v1, upload <- v2, objects <- v3, rows <- v4, aged <- v5, inBody <- v6,
  sweep <- v7, idle <- v8, rowed <- v9

RS == INSTANCE RepositoryServices_proofs WITH
  Org <- Team, Handler <- Worker,
  written <- v1, calls <- v2, stored <- v3, worker <- v4, sizing <- v5, again <- v6,
  backfill <- v7, excused <- v8,
  holder <- v1, live <- v2, staff <- v3, offer <- v4, lapsed <- v5, handler <- v6,
  made <- v7, stray <- v8, ended <- v9

(* What those modules and MCServices call by different names is the same. *)

LEMMA SizesNamed ==
  /\ Sizes!Init <=> RS!S!Init
  /\ Sizes!Next <=> RS!S!Next
  /\ Sizes!vars = RS!S!vars
BY
  DEF Sizes!Init, Sizes!Next, Sizes!vars, Sizes!NoSize, Sizes!Off, Sizes!Write, Sizes!Recompute,
      Sizes!Measure, Sizes!ListUnmeasured, Sizes!BackfillNext, Sizes!BackfillWalk,
      Sizes!BackfillSave, Sizes!Restart, Sizes!diskVars, Sizes!JobsOf, Sizes!Read,
      Sizes!DirSize, Sizes!SetSize, Sizes!MeasureFails, Sizes!MeasurePanics, Sizes!Loop,
      Sizes!NextOf, Sizes!At,
      Sizes!GoRound, Sizes!Stop,
      RS!S!Init, RS!S!Next, RS!S!vars, RS!S!NoSize, RS!S!Off, RS!S!Write, RS!S!Recompute,
      RS!S!Measure, RS!S!ListUnmeasured, RS!S!BackfillNext, RS!S!BackfillWalk,
      RS!S!BackfillSave, RS!S!Restart, RS!S!diskVars, RS!S!JobsOf, RS!S!Read, RS!S!DirSize,
      RS!S!SetSize, RS!S!MeasureFails, RS!S!MeasurePanics, RS!S!Loop, RS!S!NextOf,
      RS!S!At, RS!S!GoRound, RS!S!Stop

LEMMA OffersNamed ==
  /\ Offers!Init <=> RS!O!Init
  /\ Offers!Next <=> RS!O!Next
  /\ Offers!vars = RS!O!vars
BY
  DEF Offers!Init, Offers!Next, Offers!vars, Offers!Idle, Offers!Ask, Offers!Answer,
      Offers!Expire, Offers!SoftDelete, Offers!ChangeStaff, Offers!historyVars, Offers!AskOffer,
      Offers!Holder, Offers!AskMove, Offers!AskEnd, Offers!AskAccept, Offers!Create,
      Offers!CommitCreate, Offers!UpdateOwner, Offers!CommitOwner, Offers!Inserting,
      Offers!Delete, Offers!ReadRepo, Offers!Accept, Offers!GiveUp, Offers!Committing,
      Offers!IsOwner, Offers!Begin, Offers!Pending, Offers!Insert, Offers!Locked,
      Offers!ChangesKey, Offers!OffersThatEnd, Offers!Remove, Offers!Goto, Offers!StillOffered,
      Offers!Ids, Offers!Cardinality,
      RS!O!Init, RS!O!Next, RS!O!vars, RS!O!Idle, RS!O!Ask, RS!O!Answer, RS!O!Expire,
      RS!O!SoftDelete, RS!O!ChangeStaff, RS!O!historyVars, RS!O!AskOffer, RS!O!Holder,
      RS!O!AskMove, RS!O!AskEnd, RS!O!AskAccept, RS!O!Create, RS!O!CommitCreate, RS!O!Inserting,
      RS!O!UpdateOwner, RS!O!CommitOwner, RS!O!Delete, RS!O!ReadRepo, RS!O!Accept, RS!O!GiveUp,
      RS!O!Committing, RS!O!IsOwner, RS!O!Begin, RS!O!Pending, RS!O!Insert, RS!O!Locked,
      RS!O!ChangesKey, RS!O!OffersThatEnd, RS!O!Remove, RS!O!Goto, RS!O!StillOffered, RS!O!Ids,
      RS!O!Cardinality

LEMMA WebhooksNamed ==
  /\ Webhooks!Init <=> BT!W!Init
  /\ Webhooks!Next <=> BT!W!Next
  /\ Webhooks!vars = BT!W!vars
BY
  DEF Webhooks!Init, Webhooks!Next, Webhooks!vars, Webhooks!Unlogged, Webhooks!Off,
      Webhooks!Dispatch, Webhooks!Send, Webhooks!LogDelivery, Webhooks!Schedule,
      Webhooks!BackoffEnds, Webhooks!ListPendingRetry, Webhooks!ClearRetry, Webhooks!DeleteHook,
      Webhooks!Restart, Webhooks!StartRetry, Webhooks!Retry, Webhooks!RedeliverByID,
      Webhooks!countVars, Webhooks!Goto, Webhooks!Exists, Webhooks!JobsOn, Webhooks!Waited,
      Webhooks!Cut, Webhooks!Started, Webhooks!RetrySend, Webhooks!UpdateDeliveryRetry,
      Webhooks!UpdateFails, Webhooks!Retries, Webhooks!Attempt, Webhooks!NextDue,
      BT!W!Init, BT!W!Next, BT!W!vars, BT!W!Unlogged, BT!W!Off, BT!W!Dispatch, BT!W!Send,
      BT!W!LogDelivery, BT!W!Schedule, BT!W!BackoffEnds, BT!W!ListPendingRetry, BT!W!ClearRetry,
      BT!W!DeleteHook, BT!W!Restart, BT!W!StartRetry, BT!W!Retry, BT!W!RedeliverByID,
      BT!W!countVars, BT!W!Goto, BT!W!Exists, BT!W!JobsOn, BT!W!Waited, BT!W!Cut, BT!W!Started,
      BT!W!RetrySend, BT!W!UpdateDeliveryRetry, BT!W!UpdateFails, BT!W!Retries, BT!W!Attempt,
      BT!W!NextDue

LEMMA ImportsNamed ==
  /\ Imports!Init <=> BT!J!Init
  /\ Imports!Next <=> BT!J!Next
  /\ Imports!vars = BT!J!vars
BY
  DEF Imports!Init, Imports!Next, Imports!vars, Imports!AskImport, Imports!Start, Imports!Run,
      Imports!Delete, Imports!Get, Imports!AnHourPasses, Imports!Restart, Imports!mapVars,
      Imports!repoVars, Imports!CheckNewRepo, Imports!Goto, Imports!Sweep, Imports!ActiveLocked,
      Imports!EvictFinished, Imports!TakeSlot, Imports!SetRunning, Imports!Attempt,
      Imports!RemoveTemp, Imports!Finish, Imports!ReleaseSlot, Imports!Published,
      Imports!Finished, Imports!Publishing, Imports!Clone, Imports!Check, Imports!Claim,
      Imports!Insert, Imports!RemoveClaim, Imports!Rename, Imports!AbandonRow,
      Imports!AbandonDir, Imports!Cardinality,
      BT!J!Init, BT!J!Next, BT!J!vars, BT!J!AskImport, BT!J!Start, BT!J!Run, BT!J!Delete,
      BT!J!Get, BT!J!AnHourPasses, BT!J!Restart, BT!J!mapVars, BT!J!repoVars, BT!J!CheckNewRepo,
      BT!J!Goto, BT!J!Sweep, BT!J!ActiveLocked, BT!J!EvictFinished, BT!J!TakeSlot,
      BT!J!SetRunning, BT!J!Attempt, BT!J!RemoveTemp, BT!J!Finish, BT!J!ReleaseSlot,
      BT!J!Published, BT!J!Finished, BT!J!Publishing, BT!J!Clone, BT!J!Check, BT!J!Claim,
      BT!J!Insert, BT!J!RemoveClaim, BT!J!Rename, BT!J!AbandonRow, BT!J!AbandonDir,
      BT!J!Cardinality

LEMMA ImagesNamed ==
  /\ Images!Init <=> BT!A!Init
  /\ Images!Next <=> BT!A!Next
  /\ Images!vars = BT!A!vars
BY
  DEF Images!Init, Images!Next, Images!vars, Images!Off, Images!Step, Images!fileVars,
      Images!Upload, Images!Write, Images!Erase, Images!Age, Images!Remove, Images!SoftDelete,
      Images!Restore, Images!DeleteOwner, Images!Restart, Images!BeginUpload, Images!Put,
      Images!Create, Images!Clean, Images!PurgeExpired, Images!ListSweepable,
      Images!RemoveObject, Images!RemoveRow, Images!RowGoes, Images!Goto, Images!Sweepable,
      BT!A!Init, BT!A!Next, BT!A!vars, BT!A!Off, BT!A!Step, BT!A!fileVars, BT!A!Upload,
      BT!A!Write, BT!A!Erase, BT!A!Age, BT!A!Remove, BT!A!SoftDelete, BT!A!Restore,
      BT!A!DeleteOwner, BT!A!Restart, BT!A!BeginUpload, BT!A!Put, BT!A!Create, BT!A!Clean,
      BT!A!PurgeExpired, BT!A!ListSweepable, BT!A!RemoveObject, BT!A!RemoveRow, BT!A!RowGoes,
      BT!A!Goto, BT!A!Sweepable

\* The limits of the code, for instance
ImportLimits ==
  /\ IsFiniteSet(Import)
  /\ PerUser \in Nat /\ Slots \in Nat \ {0} /\ MaxRepos \in Nat /\ MaxCrashes \in Nat

LEMMA LimitsNamed == ImportLimits => BT!ImportLimits
BY DEF ImportLimits, BT!ImportLimits, IsFiniteSet, BT!IsFiniteSet

LEMMA SizesPromise ==
  ASSUME RS!SizesInv
  PROVE  /\ Sizes!TypeOK
         /\ Sizes!OneMeasurement
         /\ Sizes!SizeSettles
<1>1. /\ Sizes!TypeOK <=> RS!S!TypeOK
      /\ Sizes!OneMeasurement <=> RS!S!OneMeasurement
      /\ Sizes!SizeSettles <=> RS!S!SizeSettles
  BY
    DEF Sizes!TypeOK, Sizes!OneMeasurement, Sizes!SizeSettles, Sizes!NoSize, Sizes!Off,
        Sizes!Busy, Sizes!Listed, Sizes!Fill, Sizes!JobsOf,
        RS!S!TypeOK, RS!S!OneMeasurement, RS!S!SizeSettles, RS!S!NoSize, RS!S!Off, RS!S!Busy,
        RS!S!Listed, RS!S!Fill, RS!S!JobsOf
<1>. QED
  BY <1>1 DEF RS!SizesInv

LEMMA ImportsPromise ==
  ASSUME ImportLimits, BT!ImportsInv
  PROVE  /\ Imports!TypeOK
         /\ Imports!RunsPerUser
         /\ Imports!UnfinishedJobsEnd
         /\ Imports!QuotaOvershoot
         /\ Imports!AllOrNothing
<1>1. /\ Imports!TypeOK <=> BT!J!TypeOK
      /\ Imports!RunsPerUser <=> BT!J!RunsPerUser
      /\ Imports!UnfinishedJobsEnd <=> BT!J!UnfinishedJobsEnd
      /\ Imports!QuotaOvershoot <=> BT!J!QuotaOvershoot
      /\ Imports!AllOrNothing <=> BT!J!AllOrNothing
  BY
    DEF Imports!TypeOK, Imports!RunsPerUser, Imports!UnfinishedJobsEnd, Imports!QuotaOvershoot,
        Imports!AllOrNothing, Imports!Holding, Imports!Working, Imports!Finished,
        Imports!Published, Imports!Attempting, Imports!Publishing, Imports!Cardinality,
        BT!J!TypeOK, BT!J!RunsPerUser, BT!J!UnfinishedJobsEnd, BT!J!QuotaOvershoot,
        BT!J!AllOrNothing, BT!J!Holding, BT!J!Working, BT!J!Finished, BT!J!Published,
        BT!J!Attempting, BT!J!Publishing, BT!J!Cardinality
<1>. QED
  BY <1>1, LimitsNamed, BT!ImportsPromise DEF BT!ImportsInv

LEMMA WebhooksPromise ==
  ASSUME MaxAttempts \in Nat, BT!DeliveriesInv
  PROVE  /\ Webhooks!TypeOK
         /\ Webhooks!OneScheduledRetry
         /\ Webhooks!FiveAttemptsInAll
<1>1. /\ Webhooks!TypeOK <=> BT!W!TypeOK
      /\ Webhooks!OneScheduledRetry <=> BT!W!OneScheduledRetry
      /\ Webhooks!FiveAttemptsInAll <=> BT!W!FiveAttemptsInAll
  BY
    DEF Webhooks!TypeOK, Webhooks!OneScheduledRetry, Webhooks!FiveAttemptsInAll, Webhooks!Row,
        Webhooks!Listed, Webhooks!Off, Webhooks!Job, Webhooks!Retries,
        BT!W!TypeOK, BT!W!OneScheduledRetry, BT!W!FiveAttemptsInAll, BT!W!Row, BT!W!Listed,
        BT!W!Off, BT!W!Job, BT!W!Retries
<1>. QED
  BY <1>1, BT!DeliveriesPromise DEF BT!DeliveriesInv

LEMMA ImagesPromise ==
  ASSUME BT!ImagesInv
  PROVE  /\ Images!TypeOK
         /\ Images!KeptWhileUsed
         /\ Images!ObjectKeepsRow
<1>1. /\ Images!TypeOK <=> BT!A!TypeOK
      /\ Images!KeptWhileUsed <=> BT!A!KeptWhileUsed
      /\ Images!ObjectKeepsRow <=> BT!A!ObjectKeepsRow
  BY
    DEF Images!TypeOK, Images!KeptWhileUsed, Images!ObjectKeepsRow,
        BT!A!TypeOK, BT!A!KeptWhileUsed, BT!A!ObjectKeepsRow
<1>. QED
  BY <1>1 DEF BT!ImagesInv

LEMMA OffersPromise ==
  ASSUME RS!OffersInv
  PROVE  /\ Offers!TypeOK
<1>1. /\ Offers!TypeOK <=> RS!O!TypeOK
  BY
    DEF Offers!TypeOK, Offers!Holder, Offers!Row, Offers!Idle, Offers!Asked, Offers!Moving,
        Offers!Taking, Offers!Ending, Offers!Cardinality,
        RS!O!TypeOK, RS!O!Holder, RS!O!Row, RS!O!Idle, RS!O!Asked, RS!O!Moving, RS!O!Taking,
        RS!O!Ending, RS!O!Cardinality
<1>. QED
  BY <1>1 DEF RS!OffersInv

-----------------------------------------------------------------------------
(***************************************************************************)
(* All of them.  Only the service that moves takes steps, so that what it  *)
(* keeps alone it keeps here.                                              *)
(***************************************************************************)
ServicesInv ==
  /\ moving = "owners" => IInv
  /\ moving = "sizes" => RS!SizesInv
  /\ moving = "imports" => BT!ImportsInv
  /\ moving = "webhooks" => BT!DeliveriesInv
  /\ moving = "images" => BT!ImagesInv
  /\ moving = "offers" => RS!OffersInv

\* The limits that the proofs of the services need
Limits ==
  /\ ImportLimits
  /\ MaxAttempts \in Nat \ {0}
  /\ MaxOffers \in Nat

LEMMA ServicesInvInit ==
  ASSUME Limits, ServicesInit
  PROVE  ServicesInv
<1>1. moving = "owners" => IInv
  BY InitIInv DEF ServicesInit
<1>2. moving = "sizes" => RS!SizesInv
  BY SizesNamed, RS!SizesInit DEF ServicesInit
<1>3. moving = "imports" => BT!ImportsInv
  BY ImportsNamed, LimitsNamed, BT!ImportsInit DEF ServicesInit, Limits
<1>4. moving = "webhooks" => BT!DeliveriesInv
  BY WebhooksNamed, BT!DeliveriesInit DEF ServicesInit, Limits
<1>5. moving = "images" => BT!ImagesInv
  BY ImagesNamed, BT!ImagesInit DEF ServicesInit
<1>6. moving = "offers" => RS!OffersInv
  BY OffersNamed, RS!OffersInit DEF ServicesInit, Limits
<1>. QED
  BY <1>1, <1>2, <1>3, <1>4, <1>5, <1>6 DEF ServicesInv

\* A step is a step of the service that moves, or of none.
LEMMA OneServiceMoves ==
  ASSUME [ServicesNext]_<<ownerVars, serviceVars, moving>>
  PROVE  /\ moving' = moving
         /\ moving = "owners" => [Next]_vars
         /\ moving = "sizes" => [RS!S!Next]_(RS!S!vars)
         /\ moving = "imports" => [BT!J!Next]_(BT!J!vars)
         /\ moving = "webhooks" => [BT!W!Next]_(BT!W!vars)
         /\ moving = "images" => [BT!A!Next]_(BT!A!vars)
         /\ moving = "offers" => [RS!O!Next]_(RS!O!vars)
<1>1. CASE UNCHANGED <<ownerVars, serviceVars, moving>>
  <2>1. UNCHANGED vars /\ moving' = moving
    BY <1>1 DEF ownerVars
  <2>2. UNCHANGED <<v1, v2, v3, v4, v5, v6, v7, v8, v9, v10, v11, v12>>
    BY <1>1 DEF serviceVars
  <2>3. UNCHANGED RS!S!vars /\ UNCHANGED RS!O!vars
    BY <2>2 DEF RS!S!vars, RS!S!diskVars, RS!O!vars, RS!O!historyVars
  <2>4. UNCHANGED BT!W!vars /\ UNCHANGED BT!A!vars
    BY <2>2 DEF BT!W!vars, BT!W!countVars, BT!A!vars, BT!A!fileVars
  <2>5. UNCHANGED BT!J!vars
    BY <2>2 DEF BT!J!vars, BT!J!mapVars, BT!J!repoVars
  <2>. QED
    BY <2>1, <2>3, <2>4, <2>5
<1>2. CASE ServicesNext
  BY <1>2, SizesNamed, ImportsNamed, WebhooksNamed, ImagesNamed, OffersNamed
  DEF ServicesNext, MoveOwners, MoveSizes, MoveImports, MoveWebhooks, MoveImages, MoveOffers
<1>. QED
  BY <1>1, <1>2

LEMMA ServicesInvStep ==
  ASSUME Limits, ServicesInv, [ServicesNext]_<<ownerVars, serviceVars, moving>>
  PROVE  ServicesInv'
<1>1. moving' = moving
  BY OneServiceMoves
<1>2. moving = "owners" => IInv'
  BY OneServiceMoves, NextIInv DEF ServicesInv, Limits
<1>3. moving = "sizes" => RS!SizesInv'
  BY OneServiceMoves, RS!SizesStep DEF ServicesInv
<1>4. moving = "imports" => BT!ImportsInv'
  BY OneServiceMoves, LimitsNamed, BT!ImportsStep DEF ServicesInv, Limits
<1>5. moving = "webhooks" => BT!DeliveriesInv'
  BY OneServiceMoves, BT!DeliveriesStep DEF ServicesInv, Limits
<1>6. moving = "images" => BT!ImagesInv'
  BY OneServiceMoves, BT!ImagesStep DEF ServicesInv
<1>7. moving = "offers" => RS!OffersInv'
  BY OneServiceMoves, RS!OffersStep DEF ServicesInv, Limits
<1>. QED
  BY <1>1, <1>2, <1>3, <1>4, <1>5, <1>6, <1>7 DEF ServicesInv

LEMMA ServicesInvAlways ==
  ASSUME Limits
  PROVE  ServicesSpec => []ServicesInv
<1>1. ServicesInit => ServicesInv
  BY ServicesInvInit
<1>2. ServicesInv /\ [ServicesNext]_<<ownerVars, serviceVars, moving>> => ServicesInv'
  BY ServicesInvStep
<1>. QED
  BY <1>1, <1>2, PTL DEF ServicesSpec

\* Rows, maps and goroutines of whichever service moves hold what they may
\* hold.
THEOREM TypesOfServices ==
  ASSUME Limits
  PROVE  ServicesSpec => []AllTypes
<1>1. ServicesInv => AllTypes
  BY SizesPromise, ImportsPromise, WebhooksPromise, ImagesPromise, OffersPromise
     DEF Limits, ServicesInv, AllTypes, IInv
<1>. QED
  BY <1>1, ServicesInvAlways, PTL

\* Whichever service moves, the organizations whose first member was an owner
\* have owners as long as they have members.
THEOREM OwnersAlwaysRemain ==
  ASSUME Limits
  PROVE  ServicesSpec => []MembersHaveOwner
<1>1. ServicesInit => ServicesInv /\ MembersHaveOwner
  BY ServicesInvInit, InitIInv DEF ServicesInit, IInv
<1>2. ASSUME ServicesInv, MembersHaveOwner, [ServicesNext]_<<ownerVars, serviceVars, moving>>
      PROVE  ServicesInv' /\ MembersHaveOwner'
  <2>1. ServicesInv'
    BY <1>2, ServicesInvStep
  <2>2. CASE moving = "owners"
    BY <1>2, <2>1, <2>2, OneServiceMoves DEF ServicesInv, IInv
  <2>3. CASE moving # "owners"
    <3>1. UNCHANGED vars
      BY <1>2, <2>3
      DEF ServicesNext, MoveOwners, MoveSizes, MoveImports, MoveWebhooks, MoveImages, MoveOffers,
          ownerVars
    <3>. QED
      BY <1>2, <2>1, <3>1 DEF vars, orgVars, MembersHaveOwner, Members, Owners
  <2>. QED
    BY <2>1, <2>2, <2>3
<1>. QED
  BY <1>1, <1>2, PTL DEF ServicesSpec

\* Never do two of the goroutines that Recompute starts measure one repository
\* at a time, as the map and the restarts have it; the backfill may measure
\* beside one of them.
THEOREM OneMeasures ==
  ASSUME Limits
  PROVE  ServicesSpec => []OneMeasurement
<1>1. ServicesInv => OneMeasurement
  BY SizesPromise
     DEF Limits, ServicesInv, OneMeasurement
<1>. QED
  BY <1>1, ServicesInvAlways, PTL

\* Once nothing is under way, the stored size is what was written, unless a
\* measurement failed, panicked or was cut, or the backfill overwrote it.
THEOREM StoredSizesSettle ==
  ASSUME Limits
  PROVE  ServicesSpec => []SizeSettles
<1>1. ServicesInv => SizeSettles
  BY SizesPromise
     DEF Limits, ServicesInv, SizeSettles
<1>. QED
  BY <1>1, ServicesInvAlways, PTL

\* The imports of a user that wait or run are never more than the limit,
\* although the map forgets jobs.
THEOREM FewImportsOfEachUser ==
  ASSUME Limits
  PROVE  ServicesSpec => []RunsPerUser
<1>1. ServicesInv => RunsPerUser
  BY ImportsPromise
     DEF Limits, ServicesInv, RunsPerUser
<1>. QED
  BY <1>1, ServicesInvAlways, PTL

\* Every unfinished job in the map has a goroutine, and every slot taken is
\* held by one.
THEOREM NoImportIsForgotten ==
  ASSUME Limits
  PROVE  ServicesSpec => []UnfinishedJobsEnd
<1>1. ServicesInv => UnfinishedJobsEnd
  BY ImportsPromise
     DEF Limits, ServicesInv, UnfinishedJobsEnd
<1>. QED
  BY <1>1, ServicesInvAlways, PTL

\* Imports that all passed the quota exceed it by fewer than may run at once.
THEOREM ImportsOvershootLittle ==
  ASSUME Limits
  PROVE  ServicesSpec => []QuotaOvershoot
<1>1. ServicesInv => QuotaOvershoot
  BY ImportsPromise
     DEF Limits, ServicesInv, QuotaOvershoot
<1>. QED
  BY <1>1, ServicesInvAlways, PTL

\* When its goroutine is through, an import has a row and the data, or
\* neither row nor clone, unless its cleanup was cut short.
THEOREM ImportsAllOrNothing ==
  ASSUME Limits
  PROVE  ServicesSpec => []AllOrNothing
<1>1. ServicesInv => AllOrNothing
  BY ImportsPromise
     DEF Limits, ServicesInv, AllOrNothing
<1>. QED
  BY <1>1, ServicesInvAlways, PTL

\* No two retries of one delivery are under way at once.
THEOREM RetriesStaySingle ==
  ASSUME Limits
  PROVE  ServicesSpec => []OneScheduledRetry
<1>1. ServicesInv => OneScheduledRetry
  BY WebhooksPromise
     DEF Limits, ServicesInv, OneScheduledRetry
<1>. QED
  BY <1>1, ServicesInvAlways, PTL

\* A delivery is sent no more often than the limit, redeliveries and writes
\* that were lost apart.
THEOREM AttemptsStayBounded ==
  ASSUME Limits
  PROVE  ServicesSpec => []FiveAttemptsInAll
<1>1. ServicesInv => FiveAttemptsInAll
  BY WebhooksPromise
     DEF Limits, ServicesInv, FiveAttemptsInAll
<1>. QED
  BY <1>1, ServicesInvAlways, PTL

\* While the repository is there, an image that bodies always referred to is
\* not swept.
THEOREM ImagesInUseStay ==
  ASSUME Limits
  PROVE  ServicesSpec => []KeptWhileUsed
<1>1. ServicesInv => KeptWhileUsed
  BY ImagesPromise
     DEF Limits, ServicesInv, KeptWhileUsed
<1>. QED
  BY <1>1, ServicesInvAlways, PTL

\* No object lies in storage without the row that a later sweep finds it by.
THEOREM ObjectsKeepRows ==
  ASSUME Limits
  PROVE  ServicesSpec => []ObjectKeepsRow
<1>1. ServicesInv => ObjectKeepsRow
  BY ImagesPromise
     DEF Limits, ServicesInv, ObjectKeepsRow
<1>. QED
  BY <1>1, ServicesInvAlways, PTL

LEMMA OffersKept ==
  ASSUME ServicesInv, [ServicesNext]_<<ownerVars, serviceVars, moving>>, moving = "offers"
  PROVE  Offers!AcceptsWhatIsOffered /\ Offers!AcceptsWhatWasShown
<1>1. RS!O!AcceptsWhatIsOffered /\ RS!O!AcceptsWhatWasShown
  BY OneServiceMoves, RS!AcceptsAsPromised DEF ServicesInv
<1>. QED
  BY <1>1
  DEF Offers!AcceptsWhatIsOffered, Offers!AcceptsWhatWasShown, Offers!Accepts, Offers!Idle,
      RS!O!AcceptsWhatIsOffered, RS!O!AcceptsWhatWasShown, RS!O!Accepts, RS!O!Idle

\* An offer that was cancelled, declined, replaced, accepted or ended by a move
\* moves no repository any more.
THEOREM EndedOffersEndForGood ==
  ASSUME Limits
  PROVE  ServicesSpec => EndedOffersMoveNothing
<1>1. ServicesInv /\ [ServicesNext]_<<ownerVars, serviceVars, moving>>
        => [moving = "offers" => Offers!AcceptsWhatIsOffered]_serviceVars
  BY OffersKept
<1>. QED
  BY <1>1, ServicesInvAlways, PTL DEF ServicesSpec, EndedOffersMoveNothing

\* Who accepts an offer gets the repository from the owner that made it, as
\* it was shown.
THEOREM OffersMoveAsShown ==
  ASSUME Limits
  PROVE  ServicesSpec => OffersStayWithTheirOwner
<1>1. ServicesInv /\ [ServicesNext]_<<ownerVars, serviceVars, moving>>
        => [moving = "offers" => Offers!AcceptsWhatWasShown]_serviceVars
  BY OffersKept
<1>. QED
  BY <1>1, ServicesInvAlways, PTL DEF ServicesSpec, OffersStayWithTheirOwner
=============================================================================
