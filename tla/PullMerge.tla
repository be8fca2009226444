------------------------------- MODULE PullMerge -------------------------------
(***************************************************************************)
(* One pull request, its base and head branches, and everyone who moves    *)
(* them: pushers over HTTP and SSH, merges asked for by people and started *)
(* by auto-merge, people who close, reopen or review the pull request, and *)
(* the services that post commit statuses.  A branch protection rule may   *)
(* match the base branch.                                                  *)
(*                                                                         *)
(* A merge, a push and a change of state are several steps, one for each   *)
(* read that a later write relies on.  The switches of the pull request,   *)
(* whose order against each other no property tells apart, are one each.   *)
(***************************************************************************)
EXTENDS Naturals, FiniteSets

CONSTANTS
  Commit,        \* commits that may ever be made
  NoCommit,      \* an absent branch, or no commit
  Root,          \* the base branch's first tip
  Work,          \* the head branch's first tip, made on Root
  Merger,        \* goroutines that run mergePull
  Pusher,        \* receive-pack sessions and web commits
  Editor,        \* requests that close or reopen
  Rules,         \* the protection rules the base branch may have
  Strategies,    \* the merge strategies that may be asked for
  Posted,        \* the statuses services post
  Reviews,       \* the verdicts reviewers submit
  Switches,      \* what else people flip: "auto" merge, the "draft" mark
  MaxFaults      \* bound: crashes and failed statements in one behaviour

Rule == [blockForce : BOOLEAN, requirePR : BOOLEAN, requireReview : BOOLEAN, requireStatus : BOOLEAN]

ASSUME PullAssumption ==
  /\ NoCommit \notin Commit
  /\ Root \in Commit /\ Work \in Commit \ {Root}
  /\ Merger \cap Editor = {}
  /\ Rules \subseteq Rule
  /\ Strategies \subseteq {"ff", "merge", "squash"}
  /\ Posted \subseteq {"success", "failure"}
  /\ Reviews \subseteq {"approved", "changes", "commented"}
  /\ Switches \subseteq {"auto", "draft"}
  /\ MaxFaults \in Nat

VARIABLES
  tip,       \* the commit each branch points at
  reach,     \* what each commit made so far reaches, itself included
  source,    \* the head commit a merge or squash commit brings in
  status,    \* the required check's status of each commit
  passed,    \* the commits whose check ever succeeded
  verdict,   \* the reviewer's standing verdict
  rule,      \* the rule that matches the base branch
  state,     \* pull_requests.state
  draft,     \* pull_requests.is_draft
  armed,     \* auto-merge: "off", "on", or "orphan": its user can't write
  wake,      \* statuses and reviews whose auto-merge goroutine is yet to run
  mstep,     \* what each merger is doing
  mhead,     \* the head commit it checked
  mbase,     \* the base tip it read
  mresult,   \* the commit it wants the base branch to point at
  pstep,     \* what each pusher is doing
  pref,      \* the branch it pushes to
  pold,      \* the value its client saw there
  pnew,      \* the value its client wants
  setting,   \* the state a SetState call is about to write, or "none"
  landed,    \* what merges have pointed the base branch at
  faults     \* crashes and failed statements so far

refVars    == <<tip, reach, source>>
checkVars  == <<status, passed, verdict, rule>>
pullVars   == <<state, draft, armed>>
mergerVars == <<mstep, mhead, mbase, mresult>>
pusherVars == <<pstep, pref, pold, pnew>>
vars == <<refVars, checkVars, pullVars, wake, mergerVars, pusherVars, setting, landed, faults>>

Branch     == {"base", "head"}
MaybeCommit == Commit \cup {NoCommit}
Setter     == Merger \cup Editor
ReviewWake == NoCommit
Made       == {c \in Commit : reach[c] # {}}
Protected  == rule.blockForce \/ rule.requirePR

TypeOK ==
  /\ tip \in [Branch -> MaybeCommit]
  /\ reach \in [Commit -> SUBSET Commit]
  /\ source \in [Commit -> MaybeCommit]
  /\ status \in [Commit -> {"none", "success", "failure"}]
  /\ passed \subseteq Commit
  /\ verdict \in {"none", "approved", "changes"}
  /\ rule \in Rules
  /\ state \in {"open", "closed", "merged"}
  /\ draft \in BOOLEAN
  /\ armed \in {"off", "on", "orphan"}
  /\ wake \subseteq Commit \cup {ReviewWake}
  /\ mstep \in [Merger -> {"idle", "begun", "resolved", "checked", "built", "moved"}]
  /\ mhead \in [Merger -> MaybeCommit]
  /\ mbase \in [Merger -> MaybeCommit]
  /\ mresult \in [Merger -> MaybeCommit]
  /\ pstep \in [Pusher -> {"idle", "sent", "looked"}]
  /\ pref \in [Pusher -> Branch]
  /\ pold \in [Pusher -> MaybeCommit]
  /\ pnew \in [Pusher -> MaybeCommit]
  /\ setting \in [Setter -> {"none", "open", "closed", "merged"}]
  /\ landed \subseteq Commit
  /\ faults \in 0..MaxFaults

Init ==
  /\ tip = [b \in Branch |-> IF b = "base" THEN Root ELSE Work]
  /\ reach = [c \in Commit |-> IF c = Root THEN {Root}
                               ELSE IF c = Work THEN {Root, Work} ELSE {}]
  /\ source = [c \in Commit |-> NoCommit]
  /\ status = [c \in Commit |-> "none"]
  /\ passed = {}
  /\ verdict = "none"
  /\ rule \in Rules
  /\ state = "open"
  /\ draft = FALSE
  /\ armed = "off"
  /\ wake = {}
  /\ mstep = [g \in Merger |-> "idle"]
  /\ mhead = [g \in Merger |-> NoCommit]
  /\ mbase = [g \in Merger |-> NoCommit]
  /\ mresult = [g \in Merger |-> NoCommit]
  /\ pstep = [p \in Pusher |-> "idle"]
  /\ pref = [p \in Pusher |-> "head"]
  /\ pold = [p \in Pusher |-> NoCommit]
  /\ pnew = [p \in Pusher |-> NoCommit]
  /\ setting = [a \in Setter |-> "none"]
  /\ landed = {}
  /\ faults = 0

-----------------------------------------------------------------------------
(* Pushes: receive-pack commands, web commits, and the branch pages *)

NewCommit(c, parents) ==
  /\ c \in Commit \ Made
  /\ reach' = [reach EXCEPT ![c] = {c} \cup UNION {reach[q] : q \in parents}]

\* What the rule lets a push do to the base branch.  A push that can't be
\* shown to keep every commit of the branch is a force push, a delete too.
PushVetted(b, old, new) ==
  b = "base" =>
    /\ ~ rule.requirePR
    /\ rule.blockForce => new # NoCommit /\ (old = NoCommit \/ old \in reach[new])

IdlePusher(p) ==
  /\ pstep' = [pstep EXCEPT ![p] = "idle"]
  /\ pref' = [pref EXCEPT ![p] = "head"]
  /\ pold' = [pold EXCEPT ![p] = NoCommit]
  /\ pnew' = [pnew EXCEPT ![p] = NoCommit]

\* The client saw the branch at its tip and wants it elsewhere.
Send(p, b, new) ==
  /\ pstep[p] = "idle"
  /\ new # tip[b]
  /\ pstep' = [pstep EXCEPT ![p] = "sent"]
  /\ pref' = [pref EXCEPT ![p] = b]
  /\ pold' = [pold EXCEPT ![p] = tip[b]]
  /\ pnew' = [pnew EXCEPT ![p] = new]
  /\ UNCHANGED <<tip, source, checkVars, pullVars, wake, mergerVars, setting, landed, faults>>

PushNew(p, b, c) ==
  /\ \E parents \in {{}, {tip[b]} \ {NoCommit}} : NewCommit(c, parents)
  /\ Send(p, b, c)

PushOld(p, b, new) ==
  /\ new \in Made \cup {NoCommit}
  /\ Send(p, b, new)
  /\ UNCHANGED reach

\* gitref.Move of a branch to another commit: a compare-and-swap.
PushUpdate(p) ==
  /\ pstep[p] = "sent"
  /\ pold[p] # NoCommit /\ pnew[p] # NoCommit
  /\ IF PushVetted(pref[p], pold[p], pnew[p]) /\ tip[pref[p]] = pold[p]
     THEN tip' = [tip EXCEPT ![pref[p]] = pnew[p]]
     ELSE UNCHANGED tip
  /\ IdlePusher(p)
  /\ UNCHANGED <<reach, source, checkVars, pullVars, wake, mergerVars, setting, landed, faults>>

\* gitref.Move looks first when it creates or deletes a branch ...
PushLook(p) ==
  /\ pstep[p] = "sent"
  /\ pold[p] = NoCommit \/ pnew[p] = NoCommit
  /\ IF PushVetted(pref[p], pold[p], pnew[p]) /\ tip[pref[p]] = pold[p]
     THEN pstep' = [pstep EXCEPT ![p] = "looked"] /\ UNCHANGED <<pref, pold, pnew>>
     ELSE IdlePusher(p)
  /\ UNCHANGED <<refVars, checkVars, pullVars, wake, mergerVars, setting, landed, faults>>

\* ... and then writes without comparing.
PushWrite(p) ==
  /\ pstep[p] = "looked"
  /\ tip' = [tip EXCEPT ![pref[p]] = pnew[p]]
  /\ IdlePusher(p)
  /\ UNCHANGED <<reach, source, checkVars, pullVars, wake, mergerVars, setting, landed, faults>>

DeleteUnvetted(b) ==
  /\ tip[b] # NoCommit
  /\ tip' = [tip EXCEPT ![b] = NoCommit]
  /\ UNCHANGED <<reach, source, checkVars, pullVars, wake, mergerVars, pusherVars,
                 setting, landed, faults>>

\* The branches page deletes whatever the branch points at.
DeleteBranch(b) ==
  /\ tip[b] # NoCommit
  /\ b = "base" => ~ Protected
  /\ tip' = [tip EXCEPT ![b] = NoCommit]
  /\ UNCHANGED <<reach, source, checkVars, pullVars, wake, mergerVars, pusherVars,
                 setting, landed, faults>>

-----------------------------------------------------------------------------
(* Merges: mergePull, asked for or started by auto-merge *)

IdleMerger(g) ==
  /\ mstep' = [mstep EXCEPT ![g] = "idle"]
  /\ mhead' = [mhead EXCEPT ![g] = NoCommit]
  /\ mbase' = [mbase EXCEPT ![g] = NoCommit]
  /\ mresult' = [mresult EXCEPT ![g] = NoCommit]

Begin(g) ==
  /\ mstep[g] = "idle"
  /\ mstep' = [mstep EXCEPT ![g] = "begun"]
  /\ UNCHANGED <<mhead, mbase, mresult>>

\* Someone asks for the merge of a pull request that is open and no draft.
AskMerge(g) ==
  /\ state = "open" /\ ~ draft
  /\ Begin(g)
  /\ UNCHANGED <<refVars, checkVars, pullVars, wake, pusherVars, setting, landed, faults>>

TryAutoMergeOfReviews(x) ==
  /\ x \in wake
  /\ wake' = wake \ {x}
  /\ IF armed = "off" \/ state # "open" \/ draft \/ x # ReviewWake
     THEN UNCHANGED <<armed, mergerVars>>
     ELSE IF armed = "orphan"
          THEN armed' = "off" /\ UNCHANGED mergerVars
          ELSE (\E g \in Merger : Begin(g)) /\ UNCHANGED armed
  /\ UNCHANGED <<refVars, checkVars, state, draft, pusherVars, setting, landed, faults>>

\* The goroutine a status or a review starts: it merges an armed pull request
\* whose head the status is of, or disarms one whose user can't write.
TryAutoMerge(x) ==
  /\ x \in wake
  /\ wake' = wake \ {x}
  /\ IF armed = "off" \/ state # "open" \/ draft \/ (x # ReviewWake /\ tip["head"] # x)
     THEN UNCHANGED <<armed, mergerVars>>
     ELSE IF armed = "orphan"
          THEN armed' = "off" /\ UNCHANGED mergerVars
          ELSE (\E g \in Merger : Begin(g)) /\ UNCHANGED armed
  /\ UNCHANGED <<refVars, checkVars, state, draft, pusherVars, setting, landed, faults>>

\* A reviewer who asked for changes blocks the merge; the head is read once,
\* for everything that follows.
Resolve(g) ==
  /\ mstep[g] = "begun"
  /\ IF verdict # "changes"
     THEN /\ mstep' = [mstep EXCEPT ![g] = "resolved"]
          /\ mhead' = [mhead EXCEPT ![g] = tip["head"]]
          /\ UNCHANGED <<mbase, mresult>>
     ELSE IdleMerger(g)
  /\ UNCHANGED <<refVars, checkVars, pullVars, wake, pusherVars, setting, landed, faults>>

\* The rule's requirements of the head commit.  A head that didn't resolve
\* passes the status check here, and fails to resolve later.
CheckMerge(head) ==
  /\ rule.requireReview => verdict = "approved"
  /\ rule.requireStatus => head = NoCommit \/ status[head] = "success"

Check(g) ==
  /\ mstep[g] = "resolved"
  /\ IF CheckMerge(mhead[g])
     THEN mstep' = [mstep EXCEPT ![g] = "checked"] /\ UNCHANGED <<mhead, mbase, mresult>>
     ELSE IdleMerger(g)
  /\ UNCHANGED <<refVars, checkVars, pullVars, wake, pusherVars, setting, landed, faults>>

AnyHead(g) == tip["head"] # NoCommit

\* resolveHead: the head branch is still at the commit that was checked.
SameHead(g) == tip["head"] # NoCommit /\ tip["head"] = mhead[g]

CanFastForward(base, head) == base \in reach[head]

\* The strategy's commit.  Diverged branches conflict or don't, as their
\* content has it, and have to have a common ancestor.
Build(g) ==
  /\ mstep[g] = "checked"
  /\ SameHead(g)
  /\ tip["base"] # NoCommit
  /\ LET base == tip["base"]
         head == tip["head"]
     IN  \/ /\ Strategies \cap {"ff", "merge"} # {}
            /\ CanFastForward(base, head)
            /\ mresult' = [mresult EXCEPT ![g] = head]
            /\ UNCHANGED <<reach, source>>
         \/ \E c \in Commit :
              /\ reach[base] \cap reach[head] # {}
              /\ \/ "merge" \in Strategies /\ ~ CanFastForward(base, head) /\ NewCommit(c, {base, head})
                 \/ "squash" \in Strategies /\ NewCommit(c, {base})
              /\ source' = [source EXCEPT ![c] = head]
              /\ mresult' = [mresult EXCEPT ![g] = c]
  /\ mstep' = [mstep EXCEPT ![g] = "built"]
  /\ mbase' = [mbase EXCEPT ![g] = tip["base"]]
  /\ UNCHANGED <<tip, mhead, checkVars, pullVars, wake, pusherVars, setting, landed, faults>>

\* A moved or missing branch, diverged branches: nothing is written.
Refuse(g) ==
  /\ mstep[g] = "checked"
  /\ SameHead(g) /\ tip["base"] # NoCommit => ~ CanFastForward(tip["base"], tip["head"])
  /\ IdleMerger(g)
  /\ UNCHANGED <<refVars, checkVars, pullVars, wake, pusherVars, setting, landed, faults>>

MoveBaseUnseen(g) ==
  /\ mstep[g] = "built"
  /\ tip' = [tip EXCEPT !["base"] = mresult[g]]
  /\ landed' = landed \cup {mresult[g]}
  /\ mstep' = [mstep EXCEPT ![g] = "moved"]
  /\ UNCHANGED <<reach, source, mhead, mbase, mresult, checkVars, pullVars, wake, pusherVars,
                 setting, faults>>

MoveBaseOrNot(g) ==
  /\ mstep[g] = "built"
  /\ IF tip["base"] = mbase[g]
     THEN tip' = [tip EXCEPT !["base"] = mresult[g]] /\ landed' = landed \cup {mresult[g]}
     ELSE UNCHANGED <<tip, landed>>
  /\ mstep' = [mstep EXCEPT ![g] = "moved"]
  /\ UNCHANGED <<reach, source, mhead, mbase, mresult, checkVars, pullVars, wake, pusherVars,
                 setting, faults>>

\* gitref.Move of the base branch from the tip that was read.
MoveBase(g) ==
  /\ mstep[g] = "built"
  /\ IF tip["base"] = mbase[g]
     THEN /\ tip' = [tip EXCEPT !["base"] = mresult[g]]
          /\ landed' = landed \cup {mresult[g]}
          /\ mstep' = [mstep EXCEPT ![g] = "moved"]
          /\ UNCHANGED <<mhead, mbase, mresult>>
     ELSE /\ IdleMerger(g)
          /\ UNCHANGED <<tip, landed>>
  /\ UNCHANGED <<reach, source, checkVars, pullVars, wake, pusherVars, setting, faults>>

-----------------------------------------------------------------------------
(* SetState: the row is read, and written by its id *)

SetStateOfOpen(a, to) ==
  /\ setting[a] = "none"
  /\ setting' = [setting EXCEPT ![a] = IF state = "open" THEN to ELSE "none"]

SetState(a, to) ==
  /\ setting[a] = "none"
  /\ setting' = [setting EXCEPT ![a] = IF state = "merged" THEN "none" ELSE to]

\* The last step of a merge.  "merged PRs cannot be updated" ends it.
SetMerged(g) ==
  /\ mstep[g] = "moved"
  /\ SetState(g, "merged")
  /\ IF state = "merged" THEN IdleMerger(g) ELSE UNCHANGED mergerVars
  /\ UNCHANGED <<refVars, checkVars, pullVars, wake, pusherVars, landed, faults>>

CloseOrReopen(e, to) ==
  /\ SetState(e, to)
  /\ UNCHANGED <<refVars, checkVars, pullVars, wake, mergerVars, pusherVars, landed, faults>>

UpdateStateAgain(a) ==
  /\ a \in Merger => mstep[a] = "moved"
  /\ state' = setting[a]
  /\ setting' = [setting EXCEPT ![a] = "none"]
  /\ IF a \in Merger THEN IdleMerger(a) ELSE UNCHANGED mergerVars
  /\ UNCHANGED <<refVars, checkVars, draft, armed, wake, pusherVars, landed, faults>>

UpdateState(a) ==
  /\ setting[a] # "none"
  /\ state' = setting[a]
  /\ setting' = [setting EXCEPT ![a] = "none"]
  /\ IF a \in Merger THEN IdleMerger(a) ELSE UNCHANGED mergerVars
  /\ UNCHANGED <<refVars, checkVars, draft, armed, wake, pusherVars, landed, faults>>

-----------------------------------------------------------------------------
(* Reviews, statuses, and the pull request's other switches *)

PostStatus(c, s) ==
  /\ c \in Made
  /\ status' = [status EXCEPT ![c] = s]
  /\ passed' = IF s = "success" THEN passed \cup {c} ELSE passed
  /\ wake' = wake \cup {c}
  /\ UNCHANGED <<refVars, verdict, rule, pullVars, mergerVars, pusherVars, setting, landed, faults>>

\* A comment leaves a standing verdict as it is.
SubmitReview(v) ==
  /\ verdict' = IF v = "commented" THEN verdict ELSE v
  /\ wake' = wake \cup {ReviewWake}
  /\ UNCHANGED <<refVars, status, passed, rule, pullVars, mergerVars, pusherVars, setting, landed, faults>>

EnableAutoMerge ==
  /\ "auto" \in Switches
  /\ state = "open" /\ ~ draft
  /\ armed' = "on"
  /\ UNCHANGED <<refVars, checkVars, state, draft, wake, mergerVars, pusherVars, setting, landed, faults>>

DisableAutoMerge ==
  /\ state # "merged"
  /\ armed' = "off"
  /\ UNCHANGED <<refVars, checkVars, state, draft, wake, mergerVars, pusherVars, setting, landed, faults>>

\* The arming user is deleted or loses write access.
LoseAccess ==
  /\ armed = "on"
  /\ armed' = "orphan"
  /\ UNCHANGED <<refVars, checkVars, state, draft, wake, mergerVars, pusherVars, setting, landed, faults>>

SetDraft(d) ==
  /\ "draft" \in Switches
  /\ state = "open"
  /\ draft' = d
  /\ UNCHANGED <<refVars, checkVars, state, armed, wake, mergerVars, pusherVars, setting, landed, faults>>

-----------------------------------------------------------------------------
(* Faults: a statement or a file operation that fails, a crash *)

Fault ==
  /\ faults < MaxFaults
  /\ faults' = faults + 1

\* A read or a write of a merge fails, or its client is gone and the request's
\* context with it.  Nothing is undone: past MoveBase the commits have landed
\* and the row stays as it is.
MergeFails(g) ==
  /\ Fault
  /\ mstep[g] # "idle"
  /\ IdleMerger(g)
  /\ setting' = [setting EXCEPT ![g] = "none"]
  /\ UNCHANGED <<refVars, checkVars, pullVars, wake, pusherVars, landed>>

\* The write of a request that closes or reopens fails.
UpdateFails(e) ==
  /\ Fault
  /\ setting[e] # "none"
  /\ setting' = [setting EXCEPT ![e] = "none"]
  /\ UNCHANGED <<refVars, checkVars, pullVars, wake, mergerVars, pusherVars, landed>>

\* A read before the merge fails, and the goroutine ends; so does a failed
\* disarm.
TryAutoMergeFails(x) ==
  /\ Fault
  /\ wake' = wake \ {x}
  /\ UNCHANGED <<refVars, checkVars, pullVars, mergerVars, pusherVars, setting, landed>>

\* The server dies: every request and goroutine is gone, rows and refs stay.
Crash ==
  /\ Fault
  /\ wake' = {}
  /\ mstep' = [g \in Merger |-> "idle"]
  /\ mhead' = [g \in Merger |-> NoCommit]
  /\ mbase' = [g \in Merger |-> NoCommit]
  /\ mresult' = [g \in Merger |-> NoCommit]
  /\ pstep' = [p \in Pusher |-> "idle"]
  /\ pref' = [p \in Pusher |-> "head"]
  /\ pold' = [p \in Pusher |-> NoCommit]
  /\ pnew' = [p \in Pusher |-> NoCommit]
  /\ setting' = [a \in Setter |-> "none"]
  /\ UNCHANGED <<refVars, checkVars, pullVars, landed>>

PushStep(p)  == PushUpdate(p) \/ PushLook(p) \/ PushWrite(p)
MergeStep(g) == Resolve(g) \/ Check(g) \/ Build(g) \/ Refuse(g) \/ MoveBase(g) \/ SetMerged(g)

Next ==
  \/ \E p \in Pusher, b \in Branch :
       (\E c \in Commit : PushNew(p, b, c)) \/ (\E c \in MaybeCommit : PushOld(p, b, c))
  \/ \E p \in Pusher : PushStep(p)
  \/ \E b \in Branch : DeleteBranch(b)
  \/ \E g \in Merger : AskMerge(g) \/ MergeStep(g)
  \/ \E x \in wake : TryAutoMerge(x)
  \/ \E e \in Editor, to \in {"open", "closed"} : CloseOrReopen(e, to)
  \/ \E a \in Setter : UpdateState(a)
  \/ \E c \in Commit, s \in Posted : PostStatus(c, s)
  \/ \E v \in Reviews : SubmitReview(v)
  \/ EnableAutoMerge \/ DisableAutoMerge \/ LoseAccess
  \/ \E d \in BOOLEAN : SetDraft(d)
  \/ \E g \in Merger : MergeFails(g)
  \/ \E e \in Editor : UpdateFails(e)
  \/ \E x \in wake : TryAutoMergeFails(x)
  \/ Crash

Spec == Init /\ [][Next]_vars

\* Goroutines and requests that began go on.
FairSpec ==
  /\ Spec
  /\ \A g \in Merger : WF_vars(MergeStep(g))
  /\ \A a \in Setter : WF_vars(UpdateState(a))
  /\ \A x \in Commit \cup {ReviewWake} : WF_vars(TryAutoMerge(x))

-----------------------------------------------------------------------------
(* Properties *)

\* Under a rule that blocks force pushes or requires a pull request, the base
\* branch is never deleted and never loses a commit, whatever pushes and
\* merges race for it.
ProtectedKeepsHistory ==
  [][Protected /\ tip["base"] # NoCommit =>
       /\ tip'["base"] # NoCommit
       /\ reach[tip["base"]] \subseteq reach'[tip'["base"]]]_vars

\* "... instead of merging commits the required checks never saw": with a rule
\* that requires a pull request and the check, all that the base branch holds
\* passed the check as some merged head, or lies below one that did.
ProtectedHoldsCheckedWork ==
  rule.requirePR /\ rule.requireStatus /\ tip["base"] # NoCommit =>
    \A c \in reach[tip["base"]] :
      \/ c = Root
      \/ source[c] \in passed
      \/ \E h \in passed : c \in reach[h]

\* A pull request that says merged has landed: while its base branch is
\* protected, what a merge put there is still in it.
MergedHasLanded ==
  state = "merged" /\ Protected =>
    tip["base"] # NoCommit /\ reach[tip["base"]] \cap landed # {}

\* A merge that moved the base branch marks the pull request merged, whoever
\* closes, reopens or switches it meanwhile, unless from then on the server dies
\* or a statement fails.  After such a fault nothing repairs the row: what landed
\* stays in the base branch of an open pull request until someone merges again.
LandedIsRecorded ==
  \A g \in Merger, n \in 0..MaxFaults :
    mstep[g] = "moved" /\ faults = n ~> state = "merged" \/ faults > n

\* "merged PRs cannot be updated"
MergedIsFinal == [][state = "merged" => state' = "merged"]_vars

\* An armed pull request that meets every requirement of its base branch.
Ready ==
  /\ armed = "on" /\ state = "open" /\ ~ draft /\ verdict # "changes"
  /\ tip["base"] # NoCommit /\ tip["head"] # NoCommit
  /\ CheckMerge(tip["head"])
  /\ CanFastForward(tip["base"], tip["head"])

\* Once a status of its head, or a review, came in, an armed pull request that
\* stays ready is merged, unless from then on the server dies or a statement
\* fails, which no later attempt makes up for.
WokenMergeFires ==
  \A n \in 0..MaxFaults :
    Ready /\ wake \cap {tip["head"], ReviewWake} # {} /\ faults = n ~> ~ Ready \/ faults > n

\* "Auto-merge is on. It merges once the requirements are met."
AutoMergeFires == Ready ~> ~ Ready
=============================================================================
