---------------------------- MODULE PullMerge_proofs ----------------------------
(***************************************************************************)
(* Theorems about PullMerge, for any commits, mergers, pushers, rules and  *)
(* strategies, and any number of faults .                                  *)
(***************************************************************************)
EXTENDS PullMerge, TLAPS

\* The two branches.
LEMMA Branches == "base" \in Branch /\ "head" \in Branch
BY DEF Branch

\* An idle merger is well typed.
LEMMA IdleMergerType ==
  ASSUME TypeOK, NEW g \in Merger, IdleMerger(g)
  PROVE  /\ mstep' \in [Merger -> {"idle", "begun", "resolved", "checked", "built", "moved"}]
         /\ mhead' \in [Merger -> MaybeCommit]
         /\ mbase' \in [Merger -> MaybeCommit]
         /\ mresult' \in [Merger -> MaybeCommit]
BY DEF TypeOK, IdleMerger, MaybeCommit

\* An idle pusher is well typed.
LEMMA IdlePusherType ==
  ASSUME TypeOK, NEW p \in Pusher, IdlePusher(p)
  PROVE  /\ pstep' \in [Pusher -> {"idle", "sent", "looked"}]
         /\ pref' \in [Pusher -> Branch]
         /\ pold' \in [Pusher -> MaybeCommit]
         /\ pnew' \in [Pusher -> MaybeCommit]
BY Branches DEF TypeOK, IdlePusher, MaybeCommit

\* A new commit reaches itself and what its parents reach.
LEMMA NewCommitType ==
  ASSUME TypeOK, NEW c \in Commit, NEW parents \in SUBSET Commit, NewCommit(c, parents)
  PROVE  reach' \in [Commit -> SUBSET Commit]
<1>1. {c} \cup UNION {reach[q] : q \in parents} \in SUBSET Commit
  BY DEF TypeOK
<1>. QED
  BY <1>1 DEF TypeOK, NewCommit

-----------------------------------------------------------------------------
(* Types, one lemma for each group of actions *)

\* A merge that has built its result has a commit to move the base branch to.
ResultsSet == \A g \in Merger : mstep[g] = "built" => mresult[g] \in Commit

\* Sending a push keeps the types.
LEMMA SendType ==
  ASSUME TypeOK, NEW p \in Pusher, NEW b \in Branch, NEW new \in MaybeCommit, Send(p, b, new),
         reach' \in [Commit -> SUBSET Commit]
  PROVE  TypeOK'
<1>1. pstep' \in [Pusher -> {"idle", "sent", "looked"}]
  BY DEF TypeOK, Send
<1>2. pref' \in [Pusher -> Branch]
  BY DEF TypeOK, Send
<1>3. tip[b] \in MaybeCommit
  BY DEF TypeOK
<1>4. pold' \in [Pusher -> MaybeCommit] /\ pnew' \in [Pusher -> MaybeCommit]
  BY <1>3 DEF TypeOK, Send
<1>. QED
  BY <1>1, <1>2, <1>4 DEF TypeOK, Send, checkVars, pullVars, mergerVars

\* What a pusher does next keeps the types.
LEMMA PushType ==
  ASSUME TypeOK, NEW p \in Pusher, PushStep(p)
  PROVE  TypeOK'
<1>0. pref[p] \in Branch /\ pnew[p] \in MaybeCommit
  BY DEF TypeOK
<1>1. CASE PushUpdate(p)
  <2>1. tip' \in [Branch -> MaybeCommit]
    BY <1>0, <1>1 DEF PushUpdate, TypeOK
  <2>. QED
    BY <1>1, <2>1, IdlePusherType DEF PushUpdate, TypeOK, checkVars, pullVars, mergerVars
<1>2. CASE PushLook(p)
  <2>1. /\ pstep' \in [Pusher -> {"idle", "sent", "looked"}]
        /\ pref' \in [Pusher -> Branch]
        /\ pold' \in [Pusher -> MaybeCommit]
        /\ pnew' \in [Pusher -> MaybeCommit]
    BY <1>2, IdlePusherType DEF PushLook, TypeOK
  <2>. QED
    BY <1>2, <2>1 DEF PushLook, TypeOK, refVars, checkVars, pullVars, mergerVars
<1>3. CASE PushWrite(p)
  <2>1. tip' \in [Branch -> MaybeCommit]
    BY <1>0, <1>3 DEF PushWrite, TypeOK
  <2>. QED
    BY <1>3, <2>1, IdlePusherType DEF PushWrite, TypeOK, checkVars, pullVars, mergerVars
<1>. QED
  BY <1>1, <1>2, <1>3 DEF PushStep

\* Building a result keeps the types.
LEMMA BuildType ==
  ASSUME TypeOK, NEW g \in Merger, Build(g)
  PROVE  TypeOK'
<1>0. tip["base"] \in Commit /\ tip["head"] \in Commit
  BY Branches DEF TypeOK, Build, SameHead, MaybeCommit
<1>1. /\ reach' \in [Commit -> SUBSET Commit]
      /\ source' \in [Commit -> MaybeCommit]
      /\ mresult' \in [Merger -> MaybeCommit]
  <2>1. CASE UNCHANGED <<reach, source>> /\ mresult' = [mresult EXCEPT ![g] = tip["head"]]
    BY <2>1, <1>0 DEF TypeOK, MaybeCommit
  <2>2. ASSUME NEW c \in Commit,
               NewCommit(c, {tip["base"], tip["head"]}) \/ NewCommit(c, {tip["base"]}),
               source' = [source EXCEPT ![c] = tip["head"]],
               mresult' = [mresult EXCEPT ![g] = c]
        PROVE  /\ reach' \in [Commit -> SUBSET Commit]
               /\ source' \in [Commit -> MaybeCommit]
               /\ mresult' \in [Merger -> MaybeCommit]
    <3>1. reach' \in [Commit -> SUBSET Commit]
      BY <1>0, <2>2, NewCommitType
    <3>. QED
      BY <3>1, <2>2, <1>0 DEF TypeOK, MaybeCommit
  <2>. QED
    BY <2>1, <2>2 DEF Build
<1>2. mstep' \in [Merger -> {"idle", "begun", "resolved", "checked", "built", "moved"}]
  BY DEF TypeOK, Build
<1>3. mbase' \in [Merger -> MaybeCommit]
  BY <1>0 DEF TypeOK, Build, MaybeCommit
<1>. QED
  BY <1>1, <1>2, <1>3 DEF TypeOK, Build, checkVars, pullVars, pusherVars

\* Deciding on a new state keeps its type.
LEMMA SetStateType ==
  ASSUME TypeOK, NEW a \in Setter, NEW to \in {"open", "closed", "merged"}, SetState(a, to)
  PROVE  setting' \in [Setter -> {"none", "open", "closed", "merged"}]
BY DEF TypeOK, SetState

\* What a merger does next keeps the types.
LEMMA MergeType ==
  ASSUME TypeOK, ResultsSet, NEW g \in Merger, MergeStep(g)
  PROVE  TypeOK'
<1>0. tip["head"] \in MaybeCommit /\ mresult[g] \in MaybeCommit
  BY Branches DEF TypeOK
<1>1. CASE Resolve(g)
  <2>1. /\ mstep' \in [Merger -> {"idle", "begun", "resolved", "checked", "built", "moved"}]
        /\ mhead' \in [Merger -> MaybeCommit]
        /\ mbase' \in [Merger -> MaybeCommit]
        /\ mresult' \in [Merger -> MaybeCommit]
    BY <1>0, <1>1, IdleMergerType DEF Resolve, TypeOK
  <2>. QED
    BY <1>1, <2>1 DEF Resolve, TypeOK, refVars, checkVars, pullVars, pusherVars
<1>2. CASE Check(g)
  <2>1. /\ mstep' \in [Merger -> {"idle", "begun", "resolved", "checked", "built", "moved"}]
        /\ mhead' \in [Merger -> MaybeCommit]
        /\ mbase' \in [Merger -> MaybeCommit]
        /\ mresult' \in [Merger -> MaybeCommit]
    BY <1>2, IdleMergerType DEF Check, TypeOK
  <2>. QED
    BY <1>2, <2>1 DEF Check, TypeOK, refVars, checkVars, pullVars, pusherVars
<1>3. CASE Build(g)
  BY <1>3, BuildType
<1>4. CASE Refuse(g)
  BY <1>4, IdleMergerType DEF Refuse, TypeOK, refVars, checkVars, pullVars, pusherVars
<1>5. CASE MoveBase(g)
  <2>1. mresult[g] \in Commit
    BY <1>5 DEF MoveBase, ResultsSet
  <2>2. tip' \in [Branch -> MaybeCommit] /\ landed' \subseteq Commit
    BY <2>1, <1>5 DEF MoveBase, TypeOK, MaybeCommit
  <2>3. /\ mstep' \in [Merger -> {"idle", "begun", "resolved", "checked", "built", "moved"}]
        /\ mhead' \in [Merger -> MaybeCommit]
        /\ mbase' \in [Merger -> MaybeCommit]
        /\ mresult' \in [Merger -> MaybeCommit]
    BY <1>5, IdleMergerType DEF MoveBase, TypeOK
  <2>. QED
    BY <1>5, <2>2, <2>3 DEF MoveBase, TypeOK, checkVars, pullVars, pusherVars
<1>6. CASE SetMerged(g)
  <2>1. setting' \in [Setter -> {"none", "open", "closed", "merged"}]
    BY <1>6, SetStateType DEF SetMerged, Setter
  <2>2. /\ mstep' \in [Merger -> {"idle", "begun", "resolved", "checked", "built", "moved"}]
        /\ mhead' \in [Merger -> MaybeCommit]
        /\ mbase' \in [Merger -> MaybeCommit]
        /\ mresult' \in [Merger -> MaybeCommit]
    BY <1>6, IdleMergerType DEF SetMerged, TypeOK, mergerVars
  <2>. QED
    BY <1>6, <2>1, <2>2 DEF SetMerged, TypeOK, refVars, checkVars, pullVars, pusherVars
<1>. QED
  BY <1>1, <1>2, <1>3, <1>4, <1>5, <1>6 DEF MergeStep

\* Beginning a merge keeps the type of its step.
LEMMA BeginType ==
  ASSUME TypeOK, NEW g \in Merger, Begin(g)
  PROVE  mstep' \in [Merger -> {"idle", "begun", "resolved", "checked", "built", "moved"}]
BY DEF TypeOK, Begin

\* Writing the state keeps the types.
LEMMA UpdateStateType ==
  ASSUME TypeOK, NEW a \in Setter, UpdateState(a)
  PROVE  TypeOK'
<1>1. state' \in {"open", "closed", "merged"}
  BY DEF TypeOK, UpdateState
<1>2. setting' \in [Setter -> {"none", "open", "closed", "merged"}]
  BY DEF TypeOK, UpdateState
<1>3. /\ mstep' \in [Merger -> {"idle", "begun", "resolved", "checked", "built", "moved"}]
      /\ mhead' \in [Merger -> MaybeCommit]
      /\ mbase' \in [Merger -> MaybeCommit]
      /\ mresult' \in [Merger -> MaybeCommit]
  BY IdleMergerType DEF UpdateState, TypeOK, mergerVars
<1>. QED
  BY <1>1, <1>2, <1>3 DEF UpdateState, TypeOK, refVars, checkVars, pusherVars

\* A goroutine of auto-merge keeps the types.
LEMMA TryAutoMergeType ==
  ASSUME TypeOK, NEW x \in wake, TryAutoMerge(x)
  PROVE  TypeOK'
<1>1. /\ armed' \in {"off", "on", "orphan"}
      /\ mstep' \in [Merger -> {"idle", "begun", "resolved", "checked", "built", "moved"}]
      /\ UNCHANGED <<mhead, mbase, mresult>>
  BY BeginType DEF TryAutoMerge, TypeOK, mergerVars, Begin
<1>. QED
  BY <1>1 DEF TryAutoMerge, TypeOK, refVars, checkVars, pusherVars

\* A fault is counted.
LEMMA FaultType == TypeOK /\ Fault => faults' \in 0..MaxFaults
BY PullAssumption DEF Fault, TypeOK

\* A merge, a request or a goroutine that fails keeps the types.
LEMMA FailsType ==
  ASSUME TypeOK,
         \/ \E g \in Merger : MergeFails(g)
         \/ \E e \in Editor : UpdateFails(e)
         \/ \E x \in wake : TryAutoMergeFails(x)
  PROVE  TypeOK'
<1>1. ASSUME NEW g \in Merger, MergeFails(g)
      PROVE  TypeOK'
  <2>1. setting' \in [Setter -> {"none", "open", "closed", "merged"}] /\ faults' \in 0..MaxFaults
    BY <1>1, FaultType DEF MergeFails, TypeOK
  <2>. QED
    BY <1>1, <2>1, IdleMergerType DEF MergeFails, TypeOK, refVars, checkVars, pullVars, pusherVars
<1>2. ASSUME NEW e \in Editor, UpdateFails(e)
      PROVE  TypeOK'
  <2>1. setting' \in [Setter -> {"none", "open", "closed", "merged"}] /\ faults' \in 0..MaxFaults
    BY <1>2, FaultType DEF UpdateFails, TypeOK
  <2>. QED
    BY <1>2, <2>1 DEF UpdateFails, TypeOK, refVars, checkVars, pullVars, mergerVars, pusherVars
<1>3. ASSUME NEW x \in wake, TryAutoMergeFails(x)
      PROVE  TypeOK'
  <2>1. wake' \subseteq Commit \cup {ReviewWake} /\ faults' \in 0..MaxFaults
    BY <1>3, FaultType DEF TryAutoMergeFails, TypeOK
  <2>. QED
    BY <1>3, <2>1 DEF TryAutoMergeFails, TypeOK, refVars, checkVars, pullVars, mergerVars, pusherVars
<1>. QED
  BY <1>1, <1>2, <1>3

\* A merger in possession of a result has a commit.
LEMMA ResultsStep ==
  ASSUME TypeOK, ResultsSet, [Next]_vars
  PROVE  ResultsSet'
<1>1. CASE UNCHANGED mergerVars
  BY <1>1 DEF ResultsSet, mergerVars
<1>2. ASSUME NEW g \in Merger, IdleMerger(g) \/ Begin(g)
      PROVE  ResultsSet'
  BY <1>2 DEF IdleMerger, Begin, ResultsSet, TypeOK
<1>3. ASSUME NEW g \in Merger, MergeStep(g)
      PROVE  ResultsSet'
  <2>1. CASE Resolve(g)
    BY <2>1, <1>2 DEF Resolve, ResultsSet, TypeOK
  <2>2. CASE Check(g)
    BY <2>2, <1>2 DEF Check, ResultsSet, TypeOK
  <2>3. CASE Build(g)
    <3>1. mresult'[g] \in Commit /\ \A k \in Merger \ {g} : mresult'[k] = mresult[k]
      BY <2>3, Branches DEF Build, SameHead, TypeOK, MaybeCommit
    <3>2. \A k \in Merger \ {g} : mstep'[k] = mstep[k]
      BY <2>3 DEF Build, TypeOK
    <3>. QED
      BY <3>1, <3>2 DEF ResultsSet
  <2>4. CASE Refuse(g)
    BY <2>4, <1>2 DEF Refuse
  <2>5. CASE MoveBase(g)
    BY <2>5, <1>2 DEF MoveBase, ResultsSet, TypeOK
  <2>6. CASE SetMerged(g)
    BY <2>6, <1>1, <1>2 DEF SetMerged
  <2>. QED
    BY <1>3, <2>1, <2>2, <2>3, <2>4, <2>5, <2>6 DEF MergeStep
<1>4. ASSUME NEW p \in Pusher, PushStep(p)
      PROVE  ResultsSet'
  BY <1>4, <1>1 DEF PushStep, PushUpdate, PushLook, PushWrite
<1>5. CASE \E p \in Pusher, b \in Branch :
              (\E c \in Commit : PushNew(p, b, c)) \/ (\E c \in MaybeCommit : PushOld(p, b, c))
  BY <1>5, <1>1 DEF PushNew, PushOld, Send
<1>6. CASE \E b \in Branch : DeleteBranch(b)
  BY <1>6, <1>1 DEF DeleteBranch
<1>7. CASE \E g \in Merger : AskMerge(g)
  BY <1>7, <1>2 DEF AskMerge
<1>8. CASE \E x \in wake : TryAutoMerge(x)
  BY <1>8, <1>1, <1>2 DEF TryAutoMerge
<1>9. CASE \E e \in Editor, to \in {"open", "closed"} : CloseOrReopen(e, to)
  BY <1>9, <1>1 DEF CloseOrReopen
<1>10. CASE \E a \in Setter : UpdateState(a)
  BY <1>10, <1>1, <1>2 DEF UpdateState
<1>11. CASE \E c \in Commit, s \in Posted : PostStatus(c, s)
  BY <1>11, <1>1 DEF PostStatus
<1>12. CASE \E v \in Reviews : SubmitReview(v)
  BY <1>12, <1>1 DEF SubmitReview
<1>13. CASE EnableAutoMerge \/ DisableAutoMerge \/ LoseAccess
  BY <1>13, <1>1 DEF EnableAutoMerge, DisableAutoMerge, LoseAccess
<1>14. CASE \E d \in BOOLEAN : SetDraft(d)
  BY <1>14, <1>1 DEF SetDraft
<1>15. CASE Crash
  BY <1>15 DEF Crash, ResultsSet
<1>16. CASE UNCHANGED vars
  BY <1>16, <1>1 DEF vars
<1>17. CASE \E g \in Merger : MergeFails(g)
  BY <1>17, <1>2 DEF MergeFails
<1>18. CASE (\E e \in Editor : UpdateFails(e)) \/ (\E x \in wake : TryAutoMergeFails(x))
  BY <1>18, <1>1 DEF UpdateFails, TryAutoMergeFails
<1>. QED
  BY <1>3, <1>4, <1>5, <1>6, <1>7, <1>8, <1>9, <1>10, <1>11, <1>12, <1>13, <1>14, <1>15, <1>16, <1>17, <1>18
  DEF Next

\* Every action keeps the types.
LEMMA TypeStep ==
  ASSUME TypeOK, ResultsSet, [Next]_vars
  PROVE  TypeOK'
<1>1. ASSUME NEW p \in Pusher, NEW b \in Branch, NEW c \in Commit, PushNew(p, b, c)
      PROVE  TypeOK'
  <2>1. tip[b] \in MaybeCommit
    BY DEF TypeOK
  <2>2. PICK parents \in {{}, {tip[b]} \ {NoCommit}} : NewCommit(c, parents)
    BY <1>1 DEF PushNew
  <2>3. parents \in SUBSET Commit
    BY <2>1 DEF MaybeCommit
  <2>4. reach' \in [Commit -> SUBSET Commit]
    BY <2>2, <2>3, NewCommitType
  <2>. QED
    BY <1>1, <2>4, SendType DEF PushNew, MaybeCommit
<1>2. ASSUME NEW p \in Pusher, NEW b \in Branch, NEW c \in MaybeCommit, PushOld(p, b, c)
      PROVE  TypeOK'
  BY <1>2, SendType DEF PushOld, TypeOK
<1>3. CASE \E p \in Pusher : PushStep(p)
  BY <1>3, PushType
<1>4. CASE \E b \in Branch : DeleteBranch(b)
  BY <1>4 DEF DeleteBranch, TypeOK, MaybeCommit, checkVars, pullVars, mergerVars, pusherVars
<1>5. CASE \E g \in Merger : AskMerge(g)
  BY <1>5, BeginType DEF AskMerge, Begin, TypeOK, refVars, checkVars, pullVars, pusherVars
<1>6. CASE \E g \in Merger : MergeStep(g)
  BY <1>6, MergeType
<1>7. CASE \E x \in wake : TryAutoMerge(x)
  BY <1>7, TryAutoMergeType
<1>8. CASE \E e \in Editor, to \in {"open", "closed"} : CloseOrReopen(e, to)
  <2>1. setting' \in [Setter -> {"none", "open", "closed", "merged"}]
    BY <1>8, SetStateType DEF CloseOrReopen, Setter
  <2>. QED
    BY <1>8, <2>1 DEF CloseOrReopen, TypeOK, refVars, checkVars, pullVars, mergerVars, pusherVars
<1>9. CASE \E a \in Setter : UpdateState(a)
  BY <1>9, UpdateStateType
<1>10. ASSUME NEW c \in Commit, NEW s \in Posted, PostStatus(c, s)
       PROVE  TypeOK'
  <2>1. s \in {"success", "failure"}
    BY PullAssumption
  <2>2. status' \in [Commit -> {"none", "success", "failure"}]
    BY <1>10, <2>1 DEF PostStatus, TypeOK
  <2>. QED
    BY <1>10, <2>2 DEF PostStatus, TypeOK, refVars, pullVars, mergerVars, pusherVars
<1>11. ASSUME NEW v \in Reviews, SubmitReview(v)
       PROVE  TypeOK'
  <2>1. v \in {"approved", "changes", "commented"}
    BY PullAssumption
  <2>2. verdict' \in {"none", "approved", "changes"}
    BY <1>11, <2>1 DEF SubmitReview, TypeOK
  <2>. QED
    BY <1>11, <2>2 DEF SubmitReview, TypeOK, refVars, pullVars, mergerVars, pusherVars
<1>12. CASE EnableAutoMerge \/ DisableAutoMerge \/ LoseAccess
  BY <1>12 DEF EnableAutoMerge, DisableAutoMerge, LoseAccess, TypeOK, refVars, checkVars, mergerVars, pusherVars
<1>13. CASE \E d \in BOOLEAN : SetDraft(d)
  BY <1>13 DEF SetDraft, TypeOK, refVars, checkVars, mergerVars, pusherVars
<1>14. CASE Crash
  <2>1. faults' \in 0..MaxFaults
    BY <1>14, FaultType DEF Crash
  <2>2. wake' \subseteq Commit \cup {ReviewWake} /\ setting' \in [Setter -> {"none", "open", "closed", "merged"}]
    BY <1>14 DEF Crash
  <2>3. /\ mstep' \in [Merger -> {"idle", "begun", "resolved", "checked", "built", "moved"}]
        /\ mhead' \in [Merger -> MaybeCommit]
        /\ mbase' \in [Merger -> MaybeCommit]
        /\ mresult' \in [Merger -> MaybeCommit]
    BY <1>14 DEF Crash, MaybeCommit
  <2>4. /\ pstep' \in [Pusher -> {"idle", "sent", "looked"}]
        /\ pref' \in [Pusher -> Branch]
        /\ pold' \in [Pusher -> MaybeCommit]
        /\ pnew' \in [Pusher -> MaybeCommit]
    BY <1>14, Branches DEF Crash, MaybeCommit
  <2>. QED
    BY <1>14, <2>1, <2>2, <2>3, <2>4 DEF Crash, TypeOK, refVars, checkVars, pullVars
<1>15. CASE UNCHANGED vars
  BY <1>15 DEF vars, TypeOK, refVars, checkVars, pullVars, mergerVars, pusherVars
<1>. QED
  BY <1>1, <1>2, <1>3, <1>4, <1>5, <1>6, <1>7, <1>8, <1>9, <1>10, <1>11, <1>12, <1>13, <1>14, <1>15, FailsType
  DEF Next

\* The initial states are well typed.
LEMMA InitType == Init => TypeOK
<1> SUFFICES ASSUME Init PROVE TypeOK
  OBVIOUS
<1>1. Root \in Commit /\ Work \in Commit /\ Root # Work /\ 0 \in 0..MaxFaults
  BY PullAssumption
<1>2. tip \in [Branch -> MaybeCommit] /\ reach \in [Commit -> SUBSET Commit]
  BY <1>1 DEF Init, MaybeCommit
<1>3. /\ source \in [Commit -> MaybeCommit]
      /\ status \in [Commit -> {"none", "success", "failure"}]
      /\ setting \in [Setter -> {"none", "open", "closed", "merged"}]
  BY DEF Init, MaybeCommit
<1>4. /\ mstep \in [Merger -> {"idle", "begun", "resolved", "checked", "built", "moved"}]
      /\ mhead \in [Merger -> MaybeCommit]
      /\ mbase \in [Merger -> MaybeCommit]
      /\ mresult \in [Merger -> MaybeCommit]
  BY DEF Init, MaybeCommit
<1>5. /\ pstep \in [Pusher -> {"idle", "sent", "looked"}]
      /\ pref \in [Pusher -> Branch]
      /\ pold \in [Pusher -> MaybeCommit]
      /\ pnew \in [Pusher -> MaybeCommit]
  BY Branches DEF Init, MaybeCommit
<1>. QED
  BY <1>1, <1>2, <1>3, <1>4, <1>5 DEF Init, TypeOK

\* Every reachable state is well typed.
THEOREM TypeInvariant == Spec => [](TypeOK /\ ResultsSet)
<1>1. Init => TypeOK
  BY InitType
<1>2. Init => ResultsSet
  BY DEF Init, ResultsSet
<1>. QED
  BY <1>1, <1>2, TypeStep, ResultsStep, PTL DEF Spec
-----------------------------------------------------------------------------
(***************************************************************************)
(* A protected base branch keeps its history.  What is inductive: what a   *)
(* commit reaches is closed and never changes, a merge has built its       *)
(* result on the base tip it will compare with, and no pusher is past      *)
(* gitref's look at a protected base.                                      *)
(***************************************************************************)

\* What a commit reaches is closed, and a made commit reaches itself.
ReachClosed ==
  /\ \A c \in Made : c \in reach[c]
  /\ \A c \in Commit : \A d \in reach[c] : d \in Made /\ reach[d] \subseteq reach[c]

\* Branches and pushes only name commits that were made.
RefsMade ==
  /\ \A b \in Branch : tip[b] # NoCommit => tip[b] \in Made
  /\ \A p \in Pusher : pnew[p] # NoCommit => pnew[p] \in Made

\* The result of a merge keeps every commit of the tip it was built on.
BuiltOnBase ==
  \A g \in Merger : mstep[g] = "built" =>
    mbase[g] \in Made /\ mresult[g] \in Made /\ reach[mbase[g]] \subseteq reach[mresult[g]]

\* A protected base exists, holds all that landed, and no push that skips the
\* comparison is on its way to it.
BaseKept ==
  Protected =>
    /\ tip["base"] # NoCommit
    /\ landed \subseteq reach[tip["base"]]
    /\ \A p \in Pusher : pstep[p] = "looked" => pref[p] = "head"

HistoryInv == ReachClosed /\ RefsMade /\ BuiltOnBase /\ BaseKept

\* What one step does to commits already made: nothing.
Grown ==
  /\ \A d \in Made : d \in Made' /\ reach'[d] = reach[d] /\ source'[d] = source[d]
  /\ rule' = rule
  /\ passed \subseteq passed'
  /\ ReachClosed'

\* Making a commit on commits already made keeps reachability closed.
LEMMA NewCommitGrows ==
  ASSUME TypeOK, ReachClosed, NEW c \in Commit, NEW parents \in SUBSET Made, NewCommit(c, parents)
  PROVE  /\ \A d \in Made : d \in Made' /\ reach'[d] = reach[d] /\ d # c
         /\ c \in Made' /\ reach'[c] = {c} \cup UNION {reach[q] : q \in parents}
         /\ ReachClosed'
<1>1. c \notin Made /\ reach \in [Commit -> SUBSET Commit]
  BY DEF NewCommit, TypeOK
<1>2. /\ reach'[c] = {c} \cup UNION {reach[q] : q \in parents}
      /\ \A d \in Commit \ {c} : reach'[d] = reach[d]
  BY <1>1 DEF NewCommit
<1>3. \A d \in Made : d \in Made' /\ reach'[d] = reach[d] /\ d # c
  BY <1>1, <1>2 DEF Made
<1>4. c \in Made'
  BY <1>2 DEF Made
<1>5. \A d \in Made' : d = c \/ d \in Made
  BY <1>2 DEF Made
<1>6. \A d \in Made' : d \in reach'[d]
  BY <1>2, <1>3, <1>5 DEF ReachClosed
<1>7. ASSUME NEW k \in Commit, NEW d \in reach'[k]
      PROVE  d \in Made' /\ reach'[d] \subseteq reach'[k]
  <2>1. CASE k # c
    <3>1. d \in Made /\ reach[d] \subseteq reach[k]
      BY <1>2, <2>1 DEF ReachClosed
    <3>. QED
      BY <3>1, <1>2, <1>3, <2>1
  <2>2. CASE k = c /\ d = c
    BY <2>2, <1>4
  <2>3. CASE k = c /\ d # c
    <3>1. PICK q \in parents : d \in reach[q]
      BY <1>2, <2>3
    <3>2. d \in Made /\ reach[d] \subseteq reach[q]
      BY <3>1 DEF ReachClosed, Made
    <3>3. reach[q] \subseteq reach'[c]
      BY <1>2, <3>1
    <3>. QED
      BY <3>2, <3>3, <1>3, <2>3
  <2>. QED
    BY <2>1, <2>2, <2>3
<1>. QED
  BY <1>2, <1>3, <1>4, <1>6, <1>7 DEF ReachClosed

\* A step that makes no commit leaves them as they are.
LEMMA SameCommitsGrow ==
  ASSUME ReachClosed, UNCHANGED <<reach, source, rule>>, passed \subseteq passed'
  PROVE  Grown
BY DEF Grown, ReachClosed, Made

\* What Build does, by the kind of its result.
LEMMA BuildResult ==
  ASSUME TypeOK, HistoryInv, NEW g \in Merger, Build(g)
  PROVE  /\ Grown
         /\ tip["base"] \in Made /\ tip["head"] \in Made
         /\ mresult'[g] \in Made'
         /\ reach[tip["base"]] \subseteq reach'[mresult'[g]]
         /\ \A c \in reach'[mresult'[g]] :
              \/ c \in Made /\ c \in reach[tip["base"]] \cup reach[tip["head"]]
              \/ c \in Commit /\ source'[c] = tip["head"]
<1>0. /\ tip["base"] \in Made /\ tip["head"] \in Made
      /\ rule' = rule /\ passed' = passed
      /\ g \in DOMAIN mresult
  BY Branches DEF Build, SameHead, HistoryInv, RefsMade, checkVars, TypeOK
<1>1. CASE /\ CanFastForward(tip["base"], tip["head"])
           /\ mresult' = [mresult EXCEPT ![g] = tip["head"]]
           /\ UNCHANGED <<reach, source>>
  <2>1. Grown
    BY <1>0, <1>1, SameCommitsGrow DEF HistoryInv
  <2>2. mresult'[g] = tip["head"] /\ reach' = reach
    BY <1>0, <1>1
  <2>3. reach[tip["base"]] \subseteq reach[tip["head"]]
    BY <1>0, <1>1 DEF CanFastForward, HistoryInv, ReachClosed, Made
  <2>4. \A c \in reach[tip["head"]] : c \in Made
    BY <1>0 DEF HistoryInv, ReachClosed, Made
  <2>. QED
    BY <1>0, <2>1, <2>2, <2>3, <2>4 DEF Grown
<1>2. ASSUME NEW c \in Commit, NEW parents \in {{tip["base"], tip["head"]}, {tip["base"]}},
             NewCommit(c, parents),
             source' = [source EXCEPT ![c] = tip["head"]],
             mresult' = [mresult EXCEPT ![g] = c]
      PROVE  /\ Grown
             /\ mresult'[g] \in Made'
             /\ reach[tip["base"]] \subseteq reach'[mresult'[g]]
             /\ \A d \in reach'[mresult'[g]] :
                  \/ d \in Made /\ d \in reach[tip["base"]] \cup reach[tip["head"]]
                  \/ d \in Commit /\ source'[d] = tip["head"]
  <2>1. parents \in SUBSET Made
    BY <1>0
  <2>2. /\ \A d \in Made : d \in Made' /\ reach'[d] = reach[d] /\ d # c
        /\ c \in Made' /\ reach'[c] = {c} \cup UNION {reach[q] : q \in parents}
        /\ ReachClosed'
    BY <1>2, <2>1, NewCommitGrows DEF HistoryInv
  <2>3. mresult'[g] = c /\ source'[c] = tip["head"] /\ \A d \in Made : source'[d] = source[d]
    BY <1>0, <1>2, <2>2 DEF TypeOK, Made
  <2>4. Grown
    BY <1>0, <2>2, <2>3 DEF Grown
  <2>5. reach[tip["base"]] \subseteq reach'[c]
    BY <2>2
  <2>6. ASSUME NEW d \in reach'[c], d # c
        PROVE  d \in Made /\ d \in reach[tip["base"]] \cup reach[tip["head"]]
    <3>1. PICK q \in parents : d \in reach[q]
      BY <2>2, <2>6
    <3>2. q \in Made /\ q \in {tip["base"], tip["head"]}
      BY <1>0
    <3>. QED
      BY <3>1, <3>2 DEF HistoryInv, ReachClosed, Made
  <2>. QED
    BY <2>2, <2>3, <2>4, <2>5, <2>6
<1>3. \/ /\ CanFastForward(tip["base"], tip["head"])
         /\ mresult' = [mresult EXCEPT ![g] = tip["head"]]
         /\ UNCHANGED <<reach, source>>
      \/ \E c \in Commit : \E parents \in {{tip["base"], tip["head"]}, {tip["base"]}} :
           /\ NewCommit(c, parents)
           /\ source' = [source EXCEPT ![c] = tip["head"]]
           /\ mresult' = [mresult EXCEPT ![g] = c]
  BY DEF Build
<1>. QED
  BY <1>0, <1>1, <1>2, <1>3

\* Every step leaves the commits that were made as they are.
LEMMA Growth ==
  ASSUME TypeOK, HistoryInv, [Next]_vars
  PROVE  Grown
<1>1. CASE UNCHANGED <<reach, source, checkVars>>
  BY <1>1, SameCommitsGrow DEF HistoryInv, checkVars
<1>2. ASSUME NEW p \in Pusher, NEW b \in Branch, NEW c \in Commit, PushNew(p, b, c)
      PROVE  Grown
  <2>1. PICK parents \in {{}, {tip[b]} \ {NoCommit}} : NewCommit(c, parents)
    BY <1>2 DEF PushNew
  <2>2. parents \in SUBSET Made
    BY DEF HistoryInv, RefsMade
  <2>3. UNCHANGED <<source, checkVars>>
    BY <1>2 DEF PushNew, Send
  <2>. QED
    BY <2>1, <2>2, <2>3, NewCommitGrows DEF Grown, HistoryInv, checkVars
<1>3. CASE \E p \in Pusher, b \in Branch : \E c \in MaybeCommit : PushOld(p, b, c)
  BY <1>3, <1>1 DEF PushOld, Send
<1>4. CASE \E p \in Pusher : PushStep(p)
  BY <1>4, <1>1 DEF PushStep, PushUpdate, PushLook, PushWrite, refVars
<1>5. CASE \E b \in Branch : DeleteBranch(b)
  BY <1>5, <1>1 DEF DeleteBranch
<1>6. CASE \E g \in Merger : AskMerge(g)
  BY <1>6, <1>1 DEF AskMerge, refVars
<1>7. ASSUME NEW g \in Merger, MergeStep(g)
      PROVE  Grown
  <2>1. CASE Build(g)
    BY <2>1, BuildResult
  <2>2. CASE Resolve(g) \/ Check(g) \/ Refuse(g) \/ MoveBase(g) \/ SetMerged(g)
    BY <2>2, <1>1 DEF Resolve, Check, Refuse, MoveBase, SetMerged, refVars
  <2>. QED
    BY <1>7, <2>1, <2>2 DEF MergeStep
<1>8. CASE \E x \in wake : TryAutoMerge(x)
  BY <1>8, <1>1 DEF TryAutoMerge, refVars
<1>9. CASE \E e \in Editor, to \in {"open", "closed"} : CloseOrReopen(e, to)
  BY <1>9, <1>1 DEF CloseOrReopen, refVars
<1>10. CASE \E a \in Setter : UpdateState(a)
  BY <1>10, <1>1 DEF UpdateState, refVars
<1>11. CASE \E c \in Commit, s \in Posted : PostStatus(c, s)
  BY <1>11, SameCommitsGrow DEF PostStatus, refVars, HistoryInv
<1>12. CASE \E v \in Reviews : SubmitReview(v)
  BY <1>12, SameCommitsGrow DEF SubmitReview, refVars, HistoryInv
<1>13. CASE EnableAutoMerge \/ DisableAutoMerge \/ LoseAccess
  BY <1>13, <1>1 DEF EnableAutoMerge, DisableAutoMerge, LoseAccess, refVars
<1>14. CASE \E d \in BOOLEAN : SetDraft(d)
  BY <1>14, <1>1 DEF SetDraft, refVars
<1>15. CASE Crash
  BY <1>15, <1>1 DEF Crash, refVars
<1>16. CASE UNCHANGED vars
  BY <1>16, <1>1 DEF vars, refVars
<1>17. CASE \/ \E g \in Merger : MergeFails(g)
            \/ \E e \in Editor : UpdateFails(e)
            \/ \E x \in wake : TryAutoMergeFails(x)
  BY <1>17, <1>1 DEF MergeFails, UpdateFails, TryAutoMergeFails, refVars
<1>. QED
  BY <1>2, <1>3, <1>4, <1>5, <1>6, <1>7, <1>8, <1>9, <1>10, <1>11, <1>12, <1>13, <1>14, <1>15, <1>16, <1>17
  DEF Next

\* A step that moves no branch, push or merge disturbs none of it.
LEMMA QuietHistory ==
  ASSUME TypeOK, HistoryInv, Grown, UNCHANGED <<tip, mergerVars, pusherVars, landed>>
  PROVE  HistoryInv'
<1>1. RefsMade'
  BY DEF RefsMade, Grown, HistoryInv, pusherVars
<1>2. BuiltOnBase'
  BY DEF BuiltOnBase, Grown, HistoryInv, mergerVars
<1>3. BaseKept'
  BY Branches DEF BaseKept, RefsMade, Grown, HistoryInv, pusherVars, Protected
<1>. QED
  BY <1>1, <1>2, <1>3 DEF HistoryInv, Grown

\* A merger that begins or gives up has built nothing.
LEMMA IdleHistory ==
  ASSUME TypeOK, HistoryInv, Grown, NEW g \in Merger, IdleMerger(g) \/ Begin(g),
         UNCHANGED <<tip, pusherVars, landed>>
  PROVE  HistoryInv'
<1>1. RefsMade'
  BY DEF RefsMade, Grown, HistoryInv, pusherVars
<1>2. BuiltOnBase'
  <2> SUFFICES ASSUME NEW k \in Merger, mstep'[k] = "built"
               PROVE  mbase'[k] \in Made' /\ mresult'[k] \in Made'
                      /\ reach'[mbase'[k]] \subseteq reach'[mresult'[k]]
    BY DEF BuiltOnBase
  <2>1. k # g
    BY DEF IdleMerger, Begin, TypeOK
  <2>2. mstep[k] = "built" /\ mbase'[k] = mbase[k] /\ mresult'[k] = mresult[k]
    BY <2>1 DEF IdleMerger, Begin, TypeOK
  <2>. QED
    BY <2>2 DEF BuiltOnBase, Grown, HistoryInv
<1>3. BaseKept'
  BY Branches DEF BaseKept, RefsMade, Grown, HistoryInv, pusherVars, Protected
<1>. QED
  BY <1>1, <1>2, <1>3 DEF HistoryInv, Grown

\* What a pusher does next keeps the history, if it keeps RefsMade and BaseKept.
LEMMA PushHistory ==
  ASSUME HistoryInv, Grown, UNCHANGED mergerVars, RefsMade', BaseKept'
  PROVE  HistoryInv'
<1>1. BuiltOnBase'
  BY DEF BuiltOnBase, Grown, HistoryInv, mergerVars
<1>. QED
  BY <1>1 DEF HistoryInv, Grown

\* Pushes keep the history.
LEMMA PushStepHistory ==
  ASSUME TypeOK, HistoryInv, Grown, NEW p \in Pusher, PushStep(p)
  PROVE  HistoryInv'
<1>0. /\ pref[p] \in Branch /\ UNCHANGED <<mergerVars, landed, reach>>
      /\ Made' = Made /\ Protected' = Protected
      /\ tip \in [Branch -> MaybeCommit]
  BY DEF TypeOK, PushStep, PushUpdate, PushLook, PushWrite, refVars, Made, Grown, Protected
<1>1. \A k \in Pusher :
        /\ pstep'[k] = "looked" => pref'[k] = pref[k] /\ (pstep[k] = "looked" \/ k = p)
        /\ pnew'[k] = pnew[k] \/ pnew'[k] = NoCommit
  BY DEF PushStep, PushUpdate, PushLook, PushWrite, IdlePusher, TypeOK
<1>2. CASE PushUpdate(p)
  <2>1. \A b \in Branch : tip'[b] = tip[b] \/ (b = pref[p] /\ tip'[b] = pnew[p] /\ pnew[p] # NoCommit)
    BY <1>0, <1>2 DEF PushUpdate
  <2>2. RefsMade'
    BY <1>0, <1>1, <2>1 DEF HistoryInv, RefsMade
  <2>3. pstep'[p] = "idle"
    BY <1>2 DEF PushUpdate, IdlePusher, TypeOK
  <2>4. ASSUME Protected
        PROVE  /\ tip'["base"] # NoCommit
               /\ reach[tip["base"]] \subseteq reach[tip'["base"]]
    <3>1. CASE tip'["base"] = tip["base"]
      BY <3>1, <2>4 DEF HistoryInv, BaseKept
    <3>2. CASE tip'["base"] # tip["base"]
      <4>1. /\ pref[p] = "base" /\ tip'["base"] = pnew[p] /\ pnew[p] \in Made
            /\ PushVetted(pref[p], pold[p], pnew[p]) /\ tip["base"] = pold[p]
        BY <1>0, <1>2, <3>2, Branches DEF PushUpdate, HistoryInv, RefsMade
      <4>2. pold[p] \in reach[pnew[p]]
        BY <4>1, <2>4 DEF PushVetted, Protected, HistoryInv, BaseKept
      <4>3. pnew[p] # NoCommit /\ reach[pold[p]] \subseteq reach[pnew[p]]
        BY <1>2, <4>1, <4>2 DEF HistoryInv, ReachClosed, Made, PushUpdate
      <4>. QED
        BY <4>1, <4>3
    <3>. QED
      BY <3>1, <3>2
  <2>5. BaseKept'
    BY <1>0, <1>1, <2>3, <2>4 DEF HistoryInv, BaseKept
  <2>. QED
    BY <1>0, <2>2, <2>5, PushHistory
<1>3. CASE PushLook(p)
  <2>1. tip' = tip
    BY <1>3 DEF PushLook, refVars
  <2>2. RefsMade'
    BY <1>0, <1>1, <2>1 DEF HistoryInv, RefsMade
  <2>3. ASSUME Protected, pstep'[p] = "looked", pref[p] # "head"
        PROVE  FALSE
    <3>1. /\ PushVetted(pref[p], pold[p], pnew[p]) /\ tip[pref[p]] = pold[p]
          /\ pold[p] = NoCommit \/ pnew[p] = NoCommit
      BY <1>3, <2>3 DEF PushLook, IdlePusher, TypeOK
    <3>2. pref[p] = "base"
      BY <1>0, <2>3 DEF Branch
    <3>. QED
      BY <2>3, <3>1, <3>2 DEF PushVetted, Protected, HistoryInv, BaseKept
  <2>4. BaseKept'
    BY <1>0, <1>1, <2>1, <2>3 DEF HistoryInv, BaseKept
  <2>. QED
    BY <1>0, <2>2, <2>4, PushHistory
<1>4. CASE PushWrite(p)
  <2>1. \A b \in Branch : tip'[b] = IF b = pref[p] THEN pnew[p] ELSE tip[b]
    BY <1>0, <1>4 DEF PushWrite
  <2>2. RefsMade'
    BY <1>0, <1>1, <2>1 DEF HistoryInv, RefsMade
  <2>3. Protected => pref[p] = "head"
    BY <1>4 DEF PushWrite, HistoryInv, BaseKept
  <2>4. Protected => tip'["base"] = tip["base"]
    BY <2>1, <2>3, Branches
  <2>5. BaseKept'
    BY <1>0, <1>1, <2>3, <2>4 DEF HistoryInv, BaseKept
  <2>. QED
    BY <1>0, <2>2, <2>5, PushHistory
<1>. QED
  BY <1>2, <1>3, <1>4 DEF PushStep

\* A client that sends a push names a commit that was made, or none.
LEMMA SendHistory ==
  ASSUME TypeOK, HistoryInv, Grown, NEW p \in Pusher, NEW b \in Branch, NEW new, Send(p, b, new),
         new = NoCommit \/ new \in Made'
  PROVE  HistoryInv'
<1>1. tip' = tip /\ UNCHANGED <<mergerVars, landed>>
  BY DEF Send
<1>2. /\ \A k \in Pusher : pnew'[k] = IF k = p THEN new ELSE pnew[k]
      /\ \A k \in Pusher : pstep'[k] = "looked" => k # p /\ pstep[k] = "looked" /\ pref'[k] = pref[k]
  BY DEF Send, TypeOK
<1>3. RefsMade'
  BY <1>1, <1>2 DEF RefsMade, HistoryInv, Grown
<1>4. BaseKept'
  BY <1>1, <1>2, Branches DEF BaseKept, HistoryInv, RefsMade, Grown, Protected
<1>. QED
  BY <1>1, <1>3, <1>4, PushHistory

\* Merges keep the history.
LEMMA MergeHistory ==
  ASSUME TypeOK, HistoryInv, Grown, NEW g \in Merger, MergeStep(g)
  PROVE  HistoryInv'
<1>0. UNCHANGED pusherVars
  BY DEF MergeStep, Resolve, Check, Build, Refuse, MoveBase, SetMerged
<1>1. ASSUME UNCHANGED tip, UNCHANGED landed,
             \A k \in Merger : mstep'[k] = "built" =>
               mstep[k] = "built" /\ mbase'[k] = mbase[k] /\ mresult'[k] = mresult[k]
      PROVE  HistoryInv'
  <2>1. BuiltOnBase'
    BY <1>1 DEF BuiltOnBase, Grown, HistoryInv
  <2>2. RefsMade'
    BY <1>0, <1>1 DEF RefsMade, Grown, HistoryInv, pusherVars
  <2>3. BaseKept'
    BY <1>0, <1>1, Branches DEF BaseKept, RefsMade, Grown, HistoryInv, pusherVars, Protected
  <2>. QED
    BY <2>1, <2>2, <2>3 DEF HistoryInv, Grown
<1>2. CASE Resolve(g)
  BY <1>1, <1>2 DEF Resolve, IdleMerger, TypeOK, refVars
<1>3. CASE Check(g)
  BY <1>1, <1>3 DEF Check, IdleMerger, TypeOK, refVars
<1>4. CASE Refuse(g)
  BY <1>1, <1>4 DEF Refuse, IdleMerger, TypeOK, refVars
<1>5. CASE SetMerged(g)
  BY <1>1, <1>5 DEF SetMerged, IdleMerger, TypeOK, refVars, mergerVars
<1>6. CASE Build(g)
  <2>1. tip' = tip /\ landed' = landed
    BY <1>6 DEF Build
  <2>2. /\ mbase'[g] = tip["base"] /\ tip["base"] \in Made
        /\ mresult'[g] \in Made' /\ reach[tip["base"]] \subseteq reach'[mresult'[g]]
    BY <1>6, BuildResult DEF Build, TypeOK
  <2>3. \A k \in Merger \ {g} : mstep'[k] = mstep[k] /\ mbase'[k] = mbase[k] /\ mresult'[k] = mresult[k]
    BY <1>6 DEF Build, TypeOK
  <2>4. BuiltOnBase'
    BY <2>2, <2>3 DEF BuiltOnBase, HistoryInv, Grown
  <2>5. RefsMade'
    BY <1>0, <2>1 DEF RefsMade, Grown, HistoryInv, pusherVars
  <2>6. BaseKept'
    BY <1>0, <2>1, Branches DEF BaseKept, RefsMade, Grown, HistoryInv, pusherVars, Protected
  <2>. QED
    BY <2>4, <2>5, <2>6 DEF HistoryInv, Grown
<1>7. CASE MoveBase(g) /\ tip["base"] # mbase[g]
  BY <1>1, <1>7 DEF MoveBase, IdleMerger, TypeOK
<1>8. CASE MoveBase(g) /\ tip["base"] = mbase[g]
  <2>1. /\ tip' = [tip EXCEPT !["base"] = mresult[g]]
        /\ landed' = landed \cup {mresult[g]}
        /\ UNCHANGED <<mbase, mresult, reach>> /\ Made' = Made /\ Protected' = Protected
        /\ \A k \in Merger : mstep'[k] = "built" => mstep[k] = "built"
    BY <1>8 DEF MoveBase, TypeOK, Made, Grown, Protected
  <2>2. mbase[g] \in Made /\ mresult[g] \in Made /\ reach[mbase[g]] \subseteq reach[mresult[g]]
    BY <1>8 DEF MoveBase, HistoryInv, BuiltOnBase
  <2>3. tip'["base"] = mresult[g] /\ \A b \in Branch \ {"base"} : tip'[b] = tip[b]
    BY <2>1, Branches DEF TypeOK
  <2>4. BuiltOnBase'
    BY <2>1 DEF BuiltOnBase, HistoryInv
  <2>5. RefsMade'
    BY <1>0, <2>1, <2>2, <2>3 DEF RefsMade, HistoryInv, pusherVars
  <2>6. mresult[g] # NoCommit /\ mresult[g] \in reach[mresult[g]]
    BY <2>2, PullAssumption DEF HistoryInv, ReachClosed, Made
  <2>7. BaseKept'
    BY <1>0, <1>8, <2>1, <2>2, <2>3, <2>6 DEF BaseKept, HistoryInv, pusherVars
  <2>. QED
    BY <2>4, <2>5, <2>7 DEF HistoryInv, Grown
<1>. QED
  BY <1>2, <1>3, <1>4, <1>5, <1>6, <1>7, <1>8 DEF MergeStep

\* Deleting a branch from its page spares a protected base.
LEMMA DeleteHistory ==
  ASSUME TypeOK, HistoryInv, Grown, NEW b \in Branch, DeleteBranch(b)
  PROVE  HistoryInv'
<1>1. /\ \A k \in Branch : tip'[k] = IF k = b THEN NoCommit ELSE tip[k]
      /\ UNCHANGED <<reach, pusherVars, mergerVars, landed>> /\ Protected' = Protected
  BY DEF DeleteBranch, TypeOK, Grown, Protected
<1>2. RefsMade'
  BY <1>1 DEF RefsMade, HistoryInv, Grown, pusherVars
<1>3. Protected => tip'["base"] = tip["base"]
  BY <1>1, Branches DEF DeleteBranch
<1>4. BaseKept'
  BY <1>1, <1>3 DEF BaseKept, HistoryInv, pusherVars
<1>. QED
  BY <1>1, <1>2, <1>4, PushHistory

\* A crash forgets the pushes and merges under way, and moves no branch.
LEMMA CrashHistory ==
  ASSUME TypeOK, HistoryInv, Grown, Crash
  PROVE  HistoryInv'
<1>1. tip' = tip /\ landed' = landed /\ reach' = reach /\ Made' = Made /\ Protected' = Protected
  BY DEF Crash, refVars, checkVars, Made, Protected
<1>2. /\ \A k \in Merger : mstep'[k] = "idle"
      /\ \A k \in Pusher : pstep'[k] = "idle" /\ pnew'[k] = NoCommit
  BY DEF Crash
<1>3. RefsMade' /\ BuiltOnBase' /\ BaseKept'
  BY <1>1, <1>2 DEF RefsMade, BuiltOnBase, BaseKept, HistoryInv
<1>. QED
  BY <1>3 DEF HistoryInv, Grown

\* The base branch starts at Root, and Work is made on Root.
LEMMA InitHistory == Init => HistoryInv
<1> SUFFICES ASSUME Init PROVE HistoryInv
  OBVIOUS
<1>1. Root \in Commit /\ Work \in Commit /\ Root # Work /\ Root # NoCommit
  BY PullAssumption
<1>2. reach[Root] = {Root} /\ reach[Work] = {Root, Work} /\ \A c \in Commit \ {Root, Work} : reach[c] = {}
  BY <1>1 DEF Init
<1>3. Root \in Made /\ Work \in Made /\ \A c \in Made : c \in {Root, Work}
  BY <1>1, <1>2 DEF Made
<1>4. ReachClosed
  BY <1>1, <1>2, <1>3 DEF ReachClosed
<1>5. tip["base"] = Root /\ \A b \in Branch : tip[b] \in {Root, Work}
  BY Branches DEF Init
<1>6. RefsMade /\ BuiltOnBase /\ BaseKept
  BY <1>1, <1>3, <1>5 DEF Init, RefsMade, BuiltOnBase, BaseKept
<1>. QED
  BY <1>4, <1>6 DEF HistoryInv

\* Every step keeps the history.
LEMMA HistoryStep == TypeOK /\ HistoryInv /\ [Next]_vars => HistoryInv'
<1> SUFFICES ASSUME TypeOK, HistoryInv, [Next]_vars
             PROVE  HistoryInv'
  OBVIOUS
<1>0. Grown
  BY Growth
<1>1. ASSUME NEW p \in Pusher, NEW b \in Branch, NEW c \in Commit, PushNew(p, b, c)
      PROVE  HistoryInv'
  <2>1. PICK parents \in {{}, {tip[b]} \ {NoCommit}} : NewCommit(c, parents)
    BY <1>1 DEF PushNew
  <2>2. parents \in SUBSET Made
    BY DEF HistoryInv, RefsMade
  <2>3. c \in Made'
    BY <2>1, <2>2, NewCommitGrows DEF HistoryInv
  <2>4. Send(p, b, c)
    BY <1>1 DEF PushNew
  <2>. QED
    BY <1>0, <2>3, <2>4, SendHistory
<1>2. ASSUME NEW p \in Pusher, NEW b \in Branch, NEW c \in MaybeCommit, PushOld(p, b, c)
      PROVE  HistoryInv'
  <2>1. c = NoCommit \/ c \in Made'
    BY <1>0, <1>2 DEF PushOld, Grown
  <2>2. Send(p, b, c)
    BY <1>2 DEF PushOld
  <2>. QED
    BY <1>0, <2>1, <2>2, SendHistory
<1>3. CASE \E p \in Pusher : PushStep(p)
  BY <1>0, <1>3, PushStepHistory
<1>4. CASE \E b \in Branch : DeleteBranch(b)
  BY <1>0, <1>4, DeleteHistory
<1>5. CASE \E g \in Merger : AskMerge(g)
  BY <1>0, <1>5, IdleHistory DEF AskMerge, refVars
<1>6. CASE \E g \in Merger : MergeStep(g)
  BY <1>0, <1>6, MergeHistory
<1>7. ASSUME NEW x \in wake, TryAutoMerge(x)
      PROVE  HistoryInv'
  <2>1. UNCHANGED <<tip, pusherVars, landed>>
    BY <1>7 DEF TryAutoMerge, refVars
  <2>2. CASE UNCHANGED mergerVars
    BY <1>0, <2>1, <2>2, QuietHistory
  <2>3. CASE \E g \in Merger : Begin(g)
    BY <1>0, <2>1, <2>3, IdleHistory
  <2>. QED
    BY <1>7, <2>2, <2>3 DEF TryAutoMerge
<1>8. CASE \E e \in Editor, to \in {"open", "closed"} : CloseOrReopen(e, to)
  BY <1>0, <1>8, QuietHistory DEF CloseOrReopen, refVars
<1>9. ASSUME NEW a \in Setter, UpdateState(a)
      PROVE  HistoryInv'
  <2>1. UNCHANGED <<tip, pusherVars, landed>>
    BY <1>9 DEF UpdateState, refVars
  <2>2. CASE a \in Merger
    BY <1>0, <1>9, <2>1, <2>2, IdleHistory DEF UpdateState
  <2>3. CASE a \notin Merger
    BY <1>0, <1>9, <2>1, <2>3, QuietHistory DEF UpdateState
  <2>. QED
    BY <2>2, <2>3
<1>10. CASE \E c \in Commit, s \in Posted : PostStatus(c, s)
  BY <1>0, <1>10, QuietHistory DEF PostStatus, refVars
<1>11. CASE \E v \in Reviews : SubmitReview(v)
  BY <1>0, <1>11, QuietHistory DEF SubmitReview, refVars
<1>12. CASE EnableAutoMerge \/ DisableAutoMerge \/ LoseAccess
  BY <1>0, <1>12, QuietHistory DEF EnableAutoMerge, DisableAutoMerge, LoseAccess, refVars
<1>13. CASE \E d \in BOOLEAN : SetDraft(d)
  BY <1>0, <1>13, QuietHistory DEF SetDraft, refVars
<1>14. CASE Crash
  BY <1>0, <1>14, CrashHistory
<1>15. CASE UNCHANGED vars
  BY <1>0, <1>15, QuietHistory DEF vars, refVars
<1>16. CASE \E g \in Merger : MergeFails(g)
  BY <1>0, <1>16, IdleHistory DEF MergeFails, refVars
<1>17. CASE (\E e \in Editor : UpdateFails(e)) \/ (\E x \in wake : TryAutoMergeFails(x))
  BY <1>0, <1>17, QuietHistory DEF UpdateFails, TryAutoMergeFails, refVars
<1>. QED
  BY <1>1, <1>2, <1>3, <1>4, <1>5, <1>6, <1>7, <1>8, <1>9, <1>10, <1>11, <1>12, <1>13, <1>14, <1>15, <1>16, <1>17
  DEF Next

\* What the history rests on holds in every reachable state.
LEMMA HistoryInvariant == Spec => [](TypeOK /\ HistoryInv)
BY TypeInvariant, InitHistory, HistoryStep, PTL DEF Spec

\* How a protected base branch can move: not at all, by a push that holds the
\* old tip where the rule asks for no pull request, or by a merge built on it.
LEMMA BaseStep ==
  ASSUME TypeOK, HistoryInv, [Next]_vars, Protected
  PROVE  \/ tip'["base"] = tip["base"]
         \/ /\ ~ rule.requirePR /\ UNCHANGED reach
            /\ tip["base"] \in reach[tip'["base"]] /\ tip'["base"] \in Commit
         \/ \E g \in Merger : /\ mstep[g] = "built" /\ mbase[g] = tip["base"] /\ UNCHANGED reach
                              /\ tip'["base"] = mresult[g]
<1>1. CASE UNCHANGED tip
  BY <1>1
<1>2. ASSUME NEW p \in Pusher, PushUpdate(p), tip'["base"] # tip["base"]
      PROVE  ~ rule.requirePR /\ UNCHANGED reach /\ tip["base"] \in reach[tip'["base"]] /\ tip'["base"] \in Commit
  <2>1. /\ PushVetted("base", tip["base"], pnew[p]) /\ tip'["base"] = pnew[p]
        /\ pref[p] = "base" /\ pnew[p] \in Commit
    BY <1>2, Branches DEF PushUpdate, TypeOK, MaybeCommit
  <2>2. tip["base"] # NoCommit /\ ~ rule.requirePR /\ rule.blockForce
    BY <2>1 DEF PushVetted, HistoryInv, BaseKept, Protected
  <2>. QED
    BY <1>2, <2>1, <2>2 DEF PushVetted, PushUpdate
<1>3. ASSUME NEW p \in Pusher, PushLook(p) \/ PushWrite(p)
      PROVE  tip'["base"] = tip["base"]
  BY <1>3, Branches DEF PushLook, PushWrite, HistoryInv, BaseKept, TypeOK, refVars
<1>4. ASSUME NEW b \in Branch, DeleteBranch(b)
      PROVE  tip'["base"] = tip["base"]
  BY <1>4, Branches DEF DeleteBranch, TypeOK
<1>5. ASSUME NEW g \in Merger, MoveBase(g), tip'["base"] # tip["base"]
      PROVE  mstep[g] = "built" /\ mbase[g] = tip["base"] /\ UNCHANGED reach /\ tip'["base"] = mresult[g]
  BY <1>5, Branches DEF MoveBase, TypeOK
<1>6. CASE \E g \in Merger : Resolve(g) \/ Check(g) \/ Build(g) \/ Refuse(g) \/ SetMerged(g)
  BY <1>1, <1>6 DEF Resolve, Check, Build, Refuse, SetMerged, refVars
<1>7. CASE \E p \in Pusher, b \in Branch :
             (\E c \in Commit : PushNew(p, b, c)) \/ (\E c \in MaybeCommit : PushOld(p, b, c))
  BY <1>1, <1>7 DEF PushNew, PushOld, Send
<1>8. CASE \/ \E g \in Merger : AskMerge(g)
           \/ \E x \in wake : TryAutoMerge(x)
           \/ \E e \in Editor, to \in {"open", "closed"} : CloseOrReopen(e, to)
           \/ \E a \in Setter : UpdateState(a)
           \/ \E c \in Commit, s \in Posted : PostStatus(c, s)
           \/ \E v \in Reviews : SubmitReview(v)
           \/ EnableAutoMerge \/ DisableAutoMerge \/ LoseAccess
           \/ \E d \in BOOLEAN : SetDraft(d)
           \/ \E g \in Merger : MergeFails(g)
           \/ \E e \in Editor : UpdateFails(e)
           \/ \E x \in wake : TryAutoMergeFails(x)
           \/ Crash
           \/ UNCHANGED vars
  BY <1>1, <1>8 DEF AskMerge, TryAutoMerge, CloseOrReopen, UpdateState, PostStatus, SubmitReview,
     EnableAutoMerge, DisableAutoMerge, LoseAccess, SetDraft, MergeFails, UpdateFails, TryAutoMergeFails,
     Crash, vars, refVars
<1>. QED
  BY <1>2, <1>3, <1>4, <1>5, <1>6, <1>7, <1>8 DEF Next, PushStep, MergeStep

\* Under a rule that blocks force pushes or requires a pull request, the base
\* branch never loses a commit.
THEOREM HistoryIsKept == Spec => ProtectedKeepsHistory
<1> DEFINE Kept == Protected /\ tip["base"] # NoCommit =>
                     /\ tip'["base"] # NoCommit
                     /\ reach[tip["base"]] \subseteq reach'[tip'["base"]]
<1>1. TypeOK /\ HistoryInv /\ [Next]_vars => Kept
  <2> SUFFICES ASSUME TypeOK, HistoryInv, [Next]_vars, Protected
               PROVE  tip'["base"] # NoCommit /\ reach[tip["base"]] \subseteq reach'[tip'["base"]]
    OBVIOUS
  <2>1. Grown /\ HistoryInv'
    BY Growth, HistoryStep
  <2>2. tip'["base"] # NoCommit /\ tip["base"] \in Made
    BY <2>1, Branches DEF HistoryInv, BaseKept, Grown, Protected, RefsMade
  <2>3. CASE tip'["base"] = tip["base"]
    BY <2>1, <2>2, <2>3 DEF Grown
  <2>4. CASE UNCHANGED reach /\ tip["base"] \in reach[tip'["base"]] /\ tip'["base"] \in Commit
    BY <2>2, <2>4 DEF HistoryInv, ReachClosed
  <2>5. CASE \E g \in Merger : /\ mstep[g] = "built" /\ mbase[g] = tip["base"] /\ UNCHANGED reach
                               /\ tip'["base"] = mresult[g]
    BY <2>2, <2>5 DEF HistoryInv, BuiltOnBase
  <2>. QED
    BY <2>2, <2>3, <2>4, <2>5, BaseStep
<1>2. Kept => [Kept]_vars
  OBVIOUS
<1>. QED
  BY <1>1, HistoryInvariant, PTL DEF Spec, ProtectedKeepsHistory

-----------------------------------------------------------------------------
(***************************************************************************)
(* A merged pull request has landed.  What is inductive: whoever may write *)
(* "merged" does so after a merge moved the base branch, and BaseKept      *)
(* keeps what landed there.                                                *)
(***************************************************************************)

\* The row says merged, or is about to, only after something landed.
LandedInv ==
  \/ landed # {}
  \/ /\ state # "merged"
     /\ \A a \in Setter : setting[a] # "merged"
     /\ \A g \in Merger : mstep[g] # "moved"

\* Every step keeps LandedInv.
LEMMA LandedStep == TypeOK /\ LandedInv /\ [Next]_vars => LandedInv'
<1> SUFFICES ASSUME TypeOK, LandedInv, [Next]_vars
             PROVE  LandedInv'
  OBVIOUS
<1>0. \A g \in Merger : g \in Setter
  BY DEF Setter
<1>1. CASE landed # {}
  <2>1. landed \subseteq landed'
    BY DEF Next, PushNew, PushOld, Send, PushStep, PushUpdate, PushLook, PushWrite, DeleteBranch,
       AskMerge, MergeStep, Resolve, Check, Build, Refuse, MoveBase, SetMerged, TryAutoMerge,
       CloseOrReopen, UpdateState, PostStatus, SubmitReview, EnableAutoMerge, DisableAutoMerge,
       LoseAccess, SetDraft, MergeFails, UpdateFails, TryAutoMergeFails, Crash, vars
  <2>. QED
    BY <1>1, <2>1 DEF LandedInv
<1>2. CASE landed = {}
  <2>0. /\ state # "merged"
        /\ \A a \in Setter : setting[a] # "merged"
        /\ \A g \in Merger : mstep[g] # "moved"
    BY <1>2 DEF LandedInv
  <2>1. CASE UNCHANGED <<state, setting, mstep>>
    BY <2>0, <2>1 DEF LandedInv
  <2>2. CASE \/ \E p \in Pusher, b \in Branch :
                  (\E c \in Commit : PushNew(p, b, c)) \/ (\E c \in MaybeCommit : PushOld(p, b, c))
             \/ \E p \in Pusher : PushStep(p)
             \/ \E b \in Branch : DeleteBranch(b)
             \/ \E c \in Commit, s \in Posted : PostStatus(c, s)
             \/ \E v \in Reviews : SubmitReview(v)
             \/ EnableAutoMerge \/ DisableAutoMerge \/ LoseAccess
             \/ \E d \in BOOLEAN : SetDraft(d)
             \/ UNCHANGED vars
    BY <2>1, <2>2 DEF PushNew, PushOld, Send, PushStep, PushUpdate, PushLook, PushWrite, DeleteBranch,
       PostStatus, SubmitReview, EnableAutoMerge, DisableAutoMerge, LoseAccess, SetDraft, vars,
       pullVars, mergerVars
  <2>3. ASSUME NEW g \in Merger, AskMerge(g) \/ Resolve(g) \/ Check(g) \/ Build(g) \/ Refuse(g)
        PROVE  LandedInv'
    <3>1. UNCHANGED <<state, setting>>
      BY <2>3 DEF AskMerge, Resolve, Check, Build, Refuse, pullVars
    <3>2. \A k \in Merger : mstep'[k] # "moved"
      BY <2>0, <2>3 DEF AskMerge, Begin, Resolve, Check, Build, Refuse, IdleMerger, TypeOK
    <3>. QED
      BY <2>0, <3>1, <3>2 DEF LandedInv
  <2>4. ASSUME NEW g \in Merger, MoveBase(g)
        PROVE  LandedInv'
    <3>1. UNCHANGED <<state, setting>>
      BY <2>4 DEF MoveBase, pullVars
    <3>2. CASE tip["base"] = mbase[g]
      BY <2>4, <3>2 DEF MoveBase, LandedInv
    <3>3. CASE tip["base"] # mbase[g]
      <4>1. \A k \in Merger : mstep'[k] # "moved"
        BY <2>0, <2>4, <3>3 DEF MoveBase, IdleMerger, TypeOK
      <4>. QED
        BY <2>0, <3>1, <4>1 DEF LandedInv
    <3>. QED
      BY <3>2, <3>3
  <2>5. \A g \in Merger : ~ SetMerged(g)
    BY <2>0 DEF SetMerged
  <2>6. ASSUME NEW x \in wake, TryAutoMerge(x)
        PROVE  LandedInv'
    <3>1. UNCHANGED <<state, setting>>
      BY <2>6 DEF TryAutoMerge
    <3>2. UNCHANGED mstep \/ \E g \in Merger : Begin(g)
      BY <2>6 DEF TryAutoMerge, mergerVars
    <3>3. \A k \in Merger : mstep'[k] # "moved"
      BY <2>0, <3>2 DEF Begin, TypeOK
    <3>. QED
      BY <2>0, <3>1, <3>3 DEF LandedInv
  <2>7. ASSUME NEW e \in Editor, NEW to \in {"open", "closed"}, CloseOrReopen(e, to)
        PROVE  LandedInv'
    <3>1. UNCHANGED <<state, mstep>>
      BY <2>7 DEF CloseOrReopen, pullVars, mergerVars
    <3>2. \A a \in Setter : setting'[a] # "merged"
      BY <2>0, <2>7 DEF CloseOrReopen, SetState, TypeOK, Setter
    <3>. QED
      BY <2>0, <3>1, <3>2 DEF LandedInv
  <2>8. ASSUME NEW a \in Setter, UpdateState(a)
        PROVE  LandedInv'
    <3>1. state' = setting[a] /\ setting' = [setting EXCEPT ![a] = "none"]
      BY <2>8 DEF UpdateState
    <3>2. \A k \in Setter : setting'[k] # "merged"
      BY <2>0, <3>1 DEF TypeOK
    <3>3. \A k \in Merger : mstep'[k] # "moved"
      BY <2>0, <2>8 DEF UpdateState, IdleMerger, mergerVars, TypeOK
    <3>. QED
      BY <2>0, <3>1, <3>2, <3>3 DEF LandedInv
  <2>9. CASE Crash
    <3>1. state' = state /\ \A a \in Setter : setting'[a] = "none"
      BY <2>9 DEF Crash, pullVars
    <3>2. \A k \in Merger : mstep'[k] = "idle"
      BY <2>9 DEF Crash
    <3>. QED
      BY <2>0, <3>1, <3>2 DEF LandedInv
  <2>10. CASE \/ \E g \in Merger : MergeFails(g)
              \/ \E e \in Editor : UpdateFails(e)
              \/ \E x \in wake : TryAutoMergeFails(x)
    <3>1. state' = state /\ \A a \in Setter : setting'[a] # "merged"
      BY <1>0, <2>0, <2>10 DEF MergeFails, UpdateFails, TryAutoMergeFails, pullVars, Setter, TypeOK
    <3>2. \A k \in Merger : mstep'[k] # "moved"
      BY <2>0, <2>10 DEF MergeFails, UpdateFails, TryAutoMergeFails, IdleMerger, mergerVars, TypeOK
    <3>. QED
      BY <2>0, <3>1, <3>2 DEF LandedInv
  <2>. QED
    BY <2>2, <2>3, <2>4, <2>5, <2>6, <2>7, <2>8, <2>9, <2>10 DEF Next, MergeStep
<1>. QED
  BY <1>1, <1>2

\* A pull request that says merged has landed, and while its base branch is
\* protected what landed is still there.
THEOREM MergedLands == Spec => []MergedHasLanded
<1>1. Init => LandedInv
  BY DEF Init, LandedInv
<1>2. HistoryInv /\ LandedInv => MergedHasLanded
  BY DEF HistoryInv, BaseKept, LandedInv, MergedHasLanded
<1>. QED
  BY <1>1, <1>2, LandedStep, HistoryInvariant, PTL DEF Spec

-----------------------------------------------------------------------------
(***************************************************************************)
(* The required check is not bypassed.  What is inductive: the head a      *)
(* merge has checked passed, and since that head is the one it merges, all *)
(* that its result reaches passed too, before it reaches the base branch.  *)
(***************************************************************************)

Gated == rule.requirePR /\ rule.requireStatus

\* c passed the check as a merged head, or lies below a commit that did.
Vetted(c) ==
  \/ c = Root
  \/ source[c] \in passed
  \/ \E h \in passed : c \in reach[h]

PassedMade ==
  /\ passed \subseteq Made
  /\ \A c \in Commit : status[c] = "success" => c \in passed

MergesVetted ==
  Gated => \A g \in Merger :
    /\ mstep[g] = "checked" => mhead[g] = NoCommit \/ mhead[g] \in passed
    /\ mstep[g] = "built" => \A c \in reach[mresult[g]] : Vetted(c)

BaseVetted == Gated /\ tip["base"] # NoCommit => \A c \in reach[tip["base"]] : Vetted(c)

CheckInv == PassedMade /\ MergesVetted /\ BaseVetted

\* A commit that was vetted stays so.
LEMMA VettedStays ==
  ASSUME Grown, PassedMade, NEW c \in Made, Vetted(c)
  PROVE  Vetted(c)'
BY DEF Grown, PassedMade, Vetted

\* A commit whose reach was vetted keeps it so.
LEMMA ReachStays ==
  ASSUME HistoryInv, Grown, PassedMade, NEW k \in Made, \A c \in reach[k] : Vetted(c)
  PROVE  \A c \in reach'[k] : Vetted(c)'
<1>1. reach'[k] = reach[k] /\ \A c \in reach[k] : c \in Made
  BY DEF Grown, HistoryInv, ReachClosed, Made
<1>. QED
  BY <1>1, VettedStays

\* A status is only posted for a commit that was made.
LEMMA PassedStep ==
  ASSUME TypeOK, Grown, PassedMade, [Next]_vars
  PROVE  PassedMade'
<1>1. CASE UNCHANGED <<status, passed>>
  BY <1>1 DEF PassedMade, Grown
<1>2. ASSUME NEW c \in Commit, NEW s \in Posted, PostStatus(c, s)
      PROVE  PassedMade'
  <2>1. /\ c \in Made /\ \A d \in Commit : status'[d] = IF d = c THEN s ELSE status[d]
        /\ passed' = IF s = "success" THEN passed \cup {c} ELSE passed
    BY <1>2 DEF PostStatus, TypeOK
  <2>. QED
    BY <2>1 DEF PassedMade, Grown
<1>. QED
  BY <1>1, <1>2 DEF Next, PushNew, PushOld, Send, PushStep, PushUpdate, PushLook, PushWrite, DeleteBranch,
     AskMerge, MergeStep, Resolve, Check, Build, Refuse, MoveBase, SetMerged, TryAutoMerge,
     CloseOrReopen, UpdateState, SubmitReview, EnableAutoMerge, DisableAutoMerge,
     LoseAccess, SetDraft, MergeFails, UpdateFails, TryAutoMergeFails, Crash, vars, checkVars

\* Merges go on with heads that passed, and results they vet.
LEMMA MergesVettedStep ==
  ASSUME TypeOK, HistoryInv, CheckInv, [Next]_vars
  PROVE  MergesVetted'
<1>0. Grown /\ Gated' = Gated
  BY Growth DEF Grown, Gated
<1>1. ASSUME NEW g \in Merger,
             \A k \in Merger \ {g} : /\ mstep'[k] = mstep[k]
                                     /\ mhead'[k] = mhead[k] /\ mresult'[k] = mresult[k],
             Gated => /\ mstep'[g] = "checked" => mhead'[g] = NoCommit \/ mhead'[g] \in passed'
                      /\ mstep'[g] = "built" => \A c \in reach'[mresult'[g]] : Vetted(c)'
      PROVE  MergesVetted'
  <2> SUFFICES ASSUME Gated, NEW k \in Merger, k # g
               PROVE  /\ mstep'[k] = "checked" => mhead'[k] = NoCommit \/ mhead'[k] \in passed'
                      /\ mstep'[k] = "built" => \A c \in reach'[mresult'[k]] : Vetted(c)'
    BY <1>0, <1>1 DEF MergesVetted
  <2>1. mstep[k] = "built" => mresult[k] \in Made
    BY DEF HistoryInv, BuiltOnBase
  <2>2. mstep[k] = "built" => \A c \in reach[mresult[k]] : Vetted(c)
    BY DEF CheckInv, MergesVetted
  <2>3. mstep[k] = "built" => \A c \in reach'[mresult[k]] : Vetted(c)'
    BY <1>0, <2>1, <2>2, ReachStays DEF CheckInv
  <2>. QED
    BY <1>0, <1>1, <2>3 DEF CheckInv, MergesVetted, Grown
<1>2. CASE UNCHANGED mergerVars
  <2> SUFFICES ASSUME Gated, NEW k \in Merger
               PROVE  /\ mstep[k] = "checked" => mhead[k] = NoCommit \/ mhead[k] \in passed'
                      /\ mstep[k] = "built" => \A c \in reach'[mresult[k]] : Vetted(c)'
    BY <1>0, <1>2 DEF MergesVetted, mergerVars
  <2>1. mstep[k] = "built" => mresult[k] \in Made /\ \A c \in reach[mresult[k]] : Vetted(c)
    BY DEF HistoryInv, BuiltOnBase, CheckInv, MergesVetted
  <2>2. mstep[k] = "built" => \A c \in reach'[mresult[k]] : Vetted(c)'
    BY <1>0, <2>1, ReachStays DEF CheckInv
  <2>. QED
    BY <1>0, <2>2 DEF CheckInv, MergesVetted, Grown
<1>3. ASSUME NEW g \in Merger, IdleMerger(g) \/ Begin(g)
      PROVE  MergesVetted'
  <2>1. mstep'[g] \in {"idle", "begun"}
    BY <1>3 DEF IdleMerger, Begin, TypeOK
  <2>2. \A k \in Merger \ {g} : mstep'[k] = mstep[k] /\ mhead'[k] = mhead[k] /\ mresult'[k] = mresult[k]
    BY <1>3 DEF IdleMerger, Begin, TypeOK
  <2>. QED
    BY <1>1, <2>1, <2>2
<1>4. ASSUME NEW g \in Merger, Resolve(g)
      PROVE  MergesVetted'
  <2>1. CASE IdleMerger(g)
    BY <2>1, <1>3
  <2>2. CASE mstep' = [mstep EXCEPT ![g] = "resolved"] /\ mhead' = [mhead EXCEPT ![g] = tip["head"]]
    <3>1. /\ mstep'[g] = "resolved" /\ mresult' = mresult
          /\ \A k \in Merger \ {g} : mstep'[k] = mstep[k] /\ mhead'[k] = mhead[k]
      BY <1>4, <2>2 DEF Resolve, IdleMerger, TypeOK
    <3>. QED
      BY <1>1, <3>1
  <2>. QED
    BY <1>4, <2>1, <2>2 DEF Resolve
<1>5. ASSUME NEW g \in Merger, Check(g)
      PROVE  MergesVetted'
  <2>1. CASE IdleMerger(g)
    BY <2>1, <1>3
  <2>2. CASE CheckMerge(mhead[g])
    <3>1. /\ mstep'[g] = "checked" /\ mhead' = mhead /\ mresult' = mresult
          /\ \A k \in Merger \ {g} : mstep'[k] = mstep[k]
      BY <1>5, <2>2 DEF Check, TypeOK
    <3>2. mhead[g] \in Commit \cup {NoCommit}
      BY DEF TypeOK, MaybeCommit
    <3>3. Gated => mhead[g] = NoCommit \/ mhead[g] \in passed
      BY <2>2, <3>2 DEF Gated, CheckMerge, CheckInv, PassedMade
    <3>. QED
      BY <1>0, <1>1, <3>1, <3>3 DEF Grown
  <2>. QED
    BY <1>5, <2>1, <2>2 DEF Check
<1>6. ASSUME NEW g \in Merger, Build(g)
      PROVE  MergesVetted'
  <2>1. /\ tip["base"] \in Made /\ tip["head"] \in Made
        /\ \A c \in reach'[mresult'[g]] :
             \/ c \in Made /\ c \in reach[tip["base"]] \cup reach[tip["head"]]
             \/ c \in Commit /\ source'[c] = tip["head"]
    BY <1>6, BuildResult
  <2>2. /\ mstep[g] = "checked" /\ tip["head"] # NoCommit /\ mhead[g] = tip["head"] /\ tip["base"] # NoCommit
        /\ mstep'[g] = "built"
        /\ \A k \in Merger \ {g} : mstep'[k] = mstep[k] /\ mhead'[k] = mhead[k] /\ mresult'[k] = mresult[k]
    BY <1>6 DEF Build, SameHead, TypeOK
  <2>3. Gated => tip["head"] \in passed /\ tip["head"] \in passed'
    BY <1>0, <2>2 DEF CheckInv, MergesVetted, Grown
  <2>4. ASSUME Gated, NEW c \in reach'[mresult'[g]]
        PROVE  Vetted(c)'
    <3>1. CASE c \in Made /\ c \in reach[tip["base"]]
      <4>1. Vetted(c)
        BY <2>2, <2>4, <3>1 DEF CheckInv, BaseVetted
      <4>. QED
        BY <1>0, <3>1, <4>1, VettedStays DEF CheckInv
    <3>2. CASE c \in Made /\ c \in reach[tip["head"]]
      <4>1. Vetted(c)
        BY <2>3, <2>4, <3>2 DEF Vetted
      <4>. QED
        BY <1>0, <3>2, <4>1, VettedStays DEF CheckInv
    <3>3. CASE source'[c] = tip["head"]
      BY <2>3, <2>4, <3>3 DEF Vetted
    <3>. QED
      BY <2>1, <3>1, <3>2, <3>3
  <2>. QED
    BY <1>1, <2>2, <2>4
<1>7. ASSUME NEW g \in Merger, MoveBase(g)
      PROVE  MergesVetted'
  <2>1. CASE IdleMerger(g)
    BY <2>1, <1>3
  <2>2. CASE mstep' = [mstep EXCEPT ![g] = "moved"] /\ UNCHANGED <<mhead, mresult>>
    <3>1. mstep'[g] = "moved" /\ \A k \in Merger \ {g} : mstep'[k] = mstep[k]
      BY <2>2 DEF TypeOK
    <3>. QED
      BY <1>1, <2>2, <3>1
  <2>. QED
    BY <1>7, <2>1, <2>2 DEF MoveBase
<1>8. CASE Crash
  <2>1. \A k \in Merger : mstep'[k] = "idle"
    BY <1>8 DEF Crash
  <2>. QED
    BY <2>1 DEF MergesVetted
<1>9. CASE \/ \E p \in Pusher, b \in Branch :
                (\E c \in Commit : PushNew(p, b, c)) \/ (\E c \in MaybeCommit : PushOld(p, b, c))
           \/ \E p \in Pusher : PushStep(p)
           \/ \E b \in Branch : DeleteBranch(b)
           \/ \E e \in Editor, to \in {"open", "closed"} : CloseOrReopen(e, to)
           \/ \E c \in Commit, s \in Posted : PostStatus(c, s)
           \/ \E v \in Reviews : SubmitReview(v)
           \/ EnableAutoMerge \/ DisableAutoMerge \/ LoseAccess
           \/ \E d \in BOOLEAN : SetDraft(d)
           \/ UNCHANGED vars
  BY <1>2, <1>9 DEF PushNew, PushOld, Send, PushStep, PushUpdate, PushLook, PushWrite, DeleteBranch,
     CloseOrReopen, PostStatus, SubmitReview, EnableAutoMerge, DisableAutoMerge, LoseAccess, SetDraft, vars
<1>10. CASE \E g \in Merger : AskMerge(g) \/ Refuse(g) \/ SetMerged(g)
  BY <1>2, <1>3, <1>10 DEF AskMerge, Refuse, SetMerged
<1>11. CASE \E x \in wake : TryAutoMerge(x)
  BY <1>2, <1>3, <1>11 DEF TryAutoMerge
<1>12. CASE \E a \in Setter : UpdateState(a)
  BY <1>2, <1>3, <1>12 DEF UpdateState
<1>13. CASE \/ \E g \in Merger : MergeFails(g)
            \/ \E e \in Editor : UpdateFails(e)
            \/ \E x \in wake : TryAutoMergeFails(x)
  BY <1>2, <1>3, <1>13 DEF MergeFails, UpdateFails, TryAutoMergeFails
<1>. QED
  BY <1>4, <1>5, <1>6, <1>7, <1>8, <1>9, <1>10, <1>11, <1>12, <1>13 DEF Next, MergeStep

\* The base branch only moves to what a merge has vetted.
LEMMA BaseVettedStep ==
  ASSUME TypeOK, HistoryInv, CheckInv, [Next]_vars
  PROVE  BaseVetted'
<1> SUFFICES ASSUME Gated
             PROVE  \A c \in reach'[tip'["base"]] : Vetted(c)'
  BY Growth DEF BaseVetted, Grown, Gated
<1>0. /\ Protected /\ rule.requirePR /\ Grown
      /\ tip["base"] # NoCommit /\ tip["base"] \in Made
  BY Growth, Branches DEF Gated, Protected, HistoryInv, BaseKept, RefsMade
<1>1. CASE tip'["base"] = tip["base"]
  <2>1. \A c \in reach[tip["base"]] : Vetted(c)
    BY <1>0 DEF CheckInv, BaseVetted
  <2>. QED
    BY <1>0, <1>1, <2>1, ReachStays DEF CheckInv
<1>2. ASSUME NEW g \in Merger, mstep[g] = "built", tip'["base"] = mresult[g]
      PROVE  \A c \in reach'[tip'["base"]] : Vetted(c)'
  <2>1. mresult[g] \in Made /\ \A c \in reach[mresult[g]] : Vetted(c)
    BY <1>2 DEF HistoryInv, BuiltOnBase, CheckInv, MergesVetted
  <2>. QED
    BY <1>0, <1>2, <2>1, ReachStays DEF CheckInv
<1>. QED
  BY <1>0, <1>1, <1>2, BaseStep

\* The base branch of a pull request whose rule requires one and the check
\* holds nothing the check never saw.
THEOREM OnlyCheckedWorkLands == Spec => []ProtectedHoldsCheckedWork
<1>1. Init => CheckInv
  <2> SUFFICES ASSUME Init PROVE CheckInv
    OBVIOUS
  <2>1. tip["base"] = Root /\ reach[Root] = {Root}
    BY Branches, PullAssumption DEF Init
  <2>2. PassedMade /\ MergesVetted /\ BaseVetted
    BY <2>1 DEF Init, PassedMade, MergesVetted, BaseVetted, Vetted
  <2>. QED
    BY <2>2 DEF CheckInv
<1>2. TypeOK /\ HistoryInv /\ CheckInv /\ [Next]_vars => CheckInv'
  <2> SUFFICES ASSUME TypeOK, HistoryInv, CheckInv, [Next]_vars
               PROVE  CheckInv'
    OBVIOUS
  <2>1. PassedMade'
    BY Growth, PassedStep DEF CheckInv
  <2>. QED
    BY <2>1, MergesVettedStep, BaseVettedStep DEF CheckInv
<1>3. CheckInv => ProtectedHoldsCheckedWork
  BY DEF CheckInv, BaseVetted, Gated, Vetted, ProtectedHoldsCheckedWork
<1>. QED
  BY <1>1, <1>2, <1>3, HistoryInvariant, PTL DEF Spec

=============================================================================
