--------------------------- MODULE MirrorSync_proofs ---------------------------
(***************************************************************************)
(* Theorems about MirrorSync, for any number of mirrors, servers and slots *)
(* and any times.                                                          *)
(***************************************************************************)
EXTENDS MirrorSync, TLAPS

\* An interval is a positive number of ticks.
LEMMA IntervalType == \A iv \in Interval : iv \in Nat /\ iv > 0
BY MirrorAssumption

\* The backoff is a whole number of ticks.
LEMMA BackoffType ==
  ASSUME NEW iv \in Nat, NEW f \in 0..MaxDoublings
  PROVE  Backoff(iv, f) \in Nat
<1>1. 2^f \in Nat
  BY PowersOfTwo
<1>2. iv * 2^f \in Nat
  BY <1>1
<1>. QED
  BY <1>2, MirrorAssumption DEF Backoff, Later, Earlier

\* Recording a result keeps the row's fields in their types.
LEMMA RecordType ==
  ASSUME TypeOK, NEW m \in Mirror, NEW wait \in Nat, NEW fails \in 0..MaxDoublings,
         Record(m, wait, fails)
  PROVE  /\ rows' = rows /\ archived' = archived /\ requested' = requested
         /\ interval' = interval /\ held' = held
         /\ next' \in [Mirror -> Nat]
         /\ lease' \in [Mirror -> {NoLease} \cup 0..LeaseTime]
         /\ failures' \in [Mirror -> 0..MaxDoublings]
         /\ since' \in [Mirror -> {NeverSynced} \cup 0..MaxInterval]
<1>1. CASE m \in rows
  BY <1>1, MirrorAssumption DEF TypeOK, Record
<1>2. CASE m \notin rows
  BY <1>2 DEF TypeOK, Record, rowVars
<1>. QED
  BY <1>1, <1>2

\* Freeing a slot keeps the slots in their types.
LEMMA FreeSlotType ==
  ASSUME TypeOK, NEW w \in Worker, FreeSlot(w)
  PROVE  /\ phase' \in [Worker -> {"idle", "fetch", "side"}]
         /\ target' \in [Worker -> Mirror \cup {NoMirror}]
         /\ left' \in [Worker -> Nat]
         /\ late' \subseteq late
BY DEF TypeOK, FreeSlot, StillLate

\* A slot that runs something has a mirror: part of the inductive invariant,
\* since a result is recorded for the target.
SlotsHaveTargets == \A w \in Worker : Running(w) => target[w] \in Mirror

\* Every reachable state has the types the rows, slots and clocks are given,
\* and no slot runs without a mirror.
THEOREM TypeInvariant == Spec => [](TypeOK /\ SlotsHaveTargets)
<1>1. Init => TypeOK /\ SlotsHaveTargets
  <2> SUFFICES ASSUME Init PROVE TypeOK /\ SlotsHaveTargets
    OBVIOUS
  <2>1. next \in [Mirror -> Nat] /\ interval \in [Mirror -> Interval]
    BY IntervalType DEF Init
  <2>2. /\ lease \in [Mirror -> {NoLease} \cup 0..LeaseTime]
        /\ failures \in [Mirror -> 0..MaxDoublings]
        /\ since \in [Mirror -> {NeverSynced} \cup 0..MaxInterval]
        /\ crashes \in 0..MaxCrashes
    BY MirrorAssumption DEF Init
  <2>3. /\ phase \in [Worker -> {"idle", "fetch", "side"}]
        /\ target \in [Worker -> Mirror \cup {NoMirror}]
        /\ left \in [Worker -> Nat]
        /\ SlotsHaveTargets
    BY DEF Init, SlotsHaveTargets, Running
  <2>. QED
    BY <2>1, <2>2, <2>3 DEF Init, TypeOK
<1>2. TypeOK /\ SlotsHaveTargets /\ [Next]_vars => TypeOK' /\ SlotsHaveTargets'
  <2> SUFFICES ASSUME TypeOK, SlotsHaveTargets, [Next]_vars
               PROVE  TypeOK' /\ SlotsHaveTargets'
    OBVIOUS
  <2>1. ASSUME NEW w \in Worker, NEW m \in Mirror, ClaimDue(w, m)
        PROVE  TypeOK' /\ SlotsHaveTargets'
    BY <2>1, MirrorAssumption DEF TypeOK, SlotsHaveTargets, Running, ClaimDue, LeaseTime
  <2>2. ASSUME NEW w \in Worker, FetchDone(w)
        PROVE  TypeOK' /\ SlotsHaveTargets'
    BY <2>2, MirrorAssumption DEF TypeOK, SlotsHaveTargets, Running, FetchDone, rowVars
  <2>3. ASSUME NEW w \in Worker, RecordSuccess(w)
        PROVE  TypeOK' /\ SlotsHaveTargets'
    <3>. target[w] \in Mirror
      BY <2>3 DEF RecordSuccess, SlotsHaveTargets, Running
    <3>. interval[target[w]] \in Interval
      BY DEF TypeOK
    <3>0. 0 \in 0..MaxDoublings
      BY MirrorAssumption
    <3>1. interval[target[w]] \in Nat
      BY IntervalType
    <3>2. Record(target[w], interval[target[w]], 0) /\ FreeSlot(w)
      BY <2>3 DEF RecordSuccess
    <3>. QED
      BY <2>3, <3>0, <3>1, <3>2, RecordType, FreeSlotType
      DEF TypeOK, SlotsHaveTargets, Running, RecordSuccess, FreeSlot
  <2>4. ASSUME NEW w \in Worker, RecordFailure(w)
        PROVE  TypeOK' /\ SlotsHaveTargets'
    <3>. target[w] \in Mirror
      BY <2>4 DEF RecordFailure, SlotsHaveTargets, Running
    <3>. interval[target[w]] \in Interval
      BY DEF TypeOK
    <3>1. /\ interval[target[w]] \in Nat
          /\ failures[target[w]] \in 0..MaxDoublings
      BY IntervalType DEF TypeOK
    <3>2a. Backoff(interval[target[w]], failures[target[w]]) \in Nat
      BY <3>1, BackoffType
    <3>2b. CountFailure(failures[target[w]]) \in 0..MaxDoublings
      BY <3>1, MirrorAssumption DEF CountFailure, Earlier
    <3>2. /\ Backoff(interval[target[w]], failures[target[w]]) \in Nat
          /\ CountFailure(failures[target[w]]) \in 0..MaxDoublings
      BY <3>2a, <3>2b
    <3>3. /\ Record(target[w], Backoff(interval[target[w]], failures[target[w]]),
                    CountFailure(failures[target[w]]))
          /\ FreeSlot(w)
      BY <2>4 DEF RecordFailure
    <3>4. pushed' \subseteq pushed
      BY <2>4 DEF RecordFailure, FetchMayHaveMoved
    <3>. QED
      BY <2>4, <3>1, <3>2, <3>3, <3>4, RecordType, FreeSlotType
      DEF TypeOK, SlotsHaveTargets, Running, RecordFailure, FreeSlot
  <2>5. ASSUME NEW w \in Worker, ReleaseLease(w)
        PROVE  TypeOK' /\ SlotsHaveTargets'
    <3>1. pushed' \subseteq pushed /\ FreeSlot(w)
      BY <2>5 DEF ReleaseLease, FetchMayHaveMoved
    <3>2. /\ next' \in [Mirror -> Nat]
          /\ lease' \in [Mirror -> {NoLease} \cup 0..LeaseTime]
          /\ UNCHANGED <<rows, archived, requested, failures, interval, held, since,
                         stopping, crashes>>
      BY <2>5 DEF TypeOK, ReleaseLease, rowVars
    <3>3. SlotsHaveTargets'
      BY <3>1 DEF TypeOK, SlotsHaveTargets, Running, FreeSlot
    <3>. QED
      BY <3>1, <3>2, <3>3, FreeSlotType DEF TypeOK
  <2>6. ASSUME NEW w \in Worker, RecordError(w)
        PROVE  TypeOK' /\ SlotsHaveTargets'
    <3>1. pushed' \subseteq pushed /\ FreeSlot(w)
      BY <2>6 DEF RecordError, FetchMayHaveMoved
    <3>. QED
      BY <2>6, <3>1, FreeSlotType
      DEF TypeOK, SlotsHaveTargets, Running, RecordError, FreeSlot, rowVars
  <2>7. ASSUME NEW i \in Instance, Shutdown(i) \/ Restart(i) \/ Crash(i)
        PROVE  TypeOK' /\ SlotsHaveTargets'
    <3>1. CASE Shutdown(i) \/ Restart(i)
      BY <3>1 DEF TypeOK, SlotsHaveTargets, Running, Shutdown, Restart, rowVars, workerVars
    <3>2. CASE Crash(i)
      BY <3>2, MirrorAssumption DEF TypeOK, SlotsHaveTargets, Running, Crash, StillLate, rowVars
    <3>. QED
      BY <2>7, <3>1, <3>2
  <2>8. ASSUME NEW m \in Mirror, MarkDue(m) \/ Stop(m) \/ SetArchived(m) \/ UserWrite(m)
        PROVE  TypeOK' /\ SlotsHaveTargets'
    BY <2>8 DEF TypeOK, SlotsHaveTargets, Running, MarkDue, Stop, SetArchived, UserWrite,
                rowVars, workerVars
  <2>9. ASSUME NEW m \in Mirror, NEW old \in Interval, NEW iv \in Interval,
               EditSource(m, iv) \/ EditInterval(m, old, iv) \/ EditNothing(m, iv)
        PROVE  TypeOK' /\ SlotsHaveTargets'
    <3>1. iv \in Nat /\ Later(0, iv - since[m]) \in Nat
      BY MirrorAssumption DEF TypeOK, Later, NeverSynced
    <3>2. interval' \in [Mirror -> Interval] /\ held' \in [Mirror -> SUBSET Interval]
      BY <2>9 DEF TypeOK, EditSource, EditInterval, EditNothing, SetInterval
    <3>3. next' \in [Mirror -> Nat]
      BY <2>9, <3>1 DEF TypeOK, EditSource, EditInterval, EditNothing
    <3>. QED
      BY <2>9, <3>2, <3>3
      DEF TypeOK, SlotsHaveTargets, Running, EditSource, EditInterval, EditNothing, workerVars
  <2>10. CASE Tick
    <3>1. next' \in [Mirror -> Nat] /\ left' \in [Worker -> Nat]
      BY <2>10 DEF TypeOK, Tick, Later
    <3>2. lease' \in [Mirror -> {NoLease} \cup 0..LeaseTime]
      <4>1. \A l \in {NoLease} \cup 0..LeaseTime : LeaseLeft(l) \in {NoLease} \cup 0..LeaseTime
        BY MirrorAssumption DEF LeaseLeft, NoLease, LeaseTime
      <4>. QED
        BY <2>10, <4>1 DEF TypeOK, Tick
    <3>3. since' \in [Mirror -> {NeverSynced} \cup 0..MaxInterval]
      BY <2>10, MirrorAssumption DEF TypeOK, Tick, NeverSynced, Earlier
    <3>. QED
      BY <2>10, <3>1, <3>2, <3>3 DEF TypeOK, SlotsHaveTargets, Running, Tick
  <2>11. CASE UNCHANGED vars
    BY <2>11 DEF TypeOK, SlotsHaveTargets, Running, vars, rowVars, workerVars
  <2>. QED
    BY <2>1, <2>2, <2>3, <2>4, <2>5, <2>6, <2>7, <2>8, <2>9, <2>10, <2>11 DEF Next, Finish
<1>. QED
  BY <1>1, <1>2, PTL DEF Spec

-----------------------------------------------------------------------------
(***************************************************************************)
(* The lease.  OneSyncPerMirror is not inductive: a claim needs to know    *)
(* that no sync is running when it finds no lease.  LeaseCovers says why:  *)
(* a mirror being synced is leased until time ends the lease under the     *)
(* sync, and from then on the mirror is late for as long as a sync runs.   *)
(***************************************************************************)
LeaseCovers ==
  \A w \in Worker : Running(w) /\ target[w] \notin late =>
    target[w] \in rows /\ lease[target[w]] # NoLease

OnlyStoppedArePushed == pushed \cap rows = {}

OnlyRunningAreLate == \A m \in late : Syncing(m)

LeaseInv ==
  LeaseCovers /\ OneSyncPerMirror /\ OnlyStoppedArePushed /\ OnlyRunningAreLate

\* Whatever a sync's end does to its row, it leaves the other slots running
\* as they were, and the other mirrors' leases alone.
LEMMA EndOfSync ==
  ASSUME TypeOK, SlotsHaveTargets, LeaseInv, NEW w \in Worker, Running(w), FreeSlot(w),
         rows' = rows, pushed' \subseteq pushed,
         \A m \in Mirror \ {target[w]} : lease'[m] = lease[m]
  PROVE  LeaseInv'
<1>1. /\ ~ Running(w)'
      /\ \A v \in Worker \ {w} : phase'[v] = phase[v] /\ target'[v] = target[v]
  BY DEF FreeSlot, TypeOK, Running
<1>2. ASSUME NEW v \in Worker, Running(v)', target'[v] \notin late'
      PROVE  v # w /\ Running(v) /\ target[v] \in Mirror /\ target[v] \notin late
  <2>1. v # w /\ Running(v) /\ target[v] = target'[v]
    BY <1>1, <1>2 DEF Running
  <2>2. target[v] \in late => target[v] \in late'
    BY <2>1, <1>2 DEF FreeSlot, StillLate, Syncing, Running
  <2>. QED
    BY <1>2, <2>1, <2>2 DEF SlotsHaveTargets
<1>3. LeaseCovers'
  <2> SUFFICES ASSUME NEW v \in Worker, Running(v)', target'[v] \notin late'
               PROVE  target'[v] \in rows' /\ lease'[target'[v]] # NoLease
    BY DEF LeaseCovers
  <2>1. target[v] # target[w]
    BY <1>2 DEF LeaseInv, OneSyncPerMirror
  <2>. QED
    BY <1>1, <1>2, <2>1 DEF LeaseInv, LeaseCovers
<1>4. OneSyncPerMirror'
  <2> SUFFICES ASSUME NEW u \in Worker, NEW v \in Worker, Running(u)', Running(v)',
                      target'[u] = target'[v], target'[u] \notin late'
               PROVE  u = v
    BY DEF OneSyncPerMirror
  <2>. QED
    BY <1>1, <1>2 DEF LeaseInv, OneSyncPerMirror
<1>5. OnlyStoppedArePushed'
  BY DEF LeaseInv, OnlyStoppedArePushed
<1>6. OnlyRunningAreLate'
  BY DEF OnlyRunningAreLate, FreeSlot, StillLate, Syncing, Running
<1>. QED
  BY <1>3, <1>4, <1>5, <1>6 DEF LeaseInv

\* One step keeps the lease invariant, whatever the times are.
LEMMA LeaseStep ==
  ASSUME TypeOK, SlotsHaveTargets, LeaseInv, [Next]_vars
  PROVE  LeaseInv'
<1>1. ASSUME NEW w \in Worker, NEW m \in Mirror, ClaimDue(w, m)
      PROVE  LeaseInv'
  <2>1. \A v \in Worker : Running(v) /\ target[v] \notin late => target[v] # m
    BY <1>1 DEF ClaimDue, Claimable, LeaseInv, LeaseCovers
  <2>2. /\ phase'[w] = "fetch" /\ target'[w] = m /\ late' = late
        /\ \A v \in Worker \ {w} : phase'[v] = phase[v] /\ target'[v] = target[v]
        /\ rows' = rows /\ m \in rows
        /\ lease'[m] = LeaseTime
        /\ \A n \in Mirror \ {m} : lease'[n] = lease[n]
    BY <1>1 DEF ClaimDue, Claimable, TypeOK
  <2>3. LeaseTime # NoLease
    BY MirrorAssumption DEF LeaseTime, NoLease
  <2>4. LeaseCovers'
    <3> SUFFICES ASSUME NEW v \in Worker, Running(v)', target'[v] \notin late'
                 PROVE  target'[v] \in rows' /\ lease'[target'[v]] # NoLease
      BY DEF LeaseCovers
    <3>1. CASE v = w
      BY <3>1, <2>2, <2>3
    <3>2. CASE v # w
      <4>1. Running(v) /\ target[v] = target'[v] /\ target[v] \notin late
        BY <3>2, <2>2 DEF Running
      <4>2. target[v] \in Mirror \ {m}
        BY <4>1, <2>1 DEF SlotsHaveTargets
      <4>. QED
        BY <4>1, <4>2, <2>2 DEF LeaseInv, LeaseCovers
    <3>. QED
      BY <3>1, <3>2
  <2>5. OneSyncPerMirror'
    BY <2>1, <2>2 DEF LeaseInv, OneSyncPerMirror, Running
  <2>6. OnlyStoppedArePushed'
    BY <1>1 DEF ClaimDue, LeaseInv, OnlyStoppedArePushed
  <2>7. OnlyRunningAreLate'
    <3>1. ~ Running(w)
      BY <1>1 DEF ClaimDue
    <3>2. \A n : Syncing(n) => Syncing(n)'
      BY <2>2, <3>1 DEF Syncing, Running
    <3>. QED
      BY <2>2, <3>2 DEF LeaseInv, OnlyRunningAreLate
  <2>. QED
    BY <2>4, <2>5, <2>6, <2>7 DEF LeaseInv
<1>2. ASSUME NEW w \in Worker, FetchDone(w)
      PROVE  LeaseInv'
  <2>1. /\ phase[w] = "fetch" /\ phase'[w] = "side" /\ target' = target /\ late' = late
        /\ \A v \in Worker \ {w} : phase'[v] = phase[v]
        /\ rows' = rows /\ lease' = lease /\ pushed' \subseteq pushed
    BY <1>2 DEF FetchDone, TypeOK, rowVars
  <2>2. \A v \in Worker : Running(v)' <=> Running(v)
    BY <2>1 DEF Running
  <2>3. LeaseCovers' /\ OneSyncPerMirror'
    BY <2>1, <2>2 DEF LeaseInv, LeaseCovers, OneSyncPerMirror
  <2>4. OnlyStoppedArePushed'
    BY <2>1 DEF LeaseInv, OnlyStoppedArePushed
  <2>5. OnlyRunningAreLate'
    BY <2>1, <2>2 DEF LeaseInv, OnlyRunningAreLate, Syncing
  <2>. QED
    BY <2>3, <2>4, <2>5 DEF LeaseInv
<1>3. ASSUME NEW w \in Worker, RecordSuccess(w) \/ RecordFailure(w) \/ ReleaseLease(w) \/ RecordError(w)
      PROVE  LeaseInv'
  <2>1. /\ Running(w) /\ FreeSlot(w) /\ rows' = rows
        /\ \A m \in Mirror \ {target[w]} : lease'[m] = lease[m]
    BY <1>3 DEF RecordSuccess, RecordFailure, ReleaseLease, RecordError, Record, Running, TypeOK, rowVars
  <2>2. pushed' \subseteq pushed
    BY <1>3 DEF RecordSuccess, RecordFailure, ReleaseLease, RecordError, FetchMayHaveMoved
  <2>. QED
    BY <2>1, <2>2, EndOfSync
<1>4. ASSUME NEW i \in Instance, Crash(i)
      PROVE  LeaseInv'
  <2>1. /\ rows' = rows /\ lease' = lease /\ pushed' = pushed
        /\ late' = {m \in late : Syncing(m)'}
        /\ \A v \in Worker : Running(v)' =>
             Running(v) /\ phase'[v] = phase[v] /\ target'[v] = target[v]
    BY <1>4 DEF Crash, StillLate, rowVars, Running
  <2>2. \A v \in Worker : Running(v)' /\ target'[v] \notin late' => target[v] \notin late
    BY <2>1 DEF Syncing, Running
  <2>3. LeaseCovers'
    BY <2>1, <2>2 DEF LeaseInv, LeaseCovers
  <2>4. OneSyncPerMirror'
    BY <2>1, <2>2 DEF LeaseInv, OneSyncPerMirror
  <2>. QED
    BY <2>1, <2>3, <2>4 DEF LeaseInv, OnlyStoppedArePushed, OnlyRunningAreLate, Syncing, Running
<1>5. ASSUME NEW m \in Mirror, Stop(m)
      PROVE  LeaseInv'
  BY <1>5 DEF Stop, workerVars, LeaseInv, LeaseCovers, OneSyncPerMirror, OnlyStoppedArePushed,
              OnlyRunningAreLate, Syncing, Running
<1>6. ASSUME \/ \E i \in Instance : Shutdown(i) \/ Restart(i)
             \/ \E m \in Mirror : MarkDue(m) \/ SetArchived(m) \/ UserWrite(m)
      PROVE  LeaseInv'
  BY <1>6 DEF Shutdown, Restart, MarkDue, SetArchived, UserWrite, rowVars, workerVars, LeaseInv,
              LeaseCovers, OneSyncPerMirror, OnlyStoppedArePushed, OnlyRunningAreLate, Syncing, Running
<1>7. ASSUME NEW m \in Mirror, NEW old \in Interval, NEW iv \in Interval,
             EditSource(m, iv) \/ EditInterval(m, old, iv) \/ EditNothing(m, iv)
      PROVE  LeaseInv'
  BY <1>7 DEF EditSource, EditInterval, EditNothing, workerVars, LeaseInv, LeaseCovers,
              OneSyncPerMirror, OnlyStoppedArePushed, OnlyRunningAreLate, Syncing, Running
<1>8. CASE Tick
  <2>1. /\ rows' = rows /\ phase' = phase /\ target' = target /\ pushed' = pushed
        /\ late' = late \cup {m \in Mirror : lease[m] = 0 /\ Syncing(m)}
    BY <1>8 DEF Tick
  <2>2. LeaseCovers'
    <3> SUFFICES ASSUME NEW w \in Worker, Running(w)', target'[w] \notin late'
                 PROVE  target'[w] \in rows' /\ lease'[target'[w]] # NoLease
      BY DEF LeaseCovers
    <3>1. Running(w) /\ target'[w] = target[w] /\ target[w] \notin late /\ target[w] \in Mirror
      BY <2>1 DEF Running, SlotsHaveTargets
    <3>2. lease[target[w]] # 0
      BY <2>1, <3>1 DEF Syncing
    <3>3. lease[target[w]] \in Int /\ lease'[target[w]] = LeaseLeft(lease[target[w]])
      BY <1>8, <3>1, MirrorAssumption DEF Tick, TypeOK, NoLease, LeaseTime
    <3>. QED
      BY <2>1, <3>1, <3>2, <3>3 DEF LeaseInv, LeaseCovers, LeaseLeft, NoLease
  <2>3. OneSyncPerMirror' /\ OnlyStoppedArePushed'
    BY <2>1 DEF LeaseInv, OneSyncPerMirror, OnlyStoppedArePushed, Running
  <2>4. OnlyRunningAreLate'
    BY <2>1 DEF LeaseInv, OnlyRunningAreLate, Syncing, Running
  <2>. QED
    BY <2>2, <2>3, <2>4 DEF LeaseInv
<1>9. CASE UNCHANGED vars
  BY <1>9 DEF vars, rowVars, workerVars, LeaseInv, LeaseCovers, OneSyncPerMirror,
              OnlyStoppedArePushed, OnlyRunningAreLate, Syncing, Running
<1>. QED
  BY <1>1, <1>2, <1>3, <1>4, <1>5, <1>6, <1>7, <1>8, <1>9 DEF Next, Finish

\* Nothing runs and nothing is leased at first.
LEMMA LeaseInit == Init => LeaseInv
BY DEF Init, LeaseInv, LeaseCovers, OneSyncPerMirror, OnlyStoppedArePushed, OnlyRunningAreLate,
       Syncing, Running

\* A sync's lease covers it until time runs out, for all the times there are.
LEMMA LeaseInvariant == Spec => [](TypeOK /\ SlotsHaveTargets /\ LeaseInv)
BY TypeInvariant, LeaseInit, LeaseStep, PTL DEF Spec

\* No two syncs of one mirror run at once, unless one has outlived its lease.
THEOREM LeaseExcludes == Spec => []OneSyncPerMirror
<1>1. LeaseInv => OneSyncPerMirror
  BY DEF LeaseInv
<1>. QED
  BY <1>1, LeaseInvariant, PTL

\* A mirror that was stopped has no sync running into it, unless one of its
\* syncs has outlived its lease.
THEOREM StopWaitsForSync == Spec => []NoSyncIntoStoppedMirror
<1>1. LeaseInv => NoSyncIntoStoppedMirror
  BY DEF LeaseInv, LeaseCovers, NoSyncIntoStoppedMirror
<1>. QED
  BY <1>1, LeaseInvariant, PTL

\* Only syncs that contend for a mirror after one outlived its lease overwrite
\* a user's push.
THEOREM PushesAreKept == Spec => PushesSurvive
<1>1. ASSUME SlotsHaveTargets, LeaseInv, [Next]_vars
      PROVE  pushed \ late \subseteq pushed'
  <2>1. \A w \in Worker : Running(w) => target[w] \notin pushed \ late
    BY <1>1 DEF LeaseInv, LeaseCovers, OnlyStoppedArePushed
  <2>. QED
    BY <1>1, <2>1
    DEF Next, vars, rowVars, workerVars, Finish, ClaimDue, FetchDone, RecordSuccess, RecordFailure,
        ReleaseLease, RecordError, FetchMayHaveMoved, Shutdown, Restart, Crash, MarkDue,
        Stop, SetArchived, UserWrite, EditSource, EditInterval, EditNothing, Tick, Running
<1>. QED
  BY <1>1, LeaseInvariant, PTL DEF Spec, PushesSurvive

-----------------------------------------------------------------------------
(***************************************************************************)
(* The implementation of MirrorAccess.  Each step either changes who may   *)
(* write to one repository, as a step of MirrorAccess may, or nothing a    *)
(* user sees.                                                              *)
(***************************************************************************)

\* The end of a sync makes its repository an idle mirror again, unless it was
\* contended: then it stays so while others run, or it may be writable.
LEMMA EndOfSyncAccess ==
  ASSUME SlotsHaveTargets, LeaseInv, NEW w \in Worker, Running(w), FreeSlot(w), TypeOK,
         NEW m, m = target[w], rows' = rows, pushed' \in {pushed, pushed \ {m}}
  PROVE  Access!EndSync({m}) \/ Access!Contend(m)
<1>1. m \in Mirror /\ Syncing(m)
  BY DEF SlotsHaveTargets, Syncing
<1>2. /\ ~ Running(w)'
      /\ \A v \in Worker \ {w} : phase'[v] = phase[v] /\ target'[v] = target[v]
      /\ late' = {n \in late : Syncing(n)'}
  BY DEF FreeSlot, StillLate, TypeOK, Running
<1>3. \A n \in Mirror \ {m} : Syncing(n)' <=> Syncing(n)
  BY <1>2 DEF Syncing, Running
<1>4. late' = IF Syncing(m)' THEN late ELSE late \ {m}
  BY <1>2, <1>3 DEF LeaseInv, OnlyRunningAreLate, TypeOK
<1>5. CASE m \notin late
  <2>1. m \in rows
    BY <1>5 DEF LeaseInv, LeaseCovers
  <2>2. ~ Syncing(m)'
    BY <1>2, <1>5 DEF Syncing, Running, LeaseInv, OneSyncPerMirror
  <2>3. whoWrites[m] = "syncing"
    BY <1>1, <1>5 DEF whoWrites
  <2>4. whoWrites' = [n \in Mirror |-> IF n \in {} THEN "writable"
                                       ELSE IF n \in {m} THEN "mirror" ELSE whoWrites[n]]
    BY <1>3, <1>4, <1>5, <2>1, <2>2 DEF whoWrites
  <2>5. {} \in SUBSET {n \in {m} : whoWrites[n] = "contended"}
    OBVIOUS
  <2>. QED
    BY <1>1, <2>3, <2>4, <2>5 DEF Access!EndSync
<1>6. CASE m \in late /\ Syncing(m)'
  <2>1. whoWrites' = whoWrites /\ whoWrites[m] = "contended"
    BY <1>1, <1>3, <1>4, <1>6 DEF whoWrites
  <2>. QED
    BY <2>1 DEF Access!Contend
<1>7. CASE m \in late /\ ~ Syncing(m)'
  <2>1. whoWrites[m] = "contended"
    BY <1>1, <1>7 DEF whoWrites
  <2>. DEFINE W == {m} \ rows
  <2>2. whoWrites' = [n \in Mirror |-> IF n \in W THEN "writable"
                                       ELSE IF n \in {m} THEN "mirror" ELSE whoWrites[n]]
    BY <1>3, <1>4, <1>7 DEF whoWrites
  <2>3. W \in SUBSET {n \in {m} : whoWrites[n] = "contended"}
    BY <2>1
  <2>. QED
    BY <2>1, <2>2, <2>3 DEF Access!EndSync
<1>. QED
  BY <1>5, <1>6, <1>7

\* A step that leaves the slots' mirrors, the rows and the pushes alone.
LEMMA SameAccess ==
  ASSUME phase' = phase, target' = target, late' = late, rows' = rows, pushed' = pushed
  PROVE  UNCHANGED <<whoWrites, pushed>>
BY DEF whoWrites, Syncing, Running

\* Every step is a step of MirrorAccess or changes nothing it shows.
LEMMA AccessStep ==
  ASSUME TypeOK, SlotsHaveTargets, LeaseInv, [Next]_vars
  PROVE  [Access!Next]_<<whoWrites, pushed>>
<1>1. ASSUME NEW w \in Worker, NEW m \in Mirror, ClaimDue(w, m)
      PROVE  Access!BeginSync(m) \/ UNCHANGED <<whoWrites, pushed>>
  <2>1. /\ m \notin late => ~ Syncing(m)
        /\ m \in rows /\ ~ Running(w)
    BY <1>1 DEF ClaimDue, Claimable, LeaseInv, LeaseCovers, Syncing
  <2>2. /\ phase'[w] = "fetch" /\ target'[w] = m /\ late' = late
        /\ \A v \in Worker \ {w} : phase'[v] = phase[v] /\ target'[v] = target[v]
        /\ rows' = rows /\ pushed' = pushed
    BY <1>1 DEF ClaimDue, TypeOK
  <2>3. Syncing(m)' /\ \A n \in Mirror \ {m} : Syncing(n)' <=> Syncing(n)
    BY <2>1, <2>2 DEF Syncing, Running
  <2>. QED
    BY <2>1, <2>2, <2>3 DEF Access!BeginSync, whoWrites
<1>2. ASSUME NEW w \in Worker, FetchDone(w)
      PROVE  /\ Access!Overwrite(target[w]) \/ Access!Contend(target[w])
             /\ target[w] \in Mirror
  <2>1. /\ phase[w] = "fetch" /\ phase'[w] = "side" /\ target' = target /\ late' = late
        /\ \A v \in Worker \ {w} : phase'[v] = phase[v]
        /\ rows' = rows /\ pushed' = pushed \ {target[w]}
    BY <1>2 DEF FetchDone, TypeOK, rowVars
  <2>2. target[w] \in Mirror /\ Syncing(target[w])
    BY <2>1 DEF SlotsHaveTargets, Running, Syncing
  <2>3. \A m \in Mirror : Syncing(m)' <=> Syncing(m)
    BY <2>1 DEF Syncing, Running
  <2>4. whoWrites' = whoWrites /\ whoWrites[target[w]] \in {"syncing", "contended"}
    BY <2>1, <2>2, <2>3 DEF whoWrites
  <2>. QED
    BY <2>1, <2>2, <2>4 DEF Access!Overwrite, Access!Contend
<1>3. ASSUME NEW w \in Worker, RecordSuccess(w) \/ RecordFailure(w) \/ ReleaseLease(w) \/ RecordError(w)
      PROVE  /\ Access!EndSync({target[w]}) \/ Access!Contend(target[w])
             /\ target[w] \in Mirror
  <2>1. /\ Running(w) /\ FreeSlot(w) /\ rows' = rows
        /\ pushed' \in {pushed, pushed \ {target[w]}}
    BY <1>3 DEF RecordSuccess, RecordFailure, ReleaseLease, RecordError, Record, Running,
                rowVars, FetchMayHaveMoved
  <2>. QED
    BY <2>1, EndOfSyncAccess DEF SlotsHaveTargets
<1>4. ASSUME NEW i \in Instance, Crash(i)
      PROVE  \E S \in SUBSET Mirror : Access!EndSync(S)
  <2>. DEFINE S == {m \in Mirror : Syncing(m) /\ ~ Syncing(m)'}
              W == (S \cap late) \ rows
  <2>1. /\ rows' = rows /\ pushed' = pushed /\ late' = {m \in late : Syncing(m)'}
        /\ \A w \in Worker : IF w[1] = i THEN phase'[w] = "idle"
                             ELSE phase'[w] = phase[w] /\ target'[w] = target[w]
    BY <1>4 DEF Crash, StillLate, rowVars
  <2>2. \A m \in Mirror : Syncing(m)' => Syncing(m)
    BY <2>1 DEF Syncing, Running
  <2>3. late' = late \ S
    BY <2>1 DEF LeaseInv, OnlyRunningAreLate, TypeOK
  <2>4. \A m \in S \ late : m \in rows
    BY DEF Syncing, LeaseInv, LeaseCovers
  <2>5. \A m \in S : whoWrites[m] = IF m \in late THEN "contended" ELSE "syncing"
    BY DEF whoWrites
  <2>6. whoWrites' = [m \in Mirror |-> IF m \in W THEN "writable"
                                       ELSE IF m \in S THEN "mirror" ELSE whoWrites[m]]
    BY <2>1, <2>2, <2>3, <2>4 DEF whoWrites
  <2>7. W \in SUBSET {m \in S : whoWrites[m] = "contended"}
    BY <2>5
  <2>8. Access!EndSync(S)
    BY <2>1, <2>5, <2>6, <2>7 DEF Access!EndSync
  <2>. QED
    BY <2>8
<1>5. ASSUME NEW m \in Mirror, Stop(m)
      PROVE  Access!StopMirroring(m) \/ UNCHANGED <<whoWrites, pushed>>
  <2>1. /\ m \notin late => ~ Syncing(m)
        /\ m \in rows /\ rows' = rows \ {m} /\ pushed' = pushed /\ late' = late
    BY <1>5 DEF Stop, LeaseInv, LeaseCovers, Syncing, workerVars
  <2>2. \A n \in Mirror : Syncing(n)' <=> Syncing(n)
    BY <1>5 DEF Stop, workerVars, Syncing, Running
  <2>. QED
    BY <2>1, <2>2 DEF Access!StopMirroring, whoWrites
<1>6. ASSUME NEW m \in Mirror, UserWrite(m)
      PROVE  Access!UserWrite(m) \/ Access!Contend(m)
  <2>1. m \notin late => ~ Syncing(m)
    BY <1>6 DEF UserWrite, LeaseInv, LeaseCovers, Syncing
  <2>2. whoWrites' = whoWrites
    BY <1>6 DEF UserWrite, rowVars, workerVars, whoWrites, Syncing, Running
  <2>. QED
    BY <1>6, <2>1, <2>2 DEF Access!UserWrite, Access!Contend, whoWrites, UserWrite
<1>7. CASE Tick
  <2>. DEFINE S == {m \in Mirror \ late : lease[m] = 0 /\ Syncing(m)}
  <2>1. /\ rows' = rows /\ pushed' = pushed /\ phase' = phase /\ target' = target
        /\ late' = late \cup S
    BY <1>7 DEF Tick
  <2>2. \A m \in Mirror : Syncing(m)' <=> Syncing(m)
    BY <2>1 DEF Syncing, Running
  <2>3. /\ \A m \in S : whoWrites[m] = "syncing"
        /\ whoWrites' = [m \in Mirror |-> IF m \in S THEN "contended" ELSE whoWrites[m]]
    BY <2>1, <2>2 DEF whoWrites
  <2>4. Access!Overrun(S) /\ S \in SUBSET Mirror
    BY <2>1, <2>3 DEF Access!Overrun
  <2>. QED
    BY <2>4 DEF Access!Next
<1>8. ASSUME \/ \E i \in Instance : Shutdown(i) \/ Restart(i)
             \/ \E m \in Mirror : MarkDue(m) \/ SetArchived(m)
             \/ \E m \in Mirror, iv \in Interval : EditSource(m, iv) \/ EditNothing(m, iv)
             \/ \E m \in Mirror, old, iv \in Interval : EditInterval(m, old, iv)
             \/ UNCHANGED vars
      PROVE  UNCHANGED <<whoWrites, pushed>>
  BY <1>8, SameAccess DEF Shutdown, Restart, MarkDue, SetArchived, EditSource, EditInterval,
                          EditNothing, vars, rowVars, workerVars
<1>9. CASE \E w \in Worker, m \in Mirror : ClaimDue(w, m)
  BY <1>1, <1>9 DEF Access!Next
<1>10. CASE \E w \in Worker : Finish(w)
  BY <1>2, <1>3, <1>10 DEF Access!Next, Finish
<1>11. CASE \E i \in Instance : Crash(i)
  BY <1>4, <1>11 DEF Access!Next
<1>12. CASE \E m \in Mirror : Stop(m) \/ UserWrite(m)
  BY <1>5, <1>6, <1>12 DEF Access!Next
<1>. QED
  BY <1>7, <1>8, <1>9, <1>10, <1>11, <1>12 DEF Next

\* Every repository is an idle mirror at first.
LEMMA AccessInit == Init => Access!Init
BY DEF Init, Access!Init, whoWrites, Syncing, Running

\* Rows, leases and deadlines implement MirrorAccess, whatever the times are.
THEOREM Implementation == Spec => ImplementsAccess
BY AccessInit, AccessStep, LeaseInvariant, PTL DEF Spec, ImplementsAccess, Access!Spec
-----------------------------------------------------------------------------
(***************************************************************************)
(* Scheduling.  What a step may do to the wait of one mirror, shown for    *)
(* every repository, with or without a row.                                *)
(***************************************************************************)
MayWait(m, wait) ==
  /\ wait + Later(since'[m], 0) >= interval'[m]
  /\ wait <= Later(interval'[m], MaxBackoff)

\* A failing mirror's wait is its interval at least, and the interval or the
\* cap at most.
LEMMA BackoffBounded ==
  ASSUME NEW iv \in Interval, NEW f \in 0..MaxDoublings
  PROVE  Backoff(iv, f) >= iv /\ Backoff(iv, f) <= Later(iv, MaxBackoff)
<1>1. 2^f \in Nat /\ iv \in Nat
  BY PowersOfTwo, MirrorAssumption
<1>2. iv * 2^f \in Nat
  BY <1>1
<1>. QED
  BY <1>1, <1>2, MirrorAssumption DEF Backoff, Later, Earlier

\* A result puts a row off by a wait within the bounds, and leaves it due if a
\* sync was asked for meanwhile.
LEMMA RecordWait ==
  ASSUME TypeOK, NEW m \in Mirror, NEW wait \in Nat, NEW fails \in 0..MaxDoublings,
         wait >= interval[m], wait <= Later(interval[m], MaxBackoff), Record(m, wait, fails)
  PROVE  /\ \A x \in Mirror : next'[x] > next[x] => MayWait(x, next'[x])
         /\ \A x \in requested : next[x] = 0 => next'[x] = 0
<1>1. CASE m \in rows
  <2>1. /\ next' = [next EXCEPT ![m] = IF m \in requested THEN 0 ELSE wait]
        /\ since'[m] = 0 /\ interval' = interval
    BY <1>1 DEF Record, TypeOK
  <2>2. \A x \in Mirror : next'[x] > next[x] => x = m /\ next'[x] = wait
    BY <2>1 DEF TypeOK
  <2>3. interval[m] \in Nat
    BY IntervalType DEF TypeOK
  <2>4. MayWait(m, wait)
    BY <2>1, <2>3 DEF MayWait, Later
  <2>5. \A x \in requested : next[x] = 0 => next'[x] = 0
    BY <2>1 DEF TypeOK
  <2>. QED
    BY <2>2, <2>4, <2>5
<1>2. CASE m \notin rows
  BY <1>2 DEF Record, rowVars, TypeOK
<1>. QED
  BY <1>1, <1>2

\* What every step does to the schedule: it puts a mirror off within the
\* bounds, and who asked for a sync stays due, unless a claim takes the request
\* or an edit of the interval alone replaces it.
LEMMA ScheduleStep ==
  ASSUME TypeOK, SlotsHaveTargets, [Next]_vars
  PROVE  /\ \A m \in Mirror : next'[m] > next[m] => MayWait(m, next'[m])
         /\ \A m \in requested : next[m] = 0 =>
              \/ next'[m] = 0
              \/ \E old, iv \in Interval : EditInterval(m, old, iv)
<1>. DEFINE InBounds == \A m \in Mirror : next'[m] > next[m] => MayWait(m, next'[m])
            Kept == \A m \in requested : next[m] = 0 =>
                      next'[m] = 0 \/ \E old, iv \in Interval : EditInterval(m, old, iv)
<1>1. ASSUME next' = next
      PROVE  InBounds /\ Kept
  BY <1>1 DEF TypeOK
<1>2. ASSUME NEW w \in Worker, RecordSuccess(w)
      PROVE  InBounds /\ Kept
  <2>1. target[w] \in Mirror
    BY <1>2 DEF RecordSuccess, SlotsHaveTargets, Running
  <2>2. /\ interval[target[w]] \in Nat
        /\ interval[target[w]] <= Later(interval[target[w]], MaxBackoff)
    <3>1. interval[target[w]] \in Nat
      BY <2>1, IntervalType DEF TypeOK
    <3>. QED
      BY <3>1, MirrorAssumption DEF Later
  <2>3. 0 \in 0..MaxDoublings /\ Record(target[w], interval[target[w]], 0)
    BY <1>2, MirrorAssumption DEF RecordSuccess
  <2>4. interval[target[w]] >= interval[target[w]]
    BY <2>2
  <2>. QED
    BY <2>1, <2>2, <2>3, <2>4, RecordWait
<1>3. ASSUME NEW w \in Worker, RecordFailure(w)
      PROVE  InBounds /\ Kept
  <2>1. target[w] \in Mirror
    BY <1>3 DEF RecordFailure, SlotsHaveTargets, Running
  <2>2. interval[target[w]] \in Interval /\ failures[target[w]] \in 0..MaxDoublings
    BY <2>1 DEF TypeOK
  <2>. DEFINE wait == Backoff(interval[target[w]], failures[target[w]])
  <2>3. /\ wait \in Nat
        /\ wait >= interval[target[w]]
        /\ wait <= Later(interval[target[w]], MaxBackoff)
    BY <2>2, IntervalType, BackoffType, BackoffBounded
  <2>4. CountFailure(failures[target[w]]) \in 0..MaxDoublings
    BY <2>2, MirrorAssumption DEF CountFailure, Earlier
  <2>5. Record(target[w], wait, CountFailure(failures[target[w]]))
    BY <1>3 DEF RecordFailure
  <2>. QED
    BY <2>1, <2>3, <2>4, <2>5, RecordWait
<1>4. ASSUME NEW m \in Mirror,
             \/ \E w \in Worker : ReleaseLease(w)
             \/ MarkDue(m)
             \/ \E iv \in Interval : EditSource(m, iv)
      PROVE  InBounds /\ Kept
  <2>1. \A x \in Mirror : next'[x] = next[x] \/ next'[x] = 0
    BY <1>4 DEF ReleaseLease, MarkDue, EditSource, TypeOK, rowVars
  <2>. QED
    BY <2>1 DEF TypeOK
<1>5. ASSUME NEW m \in Mirror, NEW old \in Interval, NEW iv \in Interval, EditInterval(m, old, iv)
      PROVE  InBounds /\ Kept
  <2>1. /\ \A x \in Mirror \ {m} : next'[x] = next[x]
        /\ next'[m] = IF since[m] = NeverSynced THEN iv ELSE Later(0, iv - since[m])
        /\ interval'[m] = iv /\ since' = since
    BY <1>5 DEF EditInterval, SetInterval, TypeOK
  <2>2. since[m] = NeverSynced \/ since[m] \in Nat
    BY MirrorAssumption DEF TypeOK
  <2>3. MayWait(m, next'[m])
    BY <2>1, <2>2, IntervalType, MirrorAssumption DEF MayWait, Later, NeverSynced
  <2>4. InBounds
    BY <2>1, <2>3 DEF TypeOK
  <2>5. Kept
    BY <1>5, <2>1 DEF TypeOK
  <2>. QED
    BY <2>4, <2>5
<1>6. CASE Tick
  <2>1. \A m \in Mirror : next'[m] = Later(next[m] - 1, 0) /\ next[m] \in Nat
    BY <1>6 DEF Tick, TypeOK
  <2>2. InBounds
    BY <2>1 DEF Later
  <2>3. Kept
    BY <2>1 DEF Later, TypeOK
  <2>. QED
    BY <2>2, <2>3
<1>7. ASSUME \/ \E w \in Worker, m \in Mirror : ClaimDue(w, m)
             \/ \E w \in Worker : FetchDone(w) \/ RecordError(w)
             \/ \E i \in Instance : Shutdown(i) \/ Restart(i) \/ Crash(i)
             \/ \E m \in Mirror : Stop(m) \/ SetArchived(m) \/ UserWrite(m)
             \/ \E m \in Mirror, iv \in Interval : EditNothing(m, iv)
             \/ UNCHANGED vars
      PROVE  next' = next
  BY <1>7 DEF ClaimDue, FetchDone, RecordError, Shutdown, Restart, Crash, Stop, SetArchived,
              UserWrite, EditNothing, vars, rowVars
<1>8. ASSUME NEW w \in Worker, ReleaseLease(w)
      PROVE  InBounds /\ Kept
  <2>1. target[w] \in Mirror
    BY <1>8 DEF ReleaseLease, SlotsHaveTargets, Running
  <2>. QED
    BY <1>4, <1>8, <2>1
<1>. QED
  BY <1>1, <1>2, <1>3, <1>4, <1>5, <1>6, <1>7, <1>8 DEF Next, Finish

\* Whatever puts a mirror's next sync off leaves its interval between two
\* syncs at least, and the interval or the cap of the backoff at most.
THEOREM WaitsAreBounded == Spec => WaitBounded
<1>. DEFINE InBounds == \A m \in rows \cap rows' :
                          next'[m] > next[m] =>
                            /\ next'[m] + Later(since'[m], 0) >= interval'[m]
                            /\ next'[m] <= Later(interval'[m], MaxBackoff)
<1>1. TypeOK /\ SlotsHaveTargets /\ [Next]_vars => InBounds
  BY ScheduleStep DEF MayWait, TypeOK
<1>. QED
  BY <1>1, TypeInvariant, PTL DEF Spec, WaitBounded

\* A sync that somebody asked for is not forgotten by the results of syncs that
\* were claimed before.
THEOREM RequestsOutliveSyncs == Spec => RequestOutlivesSync
<1>. DEFINE Keeps == \A m \in requested \cap rows' :
                       next[m] = 0 /\ m \in requested' =>
                         \/ next'[m] = 0
                         \/ \E old, iv \in Interval : EditInterval(m, old, iv)
<1>1. TypeOK /\ SlotsHaveTargets /\ [Next]_vars => Keeps
  BY ScheduleStep
<1>. QED
  BY <1>1, TypeInvariant, PTL DEF Spec, RequestOutlivesSync
=============================================================================
