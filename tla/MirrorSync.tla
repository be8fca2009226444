------------------------------ MODULE MirrorSync ------------------------------
(***************************************************************************)
(* Pull mirrors: the rows of repo_mirrors, the scheduler loops of several  *)
(* server instances that claim due rows under a lease, the syncs they run, *)
(* and the people who edit, archive or stop a mirror meanwhile.            *)
(*                                                                         *)
(* Times are relative and counted in ticks: next[m] is how long until the  *)
(* row is due (0 = due), lease[m] how long the lease still lasts.  A lease *)
(* of 0 ticks is still held, because the code compares it with < NOW().    *)
(* The order of requested_at and claimed_at is all the code looks at, so   *)
(* requested[m] stands for requested_at > claimed_at.                      *)
(***************************************************************************)
EXTENDS Integers, FiniteSets

CONSTANTS
  Mirror,            \* repositories created as mirrors by an import
  NoMirror,          \* what an idle slot syncs
  Instance,          \* server processes sharing the database
  MaxConcurrent,     \* mirror.max_concurrent: slots of one instance
  Timeout,           \* mirror.timeout: the longest a fetch takes
  LeaseSlack,        \* what a lease adds to Timeout
  SideTime,          \* the longest a sync works on after its fetch
  MaxInterval,       \* the longest sync interval (30 days)
  Interval,          \* the sync intervals an admin may pick
  MaxBackoff,        \* the cap on a failing mirror's wait (24 h)
  MaxDoublings,      \* the backoff stops doubling here (20)
  MaxCrashes         \* bound: crashes in one behaviour

ASSUME MirrorAssumption ==
  /\ NoMirror \notin Mirror
  /\ MaxConcurrent \in Nat \ {0}
  /\ Timeout \in Nat \ {0}
  /\ LeaseSlack \in Nat
  /\ SideTime \in Nat
  /\ MaxInterval \in Nat
  /\ Interval \subseteq 1..MaxInterval
  /\ MaxBackoff \in Nat
  /\ MaxDoublings \in Nat
  /\ MaxCrashes \in Nat

\* A fact of arithmetic that the proof system has no rule for.
ASSUME PowersOfTwo == \A f \in 0..MaxDoublings : 2^f \in Nat

VARIABLES
  rows,        \* the mirrors that still have a repo_mirrors row
  archived,    \* the repositories that are archived
  next,        \* next_sync_at, as ticks until due
  lease,       \* lease_until, as ticks left, or NoLease
  requested,   \* the rows with requested_at > claimed_at
  failures,    \* consecutive_failures, up to MaxDoublings
  interval,    \* interval_seconds
  held,        \* history: the intervals the row has held, any of which a
               \* settings request still at work may have read
  since,       \* last_sync_at, as ticks ago up to MaxInterval, or NeverSynced
  phase,       \* what each slot of each instance is doing
  target,      \* the mirror it syncs
  left,        \* ticks before its context's deadline
  late,        \* history: a sync into it has outlived its lease and some
               \* sync into it has been running ever since
  stopping,    \* the instances whose Shutdown has begun
  crashes,     \* how many crashes there have been
  pushed       \* repositories holding commits pushed by their users

rowVars    == <<rows, archived, next, lease, requested, failures, interval, held, since>>
workerVars == <<phase, target, left, late>>
vars == <<rowVars, workerVars, stopping, crashes, pushed>>

Worker      == Instance \X (1..MaxConcurrent)
NoLease     == -1
NeverSynced == -1
LeaseTime   == Timeout + LeaseSlack
Later(a, b)   == IF a > b THEN a ELSE b
Earlier(a, b) == IF a < b THEN a ELSE b

Running(w) == phase[w] # "idle"
Syncing(m) == \E w \in Worker : Running(w) /\ target[w] = m

TypeOK ==
  /\ rows \subseteq Mirror
  /\ archived \subseteq Mirror
  /\ next \in [Mirror -> Nat]
  /\ lease \in [Mirror -> {NoLease} \cup 0..LeaseTime]
  /\ requested \subseteq Mirror
  /\ failures \in [Mirror -> 0..MaxDoublings]
  /\ interval \in [Mirror -> Interval]
  /\ held \in [Mirror -> SUBSET Interval]
  /\ since \in [Mirror -> {NeverSynced} \cup 0..MaxInterval]
  /\ phase \in [Worker -> {"idle", "fetch", "side"}]
  /\ target \in [Worker -> Mirror \cup {NoMirror}]
  /\ left \in [Worker -> Nat]
  /\ late \subseteq Mirror
  /\ stopping \subseteq Instance
  /\ crashes \in 0..MaxCrashes
  /\ pushed \subseteq Mirror

\* An import wrote each row; its first sync is one interval away, or at once.
Init ==
  /\ rows = Mirror
  /\ archived = {}
  /\ interval \in [Mirror -> Interval]
  /\ held = [m \in Mirror |-> {interval[m]}]
  /\ next \in [Mirror -> {0} \cup Interval]
  /\ \A m \in Mirror : next[m] \in {0, interval[m]}
  /\ lease = [m \in Mirror |-> NoLease]
  /\ requested = {}
  /\ failures = [m \in Mirror |-> 0]
  /\ since = [m \in Mirror |-> NeverSynced]
  /\ phase = [w \in Worker |-> "idle"]
  /\ target = [w \in Worker |-> NoMirror]
  /\ left = [w \in Worker |-> 0]
  /\ late = {}
  /\ stopping = {}
  /\ crashes = 0
  /\ pushed = {}

-----------------------------------------------------------------------------
(* The scheduler loop *)

ClaimableUnderLease(m) == m \in rows /\ next[m] = 0 /\ m \notin archived

ClaimableUntilGivenUp(m) ==
  ClaimableUnderLease(m) /\ lease[m] = NoLease /\ failures[m] < MaxDoublings

\* The rows a claim may take: due, not leased, and not archived.
Claimable(m) ==
  /\ m \in rows
  /\ next[m] = 0
  /\ lease[m] = NoLease
  /\ m \notin archived

\* The claim leases several rows in one statement; here each row it returns
\* is a step of its own, with the slot that row's goroutine takes.
ClaimDue(w, m) ==
  /\ ~ Running(w)
  /\ w[1] \notin stopping
  /\ Claimable(m)
  /\ lease' = [lease EXCEPT ![m] = LeaseTime]
  /\ requested' = requested \ {m}
  /\ phase' = [phase EXCEPT ![w] = "fetch"]
  /\ target' = [target EXCEPT ![w] = m]
  /\ left' = [left EXCEPT ![w] = Timeout]
  /\ UNCHANGED <<rows, archived, next, failures, interval, held, since, late,
                 stopping, crashes, pushed>>

\* The forced, pruning fetch ends: whatever users pushed is overwritten.
FetchDone(w) ==
  /\ phase[w] = "fetch"
  /\ phase' = [phase EXCEPT ![w] = "side"]
  /\ left' = [left EXCEPT ![w] = SideTime]
  /\ pushed' = pushed \ {target[w]}
  /\ UNCHANGED <<rowVars, target, late, stopping, crashes>>

\* History: a mirror stays late while any sync into it still runs.
StillLate == late' = {m \in late : Syncing(m)'}

FreeSlot(w) ==
  /\ phase' = [phase EXCEPT ![w] = "idle"]
  /\ target' = [target EXCEPT ![w] = NoMirror]
  /\ left' = [left EXCEPT ![w] = 0]
  /\ StillLate

RecordIgnoringRequests(m, wait, fails) ==
  IF m \in rows
  THEN /\ lease' = [lease EXCEPT ![m] = NoLease]
       /\ next' = [next EXCEPT ![m] = wait]
       /\ since' = [since EXCEPT ![m] = 0]
       /\ failures' = [failures EXCEPT ![m] = fails]
       /\ UNCHANGED <<rows, archived, requested, interval, held>>
  ELSE UNCHANGED rowVars

\* A result rewrites the row of its repository, if there still is one.  It
\* does not ask whose lease the row carries.
Record(m, wait, fails) ==
  IF m \in rows
  THEN /\ lease' = [lease EXCEPT ![m] = NoLease]
       /\ next' = [next EXCEPT ![m] = IF m \in requested THEN 0 ELSE wait]
       /\ since' = [since EXCEPT ![m] = 0]
       /\ failures' = [failures EXCEPT ![m] = fails]
       /\ UNCHANGED <<rows, archived, requested, interval, held>>
  ELSE UNCHANGED rowVars

RecordSuccess(w) ==
  /\ phase[w] = "side"
  /\ Record(target[w], interval[target[w]], 0)
  /\ FreeSlot(w)
  /\ UNCHANGED <<stopping, crashes, pushed>>

BackoffWithoutFloor(iv, fails) == Earlier(iv * 2^fails, MaxBackoff)

\* What a failing mirror waits: its interval doubled for each failure in a
\* row, up to the cap, and never less than its interval.
Backoff(iv, fails) == Later(iv, Earlier(iv * 2^fails, MaxBackoff))

CountFailureWithoutCap(fails) == fails + 1

\* consecutive_failures, of which the backoff looks at MaxDoublings at most.
CountFailure(fails) == Earlier(fails + 1, MaxDoublings)

\* A failed or timed-out fetch may have moved some refs already.
FetchMayHaveMoved(w) ==
  IF phase[w] = "fetch" THEN pushed' \in {pushed, pushed \ {target[w]}}
                        ELSE UNCHANGED pushed

\* The fetch fails, or following HEAD does after the side effects ran.
RecordFailure(w) ==
  /\ Running(w)
  /\ w[1] \notin stopping
  /\ Record(target[w], Backoff(interval[target[w]], failures[target[w]]),
            CountFailure(failures[target[w]]))
  /\ FreeSlot(w)
  /\ FetchMayHaveMoved(w)
  /\ UNCHANGED <<stopping, crashes>>

\* A sync that fails while its instance shuts down hands the mirror back, due.
ReleaseLease(w) ==
  /\ Running(w)
  /\ w[1] \in stopping
  /\ IF target[w] \in rows
     THEN /\ lease' = [lease EXCEPT ![target[w]] = NoLease]
          /\ next' = [next EXCEPT ![target[w]] = 0]
          /\ UNCHANGED <<rows, archived, requested, failures, interval, held, since>>
     ELSE UNCHANGED rowVars
  /\ FreeSlot(w)
  /\ FetchMayHaveMoved(w)
  /\ UNCHANGED <<stopping, crashes>>

\* The result can't be saved: the error is logged and the lease runs out.
RecordError(w) ==
  /\ Running(w)
  /\ FreeSlot(w)
  /\ FetchMayHaveMoved(w)
  /\ UNCHANGED <<rowVars, stopping, crashes>>

Shutdown(i) ==
  /\ i \notin stopping
  /\ stopping' = stopping \cup {i}
  /\ UNCHANGED <<rowVars, workerVars, crashes, pushed>>

\* The process ends after Shutdown saw its last sync end, and a new one starts.
Restart(i) ==
  /\ i \in stopping
  /\ \A k \in 1..MaxConcurrent : ~ Running(<<i, k>>)
  /\ stopping' = stopping \ {i}
  /\ UNCHANGED <<rowVars, workerVars, crashes, pushed>>

\* The process dies, or Shutdown's own deadline passes: nothing is recorded.
Crash(i) ==
  /\ crashes < MaxCrashes
  /\ crashes' = crashes + 1
  /\ stopping' = stopping \ {i}
  /\ phase'  = [w \in Worker |-> IF w[1] = i THEN "idle" ELSE phase[w]]
  /\ target' = [w \in Worker |-> IF w[1] = i THEN NoMirror ELSE target[w]]
  /\ left'   = [w \in Worker |-> IF w[1] = i THEN 0 ELSE left[w]]
  /\ StillLate
  /\ UNCHANGED <<rowVars, pushed>>

-----------------------------------------------------------------------------
(* People *)

\* Sync now.
MarkDue(m) ==
  /\ m \in rows
  /\ next' = [next EXCEPT ![m] = 0]
  /\ requested' = requested \cup {m}
  /\ UNCHANGED <<rows, archived, lease, failures, interval, held, since,
                 workerVars, stopping, crashes, pushed>>

(* MirrorService.Update reads the row, merges the request into it and      *)
(* writes the row back by id, in calls of their own: what it writes, and   *)
(* how it reschedules, follow from the row it read.                        *)

SetInterval(m, iv) ==
  /\ interval' = [interval EXCEPT ![m] = iv]
  /\ held' = [held EXCEPT ![m] = @ \cup {iv}]

\* An edit of the source or its credentials makes the mirror due, whatever
\* interval it picks or writes back.
EditSource(m, iv) ==
  /\ m \in rows
  /\ SetInterval(m, iv)
  /\ next' = [next EXCEPT ![m] = 0]
  /\ requested' = requested \cup {m}
  /\ UNCHANGED <<rows, archived, lease, failures, since,
                 workerVars, stopping, crashes, pushed>>

\* An edit of the interval alone, other than the interval read, counts it
\* from the last sync.
EditInterval(m, old, iv) ==
  /\ m \in rows
  /\ old \in held[m]
  /\ iv # old
  /\ SetInterval(m, iv)
  /\ next' = [next EXCEPT ![m] =
                IF since[m] = NeverSynced THEN iv ELSE Later(0, iv - since[m])]
  /\ UNCHANGED <<rows, archived, lease, requested, failures, since,
                 workerVars, stopping, crashes, pushed>>

\* An edit that changes nothing keeps the schedule, and writes back the
\* interval it read, over one that was set meanwhile.
EditNothing(m, old) ==
  /\ m \in rows
  /\ old \in held[m]
  /\ SetInterval(m, old)
  /\ UNCHANGED <<rows, archived, next, lease, requested, failures, since,
                 workerVars, stopping, crashes, pushed>>

StopAnyway(m) ==
  /\ m \in rows
  /\ rows' = rows \ {m}
  /\ UNCHANGED <<archived, next, lease, requested, failures, interval, held, since,
                 workerVars, stopping, crashes, pushed>>

\* Stop mirroring deletes the row, unless a lease says a sync runs.
Stop(m) ==
  /\ m \in rows
  /\ lease[m] = NoLease
  /\ rows' = rows \ {m}
  /\ UNCHANGED <<archived, next, lease, requested, failures, interval, held, since,
                 workerVars, stopping, crashes, pushed>>

SetArchived(m) ==
  /\ archived' = IF m \in archived THEN archived \ {m} ELSE archived \cup {m}
  /\ UNCHANGED <<rows, next, lease, requested, failures, interval, held, since,
                 workerVars, stopping, crashes, pushed>>

\* A push, a merge or a web edit: refused while the repository is a mirror.
UserWrite(m) ==
  /\ m \notin rows
  /\ m \notin archived
  /\ pushed' = pushed \cup {m}
  /\ UNCHANGED <<rowVars, workerVars, stopping, crashes>>

-----------------------------------------------------------------------------
(* Time: no context outlives its deadline *)

LeaseThatStays(l) == l

\* What a tick leaves of a lease: nothing once lease_until < NOW().
LeaseLeft(l) == IF l = NoLease THEN NoLease ELSE l - 1

Tick ==
  /\ \A w \in Worker : Running(w) => left[w] > 0
  /\ next'  = [m \in Mirror |-> Later(next[m] - 1, 0)]
  /\ lease' = [m \in Mirror |-> LeaseLeft(lease[m])]
  /\ since' = [m \in Mirror |-> IF since[m] = NeverSynced THEN NeverSynced
                                ELSE Earlier(since[m] + 1, MaxInterval)]
  /\ left'  = [w \in Worker |-> Later(left[w] - 1, 0)]
  /\ late'  = late \cup {m \in Mirror : lease[m] = 0 /\ Syncing(m)}
  /\ UNCHANGED <<rows, archived, requested, failures, interval, held, phase, target,
                 stopping, crashes, pushed>>

Finish(w) == FetchDone(w) \/ RecordSuccess(w) \/ RecordFailure(w) \/ ReleaseLease(w) \/ RecordError(w)

Next ==
  \/ \E w \in Worker, m \in Mirror : ClaimDue(w, m)
  \/ \E w \in Worker : Finish(w)
  \/ \E i \in Instance : Shutdown(i) \/ Restart(i) \/ Crash(i)
  \/ \E m \in Mirror : MarkDue(m) \/ Stop(m) \/ SetArchived(m) \/ UserWrite(m)
  \/ \E m \in Mirror, iv \in Interval : EditSource(m, iv) \/ EditNothing(m, iv)
  \/ \E m \in Mirror, old, iv \in Interval : EditInterval(m, old, iv)
  \/ Tick

Spec == Init /\ [][Next]_vars

(***************************************************************************)
(* Time passes, a sync ends by its deadline, a shut down server comes      *)
(* back.  Run looks for due rows at every tick of its own ticker, so an    *)
(* instance with a free slot does not leave a row alone that it could      *)
(* claim all the time: weak fairness, for each instance and row.           *)
(***************************************************************************)
Fairness ==
  /\ WF_vars(Tick)
  /\ \A w \in Worker : WF_vars(Finish(w))
  /\ \A i \in Instance : WF_vars(Restart(i))
  /\ \A i \in Instance, m \in Mirror :
       WF_vars(\E k \in 1..MaxConcurrent : ClaimDue(<<i, k>>, m))

FairSpec == Spec /\ Fairness

-----------------------------------------------------------------------------
(* Properties.  A sync's side effects may outlast the lease, and then two  *)
(* syncs of one mirror may run, and the row may go.  Until that happens,   *)
(* and again once every sync into that mirror has ended, the lease keeps   *)
(* what the comments of the code say of it.                                *)

\* mirrorLeaseSlack: "The lease outlives the sync's own timeout by enough to
\* record its result, so another instance never claims a sync that is still
\* finishing."  No two syncs of one mirror run at the same time, unless one
\* that outlived its lease is, or was, among those running.
OneSyncPerMirror ==
  \A v, w \in Worker :
    Running(v) /\ Running(w) /\ target[v] = target[w] /\ target[v] \notin late => v = w

\* Stop "refuses while a sync runs": a repository that is no longer a mirror
\* has no sync running into it, unless a sync outlived its lease.
NoSyncIntoStoppedMirror ==
  \A w \in Worker : Running(w) => target[w] \in rows \cup late

\* What both are for: no force-fetch overwrites what a user pushed to the
\* repository once it had become writable, but for late syncs.
PushesSurvive == [][pushed \ late \subseteq pushed']_vars

\* What Stop's comment promises without exception: "It refuses while a sync
\* runs, which would force-fetch over pushes to the now writable repo".
PushesAlwaysSurvive == [][pushed \subseteq pushed']_vars

\* "A sync claimed before that leaves the mirror due when it finishes": a
\* mirror somebody asked to sync stays due until a sync that starts later
\* claims it, whatever result is recorded meanwhile.  Only an edit of the
\* interval alone reschedules it.
RequestOutlivesSync ==
  [][\A m \in requested \cap rows' :
        next[m] = 0 /\ m \in requested' =>
          \/ next'[m] = 0
          \/ \E old, iv \in Interval : EditInterval(m, old, iv)]_vars

\* "The first failure waits one interval, and each further one doubles it,
\* capped at 24h but never below the interval": whatever puts the next sync
\* off, a result or an edit, leaves the row's interval between two syncs at
\* least, and at most the interval or the cap, whichever is longer.
WaitBounded ==
  [][\A m \in rows \cap rows' :
       next'[m] > next[m] =>
         /\ next'[m] + Later(since'[m], 0) >= interval'[m]
         /\ next'[m] <= Later(interval'[m], MaxBackoff)]_vars

\* The rows, leases and deadlines implement MirrorAccess: what a user or an
\* admin can observe is one writer at a time, as the docs promise, until a
\* sync outlives its lease, and again when it and its companions have ended.
whoWrites == [m \in Mirror |-> IF m \in late THEN "contended"
                               ELSE IF Syncing(m) THEN "syncing"
                               ELSE IF m \in rows THEN "mirror" ELSE "writable"]
Access == INSTANCE MirrorAccess
            WITH Mirror <- Mirror, access <- whoWrites, pushed <- pushed
ImplementsAccess == Access!Spec

\* A lease never outlasts its term, even when the claimer is gone: the mirror
\* becomes claimable again after a crash or an unsaved result.
LeaseEnds == \A m \in Mirror : lease[m] # NoLease ~> lease[m] = NoLease

\* Servers that stay up take up a due mirror that has no others to compete
\* with for their slots, whichever of its syncs fail, die or outlive their
\* lease, unless it is archived, stopped or rescheduled.
DueIsTakenUp ==
  <>[](stopping = {}) =>
    \A m \in Mirror :
      (m \in rows /\ next[m] = 0 /\ lease[m] = NoLease /\ m \notin archived)
        ~> (lease[m] # NoLease \/ next[m] > 0 \/ m \in archived \/ m \notin rows)
=============================================================================
