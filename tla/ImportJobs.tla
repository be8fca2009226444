------------------------------- MODULE ImportJobs -------------------------------
(***************************************************************************)
(* Imports of one server into one namespace.  Start puts a job in a map    *)
(* and starts a goroutine, which waits for a slot, clones into a temporary *)
(* directory, and then publishes: it claims the name, inserts the row and  *)
(* moves the clone over the claim.  What went wrong is undone.  The map    *)
(* only keeps what users may still ask for; a restart empties it.          *)
(*                                                                         *)
(* Every job imports a repository of its own name: what happens when names *)
(* meet is RepoDirs.                                                       *)
(***************************************************************************)
EXTENDS Naturals, FiniteSets

CONSTANTS
  User,
  Import,        \* job ids, and the repositories they make
  PerUser,    \* importPerUserLimit
  Slots,      \* importConcurrency
  Keep,       \* importFinishedPerUser
  MaxRepos,   \* the quota of the namespace
  MaxCrashes  \* bound: restarts

VARIABLES
  user,      \* who started each job
  jobs,      \* the jobs in the map
  status,    \* job.Status
  ended,     \* the order of job.FinishedAt, 0 before it is set
  old,       \* jobs that finished more than importJobRetention ago
  step,      \* what each job's goroutine is doing
  slots,     \* slots taken
  temp,      \* jobs with a clone in the temporary directory
  repos,     \* rows of live repositories
  dirs,      \* what lies where each repository belongs
  torn,      \* repositories whose cleanup a crash or an error cut short
  crashes

mapVars  == <<jobs, status, ended, old>>
repoVars == <<repos, dirs, torn>>
vars == <<user, mapVars, step, slots, temp, repoVars, crashes>>

Publishing == {"claim", "insert", "remove", "rename", "abandonRow", "abandonDir"}
Attempting == {"clone", "check"} \cup Publishing
Holding    == {"slot"} \cup Attempting \cup {"clean", "finish", "release"}
Working    == {"queued"} \cup (Holding \ {"release"})

TypeOK ==
  /\ user \in [Import -> User]
  /\ jobs \subseteq Import /\ old \subseteq Import
  /\ status \in [Import -> {"queued", "running", "done", "failed"}]
  /\ ended \in [Import -> 0..Cardinality(Import)]
  /\ step \in [Import -> {"new", "asked", "queued", "over"} \cup Holding]
  /\ slots \in 0..Slots
  /\ temp \subseteq Import /\ repos \subseteq Import /\ torn \subseteq Import
  /\ dirs \in [Import -> {"none", "claim", "data"}]
  /\ crashes \in 0..MaxCrashes

Init ==
  /\ user \in [Import -> User]
  /\ jobs = {} /\ old = {}
  /\ status = [j \in Import |-> "queued"]
  /\ ended = [j \in Import |-> 0]
  /\ step = [j \in Import |-> "new"]
  /\ slots = 0
  /\ temp = {} /\ repos = {} /\ torn = {}
  /\ dirs = [j \in Import |-> "none"]
  /\ crashes = 0

-----------------------------------------------------------------------------
(* The map of jobs *)

Finished(j) == status[j] \in {"done", "failed"}

\* A mutant: FinishedAt of an unfinished job is the zero time, long ago.
SweepByTime(s) == {j \in s : Finished(j) /\ j \notin old}

\* sweepLocked
Sweep(s) == {j \in s : ~ (Finished(j) /\ j \in old)}

ActiveLocked(s, u) == Cardinality({j \in s : user[j] = u /\ ~ Finished(j)})

\* The oldest finished jobs of u beyond those that are kept
EvictFinished(s, u) ==
  LET finished == {j \in s : user[j] = u /\ Finished(j)}
  IN s \ {j \in finished : Cardinality({k \in finished : ended[k] > ended[j]}) >= Keep}

Goto(j, s) == step' = [step EXCEPT ![j] = s]

CheckNewRepo == Cardinality(repos) < MaxRepos

\* Start, up to the lock
AskImport(j) ==
  /\ step[j] = "new"
  /\ CheckNewRepo
  /\ Goto(j, "asked")
  /\ UNCHANGED <<user, mapVars, slots, temp, repoVars, crashes>>

\* Start, under the lock.  A refused id is used no more.
Start(j) ==
  /\ step[j] = "asked"
  /\ LET swept == Sweep(jobs)
     IN IF ActiveLocked(swept, user[j]) >= PerUser
        THEN jobs' = swept /\ Goto(j, "over")
        ELSE jobs' = EvictFinished(swept \cup {j}, user[j]) /\ Goto(j, "queued")
  /\ UNCHANGED <<user, status, ended, old, slots, temp, repoVars, crashes>>

Get ==
  /\ jobs' = Sweep(jobs)
  /\ UNCHANGED <<user, status, ended, old, step, slots, temp, repoVars, crashes>>

AnHourPasses ==
  /\ old' = {j \in jobs : Finished(j)}
  /\ UNCHANGED <<user, jobs, status, ended, step, slots, temp, repoVars, crashes>>

-----------------------------------------------------------------------------
(* run *)

\* A mutant: the slots have no limit.
TakeSlotAnyway(j) ==
  /\ step[j] = "queued"
  /\ slots' = slots + 1
  /\ Goto(j, "slot")
  /\ UNCHANGED <<user, mapVars, temp, repoVars, crashes>>

TakeSlot(j) ==
  /\ step[j] = "queued"
  /\ slots < Slots
  /\ slots' = slots + 1
  /\ Goto(j, "slot")
  /\ UNCHANGED <<user, mapVars, temp, repoVars, crashes>>

SetRunning(j) ==
  /\ step[j] = "slot"
  /\ status' = [status EXCEPT ![j] = "running"]
  /\ Goto(j, "clone")
  /\ UNCHANGED <<user, jobs, ended, old, slots, temp, repoVars, crashes>>

\* A mutant: nothing recovers a panic before it ends the goroutine.
CloneWithoutRecover(j) ==
  /\ step[j] = "clone"
  /\ temp' = temp \cup {j}
  /\ \/ Goto(j, "check") /\ UNCHANGED slots
     \/ Goto(j, "over") /\ slots' = slots - 1
  /\ UNCHANGED <<user, mapVars, repoVars, crashes>>

\* A failure, a timeout and a panic leave what there is of the clone.
Clone(j) ==
  /\ step[j] = "clone"
  /\ temp' = temp \cup {j}
  /\ Goto(j, "check") \/ Goto(j, "clean")
  /\ UNCHANGED <<user, mapVars, slots, repoVars, crashes>>

\* A mutant: the quota is asked when the import starts, and not again.
CheckNameOnly(j) ==
  /\ step[j] = "check"
  /\ Goto(j, "claim") \/ Goto(j, "clean")
  /\ UNCHANGED <<user, mapVars, slots, temp, repoVars, crashes>>

\* createFromImport: the target may be gone or no longer the user's.
Check(j) ==
  /\ step[j] = "check"
  /\ (CheckNewRepo /\ Goto(j, "claim")) \/ Goto(j, "clean")
  /\ UNCHANGED <<user, mapVars, slots, temp, repoVars, crashes>>

Claim(j) ==
  /\ step[j] = "claim"
  /\ \/ dirs' = [dirs EXCEPT ![j] = "claim"] /\ Goto(j, "insert")
     \/ Goto(j, "clean") /\ UNCHANGED dirs
  /\ UNCHANGED <<user, mapVars, slots, temp, repos, torn, crashes>>

Insert(j) ==
  /\ step[j] = "insert"
  /\ \/ repos' = repos \cup {j} /\ Goto(j, "remove")
     \/ Goto(j, "abandonDir") /\ UNCHANGED repos
  /\ UNCHANGED <<user, mapVars, slots, temp, dirs, torn, crashes>>

\* The mirror's row, which may fail to be written, and os.Remove of the claim.
RemoveClaim(j) ==
  /\ step[j] = "remove"
  /\ \/ dirs' = [dirs EXCEPT ![j] = "none"] /\ Goto(j, "rename")
     \/ Goto(j, "abandonRow") /\ UNCHANGED dirs
  /\ UNCHANGED <<user, mapVars, slots, temp, repos, torn, crashes>>

Rename(j) ==
  /\ step[j] = "rename"
  /\ \/ dirs' = [dirs EXCEPT ![j] = "data"] /\ temp' = temp \ {j} /\ Goto(j, "clean")
     \/ Goto(j, "abandonRow") /\ UNCHANGED <<dirs, temp>>
  /\ UNCHANGED <<user, mapVars, slots, repos, torn, crashes>>

\* A mutant: only the directory goes.
AbandonNothing(j) ==
  /\ step[j] = "abandonRow"
  /\ Goto(j, "abandonDir")
  /\ UNCHANGED <<user, mapVars, slots, temp, repoVars, crashes>>

\* abandonNewRepo: an error is logged.
AbandonRow(j) ==
  /\ step[j] = "abandonRow"
  /\ \/ repos' = repos \ {j} /\ UNCHANGED torn
     \/ torn' = torn \cup {j} /\ UNCHANGED repos
  /\ Goto(j, "abandonDir")
  /\ UNCHANGED <<user, mapVars, slots, temp, dirs, crashes>>

\* An error is logged and leaves the claim.
AbandonDir(j) ==
  /\ step[j] = "abandonDir"
  /\ dirs' = [dirs EXCEPT ![j] = "none"] \/ UNCHANGED dirs
  /\ Goto(j, "clean")
  /\ UNCHANGED <<user, mapVars, slots, temp, repos, torn, crashes>>

RemoveTemp(j) ==
  /\ step[j] = "clean"
  /\ \/ temp' = temp \ {j} /\ UNCHANGED torn
     \/ j \in temp /\ torn' = torn \cup {j} /\ UNCHANGED temp
  /\ Goto(j, "finish")
  /\ UNCHANGED <<user, mapVars, slots, repos, dirs, crashes>>

Published(j) == dirs[j] = "data"

Finish(j) ==
  /\ step[j] = "finish"
  /\ status' = [status EXCEPT ![j] = IF Published(j) THEN "done" ELSE "failed"]
  /\ ended' = [ended EXCEPT ![j] = 1 + Cardinality({k \in Import : ended[k] > 0})]
  /\ Goto(j, "release")
  /\ UNCHANGED <<user, jobs, old, slots, temp, repoVars, crashes>>

ReleaseSlot(j) ==
  /\ step[j] = "release"
  /\ slots' = slots - 1
  /\ Goto(j, "over")
  /\ UNCHANGED <<user, mapVars, temp, repoVars, crashes>>

-----------------------------------------------------------------------------

\* Its owner deletes a published repository, once the job shows it.
Delete(j) ==
  /\ j \in repos /\ step[j] = "over" /\ Published(j)
  /\ repos' = repos \ {j}
  /\ dirs' = [dirs EXCEPT ![j] = "none"]
  /\ UNCHANGED <<user, mapVars, step, slots, temp, torn, crashes>>

\* The server dies and comes back: the jobs are gone and RemoveStaleTemp
\* removes the clones.  Nothing looks for what publishing left halfway.
Restart ==
  /\ crashes < MaxCrashes
  /\ crashes' = crashes + 1
  /\ jobs' = {}
  /\ step' = [j \in Import |-> IF step[j] = "new" THEN "new" ELSE "over"]
  /\ slots' = 0
  /\ temp' = {}
  /\ torn' = torn \cup {j \in Import : step[j] \in Publishing}
  /\ UNCHANGED <<user, status, ended, old, repos, dirs>>

Attempt(j) ==
  \/ Clone(j) \/ Check(j) \/ Claim(j) \/ Insert(j) \/ RemoveClaim(j) \/ Rename(j)
  \/ AbandonRow(j) \/ AbandonDir(j)

Run(j) == TakeSlot(j) \/ SetRunning(j) \/ Attempt(j) \/ RemoveTemp(j) \/ Finish(j) \/ ReleaseSlot(j)

Next ==
  \/ \E j \in Import : AskImport(j) \/ Start(j) \/ Run(j) \/ Delete(j)
  \/ Get \/ AnHourPasses \/ Restart

Spec == Init /\ [][Next]_vars

-----------------------------------------------------------------------------
(* Properties *)

\* No more imports of one user wait or run than the limit: sweeping and
\* evicting never lose count of one that still runs.
RunsPerUser ==
  \A u \in User : Cardinality({j \in Import : user[j] = u /\ step[j] \in Working}) <= PerUser

\* A job shows as unfinished only while a goroutine works on it, so that it
\* doesn't hold one of its user's places for ever, and a slot is only taken
\* while its goroutine is there to give it back.
UnfinishedJobsEnd ==
  /\ \A j \in jobs : Finished(j) \/ step[j] \in Working
  /\ slots = Cardinality({j \in Import : step[j] \in Holding})

\* Imports that pass the quota together overshoot it by less than run at once.
QuotaOvershoot == Cardinality(repos) <= MaxRepos + Slots - 1

\* An import leaves a repository with its data, or no row and no clone, unless
\* a crash or an error cut the cleanup.
AllOrNothing ==
  \A j \in Import \ torn :
    step[j] \notin Working => /\ j \in repos <=> Published(j)
                              /\ j \notin temp
=============================================================================
