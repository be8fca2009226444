------------------------------- MODULE RepoSizes -------------------------------
(***************************************************************************)
(* How repositories.size_bytes, which storage quotas are checked against,  *)
(* follows what pushes and edits write.  Every write is followed by a call *)
(* of Recompute, sooner or later; one goroutine per repository measures    *)
(* until no further call came.  At startup a backfill measures the         *)
(* repositories that have no size yet, beside those goroutines.  One       *)
(* server; cz-admin gc, which measures in a process of its own, and        *)
(* transfers are left out.                                                 *)
(*                                                                         *)
(* A size is the number of writes it counts.                               *)
(***************************************************************************)
EXTENDS Integers

CONSTANTS
  Repo,
  Worker,     \* goroutines that measure
  MaxWrites   \* bound: writes to one repository

VARIABLES
  written,   \* writes on disk
  calls,     \* calls of Recompute that writes have yet to make
  stored,    \* size_bytes
  worker,    \* what each goroutine is doing
  sizing,    \* the goroutines in the map of running measurements
  again,     \* those whose job is to go round again
  backfill,  \* what the backfill is doing
  excused    \* repositories where a crash, an error, a panic or the backfill had the last word

diskVars == <<written, calls>>
vars == <<diskVars, stored, worker, sizing, again, backfill, excused>>

NoSize == -1           \* size_bytes is NULL
Off    == [step |-> "off"]
Busy   == [step : {"read", "walk", "save", "check", "gone"}, repo : Repo, size : Nat]
Listed  == [step : {"next"}, left : SUBSET Repo]
Fill   == [step : {"walk", "save"}, left : SUBSET Repo, repo : Repo, size : Nat]

TypeOK ==
  /\ written \in [Repo -> Nat]
  /\ calls \in [Repo -> Nat]
  /\ stored \in [Repo -> Nat \cup {NoSize}]
  /\ worker \in [Worker -> {Off} \cup Busy]
  /\ sizing \subseteq Worker /\ again \subseteq Worker
  /\ backfill \in {Off} \cup Listed \cup Fill
  /\ excused \subseteq Repo

\* Repositories of an older version have no size.
Init ==
  /\ written = [r \in Repo |-> 0]
  /\ calls = [r \in Repo |-> 0]
  /\ stored \in [Repo -> {0, NoSize}]
  /\ worker = [g \in Worker |-> Off]
  /\ sizing = {} /\ again = {}
  /\ backfill = Off
  /\ excused = {r \in Repo : stored[r] = NoSize}

-----------------------------------------------------------------------------
(* Writes and the calls they lead to *)

\* A push, an edit, a fork, ...: its side effects run later.
Write(r) ==
  /\ written[r] < MaxWrites
  /\ written' = [written EXCEPT ![r] = @ + 1]
  /\ calls' = [calls EXCEPT ![r] = @ + 1]
  /\ UNCHANGED <<stored, worker, sizing, again, backfill, excused>>

\* sizing[r], if it is there
JobsOf(r) == {g \in sizing : worker[g].repo = r}

Recompute(r) ==
  /\ calls[r] > 0
  /\ calls' = [calls EXCEPT ![r] = @ - 1]
  /\ IF JobsOf(r) # {}
     THEN again' = again \cup JobsOf(r) /\ UNCHANGED <<worker, sizing>>
     ELSE \E g \in Worker :
            /\ worker[g] = Off
            /\ worker' = [worker EXCEPT ![g] = [step |-> "read", repo |-> r, size |-> 0]]
            /\ sizing' = sizing \cup {g}
            /\ UNCHANGED again
  /\ UNCHANGED <<written, stored, backfill, excused>>

-----------------------------------------------------------------------------
(* measureUntilIdle *)

At(g, s) == worker[g].step = s

\* Under the lock: the name, and again = false.  The walk then starts.
Read(g) ==
  /\ At(g, "read")
  /\ again' = again \ {g}
  /\ LET r == worker[g].repo
     IN /\ worker' = [worker EXCEPT ![g].step = "walk", ![g].size = written[r]]
        /\ excused' = excused \ {r}
  /\ UNCHANGED <<diskVars, stored, sizing, backfill>>

\* DirSize may or may not count what is written while it walks.
DirSize(g) ==
  /\ At(g, "walk")
  /\ \E n \in worker[g].size..written[worker[g].repo] :
       worker' = [worker EXCEPT ![g].step = "save", ![g].size = n]
  /\ UNCHANGED <<diskVars, stored, sizing, again, backfill, excused>>

SetSize(g) ==
  /\ At(g, "save")
  /\ stored' = [stored EXCEPT ![worker[g].repo] = worker[g].size]
  /\ worker' = [worker EXCEPT ![g].step = "check"]
  /\ UNCHANGED <<diskVars, sizing, again, backfill, excused>>

\* The walk or the statement fails: it is logged, and not tried again.
MeasureFails(g) ==
  /\ At(g, "walk") \/ At(g, "save")
  /\ worker' = [worker EXCEPT ![g].step = "check"]
  /\ excused' = excused \cup {worker[g].repo}
  /\ UNCHANGED <<diskVars, stored, sizing, again, backfill>>

\* A panic, which concurrency.Go recovers: the goroutine is gone, and its job
\* stays in the map until the server restarts.
MeasurePanics(g) ==
  /\ At(g, "walk") \/ At(g, "save")
  /\ worker' = [worker EXCEPT ![g].step = "gone"]
  /\ excused' = excused \cup {worker[g].repo}
  /\ UNCHANGED <<diskVars, stored, sizing, again, backfill>>

GoRound(g) == worker' = [worker EXCEPT ![g].step = "read"]

Stop(g) ==
  /\ worker' = [worker EXCEPT ![g] = Off]
  /\ sizing' = sizing \ {g}
  /\ again' = again \ {g}

\* Mutants: again is not asked, and the map forgets a measurement that goes on.
LoopOnce(g) ==
  /\ At(g, "check") /\ Stop(g)
  /\ UNCHANGED <<diskVars, stored, backfill, excused>>

ForgetAndLoop(g) ==
  /\ At(g, "check")
  /\ IF g \in again THEN GoRound(g) /\ sizing' = sizing \ {g} /\ UNCHANGED again ELSE Stop(g)
  /\ UNCHANGED <<diskVars, stored, backfill, excused>>

\* Under the lock: go round again, or leave the map.
Loop(g) ==
  /\ At(g, "check")
  /\ IF g \in again THEN GoRound(g) /\ UNCHANGED <<sizing, again>> ELSE Stop(g)
  /\ UNCHANGED <<diskVars, stored, backfill, excused>>

-----------------------------------------------------------------------------
(* The backfill, started with the server *)

NextOf(left) == backfill' = [step |-> "next", left |-> left]

ListUnmeasured ==
  /\ backfill = Off
  /\ \E r \in Repo : stored[r] = NoSize
  /\ NextOf({r \in Repo : stored[r] = NoSize})
  /\ UNCHANGED <<diskVars, stored, worker, sizing, again, excused>>

\* A shutdown ends the backfill early.
BackfillNext ==
  /\ backfill.step = "next"
  /\ \/ \E r \in backfill.left :
          backfill' = [step |-> "walk", left |-> backfill.left \ {r}, repo |-> r, size |-> written[r]]
     \/ backfill' = Off
  /\ UNCHANGED <<diskVars, stored, worker, sizing, again, excused>>

BackfillWalk ==
  /\ backfill.step = "walk"
  /\ \/ \E n \in backfill.size..written[backfill.repo] :
          backfill' = [backfill EXCEPT !.step = "save", !.size = n]
     \/ NextOf(backfill.left)
  /\ UNCHANGED <<diskVars, stored, worker, sizing, again, excused>>

\* It may overwrite what a newer measurement saved.
BackfillSave ==
  /\ backfill.step = "save"
  /\ stored' = [stored EXCEPT ![backfill.repo] = backfill.size]
  /\ excused' = IF backfill.size = written[backfill.repo] THEN excused ELSE excused \cup {backfill.repo}
  /\ NextOf(backfill.left)
  /\ UNCHANGED <<diskVars, worker, sizing, again>>

-----------------------------------------------------------------------------

\* The server dies and comes back: calls and measurements are gone, and a row
\* that has a size keeps it.
Restart ==
  /\ excused' = excused \cup {r \in Repo : calls[r] > 0 \/ JobsOf(r) # {}}
  /\ calls' = [r \in Repo |-> 0]
  /\ worker' = [g \in Worker |-> Off]
  /\ sizing' = {} /\ again' = {}
  /\ backfill' = Off
  /\ UNCHANGED <<written, stored>>

Measure(g) ==
  \/ Read(g) \/ DirSize(g) \/ SetSize(g) \/ Loop(g)
  \/ MeasureFails(g) \/ MeasurePanics(g)

Next ==
  \/ \E r \in Repo : Write(r) \/ Recompute(r)
  \/ \E g \in Worker : Measure(g)
  \/ ListUnmeasured \/ BackfillNext \/ BackfillWalk \/ BackfillSave
  \/ Restart

Spec == Init /\ [][Next]_vars

-----------------------------------------------------------------------------
(* Properties *)

\* The goroutines that Recompute starts never measure one repository twice at
\* once, so that none of them saves an older size over another's newer one: a
\* job leaves the map only as its goroutine ends.  This says nothing of the
\* backfill, which asks no map: it may measure beside one of them, and save an
\* older size later.
OneMeasurement ==
  \A g, h \in Worker :
    worker[g] # Off /\ worker[h] # Off /\ worker[g].repo = worker[h].repo => g = h

\* No write goes unmeasured: once every write made its call and the last
\* measurement is over, the stored size counts all of them, unless a crash, an
\* error or a panic cut that measurement or the backfill overwrote it.  After a
\* panic the job stays in the map, and nothing measures before a restart.
SizeSettles ==
  \A r \in Repo \ excused : calls[r] = 0 /\ JobsOf(r) = {} => stored[r] = written[r]
=============================================================================
