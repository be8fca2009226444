---------------------- MODULE RepositoryServices_proofs ----------------------
(***************************************************************************)
(* Theorems about what goroutines and requests do to one repository: how   *)
(* its size is measured (S), and how it changes hands (O).                 *)
(***************************************************************************)
EXTENDS Integers, FiniteSets, Sequences, FiniteSetTheorems, TLAPS

-----------------------------------------------------------------------------
(***************************************************************************)
(* Sizes, for any repositories, goroutines and numbers of writes.          *)
(***************************************************************************)
CONSTANTS Repo, Worker, MaxWrites
VARIABLES written, calls, stored, worker, sizing, again, backfill, excused

S == INSTANCE RepoSizes

\* The map holds the goroutines that measure.
InMap == \A g \in Worker : g \in sizing <=> worker[g] # S!Off

\* What a goroutine that need not go round again has measured, or saved, is
\* all there is.
Fresh ==
  \A g \in sizing :
    calls[worker[g].repo] = 0 /\ g \notin again =>
      /\ S!At(g, "walk") \/ S!At(g, "save") => worker[g].size = written[worker[g].repo]
      /\ S!At(g, "check") /\ worker[g].repo \notin excused => stored[worker[g].repo] = written[worker[g].repo]

SizesInv == S!TypeOK /\ InMap /\ S!OneMeasurement /\ Fresh /\ S!SizeSettles

LEMMA SizesInit == S!Init => SizesInv
BY DEF S!Init, SizesInv, S!TypeOK, InMap, S!OneMeasurement, Fresh, S!SizeSettles, S!NoSize, S!JobsOf, S!Off

\* A goroutine in the map has a repository.
LEMMA Working ==
  ASSUME S!TypeOK, NEW g \in Worker, worker[g].step # "off"
  PROVE  worker[g] \in S!Busy /\ worker[g] # S!Off
BY DEF S!TypeOK, S!Off

LEMMA OffHasNoStep == S!Off.step = "off"
BY DEF S!Off

LEMMA WriteStep ==
  ASSUME SizesInv, NEW r \in Repo, S!Write(r)
  PROVE  SizesInv'
<1>1. S!TypeOK'
  BY DEF S!Write, SizesInv, S!TypeOK
<1>2. calls'[r] > 0 /\ \A p \in Repo \ {r} : calls'[p] = calls[p] /\ written'[p] = written[p]
  BY DEF S!Write, SizesInv, S!TypeOK
<1>3. UNCHANGED <<stored, worker, sizing, again, backfill, excused>>
  BY DEF S!Write
<1>4. \A g \in sizing : worker[g].repo \in Repo
  BY DEF SizesInv, S!TypeOK, InMap, S!Busy
<1>5. InMap' /\ S!OneMeasurement'
  BY <1>3 DEF SizesInv, InMap, S!OneMeasurement
<1>6. Fresh'
  BY <1>2, <1>3, <1>4 DEF SizesInv, Fresh, S!At
<1>7. S!SizeSettles'
  BY <1>2, <1>3 DEF SizesInv, S!SizeSettles, S!JobsOf
<1>. QED
  BY <1>1, <1>5, <1>6, <1>7 DEF SizesInv

LEMMA RecomputeStep ==
  ASSUME SizesInv, NEW r \in Repo, S!Recompute(r)
  PROVE  SizesInv'
<1>1. \A p \in Repo \ {r} : calls'[p] = calls[p]
  BY DEF S!Recompute, SizesInv, S!TypeOK
<1>2. calls' \in [Repo -> Nat] /\ UNCHANGED <<written, stored, backfill, excused>>
  BY DEF S!Recompute, SizesInv, S!TypeOK
<1>3. CASE S!JobsOf(r) # {}
  <2>1. again' = again \cup S!JobsOf(r) /\ UNCHANGED <<worker, sizing>>
    BY <1>3 DEF S!Recompute
  <2>2. S!TypeOK'
    BY <1>2, <2>1 DEF SizesInv, S!TypeOK, S!JobsOf
  <2>3. InMap' /\ S!OneMeasurement'
    BY <2>1 DEF SizesInv, InMap, S!OneMeasurement
  <2>4. \A g \in sizing : worker[g].repo \in Repo
    BY DEF SizesInv, S!TypeOK, InMap, S!Busy
  <2>5. Fresh'
    BY <1>1, <1>2, <2>1, <2>4 DEF SizesInv, Fresh, S!At, S!JobsOf
  <2>6. S!SizeSettles'
    BY <1>1, <1>2, <1>3, <2>1 DEF SizesInv, S!SizeSettles, S!JobsOf
  <2>. QED
    BY <2>2, <2>3, <2>5, <2>6 DEF SizesInv
<1>4. CASE S!JobsOf(r) = {}
  <2>1. PICK g \in Worker :
          /\ worker[g] = S!Off
          /\ worker' = [worker EXCEPT ![g] = [step |-> "read", repo |-> r, size |-> 0]]
          /\ sizing' = sizing \cup {g}
          /\ again' = again
    BY <1>4 DEF S!Recompute
  <2>2. worker'[g] = [step |-> "read", repo |-> r, size |-> 0] /\ worker'[g] \in S!Busy
    BY <2>1 DEF SizesInv, S!TypeOK, S!Busy
  <2>3. \A h \in Worker \ {g} : worker'[h] = worker[h]
    BY <2>1 DEF SizesInv, S!TypeOK
  <2>4. S!TypeOK'
    BY <1>2, <2>1, <2>2 DEF SizesInv, S!TypeOK
  <2>5. worker'[g] # S!Off
    BY <2>2, OffHasNoStep
  <2>6. InMap'
    BY <2>1, <2>3, <2>5 DEF SizesInv, InMap
  <2>7. \A h \in Worker : worker[h] # S!Off => worker[h].repo # r
    BY <1>4 DEF SizesInv, InMap, S!JobsOf
  <2>8. S!OneMeasurement'
    BY <2>2, <2>3, <2>7 DEF SizesInv, S!OneMeasurement
  <2>9. \A h \in sizing : h # g /\ worker[h].repo \in Repo \ {r} /\ h \in Worker
    BY <2>1, <2>7 DEF SizesInv, S!TypeOK, InMap, S!Busy
  <2>10. Fresh'
    BY <1>1, <1>2, <2>1, <2>2, <2>3, <2>9 DEF SizesInv, Fresh, S!At
  <2>11. \A p \in Repo : S!JobsOf(p)' = {} => p # r /\ S!JobsOf(p) = {}
    BY <2>1, <2>2, <2>3, <2>9 DEF S!JobsOf
  <2>12. S!SizeSettles'
    BY <1>1, <1>2, <2>11 DEF SizesInv, S!SizeSettles
  <2>. QED
    BY <2>4, <2>6, <2>8, <2>10, <2>12 DEF SizesInv
<1>. QED
  BY <1>3, <1>4

-----------------------------------------------------------------------------
(* measureUntilIdle *)

\* A goroutine that keeps its repository, and its place in the map.
LEMMA StaysInMap ==
  ASSUME SizesInv, NEW g \in Worker, worker[g] # S!Off,
         worker' \in [Worker -> {S!Off} \cup S!Busy], UNCHANGED sizing,
         worker'[g] # S!Off, worker'[g].repo = worker[g].repo,
         \A h \in Worker \ {g} : worker'[h] = worker[h]
  PROVE  /\ InMap' /\ S!OneMeasurement'
         /\ g \in sizing
         /\ \A p \in Repo : S!JobsOf(p)' = S!JobsOf(p)
         /\ \A h \in sizing \ {g} : h \in Worker /\ worker[h].repo \in Repo \ {worker[g].repo}
<1>1. InMap'
  BY DEF SizesInv, InMap
<1>2. S!OneMeasurement'
  BY DEF SizesInv, S!OneMeasurement
<1>3. g \in sizing /\ \A h \in sizing : h \in Worker /\ worker[h] # S!Off /\ worker[h].repo \in Repo
  BY DEF SizesInv, InMap, S!TypeOK, S!Busy
<1>4. \A p \in Repo : S!JobsOf(p)' = S!JobsOf(p)
  BY <1>3 DEF S!JobsOf
<1>. QED
  BY <1>1, <1>2, <1>3, <1>4 DEF SizesInv, S!OneMeasurement

LEMMA ReadStep ==
  ASSUME SizesInv, NEW g \in Worker, S!Read(g)
  PROVE  SizesInv'
<1>1. worker[g] \in S!Busy /\ worker[g] # S!Off
  BY Working DEF SizesInv, S!Read, S!At
<1>2. /\ worker' = [worker EXCEPT ![g].step = "walk", ![g].size = written[worker[g].repo]]
      /\ again' = again \ {g} /\ excused' = excused \ {worker[g].repo}
      /\ UNCHANGED <<written, calls, stored, sizing, backfill>>
  BY DEF S!Read, S!diskVars
<1>3. /\ worker'[g] \in S!Busy
      /\ worker'[g].step = "walk" /\ worker'[g].repo = worker[g].repo
      /\ worker'[g].size = written[worker[g].repo]
  BY <1>1, <1>2 DEF SizesInv, S!TypeOK, S!Busy
<1>4. \A h \in Worker \ {g} : worker'[h] = worker[h]
  BY <1>2 DEF SizesInv, S!TypeOK
<1>5. worker' \in [Worker -> {S!Off} \cup S!Busy] /\ worker'[g] # S!Off
  BY <1>2, <1>3, OffHasNoStep DEF SizesInv, S!TypeOK
<1>6. S!TypeOK'
  BY <1>2, <1>5 DEF SizesInv, S!TypeOK
<1>7. /\ InMap' /\ S!OneMeasurement' /\ g \in sizing
      /\ \A p \in Repo : S!JobsOf(p)' = S!JobsOf(p)
      /\ \A h \in sizing \ {g} : h \in Worker /\ worker[h].repo \in Repo \ {worker[g].repo}
  BY <1>1, <1>2, <1>3, <1>4, <1>5, StaysInMap
<1>8. Fresh'
  <2>0. /\ again' = again \ {g} /\ excused' = excused \ {worker[g].repo}
        /\ written' = written /\ calls' = calls /\ stored' = stored /\ sizing' = sizing
    BY <1>2
  <2>1. \A h \in sizing \ {g} :
          /\ worker'[h] = worker[h] /\ worker[h].repo # worker[g].repo
          /\ h \in again' <=> h \in again
          /\ worker[h].repo \in excused' <=> worker[h].repo \in excused
    BY <2>0, <1>4, <1>7
  <2>2. \A h \in sizing \ {g} :
          calls'[worker'[h].repo] = 0 /\ h \notin again' =>
            /\ S!At(h, "walk")' \/ S!At(h, "save")' => worker'[h].size = written'[worker'[h].repo]
            /\ S!At(h, "check")' /\ worker'[h].repo \notin excused' =>
                 stored'[worker'[h].repo] = written'[worker'[h].repo]
    BY <2>0, <2>1 DEF SizesInv, Fresh, S!At
  <2>3. ~ S!At(g, "check")' /\ worker'[g].size = written'[worker'[g].repo]
    BY <2>0, <1>3 DEF S!At
  <2>. QED
    BY <2>0, <2>2, <2>3 DEF Fresh
<1>9. S!SizeSettles'
  BY <1>2, <1>7 DEF SizesInv, S!SizeSettles, S!JobsOf
<1>. QED
  BY <1>6, <1>7, <1>8, <1>9 DEF SizesInv

LEMMA DirSizeStep ==
  ASSUME SizesInv, NEW g \in Worker, S!DirSize(g)
  PROVE  SizesInv'
<1>1. worker[g] \in S!Busy /\ worker[g] # S!Off /\ worker[g].step = "walk"
  BY Working DEF SizesInv, S!DirSize, S!At
<1>2. UNCHANGED <<written, calls, stored, sizing, again, backfill, excused>>
  BY DEF S!DirSize, S!diskVars
<1>3. PICK n \in worker[g].size..written[worker[g].repo] :
        worker' = [worker EXCEPT ![g].step = "save", ![g].size = n]
  BY DEF S!DirSize
<1>4. n \in Nat /\ worker[g].size <= n /\ n <= written[worker[g].repo]
  BY <1>1 DEF SizesInv, S!TypeOK, S!Busy
<1>5. /\ worker'[g] \in S!Busy
      /\ worker'[g].step = "save" /\ worker'[g].repo = worker[g].repo /\ worker'[g].size = n
  BY <1>1, <1>3, <1>4 DEF SizesInv, S!TypeOK, S!Busy
<1>6. \A h \in Worker \ {g} : worker'[h] = worker[h]
  BY <1>3 DEF SizesInv, S!TypeOK
<1>7. worker' \in [Worker -> {S!Off} \cup S!Busy] /\ worker'[g] # S!Off
  BY <1>3, <1>5, OffHasNoStep DEF SizesInv, S!TypeOK
<1>8. S!TypeOK'
  BY <1>2, <1>7 DEF SizesInv, S!TypeOK
<1>9. /\ InMap' /\ S!OneMeasurement' /\ g \in sizing
      /\ \A p \in Repo : S!JobsOf(p)' = S!JobsOf(p)
      /\ \A h \in sizing \ {g} : h \in Worker /\ worker[h].repo \in Repo \ {worker[g].repo}
  BY <1>1, <1>2, <1>5, <1>6, <1>7, StaysInMap
<1>10. worker[g].size = written[worker[g].repo] => n = written[worker[g].repo]
  BY <1>1, <1>4 DEF SizesInv, S!TypeOK, S!Busy
<1>11. Fresh'
  BY <1>1, <1>2, <1>5, <1>6, <1>9, <1>10 DEF SizesInv, Fresh, S!At
<1>12. S!SizeSettles'
  BY <1>2, <1>9 DEF SizesInv, S!SizeSettles
<1>. QED
  BY <1>8, <1>9, <1>11, <1>12 DEF SizesInv

LEMMA SetSizeStep ==
  ASSUME SizesInv, NEW g \in Worker, S!SetSize(g)
  PROVE  SizesInv'
<1>1. worker[g] \in S!Busy /\ worker[g] # S!Off /\ worker[g].step = "save"
  BY Working DEF SizesInv, S!SetSize, S!At
<1>2. /\ worker' = [worker EXCEPT ![g].step = "check"]
      /\ stored' = [stored EXCEPT ![worker[g].repo] = worker[g].size]
      /\ UNCHANGED <<written, calls, sizing, again, backfill, excused>>
  BY DEF S!SetSize, S!diskVars
<1>3. /\ worker'[g] \in S!Busy
      /\ worker'[g].step = "check" /\ worker'[g].repo = worker[g].repo
  BY <1>1, <1>2 DEF SizesInv, S!TypeOK, S!Busy
<1>4. \A h \in Worker \ {g} : worker'[h] = worker[h]
  BY <1>2 DEF SizesInv, S!TypeOK
<1>5. worker' \in [Worker -> {S!Off} \cup S!Busy] /\ worker'[g] # S!Off
  BY <1>2, <1>3, OffHasNoStep DEF SizesInv, S!TypeOK
<1>6. /\ stored' \in [Repo -> Nat \cup {S!NoSize}]
      /\ stored'[worker[g].repo] = worker[g].size
      /\ \A p \in Repo \ {worker[g].repo} : stored'[p] = stored[p]
  BY <1>1, <1>2 DEF SizesInv, S!TypeOK, S!Busy
<1>7. S!TypeOK'
  BY <1>2, <1>5, <1>6 DEF SizesInv, S!TypeOK
<1>8. /\ InMap' /\ S!OneMeasurement' /\ g \in sizing
      /\ \A p \in Repo : S!JobsOf(p)' = S!JobsOf(p)
      /\ \A h \in sizing \ {g} : h \in Worker /\ worker[h].repo \in Repo \ {worker[g].repo}
  BY <1>1, <1>2, <1>3, <1>4, <1>5, StaysInMap
<1>9. Fresh'
  BY <1>1, <1>2, <1>3, <1>4, <1>6, <1>8 DEF SizesInv, Fresh, S!At
<1>10. S!SizeSettles'
  BY <1>2, <1>6, <1>8 DEF SizesInv, S!SizeSettles, S!JobsOf
<1>. QED
  BY <1>7, <1>8, <1>9, <1>10 DEF SizesInv

LEMMA MeasureFailsStep ==
  ASSUME SizesInv, NEW g \in Worker, S!MeasureFails(g)
  PROVE  SizesInv'
<1>1. worker[g] \in S!Busy /\ worker[g] # S!Off
  BY Working DEF SizesInv, S!MeasureFails, S!At
<1>2. /\ worker' = [worker EXCEPT ![g].step = "check"]
      /\ excused' = excused \cup {worker[g].repo}
      /\ UNCHANGED <<written, calls, stored, sizing, again, backfill>>
  BY DEF S!MeasureFails, S!diskVars
<1>3. /\ worker'[g] \in S!Busy
      /\ worker'[g].step = "check" /\ worker'[g].repo = worker[g].repo
  BY <1>1, <1>2 DEF SizesInv, S!TypeOK, S!Busy
<1>4. \A h \in Worker \ {g} : worker'[h] = worker[h]
  BY <1>2 DEF SizesInv, S!TypeOK
<1>5. worker' \in [Worker -> {S!Off} \cup S!Busy] /\ worker'[g] # S!Off
  BY <1>2, <1>3, OffHasNoStep DEF SizesInv, S!TypeOK
<1>6. S!TypeOK'
  BY <1>1, <1>2, <1>5 DEF SizesInv, S!TypeOK, S!Busy
<1>7. /\ InMap' /\ S!OneMeasurement' /\ g \in sizing
      /\ \A p \in Repo : S!JobsOf(p)' = S!JobsOf(p)
      /\ \A h \in sizing \ {g} : h \in Worker /\ worker[h].repo \in Repo \ {worker[g].repo}
  BY <1>1, <1>2, <1>3, <1>4, <1>5, StaysInMap
<1>8. Fresh'
  BY <1>2, <1>3, <1>4, <1>7 DEF SizesInv, Fresh, S!At
<1>9. S!SizeSettles'
  BY <1>2, <1>7 DEF SizesInv, S!SizeSettles
<1>. QED
  BY <1>6, <1>7, <1>8, <1>9 DEF SizesInv

LEMMA MeasurePanicsStep ==
  ASSUME SizesInv, NEW g \in Worker, S!MeasurePanics(g)
  PROVE  SizesInv'
<1>1. worker[g] \in S!Busy /\ worker[g] # S!Off
  BY Working DEF SizesInv, S!MeasurePanics, S!At
<1>2. /\ worker' = [worker EXCEPT ![g].step = "gone"]
      /\ excused' = excused \cup {worker[g].repo}
      /\ UNCHANGED <<written, calls, stored, sizing, again, backfill>>
  BY DEF S!MeasurePanics, S!diskVars
<1>3. /\ worker'[g] \in S!Busy
      /\ worker'[g].step = "gone" /\ worker'[g].repo = worker[g].repo
  BY <1>1, <1>2 DEF SizesInv, S!TypeOK, S!Busy
<1>4. \A h \in Worker \ {g} : worker'[h] = worker[h]
  BY <1>2 DEF SizesInv, S!TypeOK
<1>5. worker' \in [Worker -> {S!Off} \cup S!Busy] /\ worker'[g] # S!Off
  BY <1>2, <1>3, OffHasNoStep DEF SizesInv, S!TypeOK
<1>6. S!TypeOK'
  BY <1>1, <1>2, <1>5 DEF SizesInv, S!TypeOK, S!Busy
<1>7. /\ InMap' /\ S!OneMeasurement' /\ g \in sizing
      /\ \A p \in Repo : S!JobsOf(p)' = S!JobsOf(p)
      /\ \A h \in sizing \ {g} : h \in Worker /\ worker[h].repo \in Repo \ {worker[g].repo}
  BY <1>1, <1>2, <1>3, <1>4, <1>5, StaysInMap
<1>8. Fresh'
  BY <1>2, <1>3, <1>4, <1>7 DEF SizesInv, Fresh, S!At
<1>9. S!SizeSettles'
  BY <1>2, <1>7 DEF SizesInv, S!SizeSettles
<1>. QED
  BY <1>6, <1>7, <1>8, <1>9 DEF SizesInv

LEMMA LoopStep ==
  ASSUME SizesInv, NEW g \in Worker, S!Loop(g)
  PROVE  SizesInv'
<1>1. worker[g] \in S!Busy /\ worker[g] # S!Off /\ worker[g].step = "check"
  BY Working DEF SizesInv, S!Loop, S!At
<1>2. UNCHANGED <<written, calls, stored, backfill, excused>>
  BY DEF S!Loop, S!diskVars
<1>3. CASE g \in again
  <2>1. worker' = [worker EXCEPT ![g].step = "read"] /\ UNCHANGED <<sizing, again>>
    BY <1>3 DEF S!Loop, S!GoRound
  <2>2. /\ worker'[g] \in S!Busy
        /\ worker'[g].step = "read" /\ worker'[g].repo = worker[g].repo
    BY <1>1, <2>1 DEF SizesInv, S!TypeOK, S!Busy
  <2>3. \A h \in Worker \ {g} : worker'[h] = worker[h]
    BY <2>1 DEF SizesInv, S!TypeOK
  <2>4. worker' \in [Worker -> {S!Off} \cup S!Busy] /\ worker'[g] # S!Off
    BY <2>1, <2>2, OffHasNoStep DEF SizesInv, S!TypeOK
  <2>5. S!TypeOK'
    BY <1>2, <2>1, <2>4 DEF SizesInv, S!TypeOK
  <2>6. /\ InMap' /\ S!OneMeasurement' /\ g \in sizing
        /\ \A p \in Repo : S!JobsOf(p)' = S!JobsOf(p)
        /\ \A h \in sizing \ {g} : h \in Worker /\ worker[h].repo \in Repo \ {worker[g].repo}
    BY <1>1, <2>1, <2>2, <2>3, <2>4, StaysInMap
  <2>7. Fresh'
    BY <1>2, <2>1, <2>2, <2>3, <2>6 DEF SizesInv, Fresh, S!At
  <2>8. S!SizeSettles'
    BY <1>2, <2>6 DEF SizesInv, S!SizeSettles
  <2>. QED
    BY <2>5, <2>6, <2>7, <2>8 DEF SizesInv
<1>4. CASE g \notin again
  <2>1. /\ worker' = [worker EXCEPT ![g] = S!Off]
        /\ sizing' = sizing \ {g} /\ again' = again \ {g}
    BY <1>4 DEF S!Loop, S!Stop
  <2>2. worker'[g] = S!Off /\ \A h \in Worker \ {g} : worker'[h] = worker[h]
    BY <2>1 DEF SizesInv, S!TypeOK
  <2>3. S!TypeOK'
    BY <1>2, <2>1 DEF SizesInv, S!TypeOK
  <2>4. InMap' /\ S!OneMeasurement'
    BY <2>1, <2>2 DEF SizesInv, InMap, S!OneMeasurement
  <2>5. g \in sizing /\ worker[g].repo \in Repo /\ \A h \in sizing : h \in Worker
    BY <1>1 DEF SizesInv, S!TypeOK, InMap, S!Busy
  <2>6. Fresh'
    BY <1>2, <2>1, <2>2, <2>5 DEF SizesInv, Fresh, S!At
  <2>7. calls[worker[g].repo] = 0 /\ worker[g].repo \notin excused =>
          stored[worker[g].repo] = written[worker[g].repo]
    BY <1>1, <1>4, <2>5 DEF SizesInv, Fresh, S!At
  <2>8. \A p \in Repo : S!JobsOf(p)' = {} => p = worker[g].repo \/ S!JobsOf(p) = {}
    BY <2>1, <2>2, <2>5 DEF S!JobsOf
  <2>9. S!SizeSettles'
    BY <1>2, <2>7, <2>8 DEF SizesInv, S!SizeSettles
  <2>. QED
    BY <2>3, <2>4, <2>6, <2>9 DEF SizesInv
<1>. QED
  BY <1>3, <1>4

-----------------------------------------------------------------------------
(* The backfill and restarts *)

\* What only moves the backfill on
LEMMA BackfillMoves ==
  ASSUME SizesInv, UNCHANGED <<S!diskVars, stored, worker, sizing, again, excused>>,
         backfill' \in {S!Off} \cup S!Listed \cup S!Fill
  PROVE  SizesInv'
BY DEF SizesInv, S!TypeOK, InMap, S!OneMeasurement, Fresh, S!SizeSettles, S!At, S!JobsOf, S!diskVars

LEMMA BackfillStep ==
  ASSUME SizesInv, S!ListUnmeasured \/ S!BackfillNext \/ S!BackfillWalk
  PROVE  SizesInv'
<1>1. CASE S!ListUnmeasured
  <2>1. backfill' \in S!Listed
    BY <1>1 DEF S!ListUnmeasured, S!NextOf, S!Listed
  <2>. QED
    BY <1>1, <2>1, BackfillMoves DEF S!ListUnmeasured
<1>2. CASE S!BackfillNext
  <2>1. backfill \in S!Listed
    BY <1>2 DEF S!BackfillNext, SizesInv, S!TypeOK, S!Off, S!Listed, S!Fill
  <2>2. backfill' \in {S!Off} \cup S!Fill
    BY <1>2, <2>1 DEF S!BackfillNext, SizesInv, S!TypeOK, S!Listed, S!Fill
  <2>. QED
    BY <1>2, <2>2, BackfillMoves DEF S!BackfillNext
<1>3. CASE S!BackfillWalk
  <2>1. backfill \in S!Fill
    <3>1. backfill.step = "walk" /\ backfill \in {S!Off} \cup S!Listed \cup S!Fill
      BY <1>3 DEF S!BackfillWalk, SizesInv, S!TypeOK
    <3>. QED
      BY <3>1 DEF S!Off, S!Listed, S!Fill
  <2>2. ASSUME NEW n \in backfill.size..written[backfill.repo]
        PROVE  [backfill EXCEPT !.step = "save", !.size = n] \in S!Fill
    <3>1. n \in Nat
      BY <2>1 DEF SizesInv, S!TypeOK, S!Fill
    <3>. QED
      BY <2>1, <3>1 DEF S!Fill
  <2>3. [step |-> "next", left |-> backfill.left] \in S!Listed
    BY <2>1 DEF S!Listed, S!Fill
  <2>4. \/ \E n \in backfill.size..written[backfill.repo] :
             backfill' = [backfill EXCEPT !.step = "save", !.size = n]
        \/ backfill' = [step |-> "next", left |-> backfill.left]
    BY <1>3 DEF S!BackfillWalk, S!NextOf
  <2>5. backfill' \in S!Listed \cup S!Fill
    BY <2>2, <2>3, <2>4
  <2>. QED
    BY <1>3, <2>5, BackfillMoves DEF S!BackfillWalk
<1>. QED
  BY <1>1, <1>2, <1>3

LEMMA BackfillSaveStep ==
  ASSUME SizesInv, S!BackfillSave
  PROVE  SizesInv'
<1>1. backfill \in S!Fill
  BY DEF S!BackfillSave, SizesInv, S!TypeOK, S!Off, S!Listed, S!Fill
<1>2. /\ stored' = [stored EXCEPT ![backfill.repo] = backfill.size]
      /\ UNCHANGED <<written, calls, worker, sizing, again>>
      /\ backfill' = [step |-> "next", left |-> backfill.left]
  BY DEF S!BackfillSave, S!NextOf, S!diskVars
<1>3. excused \subseteq excused' /\ excused' \subseteq excused \cup {backfill.repo}
  BY DEF S!BackfillSave
<1>4. backfill.repo \notin excused' => backfill.size = written[backfill.repo]
  BY DEF S!BackfillSave
<1>5. /\ stored' \in [Repo -> Nat \cup {S!NoSize}]
      /\ stored'[backfill.repo] = backfill.size
      /\ \A p \in Repo \ {backfill.repo} : stored'[p] = stored[p]
  BY <1>1, <1>2 DEF SizesInv, S!TypeOK, S!Fill
<1>6. backfill' \in S!Listed /\ backfill.repo \in Repo
  BY <1>1, <1>2 DEF S!Listed, S!Fill
<1>7. S!TypeOK'
  BY <1>2, <1>3, <1>5, <1>6 DEF SizesInv, S!TypeOK
<1>8. InMap' /\ S!OneMeasurement'
  BY <1>2 DEF SizesInv, InMap, S!OneMeasurement
<1>9. \A g \in sizing : worker[g].repo \in Repo
  BY DEF SizesInv, S!TypeOK, InMap, S!Busy
<1>10. Fresh'
  BY <1>2, <1>3, <1>4, <1>5, <1>9 DEF SizesInv, Fresh, S!At
<1>11. S!SizeSettles'
  BY <1>2, <1>3, <1>4, <1>5 DEF SizesInv, S!SizeSettles, S!JobsOf
<1>. QED
  BY <1>7, <1>8, <1>10, <1>11 DEF SizesInv

LEMMA RestartStep ==
  ASSUME SizesInv, S!Restart
  PROVE  SizesInv'
<1>1. S!TypeOK'
  BY DEF S!Restart, SizesInv, S!TypeOK
<1>2. InMap' /\ S!OneMeasurement' /\ Fresh'
  BY DEF S!Restart, InMap, S!OneMeasurement, Fresh
<1>3. \A r \in Repo \ excused' : r \notin excused /\ calls[r] = 0 /\ S!JobsOf(r) = {}
  BY DEF S!Restart, SizesInv, S!TypeOK
<1>4. S!SizeSettles'
  BY <1>3 DEF S!Restart, SizesInv, S!SizeSettles
<1>. QED
  BY <1>1, <1>2, <1>4 DEF SizesInv

LEMMA SizesStep == SizesInv /\ [S!Next]_(S!vars) => SizesInv'
<1>. SUFFICES ASSUME SizesInv, [S!Next]_(S!vars)
              PROVE  SizesInv'
  OBVIOUS
<1>1. ASSUME NEW r \in Repo, S!Write(r) \/ S!Recompute(r)
      PROVE  SizesInv'
  BY <1>1, WriteStep, RecomputeStep
<1>2. ASSUME NEW g \in Worker, S!Measure(g)
      PROVE  SizesInv'
  BY <1>2, ReadStep, DirSizeStep, SetSizeStep, MeasureFailsStep, MeasurePanicsStep, LoopStep
  DEF S!Measure
<1>3. CASE UNCHANGED S!vars
  BY <1>3, BackfillMoves DEF S!vars, S!diskVars, SizesInv, S!TypeOK
<1>. QED
  BY <1>1, <1>2, <1>3, BackfillStep, BackfillSaveStep, RestartStep DEF S!Next

\* Calls of Recompute that come while one of its goroutines measures a
\* repository never start a second such goroutine for it.
THEOREM OneAtATime == S!Spec => []S!OneMeasurement
<1>1. SizesInv => S!OneMeasurement
  BY DEF SizesInv
<1>. QED
  BY <1>1, SizesInit, SizesStep, PTL DEF S!Spec

\* The stored size settles on all that was written, whatever the order of
\* writes, calls, measurements, the backfill and restarts.
THEOREM SizesSettle == S!Spec => []S!SizeSettles
<1>1. SizesInv => S!SizeSettles
  BY DEF SizesInv
<1>. QED
  BY <1>1, SizesInit, SizesStep, PTL DEF S!Spec

-----------------------------------------------------------------------------
(***************************************************************************)
(* Offers.  One offer of the repository at most is open, under the owner   *)
(* that the row has, unless it slipped in while a move was about to        *)
(* commit; and what a recipient was shown is the owner that the offer was  *)
(* made under.                                                             *)
(***************************************************************************)
CONSTANTS User, Org, MaxOffers, Handler
VARIABLES holder, live, staff, offer, lapsed, handler, made, stray, ended

O == INSTANCE TransferOffers

LEMMA SameCardinality ==
  ASSUME NEW X
  PROVE  O!Cardinality(X) = Cardinality(X)
BY DEF O!Cardinality, Cardinality

OneOffer == \A o, p \in offer : o = p

\* The offer that is open has an id that was given out, and not ended since.
OpenOffer == \A o \in offer : o.id \in DOMAIN made /\ o.id \notin ended

\* The open offer was made under the owner, or came in between.
UnderOwner == \A o \in offer : o.id \notin stray => made[o.id] = holder

\* A move that is about to commit takes along every offer that didn't come in
\* between.
MovesEndOffers ==
  \A h \in O!Committing : \A o \in offer : o.id \notin stray => o \in handler[h].ends

\* What a recipient was shown is the owner that the offer was made under.
ShownIsMade ==
  \A h \in Handler :
    handler[h].op \in {"look", "accept"} =>
      /\ handler[h].row.id \in DOMAIN made
      /\ handler[h].row.id \notin stray => made[handler[h].row.id] = handler[h].shown

OffersInv ==
  /\ O!TypeOK
  /\ OneOffer /\ OpenOffer /\ UnderOwner /\ MovesEndOffers /\ ShownIsMade

\* The kinds of requests, by what they are about to do
LEMMA Kinds ==
  ASSUME O!TypeOK, NEW h \in Handler
  PROVE  /\ handler[h].op \in {"idle", "offer", "insert", "move", "commit", "look", "accept", "end"}
         /\ handler[h].op = "idle" => handler[h] = O!Idle
         /\ handler[h].op \in {"offer", "insert"} => handler[h] \in O!Asked
         /\ handler[h].op \in {"move", "commit"} => handler[h] \in O!Moving
         /\ handler[h].op \in {"look", "accept"} => handler[h] \in O!Taking
         /\ handler[h].op = "end" => handler[h] \in O!Ending
BY DEF O!TypeOK, O!Idle, O!Asked, O!Moving, O!Taking, O!Ending

\* A set that holds one offer at most has a cardinality that says so.
LEMMA AtMostOne ==
  ASSUME NEW X, \A o, p \in X : o = p
  PROVE  O!Cardinality(X) <= 1 /\ IsFiniteSet(X)
<1>1. CASE X = {}
  BY <1>1, SameCardinality, FS_EmptySet
<1>2. CASE X # {}
  <2>1. PICK o : X = {o}
    BY <1>2
  <2>. QED
    BY <2>1, SameCardinality, FS_Singleton
<1>. QED
  BY <1>1, <1>2

\* A request that is not idle, and no other, goes on to r.
LEMMA Goes ==
  ASSUME O!TypeOK, NEW h \in Handler, NEW r, O!Goto(h, r),
         r \in {O!Idle} \cup O!Asked \cup O!Moving \cup O!Taking \cup O!Ending
  PROVE  /\ handler'[h] = r /\ \A g \in Handler \ {h} : handler'[g] = handler[g]
         /\ handler' \in [Handler -> {O!Idle} \cup O!Asked \cup O!Moving \cup O!Taking \cup O!Ending]
BY DEF O!TypeOK, O!Goto

\* Requests that come, and those that give up, change nothing but themselves.
LEMMA BeginStep ==
  ASSUME OffersInv, NEW h \in Handler,
         NEW r \in {O!Idle} \cup O!Asked \cup O!Moving \cup O!Taking \cup O!Ending, O!Goto(h, r),
         UNCHANGED <<holder, live, staff, offer, lapsed, made, stray, ended>>,
         r.op # "commit",
         r.op \in {"look", "accept"} =>
           /\ r.row.id \in DOMAIN made
           /\ r.row.id \notin stray => made[r.row.id] = r.shown
  PROVE  OffersInv'
<1>1. /\ handler'[h] = r /\ \A g \in Handler \ {h} : handler'[g] = handler[g]
      /\ handler' \in [Handler -> {O!Idle} \cup O!Asked \cup O!Moving \cup O!Taking \cup O!Ending]
  BY Goes DEF OffersInv
<1>2. O!TypeOK'
  BY <1>1 DEF OffersInv, O!TypeOK
<1>3. OneOffer' /\ OpenOffer' /\ UnderOwner'
  BY DEF OffersInv, OneOffer, OpenOffer, UnderOwner
<1>4. MovesEndOffers'
  BY <1>1 DEF OffersInv, MovesEndOffers, O!Committing
<1>5. ShownIsMade'
  BY <1>1 DEF OffersInv, ShownIsMade
<1>. QED
  BY <1>2, <1>3, <1>4, <1>5 DEF OffersInv

LEMMA AskStep ==
  ASSUME OffersInv, NEW h \in Handler, O!Ask(h)
  PROVE  OffersInv'
<1>. USE DEF O!Begin, O!historyVars
<1>1. ASSUME NEW by \in User, NEW to \in User, O!AskOffer(h, by, to)
      PROVE  OffersInv'
  <2>. PICK r : r = [op |-> "offer", by |-> by, to |-> to, under |-> holder]
    OBVIOUS
  <2>1. r \in O!Asked /\ r.op = "offer"
    BY DEF O!Asked, OffersInv, O!TypeOK
  <2>. QED
    BY <1>1, <2>1, BeginStep DEF O!AskOffer
<1>2. ASSUME NEW by \in User, NEW to \in O!Holder, O!AskMove(h, by, to)
      PROVE  OffersInv'
  <2>. PICK r : r = [op |-> "move", to |-> to, under |-> holder, ends |-> {}]
    OBVIOUS
  <2>1. r \in O!Moving /\ r.op = "move"
    BY DEF O!Moving, OffersInv, O!TypeOK
  <2>. QED
    BY <1>2, <2>1, BeginStep DEF O!AskMove
<1>3. CASE O!AskEnd(h)
  <2>1. PICK o \in O!Pending : O!Begin(h, [op |-> "end", row |-> o])
    BY <1>3 DEF O!AskEnd
  <2>. PICK r : r = [op |-> "end", row |-> o]
    OBVIOUS
  <2>2. r \in O!Ending /\ r.op = "end"
    BY <2>1 DEF O!Ending, O!Pending, OffersInv, O!TypeOK
  <2>. QED
    BY <2>1, <2>2, BeginStep
<1>4. CASE O!AskAccept(h)
  <2>1. PICK o \in O!Pending : O!Begin(h, [op |-> "look", row |-> o, shown |-> holder, under |-> holder])
    BY <1>4 DEF O!AskAccept
  <2>. PICK r : r = [op |-> "look", row |-> o, shown |-> holder, under |-> holder]
    OBVIOUS
  <2>2. o \in offer
    BY DEF O!Pending
  <2>3. r \in O!Taking /\ r.op = "look" /\ r.row = o /\ r.shown = holder
    BY <2>2 DEF O!Taking, OffersInv, O!TypeOK
  <2>4. o.id \in DOMAIN made /\ (o.id \notin stray => made[o.id] = holder)
    BY <2>2 DEF OffersInv, OpenOffer, UnderOwner
  <2>. QED
    BY <2>1, <2>3, <2>4, BeginStep
<1>. QED
  BY <1>1, <1>2, <1>3, <1>4 DEF O!Ask

\* An offer replaces the one there was, under an id of its own.
LEMMA CommitCreateStep ==
  ASSUME MaxOffers \in Nat, OffersInv, NEW h \in Handler, O!CommitCreate(h)
  PROVE  OffersInv'
<1>. PICK n : n = Len(made) + 1
  OBVIOUS
<1>0. /\ O!Insert(h) /\ UNCHANGED <<holder, live, staff>>
      /\ \/ stray' = stray \cup {Len(made')}
         \/ stray' = stray /\ O!Committing = {} /\ holder = handler[h].under
  BY DEF O!CommitCreate
<1>1. handler[h] \in O!Asked
  BY Kinds DEF O!CommitCreate, OffersInv
<1>2. /\ made' = Append(made, handler[h].under) /\ Len(made') = n
      /\ made' \in Seq(O!Holder) /\ n \in 1..MaxOffers /\ Len(made') <= MaxOffers
      /\ DOMAIN made = 1..Len(made) /\ DOMAIN made' = 1..n /\ Len(made) \in Nat
      /\ made'[n] = handler[h].under /\ \A i \in DOMAIN made : made'[i] = made[i]
  <2>1. made' = Append(made, handler[h].under) /\ Len(made) < MaxOffers
    BY <1>0 DEF O!Insert
  <2>2. made \in Seq(O!Holder) /\ handler[h].under \in O!Holder
    BY <1>1 DEF OffersInv, O!TypeOK, O!Asked
  <2>. QED
    BY <2>1, <2>2
<1>3. /\ offer' = {[id |-> n, by |-> handler[h].by, to |-> handler[h].to]}
      /\ UNCHANGED <<holder, live, staff>> /\ lapsed' = FALSE
      /\ ended' = ended \cup O!Ids(offer)
  BY <1>0, <1>2 DEF O!Insert
<1>4. /\ handler'[h] = O!Idle /\ \A g \in Handler \ {h} : handler'[g] = handler[g]
      /\ handler' \in [Handler -> {O!Idle} \cup O!Asked \cup O!Moving \cup O!Taking \cup O!Ending]
  BY <1>0, Goes DEF O!Insert, OffersInv
<1>5. n \notin DOMAIN made /\ n \notin ended'
  <2>1. n \notin DOMAIN made
    BY <1>2
  <2>. QED
    BY <1>3, <2>1 DEF OffersInv, O!TypeOK, OpenOffer, O!Ids
<1>6. \A o \in offer' : o.id = n
  BY <1>3
<1>7. O!TypeOK'
  <2>1. offer' \subseteq O!Row
    BY <1>1, <1>2, <1>3 DEF O!Row, O!Asked
  <2>2. O!Cardinality(offer') <= 1
    BY <1>3, AtMostOne
  <2>3. ended' \subseteq DOMAIN made' /\ stray' \subseteq DOMAIN made'
    BY <1>0, <1>2, <1>3 DEF OffersInv, O!TypeOK, OpenOffer, O!Ids
  <2>. QED
    BY <1>2, <1>3, <1>4, <2>1, <2>2, <2>3 DEF OffersInv, O!TypeOK
<1>8. OneOffer' /\ OpenOffer'
  BY <1>2, <1>3, <1>5, <1>6 DEF OneOffer, OpenOffer
<1>9. UnderOwner'
  BY <1>0, <1>2, <1>3, <1>6 DEF UnderOwner
<1>10. MovesEndOffers'
  BY <1>0, <1>2, <1>4, <1>6 DEF MovesEndOffers, O!Committing, O!Idle
<1>11. ShownIsMade'
  <2>1. stray' \cap DOMAIN made \subseteq stray /\ stray \subseteq stray'
    BY <1>0, <1>2, <1>5
  <2>. QED
    BY <1>2, <1>4, <2>1 DEF OffersInv, ShownIsMade, O!Idle
<1>. QED
  BY <1>7, <1>8, <1>9, <1>10, <1>11 DEF OffersInv

LEMMA CreateStep ==
  ASSUME OffersInv, NEW h \in Handler, O!Create(h)
  PROVE  OffersInv'
<1>1. handler[h] \in O!Asked /\ handler[h].op = "offer"
  BY Kinds DEF O!Create, OffersInv
<1>. PICK r : r = [handler[h] EXCEPT !.op = "insert"]
  OBVIOUS
<1>2. r \in O!Asked /\ r.op = "insert"
  BY <1>1 DEF O!Asked
<1>3. O!Goto(h, r)
  BY DEF O!Create, O!Goto, OffersInv, O!TypeOK
<1>. QED
  BY <1>2, <1>3, BeginStep DEF O!Create, O!historyVars

\* A move that comes to its commit takes all the offers there are.
LEMMA UpdateOwnerStep ==
  ASSUME OffersInv, NEW h \in Handler, O!UpdateOwner(h)
  PROVE  OffersInv'
<1>1. handler[h] \in O!Moving /\ handler[h].op = "move"
  BY Kinds DEF O!UpdateOwner, OffersInv
<1>. PICK r : r = [handler[h] EXCEPT !.op = "commit", !.ends = offer]
  OBVIOUS
<1>2. r \in O!Moving /\ r.op = "commit" /\ r.ends = offer
  BY <1>1 DEF O!Moving, OffersInv, O!TypeOK
<1>3. O!Goto(h, r) /\ O!Committing = {}
  BY DEF O!UpdateOwner, O!OffersThatEnd, O!Goto, OffersInv, O!TypeOK
<1>4. /\ handler'[h] = r /\ \A g \in Handler \ {h} : handler'[g] = handler[g]
      /\ handler' \in [Handler -> {O!Idle} \cup O!Asked \cup O!Moving \cup O!Taking \cup O!Ending]
  BY <1>2, <1>3, Goes DEF OffersInv
<1>5. UNCHANGED <<holder, live, staff, offer, lapsed, made, stray, ended>>
  BY DEF O!UpdateOwner, O!historyVars
<1>6. O!TypeOK'
  BY <1>4, <1>5 DEF OffersInv, O!TypeOK
<1>7. OneOffer' /\ OpenOffer' /\ UnderOwner'
  BY <1>5 DEF OffersInv, OneOffer, OpenOffer, UnderOwner
<1>8. MovesEndOffers'
  BY <1>2, <1>3, <1>4, <1>5 DEF OffersInv, MovesEndOffers, O!Committing
<1>9. ShownIsMade'
  BY <1>2, <1>4, <1>5 DEF OffersInv, ShownIsMade
<1>. QED
  BY <1>6, <1>7, <1>8, <1>9 DEF OffersInv

\* Offers go, with their row or before it, and the owner changes or not: what
\* is left was made under the owner.
LEMMA OffersGo ==
  ASSUME OffersInv, NEW h \in Handler, O!Goto(h, O!Idle),
         NEW gone, O!Remove(gone),
         UNCHANGED <<live, staff, made, stray>>, holder' \in O!Holder,
         \A o \in offer \ gone : o.id \notin stray => holder' = holder
  PROVE  OffersInv'
<1>0. ended' = ended \cup O!Ids(offer \cap gone) /\ UNCHANGED <<live, staff, made, stray>>
  BY DEF O!Remove
<1>1. /\ handler'[h] = O!Idle /\ \A g \in Handler \ {h} : handler'[g] = handler[g]
      /\ handler' \in [Handler -> {O!Idle} \cup O!Asked \cup O!Moving \cup O!Taking \cup O!Ending]
  BY Goes DEF OffersInv
<1>2. offer' = offer \ gone /\ lapsed' \in BOOLEAN
  BY DEF O!Remove, OffersInv, O!TypeOK
<1>3. O!TypeOK'
  <2>1. O!Cardinality(offer') <= 1
    BY <1>2, AtMostOne DEF OffersInv, OneOffer
  <2>2. ended' \subseteq DOMAIN made
    BY <1>0 DEF OffersInv, O!TypeOK, OpenOffer, O!Ids
  <2>. QED
    BY <1>1, <1>2, <2>1, <2>2 DEF OffersInv, O!TypeOK
<1>4. OneOffer' /\ UnderOwner'
  BY <1>2 DEF OffersInv, OneOffer, UnderOwner
<1>7. OpenOffer'
  BY <1>0, <1>2 DEF OffersInv, OneOffer, OpenOffer, O!Ids
<1>5. MovesEndOffers'
  BY <1>1, <1>2 DEF OffersInv, MovesEndOffers, O!Committing, O!Idle
<1>6. ShownIsMade'
  BY <1>1 DEF OffersInv, ShownIsMade, O!Idle
<1>. QED
  BY <1>3, <1>4, <1>5, <1>6, <1>7 DEF OffersInv

LEMMA CommitOwnerStep ==
  ASSUME OffersInv, NEW h \in Handler, O!CommitOwner(h)
  PROVE  OffersInv'
<1>1. handler[h] \in O!Moving /\ h \in O!Committing
  BY Kinds DEF O!CommitOwner, O!Committing, OffersInv
<1>. PICK gone : gone = handler[h].ends
  OBVIOUS
<1>2. /\ O!Remove(gone) /\ O!Goto(h, O!Idle) /\ holder' \in O!Holder
      /\ UNCHANGED <<live, staff, made, stray>>
  BY <1>1 DEF O!CommitOwner, O!Moving
<1>3. \A o \in offer \ gone : o.id \notin stray => holder' = holder
  BY <1>1, <1>2 DEF OffersInv, MovesEndOffers
<1>. QED
  BY <1>2, <1>3, OffersGo

LEMMA DeleteStep ==
  ASSUME OffersInv, NEW h \in Handler, O!Delete(h)
  PROVE  OffersInv'
<1>. PICK o : o = handler[h].row
  OBVIOUS
<1>. PICK gone : gone = {o}
  OBVIOUS
<1>1. /\ o \in offer /\ O!Remove(gone) /\ O!Goto(h, O!Idle)
      /\ UNCHANGED <<holder, live, staff, made, stray>>
  BY DEF O!Delete
<1>2. holder' \in O!Holder /\ offer \ gone = {}
  BY <1>1 DEF OffersInv, O!TypeOK, OneOffer
<1>. QED
  BY <1>1, <1>2, OffersGo

LEMMA AcceptStep ==
  ASSUME OffersInv, NEW h \in Handler, O!Accept(h)
  PROVE  OffersInv'
<1>. PICK o : o = handler[h].row
  OBVIOUS
<1>. PICK gone : gone = {o}
  OBVIOUS
<1>1. /\ o \in offer /\ O!Remove(gone) /\ O!Goto(h, O!Idle) /\ holder' = o.to
      /\ UNCHANGED <<live, staff, made, stray>>
  BY DEF O!Accept, O!StillOffered
<1>2. holder' \in O!Holder /\ offer \ gone = {}
  BY <1>1 DEF OffersInv, O!TypeOK, OneOffer, O!Row, O!Holder
<1>. QED
  BY <1>1, <1>2, OffersGo

LEMMA ReadRepoStep ==
  ASSUME OffersInv, NEW h \in Handler, O!ReadRepo(h)
  PROVE  OffersInv'
<1>1. handler[h] \in O!Taking /\ handler[h].op = "look"
  BY Kinds DEF O!ReadRepo, OffersInv
<1>. PICK r : r = [handler[h] EXCEPT !.op = "accept", !.under = holder]
  OBVIOUS
<1>2. r \in O!Taking /\ r.op = "accept" /\ r.row = handler[h].row /\ r.shown = handler[h].shown
  BY <1>1 DEF O!Taking, OffersInv, O!TypeOK
<1>3. O!Goto(h, r)
  BY DEF O!ReadRepo, O!Goto, OffersInv, O!TypeOK
<1>4. /\ r.row.id \in DOMAIN made
      /\ r.row.id \notin stray => made[r.row.id] = r.shown
  BY <1>1, <1>2 DEF OffersInv, ShownIsMade
<1>. QED
  BY <1>2, <1>3, <1>4, BeginStep DEF O!ReadRepo, O!historyVars

\* Every step keeps the invariant.
LEMMA OffersStep ==
  ASSUME MaxOffers \in Nat, OffersInv, [O!Next]_(O!vars)
  PROVE  OffersInv'
<1>1. ASSUME NEW h \in Handler, O!Answer(h) PROVE OffersInv'
  <2>1. CASE O!GiveUp(h)
    <3>1. O!Idle.op = "idle"
      BY DEF O!Idle
    <3>. QED
      BY <2>1, <3>1, BeginStep DEF O!GiveUp, O!historyVars
  <2>. QED
    BY <1>1, <2>1, CreateStep, CommitCreateStep, UpdateOwnerStep, CommitOwnerStep, DeleteStep,
       ReadRepoStep, AcceptStep DEF O!Answer
<1>2. CASE O!Expire \/ O!SoftDelete \/ (\E o \in Org : O!ChangeStaff(o)) \/ UNCHANGED O!vars
  <2>1. /\ UNCHANGED <<holder, offer, handler, made, stray, ended>>
        /\ live' \in BOOLEAN /\ lapsed' \in BOOLEAN /\ staff' \in [Org -> SUBSET User]
    BY <1>2 DEF O!Expire, O!SoftDelete, O!ChangeStaff, O!vars, O!historyVars, OffersInv, O!TypeOK
  <2>. QED
    BY <2>1 DEF OffersInv, O!TypeOK, OneOffer, OpenOffer, UnderOwner, MovesEndOffers, O!Committing, ShownIsMade
<1>. QED
  BY <1>1, <1>2, AskStep DEF O!Next

LEMMA OffersInit ==
  ASSUME MaxOffers \in Nat, O!Init
  PROVE  OffersInv
<1>1. O!Cardinality(offer) <= 1
  BY AtMostOne DEF O!Init
<1>2. O!TypeOK
  <2>1. made \in Seq(O!Holder) /\ Len(made) <= MaxOffers
    BY DEF O!Init
  <2>. QED
    BY <1>1, <2>1 DEF O!Init, O!TypeOK, O!Holder
<1>. QED
  BY <1>2 DEF OffersInv, O!Init, OneOffer, OpenOffer, UnderOwner, MovesEndOffers, O!Committing, ShownIsMade, O!Idle

\* An acceptance is a step of its request and of no other.
LEMMA OnlyAcceptAccepts ==
  ASSUME O!TypeOK, [O!Next]_(O!vars), NEW h \in Handler, O!Accepts(h)
  PROVE  O!Accept(h)
<1>1. handler[h].op = "accept" /\ handler'[h] = O!Idle /\ holder' # holder /\ handler[h] # O!Idle
  BY DEF O!Accepts, O!Idle
<1>2. PICK g \in Handler : O!CommitOwner(g) \/ O!Accept(g)
  <2>1. ASSUME NEW g \in Handler, O!Ask(g) PROVE holder' = holder
    BY <2>1 DEF O!Ask, O!AskOffer, O!AskMove, O!AskEnd, O!AskAccept, O!Begin
  <2>2. ASSUME NEW g \in Handler, O!Answer(g), ~ O!CommitOwner(g), ~ O!Accept(g) PROVE holder' = holder
    BY <2>2 DEF O!Answer, O!Create, O!CommitCreate, O!UpdateOwner, O!Delete,
                O!ReadRepo, O!GiveUp
  <2>3. CASE O!Expire \/ O!SoftDelete \/ (\E o \in Org : O!ChangeStaff(o)) \/ UNCHANGED O!vars
    <3>1. holder' = holder
      BY <2>3 DEF O!Expire, O!SoftDelete, O!ChangeStaff, O!vars
    <3>. QED
      BY <1>1, <3>1
  <2>. QED
    BY <1>1, <2>1, <2>2, <2>3 DEF O!Next
<1>3. g = h
  BY <1>1, <1>2 DEF O!CommitOwner, O!Accept, O!Goto, O!TypeOK
<1>. QED
  BY <1>1, <1>2, <1>3 DEF O!CommitOwner

LEMMA AcceptsAsPromised ==
  ASSUME OffersInv, [O!Next]_(O!vars)
  PROVE  O!AcceptsWhatIsOffered /\ O!AcceptsWhatWasShown
<1>. SUFFICES ASSUME NEW h \in Handler, O!Accepts(h)
             PROVE  /\ handler[h].row.id \notin ended
                    /\ handler[h].row.id \notin stray =>
                         made[handler[h].row.id] = holder /\ handler[h].shown = holder
  BY DEF O!AcceptsWhatIsOffered, O!AcceptsWhatWasShown
<1>1. O!Accept(h)
  BY OnlyAcceptAccepts DEF OffersInv
<1>2. handler[h].op = "accept" /\ handler[h].row \in offer
  BY <1>1 DEF O!Accept, O!StillOffered
<1>. QED
  BY <1>2 DEF OffersInv, OpenOffer, UnderOwner, ShownIsMade

LEMMA OffersAlways ==
  ASSUME MaxOffers \in Nat
  PROVE  O!Spec => []OffersInv
<1>1. O!Init => OffersInv
  BY OffersInit
<1>2. OffersInv /\ [O!Next]_(O!vars) => OffersInv'
  BY OffersStep
<1>. QED
  BY <1>1, <1>2, PTL DEF O!Spec

\* No request accepts an offer that was cancelled, declined, replaced or
\* accepted before.
THEOREM EndedOffersStayEnded ==
  ASSUME MaxOffers \in Nat
  PROVE  O!Spec => O!EndedOffersMoveNothing
<1>1. OffersInv /\ [O!Next]_(O!vars) => [O!AcceptsWhatIsOffered]_(O!vars)
  BY AcceptsAsPromised
<1>. QED
  BY <1>1, OffersAlways, PTL DEF O!Spec, O!EndedOffersMoveNothing

\* An accepted offer moves the repository from the owner that its recipient
\* was shown and it was made under.
THEOREM AcceptedAsShown ==
  ASSUME MaxOffers \in Nat
  PROVE  O!Spec => O!OffersStayWithTheirOwner
<1>1. OffersInv /\ [O!Next]_(O!vars) => [O!AcceptsWhatWasShown]_(O!vars)
  BY AcceptsAsPromised
<1>. QED
  BY <1>1, OffersAlways, PTL DEF O!Spec, O!OffersStayWithTheirOwner
=============================================================================
