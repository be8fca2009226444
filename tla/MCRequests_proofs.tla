------------------------- MODULE MCRequests_proofs -------------------------
(***************************************************************************)
(* Theorems about the services that MCRequests composes.  The directories  *)
(* of repositories come first, with all their proofs; those of the links   *)
(* and of the device logins are in RequestHandlers_proofs (RH).  All of    *)
(* them hold of every behaviour of RequestsSpec, for any values of the     *)
(* constants.                                                              *)
(***************************************************************************)
EXTENDS MCRequests, TLAPS

-----------------------------------------------------------------------------
(* The invariant of the directories *)

\* r's git data lies at p and nowhere else.
LivesAt(r, p) == \A x \in Path : dir["git"][x] = r <=> x = p

Nowhere(r) == \A x \in Path : dir["git"][x] # r

\* What a request may move or remove: all but a page save owns the
\* repositories it has left.
Owns(q) == IF req[q] = Idle THEN {} ELSE IF req[q].op = "save" THEN {} ELSE req[q].left

Exclusive == \A p, q \in Request : p # q => Owns(p) \cap Owns(q) = {}

\* Where the git data of a repository lies that no request owns
Resting(r) ==
  /\ row[r] = "live" => LivesAt(r, <<owner[r], Live>>)
  /\ row[r] = "deleted" => stamp[r] > 0 /\ LivesAt(r, <<owner[r], stamp[r]>>)
  /\ row[r] \in {"none", "gone"} => Nowhere(r)

Rest == \A r \in Repo : (\A q \in Request : r \notin Owns(q)) => Resting(r)

\* The same of a repository that a create owns, step by step,
CreatePlace(q) ==
  /\ req[q].left = {req[q].repo}
  /\ req[q].dst[2] = Live
  /\ Nowhere(req[q].repo)
  /\ req[q].step \in {"lstat", "mkdir", "insert", "fill", "dropRow", "removeAll"}
  /\ req[q].step \in {"lstat", "mkdir", "insert"} => row[req[q].repo] = "none"
  /\ req[q].step \in {"fill", "dropRow"} =>
       row[req[q].repo] = "live" /\ owner[req[q].repo] = req[q].dst[1]
  /\ req[q].step = "removeAll" => row[req[q].repo] \in {"none", "gone"}

\* a delete, which aims at the copy of its second,
DeletePlace(q) ==
  /\ row[req[q].repo] = "live"
  /\ req[q].src = <<owner[req[q].repo], Live>>
  /\ req[q].dst[1] = owner[req[q].repo] /\ req[q].dst[2] > 0

\* a restore, which found its copy at the second of its row,
RestorePlace(q) ==
  /\ row[req[q].repo] = "deleted"
  /\ req[q].src = <<owner[req[q].repo], stamp[req[q].repo]>> /\ req[q].src[2] > 0
  /\ req[q].dst = <<owner[req[q].repo], Live>>

\* a transfer,
TransferPlace(q) ==
  /\ row[req[q].repo] = "live"
  /\ req[q].src = <<owner[req[q].repo], Live>>
  /\ req[q].dst[1] # owner[req[q].repo] /\ req[q].dst[2] = Live

\* any of these three,
MovePlace(q) ==
  /\ req[q].left = {req[q].repo}
  /\ req[q].step \in {"look", "git", "wiki", "update", "revert"}
  /\ LivesAt(req[q].repo, IF "git" \in req[q].moved THEN req[q].dst ELSE req[q].src)
  /\ req[q].step \in {"look", "git"} => req[q].moved = {}
  /\ req[q].step \in {"wiki", "update"} => "git" \in req[q].moved
  /\ req[q].step = "wiki" => "wiki" \notin req[q].moved
  /\ req[q].op = "delete" => DeletePlace(q)
  /\ req[q].op = "restore" => RestorePlace(q)
  /\ req[q].op = "move" => TransferPlace(q)

\* and a purge: what it has yet to remove lies where the rows said.
PurgePlace(q) ==
  /\ req[q].step \in {"copy", "stranded", "held", "remove"}
  /\ req[q].src = <<owner[req[q].repo], stamp[req[q].repo]>> /\ req[q].dst[2] = Live
  /\ \A x \in req[q].left :
       /\ row[x] = "gone"
       /\ x = req[q].repo /\ req[q].step # "copy" => Nowhere(x)
       /\ x # req[q].repo \/ req[q].step = "copy" =>
            stamp[x] > 0 /\ LivesAt(x, <<owner[x], stamp[x]>>)

Place(q) ==
  req[q] # Idle =>
    /\ req[q].op = "save" => req[q].step = "init" /\ req[q].dst[2] = Live
    /\ req[q].op = "create" => CreatePlace(q)
    /\ req[q].op \in {"delete", "restore", "move"} => MovePlace(q)
    /\ req[q].op = "purge" => PurgePlace(q)

Places == \A q \in Request : Place(q)

\* A create that has claimed its name and not filled it
Claims(q) ==
  /\ req[q] # Idle /\ req[q].op = "create"
  /\ req[q].step \in {"insert", "fill", "dropRow", "removeAll"}

\* Empty directories are claims, one each.
Claimed ==
  /\ \A q \in Request : Claims(q) => dir["git"][req[q].dst] = Empty
  /\ \A p, q \in Request : Claims(p) /\ Claims(q) /\ req[p].dst = req[q].dst => p = q
  /\ \A x \in Path : dir["git"][x] = Empty => \E q \in Request : Claims(q) /\ req[q].dst = x

Does(q, op) == req[q] # Idle /\ req[q].op = op

\* Nothing takes the place of a copy while it is being restored,
GoesBack ==
  \A q \in Request :
    Does(q, "restore") /\ "git" \in req[q].moved => dir["git"][req[q].src] = NoDir

\* because a wiki at a copy's path has its git there, or is just being restored
\* after it: a delete that finds its git's place free finds its wiki's free, too,
\* and while it has moved its git alone no wiki comes there.
Wikis ==
  /\ \A q \in Request :
       Does(q, "restore") /\ req[q].step = "update" => dir["wiki"][req[q].src] = NoDir
  /\ \A q \in Request :
       Does(q, "delete") /\ req[q].moved = {"git"} => dir["wiki"][req[q].dst] = NoDir
  /\ \A x \in Path : x[2] > 0 /\ dir["wiki"][x] # NoDir =>
       \/ dir["git"][x] # NoDir
       \/ \E q \in Request : Does(q, "restore") /\ "git" \in req[q].moved /\ req[q].src = x

Settled == Exclusive /\ Rest /\ Places /\ Claimed /\ GoesBack /\ Wikis

IInv == TypeOK /\ (misplaced = {} => Settled)

-----------------------------------------------------------------------------
(* What a request's record becomes *)

Steps == {"lstat", "mkdir", "insert", "fill", "dropRow", "removeAll", "init", "look",
          "git", "wiki", "update", "revert", "copy", "stranded", "held", "remove"}

Ops == {"create", "save", "delete", "restore", "move", "purge"}

Requests ==
  /\ req \in [Request -> {Idle} \cup Job]
  /\ \A q \in Request : req[q] # Idle => req[q].repo \in req[q].left

OthersWait(q) == \A p \in Request : p # q => req'[p] = req[p]

LEMMA IdleIsNoJob ==
  \A j \in Job :
    /\ j # Idle
    /\ j \in [op : Ops, left : SUBSET Repo, repo : Repo, step : Steps,
              src : Path, dst : Path, moved : SUBSET Kind]
BY DEF Idle, Job, Steps, Ops

LEMMA StepFacts ==
  ASSUME Requests, NEW q \in Request, NEW s \in Steps, req[q] # Idle, SetStep(q, s)
  PROVE  /\ Requests' /\ OthersWait(q)
         /\ req'[q] # Idle /\ req'[q].step = s
         /\ req'[q].op = req[q].op /\ req'[q].left = req[q].left /\ req'[q].repo = req[q].repo
         /\ req'[q].src = req[q].src /\ req'[q].dst = req[q].dst /\ req'[q].moved = req[q].moved
<1>1. req[q] \in Job
  BY DEF Requests
<1> DEFINE j == [req[q] EXCEPT !.step = s]
<1>2. req' = [req EXCEPT ![q] = j]
  BY DEF SetStep
<1>3. /\ j \in Job
      /\ j.step = s /\ j.op = req[q].op /\ j.left = req[q].left /\ j.repo = req[q].repo
      /\ j.src = req[q].src /\ j.dst = req[q].dst /\ j.moved = req[q].moved
  BY <1>1 DEF Job, Steps
<1>4. j # Idle
  BY <1>3, IdleIsNoJob
<1>5. req'[q] = j /\ OthersWait(q) /\ req' \in [Request -> {Idle} \cup Job]
  <2> HIDE DEF j
  <2> QED BY <1>2, <1>3 DEF Requests, OthersWait
<1>6. Requests'
  <2> HIDE DEF j
  <2> QED BY <1>5, <1>3 DEF Requests, OthersWait
<1> QED
  <2> HIDE DEF j
  <2> QED BY <1>3, <1>4, <1>5, <1>6

LEMMA DoneFacts ==
  ASSUME Requests, NEW q \in Request, Done(q)
  PROVE  Requests' /\ OthersWait(q) /\ req'[q] = Idle
BY DEF Requests, Done, OthersWait

Begun(q, o, rs, r, s, from, to) ==
  /\ Requests' /\ OthersWait(q)
  /\ req[q] = Idle /\ req'[q] # Idle
  /\ req'[q].op = o /\ req'[q].left = rs /\ req'[q].repo = r /\ req'[q].step = s
  /\ req'[q].src = from /\ req'[q].dst = to /\ req'[q].moved = {}

LEMMA StartFacts ==
  ASSUME Requests, NEW q \in Request, NEW o \in Ops,
         NEW rs \in SUBSET Repo, NEW r \in rs, NEW s \in Steps, NEW from \in Path, NEW to \in Path,
         Start(q, o, rs, r, s, from, to)
  PROVE  Begun(q, o, rs, r, s, from, to)
<1> DEFINE j == [op |-> o, left |-> rs, repo |-> r, step |-> s, src |-> from, dst |-> to, moved |-> {}]
<1>1. j \in Job /\ j.op = o /\ j.left = rs /\ j.repo = r /\ j.step = s /\ j.src = from /\ j.dst = to /\ j.moved = {}
  BY DEF Job, Steps, Ops
<1>2. j # Idle
  BY <1>1, IdleIsNoJob
<1>3. req[q] = Idle /\ req' = [req EXCEPT ![q] = j]
  BY DEF Start
<1> HIDE DEF j
<1>4. req'[q] = j /\ OthersWait(q) /\ Requests'
  BY <1>1, <1>3 DEF Requests, OthersWait
<1> QED BY <1>1, <1>2, <1>3, <1>4 DEF Begun

LEMMA JobFacts ==
  ASSUME Requests, NEW q \in Request, NEW j \in Job, j.repo \in j.left,
         req' = [req EXCEPT ![q] = j]
  PROVE  Requests' /\ OthersWait(q) /\ req'[q] = j /\ req'[q] # Idle
BY IdleIsNoJob DEF Requests, OthersWait

LEMMA MovedFacts ==
  ASSUME Requests, NEW q \in Request, req[q] # Idle, NEW k \in Kind, NEW s \in Steps,
         req' = [req EXCEPT ![q].moved = @ \cup {k}, ![q].step = s]
  PROVE  /\ Requests' /\ OthersWait(q)
         /\ req'[q] # Idle /\ req'[q].step = s
         /\ req'[q].op = req[q].op /\ req'[q].left = req[q].left /\ req'[q].repo = req[q].repo
         /\ req'[q].src = req[q].src /\ req'[q].dst = req[q].dst
         /\ req'[q].moved = req[q].moved \cup {k}
<1> DEFINE j == [req[q] EXCEPT !.moved = @ \cup {k}, !.step = s]
<1>1. req[q] \in Job /\ req[q].repo \in req[q].left
  BY DEF Requests
<1>2. /\ j \in Job
      /\ j.step = s /\ j.op = req[q].op /\ j.left = req[q].left /\ j.repo = req[q].repo
      /\ j.src = req[q].src /\ j.dst = req[q].dst /\ j.moved = req[q].moved \cup {k}
  BY <1>1 DEF Job, Steps
<1>3. req' = [req EXCEPT ![q] = j]
  BY <1>1 DEF Requests
<1> HIDE DEF j
<1> QED BY <1>1, <1>2, <1>3, JobFacts

LEMMA RevertFacts ==
  ASSUME Requests, NEW q \in Request, req[q] # Idle, NEW k \in Kind,
         req' = [req EXCEPT ![q].moved = @ \ {k}]
  PROVE  /\ Requests' /\ OthersWait(q)
         /\ req'[q] # Idle /\ req'[q].step = req[q].step
         /\ req'[q].op = req[q].op /\ req'[q].left = req[q].left /\ req'[q].repo = req[q].repo
         /\ req'[q].src = req[q].src /\ req'[q].dst = req[q].dst
         /\ req'[q].moved = req[q].moved \ {k}
<1> DEFINE j == [req[q] EXCEPT !.moved = @ \ {k}]
<1>1. req[q] \in Job /\ req[q].repo \in req[q].left
  BY DEF Requests
<1>2. /\ j \in Job
      /\ j.step = req[q].step /\ j.op = req[q].op /\ j.left = req[q].left /\ j.repo = req[q].repo
      /\ j.src = req[q].src /\ j.dst = req[q].dst /\ j.moved = req[q].moved \ {k}
  BY <1>1 DEF Job, Steps
<1>3. req' = [req EXCEPT ![q] = j]
  BY <1>1 DEF Requests
<1> HIDE DEF j
<1> QED BY <1>1, <1>2, <1>3, JobFacts

LEMMA FoundFacts ==
  ASSUME Requests, NEW q \in Request, req[q] # Idle, NEW p \in Path,
         req' = [req EXCEPT ![q].src = p, ![q].step = "git"]
  PROVE  /\ Requests' /\ OthersWait(q)
         /\ req'[q] # Idle /\ req'[q].step = "git"
         /\ req'[q].op = req[q].op /\ req'[q].left = req[q].left /\ req'[q].repo = req[q].repo
         /\ req'[q].src = p /\ req'[q].dst = req[q].dst /\ req'[q].moved = req[q].moved
<1> DEFINE j == [req[q] EXCEPT !.src = p, !.step = "git"]
<1>1. req[q] \in Job /\ req[q].repo \in req[q].left
  BY DEF Requests
<1>2. /\ j \in Job
      /\ j.step = "git" /\ j.op = req[q].op /\ j.left = req[q].left /\ j.repo = req[q].repo
      /\ j.src = p /\ j.dst = req[q].dst /\ j.moved = req[q].moved
  BY <1>1 DEF Job, Steps
<1>3. req' = [req EXCEPT ![q] = j]
  BY <1>1 DEF Requests
<1> HIDE DEF j
<1> QED BY <1>1, <1>2, <1>3, JobFacts

GoesTo(q, rest, r, from, to) ==
  req' = [req EXCEPT ![q].left = rest, ![q].repo = r, ![q].step = "copy",
                     ![q].src = from, ![q].dst = to]

LEMMA NextFacts ==
  ASSUME Requests, NEW q \in Request, req[q] # Idle, NEW rest \in SUBSET Repo, NEW r \in rest,
         NEW from \in Path, NEW to \in Path,
         GoesTo(q, rest, r, from, to)
  PROVE  /\ Requests' /\ OthersWait(q)
         /\ req'[q] # Idle /\ req'[q].step = "copy"
         /\ req'[q].op = req[q].op /\ req'[q].left = rest /\ req'[q].repo = r
         /\ req'[q].src = from /\ req'[q].dst = to /\ req'[q].moved = req[q].moved
<1> DEFINE j == [req[q] EXCEPT !.left = rest, !.repo = r, !.step = "copy", !.src = from, !.dst = to]
<1>1. req[q] \in Job /\ req[q].repo \in req[q].left
  BY DEF Requests
<1>2. /\ j \in Job
      /\ j.step = "copy" /\ j.op = req[q].op /\ j.left = rest /\ j.repo = r
      /\ j.src = from /\ j.dst = to /\ j.moved = req[q].moved
  BY <1>1 DEF Job, Steps
<1>3. req' = [req EXCEPT ![q] = j]
  BY <1>1 DEF Requests, GoesTo
<1> HIDE DEF j
<1> QED BY <1>1, <1>2, <1>3, JobFacts

Dirs == dir \in [Kind -> [Path -> Holder]]

LEMMA Fields ==
  ASSUME Requests, NEW q \in Request, req[q] # Idle
  PROVE  /\ req[q] \in Job /\ req[q].left \in SUBSET Repo
         /\ req[q].repo \in Repo /\ req[q].repo \in req[q].left
         /\ req[q].src \in Path /\ req[q].dst \in Path /\ req[q].moved \in SUBSET Kind
BY DEF Requests, Job

LEMMA SetDir ==
  ASSUME Dirs, NEW k \in Kind, NEW p \in Path, NEW h \in Holder, dir' = [dir EXCEPT ![k][p] = h]
  PROVE  /\ Dirs' /\ dir'[k][p] = h
         /\ \A x \in Path : x # p => dir'[k][x] = dir[k][x]
         /\ \A l \in Kind : l # k => dir'[l] = dir[l]
BY DEF Dirs

LEMMA SetGit ==
  ASSUME Dirs, NEW p \in Path, NEW h \in Holder, dir' = [dir EXCEPT !["git"][p] = h]
  PROVE  /\ dir'["git"][p] = h
         /\ \A x \in Path : x # p => dir'["git"][x] = dir["git"][x]
         /\ \A l \in Kind : l # "git" => dir'[l] = dir[l]
BY DEF Dirs, Kind

LEMMA MoveDir ==
  ASSUME Dirs, NEW k \in Kind, NEW from \in Path, NEW to \in Path, from # to,
         dir' = [dir EXCEPT ![k][to] = dir[k][from], ![k][from] = NoDir]
  PROVE  /\ Dirs' /\ dir'[k][to] = dir[k][from] /\ dir'[k][from] = NoDir
         /\ \A x \in Path : x # from /\ x # to => dir'[k][x] = dir[k][x]
         /\ \A l \in Kind : l # k => dir'[l] = dir[l]
BY DEF Dirs, Holder

LEMMA PathIs == \A o \in Owner, t \in 0..MaxTime : <<o, t>> \in Path
BY DEF Path

LEMMA PathHas == \A p \in Path : p[1] \in Owner /\ p[2] \in 0..MaxTime /\ p = <<p[1], p[2]>>
BY DEF Path

LEMMA LiveIs == Live \in 0..MaxTime
BY DirsAssumption DEF Live

-----------------------------------------------------------------------------
(* Types *)

Types ==
  /\ row \in [Repo -> {"none", "live", "deleted", "gone"}]
  /\ owner \in [Repo -> Owner]
  /\ stamp \in [Repo -> 0..MaxTime]
  /\ Dirs /\ Requests
  /\ now \in 1..MaxTime /\ cutoff \in 0..MaxTime
  /\ misplaced \subseteq Repo

LEMMA TypesAreOK == TypeOK <=> Types
BY DEF TypeOK, Types, Dirs, Requests

LEMMA TypesNext == ASSUME Types, [Next]_vars PROVE Types'
<1> USE DirsAssumption
<1>1. CASE UNCHANGED vars
  BY <1>1 DEF Types, Dirs, Requests, vars, rowVars
<1>2. ASSUME NEW q \in Request, NEW r \in Repo, SavePage(q, r) PROVE Types'
  <2>1. Requests'
    BY <1>2, StartFacts, PathIs, LiveIs DEF SavePage, Types, Steps, Ops, Begun
  <2> QED BY <1>2, <2>1 DEF SavePage, Types, Dirs, rowVars
<1>3. ASSUME NEW q \in Request, NEW r \in Repo, Delete(q, r) PROVE Types'
  <2>1. <<owner[r], Live>> \in Path /\ <<owner[r], now>> \in Path
    BY PathIs, LiveIs DEF Types
  <2>2. Requests'
    BY <1>3, <2>1, StartFacts DEF Delete, Types, Steps, Ops, Begun
  <2> QED BY <1>3, <2>2 DEF Delete, Types, Dirs, rowVars
<1>4. ASSUME NEW q \in Request, NEW r \in Repo, Restore(q, r) PROVE Types'
  <2>1. Requests'
    BY <1>4, StartFacts, PathIs, LiveIs DEF Restore, Types, Steps, Ops, Begun
  <2> QED BY <1>4, <2>1 DEF Restore, Types, Dirs, rowVars
<1>5. ASSUME NEW q \in Request, NEW r \in Repo, NEW o \in Owner, Create(q, r, o) PROVE Types'
  <2>1. Requests'
    BY <1>5, StartFacts, PathIs, LiveIs DEF Create, Types, Steps, Ops, Begun
  <2> QED BY <1>5, <2>1 DEF Create, Types, Dirs, rowVars
<1>6. ASSUME NEW q \in Request, NEW r \in Repo, NEW o \in Owner, Move(q, r, o) PROVE Types'
  <2>1. Requests'
    BY <1>6, StartFacts, PathIs, LiveIs DEF Move, Types, Steps, Ops, Begun
  <2> QED BY <1>6, <2>1 DEF Move, Types, Dirs, rowVars
<1>7. ASSUME NEW q \in Request, ClaimLstat(q) PROVE Types'
  <2>1. Requests'
    BY <1>7, StepFacts, DoneFacts DEF ClaimLstat, At, Types, Steps
  <2> QED BY <1>7, <2>1 DEF ClaimLstat, Types, Dirs, rowVars
<1>8. ASSUME NEW q \in Request, ClaimMkdir(q) PROVE Types'
  <2>1. Requests'
    BY <1>8, StepFacts, DoneFacts DEF ClaimMkdir, At, Types, Steps
  <2>2. Dirs'
    BY <1>8, SetDir, Fields DEF ClaimMkdir, At, Types, Kind, Holder, Dirs
  <2> QED BY <1>8, <2>1, <2>2 DEF ClaimMkdir, Types, rowVars
<1>9. ASSUME NEW q \in Request, Insert(q) PROVE Types'
  <2>1. Requests'
    BY <1>9, StepFacts DEF Insert, At, Types, Steps
  <2>2. req[q].repo \in Repo /\ req[q].dst[1] \in Owner
    BY <1>9, Fields, PathHas DEF Insert, At, Types
  <2> QED BY <1>9, <2>1, <2>2 DEF Insert, Types, Dirs
<1>10. ASSUME NEW q \in Request, Fill(q) PROVE Types'
  <2>1. Requests'
    BY <1>10, StepFacts, DoneFacts DEF Fill, At, Types, Steps
  <2>2. Dirs'
    BY <1>10, SetDir, Fields DEF Fill, At, Types, Kind, Holder, Dirs
  <2> QED BY <1>10, <2>1, <2>2 DEF Fill, Types, rowVars
<1>11. ASSUME NEW q \in Request, DropRow(q) PROVE Types'
  <2>1. Requests'
    BY <1>11, StepFacts DEF DropRow, At, Types, Steps
  <2>2. req[q].repo \in Repo
    BY <1>11, Fields DEF DropRow, At, Types
  <2>3. row' \in [Repo -> {"none", "live", "deleted", "gone"}] /\ misplaced' \subseteq Repo
    BY <1>11, <2>2 DEF DropRow, Types
  <2> QED BY <1>11, <2>1, <2>3 DEF DropRow, Types, Dirs
<1>12. ASSUME NEW q \in Request, RemoveAll(q) PROVE Types'
  <2>1. Requests'
    BY <1>12, DoneFacts DEF RemoveAll, At, Types
  <2>2. Dirs'
    BY <1>12, SetDir, Fields DEF RemoveAll, At, Types, Kind, Holder
  <2> QED BY <1>12, <2>1, <2>2 DEF RemoveAll, Types, rowVars
<1>13. ASSUME NEW q \in Request, WikiPageSave(q) PROVE Types'
  <2>1. Requests'
    BY <1>13, DoneFacts DEF WikiPageSave, At, Types
  <2>2. Dirs'
    BY <1>13, SetDir, Fields DEF WikiPageSave, At, Types, Kind, Holder, Dirs
  <2> QED BY <1>13, <2>1, <2>2 DEF WikiPageSave, Types, rowVars
<1>14. ASSUME NEW q \in Request, FindCopy(q) PROVE Types'
  <2>1. Requests'
    <3>1. CASE Done(q)
      BY <3>1, DoneFacts DEF Types
    <3>2. ASSUME NEW s \in CopySuffixes(req[q].src[2]),
                 req' = [req EXCEPT ![q].src = <<req[q].src[1], s>>, ![q].step = "git"]
          PROVE  Requests'
      <4>1. req[q] # Idle /\ req[q].src \in Path
        BY <1>14, Fields DEF FindCopy, At, Types
      <4>2. <<req[q].src[1], s>> \in Path
        BY <4>1, <3>2, PathHas, PathIs DEF CopySuffixes
      <4> QED BY <3>2, <4>1, <4>2, FoundFacts DEF Types
    <3> QED BY <1>14, <3>1, <3>2 DEF FindCopy
  <2> QED BY <1>14, <2>1 DEF FindCopy, Types, Dirs, rowVars
<1>15. ASSUME NEW q \in Request, CheckTarget(q) PROVE Types'
  <2>1. Requests'
    BY <1>15, StepFacts, DoneFacts DEF CheckTarget, At, Types, Steps
  <2> QED BY <1>15, <2>1 DEF CheckTarget, Types, Dirs, rowVars
<1>16. ASSUME NEW q \in Request, NEW k \in Kind, RenameDir(q, k) PROVE Types'
  <2> DEFINE from == req[q].src
             to   == req[q].dst
             next == IF k = "git" THEN "wiki" ELSE "update"
  <2>1. /\ req[q] # Idle /\ from \in Path /\ to \in Path /\ req[q].repo \in Repo
        /\ next \in Steps /\ "revert" \in Steps
    BY <1>16, Fields DEF RenameDir, Types, Steps
  <2>2. CASE SetStep(q, next) /\ UNCHANGED <<dir, misplaced>>
    BY <1>16, <2>1, <2>2, StepFacts DEF RenameDir, Types, Dirs, rowVars
  <2>3. CASE SetStep(q, "revert") /\ UNCHANGED <<dir, misplaced>>
    BY <1>16, <2>1, <2>3, StepFacts DEF RenameDir, Types, Dirs, rowVars
  <2>4. CASE /\ dir' = [dir EXCEPT ![k][to] = dir[k][from], ![k][from] = NoDir]
             /\ req' = [req EXCEPT ![q].moved = @ \cup {k}, ![q].step = next]
             /\ misplaced' = IF PathTaken(k, to) THEN misplaced \cup {req[q].repo} ELSE misplaced
    <3>1. Dirs' /\ misplaced' \subseteq Repo
      BY <2>1, <2>4 DEF Types, Dirs, Holder
    <3>2. Requests'
      BY <2>1, <2>4, MovedFacts DEF Types
    <3> QED BY <1>16, <3>1, <3>2 DEF RenameDir, Types, rowVars
  <2> QED BY <1>16, <2>2, <2>3, <2>4 DEF RenameDir
<1>17. ASSUME NEW q \in Request, UpdateRow(q) PROVE Types'
  <2>1. req[q] # Idle /\ req[q].repo \in Repo /\ req[q].dst[1] \in Owner /\ req[q].dst[2] \in 0..MaxTime
    BY <1>17, Fields, PathHas DEF UpdateRow, Types
  <2>2. Requests'
    BY <1>17, <2>1, StepFacts, DoneFacts DEF UpdateRow, Types, Steps
  <2>3. CASE WriteRow(q)
    BY <1>17, <2>1, <2>2, <2>3 DEF UpdateRow, WriteRow, Types, Dirs
  <2>4. CASE UNCHANGED rowVars
    BY <1>17, <2>2, <2>4 DEF UpdateRow, rowVars, Types, Dirs
  <2> QED BY <1>17, <2>3, <2>4 DEF UpdateRow
<1>18. ASSUME NEW q \in Request, RevertDir(q) PROVE Types'
  <2>1. req[q] # Idle /\ req[q].src \in Path /\ req[q].dst \in Path /\ req[q].repo \in Repo
    BY <1>18, Fields DEF RevertDir, Types
  <2>2. CASE req[q].moved = {}
    BY <1>18, <2>2, DoneFacts DEF RevertDir, Types, Dirs, rowVars
  <2>3. CASE req[q].moved # {}
    <3> DEFINE k == IF "wiki" \in req[q].moved THEN "wiki" ELSE "git"
    <3>1. k \in Kind /\ misplaced' \subseteq Repo
      BY <1>18, <2>1, <2>3 DEF RevertDir, Kind, Types
    <3>2. Requests'
      BY <1>18, <2>1, <2>3, <3>1, RevertFacts DEF RevertDir, Types
    <3>3. Dirs'
      <4>1. CASE dir' = dir
        BY <4>1 DEF Types, Dirs
      <4>2. CASE /\ PathTaken(k, req[q].dst) /\ ~ PathTaken(k, req[q].src)
                 /\ dir' = [dir EXCEPT ![k][req[q].src] = dir[k][req[q].dst], ![k][req[q].dst] = NoDir]
        <5>1. req[q].dst # req[q].src
          BY <4>2 DEF PathTaken
        <5> HIDE DEF k
        <5> QED BY <5>1, <4>2, <3>1, <2>1, MoveDir DEF Types
      <4> QED BY <1>18, <2>3, <4>1, <4>2 DEF RevertDir
    <3> QED BY <1>18, <3>1, <3>2, <3>3 DEF RevertDir, Types, rowVars
  <2> QED BY <2>2, <2>3
<1>19. ASSUME NEW q \in Request, NEW rs \in SUBSET Repo, RemoveRows(q, rs) PROVE Types'
  <2>1. PICK r \in rs : Start(q, "purge", rs, r, "copy", <<owner[r], stamp[r]>>, <<owner[r], Live>>)
    BY <1>19 DEF RemoveRows
  <2>2. Requests'
    BY <2>1, StartFacts, PathIs, LiveIs DEF Types, Steps, Ops, Begun
  <2> QED BY <1>19, <2>2 DEF RemoveRows, Types, Dirs
<1>20. ASSUME NEW q \in Request, req[q] # Idle, NextRepo(q) PROVE Requests'
  <2> DEFINE rest == req[q].left \ {req[q].repo}
  <2>1. CASE Done(q)
    BY <2>1, DoneFacts DEF Types
  <2>2. CASE ~ Done(q)
    <3>1. rest \in SUBSET Repo
      BY <1>20, Fields DEF Types
    <3>2. PICK r \in rest : GoesTo(q, rest, r, <<owner[r], stamp[r]>>, <<owner[r], Live>>)
      BY <1>20, <2>2 DEF NextRepo, GoesTo
    <3>3. <<owner[r], stamp[r]>> \in Path /\ <<owner[r], Live>> \in Path
      BY <3>1, PathIs, LiveIs DEF Types
    <3> QED BY <1>20, <3>1, <3>2, <3>3, NextFacts DEF Types
  <2> QED BY <2>1, <2>2
<1>21. ASSUME NEW q \in Request, RemoveDeletedCopy(q) PROVE Types'
  <2>1. Requests'
    BY <1>21, StepFacts DEF RemoveDeletedCopy, At, Types, Steps
  <2> QED BY <1>21, <2>1 DEF RemoveDeletedCopy, Types, Dirs, rowVars, Holder
<1>22. ASSUME NEW q \in Request, FindStrandedWiki(q) PROVE Types'
  <2>1. Requests'
    BY <1>22, <1>20, StepFacts DEF FindStrandedWiki, At, Types, Steps
  <2> QED BY <1>22, <2>1 DEF FindStrandedWiki, Types, Dirs, rowVars
<1>23. ASSUME NEW q \in Request, NameHeld(q) PROVE Types'
  <2>1. Requests'
    BY <1>23, <1>20, StepFacts DEF NameHeld, At, Types, Steps
  <2> QED BY <1>23, <2>1 DEF NameHeld, Types, Dirs, rowVars
<1>24. ASSUME NEW q \in Request, RemoveStrandedWiki(q) PROVE Types'
  <2>1. Requests'
    BY <1>24, <1>20 DEF RemoveStrandedWiki, At
  <2>2. Dirs'
    BY <1>24, SetDir, Fields DEF RemoveStrandedWiki, At, Types, Kind, Holder
  <2> QED BY <1>24, <2>1, <2>2 DEF RemoveStrandedWiki, Types, rowVars
<1>25. CASE Tick
  BY <1>25 DEF Tick, Types, Dirs, Requests, rowVars
<1>26. CASE MonthPasses
  BY <1>26 DEF MonthPasses, Types, Dirs, Requests, rowVars
<1>27. ASSUME NEW q \in Request, PurgeExpired(q) PROVE Types'
  BY <1>27, <1>19 DEF PurgeExpired
<1>28. ASSUME NEW q \in Request, NEW o \in Owner, DeleteOrg(q, o) PROVE Types'
  BY <1>28, <1>19 DEF DeleteOrg
<1> QED
  BY <1>1, <1>2, <1>3, <1>4, <1>5, <1>6, <1>7, <1>8, <1>9, <1>10, <1>11, <1>12, <1>13, <1>14,
     <1>15, <1>16, <1>17, <1>18, <1>21, <1>22, <1>23, <1>24, <1>25, <1>26, <1>27, <1>28
  DEF Next, Begin, Continue

-----------------------------------------------------------------------------
(* What one request leaves of the others *)

Untouched(x) ==
  /\ row'[x] = row[x] /\ owner'[x] = owner[x] /\ stamp'[x] = stamp[x]
  /\ \A p \in Path : dir'["git"][p] = x <=> dir["git"][p] = x

LEMMA BusyIs == \A r \in Repo : Busy(r) <=> \E q \in Request : r \in Owns(q)
BY DEF Busy, Owns

LEMMA Frame ==
  ASSUME Requests, Requests', Exclusive, Rest, Places,
         NEW q \in Request, NEW S \in SUBSET Repo,
         OthersWait(q), Owns(q) \subseteq S, Owns(q)' \subseteq S,
         \A p \in Request : p # q => Owns(p) \cap S = {},
         \A x \in Repo \ S : Untouched(x),
         Place(q)',
         \A r \in S : r \notin Owns(q)' => Resting(r)'
  PROVE  Exclusive' /\ Rest' /\ Places'
<1>1. \A p \in Request : p # q => Owns(p)' = Owns(p)
  BY DEF Owns, OthersWait
<1>2. Exclusive'
  BY <1>1 DEF Exclusive
<1>3. Rest'
  <2> SUFFICES ASSUME NEW r \in Repo, \A p \in Request : r \notin Owns(p)'
               PROVE  Resting(r)'
    BY DEF Rest
  <2>1. CASE r \in S
    BY <2>1
  <2>2. CASE r \notin S
    <3>1. Resting(r)
      BY <2>2, <1>1 DEF Rest
    <3>2. Untouched(r)
      BY <2>2
    <3> QED BY <3>1, <3>2 DEF Resting, Untouched, LivesAt, Nowhere
  <2> QED BY <2>1, <2>2
<1>4. ASSUME NEW p \in Request, p # q PROVE Place(p)'
  <2>1. req'[p] = req[p] /\ Place(p)
    BY <1>4 DEF OthersWait, Places
  <2> SUFFICES ASSUME req[p] # Idle PROVE Place(p)'
    BY <2>1 DEF Place
  <2>2. req[p].repo \in req[p].left /\ req[p].left \in SUBSET Repo
    BY Fields
  <2>3. ASSUME req[p].op # "save", NEW x \in req[p].left PROVE Untouched(x)
    BY <2>2, <2>3, <1>4 DEF Owns
  <2>4. CASE req[p].op = "save"
    BY <2>1, <2>4 DEF Place
  <2>5. CASE req[p].op = "create"
    <3>1. CreatePlace(p) /\ Untouched(req[p].repo)
      BY <2>1, <2>2, <2>3, <2>5 DEF Place
    <3>2. CreatePlace(p)'
      BY <2>1, <3>1 DEF CreatePlace, Untouched, Nowhere
    <3> QED BY <2>1, <2>5, <3>2 DEF Place
  <2>6. CASE req[p].op \in {"delete", "restore", "move"}
    <3>1. MovePlace(p) /\ Untouched(req[p].repo)
      BY <2>1, <2>2, <2>3, <2>6 DEF Place
    <3>2. MovePlace(p)'
      BY <2>1, <3>1 DEF MovePlace, DeletePlace, RestorePlace, TransferPlace, Untouched, LivesAt
    <3> QED BY <2>1, <2>6, <3>2 DEF Place
  <2>7. CASE req[p].op = "purge"
    <3>1. PurgePlace(p) /\ \A x \in req[p].left : Untouched(x)
      BY <2>1, <2>2, <2>3, <2>7 DEF Place
    <3>2. PurgePlace(p)'
      BY <2>1, <2>2, <3>1 DEF PurgePlace, Untouched, LivesAt, Nowhere
    <3> QED BY <2>1, <2>7, <3>2 DEF Place
  <2> QED BY <2>1, <2>4, <2>5, <2>6, <2>7 DEF Place, Requests, Job
<1> QED BY <1>2, <1>3, <1>4 DEF Places

LEMMA ClaimedFrame ==
  ASSUME Claimed, Requests, NEW q \in Request, OthersWait(q),
         \A x \in Path : dir'["git"][x] = Empty <=> dir["git"][x] = Empty,
         Claims(q)' <=> Claims(q), Claims(q) => req'[q].dst = req[q].dst
  PROVE  Claimed'
<1>1. \A p \in Request : /\ Claims(p)' <=> Claims(p)
                         /\ Claims(p) => req'[p].dst = req[p].dst /\ req[p].dst \in Path
  BY Fields DEF OthersWait, Claims
<1>2. \A p \in Request : Claims(p)' => dir'["git"][req'[p].dst] = Empty
  BY <1>1 DEF Claimed
<1>3. \A p, r \in Request : Claims(p)' /\ Claims(r)' /\ req'[p].dst = req'[r].dst => p = r
  BY <1>1 DEF Claimed
<1>4. \A x \in Path : dir'["git"][x] = Empty => \E p \in Request : Claims(p)' /\ req'[p].dst = x
  BY <1>1 DEF Claimed
<1> QED BY <1>2, <1>3, <1>4 DEF Claimed

RestoreMoved(q) == Does(q, "restore") /\ "git" \in req[q].moved

\* Only live paths change, so what is told of copies remains.
LEMMA CopiesFrame ==
  ASSUME Requests, Requests', GoesBack, Wikis, Places', NEW q \in Request, OthersWait(q),
         \A k \in Kind, x \in Path : x[2] > 0 => dir'[k][x] = dir[k][x],
         RestoreMoved(q)' => RestoreMoved(q) /\ req'[q].src = req[q].src,
         Does(q, "restore")' /\ req'[q].step = "update" => dir["wiki"][req'[q].src] = NoDir,
         Does(q, "delete")' /\ req'[q].moved = {"git"} => dir["wiki"][req'[q].dst] = NoDir,
         RestoreMoved(q) /\ dir["wiki"][req[q].src] # NoDir =>
           RestoreMoved(q)' /\ req'[q].src = req[q].src
  PROVE  GoesBack' /\ Wikis'
<1>1. \A p \in Request : /\ Does(p, "restore")' => req'[p].src \in Path /\ req'[p].src[2] > 0
                         /\ Does(p, "delete")' => req'[p].dst \in Path /\ req'[p].dst[2] > 0
  BY DEF Places, Place, MovePlace, DeletePlace, RestorePlace, Does, Requests, Job
<1>2. \A p \in Request, op \in {"restore", "delete"} :
        p # q => (Does(p, op)' <=> Does(p, op)) /\ req'[p] = req[p]
  BY DEF Does, OthersWait
<1>3. "git" \in Kind /\ "wiki" \in Kind
  BY DEF Kind
<1>4. GoesBack'
  <2> SUFFICES ASSUME NEW p \in Request, Does(p, "restore")', "git" \in req'[p].moved
               PROVE  dir'["git"][req'[p].src] = NoDir
    BY DEF GoesBack
  <2>1. CASE p = q
    BY <2>1, <1>1, <1>3 DEF RestoreMoved, GoesBack
  <2>2. CASE p # q
    BY <2>2, <1>1, <1>2, <1>3 DEF GoesBack
  <2> QED BY <2>1, <2>2
<1>5. ASSUME NEW p \in Request, Does(p, "restore")', req'[p].step = "update"
      PROVE  dir'["wiki"][req'[p].src] = NoDir
  BY <1>1, <1>2, <1>3, <1>5 DEF Wikis
<1>6. ASSUME NEW p \in Request, Does(p, "delete")', req'[p].moved = {"git"}
      PROVE  dir'["wiki"][req'[p].dst] = NoDir
  BY <1>1, <1>2, <1>3, <1>6 DEF Wikis
<1>7. ASSUME NEW x \in Path, x[2] > 0, dir'["wiki"][x] # NoDir, dir'["git"][x] = NoDir
      PROVE  \E p \in Request : Does(p, "restore")' /\ "git" \in req'[p].moved /\ req'[p].src = x
  <2>1. dir["wiki"][x] # NoDir /\ dir["git"][x] = NoDir
    BY <1>7, <1>3
  <2>2. PICK p \in Request : Does(p, "restore") /\ "git" \in req[p].moved /\ req[p].src = x
    BY <1>7, <2>1 DEF Wikis
  <2>3. CASE p = q
    BY <2>1, <2>2, <2>3 DEF RestoreMoved
  <2>4. CASE p # q
    BY <2>2, <2>4, <1>2
  <2> QED BY <2>3, <2>4
<1>8. Wikis'
  BY <1>5, <1>6, <1>7 DEF Wikis
<1> QED BY <1>4, <1>8

\* A step that changes no directory and no row.
LEMMA QuietFrame ==
  ASSUME Requests, Requests', Settled, NEW q \in Request, NEW S \in SUBSET Repo,
         OthersWait(q), dir' = dir, rowVars' = rowVars,
         Owns(q) \subseteq S, Owns(q)' \subseteq S,
         \A p \in Request : p # q => Owns(p) \cap S = {},
         Place(q)',
         \A r \in S : r \notin Owns(q)' => Resting(r),
         Claims(q)' <=> Claims(q), Claims(q) => req'[q].dst = req[q].dst,
         RestoreMoved(q)' => RestoreMoved(q) /\ req'[q].src = req[q].src,
         Does(q, "restore")' /\ req'[q].step = "update" => dir["wiki"][req'[q].src] = NoDir,
         Does(q, "delete")' /\ req'[q].moved = {"git"} => dir["wiki"][req'[q].dst] = NoDir,
         RestoreMoved(q) /\ dir["wiki"][req[q].src] # NoDir =>
           RestoreMoved(q)' /\ req'[q].src = req[q].src
  PROVE  Settled'
<1>1. \A x \in Repo : Untouched(x)
  BY DEF Untouched, rowVars
<1>2. \A r \in S : r \notin Owns(q)' => Resting(r)'
  BY DEF Resting, LivesAt, Nowhere, rowVars
<1>3. Exclusive' /\ Rest' /\ Places'
  BY <1>1, <1>2, Frame DEF Settled
<1>4. Claimed'
  BY ClaimedFrame DEF Settled
<1>5. GoesBack' /\ Wikis'
  BY <1>3, CopiesFrame DEF Settled
<1> QED BY <1>3, <1>4, <1>5 DEF Settled

\* A request begins: nobody else owns what it will move.
LEMMA BeginFrame ==
  ASSUME Requests, Requests', Settled, NEW q \in Request, OthersWait(q),
         dir' = dir, rowVars' = rowVars, req[q] = Idle,
         \A r \in Owns(q)' : r \in Repo /\ ~ Busy(r),
         Place(q)', ~ Claims(q)', ~ RestoreMoved(q)',
         ~ (Does(q, "restore")' /\ req'[q].step = "update"),
         ~ (Does(q, "delete")' /\ req'[q].moved = {"git"})
  PROVE  Settled'
<1> DEFINE S == Owns(q)'
<1>1. S \in SUBSET Repo /\ Owns(q) = {} /\ ~ Claims(q) /\ ~ RestoreMoved(q)
  BY DEF Owns, Claims, RestoreMoved, Does
<1>2. \A p \in Request : Owns(p) \cap S = {}
  BY BusyIs
<1> HIDE DEF S
<1>3. Owns(q)' = S
  BY DEF S
<1> QED BY <1>1, <1>2, <1>3, QuietFrame

\* A request ends, or goes on with what it owns.
LEMMA GoOnFrame ==
  ASSUME Requests, Requests', Settled, NEW q \in Request, OthersWait(q),
         dir' = dir, rowVars' = rowVars,
         Owns(q)' \subseteq Owns(q), Place(q)',
         \A r \in Owns(q) : r \notin Owns(q)' => Resting(r),
         Claims(q)' <=> Claims(q), Claims(q) => req'[q].dst = req[q].dst,
         RestoreMoved(q)' => RestoreMoved(q) /\ req'[q].src = req[q].src,
         Does(q, "restore")' /\ req'[q].step = "update" => dir["wiki"][req'[q].src] = NoDir,
         Does(q, "delete")' /\ req'[q].moved = {"git"} => dir["wiki"][req'[q].dst] = NoDir,
         RestoreMoved(q) /\ dir["wiki"][req[q].src] # NoDir =>
           RestoreMoved(q)' /\ req'[q].src = req[q].src
  PROVE  Settled'
<1>1. Owns(q) \in SUBSET Repo
  BY Fields DEF Owns
<1>2. \A p \in Request : p # q => Owns(p) \cap Owns(q) = {}
  BY DEF Settled, Exclusive
<1> DEFINE S == Owns(q)
<1> HIDE DEF S
<1>3. Owns(q) = S
  BY DEF S
<1> QED BY <1>1, <1>2, <1>3, QuietFrame

-----------------------------------------------------------------------------
(* Requests begin *)

LEMMA SavePageSettled ==
  ASSUME Types, Settled, NEW q \in Request, NEW r \in Repo, SavePage(q, r)
  PROVE  Settled'
<1>1. <<owner[r], Live>> \in Path /\ "init" \in Steps /\ "save" \in Ops
  BY PathIs, LiveIs DEF Types, Steps, Ops
<1>2. Begun(q, "save", {r}, r, "init", <<owner[r], Live>>, <<owner[r], Live>>)
  BY <1>1, StartFacts DEF SavePage, Types
<1>3. Owns(q)' = {} /\ Place(q)' /\ ~ Claims(q)' /\ ~ Does(q, "restore")' /\ ~ Does(q, "delete")'
  BY <1>2 DEF Begun, Owns, Place, Claims, Does
<1> QED BY <1>2, <1>3, BeginFrame DEF Begun, SavePage, Types, rowVars, RestoreMoved

LEMMA RestingFacts ==
  ASSUME Settled, NEW r \in Repo, ~ Busy(r) PROVE Resting(r)
BY BusyIs DEF Settled, Rest

LEMMA CreateSettled ==
  ASSUME Types, Settled, NEW q \in Request, NEW r \in Repo, NEW o \in Owner, Create(q, r, o)
  PROVE  Settled'
<1> DEFINE rs == {r}
<1>0. Requests /\ rs \in SUBSET Repo /\ r \in rs /\ Start(q, "create", rs, r, "lstat", <<o, Live>>, <<o, Live>>)
  BY DEF Types, Create
<1> HIDE DEF rs
<1>1. <<o, Live>> \in Path /\ "lstat" \in Steps /\ "create" \in Ops
  BY PathIs, LiveIs DEF Types, Steps, Ops
<1>2. Begun(q, "create", rs, r, "lstat", <<o, Live>>, <<o, Live>>)
  BY <1>0, <1>1, StartFacts
<1>3. row'[r] = "none" /\ Nowhere(r)'
  BY RestingFacts DEF Create, Resting, Nowhere, rowVars
<1>4. CreatePlace(q)'
  BY <1>2, <1>3 DEF Begun, CreatePlace, rs
<1>5. Owns(q)' = {r} /\ Place(q)' /\ ~ Claims(q)' /\ ~ Does(q, "restore")' /\ ~ Does(q, "delete")'
  BY <1>2, <1>4 DEF Begun, rs, Owns, Place, Claims, Does
<1>6. \A x \in Owns(q)' : x \in Repo /\ ~ Busy(x)
  BY <1>5 DEF Create
<1> QED BY <1>2, <1>5, <1>6, BeginFrame DEF Begun, Create, Types, rowVars, RestoreMoved

LEMMA DeleteSettled ==
  ASSUME Types, Settled, NEW q \in Request, NEW r \in Repo, Delete(q, r)
  PROVE  Settled'
<1> DEFINE rs == {r}
<1>0. Requests /\ rs \in SUBSET Repo /\ r \in rs /\ Start(q, "delete", rs, r, "git", <<owner[r], Live>>, <<owner[r], now>>)
  BY DEF Types, Delete
<1> HIDE DEF rs
<1>1. <<owner[r], Live>> \in Path /\ <<owner[r], now>> \in Path /\ "git" \in Steps /\ "delete" \in Ops /\ now > 0
  BY PathIs, LiveIs, DirsAssumption DEF Types, Steps, Ops
<1>2. Begun(q, "delete", rs, r, "git", <<owner[r], Live>>, <<owner[r], now>>)
  BY <1>0, <1>1, StartFacts
<1>3. row'[r] = "live" /\ owner'[r] = owner[r] /\ LivesAt(r, <<owner[r], Live>>)'
  BY RestingFacts DEF Delete, Resting, LivesAt, rowVars
<1>4. MovePlace(q)'
  BY <1>1, <1>2, <1>3 DEF Begun, rs, MovePlace, DeletePlace
<1>5. Owns(q)' = {r} /\ Place(q)' /\ ~ Claims(q)' /\ ~ Does(q, "restore")' /\ req'[q].moved # {"git"}
  BY <1>2, <1>4 DEF Begun, rs, Owns, Place, Claims, Does
<1>6. \A x \in Owns(q)' : x \in Repo /\ ~ Busy(x)
  BY <1>5 DEF Delete
<1> QED BY <1>2, <1>5, <1>6, BeginFrame DEF Begun, Delete, Types, rowVars, RestoreMoved

LEMMA RestoreSettled ==
  ASSUME Types, Settled, NEW q \in Request, NEW r \in Repo, Restore(q, r)
  PROVE  Settled'
<1> DEFINE rs == {r}
<1>0. Requests /\ rs \in SUBSET Repo /\ r \in rs /\ Start(q, "restore", rs, r, "look", <<owner[r], stamp[r]>>, <<owner[r], Live>>)
  BY DEF Types, Restore
<1> HIDE DEF rs
<1>1. <<owner[r], Live>> \in Path /\ <<owner[r], stamp[r]>> \in Path /\ "look" \in Steps /\ "restore" \in Ops
  BY PathIs, LiveIs DEF Types, Steps, Ops
<1>2. Begun(q, "restore", rs, r, "look", <<owner[r], stamp[r]>>, <<owner[r], Live>>)
  BY <1>0, <1>1, StartFacts
<1>3. /\ row'[r] = "deleted" /\ owner'[r] = owner[r] /\ stamp'[r] = stamp[r] /\ stamp[r] > 0
      /\ LivesAt(r, <<owner[r], stamp[r]>>)'
  BY RestingFacts DEF Restore, Resting, LivesAt, rowVars
<1>4. MovePlace(q)'
  BY <1>2, <1>3 DEF Begun, rs, MovePlace, RestorePlace
<1>5. Owns(q)' = {r} /\ Place(q)' /\ ~ Claims(q)' /\ ~ RestoreMoved(q)' /\ ~ Does(q, "delete")'
  BY <1>2, <1>4 DEF Begun, rs, Owns, Place, Claims, RestoreMoved, Does
<1>6. \A x \in Owns(q)' : x \in Repo /\ ~ Busy(x)
  BY <1>5 DEF Restore
<1> QED BY <1>2, <1>5, <1>6, BeginFrame DEF Begun, Restore, Types, rowVars

LEMMA MoveSettled ==
  ASSUME Types, Settled, NEW q \in Request, NEW r \in Repo, NEW o \in Owner, Move(q, r, o)
  PROVE  Settled'
<1> DEFINE rs == {r}
<1>0. Requests /\ rs \in SUBSET Repo /\ r \in rs /\ Start(q, "move", rs, r, "look", <<owner[r], Live>>, <<o, Live>>)
  BY DEF Types, Move
<1> HIDE DEF rs
<1>1. <<owner[r], Live>> \in Path /\ <<o, Live>> \in Path /\ "look" \in Steps /\ "move" \in Ops
  BY PathIs, LiveIs DEF Types, Steps, Ops
<1>2. Begun(q, "move", rs, r, "look", <<owner[r], Live>>, <<o, Live>>)
  BY <1>0, <1>1, StartFacts
<1>3. row'[r] = "live" /\ owner'[r] = owner[r] /\ LivesAt(r, <<owner[r], Live>>)'
  BY RestingFacts DEF Move, Resting, LivesAt, rowVars
<1>4. MovePlace(q)'
  BY <1>2, <1>3 DEF Begun, rs, MovePlace, TransferPlace, Move
<1>5. Owns(q)' = {r} /\ Place(q)' /\ ~ Claims(q)' /\ ~ Does(q, "restore")' /\ ~ Does(q, "delete")'
  BY <1>2, <1>4 DEF Begun, rs, Owns, Place, Claims, Does
<1>6. \A x \in Owns(q)' : x \in Repo /\ ~ Busy(x)
  BY <1>5 DEF Move
<1> QED BY <1>2, <1>5, <1>6, BeginFrame DEF Begun, Move, Types, rowVars, RestoreMoved

-----------------------------------------------------------------------------
(* Creates go on *)

LEMMA CreateFacts ==
  ASSUME Requests, Settled, NEW q \in Request, req[q] # Idle, req[q].op = "create"
  PROVE  /\ CreatePlace(q) /\ Owns(q) = {req[q].repo} /\ req[q].repo \in Repo
         /\ req[q].dst \in Path /\ ~ RestoreMoved(q)
         /\ ~ Does(q, "restore") /\ ~ Does(q, "delete")
BY Fields DEF Settled, Places, Place, CreatePlace, Owns, RestoreMoved, Does

\* The same request one step further in a create.
LEMMA CreateSteps ==
  ASSUME Types, Settled, NEW q \in Request, req[q] # Idle, req[q].op = "create",
         NEW s \in Steps, SetStep(q, s), CreatePlace(q)'
  PROVE  /\ Requests' /\ OthersWait(q) /\ Place(q)' /\ Owns(q)' = Owns(q)
         /\ req'[q] # Idle /\ req'[q].op = "create" /\ req'[q].dst = req[q].dst
         /\ req'[q].step = s /\ ~ RestoreMoved(q)' /\ ~ Does(q, "restore")' /\ ~ Does(q, "delete")'
<1>1. Requests
  BY DEF Types
<1> QED BY <1>1, StepFacts DEF Place, Owns, RestoreMoved, Does

LEMMA Ends ==
  ASSUME Types, NEW q \in Request, Done(q)
  PROVE  /\ Requests' /\ OthersWait(q) /\ req'[q] = Idle /\ Place(q)' /\ Owns(q)' = {}
         /\ ~ Claims(q)' /\ ~ RestoreMoved(q)' /\ ~ Does(q, "restore")' /\ ~ Does(q, "delete")'
<1>1. Requests
  BY DEF Types
<1> QED BY <1>1, DoneFacts DEF Place, Owns, Claims, RestoreMoved, Does

LEMMA ClaimLstatSettled ==
  ASSUME Types, Settled, NEW q \in Request, ClaimLstat(q)
  PROVE  Settled'
<1>1. /\ req[q] # Idle /\ req[q].op = "create" /\ req[q].step = "lstat"
      /\ dir' = dir /\ rowVars' = rowVars /\ Requests
  BY DEF ClaimLstat, At, Types
<1>2. /\ CreatePlace(q) /\ Owns(q) = {req[q].repo} /\ ~ Claims(q) /\ ~ RestoreMoved(q)
      /\ Resting(req[q].repo)
  BY <1>1, CreateFacts DEF CreatePlace, Claims, Resting
<1>3. CASE Done(q)
  BY <1>1, <1>2, <1>3, Ends, GoOnFrame
<1>4. CASE SetStep(q, "mkdir")
  <2>1. CreatePlace(q)'
    BY <1>1, <1>2, <1>4, StepFacts DEF CreatePlace, Nowhere, rowVars, Steps
  <2>2. "mkdir" \in Steps
    BY DEF Steps
  <2>3. /\ Requests' /\ OthersWait(q) /\ Place(q)' /\ Owns(q)' = Owns(q)
        /\ ~ Claims(q)' /\ ~ RestoreMoved(q)' /\ ~ Does(q, "restore")' /\ ~ Does(q, "delete")'
    BY <1>1, <1>4, <2>1, <2>2, CreateSteps DEF Claims
  <2> QED BY <1>1, <1>2, <2>3, GoOnFrame
<1> QED BY <1>3, <1>4 DEF ClaimLstat

LEMMA ClaimMkdirSettled ==
  ASSUME Types, Settled, NEW q \in Request, ClaimMkdir(q)
  PROVE  Settled'
<1>1. /\ req[q] # Idle /\ req[q].op = "create" /\ req[q].step = "mkdir"
      /\ rowVars' = rowVars /\ Requests /\ Dirs
  BY DEF ClaimMkdir, At, Types
<1>2. /\ CreatePlace(q) /\ Owns(q) = {req[q].repo} /\ ~ Claims(q) /\ ~ RestoreMoved(q)
      /\ Resting(req[q].repo) /\ req[q].dst \in Path
  BY <1>1, CreateFacts DEF CreatePlace, Claims, Resting
<1>3. CASE Done(q) /\ UNCHANGED dir
  BY <1>1, <1>2, <1>3, Ends, GoOnFrame
<1>4. CASE /\ ~ PathTaken("git", req[q].dst) /\ SetStep(q, "insert")
           /\ dir' = [dir EXCEPT !["git"][req[q].dst] = Empty]
  <2> DEFINE p == req[q].dst
  <2>1. /\ dir["git"][p] = NoDir /\ dir'["git"][p] = Empty
        /\ \A x \in Path : x # p => dir'["git"][x] = dir["git"][x]
        /\ \A l \in Kind : l # "git" => dir'[l] = dir[l]
    BY <1>1, <1>2, <1>4, SetDir DEF PathTaken, Kind, Holder
  <2>2. \A x \in Repo : Untouched(x)
    BY <1>1, <1>2, <2>1, DirsAssumption DEF Untouched, rowVars
  <2>3. "insert" \in Steps
    BY DEF Steps
  <2>4. CreatePlace(q)'
    BY <1>1, <1>2, <1>4, <2>2, <2>3, StepFacts, CreateFacts DEF CreatePlace, Nowhere, Untouched
  <2>5. /\ Requests' /\ OthersWait(q) /\ Place(q)' /\ Owns(q)' = Owns(q)
        /\ req'[q] # Idle /\ req'[q].dst = p
        /\ Claims(q)' /\ ~ RestoreMoved(q)' /\ ~ Does(q, "restore")' /\ ~ Does(q, "delete")'
    BY <1>1, <1>4, <2>3, <2>4, CreateSteps DEF Claims
  <2>6. Exclusive' /\ Rest' /\ Places'
    <3>1. Owns(q) \in SUBSET Repo /\ \A r \in Request : r # q => Owns(r) \cap Owns(q) = {}
      BY <1>1, <1>2, Fields DEF Settled, Exclusive
    <3> DEFINE S == Owns(q)
    <3> HIDE DEF S
    <3>2. Owns(q) = S
      BY DEF S
    <3> QED BY <3>1, <3>2, <1>1, <2>2, <2>5, Frame DEF Settled
  <2>7. Claimed'
    <3>1. \A r \in Request \ {q} :
            /\ Claims(r)' <=> Claims(r)
            /\ Claims(r) => req'[r].dst = req[r].dst /\ req[r].dst \in Path /\ req[r].dst # p
      BY <1>1, <2>1, <2>5, Fields, DirsAssumption DEF OthersWait, Claims, Settled, Claimed
    <3>2. \A r \in Request : Claims(r)' => dir'["git"][req'[r].dst] = Empty
      BY <3>1, <2>1, <2>5 DEF Settled, Claimed
    <3>3. \A r, t \in Request : Claims(r)' /\ Claims(t)' /\ req'[r].dst = req'[t].dst => r = t
      BY <3>1, <2>5 DEF Settled, Claimed
    <3>4. \A x \in Path : dir'["git"][x] = Empty => \E r \in Request : Claims(r)' /\ req'[r].dst = x
      BY <3>1, <2>1, <2>5, <1>2 DEF Settled, Claimed
    <3> QED BY <3>2, <3>3, <3>4 DEF Claimed
  <2>8. GoesBack' /\ Wikis'
    <3>1. \A k \in Kind, x \in Path : x[2] > 0 => dir'[k][x] = dir[k][x]
      BY <1>2, <2>1 DEF CreatePlace, Live, Kind
    <3> QED BY <1>1, <1>2, <2>5, <2>6, <3>1, CopiesFrame DEF Settled
  <2> QED BY <2>6, <2>7, <2>8 DEF Settled
<1> QED BY <1>3, <1>4 DEF ClaimMkdir

\* A step of one request that may change the rows and places of what it owns.
LEMMA OwnFrame ==
  ASSUME Requests, Requests', Settled, NEW q \in Request, OthersWait(q),
         Owns(q)' \subseteq Owns(q),
         \A x \in Repo \ Owns(q) : Untouched(x),
         Place(q)',
         \A r \in Owns(q) : r \notin Owns(q)' => Resting(r)'
  PROVE  Exclusive' /\ Rest' /\ Places'
<1>1. Owns(q) \in SUBSET Repo /\ \A r \in Request : r # q => Owns(r) \cap Owns(q) = {}
  BY Fields DEF Settled, Exclusive, Owns
<1> DEFINE S == Owns(q)
<1> HIDE DEF S
<1>2. Owns(q) = S
  BY DEF S
<1> QED BY <1>1, <1>2, Frame DEF Settled

LEMMA ClaimEnds ==
  ASSUME Claimed, Requests, NEW q \in Request, Claims(q), OthersWait(q), req'[q] = Idle,
         dir'["git"][req[q].dst] # Empty,
         \A x \in Path : x # req[q].dst => dir'["git"][x] = dir["git"][x]
  PROVE  Claimed'
<1>1. \A r \in Request \ {q} :
        /\ Claims(r)' <=> Claims(r)
        /\ Claims(r) => req'[r].dst = req[r].dst /\ req[r].dst \in Path /\ req[r].dst # req[q].dst
  BY Fields DEF OthersWait, Claims, Claimed
<1>2. ~ Claims(q)'
  BY DEF Claims
<1>3. \A r \in Request : Claims(r)' => dir'["git"][req'[r].dst] = Empty
  BY <1>1, <1>2 DEF Claimed
<1>4. \A r, t \in Request : Claims(r)' /\ Claims(t)' /\ req'[r].dst = req'[t].dst => r = t
  BY <1>1, <1>2 DEF Claimed
<1>5. \A x \in Path : dir'["git"][x] = Empty => \E r \in Request : Claims(r)' /\ req'[r].dst = x
  BY <1>1 DEF Claimed
<1> QED BY <1>3, <1>4, <1>5 DEF Claimed

LEMMA InsertSettled ==
  ASSUME Types, Settled, NEW q \in Request, Insert(q)
  PROVE  Settled'
<1>1. /\ req[q] # Idle /\ req[q].op = "create" /\ req[q].step = "insert"
      /\ dir' = dir /\ stamp' = stamp /\ Requests
  BY DEF Insert, At, Types
<1>2. /\ CreatePlace(q) /\ Owns(q) = {req[q].repo} /\ Claims(q) /\ ~ RestoreMoved(q)
      /\ req[q].repo \in Repo
  BY <1>1, CreateFacts DEF Claims
<1>3. PICK s \in {"fill", "removeAll"} :
        /\ SetStep(q, s)
        /\ \A x \in Repo : x # req[q].repo => row'[x] = row[x] /\ owner'[x] = owner[x]
        /\ s = "fill" => row'[req[q].repo] = "live" /\ owner'[req[q].repo] = req[q].dst[1]
        /\ s = "removeAll" => row'[req[q].repo] = row[req[q].repo]
  <2>1. CASE /\ row' = [row EXCEPT ![req[q].repo] = "live"]
             /\ owner' = [owner EXCEPT ![req[q].repo] = req[q].dst[1]]
             /\ SetStep(q, "fill")
    BY <1>2, <2>1 DEF Types
  <2>2. CASE SetStep(q, "removeAll") /\ UNCHANGED <<row, owner>>
    BY <2>2
  <2> QED BY <2>1, <2>2 DEF Insert
<1>4. s \in Steps
  BY DEF Steps
<1>5. CreatePlace(q)'
  BY <1>1, <1>2, <1>3, <1>4, StepFacts DEF CreatePlace, Nowhere
<1>6. /\ Requests' /\ OthersWait(q) /\ Place(q)' /\ Owns(q)' = Owns(q) /\ req'[q].dst = req[q].dst
      /\ Claims(q)' /\ ~ RestoreMoved(q)' /\ ~ Does(q, "restore")' /\ ~ Does(q, "delete")'
  BY <1>1, <1>3, <1>4, <1>5, CreateSteps DEF Claims
<1>7. Exclusive' /\ Rest' /\ Places'
  <2>1. \A x \in Repo \ Owns(q) : Untouched(x)
    BY <1>1, <1>2, <1>3 DEF Untouched
  <2> QED BY <2>1, <1>1, <1>6, OwnFrame
<1>8. Claimed'
  BY <1>1, <1>2, <1>6, ClaimedFrame DEF Settled
<1>9. GoesBack' /\ Wikis'
  BY <1>1, <1>2, <1>6, <1>7, CopiesFrame DEF Settled
<1> QED BY <1>7, <1>8, <1>9 DEF Settled

LEMMA FillSettled ==
  ASSUME Types, Settled, NEW q \in Request, Fill(q)
  PROVE  Settled'
<1>1. /\ req[q] # Idle /\ req[q].op = "create" /\ req[q].step = "fill"
      /\ rowVars' = rowVars /\ Requests /\ Dirs
  BY DEF Fill, At, Types
<1>2. /\ CreatePlace(q) /\ Owns(q) = {req[q].repo} /\ Claims(q) /\ ~ RestoreMoved(q)
      /\ req[q].repo \in Repo /\ req[q].dst \in Path
  BY <1>1, CreateFacts DEF Claims
<1>3. CASE /\ dir' = [dir EXCEPT !["git"][req[q].dst] = req[q].repo]
           /\ Done(q)
  <2>0. PICK p \in Path, r \in Repo : p = req[q].dst /\ r = req[q].repo
    BY <1>2
  <2>8. dir["git"][p] = Empty
    BY <1>2, <2>0 DEF Settled, Claimed
  <2>9. dir' = [dir EXCEPT !["git"][p] = r] /\ r \in Holder
    BY <1>3, <2>0 DEF Holder
  <2>1. /\ dir["git"][p] = Empty /\ dir'["git"][p] = r
        /\ \A x \in Path : x # p => dir'["git"][x] = dir["git"][x]
        /\ \A l \in Kind : l # "git" => dir'[l] = dir[l]
    BY <1>1, <2>8, <2>9, SetGit
  <2>2. \A x \in Repo \ {r} : Untouched(x)
    BY <1>1, <1>2, <2>0, <2>1, DirsAssumption DEF Untouched, rowVars
  <2>3. Resting(r)'
    <3>1. row'[r] = "live" /\ owner'[r] = p[1] /\ p = <<p[1], Live>>
      BY <1>1, <1>2, <2>0, PathHas DEF CreatePlace, rowVars
    <3>2. LivesAt(r, p)'
      BY <1>2, <2>0, <2>1 DEF CreatePlace, Nowhere, LivesAt
    <3> QED BY <3>1, <3>2 DEF Resting, LivesAt
  <2>4. Requests' /\ OthersWait(q) /\ req'[q] = Idle /\ Place(q)' /\ Owns(q)' = {} /\ ~ RestoreMoved(q)'
        /\ ~ Does(q, "restore")' /\ ~ Does(q, "delete")'
    BY <1>3, Ends
  <2>5. Exclusive' /\ Rest' /\ Places'
    BY <1>1, <1>2, <2>0, <2>2, <2>3, <2>4, OwnFrame
  <2>6. Claimed'
    BY <1>1, <1>2, <2>0, <2>1, <2>4, ClaimEnds, DirsAssumption DEF Settled
  <2>7. GoesBack' /\ Wikis'
    <3>1. \A k \in Kind, x \in Path : x[2] > 0 => dir'[k][x] = dir[k][x]
      BY <1>2, <2>0, <2>1 DEF CreatePlace, Live, Kind
    <3> QED BY <1>1, <1>2, <2>0, <2>4, <2>5, <3>1, CopiesFrame DEF Settled
  <2> QED BY <2>5, <2>6, <2>7 DEF Settled
<1>4. CASE SetStep(q, "dropRow") /\ UNCHANGED dir
  <2>1. "dropRow" \in Steps
    BY DEF Steps
  <2>2. CreatePlace(q)'
    BY <1>1, <1>2, <1>4, <2>1, StepFacts DEF CreatePlace, Nowhere, rowVars
  <2>3. /\ Requests' /\ OthersWait(q) /\ Place(q)' /\ Owns(q)' = Owns(q) /\ req'[q].dst = req[q].dst
        /\ Claims(q)' /\ ~ RestoreMoved(q)' /\ ~ Does(q, "restore")' /\ ~ Does(q, "delete")'
    BY <1>1, <1>4, <2>1, <2>2, CreateSteps DEF Claims
  <2> QED BY <1>1, <1>2, <1>4, <2>3, GoOnFrame
<1> QED BY <1>3, <1>4 DEF Fill

LEMMA DropRowSettled ==
  ASSUME Types, Settled, NEW q \in Request, DropRow(q), misplaced' = {}
  PROVE  Settled'
<1>1. /\ req[q] # Idle /\ req[q].op = "create" /\ req[q].step = "dropRow"
      /\ dir' = dir /\ owner' = owner /\ stamp' = stamp /\ Requests
  BY DEF DropRow, At, Types
<1>2. /\ CreatePlace(q) /\ Owns(q) = {req[q].repo} /\ Claims(q) /\ ~ RestoreMoved(q)
      /\ req[q].repo \in Repo
  BY <1>1, CreateFacts DEF Claims
<1>3. /\ SetStep(q, "removeAll") /\ "removeAll" \in Steps
      /\ row'[req[q].repo] = "gone" /\ \A x \in Repo : x # req[q].repo => row'[x] = row[x]
  BY <1>2 DEF DropRow, Types, Steps
<1>4. CreatePlace(q)'
  BY <1>1, <1>2, <1>3, StepFacts DEF CreatePlace, Nowhere
<1>5. /\ Requests' /\ OthersWait(q) /\ Place(q)' /\ Owns(q)' = Owns(q) /\ req'[q].dst = req[q].dst
      /\ Claims(q)' /\ ~ RestoreMoved(q)' /\ ~ Does(q, "restore")' /\ ~ Does(q, "delete")'
  BY <1>1, <1>3, <1>4, CreateSteps DEF Claims
<1>6. Exclusive' /\ Rest' /\ Places'
  <2>1. \A x \in Repo \ Owns(q) : Untouched(x)
    BY <1>1, <1>2, <1>3 DEF Untouched
  <2> QED BY <2>1, <1>1, <1>5, OwnFrame
<1>7. Claimed'
  BY <1>1, <1>2, <1>5, ClaimedFrame DEF Settled
<1>8. GoesBack' /\ Wikis'
  BY <1>1, <1>2, <1>5, <1>6, CopiesFrame DEF Settled
<1> QED BY <1>6, <1>7, <1>8 DEF Settled

LEMMA RemoveAllSettled ==
  ASSUME Types, Settled, NEW q \in Request, RemoveAll(q)
  PROVE  Settled'
<1>1. /\ req[q] # Idle /\ req[q].op = "create" /\ req[q].step = "removeAll"
      /\ rowVars' = rowVars /\ Requests /\ Dirs
      /\ dir' = [dir EXCEPT !["git"][req[q].dst] = NoDir] /\ Done(q)
  BY DEF RemoveAll, At, Types
<1>2. /\ CreatePlace(q) /\ Owns(q) = {req[q].repo} /\ Claims(q) /\ ~ RestoreMoved(q)
      /\ req[q].repo \in Repo /\ req[q].dst \in Path
  BY <1>1, CreateFacts DEF Claims
<1>0. PICK p \in Path, r \in Repo : p = req[q].dst /\ r = req[q].repo
  BY <1>2
<1>a. dir' = [dir EXCEPT !["git"][p] = NoDir] /\ NoDir \in Holder
  BY <1>1, <1>0 DEF Holder
<1>b. dir["git"][p] = Empty
  BY <1>2, <1>0 DEF Settled, Claimed
<1>3. /\ dir["git"][p] = Empty /\ dir'["git"][p] = NoDir
      /\ \A x \in Path : x # p => dir'["git"][x] = dir["git"][x]
      /\ \A l \in Kind : l # "git" => dir'[l] = dir[l]
  BY <1>1, <1>a, <1>b, SetGit
<1>4. \A x \in Repo : Untouched(x)
  BY <1>1, <1>2, <1>0, <1>3, DirsAssumption DEF Untouched, rowVars
<1>5. Resting(r)'
  BY <1>1, <1>2, <1>0, <1>4 DEF CreatePlace, Resting, Nowhere, Untouched
<1>6. Requests' /\ OthersWait(q) /\ req'[q] = Idle /\ Place(q)' /\ Owns(q)' = {} /\ ~ RestoreMoved(q)'
      /\ ~ Does(q, "restore")' /\ ~ Does(q, "delete")'
  BY <1>1, Ends
<1>7. Exclusive' /\ Rest' /\ Places'
  BY <1>1, <1>2, <1>0, <1>4, <1>5, <1>6, OwnFrame
<1>8. Claimed'
  BY <1>1, <1>2, <1>0, <1>3, <1>6, ClaimEnds, DirsAssumption DEF Settled
<1>9. GoesBack' /\ Wikis'
  <2>1. \A k \in Kind, x \in Path : x[2] > 0 => dir'[k][x] = dir[k][x]
    BY <1>2, <1>0, <1>3 DEF CreatePlace, Live, Kind
  <2> QED BY <1>1, <1>2, <1>0, <1>6, <1>7, <2>1, CopiesFrame DEF Settled
<1> QED BY <1>7, <1>8, <1>9 DEF Settled

LEMMA WikiPageSettled ==
  ASSUME Types, Settled, NEW q \in Request, WikiPageSave(q)
  PROVE  Settled'
<1>1. /\ req[q] # Idle /\ req[q].op = "save" /\ req[q].dst \in Path /\ req[q].dst[2] = Live
      /\ rowVars' = rowVars /\ Requests /\ Dirs /\ Done(q) /\ req[q].repo \in Repo
  BY Fields DEF WikiPageSave, At, Types, Settled, Places, Place
<1>2. /\ dir'["git"] = dir["git"]
      /\ \A x \in Path : x # req[q].dst => dir'["wiki"][x] = dir["wiki"][x]
  <2>1. CASE dir' = dir
    BY <2>1
  <2>2. CASE dir' = [dir EXCEPT !["wiki"][req[q].dst] = req[q].repo]
    BY <1>1, <2>2, SetDir DEF Kind, Holder
  <2> QED BY <2>1, <2>2 DEF WikiPageSave
<1>3. \A x \in Repo : Untouched(x)
  BY <1>1, <1>2 DEF Untouched, rowVars
<1>4. Owns(q) = {} /\ ~ Claims(q) /\ ~ RestoreMoved(q)
  BY <1>1 DEF Owns, Claims, RestoreMoved, Does
<1>5. Requests' /\ OthersWait(q) /\ req'[q] = Idle /\ Place(q)' /\ Owns(q)' = {} /\ ~ RestoreMoved(q)'
      /\ ~ Does(q, "restore")' /\ ~ Does(q, "delete")' /\ ~ Claims(q)'
  BY <1>1, Ends
<1>6. Exclusive' /\ Rest' /\ Places'
  BY <1>1, <1>3, <1>4, <1>5, OwnFrame
<1>7. Claimed'
  BY <1>1, <1>2, <1>4, <1>5, ClaimedFrame DEF Settled
<1>8. GoesBack' /\ Wikis'
  <2>1. \A k \in Kind, x \in Path : x[2] > 0 => dir'[k][x] = dir[k][x]
    BY <1>1, <1>2 DEF Live, Kind
  <2> QED BY <1>1, <1>4, <1>5, <1>6, <2>1, CopiesFrame DEF Settled
<1> QED BY <1>6, <1>7, <1>8 DEF Settled

-----------------------------------------------------------------------------
(* Deletes, restores and transfers go on *)

Moves(q) == req[q] # Idle /\ req[q].op \in {"delete", "restore", "move"}

LEMMA MoveFacts ==
  ASSUME Requests, Settled, NEW q \in Request, Moves(q)
  PROVE  /\ MovePlace(q) /\ Owns(q) = {req[q].repo} /\ req[q].repo \in Repo
         /\ req[q].src \in Path /\ req[q].dst \in Path /\ req[q].moved \in SUBSET Kind /\ ~ Claims(q)
         /\ req[q].op = "delete" => DeletePlace(q)
         /\ req[q].op = "restore" => RestorePlace(q)
         /\ req[q].op = "move" => TransferPlace(q)
BY Fields DEF Settled, Places, Place, MovePlace, Owns, Claims, Moves

LEMMA ByStep ==
  ASSUME Requests, Settled, NEW q \in Request, req[q] # Idle,
         req[q].step \in {"git", "wiki", "update", "revert"}
  PROVE  Moves(q)
BY DEF Settled, Places, Place, CreatePlace, PurgePlace, Requests, Job, Moves

LEMMA Undone ==
  ASSUME Requests, Settled, NEW q \in Request, Moves(q), req[q].moved = {}
  PROVE  Resting(req[q].repo)
<1>1. /\ MovePlace(q) /\ (req[q].op = "delete" => DeletePlace(q))
      /\ (req[q].op = "restore" => RestorePlace(q)) /\ (req[q].op = "move" => TransferPlace(q))
  BY MoveFacts
<1>2. LivesAt(req[q].repo, req[q].src)
  BY <1>1 DEF MovePlace
<1> QED BY <1>1, <1>2 DEF DeletePlace, RestorePlace, TransferPlace, Resting, LivesAt, Moves

\* The same request one step further, or with what it has moved so far.
LEMMA MoveGoesOn ==
  ASSUME Requests, Settled, NEW q \in Request, Moves(q), Requests', OthersWait(q),
         req'[q] # Idle, req'[q].op = req[q].op, req'[q].left = req[q].left,
         req'[q].repo = req[q].repo, req'[q].src = req[q].src, req'[q].dst = req[q].dst
  PROVE  /\ Moves(q)' /\ Owns(q)' = Owns(q) /\ ~ Claims(q)' /\ ~ Claims(q)
         /\ (Does(q, "delete")' <=> req[q].op = "delete") /\ (Does(q, "restore")' <=> req[q].op = "restore")
         /\ (RestoreMoved(q)' <=> req[q].op = "restore" /\ "git" \in req'[q].moved)
         /\ (RestoreMoved(q) <=> req[q].op = "restore" /\ "git" \in req[q].moved)
         /\ MovePlace(q)' => Place(q)'
BY DEF Moves, Owns, Claims, Does, RestoreMoved, Place

LEMMA MoveStepSettled ==
  ASSUME Types, Settled, NEW q \in Request, Moves(q),
         NEW s \in {"git", "wiki", "update", "revert"}, SetStep(q, s),
         dir' = dir, rowVars' = rowVars,
         s = "git" => req[q].moved = {},
         s \in {"wiki", "update"} => "git" \in req[q].moved,
         s = "wiki" => "wiki" \notin req[q].moved,
         req[q].op = "restore" /\ s = "update" => dir["wiki"][req[q].src] = NoDir
  PROVE  Settled'
<1>1. Requests /\ s \in Steps /\ req[q] # Idle
  BY DEF Types, Steps, Moves
<1>2. /\ Requests' /\ OthersWait(q)
      /\ req'[q] # Idle /\ req'[q].step = s
      /\ req'[q].op = req[q].op /\ req'[q].left = req[q].left /\ req'[q].repo = req[q].repo
      /\ req'[q].src = req[q].src /\ req'[q].dst = req[q].dst /\ req'[q].moved = req[q].moved
  BY <1>1, StepFacts
<1>3. MovePlace(q)'
  <2>1. /\ MovePlace(q)
        /\ (req[q].op = "delete" => DeletePlace(q))
        /\ (req[q].op = "restore" => RestorePlace(q)) /\ (req[q].op = "move" => TransferPlace(q))
    BY <1>1, MoveFacts
  <2> QED BY <1>2, <2>1 DEF MovePlace, DeletePlace, RestorePlace, TransferPlace, LivesAt, rowVars
<1>4. /\ Owns(q)' = Owns(q) /\ ~ Claims(q)' /\ ~ Claims(q) /\ Place(q)'
      /\ (RestoreMoved(q)' <=> RestoreMoved(q))
      /\ (Does(q, "delete")' <=> req[q].op = "delete") /\ (Does(q, "restore")' <=> req[q].op = "restore")
  BY <1>1, <1>2, <1>3, MoveGoesOn
<1>5. Does(q, "delete")' /\ req'[q].moved = {"git"} => dir["wiki"][req'[q].dst] = NoDir
  BY <1>1, <1>2, <1>4 DEF Settled, Wikis, Does
<1> QED BY <1>1, <1>2, <1>4, <1>5, GoOnFrame

\* One whose directories are back, or were never moved.
LEMMA MoveEndsSettled ==
  ASSUME Types, Settled, NEW q \in Request, Moves(q), Done(q), dir' = dir, rowVars' = rowVars,
         req[q].moved = {}
  PROVE  Settled'
<1>1. Requests /\ Resting(req[q].repo) /\ Owns(q) = {req[q].repo} /\ ~ Claims(q) /\ ~ RestoreMoved(q)
  BY Undone, MoveFacts DEF Types, RestoreMoved
<1> QED BY <1>1, Ends, GoOnFrame

LEMMA FindCopySettled ==
  ASSUME Types, Settled, NEW q \in Request, FindCopy(q)
  PROVE  Settled'
<1>1. /\ Moves(q) /\ req[q] # Idle /\ req[q].op = "restore" /\ req[q].step = "look"
      /\ dir' = dir /\ rowVars' = rowVars /\ Requests
  BY DEF FindCopy, At, Moves, Types
<1>2. MovePlace(q) /\ RestorePlace(q) /\ req[q].moved = {} /\ req[q].src \in Path /\ req[q].repo \in Repo
  BY <1>1, MoveFacts DEF MovePlace
<1>3. CASE Done(q)
  BY <1>1, <1>2, <1>3, MoveEndsSettled
<1>4. ASSUME NEW s \in CopySuffixes(req[q].src[2]), IsCopySuffix(req[q].src[1], req[q].src[2], s),
             req' = [req EXCEPT ![q].src = <<req[q].src[1], s>>, ![q].step = "git"]
      PROVE  Settled'
  <2>1. dir["git"][<<req[q].src[1], req[q].src[2]>>] # NoDir
    BY <1>2, PathHas, DirsAssumption DEF MovePlace, LivesAt
  <2>2. s = req[q].src[2]
    BY <1>4, <2>1 DEF IsCopySuffix, HasCopy, PathTaken, Kind
  <2>3. <<req[q].src[1], s>> = req[q].src
    BY <1>2, <2>2, PathHas
  <2>4. /\ Requests' /\ OthersWait(q)
        /\ req'[q] # Idle /\ req'[q].step = "git"
        /\ req'[q].op = req[q].op /\ req'[q].left = req[q].left /\ req'[q].repo = req[q].repo
        /\ req'[q].src = req[q].src /\ req'[q].dst = req[q].dst /\ req'[q].moved = req[q].moved
    BY <1>1, <1>2, <1>4, <2>3, FoundFacts
  <2>5. MovePlace(q)'
    BY <1>1, <1>2, <2>4 DEF MovePlace, RestorePlace, LivesAt, rowVars
  <2>6. /\ Owns(q)' = Owns(q) /\ ~ Claims(q)' /\ ~ Claims(q) /\ Place(q)'
        /\ (RestoreMoved(q)' <=> RestoreMoved(q)) /\ ~ Does(q, "delete")'
    BY <1>1, <2>4, <2>5, MoveGoesOn
  <2> QED BY <1>1, <2>4, <2>6, GoOnFrame
<1> QED BY <1>3, <1>4 DEF FindCopy

LEMMA CheckTargetSettled ==
  ASSUME Types, Settled, NEW q \in Request, CheckTarget(q)
  PROVE  Settled'
<1>1. /\ Moves(q) /\ req[q] # Idle /\ req[q].op = "move" /\ req[q].step = "look"
      /\ dir' = dir /\ rowVars' = rowVars /\ Requests
  BY DEF CheckTarget, At, Moves, Types
<1>2. req[q].moved = {}
  BY <1>1, MoveFacts DEF MovePlace
<1>3. CASE Done(q)
  BY <1>1, <1>2, <1>3, MoveEndsSettled
<1>4. CASE SetStep(q, "git")
  BY <1>1, <1>2, <1>4, MoveStepSettled
<1> QED BY <1>3, <1>4 DEF CheckTarget

Where(q) == IF "git" \in req[q].moved THEN req[q].dst ELSE req[q].src

LEMMA WhereIs ==
  ASSUME Requests, Settled, NEW q \in Request, Moves(q)
  PROVE  Where(q) \in Path /\ dir["git"][Where(q)] = req[q].repo /\ dir["git"][Where(q)] # NoDir
<1>1. Where(q) \in Path /\ LivesAt(req[q].repo, Where(q)) /\ req[q].repo \in Repo
  BY MoveFacts DEF MovePlace, Where
<1> QED BY <1>1, DirsAssumption DEF LivesAt

LEMMA OnePlace ==
  ASSUME Requests, Settled, NEW p \in Request, NEW q \in Request, Moves(p), Moves(q),
         Where(p) = Where(q)
  PROVE  p = q
<1>1. req[p].repo = req[q].repo /\ Owns(p) = {req[p].repo} /\ Owns(q) = {req[q].repo}
  BY WhereIs, MoveFacts
<1> QED BY <1>1 DEF Settled, Exclusive

\* No copy of the second at which one request deletes is on its way back.
LEMMA NoneReturns ==
  ASSUME Requests, Settled, NEW p \in Request, NEW q \in Request,
         Moves(q), req[q].op = "delete", "git" \notin req[q].moved,
         RestoreMoved(p), req[p].src = req[q].dst
  PROVE  FALSE
<1>1. Moves(p) /\ req[p].op = "restore" /\ Where(p) = req[p].dst /\ Where(q) = req[q].src
  BY DEF RestoreMoved, Does, Moves, Where
<1>2. /\ RestorePlace(p) /\ DeletePlace(q)
      /\ req[p].src \in Path /\ req[q].dst \in Path
  BY <1>1, MoveFacts
<1>3. req[p].dst = req[q].src
  BY <1>2 DEF RestorePlace, DeletePlace
<1>4. p = q
  BY <1>1, <1>3, OnePlace
<1> QED BY <1>1, <1>4

Renamed(q, k, s) ==
  /\ PathTaken(k, req[q].src) /\ ~ PathTaken(k, req[q].dst)
  /\ dir' = [dir EXCEPT ![k][req[q].dst] = dir[k][req[q].src], ![k][req[q].src] = NoDir]
  /\ req' = [req EXCEPT ![q].moved = @ \cup {k}, ![q].step = s]

LEMMA RenamedFacts ==
  ASSUME Requests, Dirs, NEW q \in Request, req[q] # Idle, NEW k \in Kind, NEW s \in Steps,
         NEW from \in Path, NEW to \in Path, from = req[q].src, to = req[q].dst, Renamed(q, k, s)
  PROVE  /\ from # to /\ dir[k][from] # NoDir /\ dir[k][to] = NoDir
         /\ dir'[k][to] = dir[k][from] /\ dir'[k][from] = NoDir
         /\ \A x \in Path : x # from /\ x # to => dir'[k][x] = dir[k][x]
         /\ \A l \in Kind : l # k => dir'[l] = dir[l]
         /\ Requests' /\ OthersWait(q)
         /\ req'[q] # Idle /\ req'[q].step = s
         /\ req'[q].op = req[q].op /\ req'[q].left = req[q].left /\ req'[q].repo = req[q].repo
         /\ req'[q].src = from /\ req'[q].dst = to /\ req'[q].moved = req[q].moved \cup {k}
<1>1. from # to /\ dir[k][from] # NoDir /\ dir[k][to] = NoDir
  BY DEF Renamed, PathTaken
<1>2. dir' = [dir EXCEPT ![k][to] = dir[k][from], ![k][from] = NoDir]
  BY DEF Renamed
<1>3. req' = [req EXCEPT ![q].moved = @ \cup {k}, ![q].step = s]
  BY DEF Renamed
<1>4. /\ dir'[k][to] = dir[k][from] /\ dir'[k][from] = NoDir
      /\ \A x \in Path : x # from /\ x # to => dir'[k][x] = dir[k][x]
      /\ \A l \in Kind : l # k => dir'[l] = dir[l]
  BY <1>1, <1>2 DEF Dirs, Holder
<1>5. /\ Requests' /\ OthersWait(q)
      /\ req'[q] # Idle /\ req'[q].step = s
      /\ req'[q].op = req[q].op /\ req'[q].left = req[q].left /\ req'[q].repo = req[q].repo
      /\ req'[q].src = req[q].src /\ req'[q].dst = req[q].dst
      /\ req'[q].moved = req[q].moved \cup {k}
  BY <1>3, MovedFacts
<1> QED BY <1>1, <1>4, <1>5

LEMMA RenameGitSettled ==
  ASSUME Types, Settled, NEW q \in Request, req[q] # Idle, req[q].step = "git",
         Renamed(q, "git", "wiki"), rowVars' = rowVars
  PROVE  Settled'
<1>1. Requests /\ Dirs /\ "git" \in Kind /\ "wiki" \in Steps /\ "wiki" \in Kind
  BY DEF Types, Kind, Steps
<1>2. Moves(q)
  BY <1>1, ByStep
<1>3. PICK r \in Repo : r = req[q].repo
  BY <1>1, <1>2, MoveFacts
<1>20. PICK from \in Path, to \in Path : from = req[q].src /\ to = req[q].dst
  BY <1>1, <1>2, MoveFacts
<1>4. /\ MovePlace(q) /\ Owns(q) = {r} /\ req[q].moved = {} /\ LivesAt(r, from) /\ Where(q) = from
  BY <1>1, <1>2, <1>3, <1>20, MoveFacts DEF MovePlace, Where
<1>5. /\ Requests' /\ OthersWait(q) /\ req'[q] # Idle /\ req'[q].step = "wiki"
      /\ req'[q].op = req[q].op /\ req'[q].left = req[q].left /\ req'[q].repo = r
      /\ req'[q].src = from /\ req'[q].dst = to /\ req'[q].moved = {"git"}
  BY <1>1, <1>3, <1>4, <1>20, RenamedFacts
<1>6. from # to /\ dir["git"][from] = r /\ dir["git"][to] = NoDir
  BY <1>1, <1>4, <1>20, RenamedFacts DEF LivesAt
<1>7. /\ dir'["git"][to] = r /\ dir'["git"][from] = NoDir
      /\ \A x \in Path : x # from /\ x # to => dir'["git"][x] = dir["git"][x]
      /\ dir'["wiki"] = dir["wiki"]
  BY <1>1, <1>6, <1>20, RenamedFacts
<1>8. LivesAt(r, to)'
  BY <1>4, <1>6, <1>7, DirsAssumption DEF LivesAt
<1>9. MovePlace(q)'
  BY <1>3, <1>20, <1>4, <1>5, <1>8 DEF MovePlace, DeletePlace, RestorePlace, TransferPlace, rowVars
<1>10. /\ Owns(q)' = Owns(q) /\ ~ Claims(q)' /\ ~ Claims(q) /\ Place(q)'
       /\ (RestoreMoved(q)' <=> req[q].op = "restore") /\ ~ RestoreMoved(q)
       /\ (Does(q, "delete")' <=> req[q].op = "delete") /\ (Does(q, "restore")' <=> req[q].op = "restore")
  BY <1>1, <1>2, <1>3, <1>20, <1>4, <1>5, <1>9, MoveGoesOn
<1>11. Exclusive' /\ Rest' /\ Places'
  <2>1. \A x \in Repo \ Owns(q) : Untouched(x)
    BY <1>4, <1>6, <1>7, DirsAssumption DEF Untouched, rowVars
  <2> QED BY <1>1, <1>5, <1>10, <2>1, OwnFrame
<1>12. Claimed'
  <2>1. \A x \in Path : dir'["git"][x] = Empty <=> dir["git"][x] = Empty
    BY <1>6, <1>7, DirsAssumption
  <2> QED BY <2>1, <1>1, <1>5, <1>10, ClaimedFrame DEF Settled
<1>13. \A p \in Request : RestoreMoved(p) => p # q /\ req[p].src # to
  <2> SUFFICES ASSUME NEW p \in Request, RestoreMoved(p), req[p].src = to PROVE FALSE
    BY <1>10
  <2>1. Moves(p) /\ req[p].op = "restore"
    BY DEF RestoreMoved, Does, Moves
  <2>2. RestorePlace(p)
    BY <2>1, <1>1, MoveFacts
  <2>3. req[q].dst[2] > 0
    BY <1>20, <2>2 DEF RestorePlace
  <2>4. req[q].op = "delete"
    BY <1>1, <1>2, <2>3, MoveFacts DEF RestorePlace, TransferPlace, Live, Moves
  <2> QED BY <1>1, <1>2, <1>4, <1>20, <2>4, NoneReturns
<1>14. \A p \in Request \ {q} : req'[p] = req[p] /\ (RestoreMoved(p)' <=> RestoreMoved(p))
  BY <1>5 DEF OthersWait, RestoreMoved, Does
<1>15. GoesBack'
  <2> SUFFICES ASSUME NEW p \in Request, RestoreMoved(p)' PROVE dir'["git"][req'[p].src] = NoDir
    BY DEF GoesBack, RestoreMoved
  <2>1. CASE p = q
    BY <2>1, <1>5, <1>7
  <2>2. CASE p # q
    <3>1. RestoreMoved(p) /\ req'[p] = req[p] /\ req[p].src # to
      BY <2>2, <1>13, <1>14
    <3>2. req[p].src \in Path /\ dir["git"][req[p].src] = NoDir
      BY <3>1, <1>1, Fields DEF Settled, GoesBack, RestoreMoved, Does
    <3> QED BY <3>1, <3>2, <1>7
  <2> QED BY <2>1, <2>2
<1>16. ASSUME NEW p \in Request, Does(p, "restore")', req'[p].step = "update"
       PROVE  dir'["wiki"][req'[p].src] = NoDir
  BY <1>5, <1>7, <1>14, <1>16 DEF OthersWait, Does, Settled, Wikis
<1>17. ASSUME NEW p \in Request, Does(p, "delete")', req'[p].moved = {"git"}
       PROVE  dir'["wiki"][req'[p].dst] = NoDir
  <2>1. CASE p = q
    <3>1. DeletePlace(q)
      BY <2>1, <1>1, <1>2, <1>10, <1>17, MoveFacts
    <3>2. dir["wiki"][to] = NoDir
      BY <3>1, <1>20, <1>6, <1>13 DEF Settled, Wikis, DeletePlace, RestoreMoved
    <3> QED BY <2>1, <3>2, <1>5, <1>7
  <2>2. CASE p # q
    BY <2>2, <1>5, <1>7, <1>17 DEF OthersWait, Does, Settled, Wikis
  <2> QED BY <2>1, <2>2
<1>18. ASSUME NEW x \in Path, x[2] > 0, dir'["wiki"][x] # NoDir, dir'["git"][x] = NoDir
       PROVE  \E p \in Request : RestoreMoved(p)' /\ req'[p].src = x
  <2>1. CASE dir["git"][x] # NoDir
    <3>1. x = from
      BY <2>1, <1>6, <1>7, <1>18
    <3>2. req[q].op = "restore"
      BY <3>1, <1>1, <1>2, <1>18, <1>20, MoveFacts DEF DeletePlace, TransferPlace, Live, Moves
    <3> QED BY <3>1, <3>2, <1>5, <1>10
  <2>2. CASE dir["git"][x] = NoDir
    <3>1. PICK p \in Request : RestoreMoved(p) /\ req[p].src = x
      BY <2>2, <1>7, <1>18 DEF Settled, Wikis, RestoreMoved
    <3> QED BY <3>1, <1>13, <1>14
  <2> QED BY <2>1, <2>2
<1>19. Wikis'
  BY <1>16, <1>17, <1>18 DEF Wikis, RestoreMoved
<1> QED BY <1>11, <1>12, <1>15, <1>19 DEF Settled

LEMMA RenameWikiSettled ==
  ASSUME Types, Settled, NEW q \in Request, req[q] # Idle, req[q].step = "wiki",
         Renamed(q, "wiki", "update"), rowVars' = rowVars
  PROVE  Settled'
<1>1. Requests /\ Dirs /\ "git" \in Kind /\ "update" \in Steps /\ "wiki" \in Kind
  BY DEF Types, Kind, Steps
<1>2. Moves(q)
  BY <1>1, ByStep
<1>3. PICK r \in Repo : r = req[q].repo
  BY <1>1, <1>2, MoveFacts
<1>4. PICK from \in Path, to \in Path : from = req[q].src /\ to = req[q].dst
  BY <1>1, <1>2, MoveFacts
<1>5. /\ MovePlace(q) /\ Owns(q) = {r} /\ "git" \in req[q].moved /\ Where(q) = to
      /\ dir["git"][to] = r
  BY <1>1, <1>2, <1>3, <1>4, MoveFacts, WhereIs DEF MovePlace, Where
<1>6. /\ Requests' /\ OthersWait(q) /\ req'[q] # Idle /\ req'[q].step = "update"
      /\ req'[q].op = req[q].op /\ req'[q].left = req[q].left /\ req'[q].repo = r
      /\ req'[q].src = from /\ req'[q].dst = to /\ req'[q].moved = req[q].moved \cup {"wiki"}
  BY <1>1, <1>3, <1>4, RenamedFacts
<1>7. /\ dir'["wiki"][from] = NoDir
      /\ \A x \in Path : x # from /\ x # to => dir'["wiki"][x] = dir["wiki"][x]
      /\ dir'["git"] = dir["git"]
  BY <1>1, <1>4, RenamedFacts
<1>8. MovePlace(q)'
  BY <1>3, <1>4, <1>5, <1>6, <1>7 DEF MovePlace, DeletePlace, RestorePlace, TransferPlace, LivesAt, rowVars
<1>9. /\ Owns(q)' = Owns(q) /\ ~ Claims(q)' /\ ~ Claims(q) /\ Place(q)'
      /\ (RestoreMoved(q)' <=> RestoreMoved(q))
      /\ (Does(q, "delete")' <=> req[q].op = "delete") /\ (Does(q, "restore")' <=> req[q].op = "restore")
  BY <1>1, <1>2, <1>3, <1>4, <1>5, <1>6, <1>8, MoveGoesOn
<1>10. Exclusive' /\ Rest' /\ Places'
  <2>1. \A x \in Repo \ Owns(q) : Untouched(x)
    BY <1>7 DEF Untouched, rowVars
  <2> QED BY <1>1, <1>6, <1>9, <2>1, OwnFrame
<1>11. Claimed'
  BY <1>1, <1>6, <1>7, <1>9, ClaimedFrame DEF Settled
<1>12. \A p \in Request \ {q} : req'[p] = req[p] /\ (RestoreMoved(p)' <=> RestoreMoved(p))
  BY <1>6 DEF OthersWait, RestoreMoved, Does
<1>13. GoesBack'
  BY <1>4, <1>6, <1>7, <1>9, <1>12 DEF Settled, GoesBack, RestoreMoved
<1>14. ASSUME NEW p \in Request, Does(p, "restore")', req'[p].step = "update"
       PROVE  dir'["wiki"][req'[p].src] = NoDir
  <2>1. CASE p = q
    BY <2>1, <1>6, <1>7
  <2>2. CASE p # q
    <3>1. Does(p, "restore") /\ req'[p] = req[p] /\ req[p].step = "update"
      BY <2>2, <1>12, <1>14 DEF Does
    <3>2. Moves(p) /\ RestoreMoved(p) /\ req[p].src \in Path
      BY <3>1, <1>1, MoveFacts DEF Does, Moves, MovePlace, RestoreMoved
    <3>3. dir["git"][req[p].src] = NoDir /\ dir["wiki"][req[p].src] = NoDir
      BY <3>1, <3>2 DEF Settled, GoesBack, Wikis, RestoreMoved
    <3>4. req[p].src # to
      BY <3>3, <1>5, DirsAssumption
    <3> QED BY <3>1, <3>2, <3>3, <3>4, <1>7
  <2> QED BY <2>1, <2>2
<1>15. ASSUME NEW p \in Request, Does(p, "delete")', req'[p].moved = {"git"}
       PROVE  dir'["wiki"][req'[p].dst] = NoDir
  <2>1. p # q
    BY <1>6, <1>15
  <2>2. Does(p, "delete") /\ req'[p] = req[p] /\ req[p].moved = {"git"}
    BY <2>1, <1>12, <1>15 DEF Does
  <2>3. Moves(p) /\ DeletePlace(p) /\ Where(p) = req[p].dst /\ req[p].dst \in Path
    BY <2>2, <1>1, MoveFacts DEF Does, Moves, Where
  <2>4. req[p].dst # to
    BY <2>1, <2>3, <1>1, <1>2, <1>5, OnePlace
  <2>5. req[p].dst[2] > 0 /\ dir["wiki"][req[p].dst] = NoDir
    BY <2>2, <2>3 DEF Settled, Wikis, DeletePlace
  <2> QED BY <2>2, <2>3, <2>4, <2>5, <1>7
<1>16. ASSUME NEW x \in Path, x[2] > 0, dir'["wiki"][x] # NoDir, dir'["git"][x] = NoDir
       PROVE  \E p \in Request : RestoreMoved(p)' /\ req'[p].src = x
  <2>1. x # to /\ x # from
    BY <1>5, <1>7, <1>16, DirsAssumption
  <2>2. PICK p \in Request : RestoreMoved(p) /\ req[p].src = x
    BY <2>1, <1>7, <1>16 DEF Settled, Wikis, RestoreMoved
  <2> QED BY <2>1, <2>2, <1>4, <1>12
<1>17. Wikis'
  BY <1>14, <1>15, <1>16 DEF Wikis, RestoreMoved
<1> QED BY <1>10, <1>11, <1>13, <1>17 DEF Settled

LEMMA RenameDirSettled ==
  ASSUME Types, Settled, NEW q \in Request, NEW k \in Kind, RenameDir(q, k), misplaced' = {}
  PROVE  Settled'
<1>1. /\ req[q] # Idle /\ req[q].step = k /\ rowVars' = rowVars /\ Requests
      /\ k \in {"git", "wiki"}
  BY DEF RenameDir, Types, Kind
<1>2. Moves(q)
  BY <1>1, ByStep
<1>3. /\ MovePlace(q) /\ req[q].src \in Path /\ req[q].dst \in Path
      /\ dir["git"][Where(q)] # NoDir
      /\ k = "git" => req[q].moved = {} /\ Where(q) = req[q].src
      /\ k = "wiki" => "git" \in req[q].moved
  BY <1>1, <1>2, MoveFacts, WhereIs DEF MovePlace, Where
<1>4. CASE ~ PathTaken(k, req[q].src) /\ SetStep(q, IF k = "git" THEN "wiki" ELSE "update") /\ dir' = dir
  <2>1. k = "wiki" /\ dir["wiki"][req[q].src] = NoDir
    BY <1>1, <1>3, <1>4 DEF PathTaken
  <2>2. SetStep(q, "update")
    BY <1>4, <2>1
  <2> QED BY <1>1, <1>2, <1>3, <1>4, <2>1, <2>2, MoveStepSettled
<1>5. CASE PathTaken(k, req[q].src) /\ PathTaken(k, req[q].dst) /\ SetStep(q, "revert") /\ dir' = dir
  BY <1>1, <1>2, <1>5, MoveStepSettled
<1>6. CASE Renamed(q, k, IF k = "git" THEN "wiki" ELSE "update")
  <2>1. CASE k = "git"
    <3>1. Renamed(q, "git", "wiki")
      BY <1>6, <2>1
    <3> QED BY <1>1, <2>1, <3>1, RenameGitSettled
  <2>2. CASE k = "wiki"
    <3>1. Renamed(q, "wiki", "update")
      BY <1>6, <2>2
    <3> QED BY <1>1, <2>2, <3>1, RenameWikiSettled
  <2> QED BY <1>1, <2>1, <2>2
<1> QED BY <1>4, <1>5, <1>6 DEF RenameDir, Renamed

LEMMA UpdateRowSettled ==
  ASSUME Types, Settled, NEW q \in Request, UpdateRow(q)
  PROVE  Settled'
<1>1. req[q] # Idle /\ req[q].step = "update" /\ dir' = dir /\ Requests
  BY DEF UpdateRow, Types
<1>2. Moves(q)
  BY <1>1, ByStep
<1>3. PICK r \in Repo : r = req[q].repo
  BY <1>1, <1>2, MoveFacts
<1>4. /\ MovePlace(q) /\ Owns(q) = {r} /\ ~ Claims(q) /\ "git" \in req[q].moved
      /\ LivesAt(r, req[q].dst)
      /\ req[q].dst \in Path /\ req[q].dst = <<req[q].dst[1], req[q].dst[2]>> /\ req[q].src \in Path
      /\ (req[q].op = "delete" => DeletePlace(q))
      /\ (req[q].op = "restore" => RestorePlace(q)) /\ (req[q].op = "move" => TransferPlace(q))
  BY <1>1, <1>2, <1>3, MoveFacts, PathHas DEF MovePlace
<1>5. RestoreMoved(q) => dir["wiki"][req[q].src] = NoDir
  BY <1>1 DEF Settled, Wikis, RestoreMoved
<1>6. CASE WriteRow(q) /\ Done(q)
  <2>1. Requests' /\ OthersWait(q) /\ Place(q)' /\ Owns(q)' = {} /\ ~ Claims(q)' /\ ~ RestoreMoved(q)'
        /\ ~ Does(q, "restore")' /\ ~ Does(q, "delete")'
    BY <1>6, Ends
  <2>2. \A x \in Repo : x # r => row'[x] = row[x] /\ owner'[x] = owner[x] /\ stamp'[x] = stamp[x]
    BY <1>3, <1>6 DEF WriteRow, Types
  <2>3. /\ row'[r] = IF req[q].op = "delete" THEN "deleted" ELSE "live"
        /\ owner'[r] = IF req[q].op = "move" THEN req[q].dst[1] ELSE owner[r]
        /\ stamp'[r] = IF req[q].op = "delete" THEN req[q].dst[2] ELSE stamp[r]
    BY <1>3, <1>6 DEF WriteRow, Types
  <2>4. Resting(r)'
    <3>1. LivesAt(r, req[q].dst) /\ dir' = dir
      BY <1>1, <1>4
    <3>2. CASE req[q].op = "delete"
      <4>1. req[q].dst = <<owner'[r], stamp'[r]>> /\ stamp'[r] > 0 /\ row'[r] = "deleted"
        BY <3>2, <2>3, <1>3, <1>4 DEF DeletePlace
      <4> QED BY <3>1, <4>1 DEF Resting, LivesAt
    <3>3. CASE req[q].op = "restore"
      <4>1. req[q].dst = <<owner'[r], Live>> /\ row'[r] = "live"
        BY <3>3, <2>3, <1>3, <1>4 DEF RestorePlace
      <4> QED BY <3>1, <4>1 DEF Resting, LivesAt
    <3>4. CASE req[q].op = "move"
      <4>1. req[q].dst = <<owner'[r], Live>> /\ row'[r] = "live"
        BY <3>4, <2>3, <1>3, <1>4 DEF TransferPlace
      <4> QED BY <3>1, <4>1 DEF Resting, LivesAt
    <3> QED BY <3>2, <3>3, <3>4, <1>2 DEF Moves
  <2>5. Exclusive' /\ Rest' /\ Places'
    <3>1. \A x \in Repo \ Owns(q) : Untouched(x)
      BY <1>1, <1>4, <2>2 DEF Untouched
    <3> QED BY <1>1, <1>4, <2>1, <2>4, <3>1, OwnFrame
  <2>6. Claimed'
    BY <1>1, <1>4, <2>1, ClaimedFrame DEF Settled
  <2>7. GoesBack' /\ Wikis'
    BY <1>1, <1>5, <2>1, <2>5, CopiesFrame DEF Settled
  <2> QED BY <2>5, <2>6, <2>7 DEF Settled
<1>7. CASE SetStep(q, "revert") /\ UNCHANGED rowVars
  BY <1>1, <1>2, <1>7, MoveStepSettled
<1> QED BY <1>6, <1>7 DEF UpdateRow

Reverted(q, k) ==
  /\ PathTaken(k, req[q].dst) /\ ~ PathTaken(k, req[q].src)
  /\ dir' = [dir EXCEPT ![k][req[q].src] = dir[k][req[q].dst], ![k][req[q].dst] = NoDir]

LEMMA RevertedFacts ==
  ASSUME Dirs, NEW q \in Request, NEW k \in Kind,
         NEW from \in Path, NEW to \in Path, from = req[q].dst, to = req[q].src, Reverted(q, k)
  PROVE  /\ from # to /\ dir[k][to] = NoDir
         /\ dir'[k][to] = dir[k][from] /\ dir'[k][from] = NoDir
         /\ \A x \in Path : x # from /\ x # to => dir'[k][x] = dir[k][x]
         /\ \A l \in Kind : l # k => dir'[l] = dir[l]
<1>1. from # to /\ dir[k][from] # NoDir /\ dir[k][to] = NoDir
  BY DEF Reverted, PathTaken
<1>2. dir' = [dir EXCEPT ![k][to] = dir[k][from], ![k][from] = NoDir]
  BY DEF Reverted
<1> QED BY <1>1, <1>2 DEF Dirs, Holder

LEMMA RevertWikiSettled ==
  ASSUME Types, Settled, NEW q \in Request, req[q] # Idle, req[q].step = "revert",
         "wiki" \in req[q].moved,
         Reverted(q, "wiki") \/ dir' = dir,
         req[q].op = "delete" => dir'["wiki"][req[q].dst] = NoDir,
         req' = [req EXCEPT ![q].moved = @ \ {"wiki"}],
         rowVars' = rowVars
  PROVE  Settled'
<1>1. Requests /\ Dirs /\ "git" \in Kind /\ "wiki" \in Kind
  BY DEF Types, Kind
<1>2. Moves(q)
  BY <1>1, ByStep
<1>3. PICK r \in Repo : r = req[q].repo
  BY <1>1, <1>2, MoveFacts
<1>4. PICK from \in Path, to \in Path : from = req[q].dst /\ to = req[q].src
  BY <1>1, <1>2, MoveFacts
<1>5. /\ MovePlace(q) /\ Owns(q) = {r} /\ dir["git"][Where(q)] # NoDir
      /\ ("git" \in req[q].moved => Where(q) = from) /\ ("git" \notin req[q].moved => Where(q) = to)
  BY <1>1, <1>2, <1>3, <1>4, MoveFacts, WhereIs DEF Where
<1>6. /\ Requests' /\ OthersWait(q) /\ req'[q] # Idle /\ req'[q].step = "revert"
      /\ req'[q].op = req[q].op /\ req'[q].left = req[q].left /\ req'[q].repo = r
      /\ req'[q].src = to /\ req'[q].dst = from /\ req'[q].moved = req[q].moved \ {"wiki"}
  BY <1>1, <1>3, <1>4, RevertFacts
<1>7. /\ \A x \in Path : x # from /\ x # to => dir'["wiki"][x] = dir["wiki"][x]
      /\ dir'["wiki"][from] = NoDir \/ dir' = dir
      /\ dir'["git"] = dir["git"]
  <2>1. CASE dir' = dir
    BY <2>1
  <2>2. CASE Reverted(q, "wiki")
    BY <1>1, <1>4, <2>2, RevertedFacts
  <2> QED BY <2>1, <2>2
<1>8. MovePlace(q)'
  BY <1>3, <1>4, <1>5, <1>6, <1>7 DEF MovePlace, DeletePlace, RestorePlace, TransferPlace, LivesAt, rowVars
<1>9. /\ Owns(q)' = Owns(q) /\ ~ Claims(q)' /\ ~ Claims(q) /\ Place(q)'
      /\ (RestoreMoved(q)' <=> RestoreMoved(q))
      /\ (Does(q, "delete")' <=> req[q].op = "delete") /\ (Does(q, "restore")' <=> req[q].op = "restore")
  BY <1>1, <1>2, <1>3, <1>4, <1>5, <1>6, <1>8, MoveGoesOn
<1>10. Exclusive' /\ Rest' /\ Places'
  <2>1. \A x \in Repo \ Owns(q) : Untouched(x)
    BY <1>7 DEF Untouched, rowVars
  <2> QED BY <1>1, <1>6, <1>9, <2>1, OwnFrame
<1>11. Claimed'
  BY <1>1, <1>6, <1>7, <1>9, ClaimedFrame DEF Settled
<1>12. \A p \in Request \ {q} : req'[p] = req[p] /\ (RestoreMoved(p)' <=> RestoreMoved(p))
  BY <1>6 DEF OthersWait, RestoreMoved, Does
<1>13. GoesBack'
  BY <1>4, <1>6, <1>7, <1>9, <1>12 DEF Settled, GoesBack, RestoreMoved
<1>14. to[2] > 0 => req[q].op = "restore"
  BY <1>1, <1>2, <1>4, MoveFacts DEF DeletePlace, TransferPlace, Live, Moves
<1>15. from[2] > 0 => req[q].op = "delete"
  BY <1>1, <1>2, <1>4, MoveFacts DEF RestorePlace, TransferPlace, Live, Moves
<1>16. from[2] > 0 => dir'["wiki"][from] = NoDir
  BY <1>4, <1>15
<1>17. \A x \in Path : x[2] > 0 /\ x # to => dir'["wiki"][x] \in {dir["wiki"][x], NoDir}
  BY <1>7, <1>16
<1>18. ASSUME NEW p \in Request, p # q, Does(p, "restore")', req'[p].step = "update"
       PROVE  dir'["wiki"][req'[p].src] = NoDir
  <2>1. Does(p, "restore") /\ req'[p] = req[p] /\ req[p].step = "update"
    BY <1>12, <1>18 DEF Does
  <2>2. Moves(p) /\ RestorePlace(p) /\ RestoreMoved(p) /\ req[p].src \in Path /\ Where(p) = req[p].dst
    BY <2>1, <1>1, MoveFacts DEF Does, Moves, MovePlace, RestoreMoved, Where
  <2>3. /\ dir["git"][req[p].src] = NoDir /\ dir["wiki"][req[p].src] = NoDir
        /\ req[p].src[2] > 0 /\ req[p].dst = <<req[p].src[1], Live>>
    BY <2>1, <2>2 DEF Settled, GoesBack, Wikis, RestoreMoved, RestorePlace
  <2>4. req[p].src # to
    <3> SUFFICES ASSUME req[p].src = to PROVE FALSE
      OBVIOUS
    <3>1. RestorePlace(q)
      BY <2>3, <1>1, <1>2, <1>14, MoveFacts
    <3>2. req[q].dst = <<req[q].src[1], Live>>
      BY <3>1 DEF RestorePlace
    <3>3. CASE "git" \in req[q].moved
      <4>1. Where(p) = Where(q)
        BY <3>2, <3>3, <2>2, <2>3, <1>4, <1>5
      <4> QED BY <4>1, <1>18, <1>1, <1>2, <2>2, OnePlace
    <3>4. CASE "git" \notin req[q].moved
      BY <3>4, <2>3, <1>5
    <3> QED BY <3>3, <3>4
  <2> QED BY <2>1, <2>2, <2>3, <2>4, <1>17
<1>19. ASSUME NEW p \in Request, p # q, Does(p, "delete")', req'[p].moved = {"git"}
       PROVE  dir'["wiki"][req'[p].dst] = NoDir
  <2>1. Does(p, "delete") /\ req'[p] = req[p] /\ req[p].moved = {"git"}
    BY <1>12, <1>19 DEF Does
  <2>2. /\ Moves(p) /\ DeletePlace(p) /\ Where(p) = req[p].dst /\ req[p].dst \in Path
        /\ dir["git"][Where(p)] # NoDir
    BY <2>1, <1>1, MoveFacts, WhereIs DEF Does, Moves, Where
  <2>3. req[p].dst[2] > 0 /\ dir["wiki"][req[p].dst] = NoDir
    BY <2>1, <2>2 DEF Settled, Wikis, DeletePlace
  <2>4. req[p].dst # to
    <3> SUFFICES ASSUME req[p].dst = to PROVE FALSE
      OBVIOUS
    <3>1. CASE "git" \in req[q].moved
      BY <3>1, <2>2, <2>3, <1>4, <1>14 DEF Settled, GoesBack, Does, Moves
    <3>2. CASE "git" \notin req[q].moved
      BY <3>2, <1>19, <1>1, <1>2, <1>5, <2>2, OnePlace
    <3> QED BY <3>1, <3>2
  <2> QED BY <2>1, <2>2, <2>3, <2>4, <1>17
<1>20. ASSUME NEW x \in Path, x[2] > 0, dir'["wiki"][x] # NoDir, dir'["git"][x] = NoDir
       PROVE  \E p \in Request : RestoreMoved(p)' /\ req'[p].src = x
  <2>1. CASE x = to
    <3>1. "git" \in req[q].moved /\ req[q].op = "restore"
      BY <2>1, <1>5, <1>7, <1>14, <1>20
    <3> QED BY <2>1, <3>1, <1>4, <1>6, <1>9 DEF RestoreMoved, Does
  <2>2. CASE x # to
    <3>1. PICK p \in Request : RestoreMoved(p) /\ req[p].src = x
      BY <2>2, <1>7, <1>17, <1>20 DEF Settled, Wikis, RestoreMoved
    <3> QED BY <2>2, <3>1, <1>4, <1>12
  <2> QED BY <2>1, <2>2
<1>21. Does(q, "delete")' => dir'["wiki"][req'[q].dst] = NoDir
  BY <1>4, <1>6, <1>9
<1>22. Wikis'
  BY <1>6, <1>18, <1>19, <1>20, <1>21 DEF Wikis, RestoreMoved
<1> QED BY <1>10, <1>11, <1>13, <1>22 DEF Settled

LEMMA RevertGitSettled ==
  ASSUME Types, Settled, NEW q \in Request, req[q] # Idle, req[q].step = "revert",
         req[q].moved # {}, "wiki" \notin req[q].moved,
         Reverted(q, "git"),
         req' = [req EXCEPT ![q].moved = @ \ {"git"}],
         rowVars' = rowVars
  PROVE  Settled'
<1>1. Requests /\ Dirs /\ "git" \in Kind /\ "wiki" \in Kind
  BY DEF Types, Kind
<1>2. Moves(q)
  BY <1>1, ByStep
<1>3. PICK r \in Repo : r = req[q].repo
  BY <1>1, <1>2, MoveFacts
<1>4. PICK from \in Path, to \in Path : from = req[q].dst /\ to = req[q].src
  BY <1>1, <1>2, MoveFacts
<1>5. req[q].moved = {"git"} /\ req[q].moved \ {"git"} = {}
  BY <1>1, <1>2, MoveFacts DEF Kind
<1>6. /\ MovePlace(q) /\ Owns(q) = {r} /\ Where(q) = from /\ LivesAt(r, from)
  BY <1>1, <1>2, <1>3, <1>4, <1>5, MoveFacts DEF Where, MovePlace
<1>7. /\ Requests' /\ OthersWait(q) /\ req'[q] # Idle /\ req'[q].step = "revert"
      /\ req'[q].op = req[q].op /\ req'[q].left = req[q].left /\ req'[q].repo = r
      /\ req'[q].src = to /\ req'[q].dst = from /\ req'[q].moved = {}
  BY <1>1, <1>3, <1>4, <1>5, RevertFacts
<1>8. /\ from # to /\ dir["git"][from] = r /\ dir["git"][to] = NoDir
      /\ dir'["git"][to] = r /\ dir'["git"][from] = NoDir
      /\ \A x \in Path : x # from /\ x # to => dir'["git"][x] = dir["git"][x]
      /\ dir'["wiki"] = dir["wiki"]
  BY <1>1, <1>4, <1>6, RevertedFacts DEF LivesAt
<1>9. LivesAt(r, to)'
  BY <1>6, <1>8, DirsAssumption DEF LivesAt
<1>10. MovePlace(q)'
  BY <1>3, <1>4, <1>6, <1>7, <1>9 DEF MovePlace, DeletePlace, RestorePlace, TransferPlace, rowVars
<1>11. /\ Owns(q)' = Owns(q) /\ ~ Claims(q)' /\ ~ Claims(q) /\ Place(q)' /\ ~ RestoreMoved(q)'
       /\ (Does(q, "restore")' <=> req[q].op = "restore")
  BY <1>1, <1>2, <1>3, <1>4, <1>5, <1>7, <1>10, MoveGoesOn
<1>12. Exclusive' /\ Rest' /\ Places'
  <2>1. \A x \in Repo \ Owns(q) : Untouched(x)
    BY <1>6, <1>8, DirsAssumption DEF Untouched, rowVars
  <2> QED BY <1>1, <1>7, <1>11, <2>1, OwnFrame
<1>13. Claimed'
  <2>1. \A x \in Path : dir'["git"][x] = Empty <=> dir["git"][x] = Empty
    BY <1>8, DirsAssumption
  <2> QED BY <2>1, <1>1, <1>7, <1>11, ClaimedFrame DEF Settled
<1>14. \A p \in Request \ {q} : req'[p] = req[p] /\ (RestoreMoved(p)' <=> RestoreMoved(p))
  BY <1>7 DEF OthersWait, RestoreMoved, Does
<1>15. ASSUME NEW p \in Request, p # q, RestoreMoved(p)
       PROVE  req[p].src \in Path /\ req[p].src # to /\ dir["git"][req[p].src] = NoDir
  <2>1. Moves(p) /\ RestorePlace(p) /\ Where(p) = req[p].dst /\ req[p].src \in Path
    BY <1>1, <1>15, MoveFacts DEF RestoreMoved, Does, Moves, Where
  <2>2. req[p].src # to
    <3> SUFFICES ASSUME req[p].src = to PROVE FALSE
      OBVIOUS
    <3>1. to[2] > 0
      BY <2>1 DEF RestorePlace
    <3>2. req[q].op = "restore"
      BY <3>1, <1>1, <1>2, <1>4, MoveFacts DEF DeletePlace, TransferPlace, Live, Moves
    <3>3. RestorePlace(q)
      BY <3>2, <1>1, <1>2, MoveFacts
    <3>4. req[p].dst = <<req[p].src[1], Live>> /\ req[q].dst = <<req[q].src[1], Live>>
      BY <3>3, <2>1 DEF RestorePlace
    <3>5. Where(p) = Where(q)
      BY <3>4, <2>1, <1>4, <1>6
    <3> QED BY <3>5, <2>1, <1>1, <1>2, <1>15, OnePlace
  <2> QED BY <2>1, <2>2, <1>15 DEF Settled, GoesBack, RestoreMoved
<1>16. GoesBack'
  <2> SUFFICES ASSUME NEW p \in Request, RestoreMoved(p)' PROVE dir'["git"][req'[p].src] = NoDir
    BY DEF GoesBack, RestoreMoved
  <2>1. p # q /\ RestoreMoved(p) /\ req'[p] = req[p]
    BY <1>11, <1>14
  <2> QED BY <2>1, <1>8, <1>15
<1>17. ASSUME NEW p \in Request, Does(p, "restore")', req'[p].step = "update"
       PROVE  dir'["wiki"][req'[p].src] = NoDir
  <2>1. p # q
    BY <1>7, <1>17
  <2> QED BY <2>1, <1>8, <1>14, <1>17 DEF Does, Settled, Wikis
<1>18. ASSUME NEW p \in Request, Does(p, "delete")', req'[p].moved = {"git"}
       PROVE  dir'["wiki"][req'[p].dst] = NoDir
  <2>1. p # q
    BY <1>7, <1>18
  <2> QED BY <2>1, <1>8, <1>14, <1>18 DEF Does, Settled, Wikis
<1>19. ASSUME NEW x \in Path, x[2] > 0, dir'["wiki"][x] # NoDir, dir'["git"][x] = NoDir
       PROVE  \E p \in Request : RestoreMoved(p)' /\ req'[p].src = x
  <2>1. x # to
    BY <1>8, <1>19, DirsAssumption
  <2>2. x # from
    <3> SUFFICES ASSUME x = from PROVE FALSE
      OBVIOUS
    <3>1. req[q].op = "delete"
      BY <1>1, <1>2, <1>4, <1>19, MoveFacts DEF RestorePlace, TransferPlace, Live, Moves
    <3>2. dir["wiki"][from] = NoDir
      BY <3>1, <1>2, <1>4, <1>5 DEF Settled, Wikis, Does, Moves
    <3> QED BY <3>2, <1>8, <1>19
  <2>3. PICK p \in Request : RestoreMoved(p) /\ req[p].src = x
    BY <2>1, <2>2, <1>8, <1>19 DEF Settled, Wikis, RestoreMoved
  <2> QED BY <2>1, <2>3, <1>4, <1>14
<1>20. Wikis'
  BY <1>17, <1>18, <1>19 DEF Wikis, RestoreMoved
<1> QED BY <1>12, <1>13, <1>16, <1>20 DEF Settled

LEMMA RevertDirSettled ==
  ASSUME Types, Settled, NEW q \in Request, RevertDir(q), misplaced' = {}
  PROVE  Settled'
<1>1. req[q] # Idle /\ req[q].step = "revert" /\ rowVars' = rowVars /\ Requests
  BY DEF RevertDir, Types
<1>2. Moves(q) /\ req[q].moved \in SUBSET Kind
  BY <1>1, ByStep, MoveFacts
<1>3. CASE req[q].moved = {}
  BY <1>1, <1>2, <1>3, MoveEndsSettled DEF RevertDir
<1>4. CASE "wiki" \in req[q].moved
  <2>1. /\ Reverted(q, "wiki") \/ dir' = dir
        /\ req' = [req EXCEPT ![q].moved = @ \ {"wiki"}]
    BY <1>4 DEF RevertDir, Reverted
  <2>2. ASSUME req[q].op = "delete" PROVE dir'["wiki"][req[q].dst] = NoDir
    <3>1. ~ PathTaken("wiki", req[q].src)
      BY <1>4, <2>2 DEF RevertDir
    <3>2. CASE Reverted(q, "wiki")
      BY <1>1, <1>2, <3>2, MoveFacts, RevertedFacts DEF Types, Kind
    <3>3. CASE ~ Reverted(q, "wiki")
      BY <1>4, <3>1, <3>3 DEF RevertDir, Reverted, PathTaken
    <3> QED BY <3>2, <3>3
  <2> QED BY <1>1, <1>4, <2>1, <2>2, RevertWikiSettled
<1>5. CASE req[q].moved # {} /\ "wiki" \notin req[q].moved
  <2>1. "git" \in req[q].moved
    BY <1>2, <1>5 DEF Kind
  <2>2. PathTaken("git", req[q].dst)
    BY <1>1, <1>2, <2>1, WhereIs DEF Where, PathTaken
  <2>3. ~ PathTaken("git", req[q].src)
    BY <1>5 DEF RevertDir
  <2>4. Reverted(q, "git") /\ req' = [req EXCEPT ![q].moved = @ \ {"git"}]
    BY <1>5, <2>2, <2>3 DEF RevertDir, Reverted
  <2> QED BY <1>1, <1>5, <2>4, RevertGitSettled
<1> QED BY <1>3, <1>4, <1>5

-----------------------------------------------------------------------------
(* Purges *)

Purges(q) == req[q] # Idle /\ req[q].op = "purge"

LEMMA PurgeFacts ==
  ASSUME Requests, Settled, NEW q \in Request, Purges(q)
  PROVE  /\ PurgePlace(q) /\ Owns(q) = req[q].left /\ req[q].repo \in req[q].left
         /\ req[q].left \in SUBSET Repo /\ req[q].src \in Path /\ req[q].dst \in Path
         /\ ~ Claims(q) /\ ~ RestoreMoved(q) /\ ~ Does(q, "restore") /\ ~ Does(q, "delete")
BY Fields DEF Settled, Places, Place, Owns, Claims, RestoreMoved, Does, Purges

LEMMA RemoveRowsSettled ==
  ASSUME Types, Settled, NEW q \in Request, NEW rs \in SUBSET Repo, RemoveRows(q, rs),
         \A x \in rs : row[x] = "deleted"
  PROVE  Settled'
<1>1. PICK r \in rs : Start(q, "purge", rs, r, "copy", <<owner[r], stamp[r]>>, <<owner[r], Live>>)
  BY DEF RemoveRows
<1>2. /\ Requests /\ <<owner[r], stamp[r]>> \in Path /\ <<owner[r], Live>> \in Path
      /\ "copy" \in Steps /\ "purge" \in Ops
  BY PathIs, LiveIs DEF Types, Steps, Ops
<1>3. Begun(q, "purge", rs, r, "copy", <<owner[r], stamp[r]>>, <<owner[r], Live>>)
  BY <1>1, <1>2, StartFacts
<1>4. /\ \A x \in rs : ~ Busy(x)
      /\ \A x \in Repo : row'[x] = IF x \in rs THEN "gone" ELSE row[x]
      /\ owner' = owner /\ stamp' = stamp /\ dir' = dir
  BY DEF RemoveRows
<1>5. \A x \in rs : row'[x] = "gone" /\ stamp'[x] > 0 /\ LivesAt(x, <<owner[x], stamp[x]>>)'
  BY <1>4, RestingFacts DEF Resting, LivesAt
<1>6. PurgePlace(q)'
  BY <1>3, <1>4, <1>5 DEF Begun, PurgePlace, LivesAt
<1>7. /\ Owns(q) = {} /\ Owns(q)' = rs /\ Place(q)' /\ ~ Claims(q) /\ ~ Claims(q)'
      /\ ~ RestoreMoved(q) /\ ~ RestoreMoved(q)'
      /\ ~ Does(q, "restore")' /\ ~ Does(q, "delete")' /\ Requests' /\ OthersWait(q)
  BY <1>3, <1>6 DEF Begun, Owns, Place, Claims, RestoreMoved, Does
<1>8. Exclusive' /\ Rest' /\ Places'
  <2>1. \A x \in Repo \ rs : Untouched(x)
    BY <1>4 DEF Untouched
  <2>2. \A p \in Request : p # q => Owns(p) \cap rs = {}
    BY <1>4, BusyIs
  <2> QED BY <1>2, <1>7, <2>1, <2>2, Frame DEF Settled
<1>9. Claimed'
  BY <1>2, <1>4, <1>7, ClaimedFrame DEF Settled
<1>10. GoesBack' /\ Wikis'
  BY <1>2, <1>4, <1>7, <1>8, CopiesFrame DEF Settled
<1> QED BY <1>8, <1>9, <1>10 DEF Settled

LEMMA PurgeStepSettled ==
  ASSUME Types, Settled, NEW q \in Request, Purges(q), req[q].step # "copy",
         NEW s \in {"held", "remove"}, SetStep(q, s), dir' = dir, rowVars' = rowVars
  PROVE  Settled'
<1>1. Requests /\ s \in Steps /\ req[q] # Idle /\ req[q].op = "purge"
  BY DEF Types, Steps, Purges
<1>2. /\ Requests' /\ OthersWait(q)
      /\ req'[q] # Idle /\ req'[q].step = s
      /\ req'[q].op = req[q].op /\ req'[q].left = req[q].left /\ req'[q].repo = req[q].repo
      /\ req'[q].src = req[q].src /\ req'[q].dst = req[q].dst /\ req'[q].moved = req[q].moved
  BY <1>1, StepFacts
<1>3. PurgePlace(q)'
  <2>1. PurgePlace(q)
    BY <1>1, PurgeFacts
  <2> QED BY <1>2, <2>1 DEF PurgePlace, LivesAt, Nowhere, rowVars
<1>4. /\ Owns(q)' = Owns(q) /\ ~ Claims(q)' /\ Place(q)' /\ ~ RestoreMoved(q)'
      /\ ~ Does(q, "restore")' /\ ~ Does(q, "delete")'
  BY <1>1, <1>2, <1>3 DEF Owns, Claims, Place, RestoreMoved, Does
<1> QED BY <1>1, <1>2, <1>4, PurgeFacts, GoOnFrame

\* On to the next repository, with at most a wiki at a live path removed.
LEMMA NextRepoSettled ==
  ASSUME Types, Settled, NEW q \in Request, Purges(q), req[q].step # "copy", NextRepo(q),
         rowVars' = rowVars, dir'["git"] = dir["git"],
         \A x \in Path : x[2] > 0 => dir'["wiki"][x] = dir["wiki"][x]
  PROVE  Settled'
<1>1. Requests /\ req[q] # Idle /\ req[q].op = "purge"
  BY DEF Types, Purges
<1>2. /\ PurgePlace(q) /\ Owns(q) = req[q].left /\ req[q].repo \in req[q].left
      /\ req[q].left \in SUBSET Repo /\ ~ Claims(q) /\ ~ RestoreMoved(q)
  BY <1>1, PurgeFacts
<1>3. PICK rest \in SUBSET Repo : rest = req[q].left \ {req[q].repo}
  BY <1>2
<1>4. \A x \in Repo : Untouched(x)
  BY DEF Untouched, rowVars
<1>5. \A x \in req[q].left : x \notin rest => row'[x] = "gone" /\ Nowhere(x)'
  BY <1>2, <1>3 DEF PurgePlace, Nowhere, rowVars
<1>6. \A x \in rest : row'[x] = "gone" /\ stamp'[x] > 0 /\ LivesAt(x, <<owner[x], stamp[x]>>)'
  BY <1>2, <1>3 DEF PurgePlace, LivesAt, rowVars
<1>7. /\ Requests' /\ OthersWait(q) /\ Place(q)' /\ Owns(q)' = rest
      /\ ~ Claims(q)' /\ ~ RestoreMoved(q)' /\ ~ Does(q, "restore")' /\ ~ Does(q, "delete")'
  <2>1. CASE rest = {}
    <3>1. Done(q)
      BY <1>3, <2>1 DEF NextRepo
    <3> QED BY <2>1, <3>1, Ends
  <2>2. CASE rest # {}
    <3>1. PICK r \in rest : GoesTo(q, rest, r, <<owner[r], stamp[r]>>, <<owner[r], Live>>)
      BY <1>3, <2>2 DEF NextRepo, GoesTo
    <3>2. PICK from \in Path, to \in Path : from = <<owner[r], stamp[r]>> /\ to = <<owner[r], Live>>
      BY PathIs, LiveIs DEF Types
    <3>3. GoesTo(q, rest, r, from, to)
      BY <3>1, <3>2
    <3>4. /\ Requests' /\ OthersWait(q)
          /\ req'[q] # Idle /\ req'[q].step = "copy"
          /\ req'[q].op = "purge" /\ req'[q].left = rest /\ req'[q].repo = r
          /\ req'[q].src = from /\ req'[q].dst = to
      BY <1>1, <3>3, NextFacts
    <3>5. PurgePlace(q)'
      BY <1>6, <3>2, <3>4 DEF PurgePlace, LivesAt, rowVars
    <3> QED BY <3>4, <3>5 DEF Place, Owns, Claims, RestoreMoved, Does
  <2> QED BY <2>1, <2>2
<1>8. Exclusive' /\ Rest' /\ Places'
  <2>1. \A x \in Owns(q) : x \notin Owns(q)' => Resting(x)'
    BY <1>2, <1>5, <1>7 DEF Resting
  <2> QED BY <1>1, <1>2, <1>3, <1>4, <1>7, <2>1, OwnFrame
<1>9. Claimed'
  BY <1>1, <1>2, <1>7, ClaimedFrame DEF Settled
<1>10. GoesBack' /\ Wikis'
  <2>1. \A k \in Kind, x \in Path : x[2] > 0 => dir'[k][x] = dir[k][x]
    BY DEF Kind
  <2> QED BY <1>1, <1>2, <1>7, <1>8, <2>1, CopiesFrame DEF Settled
<1> QED BY <1>8, <1>9, <1>10 DEF Settled

LEMMA FindStrandedSettled ==
  ASSUME Types, Settled, NEW q \in Request, FindStrandedWiki(q) PROVE Settled'
<1>1. Purges(q) /\ req[q].step # "copy" /\ dir' = dir /\ rowVars' = rowVars
  BY DEF FindStrandedWiki, At, Purges
<1>2. CASE SetStep(q, "held")
  BY <1>1, <1>2, PurgeStepSettled
<1>3. CASE NextRepo(q)
  BY <1>1, <1>3, NextRepoSettled
<1> QED BY <1>2, <1>3 DEF FindStrandedWiki

LEMMA NameHeldSettled ==
  ASSUME Types, Settled, NEW q \in Request, NameHeld(q) PROVE Settled'
<1>1. Purges(q) /\ req[q].step # "copy" /\ dir' = dir /\ rowVars' = rowVars
  BY DEF NameHeld, At, Purges
<1>2. CASE SetStep(q, "remove")
  BY <1>1, <1>2, PurgeStepSettled
<1>3. CASE NextRepo(q)
  BY <1>1, <1>3, NextRepoSettled
<1> QED BY <1>2, <1>3 DEF NameHeld

LEMMA RemoveStrandedSettled ==
  ASSUME Types, Settled, NEW q \in Request, RemoveStrandedWiki(q) PROVE Settled'
<1>1. /\ Purges(q) /\ req[q].step # "copy" /\ rowVars' = rowVars /\ NextRepo(q) /\ Requests /\ Dirs
      /\ dir' = [dir EXCEPT !["wiki"][req[q].dst] = NoDir] /\ "wiki" \in Kind /\ "git" \in Kind
      /\ NoDir \in Holder
  BY DEF RemoveStrandedWiki, At, Purges, Types, Kind, Holder
<1>2. req[q].dst \in Path /\ req[q].dst[2] = Live
  BY <1>1, PurgeFacts DEF PurgePlace
<1>3. dir'["git"] = dir["git"] /\ \A x \in Path : x[2] > 0 => dir'["wiki"][x] = dir["wiki"][x]
  BY <1>1, <1>2, SetDir DEF Live
<1> QED BY <1>1, <1>3, NextRepoSettled

LEMMA RemoveCopySettled ==
  ASSUME Types, Settled, NEW q \in Request, RemoveDeletedCopy(q) PROVE Settled'
<1>1. /\ Purges(q) /\ req[q].step = "copy" /\ rowVars' = rowVars /\ Requests /\ Dirs
      /\ SetStep(q, "stranded") /\ "stranded" \in Steps /\ req[q] # Idle /\ req[q].op = "purge"
      /\ dir' = [k \in Kind |-> [p \in Path |->
                  IF p[1] = req[q].src[1] /\ IsCopySuffix(p[1], req[q].src[2], p[2])
                  THEN NoDir ELSE dir[k][p]]]
  BY DEF RemoveDeletedCopy, At, Purges, Types, Steps
<1>2. /\ PurgePlace(q) /\ Owns(q) = req[q].left /\ req[q].repo \in req[q].left
      /\ req[q].left \in SUBSET Repo /\ ~ Claims(q) /\ ~ RestoreMoved(q) /\ req[q].src \in Path
  BY <1>1, PurgeFacts
<1>3. PICK r \in Repo, c \in Path : r = req[q].repo /\ c = req[q].src
  BY <1>2
<1>4. LivesAt(r, c) /\ c[2] > 0 /\ c = <<c[1], c[2]>> /\ c[2] \in 0..MaxTime
  BY <1>1, <1>2, <1>3, PathHas DEF PurgePlace
<1>5. HasCopy(c[1], c[2])
  BY <1>4, DirsAssumption DEF HasCopy, PathTaken, LivesAt, Kind
<1>6. \A p \in Path : (p[1] = c[1] /\ IsCopySuffix(p[1], c[2], p[2])) <=> p = c
  BY <1>4, <1>5, PathHas DEF IsCopySuffix, CopySuffixes
<1>7. \A k \in Kind, p \in Path : dir'[k][p] = IF p = c THEN NoDir ELSE dir[k][p]
  BY <1>1, <1>3, <1>6
<1>8. /\ \A p \in Path : dir'["git"][p] = IF p = c THEN NoDir ELSE dir["git"][p]
      /\ \A p \in Path : dir'["wiki"][p] = IF p = c THEN NoDir ELSE dir["wiki"][p]
      /\ dir["git"][c] = r
  BY <1>4, <1>7 DEF Kind, LivesAt
<1>9. \A x \in Repo \ {r} : Untouched(x)
  BY <1>1, <1>8, DirsAssumption DEF Untouched, rowVars
<1>10. Nowhere(r)'
  BY <1>4, <1>8, DirsAssumption DEF Nowhere, LivesAt
<1>11. /\ Requests' /\ OthersWait(q)
       /\ req'[q] # Idle /\ req'[q].step = "stranded"
       /\ req'[q].op = "purge" /\ req'[q].left = req[q].left /\ req'[q].repo = r
       /\ req'[q].src = c /\ req'[q].dst = req[q].dst
  BY <1>1, <1>3, StepFacts
<1>12. PurgePlace(q)'
  <2>1. /\ req'[q].src = <<owner'[r], stamp'[r]>> /\ req'[q].dst[2] = Live
    BY <1>1, <1>2, <1>3, <1>11 DEF PurgePlace, rowVars
  <2>2. \A x \in req[q].left : row'[x] = "gone"
    BY <1>1, <1>2 DEF PurgePlace, rowVars
  <2>3. \A x \in req[q].left : x # r => stamp'[x] > 0 /\ LivesAt(x, <<owner[x], stamp[x]>>)'
    <3>1. \A x \in req[q].left : x # r =>
            Untouched(x) /\ x \in Repo /\ stamp[x] > 0 /\ LivesAt(x, <<owner[x], stamp[x]>>)
      BY <1>2, <1>3, <1>9 DEF PurgePlace
    <3> QED BY <3>1 DEF Untouched, LivesAt
  <2> QED BY <1>10, <1>11, <2>1, <2>2, <2>3 DEF PurgePlace
<1>13. /\ Place(q)' /\ Owns(q)' = Owns(q)
       /\ ~ Claims(q)' /\ ~ RestoreMoved(q)' /\ ~ Does(q, "restore")' /\ ~ Does(q, "delete")'
  BY <1>2, <1>11, <1>12 DEF Place, Owns, Claims, RestoreMoved, Does
<1>14. Exclusive' /\ Rest' /\ Places'
  BY <1>1, <1>2, <1>3, <1>9, <1>11, <1>13, OwnFrame
<1>15. Claimed'
  <2>1. \A x \in Path : dir'["git"][x] = Empty <=> dir["git"][x] = Empty
    BY <1>8, DirsAssumption
  <2> QED BY <2>1, <1>1, <1>2, <1>11, <1>13, ClaimedFrame DEF Settled
<1>16. \A p \in Request \ {q} : req'[p] = req[p] /\ (RestoreMoved(p)' <=> RestoreMoved(p))
  BY <1>11 DEF OthersWait, RestoreMoved, Does
<1>17. GoesBack'
  <2> SUFFICES ASSUME NEW p \in Request, RestoreMoved(p)' PROVE dir'["git"][req'[p].src] = NoDir
    BY DEF GoesBack, RestoreMoved
  <2>1. p # q /\ RestoreMoved(p) /\ req'[p] = req[p]
    BY <1>13, <1>16
  <2>2. req[p].src \in Path /\ dir["git"][req[p].src] = NoDir
    BY <2>1, <1>1, Fields DEF Settled, GoesBack, RestoreMoved, Does
  <2> QED BY <2>1, <2>2, <1>8
<1>18. ASSUME NEW p \in Request, Does(p, "restore")', req'[p].step = "update"
       PROVE  dir'["wiki"][req'[p].src] = NoDir
  <2>1. p # q /\ Does(p, "restore") /\ req'[p] = req[p] /\ req[p].step = "update"
    BY <1>13, <1>16, <1>18 DEF Does
  <2>2. req[p].src \in Path /\ dir["wiki"][req[p].src] = NoDir
    BY <2>1, <1>1, Fields DEF Settled, Wikis, Does
  <2> QED BY <2>1, <2>2, <1>8
<1>19. ASSUME NEW p \in Request, Does(p, "delete")', req'[p].moved = {"git"}
       PROVE  dir'["wiki"][req'[p].dst] = NoDir
  <2>1. p # q /\ Does(p, "delete") /\ req'[p] = req[p] /\ req[p].moved = {"git"}
    BY <1>13, <1>16, <1>19 DEF Does
  <2>2. req[p].dst \in Path /\ dir["wiki"][req[p].dst] = NoDir
    BY <2>1, <1>1, Fields DEF Settled, Wikis, Does
  <2> QED BY <2>1, <2>2, <1>8
<1>20. ASSUME NEW x \in Path, x[2] > 0, dir'["wiki"][x] # NoDir, dir'["git"][x] = NoDir
       PROVE  \E p \in Request : RestoreMoved(p)' /\ req'[p].src = x
  <2>1. dir["wiki"][x] # NoDir /\ dir["git"][x] = NoDir
    BY <1>8, <1>20
  <2>2. PICK p \in Request : RestoreMoved(p) /\ req[p].src = x
    BY <2>1, <1>20 DEF Settled, Wikis, RestoreMoved
  <2> QED BY <2>2, <1>2, <1>16
<1>21. Wikis'
  BY <1>18, <1>19, <1>20 DEF Wikis, RestoreMoved
<1> QED BY <1>14, <1>15, <1>17, <1>21 DEF Settled

-----------------------------------------------------------------------------
(* The invariant *)

LEMMA SettledNext ==
  ASSUME Types, Settled, [Next]_vars, misplaced' = {}
  PROVE  Settled'
<1>1. CASE UNCHANGED vars
  BY <1>1 DEF Settled, Exclusive, Rest, Resting, LivesAt, Nowhere, Places, Place, CreatePlace,
              MovePlace, DeletePlace, RestorePlace, TransferPlace, PurgePlace, Claimed, Claims,
              GoesBack, Wikis, Does, Owns, vars, rowVars
<1>2. CASE Tick \/ MonthPasses
  BY <1>2 DEF Settled, Exclusive, Rest, Resting, LivesAt, Nowhere, Places, Place, CreatePlace,
              MovePlace, DeletePlace, RestorePlace, TransferPlace, PurgePlace, Claimed, Claims,
              GoesBack, Wikis, Does, Owns, Tick, MonthPasses, rowVars
<1>3. ASSUME NEW q \in Request, Begin(q) PROVE Settled'
  BY <1>3, SavePageSettled, DeleteSettled, RestoreSettled, CreateSettled, MoveSettled DEF Begin
<1>4. ASSUME NEW q \in Request, Continue(q) PROVE Settled'
  BY <1>4, ClaimLstatSettled, ClaimMkdirSettled, InsertSettled, FillSettled, DropRowSettled,
     RemoveAllSettled, WikiPageSettled, FindCopySettled, CheckTargetSettled, RenameDirSettled,
     UpdateRowSettled, RevertDirSettled, RemoveCopySettled, FindStrandedSettled, NameHeldSettled,
     RemoveStrandedSettled
  DEF Continue
<1>5. ASSUME NEW q \in Request, PurgeExpired(q) PROVE Settled'
  BY <1>5, RemoveRowsSettled DEF PurgeExpired
<1>6. ASSUME NEW q \in Request, NEW o \in Owner, DeleteOrg(q, o) PROVE Settled'
  BY <1>6, RemoveRowsSettled DEF DeleteOrg
<1> QED BY <1>1, <1>2, <1>3, <1>4, <1>5, <1>6 DEF Next

\* A repository is once misplaced, always misplaced.
LEMMA MisplacedGrows == ASSUME [Next]_vars PROVE misplaced \subseteq misplaced'
<1>1. CASE UNCHANGED vars
  BY <1>1 DEF vars
<1>2. CASE Tick \/ MonthPasses
  BY <1>2 DEF Tick, MonthPasses
<1>3. ASSUME NEW q \in Request, Begin(q) PROVE misplaced' = misplaced
  BY <1>3 DEF Begin, SavePage, Delete, Restore, Create, Move
<1>4. ASSUME NEW q \in Request, Continue(q) PROVE misplaced \subseteq misplaced'
  <2>1. CASE RevertDir(q)
    BY <2>1 DEF RevertDir
  <2>2. CASE ClaimLstat(q) \/ ClaimMkdir(q) \/ Insert(q) \/ Fill(q) \/ DropRow(q) \/ RemoveAll(q)
    BY <2>2 DEF ClaimLstat, ClaimMkdir, Insert, Fill, DropRow, RemoveAll
  <2>3. CASE WikiPageSave(q) \/ FindCopy(q) \/ CheckTarget(q) \/ UpdateRow(q)
    BY <2>3 DEF WikiPageSave, FindCopy, CheckTarget, UpdateRow
  <2>4. ASSUME NEW k \in Kind, RenameDir(q, k) PROVE misplaced \subseteq misplaced'
    BY <2>4 DEF RenameDir
  <2>5. CASE RemoveDeletedCopy(q) \/ FindStrandedWiki(q) \/ NameHeld(q) \/ RemoveStrandedWiki(q)
    BY <2>5 DEF RemoveDeletedCopy, FindStrandedWiki, NameHeld, RemoveStrandedWiki
  <2> QED BY <1>4, <2>1, <2>2, <2>3, <2>4, <2>5 DEF Continue
<1>5. ASSUME NEW q \in Request, PurgeExpired(q) PROVE misplaced' = misplaced
  BY <1>5 DEF PurgeExpired, RemoveRows
<1>6. ASSUME NEW q \in Request, NEW o \in Owner, DeleteOrg(q, o) PROVE misplaced' = misplaced
  BY <1>6 DEF DeleteOrg, RemoveRows
<1> QED BY <1>1, <1>2, <1>3, <1>4, <1>5, <1>6 DEF Next

LEMMA IInvInit == Init => IInv
<1> SUFFICES ASSUME Init PROVE IInv
  OBVIOUS
<1> USE DirsAssumption
<1>1. PICK old \in {{}} \cup {{r} : r \in Repo}, o \in Org :
        /\ row = [r \in Repo |-> IF r \in old THEN "deleted" ELSE "none"]
        /\ owner = [r \in Repo |-> o]
        /\ stamp = [r \in Repo |-> IF r \in old THEN 1 ELSE 0]
        /\ dir = [k \in Kind |-> [p \in Path |->
                    IF old # {} /\ p = <<o, IF k = "git" THEN 1 ELSE Live>>
                    THEN CHOOSE r \in old : TRUE ELSE NoDir]]
  BY DEF Init
<1>2. /\ req = [q \in Request |-> Idle] /\ now = 1 /\ cutoff = 0 /\ misplaced = {}
  BY DEF Init
<1>3. o \in Owner /\ <<o, 1>> \in Path /\ <<o, Live>> \in Path /\ old \subseteq Repo
  BY PathIs DEF Live
<1> DEFINE r0 == CHOOSE r \in old : TRUE
<1>4. old # {} => r0 \in Repo /\ old = {r0}
  BY <1>1
<1>5. /\ \A p \in Path : dir["git"][p] = IF old # {} /\ p = <<o, 1>> THEN r0 ELSE NoDir
      /\ \A p \in Path : dir["wiki"][p] = IF old # {} /\ p = <<o, Live>> THEN r0 ELSE NoDir
      /\ Dirs
  <2>1. \A p \in Path : (IF old # {} /\ p = <<o, 1>> THEN r0 ELSE NoDir) \in Holder
    BY <1>4 DEF Holder
  <2>2. \A p \in Path : (IF old # {} /\ p = <<o, Live>> THEN r0 ELSE NoDir) \in Holder
    BY <1>4 DEF Holder
  <2> HIDE DEF r0
  <2>3. dir = [k \in Kind |-> [p \in Path |->
                IF old # {} /\ p = <<o, IF k = "git" THEN 1 ELSE Live>> THEN r0 ELSE NoDir]]
    BY <1>1 DEF r0
  <2> QED BY <2>1, <2>2, <2>3 DEF Dirs, Kind
<1> HIDE DEF r0
<1>6. Types
  BY <1>1, <1>2, <1>3, <1>5 DEF Types, Requests
<1>7. \A q \in Request : /\ req[q] = Idle /\ Owns(q) = {} /\ Place(q) /\ ~ Claims(q)
                         /\ ~ Does(q, "restore") /\ ~ Does(q, "delete")
  BY <1>2 DEF Owns, Place, Claims, Does
<1>8. Rest
  <2> SUFFICES ASSUME NEW r \in Repo PROVE Resting(r)
    BY DEF Rest
  <2>1. CASE r \in old
    <3>1. row[r] = "deleted" /\ owner[r] = o /\ stamp[r] = 1 /\ r = r0 /\ old # {}
      BY <1>1, <1>4, <2>1
    <3> QED BY <3>1, <1>5 DEF Resting, LivesAt
  <2>2. CASE r \notin old
    <3>1. row[r] = "none" /\ (old # {} => r # r0)
      BY <1>1, <1>4, <2>2
    <3> QED BY <3>1, <1>5 DEF Resting, Nowhere
  <2> QED BY <2>1, <2>2
<1>9. Exclusive /\ Places /\ Claimed /\ GoesBack
  BY <1>4, <1>5, <1>7 DEF Exclusive, Places, Claimed, GoesBack
<1>10. Wikis
  BY <1>3, <1>5, <1>7 DEF Wikis, Live
<1> QED BY <1>6, <1>8, <1>9, <1>10, TypesAreOK DEF IInv, Settled

LEMMA IInvNext == IInv /\ [Next]_vars => IInv'
<1> SUFFICES ASSUME IInv, [Next]_vars PROVE IInv'
  OBVIOUS
<1>1. Types /\ Types'
  BY TypesAreOK, TypesNext DEF IInv
<1>2. TypeOK'
  BY <1>1 DEF TypeOK, Types, Dirs, Requests
<1>3. ASSUME misplaced' = {} PROVE Settled'
  <2>1. misplaced = {}
    BY <1>3, MisplacedGrows
  <2> QED BY <1>1, <1>3, <2>1, SettledNext DEF IInv
<1> QED BY <1>2, <1>3 DEF IInv

LEMMA LiveFollows == IInv => LiveHasItsGit
<1> SUFFICES ASSUME IInv, misplaced = {}, NEW r \in Repo, row[r] = "live", ~ Busy(r)
             PROVE  dir["git"][<<owner[r], Live>>] = r
  BY DEF LiveHasItsGit, ServesItsGit
<1>1. LivesAt(r, <<owner[r], Live>>)
  BY RestingFacts DEF IInv, Resting
<1>2. <<owner[r], Live>> \in Path
  BY TypesAreOK, PathIs, LiveIs DEF IInv, Types
<1> QED BY <1>1, <1>2 DEF LivesAt

LEMMA CopyFollows == IInv => CopyIsFound
<1> SUFFICES ASSUME IInv, misplaced = {}, NEW r \in Repo, row[r] = "deleted", ~ Busy(r)
             PROVE  dir["git"][<<owner[r], stamp[r]>>] = r
  BY DEF CopyIsFound
<1>1. LivesAt(r, <<owner[r], stamp[r]>>)
  BY RestingFacts DEF IInv, Resting
<1>2. <<owner[r], stamp[r]>> \in Path
  BY TypesAreOK, PathIs DEF IInv, Types
<1> QED BY <1>1, <1>2 DEF LivesAt

LEMMA NameFollows == IInv => NameIsFree
<1> SUFFICES ASSUME IInv, misplaced = {}, \A q \in Request : req[q] = Idle,
                    NEW o \in Owner, PathTaken("git", <<o, Live>>)
             PROVE  Holds(o, {"live"})
  BY DEF NameIsFree
<1>1. Types /\ Settled /\ <<o, Live>> \in Path
  BY TypesAreOK, PathIs, LiveIs DEF IInv
<1>2. dir["git"][<<o, Live>>] \in Repo
  <2>1. dir["git"][<<o, Live>>] \in Holder
    BY <1>1 DEF Types, Dirs, Kind
  <2>2. dir["git"][<<o, Live>>] # Empty
    BY <1>1 DEF Settled, Claimed, Claims
  <2> QED BY <2>1, <2>2 DEF Holder, PathTaken
<1>3. PICK r \in Repo : r = dir["git"][<<o, Live>>]
  BY <1>2
<1>4. Resting(r) /\ row[r] \in {"none", "live", "deleted", "gone"}
  <2>1. ~ Busy(r)
    BY DEF Busy
  <2> QED BY <2>1, <1>1, RestingFacts DEF Types
<1>5. ~ Nowhere(r)
  BY <1>1, <1>3 DEF Nowhere
<1>6. row[r] # "deleted"
  <2> SUFFICES ASSUME row[r] = "deleted" PROVE FALSE
    OBVIOUS
  <2>1. stamp[r] > 0 /\ <<o, Live>> = <<owner[r], stamp[r]>>
    BY <1>1, <1>3, <1>4 DEF Resting, LivesAt
  <2> QED BY <2>1 DEF Live
<1>7. row[r] = "live"
  BY <1>4, <1>5, <1>6 DEF Resting
<1>8. <<o, Live>> = <<owner[r], Live>>
  BY <1>1, <1>3, <1>4, <1>7 DEF Resting, LivesAt
<1> QED BY <1>7, <1>8 DEF Holds

Somewhere(r) == \E p \in Path : dir["git"][p] = r

LEMMA KeptNext ==
  ASSUME Types, Settled, [Next]_vars, NEW r \in Repo, Somewhere(r), row'[r] \in {"live", "deleted"}
  PROVE  Somewhere(r)'
<1>1. CASE dir' = dir
  BY <1>1 DEF Somewhere
<1>2. ASSUME NEW q \in Request, ClaimMkdir(q), dir' # dir PROVE Somewhere(r)'
  <2>1. PICK p \in Path : /\ dir["git"][p] = NoDir
                          /\ \A x \in Path : x # p => dir'["git"][x] = dir["git"][x]
    <3>1. /\ req[q] # Idle /\ req[q].dst \in Path /\ ~ PathTaken("git", req[q].dst)
          /\ dir' = [dir EXCEPT !["git"][req[q].dst] = Empty] /\ Empty \in Holder
      BY <1>2, Fields DEF ClaimMkdir, At, Types, Holder
    <3>2. \A x \in Path : x # req[q].dst => dir'["git"][x] = dir["git"][x]
      BY <3>1, SetGit DEF Types
    <3> QED BY <3>1, <3>2 DEF PathTaken
  <2> QED BY <2>1, DirsAssumption DEF Somewhere
<1>3. ASSUME NEW q \in Request, Fill(q), dir' # dir PROVE Somewhere(r)'
  <2>1. PICK p \in Path : /\ dir["git"][p] = Empty
                          /\ \A x \in Path : x # p => dir'["git"][x] = dir["git"][x]
    <3>1. /\ req[q] # Idle /\ req[q].dst \in Path /\ req[q].repo \in Holder /\ Claims(q)
          /\ dir' = [dir EXCEPT !["git"][req[q].dst] = req[q].repo]
      BY <1>3, Fields DEF Fill, At, Types, Holder, Claims
    <3>2. \A x \in Path : x # req[q].dst => dir'["git"][x] = dir["git"][x]
      BY <3>1, SetGit DEF Types
    <3> QED BY <3>1, <3>2 DEF Settled, Claimed
  <2> QED BY <2>1, DirsAssumption DEF Somewhere
<1>4. ASSUME NEW q \in Request, RemoveAll(q) PROVE Somewhere(r)'
  <2>1. PICK p \in Path : /\ dir["git"][p] = Empty
                          /\ \A x \in Path : x # p => dir'["git"][x] = dir["git"][x]
    <3>1. /\ req[q] # Idle /\ req[q].dst \in Path /\ NoDir \in Holder /\ Claims(q)
          /\ dir' = [dir EXCEPT !["git"][req[q].dst] = NoDir]
      BY <1>4, Fields DEF RemoveAll, At, Types, Holder, Claims
    <3>2. \A x \in Path : x # req[q].dst => dir'["git"][x] = dir["git"][x]
      BY <3>1, SetGit DEF Types
    <3> QED BY <3>1, <3>2 DEF Settled, Claimed
  <2> QED BY <2>1, DirsAssumption DEF Somewhere
<1>5. ASSUME NEW q \in Request, WikiPageSave(q), dir' # dir PROVE Somewhere(r)'
  <2>1. /\ req[q] # Idle /\ req[q].dst \in Path /\ req[q].repo \in Holder
        /\ dir' = [dir EXCEPT !["wiki"][req[q].dst] = req[q].repo]
    BY <1>5, Fields DEF WikiPageSave, At, Types, Holder
  <2>2. dir'["git"] = dir["git"]
    BY <2>1, SetDir DEF Types, Kind
  <2> QED BY <2>2 DEF Somewhere
<1>6. ASSUME NEW q \in Request, NEW k \in Kind, RenameDir(q, k), dir' # dir PROVE Somewhere(r)'
  <2>1. /\ req[q] # Idle /\ req[q].step = k /\ req[q].src \in Path /\ req[q].dst \in Path
        /\ dir[k][req[q].dst] \in {NoDir, Empty}
        /\ dir' = [dir EXCEPT ![k][req[q].dst] = dir[k][req[q].src], ![k][req[q].src] = NoDir]
    BY <1>6, Fields DEF RenameDir, Types
  <2>2. PICK from \in Path, to \in Path : from = req[q].src /\ to = req[q].dst
    BY <2>1
  <2>3. CASE k = "wiki"
    BY <2>1, <2>3 DEF Somewhere, Types, Dirs, Kind
  <2>4. CASE k = "git"
    <3>1. dir["git"][from] \in Repo /\ Dirs
      <4>1. Moves(q) /\ Requests
        BY <2>1, <2>4, ByStep DEF Types
      <4> QED BY <2>1, <2>2, <2>4, <4>1, MoveFacts, WhereIs DEF MovePlace, Where, Types
    <3>2. from # to
      BY <2>1, <2>2, <2>4, <3>1, DirsAssumption
    <3>3. /\ dir'["git"][to] = dir["git"][from]
          /\ \A x \in Path : x # from /\ x # to => dir'["git"][x] = dir["git"][x]
      <4>1. /\ "git" \in Kind
            /\ dir' = [dir EXCEPT !["git"][to] = dir["git"][from], !["git"][from] = NoDir]
        BY <2>1, <2>2, <2>4 DEF Kind
      <4> QED BY <4>1, <3>1, <3>2 DEF Dirs, Holder
    <3> QED BY <2>1, <2>2, <2>4, <3>3, DirsAssumption DEF Somewhere
  <2> QED BY <2>3, <2>4 DEF Kind
<1>7. ASSUME NEW q \in Request, RevertDir(q), dir' # dir PROVE Somewhere(r)'
  <2>1. PICK k \in Kind : req[q] # Idle /\ Reverted(q, k)
    BY <1>7 DEF RevertDir, Reverted, Kind
  <2>2. PICK from \in Path, to \in Path : from = req[q].dst /\ to = req[q].src
    BY <2>1, Fields DEF Types
  <2>3. /\ dir'[k][to] = dir[k][from] /\ dir[k][to] = NoDir
        /\ \A x \in Path : x # from /\ x # to => dir'[k][x] = dir[k][x]
        /\ \A l \in Kind : l # k => dir'[l] = dir[l]
    BY <2>1, <2>2, RevertedFacts DEF Types
  <2> QED BY <2>3, DirsAssumption DEF Somewhere, Kind
<1>8. ASSUME NEW q \in Request, RemoveDeletedCopy(q) PROVE Somewhere(r)'
  <2>1. /\ Purges(q) /\ req[q].step = "copy" /\ Requests /\ row' = row
        /\ dir' = [k \in Kind |-> [p \in Path |->
                  IF p[1] = req[q].src[1] /\ IsCopySuffix(p[1], req[q].src[2], p[2])
                  THEN NoDir ELSE dir[k][p]]]
    BY <1>8 DEF RemoveDeletedCopy, At, Purges, Types, rowVars
  <2>2. /\ PurgePlace(q) /\ req[q].repo \in req[q].left /\ req[q].left \in SUBSET Repo /\ req[q].src \in Path
    BY <2>1, PurgeFacts
  <2>3. PICK c \in Path : c = req[q].src
    BY <2>2
  <2>4. /\ dir["git"][c] = req[q].repo /\ req[q].repo \in Repo /\ row[req[q].repo] = "gone"
        /\ c = <<c[1], c[2]>>
    BY <2>1, <2>2, <2>3, PathHas DEF PurgePlace, LivesAt
  <2>5. HasCopy(c[1], c[2])
    BY <2>4, DirsAssumption DEF HasCopy, PathTaken, Kind
  <2>6. \A p \in Path : p # c => ~ (p[1] = c[1] /\ IsCopySuffix(p[1], c[2], p[2]))
    BY <2>4, <2>5, PathHas DEF IsCopySuffix
  <2>7. \A p \in Path : p # c => dir'["git"][p] = dir["git"][p]
    BY <2>1, <2>3, <2>6 DEF Kind
  <2>8. r # req[q].repo
    BY <2>1, <2>4
  <2> QED BY <2>4, <2>7, <2>8 DEF Somewhere
<1>9. ASSUME NEW q \in Request, RemoveStrandedWiki(q) PROVE Somewhere(r)'
  <2>1. /\ req[q] # Idle /\ req[q].dst \in Path /\ NoDir \in Holder
        /\ dir' = [dir EXCEPT !["wiki"][req[q].dst] = NoDir]
    BY <1>9, Fields DEF RemoveStrandedWiki, At, Types, Holder
  <2>2. dir'["git"] = dir["git"]
    BY <2>1, SetDir DEF Types, Kind
  <2> QED BY <2>2 DEF Somewhere
<1>10. CASE \/ UNCHANGED vars \/ Tick \/ MonthPasses
            \/ \E q \in Request : PurgeExpired(q) \/ \E o \in Owner : DeleteOrg(q, o)
            \/ \E q \in Request : Begin(q)
  BY <1>1, <1>10 DEF vars, Tick, MonthPasses, PurgeExpired, DeleteOrg, RemoveRows, Begin, SavePage,
                     Delete, Restore, Create, Move
<1>11. ASSUME NEW q \in Request, Continue(q) PROVE Somewhere(r)'
  <2>1. CASE \/ ClaimLstat(q) \/ Insert(q) \/ DropRow(q) \/ FindCopy(q) \/ CheckTarget(q)
             \/ UpdateRow(q) \/ FindStrandedWiki(q) \/ NameHeld(q)
    BY <1>1, <2>1 DEF ClaimLstat, Insert, DropRow, FindCopy, CheckTarget, UpdateRow,
                      FindStrandedWiki, NameHeld
  <2> QED BY <1>1, <1>2, <1>3, <1>4, <1>5, <1>6, <1>7, <1>8, <1>9, <1>11, <2>1 DEF Continue
<1> QED BY <1>10, <1>11 DEF Next

LEMMA StepKeepsGit == IInv /\ [Next]_vars => KeepsGit
BY TypesAreOK, KeptNext DEF IInv, KeepsGit, Somewhere

-----------------------------------------------------------------------------
(* Theorems about repositories and their directories *)

\* What RepoService, the wiki handler and the purge hold on their way is what
\* they should hold.
THEOREM DirectoryTypes == Spec => []TypeOK
<1>1. IInv => TypeOK
  BY DEF IInv
<1> QED BY IInvInit, IInvNext, <1>1, PTL DEF Spec

\* claimRepo, moveRepo, Restore and revertDirs together: a live repository that
\* no request is moving serves its own git directory.
THEOREM LiveServeTheirGit == Spec => []LiveHasItsGit
BY IInvInit, IInvNext, LiveFollows, PTL DEF Spec

\* Delete and deletedCopySuffix: a deleted repository's copy lies at the second
\* its row names.
THEOREM CopiesAreFound == Spec => []CopyIsFound
BY IInvInit, IInvNext, CopyFollows, PTL DEF Spec

\* abandonNewRepo, Delete and the purge: when no request is on its way, a name
\* without a live row has no git directory.
THEOREM NamesAreFreed == Spec => []NameIsFree
BY IInvInit, IInvNext, NameFollows, PTL DEF Spec

\* removeDeletedCopy and abandonNewRepo: no step removes the git data of a
\* repository that keeps its row.
THEOREM GitIsKept == Spec => GitKept
<1>1. IInv /\ [Next]_vars => [KeepsGit]_vars
  BY StepKeepsGit
<1> QED BY IInvInit, IInvNext, <1>1, PTL DEF Spec, GitKept

-----------------------------------------------------------------------------
(* Links and device logins *)

RH == INSTANCE RequestHandlers_proofs WITH
  email <- v1, verified <- v2, version <- v3, suspended <- v4, google <- v5,
  reset <- v6, verify <- v7, spent <- v8, request <- v9,
  made <- v10, proven <- v11, resets <- v12,
  state <- v1, scopes <- v2, decider <- v3, expired <- v4, poll <- v5, page <- v6,
  tokens <- v7, answers <- v8, asked <- v9

(* What that module and MCRequests call by different names is the same. *)

LEMMA AccountsNamed ==
  /\ Accounts!Init <=> RH!A!Init
  /\ Accounts!Next <=> RH!A!Next
  /\ Accounts!vars = RH!A!vars
BY
  DEF Accounts!Init, Accounts!Next, Accounts!vars, Accounts!Idle, Accounts!Ask,
      Accounts!Answer, Accounts!SendVerification, Accounts!VerifyEmail, Accounts!SignOut,
      Accounts!Suspend, Accounts!Unsuspend, Accounts!Expire, Accounts!rowVars,
      Accounts!linkVars, Accounts!historyVars, Accounts!RequestReset, Accounts!IssueLink,
      Accounts!MarkVerified, Accounts!AuthenticateOAuth, Accounts!AskProfile,
      Accounts!OpenReset, Accounts!Issue, Accounts!Consume, Accounts!UpdateProfile,
      Accounts!MarkEmailVerified, Accounts!LinkByVerifiedEmail, Accounts!GiveUp,
      Accounts!Fresh, Accounts!LinksOf, Accounts!Proves, Accounts!BumpVersion,
      Accounts!LookAt, Accounts!Begin, Accounts!MayLink, Accounts!Taken,
      Accounts!Pending, Accounts!MailedTo, Accounts!End, Accounts!StillPending,
      RH!A!Init, RH!A!Next, RH!A!vars, RH!A!Idle, RH!A!Ask, RH!A!Answer,
      RH!A!SendVerification, RH!A!VerifyEmail, RH!A!SignOut, RH!A!Suspend,
      RH!A!Unsuspend, RH!A!Expire, RH!A!rowVars, RH!A!linkVars, RH!A!historyVars,
      RH!A!RequestReset, RH!A!IssueLink, RH!A!MarkVerified, RH!A!AuthenticateOAuth,
      RH!A!AskProfile, RH!A!OpenReset, RH!A!Issue, RH!A!Consume, RH!A!UpdateProfile,
      RH!A!MarkEmailVerified, RH!A!LinkByVerifiedEmail, RH!A!GiveUp, RH!A!Fresh,
      RH!A!LinksOf, RH!A!Proves, RH!A!BumpVersion, RH!A!LookAt, RH!A!Begin, RH!A!MayLink,
      RH!A!Taken, RH!A!Pending, RH!A!MailedTo, RH!A!End, RH!A!StillPending

LEMMA DevicesNamed ==
  /\ Devices!Init <=> RH!D!Init
  /\ Devices!Next <=> RH!D!Next
  /\ Devices!vars = RH!D!vars
BY
  DEF Devices!Init, Devices!Next, Devices!vars, Devices!Idle, Devices!Create,
      Devices!Expire, Devices!DeleteStale, Devices!Lookup, Devices!Decide, Devices!Touch,
      Devices!Redeem, Devices!Fail, Devices!AskPoll, Devices!rowVars, Devices!Pending,
      Devices!EndPoll, Devices!MayRedeem,
      RH!D!Init, RH!D!Next, RH!D!vars, RH!D!Idle, RH!D!Create, RH!D!Expire,
      RH!D!DeleteStale, RH!D!Lookup, RH!D!Decide, RH!D!Touch, RH!D!Redeem, RH!D!Fail,
      RH!D!AskPoll, RH!D!rowVars, RH!D!Pending, RH!D!EndPoll, RH!D!MayRedeem

LEMMA AccountsPromise ==
  ASSUME RH!LinksInv
  PROVE  /\ Accounts!TypeOK
         /\ Accounts!AddressesProven
         /\ Accounts!ResetsWorkOnce
<1>1. /\ Accounts!TypeOK <=> RH!A!TypeOK
      /\ Accounts!AddressesProven <=> RH!A!AddressesProven
      /\ Accounts!ResetsWorkOnce <=> RH!A!ResetsWorkOnce
  BY
    DEF Accounts!TypeOK, Accounts!AddressesProven, Accounts!ResetsWorkOnce,
        Accounts!Version, Accounts!Reset, Accounts!Verify, Accounts!Idle,
        Accounts!Look, Accounts!Hand, Accounts!Open,
        RH!A!TypeOK, RH!A!AddressesProven, RH!A!ResetsWorkOnce, RH!A!Version,
        RH!A!Reset, RH!A!Verify, RH!A!Idle, RH!A!Look, RH!A!Hand, RH!A!Open
<1> QED
  BY <1>1 DEF RH!LinksInv

LEMMA DevicesPromise ==
  ASSUME RH!GrantsInv
  PROVE  /\ Devices!TypeOK
         /\ Devices!OneTokenAsApproved
<1>1. /\ Devices!TypeOK <=> RH!D!TypeOK
      /\ Devices!OneTokenAsApproved <=> RH!D!OneTokenAsApproved
  BY
    DEF Devices!TypeOK, Devices!OneTokenAsApproved, Devices!Idle, Devices!Poll,
        Devices!Page, Devices!Token,
        RH!D!TypeOK, RH!D!OneTokenAsApproved, RH!D!Idle, RH!D!Poll, RH!D!Page,
        RH!D!Token
<1> QED
  BY <1>1 DEF RH!GrantsInv

-----------------------------------------------------------------------------
(***************************************************************************)
(* All of them.  Only the service that moves takes steps, so that what it  *)
(* keeps alone it keeps here; the directories rest in an initial state     *)
(* while another one moves.                                                *)
(***************************************************************************)
RequestsInv ==
  /\ IInv
  /\ moving = "accounts" => RH!LinksInv
  /\ moving = "devices" => RH!GrantsInv

LEMMA RequestsInvInit == RequestsInit => RequestsInv
<1> SUFFICES ASSUME RequestsInit PROVE RequestsInv
  OBVIOUS
<1>1. IInv
  BY IInvInit DEF RequestsInit
<1>2. moving = "accounts" => RH!LinksInv
  BY AccountsNamed, RH!LinksInit DEF RequestsInit
<1>3. moving = "devices" => RH!GrantsInv
  BY DevicesNamed, RH!GrantsInit DEF RequestsInit
<1> QED
  BY <1>1, <1>2, <1>3 DEF RequestsInv

\* A step is a step of the service that moves, or of none.
LEMMA OneServiceMoves ==
  ASSUME [RequestsNext]_<<dirVars, serviceVars, moving>>
  PROVE  /\ moving' = moving
         /\ [Next]_vars
         /\ moving = "accounts" => [RH!A!Next]_(RH!A!vars)
         /\ moving = "devices" => [RH!D!Next]_(RH!D!vars)
<1>1. CASE UNCHANGED <<dirVars, serviceVars, moving>>
  <2>1. UNCHANGED vars /\ moving' = moving
    BY <1>1 DEF dirVars
  <2>2. UNCHANGED <<v1, v2, v3, v4, v5, v6, v7, v8, v9, v10, v11, v12>>
    BY <1>1 DEF serviceVars
  <2>3. UNCHANGED RH!A!vars
    BY <2>2 DEF RH!A!vars, RH!A!rowVars, RH!A!linkVars, RH!A!historyVars
  <2>4. UNCHANGED RH!D!vars
    BY <2>2 DEF RH!D!vars, RH!D!rowVars
  <2> QED
    BY <2>1, <2>3, <2>4
<1>2. CASE RequestsNext
  <2>1. moving' = moving /\ [Next]_vars
    BY <1>2 DEF RequestsNext, MoveDirs, MoveAccounts, MoveDevices, dirVars
  <2>2. moving = "accounts" => RH!A!Next
    BY <1>2, AccountsNamed DEF RequestsNext, MoveDirs, MoveAccounts, MoveDevices
  <2>3. moving = "devices" => RH!D!Next
    BY <1>2, DevicesNamed DEF RequestsNext, MoveDirs, MoveAccounts, MoveDevices
  <2> QED
    BY <2>1, <2>2, <2>3
<1> QED
  BY <1>1, <1>2

LEMMA RequestsInvNext ==
  RequestsInv /\ [RequestsNext]_<<dirVars, serviceVars, moving>> => RequestsInv'
<1> SUFFICES ASSUME RequestsInv, [RequestsNext]_<<dirVars, serviceVars, moving>>
             PROVE  RequestsInv'
  OBVIOUS
<1>1. moving' = moving
  BY OneServiceMoves
<1>2. IInv'
  BY OneServiceMoves, IInvNext DEF RequestsInv
<1>3. moving = "accounts" => RH!LinksInv'
  BY OneServiceMoves, RH!LinksStep DEF RequestsInv
<1>4. moving = "devices" => RH!GrantsInv'
  BY OneServiceMoves, RH!GrantsStep DEF RequestsInv
<1> QED
  BY <1>1, <1>2, <1>3, <1>4 DEF RequestsInv

LEMMA RequestsInvAlways == RequestsSpec => []RequestsInv
BY RequestsInvInit, RequestsInvNext, PTL DEF RequestsSpec

-----------------------------------------------------------------------------
(* Theorems about all three services *)

\* Rows, tokens, directories and requests hold what they may hold.
THEOREM TypesOfRequests == RequestsSpec => []AllTypes
<1>1. RequestsInv => AllTypes
  BY AccountsPromise, DevicesPromise DEF RequestsInv, AllTypes, IInv
<1> QED
  BY RequestsInvAlways, <1>1, PTL

\* UserStore, EmailVerificationStore and PasswordResetStore together: nobody
\* gets an address verified, or a provider's account linked by it, that they
\* didn't prove.
THEOREM VerifiedWereProven == RequestsSpec => []AddressesProven
<1>1. RequestsInv => AddressesProven
  BY AccountsPromise DEF RequestsInv, AddressesProven
<1> QED
  BY RequestsInvAlways, <1>1, PTL

\* PasswordResetStore.Consume: a link works once, and not after the sessions
\* of its time have ended.
THEOREM LinksResetOnce == RequestsSpec => []ResetsWorkOnce
<1>1. RequestsInv => ResetsWorkOnce
  BY AccountsPromise DEF RequestsInv, ResetsWorkOnce
<1> QED
  BY RequestsInvAlways, <1>1, PTL

\* DeviceGrantService.Poll and Approve together: a grant makes one token at
\* most, for the user who approved it, with scopes its client asked for, and
\* the client is told the same.
THEOREM DevicesGetOneToken == RequestsSpec => []OneTokenAsApproved
<1>1. RequestsInv => OneTokenAsApproved
  BY DevicesPromise DEF RequestsInv, OneTokenAsApproved
<1> QED
  BY RequestsInvAlways, <1>1, PTL

\* claimRepo, moveRepo, Restore and revertDirs, beside the other services
THEOREM LiveAlwaysServeTheirGit == RequestsSpec => []LiveHasItsGit
<1>1. RequestsInv => LiveHasItsGit
  BY LiveFollows DEF RequestsInv
<1> QED
  BY RequestsInvAlways, <1>1, PTL

\* Delete and deletedCopySuffix, beside the other services
THEOREM CopiesAreAlwaysFound == RequestsSpec => []CopyIsFound
<1>1. RequestsInv => CopyIsFound
  BY CopyFollows DEF RequestsInv
<1> QED
  BY RequestsInvAlways, <1>1, PTL

\* abandonNewRepo, Delete and the purge, beside the other services
THEOREM NamesAreAlwaysFreed == RequestsSpec => []NameIsFree
<1>1. RequestsInv => NameIsFree
  BY NameFollows DEF RequestsInv
<1> QED
  BY RequestsInvAlways, <1>1, PTL

\* removeDeletedCopy and abandonNewRepo, beside the other services
THEOREM GitIsAlwaysKept == RequestsSpec => GitKept
<1>1. RequestsInv /\ [RequestsNext]_<<dirVars, serviceVars, moving>> => [KeepsGit]_vars
  BY OneServiceMoves, StepKeepsGit DEF RequestsInv
<1> QED
  BY RequestsInvAlways, <1>1, PTL DEF RequestsSpec, GitKept
=============================================================================
