------------------------------- MODULE RepoDirs -------------------------------
(***************************************************************************)
(* The rows of repositories that share one name and the directories that   *)
(* hold their data.  No lock spans both: a request looks at rows and       *)
(* paths, renames the git and the wiki directory one after the other, and  *)
(* then updates the row, or puts the directories back when that fails.     *)
(* Deleting moves the directories aside under the second of the delete,    *)
(* restoring moves that copy back, a transfer moves them to another        *)
(* namespace, and a daily job purges what was deleted a month ago.         *)
(*                                                                         *)
(* Requests interleave between any two statements, renames and looks at    *)
(* the disk, and their statements may fail.  Two that change where one and *)
(* the same repository lives do not overlap, and no server dies between a  *)
(* rename and its update: what the code does then is told in the README.   *)
(***************************************************************************)
EXTENDS Naturals

CONSTANTS
  Repo,         \* repository ids, all of one name
  Empty,        \* a directory with nothing in it, as a claim makes it
  NoDir,        \* no directory at a path
  Owner,        \* namespaces
  Org,          \* those that are organizations, the others are users
  Request,      \* goroutines that serve requests, the purge job among them
  MaxTime       \* bound: the last second of the clock

VARIABLES
  row,        \* the state of each repository's row
  owner,      \* owner_name
  stamp,      \* the second of deleted_at
  dir,        \* whose data each git and wiki path holds
  req,        \* what each request is doing
  now,        \* the clock, in seconds
  cutoff,     \* rows deleted by this second are a month old
  misplaced   \* repositories that a failing step or a replaced claim may have
              \* parted from the directory their row names

rowVars == <<row, owner, stamp>>
vars == <<rowVars, dir, req, now, cutoff, misplaced>>

ASSUME DirsAssumption ==
  /\ Org \subseteq Owner
  /\ Empty # NoDir /\ Empty \notin Repo /\ NoDir \notin Repo
  /\ MaxTime \in Nat \ {0}

Kind   == {"git", "wiki"}
Live   == 0                          \* <name>.git; t > 0 is <name>.git.deleted.<t>
Path   == Owner \X (0..MaxTime)
Holder == Repo \cup {Empty, NoDir}

Idle == [op |-> "none"]

\* A request on its way: the repositories it has left, the one it is at, and
\* the directories of it that it has moved from src to dst.
Job == [op    : {"create", "save", "delete", "restore", "move", "purge"},
        left  : SUBSET Repo,
        repo  : Repo,
        step  : {"lstat", "mkdir", "insert", "fill", "dropRow", "removeAll", "init", "look",
                 "git", "wiki", "update", "revert", "copy", "stranded", "held", "remove"},
        src   : Path,
        dst   : Path,
        moved : SUBSET Kind]

\* A request that may move or remove r's directories.
Busy(r) == \E q \in Request : req[q] # Idle /\ req[q].op # "save" /\ r \in req[q].left

TypeOK ==
  /\ row \in [Repo -> {"none", "live", "deleted", "gone"}]
  /\ owner \in [Repo -> Owner]
  /\ stamp \in [Repo -> 0..MaxTime]
  /\ dir \in [Kind -> [Path -> Holder]]
  /\ req \in [Request -> {Idle} \cup Job]
  /\ \A q \in Request : req[q] # Idle => req[q].repo \in req[q].left
  /\ now \in 1..MaxTime
  /\ cutoff \in 0..MaxTime
  /\ misplaced \subseteq Repo

\* Nothing exists yet, or a repository an organization deleted before wikis
\* moved with their repository left its wiki at the live path.
Init ==
  /\ \E old \in {{}} \cup {{r} : r \in Repo}, o \in Org :
       /\ row = [r \in Repo |-> IF r \in old THEN "deleted" ELSE "none"]
       /\ owner = [r \in Repo |-> o]
       /\ stamp = [r \in Repo |-> IF r \in old THEN 1 ELSE 0]
       /\ dir = [k \in Kind |-> [p \in Path |->
                   IF old # {} /\ p = <<o, IF k = "git" THEN 1 ELSE Live>>
                   THEN CHOOSE r \in old : TRUE ELSE NoDir]]
  /\ req = [q \in Request |-> Idle]
  /\ now = 1
  /\ cutoff = 0
  /\ misplaced = {}

-----------------------------------------------------------------------------
(* What requests ask the database and the file system *)

Holds(o, states) == \E r \in Repo : row[r] \in states /\ owner[r] = o

\* The unique constraints: one row per name of a user, deleted ones included,
\* one live row per name of an organization.
NameFree(o) == ~ Holds(o, IF o \in Org THEN {"live"} ELSE {"live", "deleted"})

PathTaken(k, p) == dir[k][p] # NoDir

\* The seconds deletedCopySuffix looks at, the row's own first.
CopySuffixes(t) == {s \in {t, t + 1} \cup (IF t > 0 THEN {t - 1} ELSE {}) : s \in 1..MaxTime}

HasCopy(o, s) == \E k \in Kind : PathTaken(k, <<o, s>>)

IsAnyCopySuffix(o, t, s) == s > 0 /\ HasCopy(o, s)

\* deletedCopySuffix: the row's own second, else the one before, else the next.
IsCopySuffix(o, t, s) ==
  /\ s \in CopySuffixes(t) /\ HasCopy(o, s)
  /\ s # t => ~ HasCopy(o, t)
  /\ s > t => ~ (t > 0 /\ HasCopy(o, t - 1))

SetStep(q, s) == req' = [req EXCEPT ![q].step = s]
Done(q)       == req' = [req EXCEPT ![q] = Idle]

Start(q, o, rs, r, s, from, to) ==
  /\ req[q] = Idle
  /\ req' = [req EXCEPT ![q] = [op |-> o, left |-> rs, repo |-> r, step |-> s,
                                src |-> from, dst |-> to, moved |-> {}]]

At(q, op, s) == req[q] # Idle /\ req[q].op = op /\ req[q].step = s

-----------------------------------------------------------------------------
(* Creating and forking *)

\* The new row's id stands for its data from the first step on.
Create(q, r, o) ==
  /\ row[r] = "none"
  /\ ~ Holds(o, {"live"})
  /\ ~ Busy(r)
  /\ Start(q, "create", {r}, r, "lstat", <<o, Live>>, <<o, Live>>)
  /\ UNCHANGED <<rowVars, dir, now, cutoff, misplaced>>

ClaimLstat(q) ==
  /\ At(q, "create", "lstat")
  /\ IF PathTaken("wiki", req[q].dst) THEN Done(q) ELSE SetStep(q, "mkdir")
  /\ UNCHANGED <<rowVars, dir, now, cutoff, misplaced>>

ClaimMkdirAll(q) ==
  /\ At(q, "create", "mkdir")
  /\ SetStep(q, "insert")
  /\ dir' = [dir EXCEPT !["git"][req[q].dst] = IF @ = NoDir THEN Empty ELSE @]
  /\ UNCHANGED <<rowVars, now, cutoff, misplaced>>

\* os.Mkdir fails on whatever lies there.
ClaimMkdir(q) ==
  /\ At(q, "create", "mkdir")
  /\ IF PathTaken("git", req[q].dst)
     THEN Done(q) /\ UNCHANGED dir
     ELSE SetStep(q, "insert") /\ dir' = [dir EXCEPT !["git"][req[q].dst] = Empty]
  /\ UNCHANGED <<rowVars, now, cutoff, misplaced>>

\* The statement may fail for its own reasons, too.
Insert(q) ==
  /\ At(q, "create", "insert")
  /\ \/ /\ NameFree(req[q].dst[1])
        /\ row' = [row EXCEPT ![req[q].repo] = "live"]
        /\ owner' = [owner EXCEPT ![req[q].repo] = req[q].dst[1]]
        /\ SetStep(q, "fill")
     \/ /\ SetStep(q, "removeAll")
        /\ UNCHANGED <<row, owner>>
  /\ UNCHANGED <<stamp, dir, now, cutoff, misplaced>>

\* The empty repository, the template's or the fork's.
Fill(q) ==
  /\ At(q, "create", "fill")
  /\ \/ /\ dir["git"][req[q].dst] \notin Repo
        /\ dir' = [dir EXCEPT !["git"][req[q].dst] = req[q].repo]
        /\ Done(q)
     \/ /\ SetStep(q, "dropRow")
        /\ UNCHANGED dir
  /\ UNCHANGED <<rowVars, now, cutoff, misplaced>>

DropRowOnly(q) ==
  /\ At(q, "create", "dropRow")
  /\ row' = [row EXCEPT ![req[q].repo] = "gone"]
  /\ Done(q)
  /\ UNCHANGED <<owner, stamp, dir, now, cutoff, misplaced>>

\* abandonNewRepo, first half.  A row that can't be deleted stays, and its
\* directory goes all the same.
DropRow(q) ==
  /\ At(q, "create", "dropRow")
  /\ SetStep(q, "removeAll")
  /\ \/ row' = [row EXCEPT ![req[q].repo] = "gone"] /\ UNCHANGED misplaced
     \/ misplaced' = misplaced \cup {req[q].repo} /\ UNCHANGED row
  /\ UNCHANGED <<owner, stamp, dir, now, cutoff>>

\* abandonNewRepo, second half
RemoveAll(q) ==
  /\ At(q, "create", "removeAll")
  /\ dir' = [dir EXCEPT !["git"][req[q].dst] = NoDir]
  /\ Done(q)
  /\ UNCHANGED <<rowVars, now, cutoff, misplaced>>

-----------------------------------------------------------------------------
(* Wikis are made with their first page *)

SavePage(q, r) ==
  /\ row[r] = "live"
  /\ Start(q, "save", {r}, r, "init", <<owner[r], Live>>, <<owner[r], Live>>)
  /\ UNCHANGED <<rowVars, dir, now, cutoff, misplaced>>

WikiPageSave(q) ==
  /\ At(q, "save", "init")
  /\ dir' = IF PathTaken("wiki", req[q].dst) THEN dir
            ELSE [dir EXCEPT !["wiki"][req[q].dst] = req[q].repo]
  /\ Done(q)
  /\ UNCHANGED <<rowVars, now, cutoff, misplaced>>

-----------------------------------------------------------------------------
(* Deleting, restoring, transferring: rename both directories, then the row *)

Delete(q, r) ==
  /\ row[r] = "live"
  /\ ~ Busy(r)
  /\ Start(q, "delete", {r}, r, "git", <<owner[r], Live>>, <<owner[r], now>>)
  /\ UNCHANGED <<rowVars, dir, now, cutoff, misplaced>>

Restore(q, r) ==
  /\ row[r] = "deleted"
  /\ ~ Holds(owner[r], {"live"})
  /\ ~ Busy(r)
  /\ Start(q, "restore", {r}, r, "look", <<owner[r], stamp[r]>>, <<owner[r], Live>>)
  /\ UNCHANGED <<rowVars, dir, now, cutoff, misplaced>>

FindCopy(q) ==
  /\ At(q, "restore", "look")
  /\ LET o == req[q].src[1]
         t == req[q].src[2]
     IN \/ /\ ~ PathTaken("git", req[q].dst)
           /\ \E s \in CopySuffixes(t) :
                /\ IsCopySuffix(o, t, s)
                /\ req' = [req EXCEPT ![q].src = <<o, s>>, ![q].step = "git"]
        \/ /\ PathTaken("git", req[q].dst) \/ \A s \in CopySuffixes(t) : ~ HasCopy(o, s)
           /\ Done(q)
  /\ UNCHANGED <<rowVars, dir, now, cutoff, misplaced>>

Move(q, r, o) ==
  /\ row[r] = "live"
  /\ o # owner[r]
  /\ ~ Busy(r)
  /\ Start(q, "move", {r}, r, "look", <<owner[r], Live>>, <<o, Live>>)
  /\ UNCHANGED <<rowVars, dir, now, cutoff, misplaced>>

CheckTarget(q) ==
  /\ At(q, "move", "look")
  /\ IF \E k \in Kind : PathTaken(k, req[q].dst) THEN Done(q) ELSE SetStep(q, "git")
  /\ UNCHANGED <<rowVars, dir, now, cutoff, misplaced>>

\* os.Rename of one directory: a missing one is skipped, a taken target ends
\* the request.  It looks at the target before the system call, which replaces
\* an empty directory: a claim made in between is lost.
RenameDir(q, k) ==
  /\ req[q] # Idle /\ req[q].step = k
  /\ LET from == req[q].src
         to   == req[q].dst
         next == IF k = "git" THEN "wiki" ELSE "update"
     IN \/ /\ ~ PathTaken(k, from)
           /\ SetStep(q, next)
           /\ UNCHANGED <<dir, misplaced>>
        \/ /\ PathTaken(k, from) /\ dir[k][to] \in {NoDir, Empty}
           /\ dir' = [dir EXCEPT ![k][to] = dir[k][from], ![k][from] = NoDir]
           /\ req' = [req EXCEPT ![q].moved = @ \cup {k}, ![q].step = next]
           /\ misplaced' = IF PathTaken(k, to) THEN misplaced \cup {req[q].repo} ELSE misplaced
        \/ /\ PathTaken(k, from) /\ PathTaken(k, to)
           /\ SetStep(q, "revert")
           /\ UNCHANGED <<dir, misplaced>>
  /\ UNCHANGED <<rowVars, now, cutoff>>

DeleteMatches(q) ==
  /\ req[q].op = "delete"
  /\ row[req[q].repo] = "live" /\ owner[req[q].repo] = req[q].src[1]

RestoreMatches(q) ==
  /\ req[q].op = "restore"
  /\ row[req[q].repo] = "deleted"
  /\ owner[req[q].repo] \in Org => NameFree(owner[req[q].repo])

\* A transfer without a git directory to move is refused before the statement.
MoveMatches(q) ==
  /\ req[q].op = "move"
  /\ "git" \in req[q].moved
  /\ row[req[q].repo] = "live" /\ owner[req[q].repo] = req[q].src[1]
  /\ NameFree(req[q].dst[1])

RowMatches(q) == DeleteMatches(q) \/ RestoreMatches(q) \/ MoveMatches(q)

WriteRowStampedByDatabase(q) ==
  LET r == req[q].repo
  IN /\ row' = [row EXCEPT ![r] = IF req[q].op = "delete" THEN "deleted" ELSE "live"]
     /\ owner' = IF req[q].op = "move" THEN [owner EXCEPT ![r] = req[q].dst[1]] ELSE owner
     /\ stamp' = IF req[q].op = "delete" THEN [stamp EXCEPT ![r] = now] ELSE stamp

WriteRow(q) ==
  LET r == req[q].repo
  IN /\ row' = [row EXCEPT ![r] = IF req[q].op = "delete" THEN "deleted" ELSE "live"]
     /\ owner' = IF req[q].op = "move" THEN [owner EXCEPT ![r] = req[q].dst[1]] ELSE owner
     /\ stamp' = IF req[q].op = "delete" THEN [stamp EXCEPT ![r] = req[q].dst[2]] ELSE stamp

\* What the statement asks of the row, or a constraint, may have changed; and
\* it may fail or be cancelled.
UpdateRow(q) ==
  /\ req[q] # Idle /\ req[q].step = "update"
  /\ \/ RowMatches(q) /\ WriteRow(q) /\ Done(q)
     \/ SetStep(q, "revert") /\ UNCHANGED rowVars
  /\ UNCHANGED <<dir, now, cutoff, misplaced>>

\* revertDirs undoes the last rename first.  A directory that can't go back
\* stays where it is: a git directory then is not where its row says, nor is a
\* wiki where its git is, if it stays aside.
RevertDir(q) ==
  /\ req[q] # Idle /\ req[q].step = "revert"
  /\ IF req[q].moved = {} THEN Done(q) /\ UNCHANGED <<dir, misplaced>>
     ELSE LET k    == IF "wiki" \in req[q].moved THEN "wiki" ELSE "git"
              from == req[q].dst
              to   == req[q].src
          IN /\ dir' = IF PathTaken(k, from) /\ ~ PathTaken(k, to)
                       THEN [dir EXCEPT ![k][to] = dir[k][from], ![k][from] = NoDir]
                       ELSE dir
             /\ req' = [req EXCEPT ![q].moved = @ \ {k}]
             /\ misplaced' = IF PathTaken(k, to) /\ (k = "git" \/ req[q].op = "delete")
                            THEN misplaced \cup {req[q].repo} ELSE misplaced
  /\ UNCHANGED <<rowVars, now, cutoff>>

-----------------------------------------------------------------------------
(* Removing what no row is left to restore *)

\* The rows of rs go in one transaction, their directories one after the other.
RemoveRows(q, rs) ==
  \E r \in rs :
    /\ \A x \in rs : ~ Busy(x)
    /\ Start(q, "purge", rs, r, "copy", <<owner[r], stamp[r]>>, <<owner[r], Live>>)
    /\ row' = [x \in Repo |-> IF x \in rs THEN "gone" ELSE row[x]]
    /\ UNCHANGED <<owner, stamp, dir, now, cutoff, misplaced>>

PurgeExpired(q) ==
  RemoveRows(q, {r \in Repo : row[r] = "deleted" /\ stamp[r] <= cutoff})

\* An organization without live repositories goes with its deleted ones.  One
\* of the same name may follow it.
DeleteOrg(q, o) ==
  /\ o \in Org /\ ~ Holds(o, {"live"})
  /\ RemoveRows(q, {r \in Repo : row[r] = "deleted" /\ owner[r] = o})

NextRepoStale(q) ==
  LET rest == req[q].left \ {req[q].repo}
  IN IF rest = {} THEN Done(q)
     ELSE req' = [req EXCEPT ![q].left = rest, ![q].step = "copy"]

NextRepo(q) ==
  LET rest == req[q].left \ {req[q].repo}
  IN IF rest = {} THEN Done(q)
     ELSE \E r \in rest :
            req' = [req EXCEPT ![q].left = rest, ![q].repo = r, ![q].step = "copy",
                               ![q].src = <<owner[r], stamp[r]>>, ![q].dst = <<owner[r], Live>>]

RemoveDeletedCopy(q) ==
  /\ At(q, "purge", "copy")
  /\ dir' = [k \in Kind |-> [p \in Path |->
               IF p[1] = req[q].src[1] /\ IsCopySuffix(p[1], req[q].src[2], p[2])
               THEN NoDir ELSE dir[k][p]]]
  /\ SetStep(q, "stranded")
  /\ UNCHANGED <<rowVars, now, cutoff, misplaced>>

\* A wiki at the live path of a name no row holds can't be reached any more.
FindStrandedWiki(q) ==
  /\ At(q, "purge", "stranded")
  /\ IF PathTaken("wiki", req[q].dst) THEN SetStep(q, "held") ELSE NextRepo(q)
  /\ UNCHANGED <<rowVars, dir, now, cutoff, misplaced>>

NameHeld(q) ==
  /\ At(q, "purge", "held")
  /\ IF Holds(req[q].dst[1], {"live", "deleted"}) THEN NextRepo(q) ELSE SetStep(q, "remove")
  /\ UNCHANGED <<rowVars, dir, now, cutoff, misplaced>>

RemoveStrandedWiki(q) ==
  /\ At(q, "purge", "remove")
  /\ dir' = [dir EXCEPT !["wiki"][req[q].dst] = NoDir]
  /\ NextRepo(q)
  /\ UNCHANGED <<rowVars, now, cutoff, misplaced>>

-----------------------------------------------------------------------------
(* Time *)

Tick ==
  /\ now < MaxTime
  /\ now' = now + 1
  /\ UNCHANGED <<rowVars, dir, req, cutoff, misplaced>>

\* No request lasts a month.
MonthPasses ==
  /\ \A q \in Request : req[q] = Idle
  /\ now + 2 <= MaxTime
  /\ now' = now + 2
  /\ cutoff' = now
  /\ UNCHANGED <<rowVars, dir, req, misplaced>>

Begin(q) ==
  \E r \in Repo :
    \/ SavePage(q, r) \/ Delete(q, r) \/ Restore(q, r)
    \/ \E o \in Owner : Create(q, r, o) \/ Move(q, r, o)

Continue(q) ==
  \/ ClaimLstat(q) \/ ClaimMkdir(q) \/ Insert(q) \/ Fill(q) \/ DropRow(q) \/ RemoveAll(q)
  \/ WikiPageSave(q) \/ FindCopy(q) \/ CheckTarget(q)
  \/ \E k \in Kind : RenameDir(q, k)
  \/ UpdateRow(q) \/ RevertDir(q)
  \/ RemoveDeletedCopy(q) \/ FindStrandedWiki(q) \/ NameHeld(q) \/ RemoveStrandedWiki(q)

Next ==
  \/ \E q \in Request :
       \/ Begin(q) \/ Continue(q)
       \/ PurgeExpired(q) \/ \E o \in Owner : DeleteOrg(q, o)
  \/ Tick \/ MonthPasses

Spec == Init /\ [][Next]_vars

-----------------------------------------------------------------------------
(* Properties *)

ServesItsGit(r) == row[r] = "live" /\ ~ Busy(r) => dir["git"][<<owner[r], Live>>] = r

\* A live repository serves its own git directory, whatever requests about
\* others of its name did: claims, transfers and restores never adopt another
\* repository's data, and a move that was refused is undone.  This and the next
\* three hold until a directory that was moved can't go back, a create's row
\* can't be deleted, or a rename replaces a claim: the code goes on from there.
LiveHasItsGit == misplaced = {} => \A r \in Repo : ServesItsGit(r)

\* A deleted repository's copy lies at the second its row names, so that
\* restoring and purging need not search.
CopyIsFound ==
  misplaced = {} =>
    \A r \in Repo : row[r] = "deleted" /\ ~ Busy(r) => dir["git"][<<owner[r], stamp[r]>>] = r

KeepsGit ==
  misplaced = {} =>
    \A r \in Repo :
      (\E p \in Path : dir["git"][p] = r) /\ row'[r] \in {"live", "deleted"}
        => \E p \in Path : dir'["git"][p] = r

\* No step removes the git data of a repository that keeps its row: purges and
\* abandoned creates take only what is theirs.
GitKept == [][KeepsGit]_vars

\* Once requests are done, a name without a live row has no git directory in
\* the way of its next holder.
NameIsFree ==
  misplaced = {} /\ (\A q \in Request : req[q] = Idle) =>
    \A o \in Owner : PathTaken("git", <<o, Live>>) => Holds(o, {"live"})

\* Nothing moves to an owner who has a repository of that name already: a
\* transfer that was refused for it moves its git directory back to its place.
RefusedTransfersGoBack ==
  [][\A q \in Request :
       /\ misplaced = {} /\ At(q, "move", "revert") /\ ~ NameFree(req[q].dst[1])
       /\ "git" \in req[q].moved /\ "git" \notin req'[q].moved
       => dir'["git"][req[q].src] = req[q].repo]_vars

\* Both directories of a repository move together: a transfer that has moved
\* the git directory takes no other repository's wiki along.
WikiMovesWithItsRepo ==
  \A q \in Request :
    req[q] # Idle /\ req[q].op = "move" /\ "wiki" \in req[q].moved =>
      dir["wiki"][req[q].dst] = req[q].repo
=============================================================================
