# Cloudzilla, specified

TLA+ modules for the parts of Cloudzilla (a Git hosting server in Go) whose
correctness depends on the order in which several actors do things: the
scheduler that mirrors repositories, the merging of pull requests against
pushes, the history walks that decide fast-forwards, the moving of
repositories' directories, offers of repositories to other users, the owners
of organizations, measured sizes, imports, webhook deliveries, pasted images,
device logins and the links mailed to accounts. TLC checks each module on
small instances, TLAPS proves the safety properties that the passing runs check
for all values of the constants. Paths below are relative to `src/`.

## The system

One Go process serves HTTP (pages, JSON API, Git over HTTP) and SSH from a
PostgreSQL database and a directory of bare Git repositories. Several
processes may share both. Nothing but the database and the file system is
shared between them, and nothing spans the two: a ref update and a row update
are never one transaction.

| Component | State | Operations | Where it is hard | What makes it correct |
| --- | --- | --- | --- | --- |
| Pull mirrors (`internal/service/mirror_*.go`, `internal/store/mirror_store.go`) | `repo_mirrors` rows: due time, lease, request, failures, interval | claim, sync, record, sync now, edit, stop, archive, shutdown | several schedulers, leases that run out under a sync, results saved late, crashes | one writer at a time and no force-fetch over a user's push, until a sync outlives its lease and again after it; requests are not lost; waits keep to their bounds; a due mirror is taken up |
| Pull requests (`internal/handler/pull_handler.go`, `internal/service/pull_service.go`, `code_service_merge.go`) | `pull_requests` rows, the two branches | create, edit, merge, auto-merge, close, reopen, draft | a merge is six separate reads and writes while others push, close and review | merges land only work that met the rule; merged means landed; nothing is lost |
| Branch protection (`internal/service/branch_protection_service.go`) | rules | `CheckPush`, `CheckDelete`, `CheckMerge` | asked before a ref is moved, not while | history of a protected branch only grows |
| Ref updates (`internal/gitref`, `internal/gittransport`) | refs on disk | `Move`, receive-pack, branch pages | create and delete cannot compare and swap | no update of a protected branch is lost |
| History walks (`internal/service/merge_base.go`) | one walk's queue and flags | `isAncestor`, `mergeBases`, `findMergeBase` | dates that lie, ties within a second | exactly git's answers |
| Statuses and reviews (`commit_status_handler.go`, `pull_review_handler.go`) | rows | post, submit, dismiss | start auto-merge in goroutines | see pull requests |
| Push side effects (`internal/service/repo_service_push.go`) | pull request head SHAs, closed issues, caches | one background job per push | jobs of two pushes run in any order | the last push's facts win |
| Repository lifecycle (`internal/service/repo_dirs.go`, `repo_service_lifecycle.go`, `repo_transfer.go`) | a row and a directory per repository and per wiki | create, fork, import, rename, transfer, delete, restore, purge | row and directory change separately; crashes in between | a live row has its own directory; no directory is removed under a live row |
| Transfer offers (`internal/service/repo_transfer.go`, `internal/store/repo_transfer_store.go`) | `repo_transfers`, the repository's owner | offer, accept, decline, cancel, move | what a recipient read may have ended or moved | ended offers move nothing; a recipient gets what they were shown |
| Imports (`internal/service/import_service.go`, `repo_import.go`) | jobs in memory, a slot each, a temporary clone, a claim, a row | start, run, publish, evict, sweep | limits, panics, failures of any step, crashes | limits hold; slots come back; all or nothing |
| Webhooks (`internal/service/webhook_service.go`) | delivery rows | deliver, log, retry, redeliver | counts written from stale reads; attempts that outlast a tick | one scheduled attempt at a time, five in all |
| Quotas (`internal/service/quota_service.go`) | `size_bytes`, a map of running measurements | check, recompute, backfill | calls that come while a measurement runs; the backfill beside it | the goroutines measure one repository one at a time; no write goes unmeasured |
| Device grants (`internal/service/device_grant_service.go`) | `device_grants`, tokens | ask, approve, deny, poll, redeem | two polls, stale pages | one token, with the approved scopes |
| Password reset, email verification, provider links (`internal/service/password_reset_service.go`, `email_verification_service.go`, `oauth_link_service.go`) | tokens, addresses, session versions | issue, open, verify, vouch, link | links outlive address changes and sign-outs | an address that counts as verified was proved; a link resets once |
| Sessions, access tokens, admin mode | rows with expiries | issue, check, revoke | races with logout | a revoked secret opens nothing |
| Organizations and accounts (`internal/store/org_store.go`, `user_store_delete.go`, `admin_user_store.go`) | memberships, accounts, superadmins | add, change, remove, transfer, delete, suspend | two owners leave, or two superadmins go, at once | somebody owns it; somebody is superadmin |
| Issues, discussions, labels, projects, notifications, gists, wikis, releases | rows | edits | numbering; closing by keyword | unique numbers |
| Search, statistics, caches | derived data | recompute | staleness | the next change repairs it |
| Attachments (`internal/service/attachment_service.go`) | objects, rows, tokens in bodies | upload, write, sweep, purge | a sweep that listed rows before somebody wrote | no image in use is swept; no object is stranded |
| Everything else (rendering, configuration, CLI, backup, middleware) | – | – | – | – |

How they interact: a push (HTTP, SSH or web editor) passes branch protection,
moves refs through `gitref.Move`, and starts the push side effects. A merge
reads reviews, statuses and the rule, builds commits through the history
walks, moves the base branch through the same `gitref.Move`, and then updates
the row. Statuses and reviews start auto-merges, which run the same merge. A
mirror's sync writes refs with a forced fetch of its own and relies on pushes
being refused while the repository has a mirror row. `PROJECT.json` lists
every component with its files and says whether it is modelled, and every
hazard at its line.

## Modules

| Module | Models |
| --- | --- |
| `MirrorSync` | rows, leases, slots and deadlines of pull mirroring |
| `MirrorAccess` | what mirroring promises: the abstract specification `MirrorSync` implements |
| `PullMerge` | one pull request, its two branches, a protection rule, merges, pushes, statuses, reviews |
| `MergeBase` | the paint walk behind `isAncestor` and `mergeBases` |
| `RepoDirs` | rows and directories of the repositories that hold one name in turn |
| `TransferOffers` | who owns one repository while it is offered, moved, accepted |
| `OrgOwners` | members and owners of organizations, superadmins, suspensions, deletions, with their row locks |
| `RepoSizes` | measuring repositories while they are written |
| `ImportJobs` | import jobs, slots, limits and the steps of publishing a clone |
| `WebhookDeliveries` | first attempts, retries and redeliveries of deliveries |
| `AttachmentSweep` | uploads, the sweep and the purge of pasted images |
| `DeviceGrants` | the device login |
| `AccountLinks` | reset and verification links, addresses, provider links, session versions |
| `MCMirrorSync`, `MCPullMerge`, `MCMergeBase`, `MCRepoDirs`, `MCOrgOwners` | small instances for TLC |
| `MCServices` | a small instance of the owners, sizes, imports, webhooks, attachments and offers |
| `MCRequests` | a small instance of the account links, device logins and directories |
| `…_proofs` | theorems and their proofs |

### MirrorSync

`rows`, `next`, `lease`, `requested`, `failures`, `interval` and `since` are
the columns of `repo_mirrors` (`next_sync_at`, `lease_until`, `requested_at >
claimed_at`, `consecutive_failures`, `interval_seconds`, `last_sync_at`);
times count ticks until or since now, because the SQL only compares them with
`NOW()`. `phase`, `target` and `left` are the goroutines of `claimAndSync`:
what they sync and how long their context still lasts. Three variables are
history: `pushed`, the repositories that hold commits their users pushed;
`held`, the intervals a row has had, any of which a settings request still at
work may have read; `late`, the mirrors one of whose syncs has outlived its
lease, for as long as some sync of them has run ever since.

| Action | Code |
| --- | --- |
| `ClaimDue` | `MirrorStore.ClaimDue`, called by `claimAndSync` for a free slot |
| `FetchDone`, `FetchMayHaveMoved` | the forced fetch in `MirrorService.Sync`, complete or cut off |
| `RecordSuccess`, `RecordFailure`, `ReleaseLease`, `RecordError` | `syncAndRecord` and the statement it ends with |
| `Shutdown`, `Restart`, `Crash` | `MirrorService.Shutdown`, `Run`, the end of a process |
| `MarkDue`, `EditSource`, `EditInterval`, `EditNothing`, `Stop`, `SetArchived` | sync now, `MirrorService.Update` by what the row it read makes of the request (a new source, a new interval alone, nothing new: the interval it read is written back over a newer one), stop mirroring, archiving |
| `UserWrite` | a push, which `CheckContentWritable` lets through when there is no row |
| `Tick` | a second, or a day: all clocks move together, and no deadline is overrun |

A sync that is past its fetch does side effects under a deadline of its own
(`SideTime`). The code gives them five minutes and the lease one minute of
slack, so a lease can end under its sync; another instance then claims the
row, and the first one's result ends the second one's lease. The runs have
such times. `MirrorLatePush` shows what it leads to, against the comments in
the code. The properties of the passing run except the mirrors in `late`, and
no others: they say that nothing but a sync that has outlived its lease breaks
the promise, and that the lease keeps it again once that sync and those that
ran beside it have ended. `MirrorAccess` calls such a mirror "contended".

### PullMerge

`tip` is what the two branches point at; `reach[c]` is what commit `c`
reaches, `{}` while `c` has not been made; `source[c]` is the head a merge or
squash commit brings in. `status`, `passed`, `verdict` and `rule` are what
`CheckMerge` and `CheckPush` look at (`passed` is a history variable). `state`,
`draft` and `armed` are the row. `mstep` is how far each run of `mergePull`
has come:

| Step | Actions | Code |
| --- | --- | --- |
| begun | `AskMerge`, `TryAutoMerge` | `UpdatePull`'s and `tryAutoMerge`'s reads of the row |
| resolved | `Resolve` | the reviews and the head branch are read |
| checked | `Check` | `BranchProtectionService.CheckMerge` on that head |
| built | `Build`, `Refuse` | `resolveHead`, the base branch is read, the strategy's commit is made |
| moved | `MoveBase` | `gitref.Move` compares the base branch with what was read |
| idle | `SetMerged`, `UpdateState` | `PullService.SetState` reads the row, `PullStore.UpdateState` writes it |

Any step may refuse and end the merge. Pushes are a client that saw a branch
(`Send`), then one step for an update, which compares and swaps
(`PushUpdate`), and two for a creation or deletion (`PushLook`,
`PushWrite`), which look and then write. `wake` holds the goroutines that
statuses and reviews start.

`faults` counts crashes (`Crash`) and the reads and writes that fail or are
cancelled with their request: of a merge at any step (`MergeFails`), of a close
or reopen (`UpdateFails`), of a goroutine before it merges
(`TryAutoMergeFails`). `mergePull` returns when `SetState` fails and nothing
repairs the row later, so a fault after `MoveBase` leaves an open pull request
whose commits have landed, and a fault in a woken goroutine leaves a ready pull
request unmerged. `LandedIsRecorded` and `WokenMergeFires` excuse exactly the
merges and goroutines that meet a fault after they landed or were woken: they
say that no order of closes, reopens, switches, reviews and statuses has the
same effect.

### MergeBase

One walk: `flags`, `queued` and `common` are `paintWalk`'s maps and queue,
`phase` says whether `mergeBases` paints, or `independent` compares the bases
it found. `Histories` are the parent sets a commit may have, `Dates` the
dates clients may claim.

### RepoDirs

`row`, `owner` and `stamp` are columns of `repos` (live, deleted or gone; who
holds the name; the second of `deleted_at`) for repositories that all bear one
name. `dir[kind][<<owner, t>>]` is whose data lies at a path: the live path for
`t = 0`, the copy `….deleted.<t>` otherwise, for the git and for the wiki
directory. `req[q]` is what a request is doing, step by step; `now` is the
clock in seconds, which names copies, and `cutoff` the second before which a
deletion is a month old. `misplaced` remembers the repositories that a failing
step may have parted from the directory their row names.

| Actions | Code |
| --- | --- |
| `Create`, `ClaimLstat`, `ClaimMkdir` | `RepoService.Create` and `Fork` look for a row, `claimRepo` at the wiki path, then makes the git directory |
| `Insert`, `Fill`, `DropRow`, `RemoveAll` | the row, the repository's content, and `abandonNewRepo` when either fails |
| `SavePage`, `WikiPageSave` | a wiki directory is made with its first page |
| `Delete`, `Restore`, `Move` | requests that rename directories; `FindCopy` is `deletedCopySuffix`, `CheckTarget` what `moveRepo` looks at before it moves |
| `RenameDir`, `UpdateRow`, `RevertDir` | `renameDirs`, the store's statement with its `WHERE` and the unique constraints, `revertDirs` |
| `PurgeExpired`, `DeleteOrg` | rows go in one transaction |
| `RemoveDeletedCopy`, `FindStrandedWiki`, `NameHeld`, `RemoveStrandedWiki`, `NextRepo` | `RemoveDeletedCopies`, row after row |
| `Tick`, `MonthPasses` | a second; a month, which no request outlasts |

Two requests that change where one and the same repository lives do not
overlap (`Busy`), though page saves overlap with all; what the code does
otherwise is told under "What is left out". Requests about different
repositories of the name interleave between any two steps.

The statement after the renames may fail or be refused at any time, and the
directories then go back. The code goes on with data in the wrong place after
three events, which put the repository into `misplaced`:

* A directory of a transfer, delete or restore can't go back, because a create
  has claimed its place or a page has been saved there (`RevertDir`). Run
  `RepoTransfer` shows it of a transfer that the unique constraint refuses: the
  repository is live at one owner, its data lies at the other.
* `abandonNewRepo` can't delete the row of a create that failed, logs that, and
  removes the directory all the same (`DropRow`): the row is live, without data.
* A create claims the place a transfer or a restore is about to rename to
  (`RenameDir`). `os.Rename` refuses an existing directory, but it looks before
  it calls rename(2), which replaces an empty one; a claim is one. The create
  finds its directory full, gives up and removes it, with the data that was
  moved there. The comment at `renameDirs` ("`os.Rename` refuses to replace an
  existing directory, so no move lands on another repo") does not see that
  window. When the rename back replaces a claim in the same way, the model has
  the refusal only; the repository is misplaced either way.

What follows, such as a purge that takes a neighbour's copy, is unforeseeable:
`LiveHasItsGit`, `CopyIsFound`, `NameIsFree` and `GitKept` hold until then,
`misplaced = {}`, and the run `Requests` lets the directories move until then
(`NoneMisplaced`). The theorems about `Spec` have no such bound.

### TransferOffers

`holder`, `live` and `offer` are the repository's owner, its `deleted_at` and
its only row in `repo_transfers` (`UNIQUE (repo_id)`); `lapsed` is that row's
`expires_at`; `staff` the owners of organizations. `handler` is what a request
has read. `made`, `stray` and `ended` are histories.

| Actions | Code |
| --- | --- |
| `AskOffer`, `Create`, `CommitCreate` | `TransferRepo` to another user: the transaction of `RepoTransferStore.Create`, alone or beside a move that has not committed |
| `AskMove`, `UpdateOwner`, `CommitOwner` | `TransferRepo` to oneself or to one's organization: the transaction that also ends the offer |
| `AskEnd`, `Delete` | cancelling and declining |
| `AskAccept`, `ReadRepo`, `Accept` | `AcceptTransfer`: the offer with the name the recipient was shown, then the repository, then one transaction |

Create's two statements do not see a move that has not committed. When
`owner_id` changes, the foreign key check of the new row waits for the move;
between two organizations it stays `NULL` and nothing waits, so that Create may
even replace an offer that `UpdateOwner`'s `DELETE` already waits for. The offer
it makes is one of the old owner's and outlives the move (`stray`), contrary to
the comment on `UpdateOwner` (`internal/store/repo_store.go:326`), and its
recipient may have been shown the old owner's name, contrary to the one on
`FullName` (`internal/model/repo_transfer.go:22`). `OffersStayWithTheirOwner`
excuses it. It takes two owners who transfer one repository at the same
instant, and the new owner must still count the one who offered it among its
owners for the offer to be accepted. No run shows it as a violation of its own;
leaving out the excuse, that is `handler[h].row.id \notin stray`, from
`AcceptsWhatWasShown` makes the run `Services` do so.

### OrgOwners

`users`, `super` and `suspended` are accounts and their marks, `orgs` and
`role` the organizations and `org_members`. `tx[q]` is what request `q` does,
`todo` the rows its statement has yet to lock, in the order of their ids,
`held` those it has. `ownerless` is a history: the organizations that got a plain
member when they had no owner. Statements see what was committed when they began and look
again at a row they waited for, as PostgreSQL does at `READ COMMITTED`: the
lock on superadmins (`LockRow`, `KeepActiveSuperadmin`) and the locks on an
organization (`ChangeMember`, `LockOrgs`, `CheckOrgs`) are steps of their own,
so that others commit in between.

### RepoSizes

A size is the number of writes it counts. `written` is what lies on disk,
`calls` the calls of `Recompute` still to come, `stored` is `size_bytes`.
`worker`, `sizing` and `again` are the goroutines, the map of running jobs and
their `again` flags; `backfill` is the pass at startup, which measures without
asking the map and may run beside one of the goroutines. `excused` are the
repositories where an error, a panic, a crash or the backfill had the last word:
the code promises nothing of them until the next write. After a panic
(`MeasurePanics`) not even then: `concurrency.Go` recovers it, the job stays in
the map, and calls of `Recompute` only set its flag until the server restarts.

### ImportJobs

`jobs`, `status`, `ended` and `old` are the map of jobs; `step` is how far each
goroutine has come from `queued` through the clone, the claim, the insert, the
removal of the claim and the rename, and through the cleanup of whichever
fails; `slots`, `temp`, `repos` and `dirs` are what they hold and make. A clone
may panic or time out, any statement may fail, the server may restart.

### WebhookDeliveries

`first` is the goroutine of a first attempt, `row` the delivery's row, `listed`
what a tick has listed, `sender` the goroutines that retry or redeliver. An
attempt sends and then writes the count it read plus one. The module assumes
the configured times: an attempt takes ten seconds at most and a retry comes
due after a minute or more, so that none comes due while one is under way.

### AttachmentSweep

`objects` and `rows` are the storage backend and the table; `upload` is how far
each upload has come; `inBody` says that a body in the database holds the
image's token, `aged` that it is past its grace. `sweep` is what a task listed
before it removes objects and rows one by one. Two kinds of tasks run: the
sweep, and the purge of a repository.

### DeviceGrants

`state`, `scopes`, `decider` and `expired` are `device_grants`; `page` the
pages that users were shown, `poll` what each poll has read. A poll reads the
grant, then redeems it in a transaction that looks again.

### AccountLinks

`email`, `verified`, `version`, `suspended` and `google` are columns of
`users`, `reset` and `verify` the tables of tokens. `request` is what a handler
read before it writes: `Issue`, `Consume`, `UpdateProfile`,
`MarkEmailVerified` and `LinkByVerifiedEmail` look again under the account's
lock, and the model shows that they must.

### Composition

`MirrorSync`'s writers and `PullMerge`'s merges, pushes and reviews are modules
in which several components meet. `MCServices` and `MCRequests` put services
that share no state side by side: a behaviour moves one of them, which
`moving` names, so that one run checks them all and no product of their states
is built. The moving service's state is in the registers `v1`, `v2`, …, which
keeps states small; the owners (and in `MCRequests` the directories) keep the
variables of the module that is extended. Each module's properties are stated
under their own names.

## Runs

`MirrorSync`, `Services` and `Requests` take about two minutes each, the
others a minute at most.

| Run | Expect | Shows |
| --- | --- | --- |
| `MirrorSync` | pass | but for mirrors with a late sync: no two syncs of one mirror, no sync into a stopped one, no push overwritten; requests outlive a running sync, waits keep to their bounds, `MirrorAccess` is implemented; every lease ends, a due mirror is taken up while no server shuts down |
| `MirrorLatePush` | violation | `PushesAlwaysSurvive`: side effects outlast the slack, as the code's times let them |
| `PullRaces` | pass | only checked work reaches a base branch that requires it; a protected base branch keeps its history; merged means landed |
| `PullRow` | pass | what landed gets recorded and a triggered auto-merge goes through, unless a crash or a failed statement comes in between |
| `PullFinal` | violation | `MergedIsFinal`: a close overwrites "merged" |
| `AutoMerge` | violation | `AutoMergeFires`: armed after the last event, nothing starts it |
| `MergeBase` | pass | exact answers for every small history and dating, and every walk ends |
| `Requests` | pass | addresses that count as verified were proved and links reset once; a device login makes one token as it was approved; until a directory is misplaced, a live repository serves its own git directory, a deleted one's copy is where its row says, no git data is removed under a row, a free name is really free |
| `RepoWiki` | violation | `WikiMovesWithItsRepo`: the git and the wiki directory move by two renames, and another request's moves come between them |
| `RepoTransfer` | violation | `RefusedTransfersGoBack`: a create claims the path a transfer has just left; the transfer is refused, because the new owner holds the name, and can't go back |
| `Services` | pass | organizations whose first member was an owner keep one while they have members; of the goroutines that measure one at a time has a repository, and sizes settle; limits of imports hold, jobs end, nothing is left half made; one scheduled attempt, five in all; images in use stay, objects are not stranded; offers that ended move nothing, and others only what the recipient saw |
| `LastSuperadmin` | violation | `SuperadminRemains`: a superadmin promoted after the lock statement began is not seen by it. Three statements of two people must meet within one statement's wait, so this is rare; the comment denies it altogether |

Bounds, and why they are enough:

* Mirrors: two instances with one slot and one mirror already give every
  interleaving of two claims of one row, which is what leases are about; more
  mirrors would only compete for slots, about which nothing is claimed.
  `LeaseSlack = 1` and `SideTime = 2`: a claim, a fetch, the end of the lease
  and the end of the side effects fall on different ticks, in both orders.
  Intervals of 1 and 3 around `MaxBackoff = 2` with `MaxDoublings = 2` make
  the cap, its floor and the cap on doublings bite. One crash.
* Pull requests: three commits (the first base tip, the first head tip, one
  more that any push, merge or squash may make) are enough for the head to
  move, for the base to gain or lose a commit and for the branches to
  diverge. In `PullRaces` two merges and a pusher race for the base under the
  rule that keeps history; behind the rule that requires a check, one merge at
  a time runs beside the pusher, the statuses and a fault (`Races` in
  `MCPullMerge`). `PullRow` has everything that writes the row around one merge,
  without pushes: a second merge of the same pull request waits until the first
  has ended. One fault in each.
* Merge bases: five commits with up to two parents and up to two roots, two
  dates: criss-cross merges, children dated before their parents, and ties.
* Repository directories: two repositories of one name, one organization and
  one account (their unique constraints differ), two requests. A hazard here
  is one repository's request meeting what another one left at a path, so two
  of each are what it takes. Three seconds let two copies lie side by side at
  neighbouring seconds, which is where `deletedCopySuffix` falls back; a month
  is a jump of two of them while nothing runs. Some behaviours begin with a wiki that
  an organization's deletion left at the live path, as deletions from before
  `removeStrandedWiki` did. Statements fail at any point, up to the first one
  that leaves a directory misplaced. The system may stop when its clock has, or there.
  `RepoTransfer` has three repositories, one deleted at the new owner.
* Account links: one account, two addresses, two links, two handlers, two
  bumps of the session version, up to the first link with a provider, which
  only later sign-ins look at (`NoneLinked`). Users meet only in the uniqueness
  of addresses. Device logins: one grant, two users who decide, two polls, two
  scopes.
* Owners: two users and one organization, two requests, which is what it takes
  for two owners to leave each other behind. Accounts may come back under an
  id, so two users are always enough to have a next one.
* Sizes: one repository (measurements of two share nothing) written three
  times, two goroutines: a write before, during and at the end of a walk.
* Imports: three jobs of two users, one at a time per user, two slots, one
  finished job kept per user, a quota of one repository, one crash: each limit
  is below what is asked for. At most one cleanup fails (`MoveImports`), besides
  those that the crash cuts.
* Webhooks: one delivery (they share nothing), three attempts in place of
  five, two redeliveries, one attempt that is not recorded, three goroutines.
* Attachments: two images and two tasks that remove them. Offers: two users,
  two organizations (it takes two for a move that leaves `owner_id` alone), two
  offers one after the other, two requests; the owners of one organization
  change, the repository is deleted or restored, and offers are asked for and
  expire, only before the last offer (`MoveOffers`).

Symmetry is only taken over sets that no assumption, order or initial state
tells apart; the imports and the requests in `MCServices`, handlers, addresses
and links in `MCRequests`, commits and mergers in `MCPullMerge`. Services that
share no state may share model values under it. No run with symmetry checks a
liveness property.

Fairness, and why the code justifies it: a goroutine that can go on does
(`WF` on each merge's steps, on each pending write of the row and on each
woken auto-merge in `PullMerge`; on each slot and on time in `MirrorSync`;
on the single goroutine of `MergeBase`). The other modules state safety
only. For claims the fairness is weak, for each instance: `Run` looks for due
rows at every tick of its ticker, so an instance that could claim a row all the
time does. A server that is shut down again and again before it looks is not
covered, which `DueIsTakenUp` says; nor are several mirrors that compete for
the slots. No fairness is assumed of people: they may
never push, review or ask.

## Proofs

For every value of the constants that satisfies the modules' assumptions:

* `MirrorSync_proofs`: types; one sync per mirror, no sync into a stopped
  mirror, pushes survive, each but for late syncs, and `MirrorSync` implements
  `MirrorAccess` step by step, whatever the times are. The inductive invariant
  (`LeaseInv`) says that a mirror being synced has its row and a lease unless
  it is late, that two syncs of a mirror which is not late are one, that only
  stopped mirrors hold pushed commits, and that a late mirror has a sync
  running. Without the first part the others are not inductive: a claim
  excludes other syncs only because the lease it does not find would be there.
  Also proved: waits keep to their bounds
  (`WaitsAreBounded`)
  and requests outlive running syncs (`RequestsOutliveSyncs`).
* `PullMerge_proofs`: types; `HistoryIsKept`, `MergedLands`,
  `OnlyCheckedWorkLands`. `HistoryInv` carries them: reachability is closed
  and never changes for a commit once made (`Growth`), a merge has built its
  result on the base tip it will compare with, and no pusher is between look
  and write on a protected base. `CheckInv` adds that a checked head passed,
  and that what a result reaches passed before it may land. `LandedInv` adds
  that nobody is about to write "merged" before something landed. No bound on
  commits, mergers, pushers or faults is used.
* `MergeBase_proofs`: types, `AncestorIsExact` and `BasesAreExact`, for any
  commits, any parents and any dates: `isAncestor` is reachability, and
  `mergeBases` returns the common ancestors no other one reaches. `WalkInv` says
  of the walk that runs (`Painted`) that flags only mark what the sides reach,
  that a commit no longer queued has told its parents, and that the commits kept
  as common are those popped with both flags. So when nothing live is queued, what a
  side reaches is marked or lies below a common commit (`MarkedOrBelow`), and no
  maximal common ancestor lies below one. `MaximalAbove` finds, for a base that
  is not maximal, one that is and reaches it; commits are numbered parents first,
  so it is the least distance of a set of naturals. `independent` may then drop
  only what another base reaches, and has compared all it keeps (`Narrowed`).
* `MCServices_proofs`: every property of the run `Services`, for any values of
  the constants that meet `Limits` (positive limits, finitely many imports).
  Only the service that moves takes a step, so the invariant (`ServicesInv`) is
  the moving service's own. The invariants of five services are proved on their
  own modules, in `BackgroundTasks_proofs` and `RepositoryServices_proofs`,
  and taken over by instances of these; lemmas (`SizesNamed`, …) show that the
  definitions of the two instances are the same. The owners of organizations
  come with all their proofs:
  `IInv` says what a transaction relies on from its check to its write: a change
  of a member holds the organization's lock while somebody else is an owner, and
  the deletion of an account holds the account, so that it joins nothing, and
  every organization it is in. No row is locked twice. Promoting is not in the
  way. Adding a member is, in one case, which the property excuses: nothing
  keeps a superadmin from adding a plain member to an organization that has no
  owner, between the two inserts that create it or at any time after the second
  one failed (`internal/service/org_service.go:79`). `ownerless` names these
  organizations; every other one keeps an owner as long as it has members.
* `BackgroundTasks_proofs`:
  * Webhook deliveries. The count in a delivery's row says little, since
    redeliveries and retries overwrite each other's. The invariant is about a
    tally, the attempts other than redeliveries: it is at most the count that
    whoever may write the row next carries, and a count that reaches the limit
    is not scheduled.
  * Imports. The map of jobs forgets finished ones only, so its count of a
    user's jobs bounds those in work; every slot taken is a goroutine's; a
    repository was made under the quota's check by a goroutine that held a slot.
  * Images. What a task removes was idle once, while the repository has a row,
    and an object that is gone does not come back (`SweepsInOrder`).
* `RepositoryServices_proofs`:
  * Sizes. `InMap` says that the map holds exactly the goroutines that measure,
    `Fresh` that one which need not go round again has measured all there is. A
    goroutine that panicked stays in the map, so no second one starts beside it.
  * Offers. The open offer has not ended (`OpenOffer`) and was made under the
    repository's owner, unless it is a stray one, written while a move commits
    (`UnderOwner`); a move that commits ends the others
    (`MovesEndOffers`); and a recipient is shown the owner an offer was made
    under (`ShownIsMade`).
* `MCRequests_proofs`: every property of the run `Requests`. The directories of
  repositories come first, with their proofs. `LiveHasItsGit`, `CopyIsFound` and
  `NameIsFree` speak of repositories that no request is moving, so they are not
  inductive. `Settled` says where each repository's git data is at every step of
  the request that owns it (`Places`), and that it is nowhere else; that no two
  requests own one repository (`Exclusive`); that an empty directory is the
  claim of one create (`Claimed`), which is why a create removes nothing of
  others when it is abandoned; and that a restore finds the place it took its
  copy from free when it has to go back (`GoesBack`). For the last, a delete
  must not bring a wiki to a copy's path whose git is being restored, which is
  what `Wikis` is for: a wiki at a copy's path has its git beside it. A purge
  that falls back to a second next to its own never needs to, since its own
  copy is there.
* `RequestHandlers_proofs`:
  * Links. A token's row says which mailbox its link went to and for which
    version (`RowsAsMade`).
  * Device logins. A grant with a token can never be redeemed again
    (`SpentGrants`), and what a poll has read of an approved grant stays true
    (`PollsInOrder`).

The runs check the properties of the composed services through definitions of
the same names in `MCServices` and `MCRequests`, which stand for the modules'
own: these are what the theorems are about. The step lemmas have one step for
each action. The bounds that TLC needs (`MaxTime`, `MaxVersion`, numbers of
writes, offers, crashes) are constants like the others in the theorems, of any
size. `NoneMisplaced` is part of `RequestsSpec`; what is proved of its
directories is proved of `Spec`, without it, first. The bounds in
`MoveAccounts`, `MoveImports` and `MoveOffers` belong to `RequestsSpec` and
`ServicesSpec` too, but no proof uses them: each service's step lemma is about
every step of its own `Next`.

Model-checked only: all liveness (`LeaseEnds`, `DueIsTakenUp`,
`LandedIsRecorded`, `WokenMergeFires`, `WalkEnds`), which is out of the proof
system's reach. Every invariant and every action property that a passing run
checks is proved.

## What is left out of the models

* Mirrors: URLs, credentials, which refs a fetch writes, errors' texts. The
  settings handler's read and write back of these fields loses one of two
  concurrent edits; of that data the model has the interval. Which of several
  due rows gets a free slot (`ORDER BY next_sync_at`, behind which sync now
  puts a row).
* Pull requests: one pull request, one rule, one required check and one
  reviewer. Rules do not change during a behaviour: nobody promises a rule to
  merges that began before it. Tree merging either conflicts or succeeds.
  Linked issues, timeline entries and notifications follow the row and no
  property is about them. The gap between look and write when a branch is
  created or deleted is modelled; it only shows on unprotected branches, for
  which nothing is promised. A pull request that is closed, made a draft or
  reviewed while its merge runs is merged all the same, in the code and in the
  model; no property forbids it.
* Merge bases: commits popped in the same second come in any order here (the
  code's heap has one), and the choice among several bases in `findMergeBase`
  is go-git's.
* Repository directories: a crash between the renames and the row's update.
  The code has no pass at start-up that repairs it, so the row then names a
  path that is empty until somebody moves the copy back by hand. Disks that
  fail: a rename fails on a taken target only. Two requests about one
  repository: of two overlapping deletes the second may put the directories
  back under a deleted row, so that the suffix its row names leads nowhere;
  a purge that overlaps a restore may fall back to a neighbouring second's
  copy. Imports, which empty their claim before they fill it (`ImportJobs`
  gives every import a name of its own); accounts deleted with their live
  repositories; names that end in `.wiki`. A page save that races an abandoned
  create or a purge leaves a wiki that blocks the name; no property denies it.
* Transfer offers: the directories, which `RepoDirs` moves; quotas; superadmins.
* Sizes: `cz-admin gc` and a second server, which measure outside the map of
  running measurements, and transfers.
* Webhooks: several servers that retry together, and the choice of what events
  are sent.
* Attachments: uploads that outlast the thirty days before a purge, clocks a
  day apart; objects of uploads that failed, which nothing removes. That the
  sweep gets to every image is not stated: a batch of a hundred rows whose
  objects cannot be deleted ends each pass.
* Account links: accounts without a password, sign-up, linking and unlinking
  from the settings, case variants of an address, cool-downs between mails,
  and what a session may do until it is checked again.
* Components marked `not_modelled` in `PROJECT.json`, with their reasons. Most
  of the repository's lines are generated page templates, handlers that read a
  form and call one statement, and pages: they have no protocol of their own,
  and a model of them would restate their code. That is why the map covers a
  small share of all lines.

## Plan

1. Done: the modules above.
2. An abstract map from names to repositories that `RepoDirs` implements;
   imports and crashes in it, with properties guarded by them.
3. `PushJobs`: two pushes and their unordered background jobs, against the
   pull request's head SHA and closing keywords.
4. A second server in `WebhookDeliveries` and `RepoSizes`.
5. Proofs: an abstract branch (a tip that only grows) that `PullMerge`
   implements under a protecting rule; the abstract map of step 2.
