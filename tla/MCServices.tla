------------------------------ MODULE MCServices ------------------------------
(* A small instance of six services that share no state: the owners of       *)
(* organizations, the sizes of repositories, imports, webhook deliveries,    *)
(* attachments and offers of repositories.  A behaviour moves one of them,   *)
(* so that one run checks all.  The state of the one that moves is in        *)
(* v1, v2, ..., unless it is the owners; the rest of those stay Unused.      *)
EXTENDS MCOrgOwners, Sequences

CONSTANTS
  Repo, Worker, MaxWrites,
  Import, PerUser, Slots, Keep, MaxRepos, MaxCrashes,
  Delivery, Sender, MaxAttempts, MaxRedelivers, MaxLost,
  Attachment,
  Team, MaxOffers   \* organizations that own repositories; offers

VARIABLES
  v1, v2, v3, v4, v5, v6, v7, v8, v9, v10, v11, v12,
  moving   \* the service that moves

Sizes == INSTANCE RepoSizes WITH
  written <- v1, calls <- v2, stored <- v3, worker <- v4, sizing <- v5, again <- v6,
  backfill <- v7, excused <- v8

Imports == INSTANCE ImportJobs WITH
  user <- v1, jobs <- v2, status <- v3, ended <- v4, old <- v5, step <- v6,
  slots <- v7, temp <- v8, repos <- v9, dirs <- v10, torn <- v11, crashes <- v12

Webhooks == INSTANCE WebhookDeliveries WITH
  hook <- v1, first <- v2, row <- v3, listed <- v4, sender <- v5, sent <- v6,
  redelivered <- v7, lost <- v8

Images == INSTANCE AttachmentSweep WITH
  Sweeper <- Worker,
  repo <- v1, upload <- v2, objects <- v3, rows <- v4, aged <- v5, inBody <- v6,
  sweep <- v7, idle <- v8, rowed <- v9

Offers == INSTANCE TransferOffers WITH
  Org <- Team, Handler <- Worker,
  holder <- v1, live <- v2, staff <- v3, offer <- v4, lapsed <- v5, handler <- v6,
  made <- v7, stray <- v8, ended <- v9

Unused     == {}
From10     == v10 = Unused /\ v11 = Unused /\ v12 = Unused
From9      == v9 = Unused /\ From10
From1      ==
  /\ v1 = Unused /\ v2 = Unused /\ v3 = Unused /\ v4 = Unused
  /\ v5 = Unused /\ v6 = Unused /\ v7 = Unused /\ v8 = Unused /\ From9

ownerVars   == vars
serviceVars == <<v1, v2, v3, v4, v5, v6, v7, v8, v9, v10, v11, v12>>

EverybodyOwns(staff) == \A t \in Team \ Org : staff[t] = User

\* Who imports, and who owns what is offered, is any of the users: 1 has the
\* most of the imports, and the repository.  Everybody owns the further teams.
ServicesInit ==
  /\ Init
  /\ \/ moving = "owners" /\ From1
     \/ /\ super = User
        /\ \/ moving = "sizes" /\ Sizes!Init /\ From9
           \/ /\ moving = "imports" /\ Imports!Init
              /\ 2 * Cardinality({i \in Import : v1[i] = 1}) > Cardinality(Import)
           \/ moving = "webhooks" /\ Webhooks!Init /\ From9
           \/ moving = "images" /\ Images!Init /\ From10
           \/ moving = "offers" /\ Offers!Init /\ From10 /\ v1 = 1 /\ EverybodyOwns(v3)

MoveOwners == moving = "owners" /\ Next /\ UNCHANGED <<serviceVars, moving>>

MoveSizes ==
  moving = "sizes" /\ Sizes!Next /\ UNCHANGED <<ownerVars, v9, v10, v11, v12, moving>>

\* Bound: at most one cleanup fails in a behaviour, besides those that a restart cuts.
MoveImports ==
  /\ moving = "imports" /\ Imports!Next /\ UNCHANGED <<ownerVars, moving>>
  /\ v11' = v11 \/ v12' # v12 \/ Cardinality(v11') <= 1

MoveWebhooks ==
  moving = "webhooks" /\ Webhooks!Next /\ UNCHANGED <<ownerVars, v9, v10, v11, v12, moving>>

MoveImages == moving = "images" /\ Images!Next /\ UNCHANGED <<ownerVars, v10, v11, v12, moving>>

\* Bounds: owners of one team change, the repository is deleted, and offers are
\* asked for and expire, before the last offer.
MoveOffers ==
  /\ moving = "offers" /\ Offers!Next /\ UNCHANGED <<ownerVars, v10, v11, v12, moving>>
  /\ Len(v7) = MaxOffers =>
       /\ v2' = v2 /\ v3' = v3 /\ v5' \in {v5, FALSE}
       /\ \A h \in Worker : v6'[h].op = "offer" => v6[h].op = "offer"
  /\ EverybodyOwns(v3')

ServicesNext ==
  MoveOwners \/ MoveSizes \/ MoveImports \/ MoveWebhooks \/ MoveImages \/ MoveOffers

ServicesSpec == ServicesInit /\ [][ServicesNext]_<<ownerVars, serviceVars, moving>>

Interchangeable == Requests \cup Permutations(Import)

\* The types of the service that moves
AllTypes ==
  /\ moving = "owners" => TypeOK
  /\ moving = "sizes" => Sizes!TypeOK
  /\ moving = "imports" => Imports!TypeOK
  /\ moving = "webhooks" => Webhooks!TypeOK
  /\ moving = "images" => Images!TypeOK
  /\ moving = "offers" => Offers!TypeOK

\* As RepoSizes states them, of measurements and writes
OneMeasurement == moving = "sizes" => Sizes!OneMeasurement
SizeSettles    == moving = "sizes" => Sizes!SizeSettles

\* As ImportJobs states them, of jobs, slots, the quota and failed imports
RunsPerUser       == moving = "imports" => Imports!RunsPerUser
UnfinishedJobsEnd == moving = "imports" => Imports!UnfinishedJobsEnd
QuotaOvershoot    == moving = "imports" => Imports!QuotaOvershoot
AllOrNothing      == moving = "imports" => Imports!AllOrNothing

\* As WebhookDeliveries states them, of retries and redeliveries
OneScheduledRetry == moving = "webhooks" => Webhooks!OneScheduledRetry
FiveAttemptsInAll == moving = "webhooks" => Webhooks!FiveAttemptsInAll

\* As AttachmentSweep states them, of images in use and objects in storage
KeptWhileUsed  == moving = "images" => Images!KeptWhileUsed
ObjectKeepsRow == moving = "images" => Images!ObjectKeepsRow

\* As TransferOffers states them, of offers that ended and repositories that moved
EndedOffersMoveNothing ==
  [][moving = "offers" => Offers!AcceptsWhatIsOffered]_serviceVars
OffersStayWithTheirOwner ==
  [][moving = "offers" => Offers!AcceptsWhatWasShown]_serviceVars
=============================================================================
