------------------------------ MODULE MCRequests ------------------------------
(* A small instance of three services whose requests look at what is stored  *)
(* and write later, and that share no state: the directories of repositories *)
(* of one name, the links mailed to accounts, and device logins.  A          *)
(* behaviour moves one of them, so that one run checks all three.  The state *)
(* of the one that moves is in v1, v2, ..., unless it is the directories;    *)
(* the rest of those stay Unused.                                            *)
EXTENDS RepoDirs, TLC

CONSTANTS
  User, Address, Link, Handler, MaxVersion,
  Decider, Grant, Poller, Scope

VARIABLES
  v1, v2, v3, v4, v5, v6, v7, v8, v9, v10, v11, v12,
  moving   \* the service that moves

Accounts == INSTANCE AccountLinks WITH
  email <- v1, verified <- v2, version <- v3, suspended <- v4, google <- v5,
  reset <- v6, verify <- v7, spent <- v8, request <- v9,
  made <- v10, proven <- v11, resets <- v12

Devices == INSTANCE DeviceGrants WITH
  User <- Decider,
  state <- v1, scopes <- v2, decider <- v3, expired <- v4, poll <- v5, page <- v6,
  tokens <- v7, answers <- v8, asked <- v9

Unused == {}
From10 == v10 = Unused /\ v11 = Unused /\ v12 = Unused
From1  ==
  /\ v1 = Unused /\ v2 = Unused /\ v3 = Unused /\ v4 = Unused
  /\ v5 = Unused /\ v6 = Unused /\ v7 = Unused /\ v8 = Unused /\ v9 = Unused /\ From10

dirVars     == vars
serviceVars == <<v1, v2, v3, v4, v5, v6, v7, v8, v9, v10, v11, v12>>

\* Where the directories don't move there is no repository.
RequestsInit ==
  /\ Init
  /\ \/ moving = "dirs" /\ From1
     \/ /\ \A r \in Repo : row[r] = "none"
        /\ \/ moving = "accounts" /\ Accounts!Init
           \/ moving = "devices" /\ Devices!Init /\ From10

\* Bound: directories stop moving once one is misplaced, where all that is
\* checked of them but their types has stopped to hold.
NoneMisplaced == misplaced = {}

\* Bound: accounts stop moving once one is linked with a provider.  Links stay,
\* and only sign-ins with a provider look at them.
NoneLinked == \A u \in User : v5[u] = {}

MoveDirs     == moving = "dirs" /\ NoneMisplaced /\ Next /\ UNCHANGED <<serviceVars, moving>>
MoveAccounts == moving = "accounts" /\ NoneLinked /\ Accounts!Next /\ UNCHANGED <<dirVars, moving>>
MoveDevices  == moving = "devices" /\ Devices!Next /\ UNCHANGED <<dirVars, v10, v11, v12, moving>>

RequestsNext == MoveDirs \/ MoveAccounts \/ MoveDevices

RequestsSpec == RequestsInit /\ [][RequestsNext]_<<dirVars, serviceVars, moving>>

\* Services that share no state may share model values: handlers are the polls
\* and requests of the others as well, and links their repositories.
Interchangeable == UNION {Permutations(S) : S \in {Handler, Address, Link}}

\* The types of the directories, and of the service that moves
AllTypes ==
  /\ TypeOK
  /\ moving = "accounts" => Accounts!TypeOK
  /\ moving = "devices" => Devices!TypeOK

\* As AccountLinks states them, of what links and requests do to accounts
AddressesProven == moving = "accounts" => Accounts!AddressesProven
ResetsWorkOnce  == moving = "accounts" => Accounts!ResetsWorkOnce

\* As DeviceGrants states it, of the token that a device login makes
OneTokenAsApproved == moving = "devices" => Devices!OneTokenAsApproved
=============================================================================
