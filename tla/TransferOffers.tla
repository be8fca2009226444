---------------------------- MODULE TransferOffers ----------------------------
(***************************************************************************)
(* Who owns one repository, while its owners move it between themselves    *)
(* and their organizations, offer it to others, and take offers back, and  *)
(* while recipients accept and decline.  Every request reads first, and    *)
(* ends with one statement or transaction (READ COMMITTED); requests       *)
(* overlap between any two of these.                                       *)
(*                                                                         *)
(* Left out: the directories, which RepoDirs moves, and superadmins.       *)
(***************************************************************************)
EXTENDS Naturals, Sequences, FiniteSets

CONSTANTS
  User,
  Org,
  MaxOffers,   \* offers made in a behaviour
  Handler      \* requests

VARIABLES
  holder,   \* the owner in the repository's row
  live,     \* it is not soft-deleted
  staff,    \* the owners of each organization
  offer,    \* the repository's row in repo_transfers, if any
  lapsed,   \* it is past expires_at
  handler,  \* what each request has read, or holds
  made,     \* history: the owner that each offer was made under
  stray,    \* history: offers inserted beside a move that had not committed
  ended     \* history: offers accepted, cancelled, declined, replaced or ended by a move

historyVars == <<made, stray, ended>>
vars == <<holder, live, staff, offer, lapsed, handler, historyVars>>

Idle    == [op |-> "idle"]
Holder  == User \cup Org
Row     == [id : 1..MaxOffers, by : User, to : User]
Asked   == [op : {"offer", "insert"}, by : User, to : User, under : Holder]
Moving  == [op : {"move", "commit"}, to : Holder, under : Holder, ends : SUBSET Row]
Taking  == [op : {"look", "accept"}, row : Row, shown : Holder, under : Holder]
Ending  == [op : {"end"}, row : Row]

TypeOK ==
  /\ holder \in Holder /\ live \in BOOLEAN
  /\ staff \in [Org -> SUBSET User]
  /\ offer \subseteq Row /\ Cardinality(offer) <= 1 /\ lapsed \in BOOLEAN
  /\ handler \in [Handler -> {Idle} \cup Asked \cup Moving \cup Taking \cup Ending]
  /\ made \in Seq(Holder) /\ Len(made) <= MaxOffers
  /\ stray \subseteq DOMAIN made /\ ended \subseteq DOMAIN made

Init ==
  /\ holder \in User /\ live = TRUE
  /\ staff \in [Org -> (SUBSET User) \ {{}}]
  /\ offer = {} /\ lapsed = FALSE
  /\ handler = [h \in Handler |-> Idle]
  /\ made = <<>> /\ stray = {} /\ ended = {}

-----------------------------------------------------------------------------

IsOwner(u) == IF holder \in Org THEN u \in staff[holder] ELSE u = holder

Pending == IF live /\ ~ lapsed THEN offer ELSE {}

Goto(h, r) == handler' = [handler EXCEPT ![h] = r]

Begin(h, r) ==
  /\ handler[h] = Idle
  /\ Goto(h, r)
  /\ UNCHANGED <<holder, live, staff, offer, lapsed, historyVars>>

\* Refused, failed, cancelled, or ended by PostgreSQL for a deadlock
GiveUp(h) ==
  /\ handler[h] # Idle /\ Goto(h, Idle)
  /\ UNCHANGED <<holder, live, staff, offer, lapsed, historyVars>>

\* Moves that hold the repository's row, and requests that insert an offer: both
\* have deleted the offer that was there, and not committed.
Committing == {h \in Handler : handler[h].op = "commit"}
Inserting  == {h \in Handler : handler[h].op = "insert"}
Locked     == UNION {handler[h].ends : h \in Committing} \cup {o \in offer : Inserting # {}}

\* An update of owner_id and the foreign key check of an offer wait for each
\* other.  Between organizations owner_id stays NULL.
ChangesKey(h) == holder \in User \/ handler[h].to \in User

Ids(rows) == {r.id : r \in rows}

\* Rows r go, told to whoever asked or not.
Remove(r) ==
  /\ offer' = offer \ r
  /\ lapsed' = (lapsed /\ offer' # {})
  /\ ended' = ended \cup Ids(offer \cap r)

-----------------------------------------------------------------------------
(* Owners *)

\* To another user: an offer.
AskOffer(h, by, to) ==
  /\ live /\ IsOwner(by) /\ to \notin {by, holder}
  /\ Begin(h, [op |-> "offer", by |-> by, to |-> to, under |-> holder])

\* To oneself, or to an organization of one's own: at once.
AskMove(h, by, to) ==
  /\ live /\ IsOwner(by) /\ to # holder
  /\ to = by \/ (to \in Org /\ by \in staff[to])
  /\ Begin(h, [op |-> "move", to |-> to, under |-> holder, ends |-> {}])

\* Create deletes the earlier offer and inserts its own, under the owner it
\* read.  Of a move that has not committed it sees nothing, and waits only for
\* the offer that the move has deleted; another Create waits for this one.
Create(h) ==
  /\ handler[h].op = "offer" /\ Inserting = {} /\ offer \cap Locked = {}
  /\ live /\ holder = handler[h].under
  /\ handler' = [handler EXCEPT ![h].op = "insert"]
  /\ UNCHANGED <<holder, live, staff, offer, lapsed, historyVars>>

Insert(h) ==
  LET r == handler[h]
  IN /\ Len(made) < MaxOffers
     /\ made' = Append(made, r.under)
     /\ offer' = {[id |-> Len(made'), by |-> r.by, to |-> r.to]}
     /\ lapsed' = FALSE
     /\ ended' = ended \cup Ids(offer)
     /\ Goto(h, Idle)

\* Beside a move, or after it, the offer is one of the old owner's.
CommitCreate(h) ==
  /\ handler[h].op = "insert" /\ \A m \in Committing : ~ ChangesKey(m)
  /\ Insert(h)
  /\ stray' = IF Committing = {} /\ holder = handler[h].under THEN stray ELSE stray \cup {Len(made')}
  /\ UNCHANGED <<holder, live, staff>>

\* A mutant: UpdateOwner leaves offers alone.
NoneEnd == {}

OffersThatEnd == offer

\* UpdateOwner: the row, which stays locked, then the offer it sees, though a
\* Create may be replacing that.
UpdateOwner(h) ==
  /\ handler[h].op = "move" /\ Committing = {}
  /\ ChangesKey(h) => Inserting = {}
  /\ live /\ holder = handler[h].under
  /\ handler' = [handler EXCEPT ![h].op = "commit", ![h].ends = OffersThatEnd]
  /\ UNCHANGED <<holder, live, staff, offer, lapsed, historyVars>>

\* The deletion waits until that Create is through; what it then inserted stays.
CommitOwner(h) ==
  /\ handler[h].op = "commit"
  /\ Inserting # {} => offer \cap handler[h].ends = {}
  /\ holder' = handler[h].to
  /\ Remove(handler[h].ends)
  /\ Goto(h, Idle)
  /\ UNCHANGED <<live, staff, made, stray>>

\* The owner reads which offer there is, and the recipient declines theirs.
AskEnd(h) == \E o \in Pending : Begin(h, [op |-> "end", row |-> o])

\* Delete tells those who come too late.
Delete(h) ==
  /\ handler[h].op = "end"
  /\ handler[h].row \in offer \ Locked
  /\ Remove({handler[h].row})
  /\ Goto(h, Idle)
  /\ UNCHANGED <<holder, live, staff, made, stray>>

-----------------------------------------------------------------------------
(* Recipients *)

\* AcceptTransfer reads the offer, with the name that the recipient was shown.
AskAccept(h) ==
  \E o \in Pending :
    Begin(h, [op |-> "look", row |-> o, shown |-> holder, under |-> holder])

\* Then the repository, which its requester must own still.
ReadRepo(h) ==
  /\ handler[h].op = "look"
  /\ live /\ IsOwner(handler[h].row.by)
  /\ handler' = [handler EXCEPT ![h].op = "accept", ![h].under = holder]
  /\ UNCHANGED <<holder, live, staff, offer, lapsed, historyVars>>

\* A mutant: Accept relies on what it read.
AsRead(h) == TRUE

StillOffered(h) == ~ lapsed /\ handler[h].row \in offer \ Locked

\* Accept ends the offer and changes the row in one transaction.
Accept(h) ==
  /\ handler[h].op = "accept" /\ Committing = {}
  /\ StillOffered(h)
  /\ live /\ holder = handler[h].under
  /\ holder' = handler[h].row.to
  /\ Remove({handler[h].row})
  /\ Goto(h, Idle)
  /\ UNCHANGED <<live, staff, made, stray>>

-----------------------------------------------------------------------------
(* What else happens *)

\* A week passes.
Expire ==
  /\ offer # {} /\ lapsed' = TRUE
  /\ UNCHANGED <<holder, live, staff, offer, handler, historyVars>>

ChangeStaff(o) ==
  /\ \E s \in (SUBSET User) \ {{}} : staff' = [staff EXCEPT ![o] = s]
  /\ UNCHANGED <<holder, live, offer, lapsed, handler, historyVars>>

\* Offers of a deleted repository wait.
SoftDelete ==
  /\ Committing = {}
  /\ live' = ~ live
  /\ UNCHANGED <<holder, staff, offer, lapsed, handler, historyVars>>

Ask(h) ==
  \/ \E by, to \in User : AskOffer(h, by, to)
  \/ \E by \in User, to \in Holder : AskMove(h, by, to)
  \/ AskEnd(h) \/ AskAccept(h)

Answer(h) ==
  \/ Create(h) \/ CommitCreate(h)
  \/ UpdateOwner(h) \/ CommitOwner(h) \/ Delete(h) \/ ReadRepo(h) \/ Accept(h)
  \/ GiveUp(h)

Next ==
  \/ \E h \in Handler : Ask(h) \/ Answer(h)
  \/ Expire \/ SoftDelete
  \/ \E o \in Org : ChangeStaff(o)

Spec == Init /\ [][Next]_vars

-----------------------------------------------------------------------------
(* Properties *)

Accepts(h) == handler[h].op = "accept" /\ handler'[h] = Idle /\ holder' # holder

AcceptsWhatIsOffered == \A h \in Handler : Accepts(h) => handler[h].row.id \notin ended

AcceptsWhatWasShown ==
  \A h \in Handler :
    Accepts(h) /\ handler[h].row.id \notin stray =>
      made[handler[h].row.id] = holder /\ handler[h].shown = holder

\* An offer moves the repository once at most, and never after it was cancelled,
\* declined, replaced or ended by a move of the repository, however the requests
\* that end it and accept it overlap.
EndedOffersMoveNothing == [][AcceptsWhatIsOffered]_vars

\* Accepting moves the repository from the owner it was offered under, whose
\* name the recipient was shown, even if it moved away and back in between.
\* This excuses the offers that Create inserts beside a move: they outlive it,
\* and may then be accepted from the new owner, and with the old one's name
\* shown.
OffersStayWithTheirOwner == [][AcceptsWhatWasShown]_vars
=============================================================================
