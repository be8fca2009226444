----------------------------- MODULE DeviceGrants -----------------------------
(***************************************************************************)
(* The device login.  A client asks for a grant and polls; a user who was  *)
(* told its code approves it, with some of the scopes it asked for, or     *)
(* denies it; the first poll that then redeems the grant gets a token.     *)
(* Polls, decisions and the removal of old grants overlap.                 *)
(*                                                                         *)
(* A poll keeps the clock it read when it came, and the row it read first. *)
(***************************************************************************)
CONSTANTS
  User,
  Grant,
  Poller,   \* requests that poll
  Scope

VARIABLES
  state,   \* device_grants.status, "none" where there is no row
  scopes,   \* device_grants.scopes: those asked for, then those approved
  decider,  \* device_grants.user_id, {} before a decision
  expired,  \* grants past expires_at
  poll,     \* what each poll is doing
  page,     \* decisions under way: what users chose when Lookup found the grant
  tokens,   \* access tokens made for grants
  answers,  \* what clients were told
  asked     \* the scopes each client asked for

rowVars == <<state, scopes, decider>>
vars == <<rowVars, expired, poll, page, tokens, answers, asked>>

Idle  == [step |-> "idle"]
Poll  == [step : {"touch", "redeem"}, grant : Grant, seen : {"pending", "approved", "denied"},
          scopes : SUBSET Scope, inTime : BOOLEAN]
Page  == [user : User, grant : Grant, keep : SUBSET Scope]
Token == [grant : Grant, user : User, scopes : SUBSET Scope, by : Poller]

TypeOK ==
  /\ state \in [Grant -> {"none", "pending", "approved", "denied", "consumed", "gone"}]
  /\ scopes \in [Grant -> SUBSET Scope]
  /\ decider \in [Grant -> SUBSET User]
  /\ expired \subseteq Grant
  /\ poll \in [Poller -> {Idle} \cup Poll]
  /\ page \subseteq Page
  /\ tokens \subseteq Token /\ answers \subseteq Token
  /\ asked \in [Grant -> SUBSET Scope]

Init ==
  /\ state = [g \in Grant |-> "none"]
  /\ scopes = [g \in Grant |-> {}]
  /\ decider = [g \in Grant |-> {}]
  /\ expired = {}
  /\ poll = [p \in Poller |-> Idle]
  /\ page = {} /\ tokens = {} /\ answers = {}
  /\ asked = [g \in Grant |-> {}]

-----------------------------------------------------------------------------
(* Grants *)

Create(g) ==
  /\ state[g] = "none"
  /\ \E s \in (SUBSET Scope) \ {{}} :
       scopes' = [scopes EXCEPT ![g] = s] /\ asked' = [asked EXCEPT ![g] = s]
  /\ state' = [state EXCEPT ![g] = "pending"]
  /\ UNCHANGED <<decider, expired, poll, page, tokens, answers>>

\* Fifteen minutes pass.
Expire(g) ==
  /\ state[g] # "none"
  /\ expired' = expired \cup {g}
  /\ UNCHANGED <<rowVars, poll, page, tokens, answers, asked>>

\* A day later another Create removes the row.
DeleteStale ==
  /\ state' = [g \in Grant |-> IF g \in expired THEN "gone" ELSE state[g]]
  /\ UNCHANGED <<scopes, decider, expired, poll, page, tokens, answers, asked>>

-----------------------------------------------------------------------------
(* Decisions *)

Pending(g) == state[g] = "pending" /\ g \notin expired

\* Approve and Deny look first; no scopes to keep stands for a denial.
Lookup(u, g) ==
  /\ Pending(g)
  /\ \E keep \in SUBSET scopes[g] : page' = page \cup {[user |-> u, grant |-> g, keep |-> keep]}
  /\ UNCHANGED <<rowVars, expired, poll, tokens, answers, asked>>

\* One statement, which only changes a grant that is pending still.
Decide(d) ==
  /\ page' = page \ {d}
  /\ IF Pending(d.grant)
     THEN /\ state' = [state EXCEPT ![d.grant] = IF d.keep = {} THEN "denied" ELSE "approved"]
          /\ scopes' = [scopes EXCEPT ![d.grant] = IF d.keep = {} THEN @ ELSE d.keep]
          /\ decider' = [decider EXCEPT ![d.grant] = {d.user}]
     ELSE UNCHANGED rowVars
  /\ UNCHANGED <<expired, poll, tokens, answers, asked>>

-----------------------------------------------------------------------------
(* Polls *)

AskPoll(p, g) ==
  /\ poll[p] = Idle
  /\ state[g] \in {"pending", "approved", "denied"}
  /\ poll' = [poll EXCEPT ![p] = [step |-> "touch", grant |-> g, seen |-> state[g],
                                  scopes |-> scopes[g], inTime |-> g \notin expired]]
  /\ UNCHANGED <<rowVars, expired, page, tokens, answers, asked>>

EndPoll(p) == poll' = [poll EXCEPT ![p] = Idle]

\* A poll that comes too soon, or that only learns how things are, ends here.
Touch(p) ==
  /\ poll[p].step = "touch"
  /\ \/ EndPoll(p)
     \/ /\ poll[p].inTime /\ poll[p].seen = "approved"
        /\ state[poll[p].grant] # "gone"
        /\ poll' = [poll EXCEPT ![p].step = "redeem"]
  /\ UNCHANGED <<rowVars, expired, page, tokens, answers, asked>>

\* A mutant: what the poll read before is enough.
MayRedeemAsSeen(g) == state[g] # "gone"

\* The statement waits for another one, and then looks again.
MayRedeem(g) == state[g] = "approved"

\* One transaction takes the grant and makes the token; the answer names the
\* scopes that the poll read first.
Redeem(p) ==
  /\ poll[p].step = "redeem"
  /\ LET g == poll[p].grant
         Made(u, s) == [grant |-> g, user |-> u, scopes |-> s, by |-> p]
     IN /\ MayRedeem(g)
        /\ \E u \in decider[g] :
             /\ tokens' = tokens \cup {Made(u, scopes[g])}
             /\ answers' = answers \cup {Made(u, poll[p].scopes)}
        /\ state' = [state EXCEPT ![g] = "consumed"]
  /\ EndPoll(p)
  /\ UNCHANGED <<scopes, decider, expired, page, asked>>

\* The grant is not to be had, the transaction fails, or the server dies.
Fail(p) ==
  /\ poll[p] # Idle
  /\ EndPoll(p)
  /\ UNCHANGED <<rowVars, expired, page, tokens, answers, asked>>

Next ==
  \/ \E g \in Grant : Create(g) \/ Expire(g)
  \/ DeleteStale
  \/ \E u \in User, g \in Grant : Lookup(u, g)
  \/ \E d \in page : Decide(d)
  \/ \E p \in Poller : Touch(p) \/ Redeem(p) \/ Fail(p)
  \/ \E p \in Poller, g \in Grant : AskPoll(p, g)

Spec == Init /\ [][Next]_vars

-----------------------------------------------------------------------------
(* Properties *)

\* However polls and decisions overlap, a grant makes one token at most, for
\* the user who approved it, with no scope its client didn't ask for, and its
\* client is told the scopes that the token has.
OneTokenAsApproved ==
  /\ answers = tokens
  /\ \A t \in tokens :
       /\ decider[t.grant] = {t.user}
       /\ t.scopes \subseteq asked[t.grant] /\ t.scopes = scopes[t.grant]
       /\ \A v \in tokens : t.grant = v.grant => t = v
=============================================================================
