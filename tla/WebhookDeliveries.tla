--------------------------- MODULE WebhookDeliveries ---------------------------
(***************************************************************************)
(* The deliveries of one webhook by one server: a first attempt, retries   *)
(* that a worker finds due once a minute, redeliveries that users ask for, *)
(* and restarts.  Every attempt sends first and writes the row afterwards, *)
(* with the count of the row it read plus one.                             *)
(*                                                                         *)
(* An attempt takes ten seconds at most and a retry comes due after a      *)
(* minute or more, so that none comes due while an attempt is under way.   *)
(***************************************************************************)
EXTENDS Naturals

CONSTANTS
  Delivery,
  Sender,        \* goroutines that retry or redeliver
  MaxAttempts,   \* webhookMaxAttempts
  MaxRedelivers, \* bound: redeliveries of one delivery
  MaxLost        \* bound: attempts of one delivery that are not recorded

VARIABLES
  hook,        \* the webhook exists
  first,       \* what the first attempt of each delivery is doing
  row,         \* webhook_deliveries
  listed,      \* what RetryPending listed and has not started yet
  sender,      \* what each goroutine is doing
  sent,        \* requests sent for each delivery
  redelivered, \* how often users asked for it again
  lost         \* attempts that are not in the row

countVars == <<sent, redelivered, lost>>
vars == <<hook, first, row, listed, sender, countVars>>

Unlogged  == [count |-> 0, due |-> "never"]
Row    == [count : Nat, due : {"never", "later", "now"}]
Off    == [step |-> "off"]
Listed == [delivery : Delivery, count : Nat]
Job    == [step : {"send", "save"}, kind : {"retry", "redeliver"}, delivery : Delivery,
           count : Nat, answer : {"ok", "refused", "failed"}]

TypeOK ==
  /\ hook \in BOOLEAN
  /\ first \in [Delivery -> {"none", "send", "log", "logFailed", "schedule", "over"}]
  /\ row \in [Delivery -> Row]
  /\ listed \subseteq Listed
  /\ sender \in [Sender -> {Off} \cup Job]
  /\ sent \in [Delivery -> Nat] /\ redelivered \in [Delivery -> Nat] /\ lost \in [Delivery -> Nat]

Init ==
  /\ hook = TRUE
  /\ first = [d \in Delivery |-> "none"]
  /\ row = [d \in Delivery |-> Unlogged]
  /\ listed = {}
  /\ sender = [s \in Sender |-> Off]
  /\ sent = [d \in Delivery |-> 0]
  /\ redelivered = [d \in Delivery |-> 0]
  /\ lost = [d \in Delivery |-> 0]

-----------------------------------------------------------------------------
(* The first attempt *)

Goto(d, s) == first' = [first EXCEPT ![d] = s]

Dispatch(d) ==
  /\ first[d] = "none" /\ hook
  /\ Goto(d, "send")
  /\ UNCHANGED <<hook, row, listed, sender, countVars>>

Send(d) ==
  /\ first[d] = "send"
  /\ Goto(d, "log") \/ Goto(d, "logFailed")
  /\ sent' = [sent EXCEPT ![d] = @ + 1]
  /\ UNCHANGED <<hook, row, listed, sender, redelivered, lost>>

\* A row that can't be written is not retried.
LogDelivery(d) ==
  /\ first[d] \in {"log", "logFailed"}
  /\ \/ /\ hook
        /\ row' = [row EXCEPT ![d] = [count |-> 1, due |-> "never"]]
        /\ Goto(d, IF first[d] = "logFailed" /\ MaxAttempts > 1 THEN "schedule" ELSE "over")
     \/ Goto(d, "over") /\ UNCHANGED row
  /\ UNCHANGED <<hook, listed, sender, countVars>>

Exists(d) == row[d].count > 0

\* The second statement may overwrite what a redelivery wrote since.
Schedule(d) ==
  /\ first[d] = "schedule"
  /\ \/ Exists(d) /\ row' = [row EXCEPT ![d] = [count |-> 1, due |-> "later"]]
     \/ UNCHANGED row
  /\ Goto(d, "over")
  /\ UNCHANGED <<hook, listed, sender, countVars>>

-----------------------------------------------------------------------------
(* Retries and redeliveries *)

JobsOn(d) == {s \in Sender : sender[s] # Off /\ sender[s].delivery = d}
Retries   == {s \in Sender : sender[s] # Off /\ sender[s].kind = "retry"}

BackoffEnds(d) ==
  /\ row[d].due = "later" /\ JobsOn(d) = {} /\ first[d] = "over"
  /\ row' = [row EXCEPT ![d].due = "now"]
  /\ UNCHANGED <<hook, first, listed, sender, countVars>>

\* A mutant: RetryPending doesn't wait for the attempts it started.
NothingListed == listed = {}

\* The last call of RetryPending is over.
Waited == listed = {} /\ Retries = {}

ListPendingRetry ==
  /\ Waited
  /\ listed' = {[delivery |-> d, count |-> row[d].count] :
                  d \in {e \in Delivery : row[e].due = "now" /\ row[e].count < MaxAttempts}}
  /\ listed' # {}
  /\ UNCHANGED <<hook, first, row, sender, countVars>>

Started(kind, d, n) ==
  [step |-> "send", kind |-> kind, delivery |-> d, count |-> n, answer |-> "failed"]

StartRetry(s) ==
  /\ sender[s] = Off
  /\ \E l \in listed :
       /\ hook
       /\ listed' = listed \ {l}
       /\ sender' = [sender EXCEPT ![s] = Started("retry", l.delivery, l.count)]
  /\ UNCHANGED <<hook, first, row, countVars>>

\* The webhook can't be read, which RetryPending takes for its deletion.
ClearRetry ==
  /\ \E l \in listed :
       /\ listed' = listed \ {l}
       /\ row' = [row EXCEPT ![l.delivery] =
                    IF Exists(l.delivery) THEN [count |-> l.count, due |-> "never"] ELSE @]
  /\ UNCHANGED <<hook, first, sender, countVars>>

RedeliverByID(s, d) ==
  /\ sender[s] = Off
  /\ hook /\ Exists(d)
  /\ redelivered[d] < MaxRedelivers
  /\ redelivered' = [redelivered EXCEPT ![d] = @ + 1]
  /\ sender' = [sender EXCEPT ![s] = Started("redeliver", d, row[d].count)]
  /\ UNCHANGED <<hook, first, row, listed, sent, lost>>

RetrySend(s) ==
  /\ sender[s].step = "send"
  /\ sent' = [sent EXCEPT ![sender[s].delivery] = @ + 1]
  /\ \E a \in {"ok", "refused", "failed"} :
       sender' = [sender EXCEPT ![s].step = "save", ![s].answer = a]
  /\ UNCHANGED <<hook, first, row, listed, redelivered, lost>>

\* A mutant: the attempt that was made is not counted.
SameAttempt(s) == sender[s].count

Attempt(s) == sender[s].count + 1

\* nextWebhookRetry
NextDue(s) ==
  IF sender[s].answer = "failed" /\ Attempt(s) < MaxAttempts THEN "later" ELSE "never"

UpdateDeliveryRetry(s) ==
  /\ sender[s].step = "save"
  /\ LET d == sender[s].delivery
     IN row' = [row EXCEPT ![d] = IF Exists(d) THEN [count |-> Attempt(s), due |-> NextDue(s)] ELSE @]
  /\ sender' = [sender EXCEPT ![s] = Off]
  /\ UNCHANGED <<hook, first, listed, countVars>>

\* The update fails and is logged: a retry stays due.
UpdateFails(s) ==
  /\ sender[s].step = "save"
  /\ lost[sender[s].delivery] < MaxLost
  /\ lost' = [lost EXCEPT ![sender[s].delivery] = @ + 1]
  /\ sender' = [sender EXCEPT ![s] = Off]
  /\ UNCHANGED <<hook, first, row, listed, sent, redelivered>>

-----------------------------------------------------------------------------

\* The rows go with the webhook.
DeleteHook ==
  /\ hook
  /\ hook' = FALSE
  /\ row' = [d \in Delivery |-> Unlogged]
  /\ UNCHANGED <<first, listed, sender, countVars>>

Cut(d) == \E s \in JobsOn(d) \cap Retries : sender[s].step = "save"

\* The server dies and comes back: attempts that were sent are not recorded.
Restart ==
  /\ \A d \in Delivery : Cut(d) => lost[d] < MaxLost
  /\ first' = [d \in Delivery |-> IF first[d] = "none" THEN "none" ELSE "over"]
  /\ listed' = {}
  /\ sender' = [s \in Sender |-> Off]
  /\ lost' = [d \in Delivery |-> IF Cut(d) THEN lost[d] + 1 ELSE lost[d]]
  /\ UNCHANGED <<hook, row, sent, redelivered>>

Retry(s) == RetrySend(s) \/ UpdateDeliveryRetry(s) \/ UpdateFails(s)

Next ==
  \/ \E d \in Delivery : Dispatch(d) \/ Send(d) \/ LogDelivery(d) \/ Schedule(d) \/ BackoffEnds(d)
  \/ ListPendingRetry \/ ClearRetry \/ DeleteHook \/ Restart
  \/ \E s \in Sender : StartRetry(s) \/ Retry(s)
  \/ \E s \in Sender, d \in Delivery : RedeliverByID(s, d)

Spec == Init /\ [][Next]_vars

-----------------------------------------------------------------------------
(* Properties *)

\* The worker never sends a delivery that it is sending already.
OneScheduledRetry ==
  \A s, t \in Retries : sender[s].delivery = sender[t].delivery => s = t

\* A delivery is attempted five times in all, one more time for each
\* redelivery, and for each attempt that couldn't be recorded, even if
\* redeliveries and retries overwrite each other's counts.
FiveAttemptsInAll ==
  \A d \in Delivery : sent[d] <= MaxAttempts + redelivered[d] + lost[d]
=============================================================================
