------------------------ MODULE BackgroundTasks_proofs ------------------------
(***************************************************************************)
(* Theorems about three services whose goroutines work in the background:  *)
(* webhook deliveries (W), imports (J) and the sweep of attachments (A).   *)
(* They share no state; each has its section.                              *)
(***************************************************************************)
EXTENDS Integers, FiniteSets, FiniteSetTheorems, TLAPS

-----------------------------------------------------------------------------
(***************************************************************************)
(* Webhook deliveries.  The count in a row is no count of what was sent:   *)
(* redeliveries and retries overwrite each other's.  What is bounded is    *)
(* the tally of a delivery, its attempts other than redeliveries, and all  *)
(* who may write the row next carry a count that bounds it: the row, the   *)
(* list of due retries, and every attempt under way.                       *)
(***************************************************************************)
CONSTANTS Delivery, Sender, MaxAttempts, MaxRedelivers, MaxLost
VARIABLES hook, first, row, listed, sender, sent, redelivered, lost

W == INSTANCE WebhookDeliveries

RetryingOn(d)     == {s \in W!JobsOn(d) : sender[s].kind = "retry"}
RedeliveringOn(d) == {s \in W!JobsOn(d) : sender[s].kind = "redeliver"}
UnsentOn(d)       == {s \in RedeliveringOn(d) : sender[s].step = "send"}
ListedOn(d)       == {l \in listed : l.delivery = d}

\* Attempts that are no redeliveries; those that redeliveries may still make
\* are taken as made.
Tally(d) == sent[d] + Cardinality(UnsentOn(d)) - redelivered[d]

\* A retry was sent and not written yet.
Unrecorded(d) == \E s \in RetryingOn(d) : sender[s].step = "save"
Unwritten(d)  == IF Unrecorded(d) THEN 1 ELSE 0

\* A retry is due, listed or under way.
RetryAhead(d) == row[d].due = "now" \/ ListedOn(d) # {} \/ RetryingOn(d) # {}

\* At most one of the retries of a delivery is listed or under way.
OneAhead(d) ==
  /\ \A l, k \in ListedOn(d) : l = k
  /\ \A s, t \in RetryingOn(d) : s = t
  /\ ListedOn(d) = {} \/ RetryingOn(d) = {}

\* Nothing is retried before the first attempt is over, and nothing at all
\* follows it before it has its row.
FirstGoesFirst(d) ==
  first[d] # "over" =>
    /\ ~ RetryAhead(d)
    /\ first[d] # "schedule" => row[d] = W!Unlogged /\ W!JobsOn(d) = {}
    /\ Tally(d) <= IF first[d] \in {"none", "send"} THEN 0 ELSE 1

Counted(d) ==
  /\ row[d].due = "never" \/ W!Exists(d)
  /\ W!Exists(d) => Tally(d) <= row[d].count + lost[d] + Unwritten(d)
  /\ Tally(d) <= MaxAttempts + lost[d]

CountedByRetries(d) ==
  /\ \A l \in ListedOn(d) : l.count < MaxAttempts /\ Tally(d) <= l.count + lost[d]
  /\ \A s \in RetryingOn(d) :
       sender[s].count < MaxAttempts /\ Tally(d) <= sender[s].count + lost[d] + Unwritten(d)

\* A redelivery leaves room for one retry, which may be behind or ahead.
CountedByRedeliveries(d) ==
  \A s \in RedeliveringOn(d) :
    Tally(d) <= sender[s].count + lost[d] + IF RetryAhead(d) THEN Unwritten(d) ELSE 1

Sound(d) ==
  /\ IsFiniteSet(UnsentOn(d))
  /\ OneAhead(d) /\ FirstGoesFirst(d)
  /\ Counted(d) /\ CountedByRetries(d) /\ CountedByRedeliveries(d)

DeliveriesInv == W!TypeOK /\ \A d \in Delivery : Sound(d)

\* A step that leaves a delivery alone keeps what holds of it.
LEMMA OtherDelivery ==
  ASSUME NEW d \in Delivery, Sound(d),
         first'[d] = first[d], row'[d] = row[d],
         sent'[d] = sent[d], redelivered'[d] = redelivered[d], lost'[d] = lost[d],
         ListedOn(d)' = ListedOn(d), W!JobsOn(d)' = W!JobsOn(d),
         \A s \in W!JobsOn(d) : sender'[s] = sender[s]
  PROVE  Sound(d)'
<1>1. /\ RetryingOn(d)' = RetryingOn(d) /\ RedeliveringOn(d)' = RedeliveringOn(d)
  BY DEF RetryingOn, RedeliveringOn
<1>2. UnsentOn(d)' = UnsentOn(d)
  BY <1>1 DEF UnsentOn, RedeliveringOn
<1>3. Tally(d)' = Tally(d)
  BY <1>2 DEF Tally
<1>4. Unwritten(d)' = Unwritten(d)
  BY <1>1 DEF Unwritten, Unrecorded, RetryingOn
<1>5. RetryAhead(d)' = RetryAhead(d)
  BY <1>1 DEF RetryAhead
<1>6. OneAhead(d)' /\ FirstGoesFirst(d)'
  BY <1>1, <1>3, <1>5 DEF Sound, OneAhead, FirstGoesFirst, W!Unlogged
<1>7. Counted(d)' /\ CountedByRetries(d)'
  BY <1>1, <1>3, <1>4 DEF Sound, Counted, CountedByRetries, W!Exists, RetryingOn
<1>8. CountedByRedeliveries(d)'
  BY <1>1, <1>3, <1>4, <1>5 DEF Sound, CountedByRedeliveries, RedeliveringOn
<1>. QED
  BY <1>2, <1>6, <1>7, <1>8 DEF Sound

\* The types of what the counts are made of
LEMMA CountTypes ==
  ASSUME DeliveriesInv, NEW d \in Delivery
  PROVE  /\ sent[d] \in Nat /\ redelivered[d] \in Nat /\ lost[d] \in Nat
         /\ row[d] \in W!Row
         /\ Cardinality(UnsentOn(d)) \in Nat /\ Tally(d) \in Int
         /\ \A s \in W!JobsOn(d) : s \in Sender /\ sender[s] \in W!Job
         /\ \A l \in ListedOn(d) : l \in W!Listed
<1>1. Cardinality(UnsentOn(d)) \in Nat
  BY FS_CardinalityType DEF DeliveriesInv, Sound
<1>. QED
  BY <1>1 DEF DeliveriesInv, W!TypeOK, Tally, ListedOn, W!JobsOn

\* What doesn't touch the list and the goroutines changes nothing about who
\* is on a delivery.
LEMMA SameJobs ==
  ASSUME NEW d \in Delivery, listed' = listed, sender' = sender, redelivered' = redelivered
  PROVE  /\ ListedOn(d)' = ListedOn(d) /\ W!JobsOn(d)' = W!JobsOn(d)
         /\ RetryingOn(d)' = RetryingOn(d) /\ RedeliveringOn(d)' = RedeliveringOn(d)
         /\ UnsentOn(d)' = UnsentOn(d) /\ Unwritten(d)' = Unwritten(d)
         /\ sent'[d] = sent[d] => Tally(d)' = Tally(d)
BY DEF ListedOn, W!JobsOn, RetryingOn, RedeliveringOn, UnsentOn, Unwritten, Unrecorded, Tally

LEMMA DispatchSound ==
  ASSUME DeliveriesInv, NEW d \in Delivery, W!Dispatch(d)
  PROVE  Sound(d)'
<1>1. /\ first[d] = "none" /\ first'[d] = "send"
      /\ listed' = listed /\ sender' = sender /\ redelivered' = redelivered
      /\ row' = row /\ sent' = sent /\ lost' = lost
  BY DEF W!Dispatch, W!Goto, W!countVars, DeliveriesInv, W!TypeOK
<1>. QED
  BY <1>1, SameJobs
  DEF DeliveriesInv, Sound, OneAhead, FirstGoesFirst, RetryAhead, Counted, W!Exists, W!Unlogged, CountedByRetries,
      CountedByRedeliveries

LEMMA SendSound ==
  ASSUME MaxAttempts \in Nat \ {0}, DeliveriesInv, NEW d \in Delivery, W!Send(d)
  PROVE  Sound(d)'
<1>1. /\ first[d] = "send" /\ first'[d] \in {"log", "logFailed"}
      /\ listed' = listed /\ sender' = sender /\ redelivered' = redelivered
      /\ row' = row /\ sent'[d] = sent[d] + 1 /\ lost' = lost
  BY DEF W!Send, W!Goto, DeliveriesInv, W!TypeOK
<1>2. /\ W!JobsOn(d) = {} /\ ~ RetryAhead(d) /\ row[d] = W!Unlogged
      /\ Tally(d) <= 0
  BY <1>1 DEF DeliveriesInv, Sound, FirstGoesFirst
<1>3. Tally(d)' = Tally(d) + 1
  BY <1>1, SameJobs, CountTypes DEF Tally
<1>4. RetryingOn(d) = {} /\ RedeliveringOn(d) = {} /\ ListedOn(d) = {}
  BY <1>2 DEF RetryingOn, RedeliveringOn, RetryAhead
<1>5. ~ RetryAhead(d)' /\ ~ W!Exists(d)'
  BY <1>1, <1>2, SameJobs DEF RetryAhead, W!Exists, W!Unlogged
<1>6. IsFiniteSet(UnsentOn(d)')
  BY <1>1, SameJobs DEF DeliveriesInv, Sound
<1>7. Tally(d)' <= 1 /\ Tally(d)' <= MaxAttempts + lost'[d]
  BY <1>1, <1>2, <1>3, CountTypes
<1>. QED
  BY <1>1, <1>2, <1>4, <1>5, <1>6, <1>7, SameJobs
  DEF Sound, OneAhead, FirstGoesFirst, Counted, W!Unlogged, CountedByRetries, CountedByRedeliveries

LEMMA LogDeliverySound ==
  ASSUME MaxAttempts \in Nat \ {0}, DeliveriesInv, NEW d \in Delivery, W!LogDelivery(d)
  PROVE  Sound(d)'
<1>1. /\ first[d] \in {"log", "logFailed"} /\ first'[d] \in {"schedule", "over"}
      /\ listed' = listed /\ sender' = sender /\ redelivered' = redelivered
      /\ row'[d] = [count |-> 1, due |-> "never"] \/ row'[d] = row[d]
      /\ sent' = sent /\ lost' = lost
  BY DEF W!LogDelivery, W!Goto, W!countVars, DeliveriesInv, W!TypeOK
<1>2. /\ W!JobsOn(d) = {} /\ ~ RetryAhead(d) /\ row[d] = W!Unlogged
      /\ Tally(d) <= 1
  BY <1>1 DEF DeliveriesInv, Sound, FirstGoesFirst
<1>3. Tally(d)' = Tally(d)
  BY <1>1, SameJobs
<1>4. RetryingOn(d) = {} /\ RedeliveringOn(d) = {} /\ ListedOn(d) = {}
  BY <1>2 DEF RetryingOn, RedeliveringOn, RetryAhead
<1>5. row'[d].due = "never" /\ row'[d].count \in {0, 1}
  BY <1>1, <1>2 DEF W!Unlogged
<1>6. ~ RetryAhead(d)'
  BY <1>1, <1>4, <1>5, SameJobs DEF RetryAhead
<1>7. IsFiniteSet(UnsentOn(d)')
  BY <1>1, SameJobs DEF DeliveriesInv, Sound
<1>8. Unwritten(d)' \in {0, 1}
  BY DEF Unwritten
<1>9. Counted(d)'
  BY <1>1, <1>2, <1>3, <1>5, <1>8, CountTypes DEF Counted, W!Exists
<1>. QED
  BY <1>1, <1>2, <1>3, <1>4, <1>6, <1>7, <1>9, SameJobs
  DEF Sound, OneAhead, FirstGoesFirst, CountedByRetries, CountedByRedeliveries

\* The second statement finds a row that no retry has touched.
LEMMA ScheduleSound ==
  ASSUME DeliveriesInv, NEW d \in Delivery, W!Schedule(d)
  PROVE  Sound(d)'
<1>1. /\ first[d] = "schedule" /\ first'[d] = "over"
      /\ listed' = listed /\ sender' = sender /\ redelivered' = redelivered
      /\ row'[d] = [count |-> 1, due |-> "later"] \/ row'[d] = row[d]
      /\ sent' = sent /\ lost' = lost
  BY DEF W!Schedule, W!Goto, W!countVars, DeliveriesInv, W!TypeOK
<1>2. ~ RetryAhead(d) /\ Tally(d) <= 1
  BY <1>1 DEF DeliveriesInv, Sound, FirstGoesFirst
<1>3. Tally(d)' = Tally(d)
  BY <1>1, SameJobs
<1>4. RetryingOn(d) = {} /\ ListedOn(d) = {}
  BY <1>2 DEF RetryAhead
<1>5. row'[d].due # "now"
  BY <1>1, <1>2 DEF RetryAhead
<1>6. ~ RetryAhead(d)'
  BY <1>1, <1>4, <1>5, SameJobs DEF RetryAhead
<1>7. Unwritten(d) = 0 /\ Unwritten(d)' = 0
  BY <1>1, <1>4, SameJobs DEF Unwritten, Unrecorded
<1>8. Counted(d)'
  BY <1>1, <1>2, <1>3, <1>7, CountTypes DEF Counted, W!Exists, DeliveriesInv, Sound
<1>9. CountedByRedeliveries(d)'
  BY <1>1, <1>2, <1>3, <1>6, SameJobs DEF CountedByRedeliveries, DeliveriesInv, Sound
<1>10. CountedByRetries(d)' /\ OneAhead(d)' /\ FirstGoesFirst(d)'
  BY <1>1, <1>4, SameJobs DEF CountedByRetries, OneAhead, FirstGoesFirst
<1>. QED
  BY <1>1, <1>8, <1>9, <1>10, SameJobs DEF Sound, DeliveriesInv

\* A retry comes due when nobody sends the delivery.
LEMMA BackoffEndsSound ==
  ASSUME DeliveriesInv, NEW d \in Delivery, W!BackoffEnds(d)
  PROVE  Sound(d)'
<1>1. /\ first[d] = "over" /\ first' = first /\ W!JobsOn(d) = {}
      /\ listed' = listed /\ sender' = sender /\ redelivered' = redelivered
      /\ row[d].due = "later" /\ row'[d] = [row[d] EXCEPT !.due = "now"]
      /\ sent' = sent /\ lost' = lost
  BY DEF W!BackoffEnds, W!countVars, DeliveriesInv, W!TypeOK
<1>2. RetryingOn(d) = {} /\ RedeliveringOn(d) = {}
  BY <1>1 DEF RetryingOn, RedeliveringOn
<1>3. Tally(d)' = Tally(d) /\ Unwritten(d)' = Unwritten(d) /\ row'[d].count = row[d].count
  BY <1>1, SameJobs, CountTypes DEF W!Row
<1>4. Counted(d)' /\ CountedByRetries(d)'
  BY <1>1, <1>3, SameJobs DEF Counted, CountedByRetries, W!Exists, DeliveriesInv, Sound
<1>. QED
  BY <1>1, <1>2, <1>4, SameJobs
  DEF Sound, OneAhead, FirstGoesFirst, CountedByRedeliveries, DeliveriesInv

\* The last call of RetryPending is over: what it lists anew is due and was
\* counted by its row.
LEMMA ListSound ==
  ASSUME DeliveriesInv, W!ListPendingRetry, NEW d \in Delivery
  PROVE  Sound(d)'
<1>1. /\ listed = {} /\ W!Retries = {}
      /\ listed' = {[delivery |-> e, count |-> row[e].count] :
                      e \in {x \in Delivery : row[x].due = "now" /\ row[x].count < MaxAttempts}}
      /\ first' = first /\ row' = row /\ sender' = sender
      /\ sent' = sent /\ redelivered' = redelivered /\ lost' = lost
  BY DEF W!ListPendingRetry, W!Waited, W!countVars
<1>2. RetryingOn(d) = {} /\ ListedOn(d) = {} /\ Unwritten(d) = 0
  BY <1>1 DEF RetryingOn, W!JobsOn, W!Retries, ListedOn, Unwritten, Unrecorded
<1>3. /\ W!JobsOn(d)' = W!JobsOn(d)
      /\ RetryingOn(d)' = {} /\ RedeliveringOn(d)' = RedeliveringOn(d)
      /\ UnsentOn(d)' = UnsentOn(d) /\ Tally(d)' = Tally(d) /\ Unwritten(d)' = 0
  BY <1>1, <1>2 DEF W!JobsOn, RetryingOn, RedeliveringOn, UnsentOn, Tally, Unwritten, Unrecorded
<1>4. \A l \in ListedOn(d)' :
        /\ l = [delivery |-> d, count |-> row[d].count]
        /\ row[d].due = "now" /\ row[d].count < MaxAttempts
  BY <1>1 DEF ListedOn
<1>5. RetryAhead(d)' <=> RetryAhead(d)
  BY <1>1, <1>2, <1>3, <1>4 DEF RetryAhead
<1>6. OneAhead(d)'
  BY <1>3, <1>4 DEF OneAhead
<1>7. CountedByRetries(d)'
  <2>1. row[d].due = "now" => Tally(d) <= row[d].count + lost[d] + Unwritten(d)
    BY DEF DeliveriesInv, Sound, Counted
  <2>2. row[d].due = "now" => Tally(d) <= row[d].count + lost[d]
    BY <1>2, <2>1, CountTypes DEF W!Row
  <2>. QED
    BY <1>1, <1>3, <1>4, <2>2 DEF CountedByRetries
<1>8. Counted(d)'
  BY <1>1, <1>2, <1>3 DEF Counted, DeliveriesInv, Sound, W!Exists
<1>9. FirstGoesFirst(d)'
  BY <1>1, <1>3, <1>5 DEF FirstGoesFirst, DeliveriesInv, Sound, W!Unlogged
<1>10. CountedByRedeliveries(d)'
  BY <1>1, <1>2, <1>3, <1>5 DEF CountedByRedeliveries, DeliveriesInv, Sound
<1>. QED
  BY <1>3, <1>6, <1>7, <1>8, <1>9, <1>10 DEF DeliveriesInv, Sound

\* A goroutine that is on delivery d, comes to it or leaves it is on no other.
LEMMA OtherJobs ==
  ASSUME NEW s \in Sender, NEW d \in Delivery, NEW e \in Delivery \ {d},
         \A t \in Sender \ {s} : sender'[t] = sender[t],
         sender[s] = W!Off \/ sender[s].delivery = d,
         sender'[s] = W!Off \/ sender'[s].delivery = d
  PROVE  W!JobsOn(e)' = W!JobsOn(e) /\ \A t \in W!JobsOn(e) : sender'[t] = sender[t]
BY DEF W!JobsOn, W!Off

LEMMA StartRetrySound ==
  ASSUME DeliveriesInv, NEW s \in Sender, W!StartRetry(s), NEW e \in Delivery
  PROVE  Sound(e)'
<1>1. PICK l \in listed : /\ listed' = listed \ {l}
                         /\ sender' = [sender EXCEPT ![s] = W!Started("retry", l.delivery, l.count)]
  BY DEF W!StartRetry
<1>2. /\ sender[s] = W!Off
      /\ first' = first /\ row' = row /\ sent' = sent /\ redelivered' = redelivered /\ lost' = lost
  BY DEF W!StartRetry, W!countVars
<1>. DEFINE d == l.delivery
<1>3. d \in Delivery /\ l \in ListedOn(d) /\ l.count \in Nat
  BY <1>1 DEF DeliveriesInv, W!TypeOK, ListedOn, W!Listed
<1>4. /\ sender'[s].step = "send" /\ sender'[s].kind = "retry"
      /\ sender'[s].delivery = d /\ sender'[s].count = l.count
      /\ sender'[s] # W!Off
      /\ \A t \in Sender \ {s} : sender'[t] = sender[t]
  BY <1>1 DEF DeliveriesInv, W!TypeOK, W!Started, W!Off
<1>5. CASE e = d
  <2>1. RetryingOn(d) = {} /\ \A k \in ListedOn(d) : k = l
    BY <1>3 DEF DeliveriesInv, Sound, OneAhead
  <2>2. Unwritten(d) = 0 /\ RetryAhead(d)
    BY <1>3, <2>1 DEF Unwritten, Unrecorded, RetryAhead
  <2>3. W!JobsOn(d)' = W!JobsOn(d) \cup {s} /\ s \notin W!JobsOn(d)
    BY <1>2, <1>4 DEF W!JobsOn
  <2>4. /\ RetryingOn(d)' = {s} /\ RedeliveringOn(d)' = RedeliveringOn(d)
        /\ UnsentOn(d)' = UnsentOn(d) /\ ListedOn(d)' = {}
        /\ \A t \in RedeliveringOn(d) : sender'[t] = sender[t]
    <3>1. \A t \in W!JobsOn(d) : t \in Sender /\ sender'[t] = sender[t]
      BY <1>4, <2>3 DEF W!JobsOn
    <3>2. RetryingOn(d)' = {s}
      BY <1>4, <2>1, <2>3, <3>1 DEF RetryingOn
    <3>3. RedeliveringOn(d)' = RedeliveringOn(d)
      BY <1>4, <2>3, <3>1 DEF RedeliveringOn
    <3>4. UnsentOn(d)' = UnsentOn(d)
      BY <3>1, <3>3 DEF UnsentOn, RedeliveringOn
    <3>5. ListedOn(d)' = {}
      BY <1>1, <2>1 DEF ListedOn
    <3>. QED
      BY <3>1, <3>2, <3>3, <3>4, <3>5 DEF RedeliveringOn
  <2>5. Tally(d)' = Tally(d) /\ Unwritten(d)' = 0 /\ RetryAhead(d)'
    BY <1>2, <1>4, <2>4 DEF Tally, Unwritten, Unrecorded, RetryAhead
  <2>6. OneAhead(d)' /\ FirstGoesFirst(d)'
    BY <1>2, <1>3, <2>2, <2>4 DEF OneAhead, FirstGoesFirst, DeliveriesInv, Sound
  <2>7. Counted(d)'
    BY <1>2, <1>3, <2>2, <2>5 DEF Counted, W!Exists, DeliveriesInv, Sound
  <2>8. CountedByRetries(d)'
    BY <1>2, <1>3, <1>4, <2>4, <2>5, CountTypes DEF CountedByRetries, DeliveriesInv, Sound
  <2>9. CountedByRedeliveries(d)'
    BY <1>2, <1>3, <2>2, <2>4, <2>5 DEF CountedByRedeliveries, DeliveriesInv, Sound
  <2>10. IsFiniteSet(UnsentOn(d)')
    BY <1>3, <2>4 DEF DeliveriesInv, Sound
  <2>. QED
    BY <1>5, <2>6, <2>7, <2>8, <2>9, <2>10 DEF Sound
<1>6. CASE e # d
  <2>1. ListedOn(e)' = ListedOn(e)
    BY <1>1, <1>6 DEF ListedOn
  <2>2. W!JobsOn(e)' = W!JobsOn(e) /\ \A t \in W!JobsOn(e) : sender'[t] = sender[t]
    BY <1>2, <1>3, <1>4, <1>6, OtherJobs
  <2>. QED
    BY <1>2, <2>1, <2>2, OtherDelivery DEF DeliveriesInv
<1>. QED
  BY <1>5, <1>6

LEMMA ClearRetrySound ==
  ASSUME DeliveriesInv, W!ClearRetry, NEW e \in Delivery
  PROVE  Sound(e)'
<1>1. PICK l \in listed :
        /\ listed' = listed \ {l}
        /\ row' = [row EXCEPT ![l.delivery] =
                     IF W!Exists(l.delivery) THEN [count |-> l.count, due |-> "never"] ELSE @]
  BY DEF W!ClearRetry
<1>2. /\ first' = first /\ sender' = sender
      /\ sent' = sent /\ redelivered' = redelivered /\ lost' = lost
  BY DEF W!ClearRetry, W!countVars
<1>. DEFINE d == l.delivery
<1>3. d \in Delivery /\ l \in ListedOn(d) /\ l.count \in Nat
  BY <1>1 DEF DeliveriesInv, W!TypeOK, ListedOn, W!Listed
<1>4. /\ W!JobsOn(e)' = W!JobsOn(e)
      /\ RetryingOn(e)' = RetryingOn(e) /\ RedeliveringOn(e)' = RedeliveringOn(e)
      /\ UnsentOn(e)' = UnsentOn(e) /\ Unwritten(e)' = Unwritten(e) /\ Tally(e)' = Tally(e)
  BY <1>2 DEF W!JobsOn, RetryingOn, RedeliveringOn, UnsentOn, Unwritten, Unrecorded, Tally
<1>5. CASE e = d
  <2>1. RetryingOn(d) = {} /\ \A k \in ListedOn(d) : k = l
    BY <1>3 DEF DeliveriesInv, Sound, OneAhead
  <2>2. Unwritten(d) = 0 /\ RetryAhead(d) /\ ListedOn(d)' = {}
    BY <1>1, <1>3, <2>1 DEF Unwritten, Unrecorded, RetryAhead, ListedOn
  <2>3. /\ row'[d].due = "never"
        /\ W!Exists(d)' => row'[d].count = l.count
    BY <1>1, <1>3 DEF DeliveriesInv, W!TypeOK, Sound, Counted, W!Exists
  <2>4. ~ RetryAhead(d)'
    BY <1>4, <1>5, <2>1, <2>2, <2>3 DEF RetryAhead
  <2>5. Tally(d) <= l.count + lost[d] /\ Tally(d) <= MaxAttempts + lost[d]
    BY <1>3 DEF DeliveriesInv, Sound, CountedByRetries, Counted
  <2>6. Counted(d)'
    BY <1>2, <1>3, <1>4, <1>5, <2>2, <2>3, <2>5, CountTypes DEF Counted
  <2>7. CountedByRedeliveries(d)'
    <3>1. \A s \in RedeliveringOn(d) : Tally(d) <= sender[s].count + lost[d] + 0
      BY <1>3, <2>2 DEF DeliveriesInv, Sound, CountedByRedeliveries
    <3>2. \A s \in RedeliveringOn(d) : sender[s].count \in Nat
      BY <1>3, CountTypes DEF RedeliveringOn, W!Job
    <3>3. \A s \in RedeliveringOn(d) : Tally(d) <= sender[s].count + lost[d] + 1
      BY <1>3, <3>1, <3>2, CountTypes
    <3>. QED
      BY <1>2, <1>4, <1>5, <2>4, <3>3 DEF CountedByRedeliveries
  <2>8. OneAhead(d)' /\ CountedByRetries(d)' /\ FirstGoesFirst(d)'
    BY <1>2, <1>3, <1>4, <1>5, <2>1, <2>2
    DEF OneAhead, CountedByRetries, FirstGoesFirst, DeliveriesInv, Sound
  <2>. QED
    BY <1>4, <1>5, <2>6, <2>7, <2>8 DEF DeliveriesInv, Sound
<1>6. CASE e # d
  <2>1. ListedOn(e)' = ListedOn(e) /\ row'[e] = row[e]
    BY <1>1, <1>3, <1>6 DEF ListedOn, DeliveriesInv, W!TypeOK
  <2>. QED
    BY <1>2, <1>4, <2>1, OtherDelivery DEF DeliveriesInv
<1>. QED
  BY <1>5, <1>6

LEMMA RedeliverSound ==
  ASSUME DeliveriesInv, NEW s \in Sender, NEW d \in Delivery, W!RedeliverByID(s, d), NEW e \in Delivery
  PROVE  Sound(e)'
<1>1. /\ sender[s] = W!Off /\ W!Exists(d)
      /\ sender' = [sender EXCEPT ![s] = W!Started("redeliver", d, row[d].count)]
      /\ redelivered' = [redelivered EXCEPT ![d] = @ + 1]
      /\ first' = first /\ row' = row /\ listed' = listed /\ sent' = sent /\ lost' = lost
  BY DEF W!RedeliverByID
<1>2. /\ sender'[s].step = "send" /\ sender'[s].kind = "redeliver"
      /\ sender'[s].delivery = d /\ sender'[s].count = row[d].count
      /\ sender'[s] # W!Off
      /\ \A t \in Sender \ {s} : sender'[t] = sender[t]
  BY <1>1 DEF DeliveriesInv, W!TypeOK, W!Started, W!Off
<1>3. CASE e = d
  <2>1. W!JobsOn(d)' = W!JobsOn(d) \cup {s} /\ s \notin W!JobsOn(d)
    BY <1>1, <1>2 DEF W!JobsOn
  <2>2. \A t \in W!JobsOn(d) : t \in Sender /\ sender'[t] = sender[t]
    BY <1>2, <2>1 DEF W!JobsOn
  <2>3. RetryingOn(d)' = RetryingOn(d) /\ \A t \in RetryingOn(d) : sender'[t] = sender[t]
    BY <1>2, <2>1, <2>2 DEF RetryingOn
  <2>4. RedeliveringOn(d)' = RedeliveringOn(d) \cup {s}
    BY <1>2, <2>1, <2>2 DEF RedeliveringOn
  <2>5. UnsentOn(d)' = UnsentOn(d) \cup {s} /\ s \notin UnsentOn(d)
    BY <1>2, <2>1, <2>2, <2>4 DEF UnsentOn, RedeliveringOn
  <2>6. IsFiniteSet(UnsentOn(d)') /\ Cardinality(UnsentOn(d)') = Cardinality(UnsentOn(d)) + 1
    BY <2>5, FS_AddElement DEF DeliveriesInv, Sound
  <2>7. redelivered'[d] = redelivered[d] + 1
    BY <1>1 DEF DeliveriesInv, W!TypeOK
  <2>8. Tally(d)' = Tally(d)
    <3>1. /\ sent[d] \in Nat /\ redelivered[d] \in Nat /\ Cardinality(UnsentOn(d)) \in Nat
          /\ sent'[d] = sent[d]
      BY <1>1, CountTypes
    <3>. QED
      BY <2>6, <2>7, <3>1 DEF Tally
  <2>9. Unwritten(d)' = Unwritten(d) /\ ListedOn(d)' = ListedOn(d) /\ (RetryAhead(d)' <=> RetryAhead(d))
    BY <1>1, <2>3 DEF Unwritten, Unrecorded, ListedOn, RetryAhead
  <2>10. OneAhead(d)' /\ CountedByRetries(d)' /\ Counted(d)'
    BY <1>1, <2>3, <2>8, <2>9 DEF OneAhead, CountedByRetries, Counted, W!Exists, DeliveriesInv, Sound
  <2>11. FirstGoesFirst(d)'
    <3>1. first[d] # "over" => first[d] = "schedule"
      BY <1>1 DEF DeliveriesInv, Sound, FirstGoesFirst, W!Exists, W!Unlogged
    <3>. QED
      BY <1>1, <2>8, <2>9, <3>1 DEF FirstGoesFirst, DeliveriesInv, Sound
  <2>12. Tally(d) <= row[d].count + lost[d] + Unwritten(d) /\ Unwritten(d) \in {0, 1}
    BY <1>1 DEF DeliveriesInv, Sound, Counted, Unwritten
  <2>13. row[d].count \in Nat
    BY CountTypes DEF W!Row
  <2>14. CountedByRedeliveries(d)'
    BY <1>1, <1>2, <2>2, <2>4, <2>8, <2>9, <2>12, <2>13, CountTypes
    DEF CountedByRedeliveries, RedeliveringOn, DeliveriesInv, Sound
  <2>. QED
    BY <1>3, <2>6, <2>10, <2>11, <2>14 DEF Sound
<1>4. CASE e # d
  <2>1. W!JobsOn(e)' = W!JobsOn(e) /\ \A t \in W!JobsOn(e) : sender'[t] = sender[t]
    BY <1>1, <1>2, <1>4, OtherJobs
  <2>2. redelivered'[e] = redelivered[e] /\ ListedOn(e)' = ListedOn(e)
    BY <1>1, <1>4 DEF DeliveriesInv, W!TypeOK, ListedOn
  <2>. QED
    BY <1>1, <2>1, <2>2, OtherDelivery DEF DeliveriesInv
<1>. QED
  BY <1>3, <1>4

\* A retry adds to the tally what its row lacks until it is written; a
\* redelivery was counted when it started.
LEMMA RetrySendSound ==
  ASSUME MaxAttempts \in Nat, DeliveriesInv, NEW s \in Sender, W!RetrySend(s), NEW e \in Delivery
  PROVE  Sound(e)'
<1>1. sender[s] \in W!Job /\ sender[s] # W!Off /\ sender[s].step = "send"
  BY DEF W!RetrySend, DeliveriesInv, W!TypeOK, W!Off
<1>. PICK d \in Delivery : d = sender[s].delivery
  BY <1>1 DEF W!Job
<1>2. s \in W!JobsOn(d)
  BY <1>1 DEF W!JobsOn
<1>3. /\ sent' = [sent EXCEPT ![d] = @ + 1]
      /\ first' = first /\ row' = row /\ listed' = listed /\ redelivered' = redelivered /\ lost' = lost
  BY DEF W!RetrySend
<1>4. /\ sender'[s].step = "save" /\ sender'[s].kind = sender[s].kind
      /\ sender'[s].delivery = d /\ sender'[s].count = sender[s].count
      /\ sender'[s] # W!Off
      /\ \A t \in Sender \ {s} : sender'[t] = sender[t]
  <2>1. PICK a \in {"ok", "refused", "failed"} :
          sender' = [sender EXCEPT ![s].step = "save", ![s].answer = a]
    BY DEF W!RetrySend
  <2>2. sender'[s] = [sender[s] EXCEPT !.step = "save", !.answer = a]
    BY <2>1 DEF DeliveriesInv, W!TypeOK
  <2>3. \A t \in Sender \ {s} : sender'[t] = sender[t]
    BY <2>1 DEF DeliveriesInv, W!TypeOK
  <2>. QED
    BY <1>1, <2>2, <2>3 DEF W!Job, W!Off
<1>5. CASE e # d
  <2>1. W!JobsOn(e)' = W!JobsOn(e) /\ \A t \in W!JobsOn(e) : sender'[t] = sender[t]
    BY <1>4, <1>5, OtherJobs
  <2>2. sent'[e] = sent[e] /\ ListedOn(e)' = ListedOn(e)
    BY <1>3, <1>5 DEF DeliveriesInv, W!TypeOK, ListedOn
  <2>. QED
    BY <1>3, <2>1, <2>2, OtherDelivery DEF DeliveriesInv
<1>6. CASE e = d
  <2>1. W!JobsOn(d)' = W!JobsOn(d)
    BY <1>1, <1>2, <1>4 DEF W!JobsOn
  <2>2. \A t \in W!JobsOn(d) : sender'[t].kind = sender[t].kind /\ sender'[t].count = sender[t].count
    BY <1>4 DEF W!JobsOn
  <2>3. RetryingOn(d)' = RetryingOn(d) /\ RedeliveringOn(d)' = RedeliveringOn(d)
    BY <2>1, <2>2 DEF RetryingOn, RedeliveringOn
  <2>4. ListedOn(d)' = ListedOn(d) /\ (RetryAhead(d)' <=> RetryAhead(d))
    BY <1>3, <2>3 DEF ListedOn, RetryAhead
  <2>5. OneAhead(d)'
    BY <2>3, <2>4 DEF OneAhead, DeliveriesInv, Sound
  <2>6. sent'[d] = sent[d] + 1
    BY <1>3 DEF DeliveriesInv, W!TypeOK
  <2>7. /\ sent[d] \in Nat /\ redelivered[d] \in Nat /\ Cardinality(UnsentOn(d)) \in Nat
        /\ redelivered'[d] = redelivered[d] /\ row'[d] = row[d] /\ lost'[d] = lost[d]
        /\ first'[d] = first[d] /\ Tally(d) \in Int /\ lost[d] \in Nat /\ row[d].count \in Nat
    BY <1>3, CountTypes DEF W!Row
  <2>8. CASE sender[s].kind = "redeliver"
    <3>1. s \in UnsentOn(d) /\ UnsentOn(d)' = UnsentOn(d) \ {s}
      <4>1. s \in RedeliveringOn(d)
        BY <1>2, <2>8 DEF RedeliveringOn
      <4>2. \A t \in RedeliveringOn(d) : t # s => sender'[t] = sender[t]
        BY <1>4 DEF RedeliveringOn, W!JobsOn
      <4>. QED
        BY <1>1, <1>4, <2>3, <4>1, <4>2 DEF UnsentOn
    <3>2. IsFiniteSet(UnsentOn(d))
      BY DEF DeliveriesInv, Sound
    <3>3. IsFiniteSet(UnsentOn(d)') /\ Cardinality(UnsentOn(d)') = Cardinality(UnsentOn(d)) - 1
      BY <3>1, <3>2, FS_RemoveElement
    <3>4. Tally(d)' = Tally(d)
      BY <2>6, <2>7, <3>3 DEF Tally
    <3>5. Unwritten(d)' = Unwritten(d)
      <4>1. \A t \in RetryingOn(d) : sender'[t] = sender[t]
        BY <1>4, <2>8 DEF RetryingOn, W!JobsOn
      <4>. QED
        BY <2>3, <4>1 DEF Unwritten, Unrecorded
    <3>6. Counted(d)'
      BY <2>7, <3>4, <3>5 DEF Counted, W!Exists, DeliveriesInv, Sound
    <3>7. CountedByRetries(d)'
      BY <2>2, <2>3, <2>4, <2>7, <3>4, <3>5 DEF CountedByRetries, RetryingOn, DeliveriesInv, Sound
    <3>8. CountedByRedeliveries(d)'
      BY <2>2, <2>3, <2>4, <2>7, <3>4, <3>5 DEF CountedByRedeliveries, RedeliveringOn, DeliveriesInv, Sound
    <3>9. FirstGoesFirst(d)'
      BY <2>1, <2>4, <2>7, <3>4 DEF FirstGoesFirst, DeliveriesInv, Sound, W!Unlogged
    <3>. QED
      BY <1>6, <2>5, <3>3, <3>6, <3>7, <3>8, <3>9 DEF Sound
  <2>9. CASE sender[s].kind = "retry"
    <3>1. s \in RetryingOn(d) /\ \A t \in RetryingOn(d) : t = s
      BY <1>2, <2>9 DEF RetryingOn, DeliveriesInv, Sound, OneAhead
    <3>2. Unwritten(d) = 0 /\ Unwritten(d)' = 1
      BY <1>1, <1>4, <2>3, <3>1 DEF Unwritten, Unrecorded
    <3>3. UnsentOn(d)' = UnsentOn(d)
      <4>1. \A t \in RedeliveringOn(d) : sender'[t] = sender[t]
        BY <1>4, <2>9 DEF RedeliveringOn, W!JobsOn
      <4>. QED
        BY <2>3, <4>1 DEF UnsentOn
    <3>4. Tally(d)' = Tally(d) + 1
      BY <2>6, <2>7, <3>3 DEF Tally
    <3>5. RetryAhead(d) /\ ListedOn(d) = {} /\ first[d] = "over"
      BY <3>1 DEF RetryAhead, DeliveriesInv, Sound, OneAhead, FirstGoesFirst
    <3>6. /\ Tally(d) <= sender[s].count + lost[d] + 0 /\ sender[s].count < MaxAttempts
          /\ sender[s].count \in Nat
      BY <1>1, <3>1, <3>2 DEF DeliveriesInv, Sound, CountedByRetries, W!Job
    <3>7. Counted(d)'
      <4>1. /\ row[d].due = "never" \/ W!Exists(d)
            /\ W!Exists(d) => Tally(d) <= row[d].count + lost[d] + 0
        BY <3>2 DEF DeliveriesInv, Sound, Counted
      <4>2. Tally(d) + 1 <= MaxAttempts + lost[d]
        BY <2>7, <3>6
      <4>. QED
        BY <2>7, <3>2, <3>4, <4>1, <4>2 DEF Counted, W!Exists
    <3>8. CountedByRetries(d)'
      BY <1>4, <2>3, <2>4, <2>7, <3>1, <3>2, <3>4, <3>5, <3>6 DEF CountedByRetries
    <3>9. CountedByRedeliveries(d)'
      <4>1. \A t \in RedeliveringOn(d) :
              sender[t].count \in Nat /\ Tally(d) <= sender[t].count + lost[d] + 0
        BY <3>2, <3>5, CountTypes DEF DeliveriesInv, Sound, CountedByRedeliveries, RedeliveringOn, W!Job
      <4>. QED
        BY <2>2, <2>3, <2>4, <2>7, <3>2, <3>4, <3>5, <4>1 DEF CountedByRedeliveries, RedeliveringOn
    <3>10. FirstGoesFirst(d)' /\ IsFiniteSet(UnsentOn(d)')
      BY <2>7, <3>3, <3>5 DEF FirstGoesFirst, DeliveriesInv, Sound
    <3>. QED
      BY <1>6, <2>5, <3>7, <3>8, <3>9, <3>10 DEF Sound
  <2>. QED
    BY <1>1, <2>8, <2>9 DEF W!Job
<1>. QED
  BY <1>5, <1>6

\* A goroutine whose attempt is over leaves its delivery.
LEMMA Leaves ==
  ASSUME NEW s \in Sender, sender \in [Sender -> {W!Off} \cup W!Job], sender[s].step = "save",
         NEW d \in Delivery, d = sender[s].delivery,
         sender' = [sender EXCEPT ![s] = W!Off], listed' = listed
  PROVE  /\ s \in W!JobsOn(d) /\ sender[s] \in W!Job
         /\ sender'[s] = W!Off /\ \A t \in Sender \ {s} : sender'[t] = sender[t]
         /\ W!JobsOn(d)' = W!JobsOn(d) \ {s}
         /\ RetryingOn(d)' = RetryingOn(d) \ {s} /\ RedeliveringOn(d)' = RedeliveringOn(d) \ {s}
         /\ UnsentOn(d)' = UnsentOn(d) /\ ListedOn(d)' = ListedOn(d)
         /\ \A t \in W!JobsOn(d)' : sender'[t] = sender[t]
<1>1. sender[s] \in W!Job /\ s \in W!JobsOn(d)
  BY DEF W!JobsOn, W!Off
<1>2. sender'[s] = W!Off /\ \A t \in Sender \ {s} : sender'[t] = sender[t]
  OBVIOUS
<1>3. W!JobsOn(d)' = W!JobsOn(d) \ {s} /\ \A t \in W!JobsOn(d)' : sender'[t] = sender[t]
  BY <1>2 DEF W!JobsOn
<1>4. RetryingOn(d)' = RetryingOn(d) \ {s}
  BY <1>3 DEF RetryingOn
<1>5. RedeliveringOn(d)' = RedeliveringOn(d) \ {s}
  BY <1>3 DEF RedeliveringOn
<1>6. UnsentOn(d)' = UnsentOn(d)
  BY <1>3, <1>5 DEF UnsentOn, RedeliveringOn
<1>. QED
  BY <1>1, <1>2, <1>3, <1>4, <1>5, <1>6 DEF ListedOn

\* The row gets the count of whoever writes it last, and that is enough.
LEMMA UpdateSound ==
  ASSUME DeliveriesInv, NEW s \in Sender, W!UpdateDeliveryRetry(s), NEW e \in Delivery
  PROVE  Sound(e)'
<1>1. sender[s] \in W!Job /\ sender[s] # W!Off /\ sender[s].step = "save"
  BY DEF W!UpdateDeliveryRetry, DeliveriesInv, W!TypeOK, W!Off
<1>. PICK d \in Delivery : d = sender[s].delivery
  BY <1>1 DEF W!Job
<1>2. /\ row' = [row EXCEPT ![d] = IF W!Exists(d) THEN [count |-> W!Attempt(s), due |-> W!NextDue(s)] ELSE @]
      /\ sender' = [sender EXCEPT ![s] = W!Off]
      /\ first' = first /\ listed' = listed /\ sent' = sent /\ redelivered' = redelivered /\ lost' = lost
  BY DEF W!UpdateDeliveryRetry, W!countVars
<1>. /\ s \in W!JobsOn(d) /\ sender'[s] = W!Off /\ \A t \in Sender \ {s} : sender'[t] = sender[t]
     /\ W!JobsOn(d)' = W!JobsOn(d) \ {s}
     /\ RetryingOn(d)' = RetryingOn(d) \ {s} /\ RedeliveringOn(d)' = RedeliveringOn(d) \ {s}
     /\ UnsentOn(d)' = UnsentOn(d) /\ ListedOn(d)' = ListedOn(d)
     /\ \A t \in W!JobsOn(d)' : sender'[t] = sender[t]
  BY <1>1, <1>2, Leaves DEF DeliveriesInv, W!TypeOK
<1>3. CASE e # d
  <2>1. W!JobsOn(e)' = W!JobsOn(e) /\ \A t \in W!JobsOn(e) : sender'[t] = sender[t]
    BY <1>3, OtherJobs
  <2>2. row'[e] = row[e] /\ ListedOn(e)' = ListedOn(e)
    BY <1>2, <1>3 DEF DeliveriesInv, W!TypeOK, ListedOn
  <2>. QED
    BY <1>2, <2>1, <2>2, OtherDelivery DEF DeliveriesInv
<1>4. CASE e = d
  <2>1. /\ Tally(d) \in Int /\ lost[d] \in Nat /\ sender[s].count \in Nat
        /\ first'[d] = first[d] /\ lost'[d] = lost[d] /\ Tally(d)' = Tally(d)
    BY <1>1, <1>2, CountTypes DEF Tally, W!Job
  <2>2. /\ W!Exists(d)' => row'[d].count = sender[s].count + 1
        /\ row'[d].due = "never" \/ W!Exists(d)'
        /\ row'[d].due # "now"
    <3>1. CASE W!Exists(d)
      BY <1>2, <2>1, <3>1 DEF DeliveriesInv, W!TypeOK, W!Attempt, W!NextDue, W!Exists
    <3>2. CASE ~ W!Exists(d)
      BY <1>2, <3>2 DEF DeliveriesInv, Sound, Counted, W!TypeOK, W!Exists
    <3>. QED
      BY <3>1, <3>2
  <2>3. RetryAhead(d)' => RetryAhead(d)
    BY <2>2 DEF RetryAhead
  <2>4. OneAhead(d)'
    BY DEF OneAhead, DeliveriesInv, Sound
  <2>5. FirstGoesFirst(d)'
    BY <2>1, <2>3 DEF FirstGoesFirst, DeliveriesInv, Sound
  <2>6. Unwritten(d) \in {0, 1} /\ Unwritten(d)' \in {0, 1}
    BY DEF Unwritten
  <2>7. CASE sender[s].kind = "redeliver"
    <3>1. RetryingOn(d)' = RetryingOn(d) /\ \A t \in RetryingOn(d) : sender'[t] = sender[t]
      BY <2>7 DEF RetryingOn
    <3>2. Unwritten(d)' = Unwritten(d)
      BY <3>1 DEF Unwritten, Unrecorded
    <3>3. Tally(d) <= sender[s].count + lost[d] + IF RetryAhead(d) THEN Unwritten(d) ELSE 1
      BY <2>7 DEF RedeliveringOn, DeliveriesInv, Sound, CountedByRedeliveries
    <3>4. Counted(d)'
      BY <2>1, <2>2, <2>6, <3>2, <3>3 DEF Counted, DeliveriesInv, Sound
    <3>5. CountedByRetries(d)'
      BY <2>1, <3>1, <3>2 DEF CountedByRetries, DeliveriesInv, Sound
    <3>6. \A t \in RedeliveringOn(d)' :
            /\ sender[t].count \in Nat /\ sender'[t] = sender[t]
            /\ Tally(d) <= sender[t].count + lost[d] + IF RetryAhead(d) THEN Unwritten(d) ELSE 1
      BY CountTypes DEF RedeliveringOn, W!Job, DeliveriesInv, Sound, CountedByRedeliveries
    <3>7. CountedByRedeliveries(d)'
      BY <2>1, <2>3, <2>6, <3>2, <3>6 DEF CountedByRedeliveries
    <3>. QED
      BY <1>4, <2>4, <2>5, <3>4, <3>5, <3>7 DEF Sound, DeliveriesInv
  <2>8. CASE sender[s].kind = "retry"
    <3>1. s \in RetryingOn(d) /\ \A t \in RetryingOn(d) : t = s
      BY <2>8 DEF RetryingOn, DeliveriesInv, Sound, OneAhead
    <3>2. RetryingOn(d)' = {} /\ ListedOn(d)' = {}
      BY <3>1 DEF DeliveriesInv, Sound, OneAhead
    <3>3. Unwritten(d) = 1 /\ Unwritten(d)' = 0 /\ ~ RetryAhead(d)'
      BY <1>1, <2>2, <3>1, <3>2 DEF Unwritten, Unrecorded, RetryAhead
    <3>4. Tally(d) <= sender[s].count + lost[d] + 1
      BY <3>1, <3>3 DEF DeliveriesInv, Sound, CountedByRetries
    <3>5. Counted(d)'
      BY <2>1, <2>2, <3>3, <3>4 DEF Counted, DeliveriesInv, Sound
    <3>6. CountedByRetries(d)'
      BY <3>2 DEF CountedByRetries
    <3>7. \A t \in RedeliveringOn(d)' :
            sender'[t] = sender[t] /\ Tally(d) <= sender[t].count + lost[d] + 1
      <4>1. RetryAhead(d)
        BY <3>1 DEF RetryAhead
      <4>. QED
        BY <3>3, <4>1 DEF RedeliveringOn, DeliveriesInv, Sound, CountedByRedeliveries
    <3>8. CountedByRedeliveries(d)'
      BY <2>1, <3>3, <3>7 DEF CountedByRedeliveries
    <3>. QED
      BY <1>4, <2>4, <2>5, <3>5, <3>6, <3>8 DEF Sound, DeliveriesInv
  <2>. QED
    BY <1>1, <2>7, <2>8 DEF W!Job
<1>. QED
  BY <1>3, <1>4

\* What a failed update leaves out of the row is in what is lost.
LEMMA UpdateFailsSound ==
  ASSUME DeliveriesInv, MaxAttempts \in Nat, NEW s \in Sender, W!UpdateFails(s), NEW e \in Delivery
  PROVE  Sound(e)'
<1>1. sender[s] \in W!Job /\ sender[s] # W!Off /\ sender[s].step = "save"
  BY DEF W!UpdateFails, DeliveriesInv, W!TypeOK, W!Off
<1>. PICK d \in Delivery : d = sender[s].delivery
  BY <1>1 DEF W!Job
<1>2. /\ lost' = [lost EXCEPT ![d] = @ + 1] /\ sender' = [sender EXCEPT ![s] = W!Off]
      /\ first' = first /\ row' = row /\ listed' = listed /\ sent' = sent /\ redelivered' = redelivered
  BY DEF W!UpdateFails
<1>. /\ s \in W!JobsOn(d) /\ sender'[s] = W!Off /\ \A t \in Sender \ {s} : sender'[t] = sender[t]
     /\ W!JobsOn(d)' = W!JobsOn(d) \ {s}
     /\ RetryingOn(d)' = RetryingOn(d) \ {s} /\ RedeliveringOn(d)' = RedeliveringOn(d) \ {s}
     /\ UnsentOn(d)' = UnsentOn(d) /\ ListedOn(d)' = ListedOn(d)
     /\ \A t \in W!JobsOn(d)' : sender'[t] = sender[t]
  BY <1>1, <1>2, Leaves DEF DeliveriesInv, W!TypeOK
<1>3. CASE e # d
  <2>1. W!JobsOn(e)' = W!JobsOn(e) /\ \A t \in W!JobsOn(e) : sender'[t] = sender[t]
    BY <1>3, OtherJobs
  <2>2. lost'[e] = lost[e] /\ ListedOn(e)' = ListedOn(e)
    BY <1>2, <1>3 DEF DeliveriesInv, W!TypeOK, ListedOn
  <2>. QED
    BY <1>2, <2>1, <2>2, OtherDelivery DEF DeliveriesInv
<1>4. CASE e = d
  <2>1. /\ Tally(d) \in Int /\ lost[d] \in Nat /\ row[d].count \in Nat
        /\ first'[d] = first[d] /\ row'[d] = row[d] /\ Tally(d)' = Tally(d)
    BY <1>1, <1>2, CountTypes DEF Tally, W!Row
  <2>2. lost'[d] = lost[d] + 1
    BY <1>2 DEF DeliveriesInv, W!TypeOK
  <2>3. RetryAhead(d)' => RetryAhead(d)
    BY <2>1 DEF RetryAhead
  <2>4. OneAhead(d)'
    BY DEF OneAhead, DeliveriesInv, Sound
  <2>5. FirstGoesFirst(d)'
    BY <2>1, <2>3 DEF FirstGoesFirst, DeliveriesInv, Sound
  <2>6. Unwritten(d) \in {0, 1} /\ Unwritten(d)' \in {0, 1}
    BY DEF Unwritten
  <2>7. \A t \in W!JobsOn(d) : sender[t].count \in Nat
    BY CountTypes DEF W!Job
  <2>8. \A l \in ListedOn(d) : l.count \in Nat
    BY CountTypes DEF W!Listed
  <2>9. Counted(d)'
    BY <2>1, <2>2, <2>6 DEF Counted, W!Exists, DeliveriesInv, Sound
  <2>10. CountedByRetries(d)'
    <3>1. \A l \in ListedOn(d)' : l.count < MaxAttempts /\ Tally(d) <= l.count + lost[d] + 1
      BY <2>1, <2>8 DEF DeliveriesInv, Sound, CountedByRetries
    <3>2. \A t \in RetryingOn(d)' :
            /\ sender'[t].count < MaxAttempts
            /\ Tally(d) <= sender'[t].count + lost[d] + 1 + Unwritten(d)'
      BY <2>1, <2>6, <2>7 DEF DeliveriesInv, Sound, CountedByRetries, RetryingOn
    <3>. QED
      BY <2>1, <2>2, <2>6, <2>7, <2>8, <3>1, <3>2 DEF CountedByRetries, RetryingOn
  <2>11. CountedByRedeliveries(d)'
    <3>1. \A t \in RedeliveringOn(d)' :
            /\ sender'[t] = sender[t] /\ sender[t].count \in Nat
            /\ Tally(d) <= sender[t].count + lost[d] + 1
      BY <2>1, <2>6, <2>7 DEF DeliveriesInv, Sound, CountedByRedeliveries, RedeliveringOn
    <3>. QED
      BY <2>1, <2>2, <2>6, <3>1 DEF CountedByRedeliveries
  <2>. QED
    BY <1>4, <2>4, <2>5, <2>9, <2>10, <2>11 DEF Sound, DeliveriesInv
<1>. QED
  BY <1>3, <1>4

LEMMA DeleteHookSound ==
  ASSUME DeliveriesInv, W!DeleteHook, NEW d \in Delivery
  PROVE  Sound(d)'
<1>1. /\ row'[d] = W!Unlogged
      /\ first' = first /\ listed' = listed /\ sender' = sender
      /\ sent' = sent /\ redelivered' = redelivered /\ lost' = lost
  BY DEF W!DeleteHook, W!countVars
<1>2. /\ W!JobsOn(d)' = W!JobsOn(d) /\ ListedOn(d)' = ListedOn(d)
      /\ RetryingOn(d)' = RetryingOn(d) /\ RedeliveringOn(d)' = RedeliveringOn(d)
      /\ UnsentOn(d)' = UnsentOn(d) /\ Unwritten(d)' = Unwritten(d) /\ Tally(d)' = Tally(d)
  BY <1>1, SameJobs
<1>3. RetryAhead(d)' => RetryAhead(d)
  BY <1>1, <1>2 DEF RetryAhead, W!Unlogged
<1>4. OneAhead(d)' /\ FirstGoesFirst(d)'
  BY <1>1, <1>2, <1>3 DEF OneAhead, FirstGoesFirst, W!Unlogged, DeliveriesInv, Sound
<1>5. Counted(d)' /\ CountedByRetries(d)'
  BY <1>1, <1>2 DEF Counted, W!Exists, W!Unlogged, CountedByRetries, DeliveriesInv, Sound
<1>6. CountedByRedeliveries(d)'
  <2>1. \A t \in RedeliveringOn(d) : sender[t].count \in Nat
    BY CountTypes DEF RedeliveringOn, W!Job
  <2>. QED
    BY <1>1, <1>2, <1>3, <2>1, CountTypes
    DEF CountedByRedeliveries, Unwritten, DeliveriesInv, Sound
<1>. QED
  BY <1>2, <1>4, <1>5, <1>6 DEF DeliveriesInv, Sound

\* A restart loses one attempt of a delivery at most: its retry under way.
LEMMA RestartSound ==
  ASSUME DeliveriesInv, MaxAttempts \in Nat, W!Restart, NEW d \in Delivery
  PROVE  Sound(d)'
<1>1. /\ first'[d] = IF first[d] = "none" THEN "none" ELSE "over"
      /\ listed' = {} /\ sender' = [s \in Sender |-> W!Off]
      /\ lost'[d] = IF W!Cut(d) THEN lost[d] + 1 ELSE lost[d]
      /\ row' = row /\ sent' = sent /\ redelivered' = redelivered
  BY DEF W!Restart
<1>2. /\ W!JobsOn(d)' = {} /\ ListedOn(d)' = {}
      /\ RetryingOn(d)' = {} /\ RedeliveringOn(d)' = {} /\ UnsentOn(d)' = {}
  BY <1>1 DEF W!JobsOn, ListedOn, RetryingOn, RedeliveringOn, UnsentOn
<1>3. Unwritten(d)' = 0
  BY <1>2 DEF Unwritten, Unrecorded
<1>4. /\ sent[d] \in Nat /\ redelivered[d] \in Nat /\ lost[d] \in Nat /\ row[d] \in W!Row
      /\ Cardinality(UnsentOn(d)) \in Nat /\ Tally(d) \in Int
  BY CountTypes
<1>5. IsFiniteSet(UnsentOn(d)') /\ Cardinality(UnsentOn(d)') = 0
  BY <1>2, FS_EmptySet
<1>6. Tally(d)' \in Int /\ Tally(d)' <= Tally(d)
  BY <1>1, <1>4, <1>5 DEF Tally
<1>7. W!Cut(d) <=> Unrecorded(d)
  BY DEF W!Cut, W!Retries, W!JobsOn, Unrecorded, RetryingOn
<1>8. lost'[d] = lost[d] + Unwritten(d) /\ Unwritten(d) \in {0, 1}
  BY <1>1, <1>4, <1>7 DEF Unwritten
<1>9. Counted(d)'
  BY <1>1, <1>3, <1>4, <1>6, <1>8 DEF Counted, W!Exists, W!Row, DeliveriesInv, Sound
<1>10. FirstGoesFirst(d)'
  <2>1. CASE first[d] = "none"
    <3>1. ~ RetryAhead(d) /\ row[d] = W!Unlogged /\ Tally(d) <= 0
      BY <2>1 DEF FirstGoesFirst, DeliveriesInv, Sound
    <3>2. ~ RetryAhead(d)' /\ row'[d] = W!Unlogged /\ Tally(d)' <= 0
      BY <1>1, <1>2, <1>4, <1>6, <3>1 DEF RetryAhead
    <3>. QED
      BY <1>1, <1>2, <2>1, <3>2 DEF FirstGoesFirst, W!Unlogged
  <2>2. CASE first[d] # "none"
    BY <1>1, <2>2 DEF FirstGoesFirst
  <2>. QED
    BY <2>1, <2>2
<1>. QED
  BY <1>2, <1>5, <1>9, <1>10 DEF Sound, OneAhead, CountedByRetries, CountedByRedeliveries

\* A step on one delivery leaves the others as they are.
LEMMA FirstStepOther ==
  ASSUME DeliveriesInv, NEW e \in Delivery, NEW d \in Delivery \ {e},
         \/ W!Dispatch(e) \/ W!Send(e) \/ W!LogDelivery(e) \/ W!Schedule(e) \/ W!BackoffEnds(e)
  PROVE  Sound(d)'
<1>1. /\ first'[d] = first[d] /\ row'[d] = row[d] /\ sent'[d] = sent[d]
      /\ listed' = listed /\ sender' = sender /\ redelivered' = redelivered /\ lost' = lost
  BY DEF W!Dispatch, W!Send, W!LogDelivery, W!Schedule, W!BackoffEnds, W!Goto, W!countVars,
         DeliveriesInv, W!TypeOK
<1>. QED
  BY <1>1, OtherDelivery DEF DeliveriesInv, ListedOn, W!JobsOn

LEMMA DeliveriesTypes ==
  ASSUME MaxAttempts \in Nat, W!TypeOK, [W!Next]_(W!vars)
  PROVE  W!TypeOK'
<1>. USE DEF W!TypeOK, W!Row, W!countVars
<1>1. ASSUME NEW d \in Delivery,
             \/ W!Dispatch(d) \/ W!Send(d) \/ W!LogDelivery(d)
             \/ W!Schedule(d) \/ W!BackoffEnds(d)
      PROVE  W!TypeOK'
  <2>1. CASE W!Dispatch(d)
    BY <2>1 DEF W!Dispatch, W!Goto
  <2>2. CASE W!Send(d)
    <3>1. sent' = [sent EXCEPT ![d] = sent[d] + 1] /\ sent[d] + 1 \in Nat
      BY <2>2 DEF W!Send
    <3>2. sent' \in [Delivery -> Nat]
      BY <3>1
    <3>. QED
      BY <2>2, <3>2 DEF W!Send, W!Goto
  <2>3. CASE W!LogDelivery(d)
    <3>1. first' = [first EXCEPT ![d] = "schedule"] \/ first' = [first EXCEPT ![d] = "over"]
      BY <2>3 DEF W!LogDelivery, W!Goto
    <3>2. row' = row \/ row' = [row EXCEPT ![d] = [count |-> 1, due |-> "never"]]
      BY <2>3 DEF W!LogDelivery
    <3>3. row' \in [Delivery -> W!Row]
      BY <3>2
    <3>. QED
      BY <2>3, <3>1, <3>3 DEF W!LogDelivery
  <2>4. CASE W!Schedule(d)
    BY <2>4 DEF W!Schedule, W!Goto
  <2>5. CASE W!BackoffEnds(d)
    <3>1. [row[d] EXCEPT !.due = "now"] \in W!Row
      BY DEF W!Row
    <3>. QED
      BY <2>5, <3>1 DEF W!BackoffEnds
  <2>. QED
    BY <1>1, <2>1, <2>2, <2>3, <2>4, <2>5
<1>2. CASE W!ListPendingRetry
  BY <1>2 DEF W!ListPendingRetry, W!Listed
<1>3. CASE W!ClearRetry
  BY <1>3 DEF W!ClearRetry, W!Listed
<1>4. CASE W!DeleteHook
  BY <1>4 DEF W!DeleteHook, W!Unlogged
<1>5. CASE W!Restart
  BY <1>5 DEF W!Restart
<1>6. ASSUME NEW s \in Sender, W!StartRetry(s) PROVE W!TypeOK'
  BY <1>6 DEF W!StartRetry, W!Started, W!Job, W!Listed
<1>7. ASSUME NEW s \in Sender, W!Retry(s) PROVE W!TypeOK'
  <2>1. sender[s] \in W!Job /\ sender[s].delivery \in Delivery
    BY <1>7 DEF W!Retry, W!RetrySend, W!UpdateDeliveryRetry, W!UpdateFails, W!Off, W!Job
  <2>2. CASE W!RetrySend(s)
    <3>1. PICK a \in {"ok", "refused", "failed"} :
            sender' = [sender EXCEPT ![s].step = "save", ![s].answer = a]
      BY <2>2 DEF W!RetrySend
    <3>2. sender'[s] = [sender[s] EXCEPT !.step = "save", !.answer = a]
      BY <3>1
    <3>3. sender'[s] \in W!Job
      BY <2>1, <3>2 DEF W!Job
    <3>4. sender' \in [Sender -> {W!Off} \cup W!Job]
      BY <3>1, <3>3
    <3>. QED
      BY <2>1, <2>2, <3>4 DEF W!RetrySend
  <2>3. CASE W!UpdateDeliveryRetry(s)
    <3>1. W!Attempt(s) \in Nat /\ W!NextDue(s) \in {"never", "later", "now"}
      BY <2>1 DEF W!Attempt, W!NextDue, W!Job
    <3>. QED
      BY <2>1, <2>3, <3>1 DEF W!UpdateDeliveryRetry
  <2>4. CASE W!UpdateFails(s)
    BY <2>1, <2>4 DEF W!UpdateFails
  <2>. QED
    BY <1>7, <2>2, <2>3, <2>4 DEF W!Retry
<1>8. ASSUME NEW s \in Sender, NEW d \in Delivery, W!RedeliverByID(s, d) PROVE W!TypeOK'
  BY <1>8 DEF W!RedeliverByID, W!Started, W!Job
<1>9. CASE UNCHANGED W!vars
  BY <1>9 DEF W!vars
<1>. QED
  BY <1>1, <1>2, <1>3, <1>4, <1>5, <1>6, <1>7, <1>8, <1>9 DEF W!Next

\* Every step keeps the invariant.
LEMMA DeliveriesStep ==
  ASSUME MaxAttempts \in Nat \ {0}, DeliveriesInv, [W!Next]_(W!vars)
  PROVE  DeliveriesInv'
<1>1. W!TypeOK'
  BY DeliveriesTypes DEF DeliveriesInv
<1>2. ASSUME NEW d \in Delivery PROVE Sound(d)'
  <2>1. CASE \E e \in Delivery : \/ W!Dispatch(e) \/ W!Send(e) \/ W!LogDelivery(e)
                                 \/ W!Schedule(e) \/ W!BackoffEnds(e)
    BY <2>1, FirstStepOther, DispatchSound, SendSound, LogDeliverySound, ScheduleSound, BackoffEndsSound
  <2>2. CASE W!ListPendingRetry \/ W!ClearRetry \/ W!DeleteHook \/ W!Restart
    BY <2>2, ListSound, ClearRetrySound, DeleteHookSound, RestartSound
  <2>3. CASE \E s \in Sender : W!StartRetry(s) \/ W!Retry(s)
    BY <2>3, StartRetrySound, RetrySendSound, UpdateSound, UpdateFailsSound DEF W!Retry
  <2>4. CASE \E s \in Sender, e \in Delivery : W!RedeliverByID(s, e)
    BY <2>4, RedeliverSound
  <2>5. CASE UNCHANGED W!vars
    BY <2>5, OtherDelivery DEF DeliveriesInv, W!vars, W!countVars, ListedOn, W!JobsOn
  <2>. QED
    BY <2>1, <2>2, <2>3, <2>4, <2>5 DEF W!Next
<1>. QED
  BY <1>1, <1>2 DEF DeliveriesInv

LEMMA DeliveriesInit ==
  ASSUME MaxAttempts \in Nat, W!Init
  PROVE  DeliveriesInv
<1>1. W!TypeOK
  BY DEF W!Init, W!TypeOK, W!Row, W!Unlogged
<1>2. ASSUME NEW d \in Delivery PROVE Sound(d)
  <2>1. /\ W!JobsOn(d) = {} /\ ListedOn(d) = {}
        /\ RetryingOn(d) = {} /\ RedeliveringOn(d) = {} /\ UnsentOn(d) = {}
    BY DEF W!Init, W!JobsOn, ListedOn, RetryingOn, RedeliveringOn, UnsentOn
  <2>2. IsFiniteSet(UnsentOn(d)) /\ Cardinality(UnsentOn(d)) = 0
    BY <2>1, FS_EmptySet
  <2>3. Tally(d) = 0 /\ ~ W!Exists(d) /\ ~ RetryAhead(d) /\ row[d] = W!Unlogged /\ lost[d] = 0
    BY <2>1, <2>2 DEF W!Init, Tally, W!Exists, RetryAhead, W!Unlogged
  <2>. QED
    BY <2>1, <2>2, <2>3
    DEF Sound, OneAhead, FirstGoesFirst, Counted, CountedByRetries, CountedByRedeliveries, W!Unlogged
<1>. QED
  BY <1>1, <1>2 DEF DeliveriesInv

\* What the two properties take from the invariant
LEMMA DeliveriesPromise ==
  ASSUME MaxAttempts \in Nat, DeliveriesInv
  PROVE  W!OneScheduledRetry /\ W!FiveAttemptsInAll
<1>1. ASSUME NEW s \in W!Retries, NEW t \in W!Retries, sender[s].delivery = sender[t].delivery
      PROVE  s = t
  <2>. PICK d \in Delivery : d = sender[s].delivery
    BY DEF W!Retries, DeliveriesInv, W!TypeOK, W!Job, W!Off
  <2>1. s \in RetryingOn(d) /\ t \in RetryingOn(d)
    BY <1>1 DEF W!Retries, RetryingOn, W!JobsOn
  <2>. QED
    BY <2>1 DEF DeliveriesInv, Sound, OneAhead
<1>2. ASSUME NEW d \in Delivery PROVE sent[d] <= MaxAttempts + redelivered[d] + lost[d]
  BY CountTypes DEF DeliveriesInv, Sound, Counted, Tally
<1>. QED
  BY <1>1, <1>2 DEF W!OneScheduledRetry, W!FiveAttemptsInAll

\* The worker never sends a delivery that it is sending already, whatever
\* users ask for again, webhooks are deleted and updates fail meanwhile.
THEOREM RetriesDontOverlap ==
  ASSUME MaxAttempts \in Nat \ {0}
  PROVE  W!Spec => []W!OneScheduledRetry
<1>1. W!Init => DeliveriesInv
  BY DeliveriesInit
<1>2. DeliveriesInv /\ [W!Next]_(W!vars) => DeliveriesInv'
  BY DeliveriesStep
<1>3. DeliveriesInv => W!OneScheduledRetry
  BY DeliveriesPromise
<1>. QED
  BY <1>1, <1>2, <1>3, PTL DEF W!Spec

\* A delivery is sent MaxAttempts times in all, and once more for each
\* redelivery and each attempt that is not in its row.
THEOREM AttemptsAreBounded ==
  ASSUME MaxAttempts \in Nat \ {0}
  PROVE  W!Spec => []W!FiveAttemptsInAll
<1>1. W!Init => DeliveriesInv
  BY DeliveriesInit
<1>2. DeliveriesInv /\ [W!Next]_(W!vars) => DeliveriesInv'
  BY DeliveriesStep
<1>3. DeliveriesInv => W!FiveAttemptsInAll
  BY DeliveriesPromise
<1>. QED
  BY <1>1, <1>2, <1>3, PTL DEF W!Spec

-----------------------------------------------------------------------------
(***************************************************************************)
(* Imports.  The map of jobs forgets what is finished, at times and by     *)
(* count, and never what is in work; so its count of a user's jobs bounds  *)
(* those that work, and every slot that is taken is a goroutine's.         *)
(***************************************************************************)
CONSTANTS User, Import, PerUser, Slots, Keep, MaxRepos, MaxCrashes
VARIABLES user, jobs, status, ended, old, step, slots, temp, repos, dirs, torn, crashes

J == INSTANCE ImportJobs

LEMMA SameCardinality ==
  ASSUME NEW S
  PROVE  J!Cardinality(S) = Cardinality(S)
BY DEF J!Cardinality, Cardinality

\* The limits of the code are positive; the ids, and the restarts, are as many
\* as a behaviour has.
ImportLimits ==
  /\ IsFiniteSet(Import)
  /\ PerUser \in Nat /\ Slots \in Nat \ {0} /\ MaxRepos \in Nat /\ MaxCrashes \in Nat

WorkingFor(u) == {j \in Import : user[j] = u /\ step[j] \in J!Working}
At(steps)     == {j \in Import : step[j] \in steps}

\* Jobs that passed the quota and have no row yet
ToInsert == At({"claim", "insert"})

\* What works is in the map and not finished, and what is in the map and not
\* finished works.
InMap(j) ==
  /\ step[j] \in {"new", "asked"} \cup J!Working => ~ J!Finished(j) /\ ended[j] = 0
  /\ step[j] \in J!Working => j \in jobs
  /\ j \in jobs => J!Finished(j) \/ step[j] \in J!Working

\* What a job has made of its repository when it comes to a step
Made(j) ==
  /\ step[j] \in {"new", "asked", "queued", "slot", "clone", "check", "claim"}
       => j \notin repos /\ dirs[j] = "none"
  /\ step[j] = "insert" => j \notin repos /\ dirs[j] = "claim"
  /\ step[j] = "remove" => j \in repos /\ dirs[j] = "claim"
  /\ step[j] = "rename" => j \in repos /\ dirs[j] = "none"
  /\ step[j] = "abandonRow" => j \in repos /\ dirs[j] # "data"
  /\ step[j] = "abandonDir" => j \notin repos /\ dirs[j] # "data"
  /\ step[j] \in {"clean", "finish", "release", "over"} => (j \in repos <=> J!Published(j))
  /\ step[j] \in {"new", "asked", "queued", "slot", "clone", "finish", "release", "over"} => j \notin temp

SlotsHeld   == slots = Cardinality(At(J!Holding))
PerUserKept == \A u \in User : Cardinality(WorkingFor(u)) <= PerUser
QuotaKept   == Cardinality(repos) + Cardinality(ToInsert) <= MaxRepos + Slots - 1

ImportsInv ==
  /\ J!TypeOK
  /\ \A j \in Import : InMap(j)
  /\ \A j \in Import : j \notin torn => Made(j)
  /\ SlotsHeld /\ PerUserKept /\ QuotaKept

\* How a step of one job changes the number of jobs at some steps
LEMMA OneMoves ==
  ASSUME ImportLimits, J!TypeOK, NEW j \in Import, NEW x, NEW S,
         step' = [step EXCEPT ![j] = x]
  PROVE  /\ IsFiniteSet(At(S)) /\ Cardinality(At(S)) \in Nat /\ Cardinality(At(S)') \in Nat
         /\ (x \in S <=> step[j] \in S) => Cardinality(At(S)') = Cardinality(At(S))
         /\ x \in S /\ step[j] \notin S => Cardinality(At(S)') = Cardinality(At(S)) + 1
         /\ x \notin S /\ step[j] \in S => Cardinality(At(S)') = Cardinality(At(S)) - 1
         /\ step[j] \in S => Cardinality(At(S)) > 0
<1>1. IsFiniteSet(At(S)) /\ IsFiniteSet(At(S)')
  BY FS_Subset DEF At, ImportLimits
<1>2. Cardinality(At(S)) \in Nat /\ Cardinality(At(S)') \in Nat
  BY <1>1, FS_CardinalityType
<1>3. step[j] \in S => Cardinality(At(S)) > 0
  <2>1. step[j] \in S => At(S) # {}
    BY DEF At, J!TypeOK
  <2>. QED
    BY <1>1, <1>2, <2>1, FS_EmptySet
<1>4. CASE x \in S <=> step[j] \in S
  <2>1. At(S)' = At(S)
    BY <1>4 DEF At, J!TypeOK
  <2>. QED
    BY <1>1, <1>2, <1>3, <1>4, <2>1
<1>5. CASE x \in S /\ step[j] \notin S
  <2>1. At(S)' = At(S) \cup {j} /\ j \notin At(S)
    BY <1>5 DEF At, J!TypeOK
  <2>. QED
    BY <1>1, <1>2, <1>5, <2>1, FS_AddElement
<1>6. CASE x \notin S /\ step[j] \in S
  <2>1. At(S)' = At(S) \ {j} /\ j \in At(S)
    BY <1>6 DEF At, J!TypeOK
  <2>. QED
    BY <1>1, <1>2, <1>3, <1>6, <2>1, FS_RemoveElement
<1>. QED
  BY <1>4, <1>5, <1>6

\* Sweeping and evicting keep what isn't finished.
LEMMA MapKeepsUnfinished ==
  ASSUME NEW s, NEW u, NEW j \in s, ~ J!Finished(j)
  PROVE  j \in J!Sweep(s) /\ j \in J!EvictFinished(s, u)
BY DEF J!Sweep, J!EvictFinished

LEMMA MapOnlyShrinks ==
  ASSUME NEW s, NEW u
  PROVE  J!Sweep(s) \subseteq s /\ J!EvictFinished(s, u) \subseteq s
BY DEF J!Sweep, J!EvictFinished

\* What every job's step goes to, and what its neighbours make of it: nothing
LEMMA OneJob ==
  ASSUME J!TypeOK, NEW j \in Import,
         J!AskImport(j) \/ J!Start(j) \/ J!Run(j) \/ J!Delete(j)
  PROVE  /\ user' = user /\ crashes' = crashes /\ torn \subseteq torn'
         /\ \A k \in Import \ {j} :
              /\ step'[k] = step[k] /\ status'[k] = status[k] /\ ended'[k] = ended[k]
              /\ dirs'[k] = dirs[k] /\ (k \in repos' <=> k \in repos) /\ (k \in temp' <=> k \in temp)
              /\ (k \in torn' <=> k \in torn)
<1>. USE DEF J!TypeOK, J!Goto, J!mapVars, J!repoVars
<1>1. CASE J!AskImport(j) \/ J!Start(j) \/ J!Delete(j)
  BY <1>1 DEF J!AskImport, J!Start, J!Delete
<1>2. CASE J!Run(j)
  <2>1. CASE J!TakeSlot(j) \/ J!SetRunning(j) \/ J!RemoveTemp(j) \/ J!Finish(j) \/ J!ReleaseSlot(j)
    BY <2>1 DEF J!TakeSlot, J!SetRunning, J!RemoveTemp, J!Finish, J!ReleaseSlot
  <2>2. CASE J!Clone(j) \/ J!Check(j) \/ J!Claim(j) \/ J!Insert(j)
    BY <2>2 DEF J!Clone, J!Check, J!Claim, J!Insert
  <2>3. CASE J!RemoveClaim(j) \/ J!Rename(j) \/ J!AbandonRow(j) \/ J!AbandonDir(j)
    BY <2>3 DEF J!RemoveClaim, J!Rename, J!AbandonRow, J!AbandonDir
  <2>. QED
    BY <1>2, <2>1, <2>2, <2>3 DEF J!Run, J!Attempt
<1>. QED
  BY <1>1, <1>2

\* A job that is not torn has made what its step says.
LEMMA MadeStep ==
  ASSUME ImportsInv, [J!Next]_(J!vars), NEW k \in Import, k \notin torn'
  PROVE  Made(k)'
<1>. USE DEF J!Published
<1>1. CASE \E j \in Import : J!AskImport(j) \/ J!Start(j) \/ J!Run(j) \/ J!Delete(j)
  <2>. PICK j \in Import : J!AskImport(j) \/ J!Start(j) \/ J!Run(j) \/ J!Delete(j)
    BY <1>1
  <2>. k \notin torn /\ Made(k)
    BY OneJob DEF ImportsInv
  <2>1. CASE k # j
    BY <2>1, OneJob DEF ImportsInv, Made
  <2>2. CASE k = j
    <3>. USE <2>2 DEF J!TypeOK, J!Goto, J!mapVars, J!repoVars, ImportsInv, Made
    <3>1. CASE J!AskImport(j)
      BY <3>1 DEF J!AskImport
    <3>2. CASE J!Start(j)
      BY <3>2 DEF J!Start
    <3>3. CASE J!Delete(j)
      BY <3>3 DEF J!Delete
    <3>4. CASE J!TakeSlot(j) \/ J!SetRunning(j) \/ J!Finish(j) \/ J!ReleaseSlot(j)
      BY <3>4 DEF J!TakeSlot, J!SetRunning, J!Finish, J!ReleaseSlot
    <3>5. CASE J!Clone(j) \/ J!Check(j)
      BY <3>5 DEF J!Clone, J!Check
    <3>6. CASE J!Claim(j)
      BY <3>6 DEF J!Claim
    <3>7. CASE J!Insert(j)
      BY <3>7 DEF J!Insert
    <3>8. CASE J!RemoveClaim(j)
      BY <3>8 DEF J!RemoveClaim
    <3>9. CASE J!Rename(j)
      BY <3>9 DEF J!Rename
    <3>10. CASE J!AbandonRow(j) \/ J!AbandonDir(j)
      BY <3>10 DEF J!AbandonRow, J!AbandonDir
    <3>11. CASE J!RemoveTemp(j)
      BY <3>11 DEF J!RemoveTemp
    <3>. QED
      BY <3>1, <3>2, <3>3, <3>4, <3>5, <3>6, <3>7, <3>8, <3>9, <3>10, <3>11 DEF J!Run, J!Attempt
  <2>. QED
    BY <2>1, <2>2
<1>2. CASE J!Get \/ J!AnHourPasses \/ UNCHANGED J!vars
  BY <1>2 DEF J!Get, J!AnHourPasses, J!vars, J!repoVars, ImportsInv, Made
<1>3. CASE J!Restart
  <2>1. k \notin torn /\ step[k] \notin J!Publishing
    BY <1>3 DEF J!Restart
  <2>2. step[k] \in {"new", "asked", "queued", "slot", "clone", "check", "clean", "finish", "release", "over"}
    BY <2>1 DEF ImportsInv, J!TypeOK, J!Holding, J!Attempting, J!Publishing
  <2>. QED
    BY <1>3, <2>1, <2>2 DEF J!Restart, ImportsInv, Made
<1>. QED
  BY <1>1, <1>2, <1>3 DEF J!Next

\* A job that asks or starts holds no slot and inserts nothing; a goroutine
\* that goes on works already.
LEMMA OneStep ==
  ASSUME J!TypeOK, NEW j \in Import,
         J!AskImport(j) \/ J!Start(j) \/ J!Run(j) \/ J!Delete(j)
  PROVE  \E x : /\ step' = [step EXCEPT ![j] = x]
                /\ x \in {"asked", "queued", "over"} \cup J!Holding
                /\ \/ J!TakeSlot(j) /\ step[j] = "queued" /\ x = "slot"
                   \/ J!ReleaseSlot(j) /\ step[j] = "release" /\ x = "over"
                   \/ slots' = slots /\ (x \in J!Holding <=> step[j] \in J!Holding)
                /\ \/ J!Start(j) /\ step[j] = "asked" /\ x = "queued"
                   \/ x \in J!Working => step[j] \in J!Working
                /\ \/ J!Check(j) /\ J!CheckNewRepo /\ step[j] = "check" /\ x = "claim" /\ repos' = repos
                   \/ J!Insert(j) /\ step[j] = "insert" /\ x = "remove" /\ repos' = repos \cup {j}
                   \/ (x \in {"claim", "insert"} => step[j] \in {"claim", "insert"}) /\ repos' \subseteq repos
<1>. USE DEF J!TypeOK, J!Goto, J!mapVars, J!repoVars, J!Holding, J!Working, J!Attempting, J!Publishing
<1>1. CASE J!AskImport(j) \/ J!Start(j)
  BY <1>1 DEF J!AskImport, J!Start
<1>2. CASE J!Delete(j)
  <2>1. step' = [step EXCEPT ![j] = "over"] /\ step[j] = "over"
    BY <1>2 DEF J!Delete
  <2>. QED
    BY <1>2, <2>1 DEF J!Delete
<1>3. CASE J!Run(j)
  <2>1. CASE J!TakeSlot(j) \/ J!ReleaseSlot(j)
    BY <2>1 DEF J!TakeSlot, J!ReleaseSlot
  <2>2. CASE J!SetRunning(j) \/ J!RemoveTemp(j) \/ J!Finish(j)
    BY <2>2 DEF J!SetRunning, J!RemoveTemp, J!Finish
  <2>3. CASE J!Check(j)
    BY <2>3 DEF J!Check
  <2>4. CASE J!Clone(j) \/ J!Claim(j)
    BY <2>4 DEF J!Clone, J!Claim
  <2>5. CASE J!Insert(j)
    BY <2>5 DEF J!Insert
  <2>6. CASE J!RemoveClaim(j) \/ J!Rename(j)
    BY <2>6 DEF J!RemoveClaim, J!Rename
  <2>7. CASE J!AbandonRow(j) \/ J!AbandonDir(j)
    BY <2>7 DEF J!AbandonRow, J!AbandonDir
  <2>. QED
    BY <1>3, <2>1, <2>2, <2>3, <2>4, <2>5, <2>6, <2>7 DEF J!Run, J!Attempt
<1>. QED
  BY <1>1, <1>2, <1>3

\* Nobody works and no slot is taken once the server is back.
LEMMA RestartFrees ==
  ASSUME J!TypeOK, J!Restart
  PROVE  /\ At(J!Holding)' = {} /\ ToInsert' = {} /\ \A u : WorkingFor(u)' = {}
         /\ slots' = 0 /\ repos' = repos
BY DEF J!Restart, J!TypeOK, At, ToInsert, WorkingFor, J!Holding, J!Working, J!Attempting, J!Publishing

\* What moves no job leaves the numbers of jobs as they are.
LEMMA NobodyMoves ==
  ASSUME step' = step, user' = user
  PROVE  /\ At(J!Holding)' = At(J!Holding) /\ ToInsert' = ToInsert
         /\ \A u : WorkingFor(u)' = WorkingFor(u)
BY DEF At, ToInsert, WorkingFor

\* The slots that are taken are those of the goroutines that hold one.
LEMMA SlotsStep ==
  ASSUME ImportLimits, ImportsInv, [J!Next]_(J!vars)
  PROVE  SlotsHeld'
<1>1. CASE \E j \in Import : J!AskImport(j) \/ J!Start(j) \/ J!Run(j) \/ J!Delete(j)
  <2>. PICK j \in Import : J!AskImport(j) \/ J!Start(j) \/ J!Run(j) \/ J!Delete(j)
    BY <1>1
  <2>. PICK x : /\ step' = [step EXCEPT ![j] = x]
                /\ \/ J!TakeSlot(j) /\ step[j] = "queued" /\ x = "slot"
                   \/ J!ReleaseSlot(j) /\ step[j] = "release" /\ x = "over"
                   \/ slots' = slots /\ (x \in J!Holding <=> step[j] \in J!Holding)
    BY OneStep DEF ImportsInv
  <2>. J!TypeOK
    BY DEF ImportsInv
  <2>1. CASE J!TakeSlot(j) /\ step[j] = "queued" /\ x = "slot"
    <3>1. x \in J!Holding /\ step[j] \notin J!Holding
      BY <2>1 DEF J!Holding, J!Attempting, J!Publishing
    <3>. QED
      BY <2>1, <3>1, OneMoves DEF J!TakeSlot, ImportsInv, SlotsHeld
  <2>2. CASE J!ReleaseSlot(j) /\ step[j] = "release" /\ x = "over"
    <3>1. x \notin J!Holding /\ step[j] \in J!Holding
      BY <2>2 DEF J!Holding, J!Attempting, J!Publishing
    <3>. QED
      BY <2>2, <3>1, OneMoves DEF J!ReleaseSlot, ImportsInv, SlotsHeld
  <2>3. CASE slots' = slots /\ (x \in J!Holding <=> step[j] \in J!Holding)
    <3>1. Cardinality(At(J!Holding)') = Cardinality(At(J!Holding))
      BY <2>3, OneMoves
    <3>. QED
      BY <2>3, <3>1 DEF ImportsInv, SlotsHeld
  <2>. QED
    BY <2>1, <2>2, <2>3
<1>2. CASE J!Get \/ J!AnHourPasses \/ UNCHANGED J!vars
  <2>1. step' = step /\ user' = user /\ slots' = slots
    BY <1>2 DEF J!Get, J!AnHourPasses, J!vars
  <2>. QED
    BY <2>1, NobodyMoves DEF ImportsInv, SlotsHeld
<1>3. CASE J!Restart
  BY <1>3, RestartFrees, FS_EmptySet DEF ImportsInv, SlotsHeld
<1>. QED
  BY <1>1, <1>2, <1>3 DEF J!Next

\* The jobs that the map counts for a user are at least those that work.
LEMMA PerUserStep ==
  ASSUME ImportLimits, ImportsInv, [J!Next]_(J!vars)
  PROVE  PerUserKept'
<1>. SUFFICES ASSUME NEW u \in User
             PROVE  Cardinality(WorkingFor(u)') <= PerUser
  BY DEF PerUserKept
<1>. /\ IsFiniteSet(WorkingFor(u)) /\ IsFiniteSet(WorkingFor(u)')
     /\ Cardinality(WorkingFor(u)) \in Nat /\ Cardinality(WorkingFor(u)') \in Nat
     /\ Cardinality(WorkingFor(u)) <= PerUser /\ PerUser \in Nat
  <2>1. IsFiniteSet(WorkingFor(u)) /\ IsFiniteSet(WorkingFor(u)')
    BY FS_Subset DEF WorkingFor, ImportLimits
  <2>. QED
    BY <2>1, FS_CardinalityType DEF ImportLimits, ImportsInv, PerUserKept
<1>1. ASSUME WorkingFor(u)' \subseteq WorkingFor(u)
      PROVE  Cardinality(WorkingFor(u)') <= PerUser
  <2>1. Cardinality(WorkingFor(u)') <= Cardinality(WorkingFor(u))
    BY <1>1, FS_Subset
  <2>. QED
    BY <2>1
<1>2. CASE \E j \in Import : J!AskImport(j) \/ J!Start(j) \/ J!Run(j) \/ J!Delete(j)
  <2>. PICK j \in Import : J!AskImport(j) \/ J!Start(j) \/ J!Run(j) \/ J!Delete(j)
    BY <1>2
  <2>. PICK x : /\ step' = [step EXCEPT ![j] = x]
                /\ \/ J!Start(j) /\ step[j] = "asked" /\ x = "queued"
                   \/ x \in J!Working => step[j] \in J!Working
    BY OneStep DEF ImportsInv
  <2>. user' = user
    BY OneJob DEF ImportsInv
  <2>1. CASE x \in J!Working => step[j] \in J!Working
    BY <1>1, <2>1 DEF WorkingFor, ImportsInv, J!TypeOK
  <2>2. CASE user[j] # u
    BY <1>1, <2>2 DEF WorkingFor, ImportsInv, J!TypeOK
  <2>3. CASE J!Start(j) /\ step[j] = "asked" /\ x = "queued" /\ user[j] = u
    <3>. PICK counted : counted = {k \in J!Sweep(jobs) : user[k] = u /\ ~ J!Finished(k)}
      OBVIOUS
    <3>. IsFiniteSet(counted)
      <4>1. counted \subseteq Import
        BY MapOnlyShrinks DEF ImportsInv, J!TypeOK
      <4>. QED
        BY <4>1, FS_Subset DEF ImportLimits
    <3>1. WorkingFor(u)' = WorkingFor(u) \cup {j} /\ j \notin WorkingFor(u)
      BY <2>3 DEF WorkingFor, ImportsInv, J!TypeOK, J!Working, J!Holding, J!Attempting, J!Publishing
    <3>2. J!ActiveLocked(J!Sweep(jobs), u) < PerUser
      <4>1. step'[j] = "queued"
        BY <2>3 DEF ImportsInv, J!TypeOK
      <4>2. CASE J!ActiveLocked(J!Sweep(jobs), u) >= PerUser
        BY <2>3, <4>1, <4>2 DEF J!Start, J!Goto, ImportsInv, J!TypeOK
      <4>3. J!ActiveLocked(J!Sweep(jobs), u) \in Nat
        BY FS_CardinalityType, SameCardinality DEF J!ActiveLocked
      <4>. QED
        BY <4>2, <4>3
    <3>3. WorkingFor(u) \subseteq counted
      BY MapKeepsUnfinished DEF WorkingFor, ImportsInv, InMap
    <3>4. Cardinality(WorkingFor(u)) <= Cardinality(counted) /\ Cardinality(counted) \in Nat
      BY <3>3, FS_Subset, FS_CardinalityType
    <3>5. Cardinality(counted) < PerUser
      BY <3>2, SameCardinality DEF J!ActiveLocked
    <3>6. Cardinality(WorkingFor(u)') = Cardinality(WorkingFor(u)) + 1
      BY <3>1, FS_AddElement
    <3>. QED
      BY <3>4, <3>5, <3>6
  <2>. QED
    BY <2>1, <2>2, <2>3
<1>3. CASE J!Get \/ J!AnHourPasses \/ UNCHANGED J!vars
  <2>1. step' = step /\ user' = user
    BY <1>3 DEF J!Get, J!AnHourPasses, J!vars
  <2>. QED
    BY <1>1, <2>1, NobodyMoves
<1>4. CASE J!Restart
  BY <1>1, <1>4, RestartFrees DEF ImportsInv
<1>. QED
  BY <1>2, <1>3, <1>4 DEF J!Next

\* A job that passes the quota holds a slot, and so do all that passed it
\* with the job and have no row yet.
LEMMA QuotaStep ==
  ASSUME ImportLimits, ImportsInv, [J!Next]_(J!vars), SlotsHeld', slots' \in 0..Slots
  PROVE  QuotaKept'
<1>. /\ IsFiniteSet(repos) /\ Cardinality(repos) \in Nat /\ J!TypeOK
     /\ Cardinality(repos) + Cardinality(ToInsert) <= MaxRepos + Slots - 1
     /\ MaxRepos \in Nat /\ Slots \in Nat \ {0}
  BY FS_Subset, FS_CardinalityType DEF ImportLimits, ImportsInv, J!TypeOK, QuotaKept
<1>1. ASSUME repos' \subseteq repos, NEW n \in Nat, NEW m \in Nat, m <= n,
             n = Cardinality(ToInsert), m = Cardinality(ToInsert')
      PROVE  QuotaKept'
  <2>1. Cardinality(repos') <= Cardinality(repos) /\ Cardinality(repos') \in Nat
    BY <1>1, FS_Subset, FS_CardinalityType
  <2>. QED
    BY <1>1, <2>1 DEF QuotaKept
<1>2. CASE \E j \in Import : J!AskImport(j) \/ J!Start(j) \/ J!Run(j) \/ J!Delete(j)
  <2>. PICK j \in Import : J!AskImport(j) \/ J!Start(j) \/ J!Run(j) \/ J!Delete(j)
    BY <1>2
  <2>. PICK x : /\ step' = [step EXCEPT ![j] = x]
                /\ \/ J!Check(j) /\ J!CheckNewRepo /\ step[j] = "check" /\ x = "claim" /\ repos' = repos
                   \/ J!Insert(j) /\ step[j] = "insert" /\ x = "remove" /\ repos' = repos \cup {j}
                   \/ (x \in {"claim", "insert"} => step[j] \in {"claim", "insert"}) /\ repos' \subseteq repos
    BY OneStep
  <2>1. /\ Cardinality(ToInsert) \in Nat /\ Cardinality(ToInsert') \in Nat
        /\ (x \in {"claim", "insert"} <=> step[j] \in {"claim", "insert"})
              => Cardinality(ToInsert') = Cardinality(ToInsert)
        /\ x \notin {"claim", "insert"} /\ step[j] \in {"claim", "insert"}
              => Cardinality(ToInsert') = Cardinality(ToInsert) - 1
    BY OneMoves DEF ToInsert
  <2>2. CASE J!CheckNewRepo /\ repos' = repos
    <3>1. Cardinality(repos) < MaxRepos
      BY <2>2, SameCardinality DEF J!CheckNewRepo
    <3>2. ToInsert' \subseteq At(J!Holding)'
      BY DEF ToInsert, At, J!Holding, J!Attempting, J!Publishing
    <3>3. IsFiniteSet(At(J!Holding)')
      BY FS_Subset DEF At, ImportLimits
    <3>4. Cardinality(ToInsert') <= Cardinality(At(J!Holding)')
      BY <3>2, <3>3, FS_Subset
    <3>5. Cardinality(At(J!Holding)') <= Slots /\ Cardinality(At(J!Holding)') \in Nat
      <4>1. slots' = Cardinality(At(J!Holding)') /\ slots' \in 0..Slots
        BY DEF SlotsHeld
      <4>. QED
        BY <4>1
    <3>6. Cardinality(ToInsert') <= Slots
      BY <2>1, <3>4, <3>5
    <3>7. Cardinality(repos') = Cardinality(repos)
      BY <2>2
    <3>. QED
      BY <2>1, <3>1, <3>6, <3>7 DEF QuotaKept
  <2>3. CASE step[j] = "insert" /\ x = "remove" /\ repos' = repos \cup {j}
    <3>1. Cardinality(repos') <= Cardinality(repos) + 1 /\ Cardinality(repos') \in Nat
      <4>1. /\ IsFiniteSet(repos \cup {j})
            /\ Cardinality(repos \cup {j}) \in {Cardinality(repos), Cardinality(repos) + 1}
        BY FS_AddElement
      <4>. QED
        BY <2>3, <4>1
    <3>2. Cardinality(ToInsert') = Cardinality(ToInsert) - 1
      BY <2>1, <2>3
    <3>. QED
      BY <2>1, <3>1, <3>2 DEF QuotaKept
  <2>4. CASE (x \in {"claim", "insert"} => step[j] \in {"claim", "insert"}) /\ repos' \subseteq repos
    <3>1. Cardinality(ToInsert') <= Cardinality(ToInsert)
      BY <2>1, <2>4
    <3>. QED
      BY <1>1, <2>1, <2>4, <3>1
  <2>. QED
    BY <2>2, <2>3, <2>4
<1>3. CASE J!Get \/ J!AnHourPasses \/ UNCHANGED J!vars
  <2>1. ToInsert' = ToInsert /\ repos' = repos
    BY <1>3, NobodyMoves DEF J!Get, J!AnHourPasses, J!vars, J!repoVars
  <2>2. Cardinality(ToInsert) \in Nat
    BY FS_Subset, FS_CardinalityType DEF ToInsert, At, ImportLimits
  <2>. QED
    BY <1>1, <2>1, <2>2
<1>4. CASE J!Restart
  <2>1. ToInsert' = {} /\ repos' = repos
    BY <1>4, RestartFrees
  <2>2. Cardinality(ToInsert) \in Nat /\ Cardinality(ToInsert') = 0
    BY <2>1, FS_Subset, FS_CardinalityType, FS_EmptySet DEF ToInsert, At, ImportLimits
  <2>. QED
    BY <1>1, <2>1, <2>2
<1>. QED
  BY <1>2, <1>3, <1>4 DEF J!Next

\* A job that works is in the map, unfinished; and only such a job is.
LEMMA InMapStep ==
  ASSUME ImportsInv, [J!Next]_(J!vars), NEW k \in Import
  PROVE  InMap(k)'
<1>. /\ J!TypeOK /\ InMap(k)
  BY DEF ImportsInv
<1>1. CASE \E j \in Import : J!AskImport(j) \/ J!Start(j) \/ J!Run(j) \/ J!Delete(j)
  <2>. PICK j \in Import : J!AskImport(j) \/ J!Start(j) \/ J!Run(j) \/ J!Delete(j)
    BY <1>1
  <2>1. CASE J!Start(j)
    <3>1. /\ status' = status /\ ended' = ended
          /\ step' = [step EXCEPT ![j] = "over"] \/ step' = [step EXCEPT ![j] = "queued"]
      BY <2>1 DEF J!Start, J!Goto
    <3>2. jobs' \subseteq jobs \cup {j} /\ (step'[j] = "over" => jobs' \subseteq jobs)
      BY <2>1, <3>1, MapOnlyShrinks DEF J!Start, J!Goto, J!TypeOK
    <3>3. \A i \in jobs : ~ J!Finished(i) => i \in jobs'
      BY <2>1, MapKeepsUnfinished DEF J!Start
    <3>4. step[j] = "asked" /\ (step'[j] = "queued" /\ ~ J!Finished(j) => j \in jobs')
      BY <2>1, <3>1, MapKeepsUnfinished DEF J!Start, J!Goto, J!TypeOK
    <3>. QED
      BY <3>1, <3>2, <3>3, <3>4
      DEF InMap, J!TypeOK, J!Finished, J!Working, J!Holding, J!Attempting, J!Publishing
  <2>2. CASE ~ J!Start(j)
    <3>1. jobs' = jobs
      BY <2>2 DEF J!AskImport, J!Delete, J!Run, J!TakeSlot, J!SetRunning, J!Attempt, J!Clone, J!Check, J!Claim,
                  J!Insert, J!RemoveClaim, J!Rename, J!AbandonRow, J!AbandonDir, J!RemoveTemp, J!Finish,
                  J!ReleaseSlot, J!mapVars
    <3>2. CASE k # j
      BY <3>1, <3>2, OneJob DEF InMap, J!Finished
    <3>3. CASE k = j
      <4>. USE <3>3 DEF J!TypeOK, J!Goto, J!mapVars, J!Working, J!Holding, J!Attempting, J!Publishing,
                        J!Finished, InMap
      <4>1. CASE J!AskImport(j) \/ J!Delete(j) \/ J!TakeSlot(j) \/ J!ReleaseSlot(j) \/ J!RemoveTemp(j)
        BY <4>1 DEF J!AskImport, J!Delete, J!TakeSlot, J!ReleaseSlot, J!RemoveTemp
      <4>2. CASE J!SetRunning(j)
        BY <4>2 DEF J!SetRunning
      <4>3. CASE J!Finish(j)
        BY <4>3 DEF J!Finish
      <4>4. CASE J!Clone(j) \/ J!Check(j) \/ J!Claim(j) \/ J!Insert(j)
        BY <4>4 DEF J!Clone, J!Check, J!Claim, J!Insert
      <4>5. CASE J!RemoveClaim(j) \/ J!Rename(j) \/ J!AbandonRow(j) \/ J!AbandonDir(j)
        BY <4>5 DEF J!RemoveClaim, J!Rename, J!AbandonRow, J!AbandonDir
      <4>. QED
        BY <2>2, <4>1, <4>2, <4>3, <4>4, <4>5 DEF J!Run, J!Attempt
    <3>. QED
      BY <3>2, <3>3
  <2>. QED
    BY <2>1, <2>2
<1>2. CASE J!Get
  BY <1>2, MapKeepsUnfinished, MapOnlyShrinks DEF J!Get, InMap, J!Finished
<1>3. CASE J!AnHourPasses \/ UNCHANGED J!vars
  BY <1>3 DEF J!AnHourPasses, J!vars, J!mapVars, InMap, J!Finished
<1>4. CASE J!Restart
  BY <1>4 DEF J!Restart, InMap, J!Finished, J!Working, J!Holding, J!Attempting, J!Publishing
<1>. QED
  BY <1>1, <1>2, <1>3, <1>4 DEF J!Next

\* The order in which jobs ended is a number for each of them, and a slot is
\* only given back by who took it.
LEMMA ImportTypes ==
  ASSUME ImportLimits, ImportsInv, [J!Next]_(J!vars)
  PROVE  J!TypeOK'
<1>. J!TypeOK
  BY DEF ImportsInv
<1>. USE DEF J!TypeOK, J!mapVars, J!repoVars
<1>1. CASE \E j \in Import : J!AskImport(j) \/ J!Start(j) \/ J!Run(j) \/ J!Delete(j)
  <2>. PICK j \in Import : J!AskImport(j) \/ J!Start(j) \/ J!Run(j) \/ J!Delete(j)
    BY <1>1
  <2>. step' \in [Import -> {"new", "asked", "queued", "over"} \cup J!Holding]
    BY OneStep
  <2>1. CASE J!AskImport(j) \/ J!Delete(j)
    BY <2>1 DEF J!AskImport, J!Delete
  <2>2. CASE J!Start(j)
    BY <2>2, MapOnlyShrinks DEF J!Start
  <2>3. CASE J!Run(j)
    <3>. /\ user' = user /\ jobs' = jobs /\ old' = old /\ crashes' = crashes
      BY <2>3 DEF J!Run, J!TakeSlot, J!SetRunning, J!Attempt, J!Clone, J!Check, J!Claim,
                  J!Insert, J!RemoveClaim, J!Rename, J!AbandonRow, J!AbandonDir, J!RemoveTemp, J!Finish,
                  J!ReleaseSlot
    <3>1. CASE J!TakeSlot(j)
      BY <3>1 DEF J!TakeSlot, ImportLimits
    <3>2. CASE J!ReleaseSlot(j)
      <4>1. slots > 0
        BY <3>2, OneMoves DEF J!ReleaseSlot, J!Goto, ImportsInv, SlotsHeld, J!Holding
      <4>. QED
        BY <3>2, <4>1 DEF J!ReleaseSlot, ImportLimits
    <3>3. CASE J!Finish(j)
      <4>. PICK over : over = {k \in Import : ended[k] > 0}
        OBVIOUS
      <4>1. ended[j] = 0
        BY <3>3 DEF J!Finish, ImportsInv, InMap, J!Working, J!Holding
      <4>2. IsFiniteSet(Import \ {j}) /\ Cardinality(Import \ {j}) = Cardinality(Import) - 1
        BY FS_RemoveElement DEF ImportLimits
      <4>3. over \subseteq Import \ {j}
        BY <4>1
      <4>4. /\ Cardinality(over) <= Cardinality(Import \ {j})
            /\ Cardinality(over) \in Nat /\ Cardinality(Import) \in Nat
        BY <4>2, <4>3, FS_Subset, FS_CardinalityType DEF ImportLimits
      <4>5. 1 + J!Cardinality(over) \in 0..J!Cardinality(Import)
        BY <4>2, <4>4, SameCardinality
      <4>6. ended' \in [Import -> 0..J!Cardinality(Import)]
        BY <3>3, <4>5 DEF J!Finish
      <4>. QED
        BY <3>3, <4>6 DEF J!Finish
    <3>4. CASE J!SetRunning(j) \/ J!Clone(j) \/ J!Check(j)
      BY <3>4 DEF J!SetRunning, J!Clone, J!Check
    <3>5. CASE J!Claim(j)
      BY <3>5 DEF J!Claim
    <3>6. CASE J!Insert(j) \/ J!RemoveTemp(j) \/ J!AbandonRow(j)
      BY <3>6 DEF J!Insert, J!RemoveTemp, J!AbandonRow
    <3>7. CASE J!RemoveClaim(j)
      BY <3>7 DEF J!RemoveClaim
    <3>8. CASE J!Rename(j)
      BY <3>8 DEF J!Rename
    <3>9. CASE J!AbandonDir(j)
      BY <3>9 DEF J!AbandonDir
    <3>. QED
      BY <2>3, <3>1, <3>2, <3>3, <3>4, <3>5, <3>6, <3>7, <3>8, <3>9 DEF J!Run, J!Attempt
  <2>. QED
    BY <2>1, <2>2, <2>3
<1>2. CASE J!Get
  BY <1>2, MapOnlyShrinks DEF J!Get
<1>3. CASE J!AnHourPasses \/ UNCHANGED J!vars
  BY <1>3 DEF J!AnHourPasses, J!vars
<1>4. CASE J!Restart
  BY <1>4 DEF J!Restart, ImportLimits
<1>. QED
  BY <1>1, <1>2, <1>3, <1>4 DEF J!Next

\* Every step keeps the invariant.
LEMMA ImportsStep ==
  ASSUME ImportLimits, ImportsInv, [J!Next]_(J!vars)
  PROVE  ImportsInv'
<1>1. J!TypeOK' /\ SlotsHeld'
  BY ImportTypes, SlotsStep
<1>2. QuotaKept'
  BY <1>1, QuotaStep DEF J!TypeOK
<1>. QED
  BY <1>1, <1>2, PerUserStep, InMapStep, MadeStep DEF ImportsInv

LEMMA ImportsInit ==
  ASSUME ImportLimits, J!Init
  PROVE  ImportsInv
<1>1. At(J!Holding) = {} /\ ToInsert = {} /\ \A u : WorkingFor(u) = {}
  BY DEF J!Init, At, ToInsert, WorkingFor, J!Holding, J!Working, J!Attempting, J!Publishing
<1>2. SlotsHeld /\ PerUserKept /\ QuotaKept
  BY <1>1, FS_EmptySet DEF SlotsHeld, PerUserKept, QuotaKept, J!Init, ImportLimits
<1>3. J!Cardinality(Import) \in Nat
  BY SameCardinality, FS_CardinalityType DEF ImportLimits
<1>4. J!TypeOK
  BY <1>3 DEF J!Init, J!TypeOK, ImportLimits
<1>5. \A j \in Import : InMap(j) /\ Made(j)
  BY DEF J!Init, InMap, Made, J!Finished, J!Working, J!Holding, J!Attempting, J!Publishing
<1>. QED
  BY <1>2, <1>4, <1>5 DEF ImportsInv

\* What the properties take from the invariant
LEMMA ImportsPromise ==
  ASSUME ImportLimits, ImportsInv
  PROVE  J!RunsPerUser /\ J!UnfinishedJobsEnd /\ J!QuotaOvershoot /\ J!AllOrNothing
<1>1. J!RunsPerUser
  <2>1. \A u \in User : J!Cardinality(WorkingFor(u)) <= PerUser
    BY SameCardinality DEF ImportsInv, PerUserKept
  <2>. QED
    BY <2>1 DEF WorkingFor, J!RunsPerUser
<1>2. J!UnfinishedJobsEnd
  <2>1. slots = J!Cardinality(At(J!Holding))
    BY SameCardinality DEF ImportsInv, SlotsHeld
  <2>2. \A j \in jobs : J!Finished(j) \/ step[j] \in J!Working
    BY DEF ImportsInv, InMap, J!TypeOK
  <2>. QED
    BY <2>1, <2>2 DEF At, J!UnfinishedJobsEnd
<1>3. J!QuotaOvershoot
  <2>1. /\ Cardinality(repos) \in Nat /\ Cardinality(ToInsert) \in Nat
        /\ Cardinality(repos) + Cardinality(ToInsert) <= MaxRepos + Slots - 1
        /\ MaxRepos \in Nat /\ Slots \in Nat
    BY FS_Subset, FS_CardinalityType DEF ImportLimits, ImportsInv, J!TypeOK, QuotaKept, ToInsert, At
  <2>2. J!Cardinality(repos) = Cardinality(repos)
    BY SameCardinality
  <2>. QED
    BY <2>1, <2>2 DEF J!QuotaOvershoot
<1>4. J!AllOrNothing
  <2>1. ASSUME NEW j \in Import \ torn, step[j] \notin J!Working
        PROVE  (j \in repos <=> J!Published(j)) /\ j \notin temp
    <3>1. step[j] \in {"new", "asked", "release", "over"}
      BY <2>1 DEF ImportsInv, J!TypeOK, J!Working, J!Holding
    <3>. QED
      BY <2>1, <3>1 DEF ImportsInv, Made, J!Published
  <2>. QED
    BY <2>1 DEF J!AllOrNothing
<1>. QED
  BY <1>1, <1>2, <1>3, <1>4

LEMMA ImportsAlways ==
  ASSUME ImportLimits
  PROVE  J!Spec => []ImportsInv
<1>1. J!Init => ImportsInv
  BY ImportsInit
<1>2. ImportsInv /\ [J!Next]_(J!vars) => ImportsInv'
  BY ImportsStep
<1>. QED
  BY <1>1, <1>2, PTL DEF J!Spec

\* No more imports of one user wait or run than the limit, whatever the map
\* has swept and evicted.
THEOREM ImportsPerUserAreLimited ==
  ASSUME ImportLimits
  PROVE  J!Spec => []J!RunsPerUser
<1>1. ImportsInv => J!RunsPerUser
  BY ImportsPromise
<1>. QED
  BY <1>1, ImportsAlways, PTL

\* An unfinished job has a goroutine that works on it, and a slot is taken
\* only while its goroutine is there to give it back.
THEOREM SlotsAreGivenBack ==
  ASSUME ImportLimits
  PROVE  J!Spec => []J!UnfinishedJobsEnd
<1>1. ImportsInv => J!UnfinishedJobsEnd
  BY ImportsPromise
<1>. QED
  BY <1>1, ImportsAlways, PTL

\* Imports that pass the quota together overshoot it by less than run at once.
THEOREM QuotaIsNearlyKept ==
  ASSUME ImportLimits
  PROVE  J!Spec => []J!QuotaOvershoot
<1>1. ImportsInv => J!QuotaOvershoot
  BY ImportsPromise
<1>. QED
  BY <1>1, ImportsAlways, PTL

\* An import leaves a repository with its data, or no row and no clone,
\* wherever it fails, unless its cleanup was cut short.
THEOREM ImportsUndoTheirWork ==
  ASSUME ImportLimits
  PROVE  J!Spec => []J!AllOrNothing
<1>1. ImportsInv => J!AllOrNothing
  BY ImportsPromise
<1>. QED
  BY <1>1, ImportsAlways, PTL
-----------------------------------------------------------------------------
(***************************************************************************)
(* Images.  Tasks list rows first and remove one attachment after another  *)
(* later: what a list holds had a row and, while there is a repository,    *)
(* was idle, whatever was written since.                                   *)
(***************************************************************************)
CONSTANTS Attachment, Sweeper
VARIABLES repo, upload, objects, rows, aged, inBody, sweep, idle, rowed

A == INSTANCE AttachmentSweep

\* The row comes after the object, which stays until then.
UploadsInOrder ==
  \A a \in Attachment :
    /\ a \in rowed => upload[a] \in {"clean", "ok", "failed"}
    /\ upload[a] = "create" => a \in objects

\* Tasks remove what had a row, and while there is a repository only what was
\* idle; an object that is gone doesn't come back.
SweepsInOrder ==
  \A s \in Sweeper :
    /\ sweep[s].list \cup sweep[s].removed \subseteq rowed
    /\ repo # "gone" => sweep[s].list \cup sweep[s].removed \subseteq idle
    /\ sweep[s].removed \cap objects = {}

ImagesInv == A!TypeOK /\ A!KeptWhileUsed /\ A!ObjectKeepsRow /\ UploadsInOrder /\ SweepsInOrder

LEMMA ImagesInit == A!Init => ImagesInv
BY DEF A!Init, ImagesInv, A!TypeOK, A!KeptWhileUsed, A!ObjectKeepsRow, UploadsInOrder, SweepsInOrder, A!Off

\* The history of idle attachments.
LEMMA IdleGrows ==
  ASSUME A!TypeOK, aged \subseteq aged', aged' \subseteq rowed', idle' = idle \cup (aged' \ inBody')
  PROVE  idle \subseteq idle' /\ idle' \subseteq aged' /\ aged' \ inBody' \subseteq idle'
BY DEF A!TypeOK

\* Steps of users and of the repository's row leave uploads, files and sweeps.
LEMMA BodiesAndRow ==
  ASSUME ImagesInv, idle' = idle \cup (aged' \ inBody'),
         UNCHANGED <<upload, objects, rows, rowed, sweep>>,
         aged \subseteq aged', aged' \subseteq rowed, inBody' \subseteq Attachment,
         repo' \in {"live", "deleted", "gone"}, repo = "gone" => repo' = "gone"
  PROVE  ImagesInv'
<1>1. idle \subseteq idle' /\ idle' \subseteq aged'
  BY IdleGrows DEF ImagesInv
<1>2. A!TypeOK'
  BY <1>1 DEF ImagesInv, A!TypeOK
<1>3. A!KeptWhileUsed' /\ A!ObjectKeepsRow' /\ UploadsInOrder'
  BY <1>1 DEF ImagesInv, A!KeptWhileUsed, A!ObjectKeepsRow, UploadsInOrder
<1>4. SweepsInOrder'
  BY <1>1 DEF ImagesInv, SweepsInOrder
<1> QED
  BY <1>2, <1>3, <1>4 DEF ImagesInv

LEMMA UploadStep ==
  ASSUME ImagesInv, idle' = idle \cup (aged' \ inBody'), NEW a \in Attachment, A!Upload(a)
  PROVE  ImagesInv'
<1>1. UNCHANGED <<repo, aged, inBody, sweep>> /\ rowed \subseteq rowed'
  BY DEF A!Upload, A!BeginUpload, A!Put, A!Create, A!Clean, A!fileVars
<1>2. idle \subseteq idle' /\ idle' \subseteq aged
  BY <1>1 DEF ImagesInv, A!TypeOK
<1>3. /\ upload' \in [Attachment -> {"none", "put", "create", "clean", "ok", "failed"}]
      /\ \A b \in Attachment \ {a} : upload'[b] = upload[b]
      /\ objects' \subseteq Attachment /\ objects' \ {a} = objects \ {a}
      /\ rows \subseteq rows' /\ rowed' \subseteq rowed \cup {a} /\ rows' \subseteq rowed'
  BY DEF ImagesInv, A!TypeOK, A!Upload, A!BeginUpload, A!Put, A!Create, A!Clean, A!Goto, A!fileVars
<1>4. A!TypeOK'
  BY <1>1, <1>2, <1>3 DEF ImagesInv, A!TypeOK
<1>5. CASE A!BeginUpload(a) \/ A!Put(a)
  <2>1. /\ upload[a] \in {"none", "put"} /\ upload'[a] \in {"put", "create", "failed"}
        /\ UNCHANGED <<rows, rowed>> /\ objects \subseteq objects'
        /\ upload'[a] = "create" => a \in objects'
    BY <1>5 DEF ImagesInv, A!TypeOK, A!BeginUpload, A!Put, A!Goto, A!fileVars
  <2>2. a \notin rowed
    BY <2>1 DEF ImagesInv, UploadsInOrder
  <2>3. A!KeptWhileUsed' /\ A!ObjectKeepsRow' /\ UploadsInOrder'
    BY <1>1, <1>2, <1>3, <2>1, <2>2 DEF ImagesInv, A!KeptWhileUsed, A!ObjectKeepsRow, UploadsInOrder
  <2>4. SweepsInOrder'
    BY <1>1, <1>2, <1>3, <2>1, <2>2 DEF ImagesInv, SweepsInOrder
  <2> QED
    BY <1>4, <2>3, <2>4 DEF ImagesInv
<1>6. CASE A!Create(a)
  <2>1. /\ upload[a] = "create" /\ upload'[a] \in {"ok", "clean"}
        /\ UNCHANGED objects /\ rows' \subseteq rows \cup {a} /\ rowed' = rowed \cup rows'
        /\ upload'[a] = "ok" => a \in rows'
    BY <1>6 DEF ImagesInv, A!TypeOK, A!Create, A!Goto
  <2>2. a \notin rowed /\ a \in objects
    BY <2>1 DEF ImagesInv, UploadsInOrder
  <2>3. A!KeptWhileUsed' /\ A!ObjectKeepsRow' /\ UploadsInOrder'
    BY <1>1, <1>2, <1>3, <2>1, <2>2 DEF ImagesInv, A!KeptWhileUsed, A!ObjectKeepsRow, UploadsInOrder
  <2>4. SweepsInOrder'
    BY <1>1, <1>2, <2>1 DEF ImagesInv, SweepsInOrder
  <2> QED
    BY <1>4, <2>3, <2>4 DEF ImagesInv
<1>7. CASE A!Clean(a)
  <2>1. /\ upload[a] = "clean" /\ upload'[a] = "failed"
        /\ UNCHANGED <<rows, rowed>> /\ objects' \subseteq objects
    BY <1>7 DEF ImagesInv, A!TypeOK, A!Clean, A!Goto
  <2>2. A!KeptWhileUsed' /\ A!ObjectKeepsRow' /\ UploadsInOrder'
    BY <1>1, <1>2, <1>3, <2>1 DEF ImagesInv, A!KeptWhileUsed, A!ObjectKeepsRow, UploadsInOrder
  <2>3. SweepsInOrder'
    BY <1>1, <1>2, <2>1 DEF ImagesInv, SweepsInOrder
  <2> QED
    BY <1>4, <2>2, <2>3 DEF ImagesInv
<1> QED
  BY <1>5, <1>6, <1>7 DEF A!Upload

\* A task takes what is in the table, idle while there is a repository.
LEMMA ListStep ==
  ASSUME ImagesInv, idle' = idle \cup (aged' \ inBody'), NEW s \in Sweeper,
         NEW list \in SUBSET rows, sweep[s] = A!Off,
         sweep' = [sweep EXCEPT ![s].list = list],
         UNCHANGED <<upload, objects, rows, rowed, aged>>,
         inBody' \subseteq Attachment,
         repo' \in {"live", "deleted", "gone"}, repo = "gone" => repo' = "gone",
         repo' # "gone" => list \subseteq idle'
  PROVE  ImagesInv'
<1>1. idle \subseteq idle' /\ idle' \subseteq aged
  BY DEF ImagesInv, A!TypeOK
<1>2. /\ sweep' \in [Sweeper -> [list : SUBSET Attachment, removed : SUBSET Attachment]]
      /\ sweep'[s].list = list /\ sweep'[s].removed = {}
      /\ \A t \in Sweeper \ {s} : sweep'[t] = sweep[t]
  BY DEF ImagesInv, A!TypeOK, A!Off
<1>3. A!TypeOK'
  BY <1>1, <1>2 DEF ImagesInv, A!TypeOK
<1>4. A!KeptWhileUsed' /\ A!ObjectKeepsRow' /\ UploadsInOrder'
  BY <1>1 DEF ImagesInv, A!KeptWhileUsed, A!ObjectKeepsRow, UploadsInOrder
<1>5. list \subseteq rowed
  BY DEF ImagesInv, A!TypeOK
<1>6. SweepsInOrder'
  BY <1>1, <1>2, <1>5 DEF ImagesInv, SweepsInOrder
<1> QED
  BY <1>3, <1>4, <1>6 DEF ImagesInv

LEMMA PurgeStep ==
  ASSUME ImagesInv, idle' = idle \cup (aged' \ inBody'), NEW s \in Sweeper, A!PurgeExpired(s)
  PROVE  ImagesInv'
<1>1. /\ UNCHANGED <<upload, objects, rows, rowed, aged>> /\ sweep[s] = A!Off
      /\ repo' = "gone" /\ inBody' \subseteq Attachment
  BY DEF ImagesInv, A!TypeOK, A!PurgeExpired, A!RowGoes, A!fileVars
<1>2. CASE sweep' = [sweep EXCEPT ![s].list = rows]
  BY <1>1, <1>2, ListStep
<1>3. CASE UNCHANGED sweep
  BY <1>1, <1>3, BodiesAndRow DEF ImagesInv, A!TypeOK
<1> QED
  BY <1>2, <1>3 DEF A!PurgeExpired

LEMMA ListSweepableStep ==
  ASSUME ImagesInv, idle' = idle \cup (aged' \ inBody'), NEW s \in Sweeper, A!ListSweepable(s)
  PROVE  ImagesInv'
<1>1. PICK list \in SUBSET A!Sweepable : sweep' = [sweep EXCEPT ![s].list = list]
  BY DEF A!ListSweepable
<1>2. /\ UNCHANGED <<repo, upload, objects, rows, rowed, aged, inBody>> /\ sweep[s] = A!Off
      /\ list \subseteq rows /\ (repo # "gone" => list \subseteq idle')
  BY <1>1 DEF A!ListSweepable, A!Sweepable, A!fileVars
<1>3. inBody' \subseteq Attachment /\ repo' \in {"live", "deleted", "gone"} /\ list \in SUBSET rows
  BY <1>2 DEF ImagesInv, A!TypeOK
<1> QED
  BY <1>1, <1>2, <1>3, ListStep

LEMMA RemoveObjectStep ==
  ASSUME ImagesInv, idle' = idle \cup (aged' \ inBody'), NEW s \in Sweeper, A!RemoveObject(s)
  PROVE  ImagesInv'
<1>1. PICK a \in sweep[s].list :
        /\ sweep[s].removed = {}
        /\ \/ /\ objects' = objects \ {a}
              /\ sweep' = [sweep EXCEPT ![s] = [list |-> @.list \ {a}, removed |-> {a}]]
           \/ /\ objects' \in {objects, objects \ {a}}
              /\ sweep' = [sweep EXCEPT ![s].list = @ \ {a}]
        /\ UNCHANGED <<repo, upload, rows, rowed, aged, inBody>>
  BY DEF A!RemoveObject
<1>2. a \in Attachment /\ a \in rowed /\ upload[a] # "create" /\ (repo # "gone" => a \in idle)
  BY DEF ImagesInv, A!TypeOK, SweepsInOrder, UploadsInOrder
<1>3. idle \subseteq idle' /\ idle' \subseteq aged
  BY <1>1 DEF ImagesInv, A!TypeOK
<1>4. /\ sweep' \in [Sweeper -> [list : SUBSET Attachment, removed : SUBSET Attachment]]
      /\ \A t \in Sweeper \ {s} : sweep'[t] = sweep[t]
      /\ sweep'[s].list \subseteq sweep[s].list
      /\ sweep'[s].removed = {} \/ (sweep'[s].removed = {a} /\ a \notin objects')
      /\ objects' \subseteq objects /\ objects \ {a} \subseteq objects'
  BY <1>1, <1>2 DEF ImagesInv, A!TypeOK
<1>5. A!TypeOK'
  BY <1>1, <1>3, <1>4 DEF ImagesInv, A!TypeOK
<1>6. A!KeptWhileUsed' /\ A!ObjectKeepsRow' /\ UploadsInOrder'
  BY <1>1, <1>2, <1>3, <1>4 DEF ImagesInv, A!KeptWhileUsed, A!ObjectKeepsRow, UploadsInOrder
<1>7. SweepsInOrder'
  BY <1>1, <1>2, <1>3, <1>4 DEF ImagesInv, SweepsInOrder
<1> QED
  BY <1>5, <1>6, <1>7 DEF ImagesInv

LEMMA RemoveRowStep ==
  ASSUME ImagesInv, idle' = idle \cup (aged' \ inBody'), NEW s \in Sweeper, A!RemoveRow(s)
  PROVE  ImagesInv'
<1>1. /\ rows' \subseteq rows /\ rows \ sweep[s].removed \subseteq rows'
      /\ sweep' = [sweep EXCEPT ![s].removed = {}]
      /\ UNCHANGED <<repo, upload, objects, rowed, aged, inBody>>
  BY DEF A!RemoveRow
<1>2. idle \subseteq idle' /\ idle' \subseteq aged
  BY <1>1 DEF ImagesInv, A!TypeOK
<1>3. /\ sweep' \in [Sweeper -> [list : SUBSET Attachment, removed : SUBSET Attachment]]
      /\ \A t \in Sweeper : sweep'[t].list = sweep[t].list /\ sweep'[t].removed \subseteq sweep[t].removed
  BY <1>1 DEF ImagesInv, A!TypeOK
<1>4. A!TypeOK'
  BY <1>1, <1>2, <1>3 DEF ImagesInv, A!TypeOK
<1>5. sweep[s].removed \cap objects = {} /\ (repo # "gone" => sweep[s].removed \subseteq idle)
  BY DEF ImagesInv, SweepsInOrder
<1>6. A!KeptWhileUsed' /\ A!ObjectKeepsRow' /\ UploadsInOrder'
  BY <1>1, <1>2, <1>5 DEF ImagesInv, A!KeptWhileUsed, A!ObjectKeepsRow, UploadsInOrder
<1>7. SweepsInOrder'
  BY <1>1, <1>2, <1>3 DEF ImagesInv, SweepsInOrder
<1> QED
  BY <1>4, <1>6, <1>7 DEF ImagesInv

LEMMA UploadsCutStep ==
  ASSUME ImagesInv, idle' = idle \cup (aged' \ inBody'), A!Restart
  PROVE  ImagesInv'
<1>1. /\ UNCHANGED <<repo, objects, rows, rowed, aged, inBody>>
      /\ upload' \in [Attachment -> {"none", "put", "create", "clean", "ok", "failed"}]
      /\ \A a \in Attachment : upload'[a] = upload[a] \/ upload'[a] = "failed"
  BY DEF ImagesInv, A!TypeOK, A!Restart, A!fileVars
<1>2. /\ sweep' \in [Sweeper -> [list : SUBSET Attachment, removed : SUBSET Attachment]]
      /\ \A s \in Sweeper : sweep'[s].list = {} /\ sweep'[s].removed = {}
  BY DEF A!Restart, A!Off
<1>3. idle \subseteq idle' /\ idle' \subseteq aged
  BY <1>1 DEF ImagesInv, A!TypeOK
<1>4. A!TypeOK'
  BY <1>1, <1>2, <1>3 DEF ImagesInv, A!TypeOK
<1>5. A!KeptWhileUsed' /\ A!ObjectKeepsRow' /\ UploadsInOrder'
  BY <1>1, <1>3 DEF ImagesInv, A!KeptWhileUsed, A!ObjectKeepsRow, UploadsInOrder
<1>6. SweepsInOrder'
  BY <1>2 DEF SweepsInOrder
<1> QED
  BY <1>4, <1>5, <1>6 DEF ImagesInv

LEMMA ImagesStep == ImagesInv /\ [A!Next]_(A!vars) => ImagesInv'
<1> SUFFICES ASSUME ImagesInv, [A!Next]_(A!vars) PROVE ImagesInv'
  OBVIOUS
<1>1. CASE A!Next
  <2>1. idle' = idle \cup (aged' \ inBody')
    BY <1>1 DEF A!Next
  <2>2. ASSUME NEW a \in Attachment, A!Upload(a) PROVE ImagesInv'
    BY <2>1, <2>2, UploadStep
  <2>3. ASSUME NEW a \in Attachment, A!Write(a) \/ A!Erase(a) \/ A!Age(a) PROVE ImagesInv'
    BY <2>1, <2>3, BodiesAndRow DEF A!Write, A!Erase, A!Age, A!fileVars, ImagesInv, A!TypeOK
  <2>4. ASSUME NEW s \in Sweeper, A!Remove(s) PROVE ImagesInv'
    BY <2>1, <2>4, PurgeStep, ListSweepableStep, RemoveObjectStep, RemoveRowStep DEF A!Remove
  <2>5. CASE A!SoftDelete \/ A!Restore \/ A!DeleteOwner
    BY <2>1, <2>5, BodiesAndRow DEF A!SoftDelete, A!Restore, A!DeleteOwner, A!RowGoes, A!fileVars, ImagesInv, A!TypeOK
  <2>6. CASE A!Restart
    BY <2>1, <2>6, UploadsCutStep
  <2> QED
    BY <1>1, <2>2, <2>3, <2>4, <2>5, <2>6 DEF A!Next, A!Step
<1>2. CASE UNCHANGED (A!vars)
  BY <1>2 DEF A!vars, A!fileVars, ImagesInv, A!TypeOK, A!KeptWhileUsed, A!ObjectKeepsRow, UploadsInOrder, SweepsInOrder
<1> QED
  BY <1>1, <1>2

\* Types, and the order of rows, ages and idleness.
THEOREM ImageTypes == A!Spec => []A!TypeOK
<1>1. ImagesInv => A!TypeOK
  BY DEF ImagesInv
<1> QED
  BY ImagesInit, ImagesStep, <1>1, PTL DEF A!Spec

\* AttachmentService.Sweep lists and removes in separate steps: still an image
\* that a body has held since its grace is never taken from a repository.
THEOREM UsedImagesStay == A!Spec => []A!KeptWhileUsed
<1>1. ImagesInv => A!KeptWhileUsed
  BY DEF ImagesInv
<1> QED
  BY ImagesInit, ImagesStep, <1>1, PTL DEF A!Spec

\* AttachmentService.remove deletes the object first: whatever fails, an object
\* that had a row is never left without one.
THEOREM NoStrandedObject == A!Spec => []A!ObjectKeepsRow
<1>1. ImagesInv => A!ObjectKeepsRow
  BY DEF ImagesInv
<1> QED
  BY ImagesInit, ImagesStep, <1>1, PTL DEF A!Spec
=============================================================================
