------------------------ MODULE RequestHandlers_proofs ------------------------
(***************************************************************************)
(* Theorems about two services whose requests look first and write later:  *)
(* the links mailed to accounts (A), and device logins (D).  They share no *)
(* state; each has its section.                                            *)
(***************************************************************************)
EXTENDS Naturals, TLAPS

-----------------------------------------------------------------------------
(***************************************************************************)
(* Links, for any users, addresses, links and requests.  What a link was   *)
(* made for is remembered, so that a row, and what a request read of it,   *)
(* can be held against it.                                                 *)
(***************************************************************************)
CONSTANTS User, Address, Link, Handler, MaxVersion
VARIABLES email, verified, version, suspended, google, reset, verify, spent, request,
          made, proven, resets

A == INSTANCE AccountLinks

\* No link is issued twice.
LinksDiffer == \A m, n \in made : m.link = n.link => m = n

\* A row's link went to the mailbox that the row says, unless it was handed
\* over, and is good for the version that the row says.
RowsAsMade ==
  /\ \A t \in reset : \E m \in made :
       m.link = t.link /\ m.under = {t.version} /\ (t.by = "email" => t.email \in m.to)
  /\ \A t \in verify : \E m \in made : m.link = t.link /\ t.email \in m.to

\* What reset a password is spent.
ResetsSpent == \A r \in resets : r.link \in spent /\ ~ A!Fresh(r.link)

LinksInv == A!TypeOK /\ A!AddressesProven /\ A!ResetsWorkOnce /\ LinksDiffer /\ RowsAsMade /\ ResetsSpent

LEMMA LinksInit == A!Init => LinksInv
<1> SUFFICES ASSUME A!Init PROVE LinksInv
  OBVIOUS
<1>1. 0 \in A!Version
  BY DEF A!Version
<1> QED
  BY <1>1 DEF A!Init, LinksInv, A!TypeOK, A!AddressesProven, A!ResetsWorkOnce, LinksDiffer, RowsAsMade, ResetsSpent

LEMMA IdleHasNoOp == A!Idle.op = "idle"
BY DEF A!Idle

\* What a request that looked at a row holds
LEMMA Looked ==
  ASSUME A!TypeOK, NEW h \in Handler, request[h].op \in {"forgot", "profile", "vouch", "google"}
  PROVE  request[h] \in A!Look /\ request[h].user \in User /\ request[h].email \in Address
<1>1. request[h] \in A!Look \cup A!Hand \cup A!Open
  BY IdleHasNoOp DEF A!TypeOK
<1> QED
  BY <1>1 DEF A!Look, A!Hand, A!Open

LEMMA Issuing ==
  ASSUME A!TypeOK, NEW h \in Handler, request[h].op \in {"forgot", "hand"}
  PROVE  request[h].user \in User
<1>1. request[h] \in A!Look \cup A!Hand \cup A!Open
  BY IdleHasNoOp DEF A!TypeOK
<1> QED
  BY <1>1 DEF A!Look, A!Hand, A!Open

LEMMA EndTypes ==
  ASSUME A!TypeOK, NEW h \in Handler, A!End(h)
  PROVE  request' \in [Handler -> {A!Idle} \cup A!Look \cup A!Hand \cup A!Open]
BY DEF A!TypeOK, A!End

LEMMA LookTypes ==
  ASSUME NEW op \in {"forgot", "profile", "vouch", "google"}, NEW u \in User, NEW a \in Address
  PROVE  [op |-> op, user |-> u, email |-> a] \in A!Look
BY DEF A!Look

\* Requests that only look
LEMMA BeginStep ==
  ASSUME LinksInv, NEW h \in Handler, NEW r \in A!Look \cup A!Hand \cup A!Open, A!Begin(h, r)
  PROVE  LinksInv'
<1>1. request' \in [Handler -> {A!Idle} \cup A!Look \cup A!Hand \cup A!Open]
  BY DEF A!Begin, LinksInv, A!TypeOK
<1>2. UNCHANGED <<A!rowVars, A!linkVars, A!historyVars>>
  BY DEF A!Begin
<1>3. A!TypeOK'
  BY <1>1, <1>2 DEF A!rowVars, A!linkVars, A!historyVars, LinksInv, A!TypeOK
<1>4. A!AddressesProven' /\ A!ResetsWorkOnce' /\ LinksDiffer' /\ RowsAsMade' /\ ResetsSpent'
  BY <1>2 DEF A!rowVars, A!linkVars, A!historyVars, LinksInv, A!AddressesProven, A!ResetsWorkOnce, LinksDiffer,
              RowsAsMade, ResetsSpent, A!Fresh
<1> QED
  BY <1>3, <1>4 DEF LinksInv

LEMMA AskStep ==
  ASSUME LinksInv, NEW h \in Handler, A!Ask(h)
  PROVE  LinksInv'
<1>1. email \in [User -> Address] /\ reset \subseteq A!Reset
  BY DEF LinksInv, A!TypeOK
<1>2. ASSUME NEW u \in User, A!RequestReset(h, u) \/ A!IssueLink(h, u) \/ A!MarkVerified(h, u) \/ A!AuthenticateOAuth(h, u)
      PROVE  LinksInv'
  <2>1. email[u] \in Address /\ [op |-> "hand", user |-> u] \in A!Hand
    BY <1>1 DEF A!Hand
  <2>2. CASE A!RequestReset(h, u)
    BY <2>1, <2>2, LookTypes, BeginStep DEF A!RequestReset, A!LookAt
  <2>3. CASE A!IssueLink(h, u)
    BY <2>1, <2>3, BeginStep DEF A!IssueLink
  <2>4. CASE A!MarkVerified(h, u)
    BY <2>1, <2>4, LookTypes, BeginStep DEF A!MarkVerified, A!LookAt
  <2>5. CASE A!AuthenticateOAuth(h, u)
    BY <2>1, <2>5, LookTypes, BeginStep DEF A!AuthenticateOAuth, A!LookAt
  <2> QED
    BY <1>2, <2>2, <2>3, <2>4, <2>5
<1>3. ASSUME NEW u \in User, NEW a \in Address, A!AskProfile(h, u, a)
      PROVE  LinksInv'
  BY <1>3, LookTypes, BeginStep DEF A!AskProfile, A!LookAt
<1>4. ASSUME NEW t \in reset, A!OpenReset(h, t)
      PROVE  LinksInv'
  <2>1. [op |-> "reset", user |-> t.user, link |-> t.link] \in A!Open
    BY <1>1 DEF A!Reset, A!Open
  <2> QED
    BY <1>4, <2>1, BeginStep DEF A!OpenReset
<1> QED
  BY <1>2, <1>3, <1>4 DEF A!Ask

LEMMA GiveUpStep ==
  ASSUME LinksInv, NEW h \in Handler, A!GiveUp(h)
  PROVE  LinksInv'
<1>1. UNCHANGED <<A!rowVars, A!linkVars, A!historyVars>>
  BY DEF A!GiveUp
<1>2. A!TypeOK'
  BY <1>1, EndTypes DEF A!GiveUp, A!rowVars, A!linkVars, A!historyVars, LinksInv, A!TypeOK
<1>3. A!AddressesProven' /\ A!ResetsWorkOnce' /\ LinksDiffer' /\ RowsAsMade' /\ ResetsSpent'
  BY <1>1 DEF A!rowVars, A!linkVars, A!historyVars, LinksInv, A!AddressesProven, A!ResetsWorkOnce, LinksDiffer,
              RowsAsMade, ResetsSpent, A!Fresh
<1> QED
  BY <1>2, <1>3 DEF LinksInv

\* A fresh link leaves what is known of the others.
LEMMA IssuedKeeps ==
  ASSUME LinksInv, NEW l \in Link, A!Fresh(l), NEW m, m.link = l, made' = made \cup {m},
         UNCHANGED <<spent, resets>>
  PROVE  LinksDiffer' /\ ResetsSpent' /\ A!ResetsWorkOnce'
<1>1. \A n \in made : n.link # l
  BY DEF A!Fresh
<1>2. \A r \in resets : r.link # l
  BY <1>1 DEF LinksInv, ResetsSpent, A!Fresh
<1>3. LinksDiffer'
  BY <1>1 DEF LinksInv, LinksDiffer
<1>4. ResetsSpent'
  BY <1>2 DEF LinksInv, ResetsSpent, A!Fresh
<1>5. A!ResetsWorkOnce'
  BY <1>2 DEF LinksInv, A!ResetsWorkOnce
<1> QED
  BY <1>3, <1>4, <1>5

LEMMA IssueStep ==
  ASSUME LinksInv, NEW h \in Handler, NEW l \in Link, A!Issue(h, l)
  PROVE  LinksInv'
<1> DEFINE u == request[h].user
           mailed == request[h].op = "forgot"
           t0 == [user |-> u, link |-> l, email |-> email[u], version |-> version[u],
                  by |-> IF mailed THEN "email" ELSE "admin"]
           m0 == [link |-> l, to |-> IF mailed THEN {email[u]} ELSE {}, under |-> {version[u]}]
<1>1. /\ A!Fresh(l) /\ A!End(h)
      /\ reset' = {t \in reset : t.user # u} \cup {t0}
      /\ made' = made \cup {m0}
      /\ UNCHANGED <<A!rowVars, verify, spent, proven, resets>>
  BY DEF A!Issue, A!MailedTo
<1>2. u \in User /\ email[u] \in Address /\ version[u] \in A!Version
  BY Issuing DEF A!Issue, LinksInv, A!TypeOK
<1>3. t0 \in A!Reset /\ m0 \in [link : Link, to : SUBSET Address, under : SUBSET A!Version]
  BY <1>2 DEF A!Reset
<1>4. m0.link = l /\ m0.under = {version[u]} /\ (mailed => m0.to = {email[u]})
  OBVIOUS
<1>5. t0.link = l /\ t0.version = version[u] /\ t0.email = email[u] /\ (t0.by = "email" => mailed)
  OBVIOUS
<1> HIDE DEF t0, m0
<1>6. A!TypeOK'
  BY <1>1, <1>3, EndTypes DEF A!rowVars, LinksInv, A!TypeOK
<1>7. A!AddressesProven'
  BY <1>1 DEF A!rowVars, LinksInv, A!AddressesProven
<1>8. LinksDiffer' /\ ResetsSpent' /\ A!ResetsWorkOnce'
  BY <1>1, <1>4, IssuedKeeps
<1>9. RowsAsMade'
  BY <1>1, <1>4, <1>5 DEF LinksInv, RowsAsMade
<1> QED
  BY <1>6, <1>7, <1>8, <1>9 DEF LinksInv

LEMMA SendVerificationStep ==
  ASSUME LinksInv, NEW u \in User, NEW l \in Link, A!SendVerification(u, l)
  PROVE  LinksInv'
<1> DEFINE t0 == [user |-> u, link |-> l, email |-> email[u]]
           m0 == [link |-> l, to |-> {email[u]}, under |-> {}]
<1>1. /\ A!Fresh(l)
      /\ verify' = {t \in verify : t.user # u} \cup {t0}
      /\ made' = made \cup {m0}
      /\ UNCHANGED <<A!rowVars, reset, spent, request, proven, resets>>
  BY DEF A!SendVerification
<1>2. email[u] \in Address
  BY DEF LinksInv, A!TypeOK
<1>3. t0 \in A!Verify /\ m0 \in [link : Link, to : SUBSET Address, under : SUBSET A!Version]
  BY <1>2 DEF A!Verify
<1>4. m0.link = l /\ m0.to = {email[u]} /\ t0.link = l /\ t0.email = email[u]
  OBVIOUS
<1> HIDE DEF t0, m0
<1>5. A!TypeOK'
  BY <1>1, <1>3 DEF A!rowVars, LinksInv, A!TypeOK
<1>6. A!AddressesProven'
  BY <1>1 DEF A!rowVars, LinksInv, A!AddressesProven
<1>7. LinksDiffer' /\ ResetsSpent' /\ A!ResetsWorkOnce'
  BY <1>1, <1>4, IssuedKeeps
<1>8. RowsAsMade'
  BY <1>1, <1>4 DEF LinksInv, RowsAsMade
<1> QED
  BY <1>5, <1>6, <1>7, <1>8 DEF LinksInv

\* A link that went to a mailbox proves its address.
LEMMA ProvesIt ==
  ASSUME NEW u \in User, NEW m \in made, NEW a \in m.to
  PROVE  <<u, a>> \in A!Proves(u, m.link)
BY DEF A!Proves

LEMMA ProvesTypes ==
  ASSUME A!TypeOK, NEW u \in User, NEW l
  PROVE  A!Proves(u, l) \subseteq User \X Address
BY DEF A!Proves, A!TypeOK

LEMMA ConsumeStep ==
  ASSUME LinksInv, NEW h \in Handler, NEW t \in reset, A!Consume(h, t)
  PROVE  LinksInv'
<1> DEFINE u == t.user
           r0 == [link |-> t.link, version |-> version[u]]
<1>1. /\ A!Pending(t) /\ A!End(h) /\ version[u] < MaxVersion
      /\ version' = [version EXCEPT ![u] = @ + 1]
      /\ verified' = IF t.by = "email" THEN verified \cup {u} ELSE verified
      /\ spent' = spent \cup {t.link}
      /\ proven' = proven \cup A!Proves(u, t.link)
      /\ resets' = resets \cup {r0}
      /\ UNCHANGED <<email, suspended, google, reset, verify, made>>
  BY DEF A!Consume, A!StillPending
<1>2. u \in User /\ t.link \in Link /\ version[u] \in A!Version
  BY DEF LinksInv, A!TypeOK, A!Reset
<1>3. version[u] + 1 \in A!Version
  BY <1>1, <1>2 DEF A!Version
<1>4. r0 \in [link : Link, version : A!Version] /\ r0.link = t.link /\ r0.version = version[u]
  BY <1>2
<1> HIDE DEF r0
<1>5. A!TypeOK'
  BY <1>1, <1>2, <1>3, <1>4, EndTypes, ProvesTypes DEF LinksInv, A!TypeOK
<1>6. PICK m \in made :
        m.link = t.link /\ m.under = {t.version} /\ (t.by = "email" => t.email \in m.to)
  BY DEF LinksInv, RowsAsMade
<1>7. t.link \notin spent /\ t.email = email[u] /\ t.version = version[u]
  BY <1>1 DEF A!Pending
<1>8. A!AddressesProven'
  <2>1. t.by = "email" => <<u, email[u]>> \in A!Proves(u, t.link)
    BY <1>2, <1>6, <1>7, ProvesIt
  <2> QED
    BY <1>1, <2>1 DEF LinksInv, A!AddressesProven
<1>9. A!ResetsWorkOnce'
  <2>1. \A r \in resets : r.link # t.link
    BY <1>7 DEF LinksInv, ResetsSpent
  <2>2. \A n \in made : n.link = t.link => n.under = {r0.version}
    BY <1>4, <1>6, <1>7 DEF LinksInv, LinksDiffer
  <2> QED
    BY <1>1, <1>4, <2>1, <2>2 DEF LinksInv, A!ResetsWorkOnce
<1>10. ResetsSpent'
  BY <1>1, <1>4, <1>6 DEF LinksInv, ResetsSpent, A!Fresh
<1>11. LinksDiffer' /\ RowsAsMade'
  BY <1>1 DEF LinksInv, LinksDiffer, RowsAsMade
<1> QED
  BY <1>5, <1>8, <1>9, <1>10, <1>11 DEF LinksInv

LEMMA VerifyEmailStep ==
  ASSUME LinksInv, NEW t \in verify, A!VerifyEmail(t)
  PROVE  LinksInv'
<1> DEFINE u == t.user
<1>1. /\ t.email = email[u]
      /\ spent' = spent \cup A!LinksOf(u)
      /\ verified' = verified \cup {u}
      /\ proven' = proven \cup A!Proves(u, t.link)
      /\ UNCHANGED <<email, version, suspended, google, reset, verify, request, made, resets>>
  BY DEF A!VerifyEmail
<1>2. u \in User /\ A!LinksOf(u) \subseteq Link
  BY DEF LinksInv, A!TypeOK, A!Verify, A!LinksOf
<1>3. A!TypeOK'
  BY <1>1, <1>2, ProvesTypes DEF LinksInv, A!TypeOK
<1>4. PICK m \in made : m.link = t.link /\ t.email \in m.to
  BY DEF LinksInv, RowsAsMade
<1>5. A!AddressesProven'
  <2>1. <<u, email[u]>> \in A!Proves(u, t.link)
    BY <1>1, <1>2, <1>4, ProvesIt
  <2> QED
    BY <1>1, <2>1 DEF LinksInv, A!AddressesProven
<1>6. A!ResetsWorkOnce' /\ LinksDiffer' /\ RowsAsMade' /\ ResetsSpent'
  BY <1>1 DEF LinksInv, A!ResetsWorkOnce, LinksDiffer, RowsAsMade, ResetsSpent, A!Fresh
<1> QED
  BY <1>3, <1>5, <1>6 DEF LinksInv

LEMMA UpdateProfileStep ==
  ASSUME LinksInv, NEW h \in Handler, A!UpdateProfile(h)
  PROVE  LinksInv'
<1> DEFINE u == request[h].user
           a == request[h].email
<1>1. /\ A!End(h) /\ email' = [email EXCEPT ![u] = a]
      /\ verified' = IF email[u] = a THEN verified ELSE verified \ {u}
      /\ spent' = IF email[u] = a THEN spent ELSE spent \cup A!LinksOf(u)
      /\ UNCHANGED <<version, suspended, google, reset, verify, A!historyVars>>
  BY DEF A!UpdateProfile
<1>2. u \in User /\ a \in Address
  BY Looked DEF A!UpdateProfile, LinksInv
<1>3. A!LinksOf(u) \subseteq Link
  BY DEF LinksInv, A!TypeOK, A!Verify, A!LinksOf
<1>4. A!TypeOK'
  BY <1>1, <1>2, <1>3, EndTypes DEF A!historyVars, LinksInv, A!TypeOK
<1>5. \A w \in verified' : w \in verified /\ email'[w] = email[w]
  BY <1>1, <1>2 DEF LinksInv, A!TypeOK
<1>6. A!AddressesProven'
  BY <1>1, <1>5 DEF A!historyVars, LinksInv, A!AddressesProven
<1>7. A!ResetsWorkOnce' /\ LinksDiffer' /\ RowsAsMade' /\ ResetsSpent'
  BY <1>1 DEF A!historyVars, LinksInv, A!ResetsWorkOnce, LinksDiffer, RowsAsMade, ResetsSpent, A!Fresh
<1> QED
  BY <1>4, <1>6, <1>7 DEF LinksInv

LEMMA MarkEmailVerifiedStep ==
  ASSUME LinksInv, NEW h \in Handler, A!MarkEmailVerified(h)
  PROVE  LinksInv'
<1> DEFINE u == request[h].user
           a == request[h].email
<1>1. /\ A!End(h) /\ email[u] = a
      /\ verified' = verified \cup {u} /\ proven' = proven \cup {<<u, a>>}
      /\ UNCHANGED <<email, version, suspended, google, A!linkVars, made, resets>>
  BY DEF A!MarkEmailVerified
<1>2. u \in User /\ a \in Address
  BY Looked DEF A!MarkEmailVerified, LinksInv
<1>3. A!TypeOK'
  BY <1>1, <1>2, EndTypes DEF A!linkVars, LinksInv, A!TypeOK
<1>4. A!AddressesProven'
  BY <1>1 DEF LinksInv, A!AddressesProven
<1>5. A!ResetsWorkOnce' /\ LinksDiffer' /\ RowsAsMade' /\ ResetsSpent'
  BY <1>1 DEF A!linkVars, LinksInv, A!ResetsWorkOnce, LinksDiffer, RowsAsMade, ResetsSpent, A!Fresh
<1> QED
  BY <1>3, <1>4, <1>5 DEF LinksInv

LEMMA LinkByVerifiedEmailStep ==
  ASSUME LinksInv, NEW h \in Handler, A!LinkByVerifiedEmail(h)
  PROVE  LinksInv'
<1> DEFINE u == request[h].user
           a == request[h].email
<1>1. /\ A!End(h) /\ email[u] = a /\ u \in verified
      /\ google' = [google EXCEPT ![u] = {a}]
      /\ UNCHANGED <<email, verified, version, suspended, A!linkVars, A!historyVars>>
  BY DEF A!LinkByVerifiedEmail, A!MayLink
<1>2. u \in User /\ a \in Address
  BY Looked DEF A!LinkByVerifiedEmail, LinksInv
<1>3. A!TypeOK'
  BY <1>1, <1>2, EndTypes DEF A!linkVars, A!historyVars, LinksInv, A!TypeOK
<1>4. /\ google'[u] = {a} /\ <<u, a>> \in proven
      /\ \A w \in User \ {u} : google'[w] = google[w]
  BY <1>1, <1>2 DEF LinksInv, A!TypeOK, A!AddressesProven
<1>5. A!AddressesProven'
  BY <1>1, <1>4 DEF A!historyVars, LinksInv, A!AddressesProven
<1>6. A!ResetsWorkOnce' /\ LinksDiffer' /\ RowsAsMade' /\ ResetsSpent'
  BY <1>1 DEF A!linkVars, A!historyVars, LinksInv, A!ResetsWorkOnce, LinksDiffer, RowsAsMade, ResetsSpent, A!Fresh
<1> QED
  BY <1>3, <1>5, <1>6 DEF LinksInv

LEMMA LinkExpiresStep ==
  ASSUME LinksInv, NEW l \in Link, A!Expire(l)
  PROVE  LinksInv'
<1>1. UNCHANGED <<A!rowVars, reset, verify, request, A!historyVars>> /\ spent' = spent \cup {l}
  BY DEF A!Expire
<1>2. A!TypeOK'
  BY <1>1 DEF A!rowVars, A!historyVars, LinksInv, A!TypeOK
<1>3. A!AddressesProven' /\ A!ResetsWorkOnce' /\ LinksDiffer' /\ RowsAsMade' /\ ResetsSpent'
  BY <1>1 DEF A!rowVars, A!historyVars, LinksInv, A!AddressesProven, A!ResetsWorkOnce, LinksDiffer,
              RowsAsMade, ResetsSpent, A!Fresh
<1> QED
  BY <1>2, <1>3 DEF LinksInv

\* Versions, and who is suspended
LEMMA SessionStep ==
  ASSUME LinksInv, NEW u \in User, A!SignOut(u) \/ A!Suspend(u) \/ A!Unsuspend(u)
  PROVE  LinksInv'
<1>1. UNCHANGED <<email, verified, google, A!linkVars, request, A!historyVars>>
  BY DEF A!SignOut, A!Suspend, A!Unsuspend, A!BumpVersion
<1>2. version' \in [User -> A!Version]
  <2>1. CASE version[u] < MaxVersion /\ version' = [version EXCEPT ![u] = @ + 1]
    <3>1. version[u] + 1 \in A!Version
      BY <2>1 DEF A!Version, LinksInv, A!TypeOK
    <3> QED
      BY <2>1, <3>1 DEF LinksInv, A!TypeOK
  <2>2. CASE UNCHANGED version
    BY <2>2 DEF LinksInv, A!TypeOK
  <2> QED
    BY <2>1, <2>2 DEF A!SignOut, A!Suspend, A!Unsuspend, A!BumpVersion
<1>3. suspended' \subseteq User
  BY DEF A!SignOut, A!Suspend, A!Unsuspend, LinksInv, A!TypeOK
<1>4. A!TypeOK'
  BY <1>1, <1>2, <1>3 DEF A!linkVars, A!historyVars, LinksInv, A!TypeOK
<1>5. A!AddressesProven' /\ A!ResetsWorkOnce' /\ LinksDiffer' /\ RowsAsMade' /\ ResetsSpent'
  BY <1>1 DEF A!linkVars, A!historyVars, LinksInv, A!AddressesProven, A!ResetsWorkOnce, LinksDiffer,
              RowsAsMade, ResetsSpent, A!Fresh
<1> QED
  BY <1>4, <1>5 DEF LinksInv

LEMMA LinksStep == LinksInv /\ [A!Next]_(A!vars) => LinksInv'
<1> SUFFICES ASSUME LinksInv, [A!Next]_(A!vars) PROVE LinksInv'
  OBVIOUS
<1>1. ASSUME NEW h \in Handler, A!Ask(h) PROVE LinksInv'
  BY <1>1, AskStep
<1>2. ASSUME NEW h \in Handler, A!Answer(h) PROVE LinksInv'
  BY <1>2, IssueStep, ConsumeStep, UpdateProfileStep, MarkEmailVerifiedStep, LinkByVerifiedEmailStep,
     GiveUpStep DEF A!Answer
<1>3. ASSUME NEW u \in User, NEW l \in Link, A!SendVerification(u, l) PROVE LinksInv'
  BY <1>3, SendVerificationStep
<1>4. ASSUME NEW t \in verify, A!VerifyEmail(t) PROVE LinksInv'
  BY <1>4, VerifyEmailStep
<1>5. ASSUME NEW u \in User, A!SignOut(u) \/ A!Suspend(u) \/ A!Unsuspend(u) PROVE LinksInv'
  BY <1>5, SessionStep
<1>6. ASSUME NEW l \in Link, A!Expire(l) PROVE LinksInv'
  BY <1>6, LinkExpiresStep
<1>7. CASE UNCHANGED (A!vars)
  BY <1>7 DEF A!vars, A!rowVars, A!linkVars, A!historyVars, LinksInv, A!TypeOK, A!AddressesProven, A!ResetsWorkOnce,
              LinksDiffer, RowsAsMade, ResetsSpent, A!Fresh
<1> QED
  BY <1>1, <1>2, <1>3, <1>4, <1>5, <1>6, <1>7 DEF A!Next

\* Types: rows, links and requests are what they should be.
THEOREM LinkTypes == A!Spec => [](A!TypeOK)
<1>1. LinksInv => A!TypeOK
  BY DEF LinksInv
<1> QED
  BY LinksInit, LinksStep, <1>1, PTL DEF A!Spec

\* UserStore, EmailVerificationStore and PasswordResetStore together: nobody
\* gets an address verified, or a provider's account linked by it, that they
\* didn't prove.
THEOREM ProvedFirst == A!Spec => [](A!AddressesProven)
<1>1. LinksInv => A!AddressesProven
  BY DEF LinksInv
<1> QED
  BY LinksInit, LinksStep, <1>1, PTL DEF A!Spec

\* PasswordResetStore.Consume: a link works once, and not after the sessions
\* of its time have ended.
THEOREM OneResetPerLink == A!Spec => [](A!ResetsWorkOnce)
<1>1. LinksInv => A!ResetsWorkOnce
  BY DEF LinksInv
<1> QED
  BY LinksInit, LinksStep, <1>1, PTL DEF A!Spec

-----------------------------------------------------------------------------
(***************************************************************************)
(* Device logins, for any users, grants, polls and scopes.  A poll redeems *)
(* what it read of an approved grant, which nothing changes any more but   *)
(* its redemption and its removal.                                         *)
(***************************************************************************)
CONSTANTS Decider, Grant, Poller, Scope
VARIABLES state, scopes, decider, expired, poll, page, tokens, answers, asked

D == INSTANCE DeviceGrants WITH User <- Decider

\* Until it is decided a grant has the scopes it was asked with, and somebody
\* approved what is approved.
RowsInOrder ==
  \A g \in Grant :
    /\ state[g] = "pending" => scopes[g] = asked[g]
    /\ state[g] = "approved" => scopes[g] \subseteq asked[g] /\ \E u \in Decider : decider[g] = {u}

\* Only a grant that can't be redeemed again has tokens.
SpentGrants == \A t \in tokens : state[t.grant] \in {"consumed", "gone"}

\* Pages show grants there are, and offer what was asked for.
PagesInOrder == \A d \in page : state[d.grant] # "none" /\ d.keep \subseteq asked[d.grant]

\* What a poll has read of an approved grant stays true.
PollsInOrder ==
  \A p \in Poller : poll[p] # D!Idle =>
    /\ state[poll[p].grant] # "none"
    /\ poll[p].step = "redeem" => poll[p].seen = "approved"
    /\ poll[p].seen = "approved" =>
         /\ state[poll[p].grant] \in {"approved", "consumed", "gone"}
         /\ poll[p].scopes = scopes[poll[p].grant]

GrantsInv == D!TypeOK /\ D!OneTokenAsApproved /\ RowsInOrder /\ SpentGrants /\ PagesInOrder /\ PollsInOrder

LEMMA GrantsInit == D!Init => GrantsInv
BY DEF D!Init, GrantsInv, D!TypeOK, D!OneTokenAsApproved, RowsInOrder, SpentGrants, PagesInOrder, PollsInOrder, D!Idle

\* A request that polls has a grant.
LEMMA Polling ==
  ASSUME D!TypeOK, NEW p \in Poller, poll[p] # D!Idle
  PROVE  poll[p] \in D!Poll
BY DEF D!TypeOK

LEMMA IdleHasNoStep == D!Idle.step = "idle"
BY DEF D!Idle

\* A poll that ends leaves the others as they are.
LEMMA EndPollEnds ==
  ASSUME D!TypeOK, NEW p \in Poller, D!EndPoll(p)
  PROVE  /\ poll' \in [Poller -> {D!Idle} \cup D!Poll]
         /\ \A q \in Poller : poll'[q] = D!Idle \/ poll'[q] = poll[q]
BY DEF D!TypeOK, D!EndPoll

\* Polls may end, and approved grants be consumed.
Onward ==
  /\ \A q \in Poller : poll'[q] = D!Idle \/ poll'[q] = poll[q]
  /\ \A g \in Grant :
       /\ scopes'[g] = scopes[g]
       /\ state'[g] = state[g] \/ (state[g] = "approved" /\ state'[g] = "consumed")

LEMMA PollsKept == D!TypeOK /\ PollsInOrder /\ Onward => PollsInOrder'
<1> SUFFICES ASSUME D!TypeOK, PollsInOrder, Onward PROVE PollsInOrder'
  OBVIOUS
<1>1. ASSUME NEW q \in Poller, poll'[q] # D!Idle
      PROVE  poll'[q] = poll[q] /\ poll[q] \in D!Poll /\ poll[q].grant \in Grant
  BY <1>1, Polling DEF D!Poll, Onward
<1> QED
  BY <1>1 DEF PollsInOrder, Onward

LEMMA CreateStep ==
  ASSUME GrantsInv, NEW g \in Grant, D!Create(g)
  PROVE  GrantsInv'
<1>1. PICK s \in SUBSET Scope :
        scopes' = [scopes EXCEPT ![g] = s] /\ asked' = [asked EXCEPT ![g] = s]
  BY DEF D!Create
<1>2. D!TypeOK'
  BY <1>1 DEF D!Create, GrantsInv, D!TypeOK
<1>3. \A h \in Grant \ {g} : scopes'[h] = scopes[h] /\ asked'[h] = asked[h] /\ state'[h] = state[h]
  BY <1>1 DEF D!Create, GrantsInv, D!TypeOK
<1>4. scopes'[g] = s /\ asked'[g] = s /\ state'[g] = "pending" /\ state[g] = "none"
  BY <1>1 DEF D!Create, GrantsInv, D!TypeOK
<1>5. UNCHANGED <<decider, poll, page, tokens, answers>>
  BY DEF D!Create
<1>6. \A t \in tokens : t.grant \in Grant \ {g}
  BY <1>4 DEF GrantsInv, SpentGrants, D!TypeOK, D!Token
<1>7. \A d \in page : d.grant \in Grant \ {g}
  BY <1>4 DEF GrantsInv, PagesInOrder, D!TypeOK, D!Page
<1>8. \A p \in Poller : poll[p] # D!Idle => poll[p].grant \in Grant \ {g}
  BY <1>4, Polling DEF GrantsInv, PollsInOrder, D!Poll
<1>9. D!OneTokenAsApproved' /\ SpentGrants'
  BY <1>3, <1>5, <1>6 DEF GrantsInv, D!OneTokenAsApproved, SpentGrants
<1>10. RowsInOrder'
  BY <1>3, <1>4, <1>5 DEF GrantsInv, RowsInOrder
<1>11. PagesInOrder'
  BY <1>3, <1>5, <1>7 DEF GrantsInv, PagesInOrder
<1>12. PollsInOrder'
  BY <1>3, <1>5, <1>8 DEF GrantsInv, PollsInOrder
<1> QED
  BY <1>2, <1>9, <1>10, <1>11, <1>12 DEF GrantsInv

LEMMA GrantExpiresStep ==
  ASSUME GrantsInv, NEW g \in Grant, D!Expire(g)
  PROVE  GrantsInv'
BY DEF D!Expire, D!rowVars, GrantsInv, D!TypeOK, D!OneTokenAsApproved, RowsInOrder, SpentGrants, PagesInOrder, PollsInOrder

LEMMA DeleteStaleStep ==
  ASSUME GrantsInv, D!DeleteStale
  PROVE  GrantsInv'
<1>1. D!TypeOK'
  BY DEF D!DeleteStale, GrantsInv, D!TypeOK
<1>2. \A g \in Grant : state'[g] = state[g] \/ state'[g] = "gone"
  BY DEF D!DeleteStale
<1>3. UNCHANGED <<scopes, decider, poll, page, tokens, answers, asked>>
  BY DEF D!DeleteStale
<1>4. D!OneTokenAsApproved' /\ RowsInOrder'
  BY <1>2, <1>3 DEF GrantsInv, D!OneTokenAsApproved, RowsInOrder
<1>5. SpentGrants'
  BY <1>2, <1>3 DEF GrantsInv, D!TypeOK, D!Token, SpentGrants
<1>6. PagesInOrder'
  BY <1>2, <1>3 DEF GrantsInv, D!TypeOK, D!Page, PagesInOrder
<1>7. PollsInOrder'
  BY <1>2, <1>3, Polling DEF GrantsInv, D!Poll, PollsInOrder
<1> QED
  BY <1>1, <1>4, <1>5, <1>6, <1>7 DEF GrantsInv

LEMMA LookupStep ==
  ASSUME GrantsInv, NEW u \in Decider, NEW g \in Grant, D!Lookup(u, g)
  PROVE  GrantsInv'
<1>1. PICK keep \in SUBSET scopes[g] :
        page' = page \cup {[user |-> u, grant |-> g, keep |-> keep]}
  BY DEF D!Lookup
<1>2. keep \subseteq Scope /\ keep \subseteq asked[g] /\ state[g] = "pending"
  BY DEF D!Lookup, D!Pending, GrantsInv, D!TypeOK, RowsInOrder
<1>3. UNCHANGED <<D!rowVars, expired, poll, tokens, answers, asked>>
  BY DEF D!Lookup
<1>4. D!TypeOK'
  BY <1>1, <1>2, <1>3 DEF GrantsInv, D!TypeOK, D!Page, D!rowVars
<1>5. D!OneTokenAsApproved' /\ RowsInOrder' /\ SpentGrants' /\ PollsInOrder'
  BY <1>3 DEF GrantsInv, D!rowVars, D!OneTokenAsApproved, RowsInOrder, SpentGrants, PollsInOrder
<1>6. PagesInOrder'
  BY <1>1, <1>2, <1>3 DEF GrantsInv, D!rowVars, PagesInOrder
<1> QED
  BY <1>4, <1>5, <1>6 DEF GrantsInv

\* A decision only touches a grant without tokens that no poll saw approved.
LEMMA DecideStep ==
  ASSUME GrantsInv, NEW d \in page, D!Decide(d)
  PROVE  GrantsInv'
<1>1. UNCHANGED <<expired, poll, tokens, answers, asked>> /\ page' = page \ {d}
  BY DEF D!Decide
<1>2. d.grant \in Grant /\ d.user \in Decider /\ d.keep \subseteq Scope /\ d.keep \subseteq asked[d.grant]
  BY DEF GrantsInv, D!TypeOK, D!Page, PagesInOrder
<1>3. CASE ~D!Pending(d.grant)
  <2>1. UNCHANGED D!rowVars
    BY <1>3 DEF D!Decide
  <2> QED
    BY <1>1, <2>1 DEF D!rowVars, GrantsInv, D!TypeOK, D!OneTokenAsApproved, RowsInOrder, SpentGrants, PagesInOrder, PollsInOrder
<1>4. CASE D!Pending(d.grant)
  <2> DEFINE g == d.grant
  <2>1. /\ state' = [state EXCEPT ![g] = IF d.keep = {} THEN "denied" ELSE "approved"]
        /\ scopes' = [scopes EXCEPT ![g] = IF d.keep = {} THEN @ ELSE d.keep]
        /\ decider' = [decider EXCEPT ![g] = {d.user}]
    BY <1>4 DEF D!Decide
  <2>2. state[g] = "pending"
    BY <1>4 DEF D!Pending
  <2>3. D!TypeOK'
    BY <1>1, <1>2, <2>1 DEF GrantsInv, D!TypeOK
  <2>4. \A h \in Grant \ {g} : state'[h] = state[h] /\ scopes'[h] = scopes[h] /\ decider'[h] = decider[h]
    BY <2>1 DEF GrantsInv, D!TypeOK
  <2>5. /\ state'[g] \in {"denied", "approved"} /\ decider'[g] = {d.user}
        /\ scopes'[g] \subseteq asked[g]
    BY <1>2, <2>1, <2>2 DEF GrantsInv, D!TypeOK, RowsInOrder
  <2>6. \A t \in tokens : t.grant \in Grant \ {g}
    BY <2>2 DEF GrantsInv, D!TypeOK, D!Token, SpentGrants
  <2>7. D!OneTokenAsApproved' /\ SpentGrants'
    BY <1>1, <2>4, <2>6 DEF GrantsInv, D!OneTokenAsApproved, SpentGrants
  <2>8. RowsInOrder'
    BY <1>1, <1>2, <2>4, <2>5 DEF GrantsInv, RowsInOrder
  <2>9. PagesInOrder'
    BY <1>1, <2>4, <2>5 DEF GrantsInv, D!TypeOK, D!Page, PagesInOrder
  <2>10. ASSUME NEW p \in Poller, poll[p] # D!Idle
         PROVE  /\ poll[p].grant \in Grant
                /\ poll[p].seen = "approved" => poll[p].grant # g
    BY <2>2, <2>10, Polling DEF GrantsInv, D!Poll, PollsInOrder
  <2>11. PollsInOrder'
    BY <1>1, <2>4, <2>5, <2>10 DEF GrantsInv, PollsInOrder
  <2> QED
    BY <2>3, <2>7, <2>8, <2>9, <2>11 DEF GrantsInv
<1> QED
  BY <1>3, <1>4

LEMMA AskPollStep ==
  ASSUME GrantsInv, NEW p \in Poller, NEW g \in Grant, D!AskPoll(p, g)
  PROVE  GrantsInv'
<1> DEFINE new == [step |-> "touch", grant |-> g, seen |-> state[g],
                   scopes |-> scopes[g], inTime |-> g \notin expired]
<1>1. /\ UNCHANGED <<D!rowVars, expired, page, tokens, answers, asked>>
      /\ poll' = [poll EXCEPT ![p] = new]
      /\ state[g] \in {"pending", "approved", "denied"}
  BY DEF D!AskPoll
<1>2. new \in D!Poll
  BY <1>1 DEF GrantsInv, D!TypeOK, D!Poll
<1>3. D!TypeOK'
  BY <1>1, <1>2 DEF D!rowVars, GrantsInv, D!TypeOK
<1>4. D!OneTokenAsApproved' /\ RowsInOrder' /\ SpentGrants' /\ PagesInOrder'
  BY <1>1 DEF D!rowVars, GrantsInv, D!OneTokenAsApproved, RowsInOrder, SpentGrants, PagesInOrder
<1>5. poll'[p] = new /\ \A q \in Poller \ {p} : poll'[q] = poll[q]
  BY <1>1 DEF GrantsInv, D!TypeOK
<1>6. PollsInOrder'
  BY <1>1, <1>5 DEF D!rowVars, GrantsInv, PollsInOrder
<1> QED
  BY <1>3, <1>4, <1>6 DEF GrantsInv

LEMMA TouchStep ==
  ASSUME GrantsInv, NEW p \in Poller, D!Touch(p)
  PROVE  GrantsInv'
<1>1. UNCHANGED <<D!rowVars, expired, page, tokens, answers, asked>>
  BY DEF D!Touch
<1>2. D!OneTokenAsApproved' /\ RowsInOrder' /\ SpentGrants' /\ PagesInOrder'
  BY <1>1 DEF D!rowVars, GrantsInv, D!OneTokenAsApproved, RowsInOrder, SpentGrants, PagesInOrder
<1>3. CASE D!EndPoll(p)
  <2>1. /\ poll' \in [Poller -> {D!Idle} \cup D!Poll]
        /\ \A q \in Poller : poll'[q] = D!Idle \/ poll'[q] = poll[q]
    BY <1>3, EndPollEnds DEF GrantsInv
  <2>2. Onward
    BY <1>1, <2>1 DEF D!rowVars, Onward
  <2> QED
    BY <1>1, <1>2, <2>1, <2>2, PollsKept DEF D!rowVars, GrantsInv, D!TypeOK
<1>4. CASE ~D!EndPoll(p)
  <2>1. /\ poll[p].seen = "approved"
        /\ poll' = [poll EXCEPT ![p].step = "redeem"]
    BY <1>4 DEF D!Touch
  <2>2. poll[p] \in D!Poll /\ poll[p] # D!Idle
    BY Polling, IdleHasNoStep DEF D!Touch, GrantsInv
  <2>3. /\ poll'[p] = [poll[p] EXCEPT !.step = "redeem"]
        /\ \A q \in Poller \ {p} : poll'[q] = poll[q]
    BY <2>1 DEF GrantsInv, D!TypeOK
  <2>4. poll'[p] \in D!Poll /\ poll'[p].seen = poll[p].seen
          /\ poll'[p].grant = poll[p].grant /\ poll'[p].scopes = poll[p].scopes
    BY <2>2, <2>3 DEF D!Poll
  <2>5. D!TypeOK'
    BY <1>1, <2>1, <2>3, <2>4 DEF D!rowVars, GrantsInv, D!TypeOK
  <2>6. PollsInOrder'
    BY <1>1, <2>1, <2>2, <2>3, <2>4 DEF D!rowVars, GrantsInv, PollsInOrder
  <2> QED
    BY <1>2, <2>5, <2>6 DEF GrantsInv
<1> QED
  BY <1>3, <1>4

\* The grant had no token, and has one now; nobody redeems it again.
LEMMA RedeemStep ==
  ASSUME GrantsInv, NEW p \in Poller, D!Redeem(p)
  PROVE  GrantsInv'
<1> DEFINE g == poll[p].grant
           issued(u) == [grant |-> g, user |-> u, scopes |-> scopes[g], by |-> p]
<1>1. /\ UNCHANGED <<scopes, decider, expired, page, asked>>
      /\ D!EndPoll(p) /\ state' = [state EXCEPT ![g] = "consumed"]
      /\ state[g] = "approved" /\ poll[p].step = "redeem"
  BY DEF D!Redeem, D!MayRedeem
<1>2. poll[p] \in D!Poll /\ poll[p] # D!Idle /\ g \in Grant
  BY <1>1, Polling, IdleHasNoStep DEF GrantsInv, D!Poll
<1>3. poll[p].scopes = scopes[g]
  BY <1>1, <1>2 DEF GrantsInv, PollsInOrder
<1>4. PICK u \in decider[g] :
        tokens' = tokens \cup {issued(u)} /\ answers' = answers \cup {issued(u)}
  BY <1>3 DEF D!Redeem
<1>5. decider[g] = {u} /\ u \in Decider /\ scopes[g] \subseteq asked[g] /\ scopes[g] \subseteq Scope
  BY <1>1, <1>2, <1>4 DEF GrantsInv, D!TypeOK, RowsInOrder
<1>6. issued(u) \in D!Token
  BY <1>2, <1>5 DEF D!Token
<1>7. state'[g] = "consumed" /\ \A h \in Grant \ {g} : state'[h] = state[h]
  BY <1>1, <1>2 DEF GrantsInv, D!TypeOK
<1>8. /\ poll' \in [Poller -> {D!Idle} \cup D!Poll]
      /\ \A q \in Poller : poll'[q] = D!Idle \/ poll'[q] = poll[q]
  BY <1>1, EndPollEnds DEF GrantsInv
<1>9. D!TypeOK'
  BY <1>1, <1>2, <1>4, <1>6, <1>8 DEF GrantsInv, D!TypeOK
<1>10. \A t \in tokens : t.grant \in Grant \ {g}
  BY <1>1 DEF GrantsInv, D!TypeOK, D!Token, SpentGrants
<1>11. D!OneTokenAsApproved'
  <2>1. answers' = tokens'
    BY <1>4 DEF GrantsInv, D!OneTokenAsApproved
  <2>2. issued(u).grant = g /\ issued(u).user = u /\ issued(u).scopes = scopes[g]
    OBVIOUS
  <2> HIDE DEF issued
  <2>3. ASSUME NEW t \in tokens'
        PROVE  /\ decider'[t.grant] = {t.user}
               /\ t.scopes \subseteq asked'[t.grant] /\ t.scopes = scopes'[t.grant]
    BY <1>1, <1>4, <1>5, <2>2, <2>3 DEF GrantsInv, D!OneTokenAsApproved
  <2>4. ASSUME NEW t \in tokens', NEW v \in tokens', t.grant = v.grant
        PROVE  t = v
    BY <1>4, <1>10, <2>2, <2>4 DEF GrantsInv, D!OneTokenAsApproved
  <2> QED
    BY <2>1, <2>3, <2>4 DEF D!OneTokenAsApproved
<1>12. SpentGrants'
  BY <1>4, <1>7, <1>10 DEF GrantsInv, SpentGrants
<1>13. RowsInOrder'
  BY <1>1, <1>7 DEF GrantsInv, RowsInOrder
<1>14. PagesInOrder'
  BY <1>1, <1>7 DEF GrantsInv, D!TypeOK, D!Page, PagesInOrder
<1>15. Onward
  BY <1>1, <1>2, <1>7, <1>8 DEF Onward
<1> QED
  BY <1>9, <1>11, <1>12, <1>13, <1>14, <1>15, PollsKept DEF GrantsInv

LEMMA FailStep ==
  ASSUME GrantsInv, NEW p \in Poller, D!Fail(p)
  PROVE  GrantsInv'
<1>1. UNCHANGED <<D!rowVars, expired, page, tokens, answers, asked>> /\ D!EndPoll(p)
  BY DEF D!Fail
<1>2. /\ poll' \in [Poller -> {D!Idle} \cup D!Poll]
      /\ \A q \in Poller : poll'[q] = D!Idle \/ poll'[q] = poll[q]
  BY <1>1, EndPollEnds DEF GrantsInv
<1>3. D!OneTokenAsApproved' /\ RowsInOrder' /\ SpentGrants' /\ PagesInOrder'
  BY <1>1 DEF D!rowVars, GrantsInv, D!OneTokenAsApproved, RowsInOrder, SpentGrants, PagesInOrder
<1>4. Onward
  BY <1>1, <1>2 DEF D!rowVars, Onward
<1> QED
  BY <1>1, <1>2, <1>3, <1>4, PollsKept DEF D!rowVars, GrantsInv, D!TypeOK

LEMMA GrantsStep == GrantsInv /\ [D!Next]_(D!vars) => GrantsInv'
<1> SUFFICES ASSUME GrantsInv, [D!Next]_(D!vars) PROVE GrantsInv'
  OBVIOUS
<1>1. ASSUME NEW g \in Grant, D!Create(g) \/ D!Expire(g) PROVE GrantsInv'
  BY <1>1, CreateStep, GrantExpiresStep
<1>2. CASE D!DeleteStale
  BY <1>2, DeleteStaleStep
<1>3. ASSUME NEW u \in Decider, NEW g \in Grant, D!Lookup(u, g) PROVE GrantsInv'
  BY <1>3, LookupStep
<1>4. ASSUME NEW d \in page, D!Decide(d) PROVE GrantsInv'
  BY <1>4, DecideStep
<1>5. ASSUME NEW p \in Poller, D!Touch(p) \/ D!Redeem(p) \/ D!Fail(p) PROVE GrantsInv'
  BY <1>5, TouchStep, RedeemStep, FailStep
<1>6. ASSUME NEW p \in Poller, NEW g \in Grant, D!AskPoll(p, g) PROVE GrantsInv'
  BY <1>6, AskPollStep
<1>7. CASE UNCHANGED (D!vars)
  BY <1>7 DEF D!vars, D!rowVars, GrantsInv, D!TypeOK, D!OneTokenAsApproved, RowsInOrder, SpentGrants, PagesInOrder, PollsInOrder
<1> QED
  BY <1>1, <1>2, <1>3, <1>4, <1>5, <1>6, <1>7 DEF D!Next

\* Types: rows, polls, pages and tokens are what they should be.
THEOREM GrantTypes == D!Spec => [](D!TypeOK)
<1>1. GrantsInv => D!TypeOK
  BY DEF GrantsInv
<1> QED
  BY GrantsInit, GrantsStep, <1>1, PTL DEF D!Spec

\* DeviceGrantService.Poll and Approve together: a grant makes one token at
\* most, for the user who approved it, with scopes its client asked for, and
\* the client is told the same.
THEOREM OneTokenPerGrant == D!Spec => [](D!OneTokenAsApproved)
<1>1. GrantsInv => D!OneTokenAsApproved
  BY DEF GrantsInv
<1> QED
  BY GrantsInit, GrantsStep, <1>1, PTL DEF D!Spec
=============================================================================
