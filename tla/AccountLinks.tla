----------------------------- MODULE AccountLinks -----------------------------
(***************************************************************************)
(* The links that prove an address or reset a password.  A link names an   *)
(* account, and is good for the address and the session version that the   *)
(* account had when it was issued; both change while links lie in          *)
(* mailboxes, and while requests that have looked at a row are on the way. *)
(*                                                                         *)
(* Accounts have passwords.  The cool-down between two mails is over       *)
(* whenever somebody asks for the next.                                    *)
(***************************************************************************)
EXTENDS Naturals

CONSTANTS
  User,
  Address,
  Link,       \* random tokens: as many as a behaviour issues
  Handler,    \* requests that look first and write later
  MaxVersion  \* a bound on session versions

VARIABLES
  email,      \* users.email
  verified,   \* users with an email_verified_at
  version,    \* users.session_version
  suspended,  \* users with a suspended_at
  google,     \* the provider identity linked by its address, {} without one
  reset,      \* password_reset_tokens
  verify,     \* email_verification_tokens
  spent,      \* links with a used_at, or past expires_at
  request,    \* what each handler has read
  made,       \* the links issued: the mailbox each went to, {} for one handed over,
              \* and the version it is good for, {} if for any
  proven,     \* the addresses that turned out to be a user's
  resets      \* the password resets: their links, and the versions they ended

rowVars == <<email, verified, version, suspended, google>>
linkVars == <<reset, verify, spent>>
historyVars == <<made, proven, resets>>
vars == <<rowVars, linkVars, request, historyVars>>

Version == Nat

Idle == [op |-> "idle"]
Look == [op : {"forgot", "profile", "vouch", "google"}, user : User, email : Address]
Hand == [op : {"hand"}, user : User]
Open == [op : {"reset"}, user : User, link : Link]

Reset  == [user : User, link : Link, email : Address, version : Version, by : {"email", "admin"}]
Verify == [user : User, link : Link, email : Address]

TypeOK ==
  /\ email \in [User -> Address] /\ verified \subseteq User
  /\ version \in [User -> Version] /\ suspended \subseteq User
  /\ google \in [User -> SUBSET Address]
  /\ reset \subseteq Reset /\ verify \subseteq Verify
  /\ spent \subseteq Link
  /\ request \in [Handler -> {Idle} \cup Look \cup Hand \cup Open]
  /\ made \subseteq [link : Link, to : SUBSET Address, under : SUBSET Version]
  /\ proven \subseteq User \X Address
  /\ resets \subseteq [link : Link, version : Version]

\* Accounts with addresses of their own, none of them proved.
Init ==
  /\ email \in [User -> Address]
  /\ \A u, w \in User : email[u] = email[w] => u = w
  /\ version = [u \in User |-> 0]
  /\ google = [u \in User |-> {}]
  /\ verified = {} /\ suspended = {}
  /\ reset = {} /\ verify = {} /\ spent = {}
  /\ request = [h \in Handler |-> Idle]
  /\ made = {} /\ proven = {} /\ resets = {}

-----------------------------------------------------------------------------
(* Requests *)

\* What a handler reads before it writes
Begin(h, r) ==
  /\ request[h] = Idle
  /\ request' = [request EXCEPT ![h] = r]
  /\ UNCHANGED <<rowVars, linkVars, historyVars>>

LookAt(h, op, u, a) == Begin(h, [op |-> op, user |-> u, email |-> a])

End(h) == request' = [request EXCEPT ![h] = Idle]

\* Refused, failed, or cut off
GiveUp(h) ==
  /\ request[h] # Idle
  /\ End(h)
  /\ UNCHANGED <<rowVars, linkVars, historyVars>>

-----------------------------------------------------------------------------
(* Password resets *)

Fresh(l) == \A m \in made : m.link # l

Expire(l) ==
  /\ ~ Fresh(l)
  /\ spent' = spent \cup {l}
  /\ UNCHANGED <<rowVars, reset, verify, request, historyVars>>

Pending(t) ==
  /\ t.link \notin spent
  /\ t.email = email[t.user] /\ t.version = version[t.user]
  /\ t.user \notin suspended

\* The forgot form, and an admin who hands a link over
RequestReset(h, u) == u \notin suspended /\ LookAt(h, "forgot", u, email[u])
IssueLink(h, u) == u \notin suspended /\ Begin(h, [op |-> "hand", user |-> u])

\* A mutant: the mail goes to the address that the form was looked up by.
AsLookedUp(h) == request[h].email

\* The address that Issue read under its lock
MailedTo(h) == email[request[h].user]

\* One row for an account, written under its lock.  The form does not replace
\* an admin's link that still works.
Issue(h, l) ==
  /\ request[h].op \in {"forgot", "hand"} /\ Fresh(l)
  /\ LET u == request[h].user
         mailed == request[h].op = "forgot"
     IN /\ mailed => ~ \E t \in reset : t.user = u /\ t.by = "admin" /\ Pending(t)
        /\ reset' = {t \in reset : t.user # u} \cup
             {[user |-> u, link |-> l, email |-> email[u], version |-> version[u],
               by |-> IF mailed THEN "email" ELSE "admin"]}
        /\ made' = made \cup
             {[link |-> l, to |-> IF mailed THEN {MailedTo(h)} ELSE {}, under |-> {version[u]}]}
  /\ End(h)
  /\ UNCHANGED <<rowVars, verify, spent, proven, resets>>

\* Reset looks, and asks for the second factor before it consumes the link.
OpenReset(h, t) == Pending(t) /\ Begin(h, [op |-> "reset", user |-> t.user, link |-> t.link])

\* A mutant: what Reset saw when it looked is enough.
AsSeen(t) == TRUE

\* What is read again under the account's lock
StillPending(t) == Pending(t)

\* A user whose mailbox a link went to has the address.
Proves(u, l) == {u} \X UNION {m.to : m \in {n \in made : n.link = l}}

Consume(h, t) ==
  /\ request[h].op = "reset" /\ t.link = request[h].link
  /\ StillPending(t)
  /\ version[t.user] < MaxVersion
  /\ version' = [version EXCEPT ![t.user] = @ + 1]
  /\ verified' = IF t.by = "email" THEN verified \cup {t.user} ELSE verified
  /\ spent' = spent \cup {t.link}
  /\ proven' = proven \cup Proves(t.user, t.link)
  /\ resets' = resets \cup {[link |-> t.link, version |-> version[t.user]]}
  /\ End(h)
  /\ UNCHANGED <<email, suspended, google, reset, verify, made>>

-----------------------------------------------------------------------------
(* Addresses *)

Taken(u, a) == \E w \in User \ {u} : email[w] = a

\* An address of their own is one that users may save again.
AskProfile(h, u, a) ==
  /\ u \notin suspended /\ ~ Taken(u, a)
  /\ LookAt(h, "profile", u, a)

LinksOf(u) == {t.link : t \in {s \in verify : s.user = u}}

UpdateProfile(h) ==
  /\ request[h].op = "profile"
  /\ LET u == request[h].user
         a == request[h].email
     IN /\ ~ Taken(u, a)
        /\ email' = [email EXCEPT ![u] = a]
        /\ verified' = IF email[u] = a THEN verified ELSE verified \ {u}
        /\ spent' = IF email[u] = a THEN spent ELSE spent \cup LinksOf(u)
  /\ End(h)
  /\ UNCHANGED <<version, suspended, google, reset, verify, historyVars>>

\* After a signup or a change, or when asked for
SendVerification(u, l) ==
  /\ u \notin verified /\ Fresh(l)
  /\ verify' = {t \in verify : t.user # u} \cup {[user |-> u, link |-> l, email |-> email[u]]}
  /\ made' = made \cup {[link |-> l, to |-> {email[u]}, under |-> {}]}
  /\ UNCHANGED <<rowVars, reset, spent, request, proven, resets>>

VerifyEmail(t) ==
  /\ t.link \notin spent
  /\ t.email = email[t.user]
  /\ spent' = spent \cup LinksOf(t.user)
  /\ verified' = verified \cup {t.user}
  /\ proven' = proven \cup Proves(t.user, t.link)
  /\ UNCHANGED <<email, version, suspended, google, reset, verify, request, made, resets>>

\* A superadmin vouches for the address on the page.
MarkVerified(h, u) == LookAt(h, "vouch", u, email[u])

MarkEmailVerified(h) ==
  /\ request[h].op = "vouch"
  /\ LET u == request[h].user
         a == request[h].email
     IN /\ email[u] = a
        /\ verified' = verified \cup {u}
        /\ proven' = proven \cup {<<u, a>>}
  /\ End(h)
  /\ UNCHANGED <<email, version, suspended, google, linkVars, made, resets>>

-----------------------------------------------------------------------------
(* Signing in with a provider whose account has the address, and which no user *)
(* has linked                                                                  *)

MayLink(u, a) ==
  /\ email[u] = a /\ u \in verified
  /\ google[u] = {} /\ \A w \in User : a \notin google[w]

AuthenticateOAuth(h, u) ==
  /\ u \notin suspended /\ MayLink(u, email[u])
  /\ LookAt(h, "google", u, email[u])

\* The link is made when every other factor has passed.
LinkByVerifiedEmail(h) ==
  /\ request[h].op = "google"
  /\ LET u == request[h].user
         a == request[h].email
     IN MayLink(u, a) /\ google' = [google EXCEPT ![u] = {a}]
  /\ End(h)
  /\ UNCHANGED <<email, verified, version, suspended, linkVars, historyVars>>

-----------------------------------------------------------------------------
(* What ends sessions, and their links with them *)

BumpVersion(u) ==
  /\ version[u] < MaxVersion
  /\ version' = [version EXCEPT ![u] = @ + 1]
  /\ UNCHANGED <<email, verified, google, linkVars, request, historyVars>>

\* A new password, signing out elsewhere, revoking credentials
SignOut(u) == BumpVersion(u) /\ UNCHANGED suspended

Suspend(u) == u \notin suspended /\ suspended' = suspended \cup {u} /\ BumpVersion(u)

Unsuspend(u) ==
  /\ u \in suspended
  /\ suspended' = suspended \ {u}
  /\ UNCHANGED <<email, verified, version, google, linkVars, request, historyVars>>

-----------------------------------------------------------------------------

Ask(h) ==
  \/ \E u \in User : RequestReset(h, u) \/ IssueLink(h, u) \/ MarkVerified(h, u) \/ AuthenticateOAuth(h, u)
  \/ \E u \in User, a \in Address : AskProfile(h, u, a)
  \/ \E t \in reset : OpenReset(h, t)

Answer(h) ==
  \/ \E l \in Link : Issue(h, l)
  \/ \E t \in reset : Consume(h, t)
  \/ UpdateProfile(h) \/ MarkEmailVerified(h) \/ LinkByVerifiedEmail(h)
  \/ GiveUp(h)

Next ==
  \/ \E h \in Handler : Ask(h) \/ Answer(h)
  \/ \E u \in User, l \in Link : SendVerification(u, l)
  \/ \E t \in verify : VerifyEmail(t)
  \/ \E u \in User : SignOut(u) \/ Suspend(u) \/ Unsuspend(u)
  \/ \E l \in Link : Expire(l)

Spec == Init /\ [][Next]_vars

-----------------------------------------------------------------------------
(* Properties *)

\* An address counts as verified only for a user who opened a link that was
\* mailed there, or whom a superadmin vouched for, and a provider's account is
\* linked by its address to nobody else, however links, edits and sign-ins
\* overlap.
AddressesProven ==
  /\ \A u \in verified : <<u, email[u]>> \in proven
  /\ \A u \in User : \A a \in google[u] : <<u, a>> \in proven

\* A link resets one password once, and none after a new password, a
\* suspension or a sign-out made its account's sessions end.
ResetsWorkOnce ==
  \A r \in resets :
    /\ \A s \in resets : r.link = s.link => r = s
    /\ \A m \in made : m.link = r.link => m.under = {r.version}
=============================================================================
