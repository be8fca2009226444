----------------------------- MODULE MirrorAccess -----------------------------
(***************************************************************************)
(* What pull mirroring keeps up about a repository, without rows, leases   *)
(* or clocks: either it is a mirror and only one sync at a time writes to  *)
(* it, or it is writable and only its users do.  A sync that outlives its  *)
(* lease makes the repository contended, where other syncs and the users   *)
(* may write beside it; the promise holds again when the last sync ends.   *)
(***************************************************************************)
CONSTANT Mirror

VARIABLES
  access,   \* "mirror", "syncing", "contended" or "writable", for each repository
  pushed    \* repositories holding commits pushed by their users

Init ==
  /\ access = [m \in Mirror |-> "mirror"]
  /\ pushed = {}

BeginSync(m) ==
  /\ access[m] = "mirror"
  /\ access' = [access EXCEPT ![m] = "syncing"]
  /\ UNCHANGED pushed

\* A running sync makes the branches and tags equal to the upstream's.
Overwrite(m) ==
  /\ access[m] = "syncing"
  /\ pushed' = pushed \ {m}
  /\ UNCHANGED access

\* Running syncs outlive their leases.
Overrun(S) ==
  /\ \A m \in S : access[m] = "syncing"
  /\ access' = [m \in Mirror |-> IF m \in S THEN "contended" ELSE access[m]]
  /\ UNCHANGED pushed

Contend(m) ==
  /\ access[m] = "contended"
  /\ pushed' \in {pushed, pushed \ {m}, pushed \cup {m}}
  /\ UNCHANGED access

\* One sync ends, or all those of a server that dies.  A repository stops
\* being a mirror under a sync only if it was contended.
EndSync(S) ==
  /\ \A m \in S : access[m] \in {"syncing", "contended"}
  /\ \E W \in SUBSET {m \in S : access[m] = "contended"} :
       access' = [m \in Mirror |-> IF m \in W THEN "writable"
                                   ELSE IF m \in S THEN "mirror" ELSE access[m]]
  /\ pushed' \in {pushed, pushed \ S}

StopMirroring(m) ==
  /\ access[m] = "mirror"
  /\ access' = [access EXCEPT ![m] = "writable"]
  /\ UNCHANGED pushed

UserWrite(m) ==
  /\ access[m] = "writable"
  /\ pushed' = pushed \cup {m}
  /\ UNCHANGED access

Next ==
  \/ \E m \in Mirror : BeginSync(m) \/ Overwrite(m) \/ Contend(m) \/ StopMirroring(m) \/ UserWrite(m)
  \/ \E S \in SUBSET Mirror : Overrun(S) \/ EndSync(S)

Spec == Init /\ [][Next]_<<access, pushed>>
=============================================================================
