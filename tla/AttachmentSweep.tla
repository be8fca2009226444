---------------------------- MODULE AttachmentSweep ----------------------------
(***************************************************************************)
(* The images pasted into the markdown of one repository.  An upload       *)
(* stores the object, then its row; tasks that remove attachments - the    *)
(* hourly sweep, and the purge of a repository - list rows first, and then *)
(* delete each object and each row, while users write and edit the bodies  *)
(* that hold an image, the repository is deleted or restored, storage and  *)
(* database fail and the server restarts.                                  *)
(*                                                                         *)
(* Not modelled: a server's clock that runs ahead of the database's by     *)
(* most of a day.                                                          *)
(***************************************************************************)
CONSTANTS
  Attachment,
  Sweeper      \* goroutines that remove attachments

VARIABLES
  repo,    \* the row of the repository
  upload,  \* what the upload of each attachment is doing
  objects, \* the storage backend
  rows,    \* attachments
  aged,    \* uploaded longer ago than AttachmentGrace
  inBody,    \* a body in the database holds the token
  sweep,   \* what each goroutine has listed and is removing
  idle,    \* history: were aged while no body held them
  rowed    \* history: had a row

fileVars == <<objects, rows, rowed>>
vars == <<repo, upload, fileVars, aged, inBody, sweep, idle>>

Off == [list |-> {}, removed |-> {}]

TypeOK ==
  /\ repo \in {"live", "deleted", "gone"}
  /\ upload \in [Attachment -> {"none", "put", "create", "clean", "ok", "failed"}]
  /\ objects \subseteq Attachment /\ rows \subseteq rowed /\ rowed \subseteq Attachment
  /\ aged \subseteq rowed /\ inBody \subseteq Attachment /\ idle \subseteq aged
  /\ sweep \in [Sweeper -> [list : SUBSET Attachment, removed : SUBSET Attachment]]

Init ==
  /\ repo = "live"
  /\ upload = [a \in Attachment |-> "none"]
  /\ objects = {} /\ rows = {} /\ rowed = {}
  /\ aged = {} /\ inBody = {} /\ idle = {}
  /\ sweep = [s \in Sweeper |-> Off]

-----------------------------------------------------------------------------
(* Uploads *)

Goto(a, s) == upload' = [upload EXCEPT ![a] = s]

BeginUpload(a) ==
  /\ upload[a] = "none" /\ repo = "live"
  /\ Goto(a, "put")
  /\ UNCHANGED <<repo, fileVars, aged, inBody, sweep>>

\* A backend that fails may have stored the object: nothing removes it.
Put(a) ==
  /\ upload[a] = "put"
  /\ \/ Goto(a, "create") /\ objects' = objects \cup {a}
     \/ Goto(a, "failed") /\ objects' \in {objects, objects \cup {a}}
  /\ UNCHANGED <<repo, rows, rowed, aged, inBody, sweep>>

\* A cancelled insert may have committed.  The repository need not exist.
Create(a) ==
  /\ upload[a] = "create"
  /\ \/ Goto(a, "ok") /\ rows' = rows \cup {a}
     \/ Goto(a, "clean") /\ rows' \in {rows, rows \cup {a}}
  /\ rowed' = rowed \cup rows'
  /\ UNCHANGED <<repo, objects, aged, inBody, sweep>>

\* deleteObject logs its failure.
Clean(a) ==
  /\ upload[a] = "clean"
  /\ objects' \in {objects, objects \ {a}}
  /\ Goto(a, "failed")
  /\ UNCHANGED <<repo, rows, rowed, aged, inBody, sweep>>

-----------------------------------------------------------------------------
(* Bodies and the repository *)

Write(a) ==
  /\ upload[a] = "ok"
  /\ inBody' = inBody \cup {a}
  /\ UNCHANGED <<repo, upload, fileVars, aged, sweep>>

\* The body is edited or deleted.
Erase(a) ==
  /\ inBody' = inBody \ {a}
  /\ UNCHANGED <<repo, upload, fileVars, aged, sweep>>

Age(a) ==
  /\ a \in rows
  /\ aged' = aged \cup {a}
  /\ UNCHANGED <<repo, upload, fileVars, inBody, sweep>>

SoftDelete ==
  /\ repo = "live" /\ repo' = "deleted"
  /\ UNCHANGED <<upload, fileVars, aged, inBody, sweep>>

Restore ==
  /\ repo = "deleted" /\ repo' = "live"
  /\ UNCHANGED <<upload, fileVars, aged, inBody, sweep>>

\* The bodies of the repository go with its row, others may hold a token still.
RowGoes == repo' = "gone" /\ inBody' \in SUBSET inBody

\* The row, a month after it was deleted; DeleteForRepo reads what to remove.
PurgeExpired(s) ==
  /\ repo = "deleted" /\ sweep[s] = Off
  /\ \A a \in Attachment : upload[a] \in {"none", "ok", "failed"}
  /\ rows \subseteq aged
  /\ RowGoes
  /\ \/ sweep' = [sweep EXCEPT ![s].list = rows]
     \/ UNCHANGED sweep
  /\ UNCHANGED <<upload, fileVars, aged>>

\* The account or the organization that owns it is deleted.
DeleteOwner ==
  /\ repo # "gone" /\ RowGoes
  /\ UNCHANGED <<upload, fileVars, aged, sweep>>

-----------------------------------------------------------------------------
(* Removing *)

\* A mutant: the cutoff is forgotten.
AnyUnheld == IF repo = "gone" THEN rows ELSE rows \ inBody

Sweepable == IF repo = "gone" THEN rows ELSE (rows \cap aged) \ inBody

\* A batch of some of them; Sweep lists the next one at once, or in an hour.
ListSweepable(s) ==
  /\ sweep[s] = Off
  /\ \E list \in (SUBSET Sweepable) \ {{}} : sweep' = [sweep EXCEPT ![s].list = list]
  /\ UNCHANGED <<repo, upload, fileVars, aged, inBody>>

\* A mutant: remove goes on to the row of an object it couldn't delete.
RemoveAnyway(s) ==
  \E a \in sweep[s].list :
    /\ sweep[s].removed = {}
    /\ objects' \in {objects, objects \ {a}}
    /\ sweep' = [sweep EXCEPT ![s] = [list |-> @.list \ {a}, removed |-> {a}]]
    /\ UNCHANGED <<repo, upload, rows, rowed, aged, inBody>>

\* One attachment at a time; one whose object can't be deleted is left.
RemoveObject(s) ==
  \E a \in sweep[s].list :
    /\ sweep[s].removed = {}
    /\ \/ /\ objects' = objects \ {a}
          /\ sweep' = [sweep EXCEPT ![s] = [list |-> @.list \ {a}, removed |-> {a}]]
       \/ /\ objects' \in {objects, objects \ {a}}
          /\ sweep' = [sweep EXCEPT ![s].list = @ \ {a}]
    /\ UNCHANGED <<repo, upload, rows, rowed, aged, inBody>>

\* One whose row can't be deleted is left to the next sweep.
RemoveRow(s) ==
  /\ sweep[s].removed # {}
  /\ rows' \in {rows, rows \ sweep[s].removed}
  /\ sweep' = [sweep EXCEPT ![s].removed = {}]
  /\ UNCHANGED <<repo, upload, objects, rowed, aged, inBody>>

Restart ==
  /\ upload' = [a \in Attachment |-> IF upload[a] \in {"put", "create", "clean"} THEN "failed" ELSE upload[a]]
  /\ sweep' = [s \in Sweeper |-> Off]
  /\ UNCHANGED <<repo, fileVars, aged, inBody>>

Upload(a) == BeginUpload(a) \/ Put(a) \/ Create(a) \/ Clean(a)
Remove(s) == PurgeExpired(s) \/ ListSweepable(s) \/ RemoveObject(s) \/ RemoveRow(s)

Step ==
  \/ \E a \in Attachment : Upload(a) \/ Write(a) \/ Erase(a) \/ Age(a)
  \/ \E s \in Sweeper : Remove(s)
  \/ SoftDelete \/ Restore \/ DeleteOwner \/ Restart

Next == Step /\ idle' = idle \cup (aged' \ inBody')

Spec == Init /\ [][Next]_vars

-----------------------------------------------------------------------------
(* Properties *)

\* An image keeps its row and its object while its repository has a row,
\* deleted or not, unless there was a moment after its grace at which no body
\* held it: a comment written around a fresh upload never loses it to a sweep
\* that listed rows before.
KeptWhileUsed ==
  repo # "gone" => \A a \in Attachment \ idle : upload[a] = "ok" => a \in rows \cap objects

\* An object that had a row has one until the object is gone, so that the sweep
\* finds it again whatever failed: nothing else would ever delete it.
ObjectKeepsRow == objects \cap rowed \subseteq rows
=============================================================================
