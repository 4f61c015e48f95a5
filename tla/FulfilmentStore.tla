---------------------------- MODULE FulfilmentStore ----------------------------
(***************************************************************************)
(* What the book-request services share: the rows of book_requests,        *)
(* book_request_downloads and book_dock_files, what the download client    *)
(* holds, the import queue of the process, and the handler activations     *)
(* running in it.  The services are one Node process, so concurrency is    *)
(* the interleaving of activations at their awaits: each action of the     *)
(* component modules is one activation going from one await to the next,   *)
(* which is at most one database statement or one call of a client.        *)
(***************************************************************************)
EXTENDS Integers, FiniteSets, Sequences, BookRequestStatus

CONSTANTS
  Requests,        \* ids of book_requests
  Work,            \* Work[r]: the dedupe key of r
  MaxAttempts,     \* bound on rows of book_request_downloads
  MaxDockFiles,    \* bound on rows of book_dock_files
  Releases,        \* releases, each with one info hash
  NoRelease,       \* the null client_hash of a refused attempt
  Handlers,        \* activations in flight at once, imports of the queue aside
  ImportWorkers    \* the activations of the import queue's handler

ASSUME RequestsAssumption ==
  /\ Requests \subseteq Nat \ {0}
  /\ DOMAIN Work = Requests
ASSUME BoundsAssumption ==
  /\ MaxAttempts \in Nat
  /\ MaxDockFiles \in Nat
ASSUME ReleasesAssumption == NoRelease \notin Releases
ASSUME TasksAssumption ==
  /\ Handlers \cap ImportWorkers = {}
  /\ IsFiniteSet(ImportWorkers)
  /\ ImportWorkers # {}

VARIABLES
  request,   \* request[r]: the row's status and book_dock_file_id
  attempt,   \* attempt[a]: the row, "absent" before it is inserted
  dock,      \* dock[f]: the row and its files
  client,    \* client[h]: the transfer of h in the download client
  task,      \* task[t]: where activation t is, and what it remembers
  pending, queued, running, stopped   \* the import queue

rows == <<request, attempt, dock>>
queueVars == <<pending, queued, running, stopped>>
vars == <<request, attempt, dock, client, task, pending, queued, running, stopped>>

Attempts == 1 .. MaxAttempts
DockFiles == 1 .. MaxDockFiles
Tasks == Handlers \cup ImportWorkers
NoRow == 0

Queue == INSTANCE RequestImportQueue
           WITH Downloads <- Attempts, Concurrency <- Cardinality(ImportWorkers)

-------------------------------------------------------------------------------
(***************************************************************************)
(* Rows.                                                                   *)
(***************************************************************************)

AbsentAttempt ==
  [status |-> "absent", request |-> NoRow, release |-> NoRelease,
   dock |-> NoRow, units |-> FALSE, automated |-> FALSE]

FreeDockFile == [state |-> "free", attempt |-> NoRow]

\* The request row is inside the partial unique index on the dedupe key when
\* its status is active: no other active request may hold the same key.
KeyFree(r) ==
  \A q \in Requests \ {r} :
     Work[q] = Work[r] => request[q].status \notin ActiveRequest

\* The partial unique index on the hash of an unsettled attempt.
HashFree(h, a) ==
  \A b \in Attempts \ {a} :
     attempt[b].release = h => attempt[b].status \notin Unsettled

Created(a) == attempt[a].status # "absent"

\* findLatestForRequests: the newest attempt of r is the one with the largest id.
IsLatest(a, r) ==
  /\ Created(a)
  /\ attempt[a].request = r
  /\ \A b \in Attempts : Created(b) /\ attempt[b].request = r => b <= a

NoAttemptOf(r) == \A a \in Attempts : Created(a) => attempt[a].request # r

\* Serial ids: the next row is the smallest one not used yet.
IsNextAttempt(a) ==
  /\ ~Created(a)
  /\ \A b \in 1 .. a - 1 : Created(b)

IsNextDockFile(f) ==
  /\ dock[f].state = "free"
  /\ \A e \in 1 .. f - 1 : dock[e].state # "free"

\* The dock row exists: "claimed" has no files yet, "placed" has them.
DockRow(f) == f # NoRow /\ dock[f].state \in {"claimed", "placed"}

\* updateIf of the request repository, result discarded.
UpdateRequestIf(r, from, s) ==
  request' = IF request[r].status \in from
               THEN [request EXCEPT ![r].status = s]
               ELSE request

SetAttempt(a, s) == attempt' = [attempt EXCEPT ![a].status = s]

\* Deleting the dock row empties both columns that reference it (on delete set null).
Unlink(row, f) == IF row.dock = f THEN [row EXCEPT !.dock = NoRow] ELSE row

DeleteDockRow(f, state) ==
  /\ dock' = IF DockRow(f) THEN [dock EXCEPT ![f].state = state] ELSE dock
  /\ request' = [r \in Requests |-> Unlink(request[r], f)]
  /\ attempt' = [a \in Attempts |-> Unlink(attempt[a], f)]

-------------------------------------------------------------------------------
(***************************************************************************)
(* Handler activations.  "was" is a status the activation read and still   *)
(* acts on; "says" is what the client answered, or which caller's          *)
(* continuation a shared step returns to.                                  *)
(***************************************************************************)

Idle ==
  [pc |-> "idle", request |-> NoRow, attempt |-> NoRow, dock |-> NoRow,
   was |-> "none", says |-> "none"]

Free(t) == t \in Handlers /\ task[t] = Idle
At(t, pc) == task[t].pc = pc
Go(t, pc) == task' = [task EXCEPT ![t].pc = pc]

\* The activation returns.  An import of the queue still has the queue's own
\* continuation to run.
Return(t) ==
  task' = [task EXCEPT ![t] = IF t \in ImportWorkers
                                THEN [@ EXCEPT !.pc = "import_done"]
                                ELSE Idle]

Importing ==
  {"import_extract", "import_claim", "import_undo", "import_refused",
   "import_record", "import_place", "import_reclaim_dock", "import_reclaim",
   "import_rerecord"}

\* The places of an unattended pass outside its grabs.
Searching == {"auto_claim", "auto_search", "auto_grab", "auto_failed"}

Grabbing ==
  {"grab_claim", "grab_resolve", "grab_create", "grab_add", "grab_failed",
   "grab_rollback", "grab_confirm"}

Pcs ==
  Importing \cup Grabbing \cup Searching \cup
  {"idle", "adopt", "abandon", "import_done", "choose_claim", "poll_apply", "poll_request",
   "resume", "fail_attempt", "fail_request", "hold_attempt", "hold_request",
   "verify", "file_read", "file_move", "file_request", "file_attempt",
   "file_refused", "discard_request", "discard_attempt", "discard_dock",
   "discard_undo_attempt", "discard_undo_request", "latest", "detach",
   "fail_in_flight", "after_removal", "fulfil_attempts"}

-------------------------------------------------------------------------------
(***************************************************************************)
(* failDownload: the attempt first, then the request, each conditionally.  *)
(***************************************************************************)

FailAttempt(t) ==
  LET a == task[t].attempt IN
  /\ At(t, "fail_attempt")
  /\ \/ /\ attempt[a].status \in Unsettled
        /\ SetAttempt(a, "failed")
        /\ Go(t, "fail_request")
     \/ /\ attempt[a].status \notin Unsettled
        /\ Return(t)
        /\ UNCHANGED attempt
  /\ UNCHANGED <<request, dock, client, queueVars>>

\* Mutant: the request is failed whatever became of it.
FailRequestAlways(t) ==
  /\ At(t, "fail_request")
  /\ request' = [request EXCEPT ![attempt[task[t].attempt].request].status = "failed"]
  /\ Return(t)
  /\ UNCHANGED <<attempt, dock, client, queueVars>>

FailRequest(t) ==
  /\ At(t, "fail_request")
  /\ UpdateRequestIf(attempt[task[t].attempt].request, WorkerWritable, "failed")
  /\ Return(t)
  /\ UNCHANGED <<attempt, dock, client, queueVars>>

(***************************************************************************)
(* holdForReview: the attempt, with the choice of books it carries, then   *)
(* the request.  A failed request whose work has been requested again      *)
(* cannot go back inside the dedupe index, and the write throws: an import *)
(* turns that into failDownload, anything else only logs it.               *)
(***************************************************************************)

HoldAttempt(t) ==
  LET a == task[t].attempt IN
  /\ At(t, "hold_attempt")
  /\ \/ /\ attempt[a].status \in Unsettled
        /\ attempt' = [attempt EXCEPT ![a].status = "needs_review",
                                      ![a].units = (task[t].says = "choice")]
        /\ Go(t, "hold_request")
     \/ /\ attempt[a].status \notin Unsettled
        /\ Return(t)
        /\ UNCHANGED attempt
  /\ UNCHANGED <<request, dock, client, queueVars>>

HoldRequest(t) ==
  LET r == attempt[task[t].attempt].request
      throws == request[r].status = "failed" /\ ~KeyFree(r)
  IN
  /\ At(t, "hold_request")
  /\ \/ /\ ~throws
        /\ UpdateRequestIf(r, WorkerWritable, "needs_review")
        /\ Return(t)
     \/ /\ throws
        /\ IF task[t].says \in {"choice", "truncated"}
             THEN Go(t, "fail_attempt")
             ELSE Return(t)
        /\ UNCHANGED request
  /\ UNCHANGED <<attempt, dock, client, queueVars>>
===============================================================================
