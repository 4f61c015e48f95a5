---------------------------- MODULE RequestPromises ----------------------------
(***************************************************************************)
(* What the fulfilment pipeline promises: safety and liveness properties   *)
(* of RequestFulfilment, and the lifecycle it implements.                  *)
(***************************************************************************)
EXTENDS RequestFulfilment

(***************************************************************************)
(* Decisions and claims.                                                   *)
(***************************************************************************)

\* Cancelled, rejected and available stay so, whatever the grabs, polls, imports,
\* holds and sweeps that began before the decision still write: every write of a
\* request's status is conditional on a status that is not one of these.
DecisionsStand ==
  [][\A r \in Requests :
       request[r].status \in Decided => request'[r].status = request[r].status]_vars

\* Two requests for one work are never live together, although a failed one may be
\* retried, held, imported or undone long after somebody asked again.
OneClaimPerWork ==
  \A q, r \in Requests :
    q # r /\ Work[q] = Work[r] =>
      ~(request[q].status \in ActiveRequest /\ request[r].status \in ActiveRequest)

\* Each request lives the life RequestLifecycle describes, however many services
\* write its status: every step of the pipeline is one move of one request, or none.
Lifecycle == INSTANCE RequestLifecycle
               WITH status <- [r \in Requests |-> request[r].status]
ImplementsLifecycle == Lifecycle!Spec

(***************************************************************************)
(* One download, one book.                                                 *)
(***************************************************************************)

\* A download that failed or was imported is never polled or offered to the import
\* queue again: no late poll or sweep brings it back.
SettledAttemptsAreNotRevived ==
  [][\A a \in Attempts :
       attempt[a].status \in {"failed", "imported"} =>
         attempt'[a].status \notin ActiveAttempt \cup {"completed"}]_vars

\* No two imports of one download are under way: the completion path, the resume
\* sweep and an approver's choice all offer it, and placing it twice would put its
\* files into the dock twice.
OneImportPerAttempt ==
  \A t, u \in Tasks :
    t # u /\ task[t].pc \in Importing /\ task[u].pc \in Importing =>
      task[t].attempt # task[u].attempt

Filed(a) == {f \in DockFiles : dock[f].state = "filed" /\ dock[f].attempt = a}

\* A download becomes at most one book, through retried name collisions, repeated
\* offers and crashes half way through an import.
OneBookPerAttempt == \A a \in Attempts : Cardinality(Filed(a)) <= 1

\* An attempt that says it was imported did put a book into the library.
ImportedIsFiled ==
  \A a \in Attempts : attempt[a].status = "imported" => Filed(a) # {}

\* Where nobody marks requests fulfilled by hand, a request that is available has
\* its book: a discard or a failed filing never reads as an arrival.
AvailableIsFiled ==
  \A r \in Requests :
    request[r].status = "available" =>
      \E a \in Attempts : attempt[a].request = r /\ Filed(a) # {}

\* Where nobody takes a transfer away by hand and none fails or is imported, a request
\* has one at a time: claimForGrab is taken before anything external happens, whoever
\* grabs, and an adoption takes back a failed transfer only if none was started since.
OneTransferPerRequest ==
  \A a, b \in Attempts :
    a # b /\ attempt[a].status \in ActiveAttempt /\ attempt[b].status \in ActiveAttempt =>
      attempt[a].request # attempt[b].request

Carries(a, r) == attempt[a].request = r /\ attempt[a].status \in InFlight

\* Under the same conditions a request that has a transfer says so until it is decided:
\* no unattended pass, sweep, refused add or adoption writes what it made of an earlier
\* state over a transfer that somebody has started since.
LiveTransferIsShown ==
  \A a \in Attempts :
    attempt[a].status \in ActiveAttempt =>
      request[attempt[a].request].status \in ActiveTransfer \cup Decided

\* The sweep for requests nobody ever picked a release for acts on a list read earlier;
\* it does not cancel one whose owner has picked a release in between.
AbandonmentSparesTransfers ==
  [][\A t \in Handlers :
       At(t, "abandon") /\ ~At(t, "abandon")'
       /\ (\E a \in Attempts : Carries(a, task[t].request)) =>
         UNCHANGED request]_vars

(***************************************************************************)
(* Nothing is left behind.  Requests and attempts are written one after    *)
(* the other, so these hold when no activation is between two writes.      *)
(***************************************************************************)
Quiet == \A t \in Tasks : task[t] = Idle

\* A request in one of the statuses only a worker moves on has an attempt that
\* will move it, and one that is held has the attempt a person can file or discard.
NoRequestIsStranded ==
  Quiet =>
    \A r \in Requests :
      /\ request[r].status \in ActiveTransfer \cup {"importing"} =>
           \E a \in Attempts : Carries(a, r)
      /\ request[r].status = "needs_review" =>
           \E a \in Attempts : IsLatest(a, r) /\ attempt[a].status = "needs_review"

\* Every row an import put into the dock is one an attempt or a request knows of.
DockFilesAreOwned ==
  Quiet =>
    \A f \in DockFiles :
      DockRow(f) =>
        \/ \E a \in Attempts : attempt[a].dock = f
        \/ \E r \in Requests : request[r].dock = f

(***************************************************************************)
(* Progress.  A process that shuts down is started again, and at some      *)
(* point stays up; an activation goes on; the queue's handler is called;   *)
(* the resume sweep and the sweep for stuck imports come round again for   *)
(* ever, each attempt getting its turn although the model has only a few   *)
(* activations to give them.  The second is relied on only for what the    *)
(* first does not look at.                                                 *)
(***************************************************************************)
Sweeps(a) ==
  /\ SF_vars(\E t \in Handlers : ResumeRead(t, a))
  /\ SF_vars(attempt[a].status = "importing" /\ \E t \in Handlers : WatchdogRead(t, a))

Fairness ==
  /\ <>[][~Restart]_vars
  /\ WF_vars(stopped /\ Restart)
  /\ \A t \in Tasks : WF_vars(Step(t))
  /\ \A w \in ImportWorkers : WF_vars(ImportStart(w))
  /\ \A a \in Attempts : Sweeps(a)

FairSpec == Spec /\ Fairness

Unfinished == {"completed", "importing"}

\* A finished download does not wait for its import for ever, whether the process
\* died before it was queued, while it waited, or between two of its writes: it is
\* imported, held for a person or failed.
FinishedDownloadsAreSettled ==
  \A a \in Attempts :
    attempt[a].status \in Unfinished ~> attempt[a].status \notin Unfinished
===============================================================================
