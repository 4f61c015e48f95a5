--------------------------- MODULE BookRequestStatus ---------------------------
(***************************************************************************)
(* The statuses of a book request and of one download attempt, and the     *)
(* subsets the server's conditional writes are guarded by.                 *)
(***************************************************************************)

RequestStatuses ==
  {"pending", "approved", "rejected", "cancelled", "searching", "grabbed",
   "downloading", "importing", "needs_review", "available", "failed"}

\* Statuses that hold the dedupe claim on the requested work.
ActiveRequest ==
  {"pending", "approved", "searching", "grabbed", "downloading", "importing",
   "needs_review"}

Grabbable == {"approved", "searching", "failed"}

\* One set in the code under three names: Fulfillable, Cancellable, WorkerWritable.
WorkerWritable == ActiveRequest \cup {"failed"}
Cancellable == WorkerWritable
Fulfillable == WorkerWritable

\* What WorkerWritable leaves out: the decisions a person expects to stand.
Decided == {"cancelled", "rejected", "available"}

ActiveTransfer == {"grabbed", "downloading"}
FileableFrom == {"importing", "needs_review"}

AttemptStatuses ==
  {"queued", "downloading", "completed", "importing", "needs_review",
   "imported", "failed"}

ActiveAttempt == {"queued", "downloading"}
InFlight == ActiveAttempt \cup {"completed", "importing"}
Unsettled == InFlight \cup {"needs_review"}
===============================================================================
