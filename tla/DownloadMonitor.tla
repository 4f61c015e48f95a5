---------------------------- MODULE DownloadMonitor ----------------------------
(***************************************************************************)
(* DownloadMonitorService: the poll of a download client, applied to rows  *)
(* read before it was asked, and the hand-off of finished downloads to the *)
(* import queue.  Also the download client itself, as far as a poll can    *)
(* tell, and the watchdog's sweeps over attempts.                          *)
(*                                                                         *)
(* Every attempt is taken to be at a poll target of its own, so the polls  *)
(* of different attempts overlap; pollsInFlight keeps those of one attempt *)
(* apart.                                                                  *)
(***************************************************************************)
EXTENDS FulfilmentStore

(***************************************************************************)
(* The download client (external).                                         *)
(***************************************************************************)
Advance(h, from, to) ==
  /\ client[h] = from
  /\ client' = [client EXCEPT ![h] = to]
  /\ UNCHANGED <<rows, task, queueVars>>

ClientCompletes(h) == Advance(h, "running", "done")
ClientErrors(h) == Advance(h, "running", "errored")
\* Somebody removes the torrent in the client's own interface.
ClientForgets(h) == Advance(h, "running", "absent")

(***************************************************************************)
(* One attempt's share of a poll.  The row is read and the client answers; *)
(* what the answer causes is written later, against the row as it then is. *)
(***************************************************************************)
BeingAdded(a) ==
  \E t \in Handlers :
    task[t].attempt = a /\ task[t].pc \in {"grab_add", "grab_failed", "grab_confirm"}

BeingPolled(a) ==
  \E t \in Handlers :
    /\ task[t].attempt = a
    /\ task[t].says \in {"queued", "downloading", "completed", "failing"}

Answers(h) ==
  CASE client[h] = "running" -> {"queued", "downloading"}
    [] client[h] = "done"    -> {"completed"}
    [] OTHER                 -> {"failing"}

\* A missing torrent fails its attempt only after a grace period that is longer
\* than an add takes; until then the poll does nothing.
PollRead(t, a) ==
  /\ Free(t)
  /\ attempt[a].status \in ActiveAttempt
  /\ ~BeingPolled(a)
  /\ client[attempt[a].release] = "absent" => ~BeingAdded(a)
  /\ \E says \in Answers(attempt[a].release) :
       task' = [task EXCEPT ![t].pc = IF says = "failing" THEN "fail_attempt" ELSE "poll_apply",
                            ![t].attempt = a,
                            ![t].was = attempt[a].status,
                            ![t].says = says]
  /\ UNCHANGED <<rows, client, queueVars>>

\* The end of applyStatus: a completed download is offered to the import queue.
HandOff(t) ==
  /\ IF task[t].says = "completed"
       THEN Queue!Enqueue(task[t].attempt)
       ELSE UNCHANGED queueVars
  /\ Return(t)

\* Mutant: a late answer is written whatever the attempt has become.
PollApplyLate(t) ==
  LET a == task[t].attempt IN
  /\ At(t, "poll_apply")
  /\ SetAttempt(a, task[t].says)
  /\ HandOff(t)
  /\ UNCHANGED <<request, dock, client>>

PollApply(t) ==
  LET a == task[t].attempt
      moved == attempt[a].status \in ActiveAttempt
      started == task[t].was = "queued" /\ task[t].says # "queued"
  IN
  /\ At(t, "poll_apply")
  /\ \/ /\ moved
        /\ SetAttempt(a, task[t].says)
        /\ \/ started /\ Go(t, "poll_request") /\ UNCHANGED queueVars
           \/ ~started /\ HandOff(t)
     \/ /\ ~moved
        /\ Return(t)
        /\ UNCHANGED <<attempt, queueVars>>
  /\ UNCHANGED <<request, dock, client>>

\* Mutant: guarded by what a worker may write, and not by the transfer statuses.
PollRequestFromAny(t) ==
  /\ At(t, "poll_request")
  /\ UpdateRequestIf(attempt[task[t].attempt].request, WorkerWritable, "downloading")
  /\ HandOff(t)
  /\ UNCHANGED <<attempt, dock, client>>

PollRequest(t) ==
  /\ At(t, "poll_request")
  /\ UpdateRequestIf(attempt[task[t].attempt].request, ActiveTransfer, "downloading")
  /\ HandOff(t)
  /\ UNCHANGED <<attempt, dock, client>>

(***************************************************************************)
(* resumeUnimported: a completed download with no dock row is offered to   *)
(* the queue, on the strength of a row read before.                        *)
(***************************************************************************)
\* Mutant: the sweep looks for downloads that have a dock row.
ResumeReadPlaced(t, a) ==
  /\ Free(t)
  /\ attempt[a].status = "completed"
  /\ attempt[a].dock # NoRow
  /\ task' = [task EXCEPT ![t].pc = "resume", ![t].attempt = a]
  /\ UNCHANGED <<rows, client, queueVars>>

ResumeRead(t, a) ==
  /\ Free(t)
  /\ attempt[a].status = "completed"
  /\ attempt[a].dock = NoRow
  /\ task' = [task EXCEPT ![t].pc = "resume", ![t].attempt = a]
  /\ UNCHANGED <<rows, client, queueVars>>

ResumeEnqueue(t) ==
  /\ At(t, "resume")
  /\ Queue!Enqueue(task[t].attempt)
  /\ Return(t)
  /\ UNCHANGED <<rows, client>>

(***************************************************************************)
(* RequestWatchdogService.failStalled and failStuckImports.  Twelve hours  *)
(* without progress outlast any add; the heartbeat keeps the members of    *)
(* the import queue younger than the hour a stuck import is given.         *)
(***************************************************************************)
Overdue(a) ==
  \/ attempt[a].status \in ActiveAttempt /\ ~BeingAdded(a)
  \/ attempt[a].status \in {"completed", "importing"} /\ a \notin Queue!Members

WatchdogRead(t, a) ==
  /\ Free(t)
  /\ Overdue(a)
  /\ task' = [task EXCEPT ![t].pc = "fail_attempt", ![t].attempt = a]
  /\ UNCHANGED <<rows, client, queueVars>>

MonitorStep(t) == PollApply(t) \/ PollRequest(t) \/ ResumeEnqueue(t)

MonitorStart(t) == \E a \in Attempts : PollRead(t, a) \/ ResumeRead(t, a)

WatchdogStart(t) == \E a \in Attempts : WatchdogRead(t, a)

ClientProgress == \E h \in Releases : ClientCompletes(h)

ClientFailure == \E h \in Releases : ClientErrors(h) \/ ClientForgets(h)
===============================================================================
