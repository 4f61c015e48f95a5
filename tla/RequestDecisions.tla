---------------------------- MODULE RequestDecisions ----------------------------
(***************************************************************************)
(* What people do to a request: approve, reject, cancel, mark fulfilled,   *)
(* stop its download, remove its download from the client, and discard a   *)
(* file in the Book Dock.  The last five go through DownloadRemovalService, *)
(* which asks the client and then writes the attempt it had read before.   *)
(***************************************************************************)
EXTENDS FulfilmentStore

Decide(r, from, s) ==
  /\ request[r].status \in from
  /\ request' = [request EXCEPT ![r].status = s]
  /\ UNCHANGED <<attempt, dock, client, task, queueVars>>

\* Both read the row and then write it under the same condition.
Approve(r) == Decide(r, {"pending"}, "approved")
Reject(r) == Decide(r, {"pending"}, "rejected")

Begin(t, pc, r, a, says) ==
  task' = [task EXCEPT ![t].pc = pc, ![t].request = r, ![t].attempt = a, ![t].says = says]

\* cancel: the transition first, and only then the client.
Cancel(t, r) ==
  /\ Free(t)
  /\ request[r].status \in Cancellable
  /\ request' = [request EXCEPT ![r].status = "cancelled"]
  /\ Begin(t, "latest", r, NoRow, "cancel")
  /\ UNCHANGED <<attempt, dock, client, queueVars>>

\* markFulfilled: the client first, and only then the transition.  Whoever closes the request
\* names a row of the dock, whosever attempt it belongs to, or a book of the library.
MarkFulfilled(t, r) ==
  /\ Free(t)
  /\ request[r].status \in Fulfillable
  /\ \E f \in DockFiles \cup {NoRow} :
       /\ f = NoRow \/ DockRow(f)
       /\ task' = [task EXCEPT ![t].pc = "latest", ![t].request = r, ![t].dock = f,
                               ![t].says = "fulfil"]
  /\ UNCHANGED <<rows, client, queueVars>>

\* cancelDownload: stop the transfer, keep the request.
StopDownload(t, a) ==
  /\ Free(t)
  /\ attempt[a].status \in ActiveAttempt
  /\ Begin(t, "detach", attempt[a].request, a, "stop")
  /\ UNCHANGED <<rows, client, queueVars>>

\* removeFromClient: the route behind the seed panel, for any attempt with a client.
RemoveFromClient(t, a) ==
  /\ Free(t)
  /\ Created(a)
  /\ attempt[a].release # NoRelease
  /\ Begin(t, "detach", attempt[a].request, a, "remove")
  /\ UNCHANGED <<rows, client, queueVars>>

\* Where an activation goes once the attempt is out of the client and settled.
\* Only a removal that failed a working attempt has something left to write,
\* unless the request is being settled anyway.
AfterRemoval(t, wasInFlight) ==
  IF task[t].says = "fulfil" \/ (task[t].says \in {"stop", "remove"} /\ wasInFlight)
    THEN Go(t, "after_removal")
    ELSE Return(t)

\* removeLatestForRequest: a refused attempt was never handed to anything, and
\* has no client to be removed from.
Latest(t) ==
  LET r == task[t].request IN
  /\ At(t, "latest")
  /\ \/ \E a \in Attempts :
          /\ IsLatest(a, r)
          /\ attempt[a].release # NoRelease
          /\ task' = [task EXCEPT ![t].pc = "detach", ![t].attempt = a]
     \/ /\ \/ NoAttemptOf(r)
           \/ \E a \in Attempts : IsLatest(a, r) /\ attempt[a].release = NoRelease
        /\ AfterRemoval(t, FALSE)
  /\ UNCHANGED <<rows, client, queueVars>>

Detach(t) ==
  /\ At(t, "detach")
  /\ client' = [client EXCEPT ![attempt[task[t].attempt].release] = "absent"]
  /\ Go(t, "fail_in_flight")
  /\ UNCHANGED <<rows, queueVars>>

\* The client refuses: a person who asked for the removal itself is told, and
\* one who is settling the request is not kept from it.
DetachRefused(t) ==
  /\ At(t, "detach")
  /\ IF task[t].says \in {"cancel", "fulfil"} THEN Go(t, "fail_in_flight") ELSE Return(t)
  /\ UNCHANGED <<rows, client, queueVars>>

FailInFlight(t) ==
  LET a == task[t].attempt
      wasInFlight == attempt[a].status \in InFlight
  IN
  /\ At(t, "fail_in_flight")
  /\ attempt' = IF wasInFlight THEN [attempt EXCEPT ![a].status = "failed"] ELSE attempt
  /\ AfterRemoval(t, wasInFlight)
  /\ UNCHANGED <<request, dock, client, queueVars>>

\* cancelDownload's and removeFromClient's last write.
Settle(t, says, from, s) ==
  /\ At(t, "after_removal")
  /\ task[t].says = says
  /\ UpdateRequestIf(task[t].request, from, s)
  /\ Return(t)
  /\ UNCHANGED <<attempt, dock, client, queueVars>>

SettleStopped(t) == Settle(t, "stop", ActiveTransfer, "approved")
SettleRemoved(t) == Settle(t, "remove", WorkerWritable, "failed")

\* markFulfilled's transition, and then every attempt still in flight.
SettleFulfilled(t) ==
  LET r == task[t].request
      f == task[t].dock
  IN
  /\ At(t, "after_removal")
  /\ task[t].says = "fulfil"
  /\ \/ /\ request[r].status \in Fulfillable
        /\ f = NoRow \/ DockRow(f)
        /\ request' = [request EXCEPT ![r].status = "available", ![r].dock = f]
        /\ Go(t, "fulfil_attempts")
     \/ /\ request[r].status \notin Fulfillable
        /\ Return(t)
        /\ UNCHANGED request
  /\ UNCHANGED <<attempt, dock, client, queueVars>>

\* The row of the dock has gone since it was named: the foreign key refuses the write, and
\* what the removal did stays done.
SettleRefused(t) ==
  /\ At(t, "after_removal")
  /\ task[t].says = "fulfil"
  /\ request[task[t].request].status \in Fulfillable
  /\ task[t].dock # NoRow /\ ~DockRow(task[t].dock)
  /\ Return(t)
  /\ UNCHANGED <<rows, client, queueVars>>

FailInFlightForRequest(t) ==
  /\ At(t, "fulfil_attempts")
  /\ attempt' = [a \in Attempts |->
       IF attempt[a].request = task[t].request /\ attempt[a].status \in InFlight
         THEN [attempt[a] EXCEPT !.status = "failed"] ELSE attempt[a]]
  /\ Return(t)
  /\ UNCHANGED <<request, dock, client, queueVars>>

\* BookDockService.discardFile, from the Book Dock's own screen.
DiscardDockFile(f) ==
  /\ DockRow(f)
  /\ DeleteDockRow(f, "dropped")
  /\ UNCHANGED <<client, task, queueVars>>

RemovalStep(t) ==
  \/ Latest(t)
  \/ Detach(t)
  \/ DetachRefused(t)
  \/ FailInFlight(t)
  \/ SettleStopped(t)
  \/ SettleRemoved(t)
  \/ SettleFulfilled(t)
  \/ FailInFlightForRequest(t)
===============================================================================
