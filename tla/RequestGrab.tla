------------------------------ MODULE RequestGrab ------------------------------
(***************************************************************************)
(* RequestFulfillmentService.grab and startGrab: claim the request, ask    *)
(* the source, record the attempt, hand it to the download client, and     *)
(* give the claim back when any of that fails.                             *)
(***************************************************************************)
EXTENDS FulfilmentStore

\* The attempt rows that grabs in progress may still insert.
Reserved ==
  Cardinality({t \in Handlers :
    task[t].pc \in {"auto_grab", "grab_claim", "grab_resolve", "grab_create"}})

\* Bound: no grab starts that could not record its attempt.
RoomForAttempt ==
  Cardinality({a \in Attempts : Created(a)}) + Reserved < MaxAttempts

\* A grab for nobody: an unattended pass goes on after it, unless it worked.
Unattended(t) == task[t].says \in {"unattended", "retry"}

\* Mutant: the status to go back to is not kept.
GrabReadForgets(t, r) ==
  /\ Free(t)
  /\ RoomForAttempt
  /\ request[r].status \in Grabbable
  /\ task' = [task EXCEPT ![t].pc = "grab_claim", ![t].request = r]
  /\ UNCHANGED <<rows, client, queueVars>>

\* grab(): the row is read, and refused unless its status is grabbable.
GrabRead(t, r) ==
  /\ Free(t)
  /\ RoomForAttempt
  /\ request[r].status \in Grabbable
  /\ task' = [task EXCEPT ![t].pc = "grab_claim", ![t].request = r,
                          ![t].was = request[r].status]
  /\ UNCHANGED <<rows, client, queueVars>>

\* Mutant: the claim trusts the status that was read.
GrabClaimUnchecked(t) ==
  /\ At(t, "grab_claim")
  /\ request' = [request EXCEPT ![task[t].request].status = "grabbed"]
  /\ Go(t, "grab_resolve")
  /\ UNCHANGED <<attempt, dock, client, queueVars>>

\* Mutant: the claim does not come back inside the dedupe index.
GrabClaimOutsideIndex(t) ==
  LET r == task[t].request IN
  /\ At(t, "grab_claim")
  /\ request[r].status \in Grabbable
  /\ request' = [request EXCEPT ![r].status = "grabbed"]
  /\ Go(t, "grab_resolve")
  /\ UNCHANGED <<attempt, dock, client, queueVars>>

\* claimForGrab: "claimed", or one of "moved" and "duplicate".
GrabClaim(t) ==
  LET r == task[t].request
      claimed == request[r].status \in Grabbable /\ KeyFree(r)
  IN
  /\ At(t, "grab_claim")
  /\ \/ /\ claimed
        /\ request' = [request EXCEPT ![r].status = "grabbed"]
        /\ Go(t, "grab_resolve")
     \/ /\ ~claimed
        /\ IF Unattended(t) THEN Go(t, "auto_failed") ELSE Return(t)
        /\ UNCHANGED request
  /\ UNCHANGED <<attempt, dock, client, queueVars>>

Insert(a, row) == attempt' = [attempt EXCEPT ![a] = row]

\* The source answered, and a client was found to take the release.
GrabResolve(t) ==
  /\ At(t, "grab_resolve")
  /\ Go(t, "grab_create")
  /\ UNCHANGED <<rows, client, queueVars>>

\* The source refused, or no client takes the release.  A classified refusal of
\* a listed release is kept as a failed attempt with no hash.
GrabRefused(t) ==
  /\ At(t, "grab_resolve")
  /\ \/ \E a \in Attempts :
          /\ IsNextAttempt(a)
          /\ Insert(a, [AbsentAttempt EXCEPT !.status = "failed", !.request = task[t].request,
                                             !.automated = Unattended(t)])
     \/ UNCHANGED attempt
  /\ Go(t, "grab_rollback")
  /\ UNCHANGED <<request, dock, client, queueVars>>

\* downloads.create; the unique index refuses a hash that is live elsewhere.
GrabCreate(t, h) ==
  /\ At(t, "grab_create")
  /\ \/ /\ HashFree(h, NoRow)
        /\ \E a \in Attempts :
             /\ IsNextAttempt(a)
             /\ Insert(a, [AbsentAttempt EXCEPT !.status = "queued", !.release = h,
                                                !.request = task[t].request,
                                                !.automated = Unattended(t)])
             /\ task' = [task EXCEPT ![t].pc = "grab_add", ![t].attempt = a]
     \/ /\ ~HashFree(h, NoRow)
        /\ Go(t, "grab_rollback")
        /\ UNCHANGED attempt
  /\ UNCHANGED <<request, dock, client, queueVars>>

\* adapter.add reached the client, which has the transfer from here on; it may
\* have held it already.
ClientTakes(t) ==
  LET h == attempt[task[t].attempt].release IN
  client' = [client EXCEPT ![h] = IF @ = "absent" THEN "running" ELSE @]

GrabAdd(t) ==
  /\ At(t, "grab_add")
  /\ ClientTakes(t)
  /\ Go(t, "grab_confirm")
  /\ UNCHANGED <<rows, queueVars>>

\* The client took the transfer and its answer was lost: the call throws, or, for an
\* unattended grab, is made once more.
GrabAddLost(t) ==
  /\ At(t, "grab_add")
  /\ ClientTakes(t)
  /\ Go(t, "grab_failed") \/ (Unattended(t) /\ UNCHANGED task)
  /\ UNCHANGED <<rows, queueVars>>

\* adapter.add threw before the client took anything.
GrabAddRefused(t) ==
  /\ At(t, "grab_add")
  /\ Go(t, "grab_failed")
  /\ UNCHANGED <<rows, client, queueVars>>

\* The catch of the add: downloads.update, whatever state the attempt has reached.
GrabFailed(t) ==
  /\ At(t, "grab_failed")
  /\ SetAttempt(task[t].attempt, "failed")
  /\ Go(t, "grab_rollback")
  /\ UNCHANGED <<request, dock, client, queueVars>>

\* Mutant: the catch rethrows and leaves the claim.
GrabRollbackForgets(t) ==
  /\ At(t, "grab_rollback")
  /\ Return(t)
  /\ UNCHANGED <<rows, client, queueVars>>

\* grab()'s catch: the claim goes back, if the status is still "grabbed".  A pass then
\* tries the next release, unless the refusal says not to or none is left.
GrabRollback(t) ==
  /\ At(t, "grab_rollback")
  /\ UpdateRequestIf(task[t].request, {"grabbed"}, task[t].was)
  /\ \/ ~Unattended(t) /\ Return(t)
     \/ Unattended(t) /\ RoomForAttempt /\ Go(t, "auto_grab")
     \/ Unattended(t) /\ Go(t, "auto_failed")
  /\ UNCHANGED <<attempt, dock, client, queueVars>>

GrabConfirm(t) ==
  /\ At(t, "grab_confirm")
  /\ UpdateRequestIf(task[t].request, {"grabbed"}, "grabbed")
  /\ Return(t)
  /\ UNCHANGED <<attempt, dock, client, queueVars>>

GrabStep(t) ==
  \/ GrabClaim(t)
  \/ GrabResolve(t)
  \/ GrabRefused(t)
  \/ \E h \in Releases : GrabCreate(t, h)
  \/ GrabAdd(t)
  \/ GrabAddRefused(t)
  \/ GrabFailed(t)
  \/ GrabRollback(t)
  \/ GrabConfirm(t)

GrabStart(t) == \E r \in Requests : GrabRead(t, r)
===============================================================================
