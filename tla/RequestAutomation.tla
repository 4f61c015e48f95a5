--------------------------- MODULE RequestAutomation ---------------------------
(***************************************************************************)
(* RequestAutomationService: a pass looks for a release of one request and *)
(* grabs the best without asking anybody.  It claims the request with      *)
(* "searching", which a person may grab from all the same, and whatever it *)
(* writes afterwards is conditional on finding that status still there.    *)
(* Also what the watchdog does about requests nobody searches or picks a   *)
(* release for.                                                            *)
(*                                                                         *)
(* A pass says what set it off: "retry" is the failure of a download it    *)
(* had grabbed, "unattended" an approval, a submission that needed none,   *)
(* or the hourly look for requests nothing was found for.  Its grabs are   *)
(* those of RequestGrab.  The settings, the search and the scores are      *)
(* choices; the budget of attempts is the room for rows.                   *)
(***************************************************************************)
EXTENDS RequestGrab

\* runAttempt's first read.  A failure is announced to it once; here it may be heard
\* at any time after.
PassRead(t, r, trigger) ==
  /\ Free(t)
  /\ request[r].status \in Grabbable
  /\ trigger = "retry" =>
       \E a \in Attempts :
         attempt[a].request = r /\ attempt[a].automated /\ attempt[a].status = "failed"
  /\ task' = [task EXCEPT ![t].pc = "auto_claim", ![t].request = r,
                          ![t].was = request[r].status, ![t].says = trigger]
  /\ UNCHANGED <<rows, client, queueVars>>

\* decline: back to whoever picks releases, unless the request has moved on.  What had
\* failed needs its claim on the work again to be approved.
HandBack(t, from) ==
  LET r == task[t].request
      to == IF task[t].says = "retry" THEN "failed" ELSE "approved"
      throws == request[r].status = "failed" /\ to # "failed" /\ ~KeyFree(r)
  IN
  /\ IF throws THEN UNCHANGED request ELSE UpdateRequestIf(r, from, to)
  /\ Return(t)

\* The guards of runAttempt, and then the claim, from the status they were about.
PassClaim(t) ==
  LET r == task[t].request
      claimed == request[r].status = task[t].was /\ (task[t].was = "failed" => KeyFree(r))
  IN
  /\ At(t, "auto_claim")
  /\ \/ /\ claimed
        /\ request' = [request EXCEPT ![r].status = "searching"]
        /\ Go(t, "auto_search")
     \/ ~claimed /\ Return(t) /\ UNCHANGED request
  /\ UNCHANGED <<attempt, dock, client, queueVars>>

\* Automation is off, there is nowhere to file the book, or the budget is spent: that
\* is written on the request, or nothing is.
PassDeclines(t) ==
  /\ At(t, "auto_claim")
  /\ HandBack(t, {task[t].was}) \/ (Return(t) /\ UNCHANGED request)
  /\ UNCHANGED <<attempt, dock, client, queueVars>>

\* No release is good enough, all were tried, or the search threw.
SearchFindsNothing(t) ==
  /\ At(t, "auto_search")
  /\ HandBack(t, {"searching"})
  /\ UNCHANGED <<attempt, dock, client, queueVars>>

SearchFinds(t) ==
  /\ At(t, "auto_search")
  /\ RoomForAttempt
  /\ Go(t, "auto_grab")
  /\ UNCHANGED <<rows, client, queueVars>>

\* grab() on behalf of nobody: refused, for a reason nobody classified, once the status
\* is not grabbable.
PassGrabs(t) ==
  LET r == task[t].request IN
  /\ At(t, "auto_grab")
  /\ IF request[r].status \in Grabbable
       THEN task' = [task EXCEPT ![t].pc = "grab_claim", ![t].was = request[r].status]
       ELSE Go(t, "auto_failed")
  /\ UNCHANGED <<rows, client, queueVars>>

\* Mutant: the failure is written without asking for the pass's own claim.
PassFailsFromAny(t) ==
  /\ At(t, "auto_failed")
  /\ UpdateRequestIf(task[t].request, WorkerWritable, "failed")
  /\ Return(t)
  /\ UNCHANGED <<attempt, dock, client, queueVars>>

\* Every release that was tried was refused.
PassFails(t) ==
  /\ At(t, "auto_failed")
  /\ UpdateRequestIf(task[t].request, {"searching"}, "failed")
  /\ Return(t)
  /\ UNCHANGED <<attempt, dock, client, queueVars>>

(***************************************************************************)
(* The watchdog.                                                           *)
(***************************************************************************)

\* releaseStrandedSearches, at boot and every ten minutes for what has been searching
\* for half an hour.  A pass may still be about, on a slow source.
ReleaseSearch(r) ==
  /\ request[r].status = "searching"
  /\ request' = [request EXCEPT ![r].status = "approved"]
  /\ UNCHANGED <<attempt, dock, client, task, queueVars>>

Abandonable == {"approved", "searching"}

\* findAbandonedSelfServe: nobody ever picked a release.
AbandonRead(t, r) ==
  /\ Free(t)
  /\ request[r].status \in Abandonable
  /\ NoAttemptOf(r)
  /\ task' = [task EXCEPT ![t].pc = "abandon", ![t].request = r]
  /\ UNCHANGED <<rows, client, queueVars>>

\* Mutant: the sweep acts on what it read.
AbandonUnchecked(t) ==
  /\ At(t, "abandon")
  /\ request' = [request EXCEPT ![task[t].request].status = "cancelled"]
  /\ Return(t)
  /\ UNCHANGED <<attempt, dock, client, queueVars>>

\* cancelAbandoned.
Abandon(t) ==
  /\ At(t, "abandon")
  /\ UpdateRequestIf(task[t].request, Abandonable, "cancelled")
  /\ Return(t)
  /\ UNCHANGED <<attempt, dock, client, queueVars>>

PassStart(t) ==
  \E r \in Requests, trigger \in {"unattended", "retry"} : PassRead(t, r, trigger)

AutomationStep(t) ==
  \/ PassClaim(t)
  \/ PassDeclines(t)
  \/ SearchFindsNothing(t)
  \/ SearchFinds(t)
  \/ PassGrabs(t)
  \/ PassFails(t)
  \/ Abandon(t)
===============================================================================
