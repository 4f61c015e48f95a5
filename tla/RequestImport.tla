----------------------------- MODULE RequestImport -----------------------------
(***************************************************************************)
(* RequestImportService: a finished download becomes a Book Dock row.  It  *)
(* runs as the handler of the import queue, or as an approver's choice of  *)
(* one book out of a release that held several.                            *)
(***************************************************************************)
EXTENDS FulfilmentStore

\* Mutant: the row is not read again.
ImportBeginUnread(w, a) ==
  /\ w \in ImportWorkers
  /\ task[w] = Idle
  /\ a \in running
  /\ \A v \in ImportWorkers : task[v].attempt # a
  /\ task' = [task EXCEPT ![w].pc = "import_extract", ![w].attempt = a]
  /\ UNCHANGED <<rows, client, queueVars>>

\* runImport of the monitor: the row is read again before anything is done.
ImportBegin(w, a) ==
  /\ w \in ImportWorkers
  /\ task[w] = Idle
  /\ a \in running
  /\ \A v \in ImportWorkers : task[v].attempt # a
  /\ task' = [task EXCEPT
       ![w].pc = IF attempt[a].status = "completed" /\ attempt[a].dock = NoRow
                   THEN "import_extract" ELSE "import_done",
       ![w].attempt = a]
  /\ UNCHANGED <<rows, client, queueVars>>

\* The handler settled, and the queue takes the next one.
ImportDone(w) ==
  /\ At(w, "import_done")
  /\ Queue!Finish(task[w].attempt)
  /\ task' = [task EXCEPT ![w] = Idle]
  /\ UNCHANGED <<rows, client>>

\* importChosenUnit: read, then claimed, because a second click may be inside it.
ChooseUnit(t, a) ==
  /\ Free(t)
  /\ attempt[a].status = "needs_review"
  /\ attempt[a].units
  /\ task' = [task EXCEPT ![t].pc = "choose_claim", ![t].attempt = a]
  /\ UNCHANGED <<rows, client, queueVars>>

\* Mutant: the second click is not refused.
ChooseClaimTwice(t) ==
  /\ At(t, "choose_claim")
  /\ SetAttempt(task[t].attempt, "importing")
  /\ Go(t, "import_extract")
  /\ UNCHANGED <<request, dock, client, queueVars>>

ChooseClaim(t) ==
  LET a == task[t].attempt IN
  /\ At(t, "choose_claim")
  /\ \/ /\ attempt[a].status = "needs_review"
        /\ SetAttempt(a, "importing")
        /\ Go(t, "import_extract")
     \/ /\ attempt[a].status # "needs_review"
        /\ Return(t)
        /\ UNCHANGED attempt
  /\ UNCHANGED <<request, dock, client, queueVars>>

\* Nothing importable in the release, an unreadable file, a full name space.
ImportError(t) ==
  /\ At(t, "import_extract") \/ At(t, "import_reclaim_dock")
  /\ Go(t, "fail_attempt")
  /\ UNCHANGED <<rows, client, queueVars>>

\* A release that was not read to its end, or one that holds several books.
\* A choice already made is never ambiguous.
ImportHold(t, why) ==
  /\ At(t, "import_extract")
  /\ why = "choice" => t \in ImportWorkers
  /\ task' = [task EXCEPT ![t].pc = "hold_attempt", ![t].says = why]
  /\ UNCHANGED <<rows, client, queueVars>>

\* claimDestination: the dock row is inserted before any file is linked.
ClaimDestination(t, from, to) ==
  /\ At(t, from)
  /\ \E f \in DockFiles :
       /\ IsNextDockFile(f)
       /\ dock' = [dock EXCEPT ![f] = [state |-> "claimed", attempt |-> task[t].attempt]]
       /\ task' = [task EXCEPT ![t].pc = to, ![t].dock = f]
  /\ UNCHANGED <<request, attempt, client, queueVars>>

ImportClaimDock(t) == ClaimDestination(t, "import_extract", "import_claim")

\* The claim on the request.  It is refused once the request is settled; it
\* throws when the request had failed and its work was asked for again, or when
\* somebody discarded the dock row in the meantime.
ImportClaim(t) ==
  LET f == task[t].dock
      r == attempt[task[t].attempt].request
      allowed == request[r].status \in WorkerWritable
      throws == ~DockRow(f) \/ (request[r].status = "failed" /\ ~KeyFree(r))
  IN
  /\ At(t, "import_claim")
  /\ \/ /\ allowed /\ ~throws
        /\ request' = [request EXCEPT ![r].status = "importing", ![r].dock = f]
        /\ Go(t, "import_record")
     \/ /\ allowed /\ throws
        /\ Go(t, "fail_attempt")
        /\ UNCHANGED request
     \/ /\ ~allowed
        /\ Go(t, "import_undo")
        /\ UNCHANGED request
  /\ UNCHANGED <<attempt, dock, client, queueVars>>

\* Mutant: the dock row stays.
ImportUndoForgets(t) ==
  /\ At(t, "import_undo")
  /\ Go(t, "import_refused")
  /\ UNCHANGED <<rows, client, queueVars>>

\* The request was settled first: the dock row goes, and the attempt with it.
ImportUndo(t) ==
  /\ At(t, "import_undo")
  /\ DeleteDockRow(task[t].dock, "dropped")
  /\ Go(t, "import_refused")
  /\ UNCHANGED <<client, queueVars>>

ImportRefused(t) ==
  LET a == task[t].attempt IN
  /\ At(t, "import_refused")
  /\ attempt' = IF attempt[a].status \in Unsettled
                  THEN [attempt EXCEPT ![a].status = "failed"] ELSE attempt
  /\ Return(t)
  /\ UNCHANGED <<request, dock, client, queueVars>>

\* downloads.update, whatever state the attempt has reached; it throws when the
\* dock row is gone, or when the hash has gone live in another attempt.
ImportRecord(t) ==
  LET a == task[t].attempt
      f == task[t].dock
      throws == ~DockRow(f) \/ ~HashFree(attempt[a].release, a)
  IN
  /\ At(t, "import_record")
  /\ \/ /\ ~throws
        /\ attempt' = [attempt EXCEPT ![a].status = "importing", ![a].dock = f]
        /\ Go(t, "import_place")
     \/ /\ throws
        /\ Go(t, "fail_attempt")
        /\ UNCHANGED attempt
  /\ UNCHANGED <<request, dock, client, queueVars>>

\* The files are linked, and the watcher's pipeline is handed the row.
ImportPlace(t) ==
  LET f == task[t].dock IN
  /\ At(t, "import_place")
  /\ dock' = IF DockRow(f) THEN [dock EXCEPT ![f].state = "placed"] ELSE dock
  /\ Return(t)
  /\ UNCHANGED <<request, attempt, client, queueVars>>

\* Linking failed: the dock row goes.  A name taken in the meantime is tried
\* again under the next one.
ImportPlaceFails(t, then) ==
  /\ At(t, "import_place")
  /\ DeleteDockRow(task[t].dock, "dropped")
  /\ Go(t, then)
  /\ UNCHANGED <<client, queueVars>>

ImportPlaceThrows(t) == ImportPlaceFails(t, "fail_attempt")
ImportPlaceCollides(t) == ImportPlaceFails(t, "import_reclaim_dock")

ImportReclaimDock(t) == ClaimDestination(t, "import_reclaim_dock", "import_reclaim")

ImportReclaim(t) ==
  LET f == task[t].dock
      r == attempt[task[t].attempt].request
      allowed == request[r].status = "importing"
  IN
  /\ At(t, "import_reclaim")
  /\ \/ /\ allowed /\ DockRow(f)
        /\ request' = [request EXCEPT ![r].dock = f]
        /\ Go(t, "import_rerecord")
     \/ /\ allowed /\ ~DockRow(f)
        /\ Go(t, "fail_attempt")
        /\ UNCHANGED request
     \/ /\ ~allowed
        /\ Go(t, "import_undo")
        /\ UNCHANGED request
  /\ UNCHANGED <<attempt, dock, client, queueVars>>

ImportRerecord(t) ==
  LET a == task[t].attempt
      f == task[t].dock
  IN
  /\ At(t, "import_rerecord")
  /\ \/ /\ DockRow(f)
        /\ attempt' = [attempt EXCEPT ![a].dock = f]
        /\ Go(t, "import_place")
     \/ /\ ~DockRow(f)
        /\ Go(t, "fail_attempt")
        /\ UNCHANGED attempt
  /\ UNCHANGED <<request, dock, client, queueVars>>

ImportStep(t) ==
  \/ ImportDone(t)
  \/ ChooseClaim(t)
  \/ ImportError(t)
  \/ \E why \in {"choice", "truncated"} : ImportHold(t, why)
  \/ ImportClaimDock(t)
  \/ ImportClaim(t)
  \/ ImportUndo(t)
  \/ ImportRefused(t)
  \/ ImportRecord(t)
  \/ ImportPlace(t)
  \/ ImportPlaceThrows(t)
  \/ ImportReclaimDock(t)
  \/ ImportReclaim(t)
  \/ ImportRerecord(t)

ImportStart(t) == \E a \in Attempts : ImportBegin(t, a)

ChoiceStart(t) == \E a \in Attempts : ChooseUnit(t, a)
===============================================================================
