-------------------------- MODULE RequestVerification --------------------------
(***************************************************************************)
(* RequestVerificationService: an ingested dock file is scored against its *)
(* request and filed into the library, or held for a person, who files or  *)
(* discards it.  BookDockFinalizeService.finalizeManagedFile appears as    *)
(* its read of the dock row and the move that takes the files.             *)
(***************************************************************************)
EXTENDS FulfilmentStore

\* handleIngested: the attempt that owns the row must still be importing.
VerifyRead(t, f, a) ==
  /\ Free(t)
  /\ dock[f].state = "placed"
  /\ attempt[a].dock = f
  /\ attempt[a].status = "importing"
  /\ task' = [task EXCEPT ![t].pc = "verify", ![t].attempt = a, ![t].dock = f,
                          ![t].request = attempt[a].request, ![t].says = "auto"]
  /\ UNCHANGED <<rows, client, queueVars>>

\* The score passes, or verification is off.
VerifyPasses(t) ==
  /\ At(t, "verify")
  /\ DockRow(task[t].dock)
  /\ Go(t, "file_read")
  /\ UNCHANGED <<rows, client, queueVars>>

VerifyHolds(t) ==
  /\ At(t, "verify")
  /\ DockRow(task[t].dock)
  /\ Go(t, "hold_attempt")
  /\ UNCHANGED <<rows, client, queueVars>>

VerifyFindsNoRow(t) ==
  /\ At(t, "verify")
  /\ ~DockRow(task[t].dock)
  /\ Go(t, "fail_attempt")
  /\ UNCHANGED <<rows, client, queueVars>>

\* loadHeld: the newest attempt, and the file through the request or through it.
HeldFile(r, a) == IF request[r].dock # NoRow THEN request[r].dock ELSE attempt[a].dock

\* fileHeldImport.
FileHeld(t, r, a) ==
  /\ Free(t)
  /\ request[r].status = "needs_review"
  /\ IsLatest(a, r)
  /\ HeldFile(r, a) # NoRow
  /\ task' = [task EXCEPT ![t].pc = "file_read", ![t].attempt = a, ![t].request = r,
                          ![t].dock = HeldFile(r, a), ![t].says = "held"]
  /\ UNCHANGED <<rows, client, queueVars>>

\* A failed filing holds the import; a person who forced it gets the message.
NotFiled(t) == IF task[t].says = "auto" THEN Go(t, "hold_attempt") ELSE Return(t)

FileRead(t) ==
  /\ At(t, "file_read")
  /\ \/ DockRow(task[t].dock) /\ Go(t, "file_move")
     \/ ~DockRow(task[t].dock) /\ NotFiled(t)
  /\ UNCHANGED <<rows, client, queueVars>>

\* The files are moved and the book created, and the dock row goes: only the
\* first of two activations finds them where the row said.
FileMove(t) ==
  /\ At(t, "file_move")
  /\ dock[task[t].dock].state = "placed"
  /\ DeleteDockRow(task[t].dock, "filed")
  /\ Go(t, "file_request")
  /\ UNCHANGED <<client, queueVars>>

\* Mutant: a failed move goes unnoticed.
FileMoveFailsUnnoticed(t) ==
  /\ At(t, "file_move")
  /\ Go(t, "file_request")
  /\ UNCHANGED <<rows, client, queueVars>>

\* A move that fails is undone.
FileMoveFails(t) ==
  /\ At(t, "file_move")
  /\ NotFiled(t)
  /\ UNCHANGED <<rows, client, queueVars>>

FileRequest(t) ==
  LET r == task[t].request IN
  /\ At(t, "file_request")
  /\ \/ /\ request[r].status \in FileableFrom
        /\ request' = [request EXCEPT ![r].status = "available", ![r].dock = NoRow]
        /\ Go(t, "file_attempt")
     \/ /\ request[r].status \notin FileableFrom
        /\ Go(t, "file_refused")
        /\ UNCHANGED request
  /\ UNCHANGED <<attempt, dock, client, queueVars>>

\* The attempt is settled either way; a refused filing is then reported, which
\* for the automatic path is another hold.
FileAttempt(t) ==
  LET a == task[t].attempt IN
  /\ At(t, "file_attempt") \/ At(t, "file_refused")
  /\ attempt' = IF attempt[a].status \in Unsettled
                  THEN [attempt EXCEPT ![a].status = "imported"] ELSE attempt
  /\ IF At(t, "file_refused") THEN NotFiled(t) ELSE Return(t)
  /\ UNCHANGED <<request, dock, client, queueVars>>

-------------------------------------------------------------------------------
\* discardHeldImport: the request is claimed, then the newest attempt, if any.
Discard(t, r, a) ==
  /\ Free(t)
  /\ request[r].status = "needs_review"
  /\ IsLatest(a, r)
  /\ task' = [task EXCEPT ![t].pc = "discard_request", ![t].attempt = a,
                          ![t].request = r, ![t].dock = HeldFile(r, a)]
  /\ UNCHANGED <<rows, client, queueVars>>

DiscardRequest(t) ==
  LET r == task[t].request IN
  /\ At(t, "discard_request")
  /\ \/ /\ request[r].status = "needs_review"
        /\ request' = [request EXCEPT ![r].status = "failed"]
        /\ Go(t, "discard_attempt")
     \/ /\ request[r].status # "needs_review"
        /\ Return(t)
        /\ UNCHANGED request
  /\ UNCHANGED <<attempt, dock, client, queueVars>>

DiscardAttempt(t) ==
  LET a == task[t].attempt IN
  /\ At(t, "discard_attempt")
  /\ \/ /\ attempt[a].status = "needs_review"
        /\ SetAttempt(a, "failed")
        /\ Go(t, "discard_dock")
     \/ /\ attempt[a].status # "needs_review"
        /\ Go(t, "discard_undo_request")
        /\ UNCHANGED attempt
  /\ UNCHANGED <<request, dock, client, queueVars>>

\* discardFile: a row that is gone already is as good as discarded.
DiscardDock(t) ==
  /\ At(t, "discard_dock")
  /\ DeleteDockRow(task[t].dock, "dropped")
  /\ Return(t)
  /\ UNCHANGED <<client, queueVars>>

\* The cleanup of the files threw: both rows are put back, each if it can be.
DiscardDockFails(t) ==
  /\ At(t, "discard_dock")
  /\ DockRow(task[t].dock)
  /\ Go(t, "discard_undo_attempt")
  /\ UNCHANGED <<rows, client, queueVars>>

DiscardUndoAttempt(t) ==
  LET a == task[t].attempt IN
  /\ At(t, "discard_undo_attempt")
  /\ attempt' = IF attempt[a].status = "failed" /\ HashFree(attempt[a].release, a)
                  THEN [attempt EXCEPT ![a].status = "needs_review"] ELSE attempt
  /\ Go(t, "discard_undo_request")
  /\ UNCHANGED <<request, dock, client, queueVars>>

DiscardUndoRequest(t) ==
  LET r == task[t].request IN
  /\ At(t, "discard_undo_request")
  /\ request' = IF request[r].status = "failed" /\ KeyFree(r)
                  THEN [request EXCEPT ![r].status = "needs_review"] ELSE request
  /\ Return(t)
  /\ UNCHANGED <<attempt, dock, client, queueVars>>

VerificationStep(t) ==
  \/ VerifyPasses(t)
  \/ VerifyHolds(t)
  \/ VerifyFindsNoRow(t)
  \/ FileRead(t)
  \/ FileMove(t)
  \/ FileMoveFails(t)
  \/ FileRequest(t)
  \/ FileAttempt(t)
  \/ DiscardRequest(t)
  \/ DiscardAttempt(t)
  \/ DiscardDock(t)
  \/ DiscardDockFails(t)
  \/ DiscardUndoAttempt(t)
  \/ DiscardUndoRequest(t)

\* The dock announces a file once its metadata has been read, one job at a time;
\* a person may have the metadata fetched again, which announces it again.
Verifying(f) == \E t \in Handlers : task[t].dock = f /\ task[t].says = "auto"

VerificationStart(t) ==
  \E f \in DockFiles, a \in Attempts : ~Verifying(f) /\ VerifyRead(t, f, a)

RefetchStart(t) ==
  \E f \in DockFiles, a \in Attempts : Verifying(f) /\ VerifyRead(t, f, a)

ForceFileStart(t) == \E r \in Requests, a \in Attempts : FileHeld(t, r, a)

DiscardStart(t) == \E r \in Requests, a \in Attempts : Discard(t, r, a)
===============================================================================
