--------------------------- MODULE RequestFilingProofs ---------------------------
(***************************************************************************)
(* Where the files of a request come from and where they end: every dock   *)
(* row was made by an import of one attempt, every link to it and every    *)
(* activation that carries it agrees which, and so what is imported, and   *)
(* what becomes available by itself, has its book.  The links alone are    *)
(* not inductive: an activation writes the row it took a dock row from     *)
(* several awaits later, so what activations remember is part of it.  Then *)
(* who has an attempt to itself: no two imports do at once, and a download *)
(* becomes one book.  Last, a row in the dock always has an owner.         *)
(***************************************************************************)
EXTENDS RequestPromisesProofs

InHand ==
  {"import_claim", "import_undo", "import_record", "import_place", "import_reclaim",
   "import_rerecord"}

Moved == {"file_request", "file_attempt", "file_refused"}

Filing == {"verify", "file_read", "file_move"} \cup Moved

Discarding == {"discard_request", "discard_attempt", "discard_dock", "discard_undo_attempt"}

\* Where an activation carries an attempt or a file.
Carrying == Importing \cup Filing \cup Adding \cup Discarding \cup {"choose_claim"}

\* A dock row that was made, whatever became of it, and the request it was made for.
Made(f) == f \in DockFiles /\ dock[f].state # "free"
Owner(f) == attempt[dock[f].attempt].request

FilesComeFromAttempts == \A f \in DockFiles : Made(f) => Inserted(dock[f].attempt)

AttemptsLinkTheirOwn ==
  \A a \in Attempts :
    attempt[a].dock # NoRow => Made(attempt[a].dock) /\ dock[attempt[a].dock].attempt = a

\* A request that was closed by hand may name anybody's file.
RequestsLinkTheirOwn ==
  \A r \in Requests :
    request[r].dock # NoRow =>
      /\ Made(request[r].dock)
      /\ request[r].status = "available" \/ Owner(request[r].dock) = r

Linked == FilesComeFromAttempts /\ AttemptsLinkTheirOwn /\ RequestsLinkTheirOwn

\* What activation t carries belongs together.
CarriesFile(t) ==
  /\ Made(task[t].dock)
  /\ Owner(task[t].dock) = task[t].request
  /\ attempt[task[t].attempt].request = task[t].request
  /\ task[t].says \in {"auto", "held"}
  /\ task[t].says = "auto" => dock[task[t].dock].attempt = task[t].attempt

Brings(t) ==
  /\ task[t].pc \in Carrying => Inserted(task[t].attempt)
  /\ task[t].pc \in InHand =>
       Made(task[t].dock) /\ dock[task[t].dock].attempt = task[t].attempt
  /\ task[t].pc \in Filing => CarriesFile(t)
  /\ task[t].pc = "verify" => task[t].says = "auto"
  /\ task[t].pc \in Moved => dock[task[t].dock].state = "filed"

FilesInv == Linked /\ \A t \in Tasks : Brings(t)

-------------------------------------------------------------------------------
(***************************************************************************)
(* What no step does to the rows: an attempt changes its request, a dock   *)
(* row its attempt, a filed file its place.                                *)
(***************************************************************************)
RowsKeep ==
  /\ \A a \in Attempts :
       Created(a) => Created(a)' /\ attempt'[a].request = attempt[a].request
  /\ \A f \in DockFiles :
       Made(f) => Made(f)' /\ dock'[f].attempt = dock[f].attempt
  /\ \A f \in DockFiles : dock[f].state = "filed" => dock'[f].state = "filed"

\* Where an activation has an attempt to itself, if anybody has.
Owning == Importing \cup {"hold_attempt", "discard_dock", "discard_undo_attempt"}

\* Activation t gives its attempt up, and nobody else moves.
Leaves(t) == task'[t].pc \notin Owning /\ \A u \in Tasks \ {t} : task'[u] = task[u]

\* Who writes the status of an attempt.  Only a filing that has moved its file imports
\* one, only a hold or the undoing of a discard makes it one a person has to look at, and
\* only an adoption makes one that is past its transfer one that is not.
Written(a) ==
  \/ attempt'[a].status = attempt[a].status
  \/ attempt'[a].status \in {"failed", "importing"}
  \/ /\ attempt[a].status \in ActiveAttempt \cup {"absent"}
     /\ attempt'[a].status \in ActiveAttempt \cup {"completed"}
  \/ /\ attempt'[a].status = "needs_review"
     /\ \E t \in Tasks :
          /\ task[t].pc \in {"hold_attempt", "discard_undo_attempt"}
          /\ task[t].attempt = a
          /\ Leaves(t)
  \/ /\ attempt'[a].status = "imported"
     /\ \E t \in Tasks : task[t].pc \in Moved /\ task[t].attempt = a
  \/ /\ attempt'[a].status \in ActiveAttempt \cup {"completed"}
     /\ \E t \in Tasks : task[t].pc = "adopt"

AttemptsWritten == \A a \in Attempts : Written(a)

\* The files of a dock row are put where it says, or where books are kept, by an import
\* that is done with it.
HasFiles(f) == dock[f].state \in {"placed", "filed"}

FilesWritten ==
  \A f \in DockFiles :
    HasFiles(f)' =>
      \/ HasFiles(f)
      \/ \E t \in Tasks : task[t].pc = "import_place" /\ task[t].dock = f /\ Leaves(t)

\* Only such a filing or, by hand, a person makes a request available.
OnlyFilingsArrive ==
  \A r \in Requests :
    request'[r].status = "available" =>
      \/ request[r].status = "available"
      \/ \E t \in Tasks : task[t].pc \in Moved /\ task[t].request = r
      \/ \E t \in Tasks : task[t].pc = "after_removal" /\ task[t].says = "fulfil"

\* What is available stays it.
ArrivalsStay ==
  \A r \in Requests : request[r].status = "available" => request'[r].status = "available"

SoundWrites ==
  Linked' /\ RowsKeep /\ AttemptsWritten /\ FilesWritten /\ OnlyFilingsArrive

\* What an activation carries stays right while the others move.
LEMMA StillBrings ==
  ASSUME RowsOK, Linked, RowsKeep, NEW u \in Tasks, Brings(u), task'[u] = task[u]
  PROVE  Brings(u)'
<1>1. \A f \in DockFiles : Made(f) => Made(f)' /\ dock'[f].attempt = dock[f].attempt
                                      /\ Owner(f)' = Owner(f)
  BY DEF RowsKeep, Linked, FilesComeFromAttempts, Owner, Inserted
<1>2. \A a : Inserted(a) => Inserted(a)' /\ attempt'[a].request = attempt[a].request
  BY DEF RowsKeep, Inserted
<1>3. task[u].pc \in Filing => task[u].pc \in Carrying
  BY DEF Carrying
<1>4. task[u].pc \in Filing => CarriesFile(u)'
  BY <1>1, <1>2, <1>3 DEF Brings, CarriesFile, Made
<1>5. task[u].pc \in Moved => task[u].dock \in DockFiles
  BY DEF Brings, CarriesFile, Made, Filing
<1>6. task[u].pc \in Moved => dock'[task[u].dock].state = "filed"
  BY <1>5 DEF RowsKeep, Brings
<1> QED
  BY <1>1, <1>2, <1>4, <1>6 DEF Brings, Made

\* An activation that carries nothing brings nothing.
LEMMA ElsewhereBrings ==
  ASSUME NEW t, task'[t].pc \notin Carrying
  PROVE  Brings(t)'
  BY DEF Brings, Carrying, InHand, Importing, Filing, Moved

\* One activation moves.
LEMMA OneBrings ==
  ASSUME RowsOK, FilesInv, SoundWrites, NEW t \in Tasks, Brings(t)',
         \A u \in Tasks \ {t} : task'[u] = task[u]
  PROVE  FilesInv'
<1>1. ASSUME NEW u \in Tasks PROVE Brings(u)'
  BY StillBrings DEF FilesInv, SoundWrites
<1> QED
  BY <1>1 DEF FilesInv, SoundWrites

\* An activation that goes elsewhere, or returns, gives up what it had to itself.
LEMMA GoesAway ==
  ASSUME Inv, NEW t \in Tasks, NEW pc, pc \notin Owning, Go(t, pc)
  PROVE  Leaves(t)
  BY DEF Inv, TasksOK, TaskState, Go, Leaves

\* and one that returns does too.
LEMMA ReturnsAway ==
  ASSUME Inv, NEW t \in Tasks, Return(t)
  PROVE  Leaves(t)
<1>1. task'[t].pc \in {"idle", "import_done"} /\ \A u \in Tasks \ {t} : task'[u] = task[u]
  BY DEF Inv, TasksOK, TaskState, Return, Idle
<1> QED
  BY <1>1 DEF Leaves, Owning, Importing

\* It goes where it carries nothing,
LEMMA GoesFree ==
  ASSUME Inv, FilesInv, SoundWrites, NEW t \in Tasks, NEW pc, pc \notin Carrying, Go(t, pc)
  PROVE  FilesInv'
<1>1. task'[t].pc = pc /\ \A u \in Tasks \ {t} : task'[u] = task[u]
  BY DEF Inv, TasksOK, TaskState, Go
<1> QED
  BY <1>1, OneBrings, ElsewhereBrings DEF Inv

\* or returns;
LEMMA ReturnsFree ==
  ASSUME Inv, FilesInv, SoundWrites, NEW t \in Tasks, Return(t)
  PROVE  FilesInv'
<1>1. task'[t].pc \in {"idle", "import_done"} /\ \A u \in Tasks \ {t} : task'[u] = task[u]
  BY DEF Inv, TasksOK, TaskState, Return, Idle
<1>2. task'[t].pc \notin Carrying
  BY <1>1 DEF Carrying, Importing, Filing, Moved, Adding, Discarding
<1> QED
  BY <1>1, <1>2, OneBrings, ElsewhereBrings DEF Inv

\* or it goes on with what it carries;
LEMMA GoesOn ==
  ASSUME Inv, FilesInv, SoundWrites, NEW t \in Tasks, NEW pc, Go(t, pc),
         pc \in Carrying => Inserted(task[t].attempt),
         pc \in InHand => Made(task[t].dock) /\ dock[task[t].dock].attempt = task[t].attempt,
         pc \in Filing => CarriesFile(t), pc # "verify",
         pc \in Moved => dock'[task[t].dock].state = "filed"
  PROVE  FilesInv'
<1>1. /\ task'[t] = [task[t] EXCEPT !.pc = pc]
      /\ \A u \in Tasks \ {t} : task'[u] = task[u]
  BY DEF Inv, TasksOK, Go
<1>2. task[t] \in TaskState
  BY DEF Inv, TasksOK
<1>3. /\ task'[t].pc = pc /\ task'[t].attempt = task[t].attempt
      /\ task'[t].dock = task[t].dock /\ task'[t].request = task[t].request
      /\ task'[t].says = task[t].says
  BY <1>1, <1>2 DEF TaskState
<1>4. \A f \in DockFiles : Made(f) => Made(f)' /\ dock'[f].attempt = dock[f].attempt
                                      /\ Owner(f)' = Owner(f)
  BY DEF FilesInv, SoundWrites, RowsKeep, Linked, FilesComeFromAttempts, Owner, Inserted
<1>5. \A a : Inserted(a) => Inserted(a)' /\ attempt'[a].request = attempt[a].request
  BY DEF SoundWrites, RowsKeep, Inserted
<1>6. pc \in Filing => pc \in Carrying
  BY DEF Carrying
<1>7. pc \in Filing => CarriesFile(t)'
  BY <1>3, <1>4, <1>5, <1>6 DEF CarriesFile, Made
<1>8. Brings(t)'
  BY <1>3, <1>4, <1>5, <1>7 DEF Brings, Made
<1> QED
  BY <1>1, <1>8, OneBrings DEF Inv

\* or nobody moves.
LEMMA NobodyGoes ==
  ASSUME Inv, FilesInv, SoundWrites, UNCHANGED task
  PROVE  FilesInv'
<1>1. ASSUME NEW u \in Tasks PROVE Brings(u)'
  BY StillBrings DEF Inv, FilesInv, SoundWrites
<1> QED
  BY <1>1 DEF FilesInv, SoundWrites

-------------------------------------------------------------------------------
(***************************************************************************)
(* The writes.                                                             *)
(***************************************************************************)

\* Statuses are written, of attempts that exist, and nothing is imported or arrives.
LEMMA QuietWrites ==
  ASSUME ArrivalsStay, RowsOK, Linked, dock' = dock,
         \A a \in Attempts :
           /\ attempt'[a].request = attempt[a].request
           /\ attempt'[a].dock = attempt[a].dock
           /\ \/ attempt'[a].status = attempt[a].status
              \/ Created(a) /\ attempt'[a].status # "absent" /\ Written(a),
         \A r \in Requests :
           /\ request'[r].dock = request[r].dock
           /\ request'[r].status # "available" \/ request[r].status = "available"
  PROVE  SoundWrites
<1>1. \A a : Inserted(a) => Inserted(a)'
  BY DEF Inserted, Created
<1>2. RowsKeep
  BY <1>1 DEF RowsKeep, Made, Inserted
<1>3. \A f : Made(f) => Made(f)' /\ Owner(f)' = Owner(f)
  BY DEF Made, Owner, Linked, FilesComeFromAttempts, Inserted
<1>4. FilesComeFromAttempts'
  BY <1>1 DEF Linked, FilesComeFromAttempts, Made
<1>5. AttemptsLinkTheirOwn'
  BY <1>3 DEF Linked, AttemptsLinkTheirOwn
<1>6. RequestsLinkTheirOwn'
  BY <1>3 DEF Linked, RequestsLinkTheirOwn, ArrivalsStay
<1>7. AttemptsWritten
  BY DEF AttemptsWritten, Written
<1>8. FilesWritten /\ OnlyFilingsArrive
  BY DEF FilesWritten, HasFiles, OnlyFilingsArrive
<1> QED
  BY <1>2, <1>4, <1>5, <1>6, <1>7, <1>8 DEF SoundWrites, Linked

\* Nothing is written.
LEMMA NoWrites ==
  ASSUME ArrivalsStay, RowsOK, Linked, UNCHANGED rows
  PROVE  SoundWrites
  BY QuietWrites DEF rows

\* The status of one request is.
LEMMA RequestWrites ==
  ASSUME ArrivalsStay, RowsOK, Linked, NEW r, NEW from, NEW s, s # "available",
         UpdateRequestIf(r, from, s),
         UNCHANGED <<attempt, dock>>
  PROVE  SoundWrites
<1>1. \A q \in Requests : request'[q].dock = request[q].dock
                          /\ request'[q].status \in {request[q].status, s}
  BY DEF RowsOK, RequestRow, UpdateRequestIf
<1> QED
  BY <1>1, QuietWrites

\* The status of one attempt is.
LEMMA AttemptWrites ==
  ASSUME ArrivalsStay, RowsOK, Linked, NEW a, NEW s, Inserted(a), SetAttempt(a, s),
         \/ s \in {"failed", "importing"}
         \/ attempt[a].status \in ActiveAttempt /\ s \in ActiveAttempt \cup {"completed"},
         UNCHANGED <<request, dock>>
  PROVE  SoundWrites
<1>1. \A b \in Attempts : /\ attempt'[b].request = attempt[b].request
                          /\ attempt'[b].dock = attempt[b].dock
                          /\ attempt'[b].status = IF b = a THEN s ELSE attempt[b].status
  BY DEF RowsOK, AttemptRow, SetAttempt
<1> QED
  BY <1>1, QuietWrites DEF Inserted, Written, ActiveAttempt

\* An attempt is inserted.
LEMMA InsertWrites ==
  ASSUME ArrivalsStay, RowsOK, Linked, NEW a \in Attempts, NEW row \in AttemptRow, IsNextAttempt(a),
         row.dock = NoRow, row.status \in {"queued", "failed"}, Insert(a, row),
         UNCHANGED <<request, dock>>
  PROVE  SoundWrites /\ Inserted(a)'
<1>1. attempt'[a] = row /\ \A b \in Attempts \ {a} : attempt'[b] = attempt[b]
  BY DEF RowsOK, Insert
<1>2. ~Created(a)
  BY DEF IsNextAttempt
<1>3. \A b : Inserted(b) => Inserted(b)' /\ attempt'[b] = attempt[b]
  BY <1>1, <1>2 DEF Inserted, Created
<1>4. RowsKeep
  BY <1>3 DEF RowsKeep, Made, Inserted
<1>5. \A f : Made(f) => Made(f)' /\ Owner(f)' = Owner(f)
  BY <1>3 DEF Made, Owner, Linked, FilesComeFromAttempts
<1>6. FilesComeFromAttempts'
  BY <1>3 DEF Linked, FilesComeFromAttempts, Made
<1>7. AttemptsLinkTheirOwn'
  BY <1>1, <1>5 DEF Linked, AttemptsLinkTheirOwn
<1>8. RequestsLinkTheirOwn'
  BY <1>5 DEF Linked, RequestsLinkTheirOwn, ArrivalsStay
<1>9. AttemptsWritten /\ FilesWritten /\ OnlyFilingsArrive
  BY <1>1, <1>2
  DEF AttemptsWritten, Written, FilesWritten, HasFiles, OnlyFilingsArrive, ActiveAttempt, Created
<1> QED
  BY <1>1, <1>4, <1>6, <1>7, <1>8, <1>9 DEF SoundWrites, Linked, Inserted, Created

\* A dock row is deleted, and the links to it.
LEMMA DeleteWrites ==
  ASSUME ArrivalsStay, RowsOK, Linked, NEW f, NEW state, DeleteDockRow(f, state),
         state = "dropped" \/ (state = "filed" /\ HasFiles(f))
  PROVE  SoundWrites
<1>1. \A e \in DockFiles : /\ dock'[e].attempt = dock[e].attempt
                           /\ \/ dock'[e].state = dock[e].state
                              \/ DockRow(e) /\ dock'[e].state = state
  BY DEF RowsOK, DockRows, DeleteDockRow
<1>2. \A a \in Attempts : /\ attempt'[a].request = attempt[a].request
                          /\ attempt'[a].status = attempt[a].status
                          /\ attempt'[a].dock \in {attempt[a].dock, NoRow}
  BY DEF RowsOK, AttemptRow, DeleteDockRow, Unlink
<1>3. \A r \in Requests : /\ request'[r].status = request[r].status
                          /\ request'[r].dock \in {request[r].dock, NoRow}
  BY DEF RowsOK, RequestRow, DeleteDockRow, Unlink
<1>4. \A a : Inserted(a) => Inserted(a)' /\ attempt'[a].request = attempt[a].request
  BY <1>2 DEF Inserted, Created
<1>5. \A e : Made(e) <=> Made(e)'
  BY <1>1 DEF Made, DockRow
<1>6. \A e : Made(e) => Owner(e)' = Owner(e) /\ dock'[e].attempt = dock[e].attempt
  BY <1>1, <1>4 DEF Made, Owner, Linked, FilesComeFromAttempts
<1>7. RowsKeep
  BY <1>1, <1>4, <1>5, <1>6 DEF RowsKeep, Inserted, DockRow
<1>8. FilesComeFromAttempts'
  BY <1>4, <1>5, <1>6 DEF Linked, FilesComeFromAttempts
<1>9. AttemptsLinkTheirOwn'
  BY <1>2, <1>5, <1>6 DEF Linked, AttemptsLinkTheirOwn
<1>10. RequestsLinkTheirOwn'
  BY <1>3, <1>5, <1>6 DEF Linked, RequestsLinkTheirOwn, ArrivalsStay
<1>11. AttemptsWritten /\ FilesWritten /\ OnlyFilingsArrive
  BY <1>1, <1>2, <1>3
  DEF AttemptsWritten, Written, FilesWritten, HasFiles, OnlyFilingsArrive, DockRow, DeleteDockRow
<1> QED
  BY <1>7, <1>8, <1>9, <1>10, <1>11 DEF SoundWrites, Linked
\* A dock row is made for the attempt of the activation.
LEMMA ClaimWrites ==
  ASSUME ArrivalsStay, RowsOK, Linked, NEW f \in DockFiles, NEW a, Inserted(a),
         dock[f].state = "free",
         dock' = [dock EXCEPT ![f] = [state |-> "claimed", attempt |-> a]],
         UNCHANGED <<request, attempt>>
  PROVE  SoundWrites /\ Made(f)' /\ dock'[f].attempt = a
<1>1. \A e \in DockFiles :
        dock'[e] = IF e = f THEN [state |-> "claimed", attempt |-> a] ELSE dock[e]
  BY DEF RowsOK
<1>2. \A e : Made(e) => e # f /\ dock'[e] = dock[e] /\ Made(e)' /\ Owner(e)' = Owner(e)
  BY <1>1 DEF Made, Owner
<1>3. \A b : Inserted(b)' <=> Inserted(b)
  BY DEF Inserted, Created
<1>4. RowsKeep
  BY <1>1, <1>2, <1>3 DEF RowsKeep, Inserted
<1>5. FilesComeFromAttempts'
  BY <1>1, <1>2, <1>3 DEF Linked, FilesComeFromAttempts, Made
<1>6. AttemptsLinkTheirOwn' /\ RequestsLinkTheirOwn'
  BY <1>2 DEF Linked, AttemptsLinkTheirOwn, RequestsLinkTheirOwn, ArrivalsStay
<1>7. AttemptsWritten /\ FilesWritten /\ OnlyFilingsArrive
  BY DEF AttemptsWritten, Written, FilesWritten, HasFiles, OnlyFilingsArrive
<1> QED
  BY <1>1, <1>4, <1>5, <1>6, <1>7 DEF SoundWrites, Linked, Made

\* The files of a dock row are put where it says.
LEMMA PlaceWrites ==
  ASSUME ArrivalsStay, RowsOK, Linked, NEW t \in Tasks, NEW f,
         task[t].pc = "import_place", task[t].dock = f, Leaves(t),
         dock' = IF DockRow(f) THEN [dock EXCEPT ![f].state = "placed"] ELSE dock,
         UNCHANGED <<request, attempt>>
  PROVE  SoundWrites
<1>1. \A e \in DockFiles : /\ dock'[e].attempt = dock[e].attempt
                           /\ \/ dock'[e].state = dock[e].state
                              \/ e = f /\ DockRow(e) /\ dock'[e].state = "placed"
  BY DEF RowsOK, DockRows
<1>2. \A a : Inserted(a)' <=> Inserted(a)
  BY DEF Inserted, Created
<1>3. \A e : (Made(e)' <=> Made(e)) /\ (Made(e) => Owner(e)' = Owner(e))
  BY <1>1 DEF Made, Owner, DockRow
<1>4. RowsKeep
  BY <1>1, <1>2, <1>3 DEF RowsKeep, Created, DockRow
<1>5. FilesComeFromAttempts'
  BY <1>1, <1>2, <1>3 DEF Linked, FilesComeFromAttempts
<1>6. AttemptsLinkTheirOwn' /\ RequestsLinkTheirOwn'
  BY <1>1, <1>3 DEF Linked, AttemptsLinkTheirOwn, RequestsLinkTheirOwn, ArrivalsStay, Made
<1>7. AttemptsWritten /\ FilesWritten /\ OnlyFilingsArrive
  BY <1>1 DEF AttemptsWritten, Written, FilesWritten, HasFiles, OnlyFilingsArrive
<1> QED
  BY <1>4, <1>5, <1>6, <1>7 DEF SoundWrites, Linked

\* A request is linked to a file that was made for it, as it is imported,
LEMMA RequestLinkWrites ==
  ASSUME ArrivalsStay, RowsOK, Linked, NEW f, NEW r, Made(f), Owner(f) = r,
         \A q \in Requests :
           \/ request'[q] = request[q]
           \/ /\ q = r
              /\ request'[q].dock = f
              /\ request'[q].status \in {request[q].status, "importing"},
         UNCHANGED <<attempt, dock>>
  PROVE  SoundWrites
<1>1. \A a : Inserted(a)' <=> Inserted(a)
  BY DEF Inserted, Created
<1>2. \A e : (Made(e)' <=> Made(e)) /\ Owner(e)' = Owner(e)
  BY DEF Made, Owner
<1>3. RowsKeep
  BY <1>1, <1>2 DEF RowsKeep, Created
<1>4. FilesComeFromAttempts' /\ AttemptsLinkTheirOwn'
  BY <1>1, <1>2 DEF Linked, FilesComeFromAttempts, AttemptsLinkTheirOwn
<1>5. RequestsLinkTheirOwn'
  BY <1>2 DEF Linked, RequestsLinkTheirOwn, ArrivalsStay
<1>6. AttemptsWritten /\ FilesWritten /\ OnlyFilingsArrive
  BY DEF AttemptsWritten, Written, FilesWritten, HasFiles, OnlyFilingsArrive
<1> QED
  BY <1>3, <1>4, <1>5, <1>6 DEF SoundWrites, Linked

\* and an attempt to a file that was made for it.
LEMMA AttemptLinkWrites ==
  ASSUME ArrivalsStay, RowsOK, Linked, NEW f, NEW a, Made(f), dock[f].attempt = a,
         \A b \in Attempts :
           \/ attempt'[b] = attempt[b]
           \/ /\ b = a
              /\ attempt'[b].dock = f
              /\ attempt'[b].status \in {attempt[b].status, "importing"}
              /\ attempt'[b].request = attempt[b].request,
         UNCHANGED <<request, dock>>
  PROVE  SoundWrites
<1>1. Inserted(a)
  BY DEF Linked, FilesComeFromAttempts, Made
<1>2. \A b \in Attempts : attempt'[b].request = attempt[b].request
  OBVIOUS
<1>3. \A b : Inserted(b) => Inserted(b)'
  BY <1>1, <1>2 DEF Inserted, Created
<1>4. \A e : (Made(e)' <=> Made(e)) /\ (Made(e) => Owner(e)' = Owner(e))
  BY <1>2 DEF Made, Owner, Linked, FilesComeFromAttempts, Inserted
<1>5. RowsKeep
  BY <1>2, <1>3, <1>4 DEF RowsKeep, Inserted
<1>6. FilesComeFromAttempts'
  BY <1>3, <1>4 DEF Linked, FilesComeFromAttempts
<1>7. AttemptsLinkTheirOwn'
  BY <1>2, <1>4 DEF Linked, AttemptsLinkTheirOwn
<1>8. RequestsLinkTheirOwn'
  BY <1>4 DEF Linked, RequestsLinkTheirOwn, ArrivalsStay
<1>9. AttemptsWritten /\ FilesWritten /\ OnlyFilingsArrive
  BY <1>1, <1>2 DEF AttemptsWritten, Written, FilesWritten, HasFiles, OnlyFilingsArrive
<1> QED
  BY <1>5, <1>6, <1>7, <1>8, <1>9 DEF SoundWrites, Linked

-------------------------------------------------------------------------------
(***************************************************************************)
(* Grabs, passes, polls and the outcomes of a download carry attempts.     *)
(***************************************************************************)

\* A grab carries the attempt it inserted.
LEMMA GrabKeepsFiles ==
  ASSUME ArrivalsStay, Inv, FilesInv, NEW t \in Tasks, GrabStep(t) \/ GrabAddLost(t)
  PROVE  FilesInv' /\ SoundWrites
<1>1. RowsOK /\ Linked /\ Unattended(t) \in BOOLEAN /\ task[t] \in TaskState
  BY UnattendedIsBoolean DEF Inv, FilesInv, TasksOK
<1>2. CASE GrabRefused(t)
  <2>1. ASSUME NEW a \in Attempts, IsNextAttempt(a),
               Insert(a, [AbsentAttempt EXCEPT !.status = "failed", !.request = task[t].request,
                                               !.automated = Unattended(t)])
        PROVE  SoundWrites
    <3> DEFINE row == [AbsentAttempt EXCEPT !.status = "failed", !.request = task[t].request,
                                            !.automated = Unattended(t)]
    <3>1. row \in AttemptRow
      <4>1. task[t].request \in Requests \cup {NoRow}
        BY <1>1 DEF TaskState
      <4> QED
        BY <1>1, <4>1 DEF AbsentAttempt, AttemptRow, AttemptStatuses, ActiveAttempt
    <3>2. row.dock = NoRow /\ row.status = "failed"
      BY DEF AbsentAttempt
    <3> HIDE DEF row
    <3> QED
      BY <1>1, <1>2, <2>1, <3>1, <3>2, InsertWrites DEF GrabRefused, row
  <2>2. SoundWrites
    BY <1>1, <1>2, <2>1, NoWrites DEF GrabRefused, rows
  <2> QED
    BY <1>2, <2>2, GoesFree DEF GrabRefused, Carrying, Importing, Filing, Moved, Adding, Discarding
<1>3. ASSUME NEW h \in Releases, GrabCreate(t, h)
      PROVE  FilesInv' /\ SoundWrites
  <2>1. CASE ~HashFree(h, NoRow)
    <3>1. SoundWrites
      BY <1>1, <1>3, <2>1, NoWrites DEF GrabCreate, rows
    <3> QED
      BY <1>3, <2>1, <3>1, GoesFree
      DEF GrabCreate, Carrying, Importing, Filing, Moved, Adding, Discarding
  <2>2. CASE HashFree(h, NoRow)
    <3> DEFINE row == [AbsentAttempt EXCEPT !.status = "queued", !.release = h,
                                            !.request = task[t].request,
                                            !.automated = Unattended(t)]
    <3>1. PICK a \in Attempts :
            /\ IsNextAttempt(a)
            /\ Insert(a, row)
            /\ task' = [task EXCEPT ![t].pc = "grab_add", ![t].attempt = a]
      BY <1>3, <2>2 DEF GrabCreate
    <3>2. row \in AttemptRow
      <4>1. task[t].request \in Requests \cup {NoRow}
        BY <1>1 DEF TaskState
      <4> QED
        BY <1>1, <4>1 DEF AbsentAttempt, AttemptRow, AttemptStatuses, ActiveAttempt
    <3>3. row.dock = NoRow /\ row.status = "queued"
      BY DEF AbsentAttempt
    <3> HIDE DEF row
    <3>4. SoundWrites /\ Inserted(a)'
      BY <1>1, <1>3, <3>1, <3>2, <3>3, InsertWrites DEF GrabCreate
    <3>5. /\ task'[t].pc = "grab_add" /\ task'[t].attempt = a
          /\ \A u \in Tasks \ {t} : task'[u] = task[u]
      BY <1>1, <3>1 DEF Inv, TasksOK, TaskState
    <3>6. Brings(t)'
      BY <3>4, <3>5 DEF Brings, InHand, Filing, Moved
    <3> QED
      BY <1>1, <3>4, <3>5, <3>6, OneBrings
  <2> QED
    BY <2>1, <2>2
<1>4. CASE GrabFailed(t)
  <2>1. Inserted(task[t].attempt)
    BY <1>4 DEF GrabFailed, At, FilesInv, Brings, Carrying, Adding
  <2>2. SoundWrites
    BY <1>1, <1>4, <2>1, AttemptWrites DEF GrabFailed
  <2> QED
    BY <1>4, <2>2, GoesFree DEF GrabFailed, Carrying, Importing, Filing, Moved, Adding, Discarding
<1>5. CASE GrabClaim(t)
  <2> DEFINE r == task[t].request
  <2>1. \A q \in Requests : request'[q].dock = request[q].dock
                            /\ request'[q].status \in {request[q].status, "grabbed"}
    BY <1>1, <1>5 DEF GrabClaim, RowsOK, RequestRow
  <2>2. SoundWrites
    BY <1>1, <1>5, <2>1, QuietWrites DEF GrabClaim
  <2> QED
    BY <1>5, <2>2, GoesFree, ReturnsFree
    DEF GrabClaim, Carrying, Importing, Filing, Moved, Adding, Discarding
<1>6. CASE GrabRollback(t)
  <2>1. task[t].was # "available"
    BY <1>6 DEF GrabRollback, At, Inv, TasksOK, Remembers, Grabbing, Grabbable
  <2>2. SoundWrites
    BY <1>1, <1>6, <2>1, RequestWrites DEF GrabRollback
  <2> QED
    BY <1>6, <2>2, GoesFree, ReturnsFree
    DEF GrabRollback, Carrying, Importing, Filing, Moved, Adding, Discarding
<1>7. CASE GrabConfirm(t)
  <2>1. SoundWrites
    BY <1>1, <1>7, RequestWrites DEF GrabConfirm
  <2> QED
    BY <1>7, <2>1, ReturnsFree DEF GrabConfirm
<1>8. CASE GrabResolve(t)
  <2>1. SoundWrites
    BY <1>1, <1>8, NoWrites DEF GrabResolve
  <2> QED
    BY <1>8, <2>1, GoesFree DEF GrabResolve, Carrying, Importing, Filing, Moved, Adding, Discarding
<1>9. CASE GrabAdd(t) \/ GrabAddRefused(t) \/ GrabAddLost(t)
  <2>1. SoundWrites
    BY <1>1, <1>9, NoWrites DEF GrabAdd, GrabAddRefused, GrabAddLost
  <2>2. Inserted(task[t].attempt)
    BY <1>9 DEF GrabAdd, GrabAddRefused, GrabAddLost, At, FilesInv, Brings, Carrying, Adding
  <2>3. \/ Go(t, "grab_confirm") \/ Go(t, "grab_failed") \/ UNCHANGED task
    BY <1>9 DEF GrabAdd, GrabAddRefused, GrabAddLost
  <2> QED
    BY <2>1, <2>2, <2>3, GoesOn, NobodyGoes DEF InHand, Filing, Moved
<1> QED
  BY <1>2, <1>3, <1>4, <1>5, <1>6, <1>7, <1>8, <1>9 DEF GrabStep

\* A pass that stops hands its request back.
LEMMA HandBackWrites ==
  ASSUME ArrivalsStay, RowsOK, Linked, NEW t, NEW from, HandBack(t, from),
         UNCHANGED <<attempt, dock>>
  PROVE  SoundWrites
<1>1. \A q \in Requests : request'[q].dock = request[q].dock
                          /\ request'[q].status \in {request[q].status, "failed", "approved"}
  BY DEF HandBack, UpdateRequestIf, RowsOK, RequestRow
<1> QED
  BY <1>1, QuietWrites

\* A pass carries nothing outside its grabs.
LEMMA AutomationKeepsFiles ==
  ASSUME ArrivalsStay, Inv, FilesInv, NEW t \in Tasks, AutomationStep(t)
  PROVE  FilesInv' /\ SoundWrites
<1>1. RowsOK /\ Linked /\ task \in [Tasks -> TaskState]
  BY DEF Inv, FilesInv, TasksOK
<1>2. CASE PassClaim(t)
  <2>1. \A q \in Requests : request'[q].dock = request[q].dock
                            /\ request'[q].status \in {request[q].status, "searching"}
    BY <1>1, <1>2 DEF PassClaim, RowsOK, RequestRow
  <2>2. SoundWrites
    BY <1>1, <1>2, <2>1, QuietWrites DEF PassClaim
  <2> QED
    BY <1>2, <2>2, GoesFree, ReturnsFree
    DEF PassClaim, Carrying, Importing, Filing, Moved, Adding, Discarding
<1>3. CASE PassDeclines(t) \/ SearchFindsNothing(t)
  <2>1. SoundWrites
    BY <1>1, <1>3, HandBackWrites, QuietWrites DEF PassDeclines, SearchFindsNothing
  <2> QED
    BY <1>3, <2>1, ReturnsFree DEF PassDeclines, SearchFindsNothing, HandBack
<1>4. CASE SearchFinds(t)
  <2>1. SoundWrites
    BY <1>1, <1>4, NoWrites DEF SearchFinds
  <2> QED
    BY <1>4, <2>1, GoesFree DEF SearchFinds, Carrying, Importing, Filing, Moved, Adding, Discarding
<1>5. CASE PassGrabs(t)
  <2>1. SoundWrites
    BY <1>1, <1>5, NoWrites DEF PassGrabs
  <2>2. CASE task' = [task EXCEPT ![t].pc = "grab_claim",
                                  ![t].was = request[task[t].request].status]
    <3>1. task'[t].pc = "grab_claim" /\ \A u \in Tasks \ {t} : task'[u] = task[u]
      BY <1>1, <2>2 DEF TaskState
    <3>2. Brings(t)'
      BY <3>1, ElsewhereBrings DEF Carrying, Importing, Filing, Moved, Adding, Discarding
    <3> QED
      BY <1>1, <2>1, <3>1, <3>2, OneBrings
  <2>3. CASE Go(t, "auto_failed")
    BY <2>1, <2>3, GoesFree DEF Carrying, Importing, Filing, Moved, Adding, Discarding
  <2> QED
    BY <1>5, <2>1, <2>2, <2>3 DEF PassGrabs
<1>6. CASE PassFails(t) \/ Abandon(t)
  <2>1. SoundWrites
    BY <1>1, <1>6, RequestWrites DEF PassFails, Abandon
  <2> QED
    BY <1>6, <2>1, ReturnsFree DEF PassFails, Abandon
<1> QED
  BY <1>2, <1>3, <1>4, <1>5, <1>6 DEF AutomationStep

\* An adoption takes back an attempt that exists.
LEMMA AdoptKeepsFiles ==
  ASSUME ArrivalsStay, Inv, FilesInv, NEW t \in Tasks, Adopt(t)
  PROVE  FilesInv' /\ SoundWrites
<1>1. RowsOK /\ Linked
  BY DEF Inv, FilesInv
<1>2. task[t].says \in {"queued", "downloading", "completed"}
  BY DEF Adopt, At, Inv, TasksOK, Remembers
<1>3. \A a \in Attempts : /\ attempt'[a].request = attempt[a].request
                          /\ attempt'[a].dock = attempt[a].dock
                          /\ \/ attempt'[a].status = attempt[a].status
                             \/ attempt[a].status = "failed" /\ attempt'[a].status = task[t].says
  BY <1>1 DEF Adopt, RowsOK, AttemptRow
<1>4. \A r \in Requests :
        /\ request'[r].dock = request[r].dock
        /\ request'[r].status \in {request[r].status, "grabbed", "downloading"}
  BY <1>1 DEF Adopt, RowsOK, RequestRow
<1>5. SoundWrites
  BY <1>1, <1>2, <1>3, <1>4, QuietWrites DEF Adopt, At, Created, Written, ActiveAttempt
<1> QED
  BY <1>5, ReturnsFree DEF Adopt

\* So do a poll, a sweep's offer, a failure and a hold.
LEMMA OutcomeKeepsFiles ==
  ASSUME ArrivalsStay, Inv, FilesInv, NEW t \in Tasks,
         MonitorStep(t) \/ FailAttempt(t) \/ FailRequest(t) \/ HoldAttempt(t) \/ HoldRequest(t)
  PROVE  FilesInv' /\ SoundWrites
<1>1. RowsOK /\ Linked
  BY DEF Inv, FilesInv
<1>2. CASE PollApply(t)
  <2>1. task[t].says \in {"queued", "downloading", "completed"} /\ task[t].attempt \in Attempts
    BY <1>2 DEF PollApply, At, Inv, TasksOK, Remembers
  <2>2. SoundWrites
    <3>1. CASE attempt[task[t].attempt].status \in ActiveAttempt
      BY <1>1, <1>2, <2>1, <3>1, AttemptWrites DEF PollApply, Inserted, Created, ActiveAttempt
    <3>2. CASE attempt[task[t].attempt].status \notin ActiveAttempt
      BY <1>1, <1>2, <3>2, NoWrites DEF PollApply, rows
    <3> QED
      BY <3>1, <3>2
  <2> QED
    BY <1>2, <2>2, GoesFree, ReturnsFree
    DEF PollApply, HandOff, Carrying, Importing, Filing, Moved, Adding, Discarding
<1>3. CASE PollRequest(t) \/ ResumeEnqueue(t)
  <2>1. SoundWrites
    BY <1>1, <1>3, RequestWrites, NoWrites DEF PollRequest, ResumeEnqueue
  <2> QED
    BY <1>3, <2>1, ReturnsFree DEF PollRequest, ResumeEnqueue, HandOff
<1>4. CASE FailAttempt(t)
  <2>1. \A a \in Attempts : /\ attempt'[a].request = attempt[a].request
                            /\ attempt'[a].dock = attempt[a].dock
                            /\ \/ attempt'[a].status = attempt[a].status
                               \/ Created(a) /\ attempt'[a].status = "failed"
    BY <1>1, <1>4
    DEF FailAttempt, SetAttempt, RowsOK, AttemptRow, Created, Unsettled, InFlight, ActiveAttempt
  <2>2. SoundWrites
    BY <1>1, <1>4, <2>1, QuietWrites DEF FailAttempt, Written
  <2> QED
    BY <1>4, <2>2, GoesFree, ReturnsFree
    DEF FailAttempt, Carrying, Importing, Filing, Moved, Adding, Discarding
<1>5. CASE HoldAttempt(t)
  <2>1. \A a \in Attempts : /\ attempt'[a].request = attempt[a].request
                            /\ attempt'[a].dock = attempt[a].dock
                            /\ \/ attempt'[a].status = attempt[a].status
                               \/ /\ Created(a) /\ a = task[t].attempt
                                  /\ attempt'[a].status = "needs_review"
    BY <1>1, <1>5
    DEF HoldAttempt, RowsOK, AttemptRow, Created, Unsettled, InFlight, ActiveAttempt
  <2>2. task[t].pc = "hold_attempt" /\ Leaves(t)
    BY <1>5, GoesAway, ReturnsAway DEF HoldAttempt, At, Owning, Importing
  <2>3. SoundWrites
    BY <1>1, <1>5, <2>1, <2>2, QuietWrites DEF HoldAttempt, Written
  <2> QED
    BY <1>5, <2>3, GoesFree, ReturnsFree
    DEF HoldAttempt, Carrying, Importing, Filing, Moved, Adding, Discarding
<1>6. CASE FailRequest(t) \/ HoldRequest(t)
  <2>1. SoundWrites
    BY <1>1, <1>6, RequestWrites, NoWrites DEF FailRequest, HoldRequest, rows
  <2> QED
    BY <1>6, <2>1, GoesFree, ReturnsFree
    DEF FailRequest, HoldRequest, Carrying, Importing, Filing, Moved, Adding, Discarding
<1> QED
  BY <1>2, <1>3, <1>4, <1>6, <1>5 DEF MonitorStep

-------------------------------------------------------------------------------
(***************************************************************************)
(* An import carries the dock row it made.                                 *)
(***************************************************************************)
LEMMA ClaimKeepsFiles ==
  ASSUME ArrivalsStay, Inv, FilesInv, NEW t \in Tasks, NEW from \in Importing,
         NEW to \in {"import_claim", "import_reclaim"}, ClaimDestination(t, from, to)
  PROVE  FilesInv' /\ SoundWrites
<1>1. RowsOK /\ Linked /\ task \in [Tasks -> TaskState]
  BY DEF Inv, FilesInv, TasksOK
<1>2. Inserted(task[t].attempt)
  BY DEF ClaimDestination, At, FilesInv, Brings, Carrying
<1>3. PICK f \in DockFiles :
        /\ IsNextDockFile(f)
        /\ dock' = [dock EXCEPT ![f] = [state |-> "claimed", attempt |-> task[t].attempt]]
        /\ task' = [task EXCEPT ![t].pc = to, ![t].dock = f]
  BY DEF ClaimDestination
<1>4. SoundWrites /\ Made(f)' /\ dock'[f].attempt = task[t].attempt
  BY <1>1, <1>2, <1>3, ClaimWrites DEF ClaimDestination, IsNextDockFile
<1>5. /\ task'[t].pc = to /\ task'[t].dock = f /\ task'[t].attempt = task[t].attempt
      /\ \A u \in Tasks \ {t} : task'[u] = task[u]
  BY <1>1, <1>3 DEF TaskState
<1>6. Inserted(task[t].attempt)'
  <2>1. \A a : Inserted(a) => Inserted(a)'
    BY <1>4 DEF SoundWrites, RowsKeep, Inserted
  <2> QED
    BY <1>2, <1>5, <2>1 DEF Inserted
<1>7. Brings(t)'
  BY <1>4, <1>5, <1>6 DEF Brings, Filing, Moved
<1> QED
  BY <1>1, <1>4, <1>5, <1>7, OneBrings

\* An import claims a dock row for its attempt, and links the two to the request.
LEMMA ImportKeepsFiles ==
  ASSUME ArrivalsStay, Inv, FilesInv, NEW t \in Tasks, ImportStep(t) \/ ImportPlaceCollides(t)
  PROVE  FilesInv' /\ SoundWrites
<1>1. RowsOK /\ Linked /\ task \in [Tasks -> TaskState]
  BY DEF Inv, FilesInv, TasksOK
<1>2. task[t].pc \in Importing \cup {"choose_claim"} => Inserted(task[t].attempt)
  BY DEF FilesInv, Brings, Carrying
<1>3. task[t].pc \in InHand => /\ Made(task[t].dock)
                               /\ dock[task[t].dock].attempt = task[t].attempt
                               /\ Owner(task[t].dock) = attempt[task[t].attempt].request
  BY DEF FilesInv, Brings, Owner
<1>4. CASE ImportDone(t)
  <2>1. SoundWrites
    BY <1>1, <1>4, NoWrites DEF ImportDone
  <2>2. task'[t].pc = "idle" /\ \A u \in Tasks \ {t} : task'[u] = task[u]
    BY <1>1, <1>4 DEF ImportDone, Idle
  <2>3. Brings(t)'
    BY <2>2, ElsewhereBrings DEF Carrying, Importing, Filing, Moved, Adding, Discarding
  <2> QED
    BY <1>1, <2>1, <2>2, <2>3, OneBrings
<1>5. CASE ChooseClaim(t)
  <2>1. Inserted(task[t].attempt)
    BY <1>2, <1>5 DEF ChooseClaim, At
  <2>2. CASE attempt[task[t].attempt].status = "needs_review"
    <3>1. SoundWrites
      BY <1>1, <1>5, <2>1, <2>2, AttemptWrites DEF ChooseClaim
    <3> QED
      BY <1>5, <2>1, <2>2, <3>1, GoesOn DEF ChooseClaim, InHand, Filing, Moved
  <2>3. CASE attempt[task[t].attempt].status # "needs_review"
    <3>1. SoundWrites
      BY <1>1, <1>5, <2>3, NoWrites DEF ChooseClaim, rows
    <3> QED
      BY <1>5, <2>3, <3>1, ReturnsFree DEF ChooseClaim
  <2> QED
    BY <2>2, <2>3
<1>6. CASE ImportError(t)
  <2>1. SoundWrites
    BY <1>1, <1>6, NoWrites DEF ImportError
  <2> QED
    BY <1>6, <2>1, GoesFree DEF ImportError, Carrying, Importing, Filing, Moved, Adding, Discarding
<1>7. ASSUME NEW why \in {"choice", "truncated"}, ImportHold(t, why)
      PROVE  FilesInv' /\ SoundWrites
  <2>1. SoundWrites
    BY <1>1, <1>7, NoWrites DEF ImportHold
  <2>2. task'[t].pc = "hold_attempt" /\ \A u \in Tasks \ {t} : task'[u] = task[u]
    BY <1>1, <1>7 DEF ImportHold, TaskState
  <2>3. Brings(t)'
    BY <2>2, ElsewhereBrings DEF Carrying, Importing, Filing, Moved, Adding, Discarding
  <2> QED
    BY <1>1, <2>1, <2>2, <2>3, OneBrings
<1>8. CASE ImportClaimDock(t) \/ ImportReclaimDock(t)
  BY <1>8, ClaimKeepsFiles DEF ImportClaimDock, ImportReclaimDock, Importing
<1>9. CASE ImportClaim(t) \/ ImportReclaim(t)
  <2> DEFINE f == task[t].dock
             r == attempt[task[t].attempt].request
  <2>1. Inserted(task[t].attempt) /\ Made(f) /\ dock[f].attempt = task[t].attempt /\ Owner(f) = r
    BY <1>2, <1>3, <1>9 DEF ImportClaim, ImportReclaim, At, InHand, Importing
  <2>2. CASE request' = request
    <3>1. SoundWrites
      BY <1>1, <1>9, <2>2, NoWrites DEF ImportClaim, ImportReclaim, rows
    <3>2. \/ Go(t, "import_record") \/ Go(t, "import_undo") \/ Go(t, "fail_attempt")
          \/ Go(t, "import_rerecord")
      BY <1>9 DEF ImportClaim, ImportReclaim
    <3> QED
      BY <2>1, <3>1, <3>2, GoesOn, GoesFree
      DEF Filing, Moved, Carrying, Importing, Adding
  <2>3. CASE \/ request' = [request EXCEPT ![r].status = "importing", ![r].dock = f]
             \/ request' = [request EXCEPT ![r].dock = f]
    <3>1. \A q \in Requests :
            \/ request'[q] = request[q]
            \/ /\ q = r
               /\ request'[q].dock = f
               /\ request'[q].status \in {request[q].status, "importing"}
      BY <1>1, <2>3 DEF RowsOK, RequestRow
    <3>2. SoundWrites
      <4>1. UNCHANGED <<attempt, dock>>
        BY <1>9 DEF ImportClaim, ImportReclaim
      <4> HIDE DEF f, r
      <4> QED
        BY <1>1, <2>1, <3>1, <4>1, RequestLinkWrites
    <3>3. \/ Go(t, "import_record") \/ Go(t, "import_undo") \/ Go(t, "fail_attempt")
          \/ Go(t, "import_rerecord")
      BY <1>9 DEF ImportClaim, ImportReclaim
    <3> QED
      BY <2>1, <3>2, <3>3, GoesOn, GoesFree
      DEF Filing, Moved, Carrying, Importing, Adding
  <2> QED
    BY <1>9, <2>2, <2>3 DEF ImportClaim, ImportReclaim
<1>10. CASE ImportUndo(t)
  <2>1. SoundWrites
    BY <1>1, <1>10, DeleteWrites DEF ImportUndo
  <2>2. Inserted(task[t].attempt)
    BY <1>2, <1>10 DEF ImportUndo, At, Importing
  <2> QED
    BY <1>10, <2>1, <2>2, GoesOn DEF ImportUndo, InHand, Filing, Moved
<1>11. CASE ImportRefused(t)
  <2>1. Inserted(task[t].attempt)
    BY <1>2, <1>11 DEF ImportRefused, At, Importing
  <2>2. SetAttempt(task[t].attempt, "failed") \/ UNCHANGED attempt
    BY <1>11 DEF ImportRefused, SetAttempt
  <2>3. SoundWrites
    BY <1>1, <1>11, <2>1, <2>2, AttemptWrites, NoWrites DEF ImportRefused, rows
  <2> QED
    BY <1>11, <2>3, ReturnsFree DEF ImportRefused
<1>12. CASE ImportRecord(t) \/ ImportRerecord(t)
  <2> DEFINE f == task[t].dock
             a == task[t].attempt
  <2>1. Inserted(a) /\ Made(f) /\ dock[f].attempt = a
    BY <1>2, <1>3, <1>12 DEF ImportRecord, ImportRerecord, At, InHand, Importing
  <2>2. \A b \in Attempts :
          \/ attempt'[b] = attempt[b]
          \/ /\ b = a
             /\ attempt'[b].dock = f
             /\ attempt'[b].status \in {attempt[b].status, "importing"}
             /\ attempt'[b].request = attempt[b].request
    BY <1>1, <1>12 DEF ImportRecord, ImportRerecord, RowsOK, AttemptRow
  <2>3. SoundWrites
    BY <1>1, <1>12, <2>1, <2>2, AttemptLinkWrites DEF ImportRecord, ImportRerecord
  <2>4. Go(t, "import_place") \/ Go(t, "fail_attempt")
    BY <1>12 DEF ImportRecord, ImportRerecord
  <2> QED
    BY <2>1, <2>3, <2>4, GoesOn, GoesFree
    DEF Filing, Moved, Carrying, Importing, Adding
<1>13. CASE ImportPlace(t)
  <2>1. SoundWrites
    BY <1>1, <1>13, PlaceWrites, ReturnsAway DEF ImportPlace, At
  <2> QED
    BY <1>13, <2>1, ReturnsFree DEF ImportPlace
<1>14. CASE ImportPlaceThrows(t) \/ ImportPlaceCollides(t)
  <2>1. SoundWrites
    BY <1>1, <1>14, DeleteWrites DEF ImportPlaceThrows, ImportPlaceCollides, ImportPlaceFails
  <2>2. Inserted(task[t].attempt)
    BY <1>2, <1>14
    DEF ImportPlaceThrows, ImportPlaceCollides, ImportPlaceFails, At, Importing
  <2>3. Go(t, "fail_attempt") \/ Go(t, "import_reclaim_dock")
    BY <1>14 DEF ImportPlaceThrows, ImportPlaceCollides, ImportPlaceFails
  <2> QED
    BY <2>1, <2>2, <2>3, GoesOn, GoesFree
    DEF InHand, Filing, Moved, Carrying, Importing, Adding
<1> QED
  BY <1>4, <1>5, <1>6, <1>7, <1>8, <1>9, <1>10, <1>11, <1>12, <1>13, <1>14 DEF ImportStep

-------------------------------------------------------------------------------
(***************************************************************************)
(* A verification carries the dock row it read, and a filing its file.     *)
(***************************************************************************)

\* A filing makes its request available,
LEMMA ArrivalWrites ==
  ASSUME ArrivalsStay, RowsOK, Linked, NEW t \in Tasks, task[t].pc \in Moved,
         \A r \in Requests :
           \/ request'[r] = request[r]
           \/ r = task[t].request /\ request'[r].dock = NoRow,
         UNCHANGED <<attempt, dock>>
  PROVE  SoundWrites
<1>1. \A a : Inserted(a)' <=> Inserted(a)
  BY DEF Inserted, Created
<1>2. \A e : (Made(e)' <=> Made(e)) /\ Owner(e)' = Owner(e)
  BY DEF Made, Owner
<1>3. RowsKeep
  BY <1>1, <1>2 DEF RowsKeep, Created
<1>4. FilesComeFromAttempts' /\ AttemptsLinkTheirOwn'
  BY <1>1, <1>2 DEF Linked, FilesComeFromAttempts, AttemptsLinkTheirOwn
<1>5. RequestsLinkTheirOwn'
  BY <1>2 DEF Linked, RequestsLinkTheirOwn, ArrivalsStay
<1>6. AttemptsWritten /\ FilesWritten /\ OnlyFilingsArrive
  BY DEF AttemptsWritten, Written, FilesWritten, HasFiles, OnlyFilingsArrive
<1> QED
  BY <1>3, <1>4, <1>5, <1>6 DEF SoundWrites, Linked

\* and settles its attempt.
LEMMA ImportedWrites ==
  ASSUME ArrivalsStay, RowsOK, Linked, NEW t \in Tasks, task[t].pc \in Moved,
         \A a \in Attempts :
           /\ attempt'[a].request = attempt[a].request
           /\ attempt'[a].dock = attempt[a].dock
           /\ \/ attempt'[a].status = attempt[a].status
              \/ a = task[t].attempt /\ Created(a) /\ attempt'[a].status = "imported",
         UNCHANGED <<request, dock>>
  PROVE  SoundWrites
<1>1. \A a \in Attempts : /\ attempt'[a].request = attempt[a].request
                          /\ attempt'[a].dock = attempt[a].dock
  OBVIOUS
<1>2. \A a : Inserted(a) => Inserted(a)'
  BY DEF Inserted, Created
<1>3. \A e : (Made(e)' <=> Made(e)) /\ (Made(e) => Owner(e)' = Owner(e))
  BY <1>1 DEF Made, Owner, Linked, FilesComeFromAttempts, Inserted
<1>4. RowsKeep
  BY <1>1, <1>2, <1>3 DEF RowsKeep, Inserted
<1>5. FilesComeFromAttempts'
  BY <1>2, <1>3 DEF Linked, FilesComeFromAttempts
<1>6. AttemptsLinkTheirOwn' /\ RequestsLinkTheirOwn'
  BY <1>1, <1>3 DEF Linked, AttemptsLinkTheirOwn, RequestsLinkTheirOwn, ArrivalsStay
<1>7. AttemptsWritten /\ FilesWritten /\ OnlyFilingsArrive
  BY DEF AttemptsWritten, Written, FilesWritten, HasFiles, OnlyFilingsArrive
<1> QED
  BY <1>4, <1>5, <1>6, <1>7 DEF SoundWrites, Linked

\* A failed filing carries nothing on.
LEMMA NotFiledFree ==
  ASSUME Inv, FilesInv, SoundWrites, NEW t \in Tasks, NotFiled(t)
  PROVE  FilesInv'
  BY GoesFree, ReturnsFree DEF NotFiled, Carrying, Importing, Filing, Moved, Adding, Discarding

\* A filing moves the file it carries, and writes its book on the attempt and the request.
LEMMA VerificationKeepsFiles ==
  ASSUME ArrivalsStay, Inv, FilesInv, NEW t \in Tasks, VerificationStep(t)
  PROVE  FilesInv' /\ SoundWrites
<1>1. RowsOK /\ Linked /\ task \in [Tasks -> TaskState]
  BY DEF Inv, FilesInv, TasksOK
<1>2. task[t].pc \in Filing => Inserted(task[t].attempt) /\ CarriesFile(t)
  BY DEF FilesInv, Brings, Carrying
<1>3. CASE VerifyPasses(t)
  <2>1. SoundWrites
    BY <1>1, <1>3, NoWrites DEF VerifyPasses
  <2>2. Inserted(task[t].attempt) /\ CarriesFile(t)
    BY <1>2, <1>3 DEF VerifyPasses, At, Filing
  <2> QED
    BY <1>3, <2>1, <2>2, GoesOn DEF VerifyPasses, InHand, Moved
<1>4. CASE VerifyHolds(t) \/ VerifyFindsNoRow(t)
  <2>1. SoundWrites
    BY <1>1, <1>4, NoWrites DEF VerifyHolds, VerifyFindsNoRow
  <2> QED
    BY <1>4, <2>1, GoesFree
    DEF VerifyHolds, VerifyFindsNoRow, Carrying, Importing, Filing, Moved, Adding, Discarding
<1>5. CASE FileRead(t)
  <2>1. SoundWrites
    BY <1>1, <1>5, NoWrites DEF FileRead
  <2>2. Inserted(task[t].attempt) /\ CarriesFile(t)
    BY <1>2, <1>5 DEF FileRead, At, Filing
  <2> QED
    BY <1>5, <2>1, <2>2, GoesOn, NotFiledFree DEF FileRead, InHand, Moved
<1>6. CASE FileMove(t)
  <2>1. SoundWrites
    BY <1>1, <1>6, DeleteWrites DEF FileMove, HasFiles
  <2>2. Inserted(task[t].attempt) /\ CarriesFile(t)
    BY <1>2, <1>6 DEF FileMove, At, Filing
  <2>3. dock'[task[t].dock].state = "filed"
    <3>1. task[t].dock \in DockFiles /\ DockRow(task[t].dock)
      BY <1>6, <2>2 DEF FileMove, CarriesFile, Made, DockRow, DockFiles, NoRow
    <3> QED
      BY <1>1, <1>6, <3>1 DEF FileMove, DeleteDockRow, RowsOK, DockRows
  <2> QED
    BY <1>6, <2>1, <2>2, <2>3, GoesOn DEF FileMove, InHand
<1>7. CASE FileMoveFails(t)
  <2>1. SoundWrites
    BY <1>1, <1>7, NoWrites DEF FileMoveFails
  <2> QED
    BY <1>7, <2>1, NotFiledFree DEF FileMoveFails
<1>8. CASE FileRequest(t)
  <2>1. /\ task[t].pc \in Moved /\ Inserted(task[t].attempt) /\ CarriesFile(t)
        /\ dock[task[t].dock].state = "filed"
    BY <1>2, <1>8 DEF FileRequest, At, FilesInv, Brings, Filing, Moved
  <2>2. \A r \in Requests :
          \/ request'[r] = request[r]
          \/ r = task[t].request /\ request'[r].dock = NoRow
    BY <1>1, <1>8 DEF FileRequest, RowsOK, RequestRow
  <2>3. SoundWrites
    BY <1>1, <1>8, <2>1, <2>2, ArrivalWrites DEF FileRequest
  <2>4. dock' = dock /\ (Go(t, "file_attempt") \/ Go(t, "file_refused"))
    BY <1>8 DEF FileRequest
  <2> QED
    BY <2>1, <2>3, <2>4, GoesOn DEF InHand
<1>9. CASE FileAttempt(t)
  <2>1. task[t].pc \in Moved
    BY <1>9 DEF FileAttempt, At, Moved
  <2>2. \A a \in Attempts :
          /\ attempt'[a].request = attempt[a].request
          /\ attempt'[a].dock = attempt[a].dock
          /\ \/ attempt'[a].status = attempt[a].status
             \/ a = task[t].attempt /\ Created(a) /\ attempt'[a].status = "imported"
    BY <1>1, <1>9
    DEF FileAttempt, RowsOK, AttemptRow, Created, Unsettled, InFlight, ActiveAttempt
  <2>3. SoundWrites
    BY <1>1, <1>9, <2>1, <2>2, ImportedWrites DEF FileAttempt
  <2> QED
    BY <1>9, <2>3, NotFiledFree, ReturnsFree DEF FileAttempt
<1>10. CASE DiscardRequest(t) \/ DiscardUndoRequest(t)
  <2>1. \A q \in Requests : request'[q].dock = request[q].dock
                            /\ request'[q].status \in {request[q].status, "failed", "needs_review"}
    BY <1>1, <1>10 DEF DiscardRequest, DiscardUndoRequest, RowsOK, RequestRow
  <2>2. SoundWrites
    BY <1>1, <1>10, <2>1, QuietWrites DEF DiscardRequest, DiscardUndoRequest
  <2>3. Go(t, "discard_attempt") => Inserted(task[t].attempt)
    BY <1>10
    DEF DiscardRequest, DiscardUndoRequest, At, FilesInv, Brings, Carrying, Discarding, Go,
        Return, Inv, TasksOK, TaskState, Idle
  <2>4. Go(t, "discard_attempt") \/ Return(t)
    BY <1>10 DEF DiscardRequest, DiscardUndoRequest
  <2> QED
    BY <2>2, <2>3, <2>4, GoesOn, ReturnsFree DEF InHand, Filing, Moved
<1>11. CASE DiscardAttempt(t) \/ DiscardUndoAttempt(t)
  <2>1. Inserted(task[t].attempt)
    BY <1>11 DEF DiscardAttempt, DiscardUndoAttempt, At, FilesInv, Brings, Carrying, Discarding
  <2>2. CASE DiscardAttempt(t)
    <3>1. SoundWrites
      BY <1>1, <2>1, <2>2, AttemptWrites, NoWrites DEF DiscardAttempt, rows
    <3>2. Go(t, "discard_dock") \/ Go(t, "discard_undo_request")
      BY <2>2 DEF DiscardAttempt
    <3> QED
      BY <2>1, <3>1, <3>2, GoesOn DEF InHand, Filing, Moved
  <2>3. CASE DiscardUndoAttempt(t)
    <3>1. \A a \in Attempts : /\ attempt'[a].request = attempt[a].request
                              /\ attempt'[a].dock = attempt[a].dock
                              /\ \/ attempt'[a].status = attempt[a].status
                                 \/ /\ a = task[t].attempt /\ Created(a)
                                    /\ attempt'[a].status = "needs_review"
      BY <1>1, <2>3 DEF DiscardUndoAttempt, RowsOK, AttemptRow, Created
    <3>2. task[t].pc = "discard_undo_attempt" /\ Leaves(t)
      BY <2>3, GoesAway DEF DiscardUndoAttempt, At, Owning, Importing
    <3>3. SoundWrites
      BY <1>1, <2>3, <3>1, <3>2, QuietWrites DEF DiscardUndoAttempt, Written
    <3> QED
      BY <2>1, <2>3, <3>3, GoesOn DEF DiscardUndoAttempt, InHand, Filing, Moved
  <2> QED
    BY <1>11, <2>2, <2>3
<1>12. CASE DiscardDockFails(t)
  <2>1. SoundWrites
    BY <1>1, <1>12, NoWrites DEF DiscardDockFails
  <2>2. Inserted(task[t].attempt)
    BY <1>12 DEF DiscardDockFails, At, FilesInv, Brings, Carrying, Discarding
  <2> QED
    BY <1>12, <2>1, <2>2, GoesOn DEF DiscardDockFails, InHand, Filing, Moved
<1>13. CASE DiscardDock(t)
  <2>1. SoundWrites
    BY <1>1, <1>13, DeleteWrites DEF DiscardDock
  <2> QED
    BY <1>13, <2>1, ReturnsFree DEF DiscardDock
<1> QED
  BY <1>3, <1>4, <1>5, <1>6, <1>7, <1>8, <1>9, <1>10, <1>11, <1>13, <1>12
  DEF VerificationStep

-------------------------------------------------------------------------------
(***************************************************************************)
(* Removals, beginnings and the world outside carry nothing on.            *)
(***************************************************************************)

\* After a removal there may be a request to settle.
LEMMA AfterRemovalFree ==
  ASSUME Inv, FilesInv, SoundWrites, NEW t \in Tasks, NEW wasInFlight,
         AfterRemoval(t, wasInFlight)
  PROVE  FilesInv'
  BY GoesFree, ReturnsFree DEF AfterRemoval, Carrying, Importing, Filing, Moved, Adding, Discarding

\* A person marks a request fulfilled.
LEMMA FulfilWrites ==
  ASSUME ArrivalsStay, RowsOK, Linked, NEW t \in Tasks,
         task[t].pc = "after_removal", task[t].says = "fulfil",
         \/ /\ task[t].dock = NoRow \/ DockRow(task[t].dock)
            /\ request' = [request EXCEPT ![task[t].request].status = "available",
                                          ![task[t].request].dock = task[t].dock]
         \/ request' = request,
         UNCHANGED <<attempt, dock>>
  PROVE  SoundWrites
<1>1. \A r \in Requests :
        \/ request'[r] = request[r]
        \/ /\ request'[r].status = "available"
           /\ request'[r].dock # NoRow => Made(request'[r].dock)
  BY DEF RowsOK, RequestRow, DockRow, Made
<1>2. \A a : Inserted(a)' <=> Inserted(a)
  BY DEF Inserted, Created
<1>3. \A e : (Made(e)' <=> Made(e)) /\ Owner(e)' = Owner(e)
  BY DEF Made, Owner
<1>4. RowsKeep
  BY <1>2, <1>3 DEF RowsKeep, Created
<1>5. FilesComeFromAttempts' /\ AttemptsLinkTheirOwn'
  BY <1>2, <1>3 DEF Linked, FilesComeFromAttempts, AttemptsLinkTheirOwn
<1>6. RequestsLinkTheirOwn'
  BY <1>1, <1>3 DEF Linked, RequestsLinkTheirOwn, ArrivalsStay
<1>7. AttemptsWritten /\ FilesWritten /\ OnlyFilingsArrive
  BY DEF AttemptsWritten, Written, FilesWritten, HasFiles, OnlyFilingsArrive
<1> QED
  BY <1>4, <1>5, <1>6, <1>7 DEF SoundWrites, Linked

\* People who settle a request leave its file or name one in the dock, and make none.
LEMMA RemovalKeepsFiles ==
  ASSUME ArrivalsStay, Inv, FilesInv, NEW t \in Tasks, RemovalStep(t) \/ SettleRefused(t)
  PROVE  FilesInv' /\ SoundWrites
<1>1. RowsOK /\ Linked /\ task \in [Tasks -> TaskState]
  BY DEF Inv, FilesInv, TasksOK
<1>2. CASE Latest(t)
  <2>1. SoundWrites
    BY <1>1, <1>2, NoWrites DEF Latest
  <2>2. CASE \E a \in Attempts : task' = [task EXCEPT ![t].pc = "detach", ![t].attempt = a]
    <3>1. task'[t].pc = "detach" /\ \A u \in Tasks \ {t} : task'[u] = task[u]
      BY <1>1, <2>2 DEF TaskState
    <3>2. Brings(t)'
      BY <3>1, ElsewhereBrings DEF Carrying, Importing, Filing, Moved, Adding, Discarding
    <3> QED
      BY <1>1, <2>1, <3>1, <3>2, OneBrings
  <2> QED
    BY <1>2, <2>1, <2>2, AfterRemovalFree DEF Latest
<1>3. CASE Detach(t) \/ DetachRefused(t)
  <2>1. SoundWrites
    BY <1>1, <1>3, NoWrites DEF Detach, DetachRefused
  <2> QED
    BY <1>3, <2>1, GoesFree, ReturnsFree
    DEF Detach, DetachRefused, Carrying, Importing, Filing, Moved, Adding, Discarding
<1>4. CASE FailInFlight(t) \/ FailInFlightForRequest(t)
  <2>1. \A a \in Attempts : /\ attempt'[a].request = attempt[a].request
                            /\ attempt'[a].dock = attempt[a].dock
                            /\ \/ attempt'[a].status = attempt[a].status
                               \/ /\ attempt[a].status \in InFlight
                                  /\ attempt'[a].status = "failed"
    BY <1>1, <1>4 DEF FailInFlight, FailInFlightForRequest, RowsOK, AttemptRow
  <2>2. SoundWrites
    BY <1>1, <1>4, <2>1, QuietWrites
    DEF FailInFlight, FailInFlightForRequest, Created, InFlight, ActiveAttempt, Written
  <2> QED
    BY <1>4, <2>2, AfterRemovalFree, ReturnsFree DEF FailInFlight, FailInFlightForRequest
<1>5. CASE SettleStopped(t) \/ SettleRemoved(t)
  <2>1. SoundWrites
    BY <1>1, <1>5, RequestWrites DEF SettleStopped, SettleRemoved, Settle
  <2> QED
    BY <1>5, <2>1, ReturnsFree DEF SettleStopped, SettleRemoved, Settle
<1>6. CASE SettleFulfilled(t)
  <2>1. SoundWrites
    BY <1>1, <1>6, FulfilWrites DEF SettleFulfilled, At
  <2> QED
    BY <1>6, <2>1, GoesFree, ReturnsFree
    DEF SettleFulfilled, Carrying, Importing, Filing, Moved, Adding, Discarding
<1>7. CASE SettleRefused(t)
  <2>1. SoundWrites
    BY <1>1, <1>7, NoWrites DEF SettleRefused
  <2> QED
    BY <1>7, <2>1, ReturnsFree DEF SettleRefused
<1> QED
  BY <1>2, <1>3, <1>4, <1>5, <1>6, <1>7 DEF RemovalStep

\* An activation that begins elsewhere reads and writes nothing yet.
LEMMA BeginsFree ==
  ASSUME Inv, FilesInv, SoundWrites, NEW t \in Tasks, task'[t].pc \notin Carrying,
         \A u \in Tasks \ {t} : task'[u] = task[u]
  PROVE  FilesInv'
  BY OneBrings, ElsewhereBrings DEF Inv

\* What begins picks up an attempt, or a file, of the request it is about.
LEMMA StartKeepsFiles ==
  ASSUME ArrivalsStay, Inv, FilesInv, NEW t \in Tasks, Start(t)
  PROVE  FilesInv' /\ SoundWrites
<1>1. RowsOK /\ Linked /\ task \in [Tasks -> TaskState]
  BY DEF Inv, FilesInv, TasksOK
<1>2. ASSUME NEW r \in Requests,
             \/ GrabRead(t, r) \/ AbandonRead(t, r) \/ MarkFulfilled(t, r)
             \/ \E trigger \in {"unattended", "retry"} : PassRead(t, r, trigger)
      PROVE  FilesInv' /\ SoundWrites
  <2>1. SoundWrites
    BY <1>1, <1>2, NoWrites DEF GrabRead, AbandonRead, MarkFulfilled, PassRead
  <2>2. task'[t].pc \in {"grab_claim", "abandon", "latest", "auto_claim"}
    <3>1. CASE MarkFulfilled(t, r)
      BY <1>1, <3>1, FulfilBegins
    <3> QED
      BY <1>1, <1>2, <3>1 DEF GrabRead, AbandonRead, PassRead, TaskState
  <2>3. \A u \in Tasks \ {t} : task'[u] = task[u]
    <3>1. CASE MarkFulfilled(t, r)
      BY <1>1, <3>1, FulfilBegins
    <3> QED
      BY <1>1, <1>2, <3>1 DEF GrabRead, AbandonRead, PassRead
  <2> QED
    BY <2>1, <2>2, <2>3, BeginsFree DEF Carrying, Importing, Filing, Moved, Adding, Discarding
<1>3. ASSUME NEW r \in Requests, Cancel(t, r)
      PROVE  FilesInv' /\ SoundWrites
  <2>1. \A q \in Requests : request'[q].dock = request[q].dock
                            /\ request'[q].status \in {request[q].status, "cancelled"}
    BY <1>1, <1>3 DEF Cancel, RowsOK, RequestRow
  <2>2. SoundWrites
    BY <1>1, <1>3, <2>1, QuietWrites DEF Cancel
  <2>3. task'[t].pc = "latest" /\ \A u \in Tasks \ {t} : task'[u] = task[u]
    BY <1>1, <1>3 DEF Cancel, Begin, TaskState
  <2> QED
    BY <2>2, <2>3, BeginsFree DEF Carrying, Importing, Filing, Moved, Adding, Discarding
<1>4. ASSUME NEW a \in Attempts,
             \/ PollRead(t, a) \/ ResumeRead(t, a) \/ WatchdogRead(t, a)
             \/ StopDownload(t, a) \/ RemoveFromClient(t, a) \/ AdoptRead(t, a)
      PROVE  FilesInv' /\ SoundWrites
  <2>1. SoundWrites
    BY <1>1, <1>4, NoWrites
    DEF PollRead, ResumeRead, WatchdogRead, StopDownload, RemoveFromClient, AdoptRead
  <2>2. task'[t].pc \in {"fail_attempt", "poll_apply", "resume", "detach", "adopt"}
    <3>1. CASE PollRead(t, a)
      <4>1. PICK says \in Answers(attempt[a].release) :
              task' = [task EXCEPT
                ![t].pc = IF says = "failing" THEN "fail_attempt" ELSE "poll_apply",
                ![t].attempt = a, ![t].was = attempt[a].status, ![t].says = says]
        BY <3>1 DEF PollRead
      <4> QED
        BY <1>1, <4>1 DEF TaskState
    <3>2. CASE ResumeRead(t, a) \/ WatchdogRead(t, a)
      BY <1>1, <3>2 DEF ResumeRead, WatchdogRead, TaskState
    <3>3. CASE StopDownload(t, a) \/ RemoveFromClient(t, a)
      BY <1>1, <3>3 DEF StopDownload, RemoveFromClient, Begin, TaskState
    <3>4. CASE AdoptRead(t, a)
      BY <1>1, <3>4 DEF AdoptRead, TaskState
    <3> QED
      BY <1>4, <3>1, <3>2, <3>3, <3>4
  <2>3. \A u \in Tasks \ {t} : task'[u] = task[u]
    BY <1>1, <1>4
    DEF PollRead, ResumeRead, WatchdogRead, StopDownload, RemoveFromClient, AdoptRead, Begin
  <2> QED
    BY <2>1, <2>2, <2>3, BeginsFree DEF Carrying, Importing, Filing, Moved, Adding, Discarding
<1>5. ASSUME NEW a \in Attempts, ImportBegin(t, a) \/ ChooseUnit(t, a)
      PROVE  FilesInv' /\ SoundWrites
  <2>1. SoundWrites
    BY <1>1, <1>5, NoWrites DEF ImportBegin, ChooseUnit
  <2>2. /\ task'[t].pc \in {"import_extract", "import_done", "choose_claim"}
        /\ task'[t].pc \in {"import_extract", "choose_claim"} => Created(a)
        /\ task'[t].attempt = a
    <3>1. CASE ImportBegin(t, a)
      BY <1>1, <3>1 DEF ImportBegin, TaskState, Created
    <3>2. CASE ChooseUnit(t, a)
      BY <1>1, <3>2 DEF ChooseUnit, TaskState, Created
    <3> QED
      BY <1>5, <3>1, <3>2
  <2>3. attempt' = attempt /\ \A u \in Tasks \ {t} : task'[u] = task[u]
    BY <1>1, <1>5 DEF ImportBegin, ChooseUnit, rows
  <2>4. CASE task'[t].pc = "import_done"
    BY <2>1, <2>3, <2>4, BeginsFree DEF Carrying, Importing, Filing, Moved, Adding, Discarding
  <2>5. CASE task'[t].pc # "import_done"
    <3>1. Brings(t)'
      BY <2>2, <2>3, <2>5 DEF Brings, Inserted, Created, InHand, Filing, Moved
    <3> QED
      BY <1>1, <2>1, <2>3, <3>1, OneBrings
  <2> QED
    BY <2>4, <2>5
<1>6. ASSUME NEW f \in DockFiles, NEW a \in Attempts, VerifyRead(t, f, a)
      PROVE  FilesInv' /\ SoundWrites
  <2>1. SoundWrites
    BY <1>1, <1>6, NoWrites DEF VerifyRead
  <2>2. /\ task'[t].pc = "verify" /\ task'[t].attempt = a /\ task'[t].dock = f
        /\ task'[t].request = attempt[a].request /\ task'[t].says = "auto"
        /\ \A u \in Tasks \ {t} : task'[u] = task[u]
    BY <1>1, <1>6 DEF VerifyRead, TaskState
  <2>3. Inserted(a) /\ Made(f) /\ dock[f].attempt = a /\ Owner(f) = attempt[a].request
    <3>1. f # NoRow
      BY DEF DockFiles, NoRow
    <3> QED
      BY <1>1, <1>6, <3>1
      DEF VerifyRead, Linked, AttemptsLinkTheirOwn, Inserted, Created, Made, Owner
  <2>4. UNCHANGED <<attempt, dock>>
    BY <1>6 DEF VerifyRead, rows
  <2>5. Brings(t)'
    BY <2>2, <2>3, <2>4 DEF Brings, CarriesFile, Inserted, Created, Made, Owner, InHand, Moved
  <2> QED
    BY <1>1, <2>1, <2>2, <2>5, OneBrings
<1>7. ASSUME NEW r \in Requests, NEW a \in Attempts, FileHeld(t, r, a)
      PROVE  FilesInv' /\ SoundWrites
  <2>1. SoundWrites
    BY <1>1, <1>7, NoWrites DEF FileHeld
  <2> DEFINE f == HeldFile(r, a)
  <2>2. /\ task'[t].pc = "file_read" /\ task'[t].attempt = a /\ task'[t].dock = f
        /\ task'[t].request = r /\ task'[t].says = "held"
        /\ \A u \in Tasks \ {t} : task'[u] = task[u]
    BY <1>1, <1>7 DEF FileHeld, TaskState
  <2>3. Inserted(a) /\ attempt[a].request = r /\ Made(f) /\ Owner(f) = r
    BY <1>1, <1>7
    DEF FileHeld, HeldFile, IsLatest, Linked, AttemptsLinkTheirOwn, RequestsLinkTheirOwn,
        Inserted, Owner
  <2>4. UNCHANGED <<attempt, dock>>
    BY <1>7 DEF FileHeld, rows
  <2> HIDE DEF f
  <2>5. Brings(t)'
    BY <2>2, <2>3, <2>4 DEF Brings, CarriesFile, Inserted, Created, Made, Owner, InHand, Moved
  <2> QED
    BY <1>1, <2>1, <2>2, <2>5, OneBrings
<1>8. ASSUME NEW r \in Requests, NEW a \in Attempts, Discard(t, r, a)
      PROVE  FilesInv' /\ SoundWrites
  <2>1. SoundWrites
    BY <1>1, <1>8, NoWrites DEF Discard
  <2>2. /\ task'[t].pc = "discard_request" /\ task'[t].attempt = a
        /\ \A u \in Tasks \ {t} : task'[u] = task[u]
    BY <1>1, <1>8 DEF Discard, TaskState
  <2>3. Inserted(a) /\ attempt' = attempt
    BY <1>8 DEF Discard, IsLatest, Inserted, rows
  <2>4. Brings(t)'
    BY <2>2, <2>3 DEF Brings, Inserted, Created, InHand, Filing, Moved
  <2> QED
    BY <1>1, <2>1, <2>2, <2>4, OneBrings
<1> QED
  BY <1>2, <1>3, <1>4, <1>5, <1>6, <1>7, <1>8
  DEF Start, GrabStart, PassStart, MonitorStart, WatchdogStart, AdoptStart, ImportStart,
      ChoiceStart, VerificationStart, RefetchStart, ForceFileStart, DiscardStart

\* What needs no activation makes no file and links none.
LEMMA EnvironmentKeepsFiles ==
  ASSUME ArrivalsStay, Inv, FilesInv, Environment
  PROVE  FilesInv' /\ SoundWrites
<1>1. RowsOK /\ Linked /\ task \in [Tasks -> TaskState]
  BY DEF Inv, FilesInv, TasksOK
<1>2. ASSUME NEW r \in Requests, ReleaseSearch(r) \/ Approve(r) \/ Reject(r)
      PROVE  FilesInv' /\ SoundWrites
  <2>1. \A q \in Requests : request'[q].dock = request[q].dock
                            /\ request'[q].status \in {request[q].status, "approved", "rejected"}
    BY <1>1, <1>2 DEF ReleaseSearch, Approve, Reject, Decide, RowsOK, RequestRow
  <2>2. SoundWrites
    BY <1>1, <1>2, <2>1, QuietWrites DEF ReleaseSearch, Approve, Reject, Decide
  <2> QED
    BY <1>2, <2>2, NobodyGoes DEF ReleaseSearch, Approve, Reject, Decide
<1>3. ASSUME NEW f \in DockFiles, DiscardDockFile(f)
      PROVE  FilesInv' /\ SoundWrites
  <2>1. SoundWrites
    BY <1>1, <1>3, DeleteWrites DEF DiscardDockFile
  <2> QED
    BY <1>3, <2>1, NobodyGoes DEF DiscardDockFile
<1>4. CASE ClientProgress \/ ClientFailure \/ Shutdown
  <2>1. SoundWrites
    BY <1>1, <1>4, NoWrites
    DEF ClientProgress, ClientFailure, ClientCompletes, ClientErrors, ClientForgets, Advance,
        Shutdown
  <2>2. UNCHANGED task
    BY <1>4
    DEF ClientProgress, ClientFailure, ClientCompletes, ClientErrors, ClientForgets, Advance,
        Shutdown
  <2> QED
    BY <2>1, <2>2, NobodyGoes
<1>5. CASE Restart
  <2>1. SoundWrites
    BY <1>1, <1>5, NoWrites DEF Restart
  <2>2. ASSUME NEW u \in Tasks PROVE Brings(u)'
    BY <1>5, ElsewhereBrings
    DEF Restart, Idle, Carrying, Importing, Filing, Moved, Adding, Discarding
  <2> QED
    BY <2>1, <2>2 DEF FilesInv, SoundWrites
<1> QED
  BY <1>2, <1>3, <1>4, <1>5 DEF Environment

\* No move of the lifecycle takes a request that is available anywhere else.
LEMMA AvailableStays ==
  ASSUME LifecycleStep, NEW r \in Requests, request[r].status = "available"
  PROVE  request'[r].status = "available"
<1>1. ASSUME NEW q \in Requests, NEW from, NEW to, Lifecycle!Move(q, from, to),
             "available" \notin from
      PROVE  request'[r].status = "available"
  <2>1. request[q].status \in from
    BY <1>1 DEF Lifecycle!Move
  <2>2. [p \in Requests |-> request'[p].status] =
          [[p \in Requests |-> request[p].status] EXCEPT ![q] = to]
    BY <1>1 DEF Lifecycle!Move
  <2> QED
    BY <1>1, <2>1, <2>2
<1>2. CASE UNCHANGED Statuses
  <2>1. Statuses'[r] = Statuses[r]
    BY <1>2
  <2> QED
    BY <2>1 DEF Statuses
<1>3. CASE Lifecycle!Next
  <2>1. PICK q \in Requests :
          \/ Lifecycle!Approve(q) \/ Lifecycle!Reject(q) \/ Lifecycle!Cancel(q)
          \/ Lifecycle!Search(q) \/ Lifecycle!HandBack(q)
          \/ Lifecycle!Claim(q) \/ Lifecycle!GiveBack(q)
          \/ Lifecycle!Begin(q) \/ Lifecycle!Adopt(q) \/ Lifecycle!StopTransfer(q)
          \/ Lifecycle!Import(q) \/ Lifecycle!Hold(q) \/ Lifecycle!Fail(q) \/ Lifecycle!Fulfil(q)
    BY <1>3 DEF Lifecycle!Next
  <2>2. /\ "available" \notin Lifecycle!WorkerWritable /\ "available" \notin Lifecycle!Grabbable
        /\ "available" \notin Lifecycle!ActiveTransfer
        /\ "available" \notin {"pending"} /\ "available" \notin {"grabbed"}
    BY SameSets DEF WorkerWritable, ActiveRequest, Grabbable, ActiveTransfer
  <2>3. \E from, to : Lifecycle!Move(q, from, to) /\ "available" \notin from
    BY <2>1, <2>2, ZenonT(60)
    DEF Lifecycle!Approve, Lifecycle!Reject, Lifecycle!Cancel, Lifecycle!Search,
        Lifecycle!HandBack, Lifecycle!Claim, Lifecycle!GiveBack, Lifecycle!Begin, Lifecycle!Adopt,
        Lifecycle!StopTransfer, Lifecycle!Import, Lifecycle!Hold, Lifecycle!Fail,
        Lifecycle!Fulfil
  <2> QED
    BY <1>1, <2>3
<1> QED
  BY <1>2, <1>3 DEF LifecycleStep

\* No step of the pipeline breaks a link or leaves an activation with what is not its own.
LEMMA NextKeepsFiles ==
  ASSUME Inv, FilesInv, [Next]_vars
  PROVE  FilesInv' /\ SoundWrites
<1>1. ArrivalsStay
  BY NextMoves, AvailableStays DEF ArrivalsStay
<1>2. ASSUME NEW t \in Tasks, Step(t) PROVE FilesInv' /\ SoundWrites
  BY <1>1, <1>2, GrabKeepsFiles, AutomationKeepsFiles, AdoptKeepsFiles, OutcomeKeepsFiles,
     ImportKeepsFiles, VerificationKeepsFiles, RemovalKeepsFiles
  DEF Step
<1>3. CASE UNCHANGED vars
  <2>1. SoundWrites
    BY <1>1, <1>3, NoWrites DEF Inv, FilesInv, vars, rows
  <2> QED
    BY <1>3, <2>1, NobodyGoes DEF vars
<1> QED
  BY <1>1, <1>2, <1>3, StartKeepsFiles, EnvironmentKeepsFiles DEF Next

\* At first there is no file and no activation.
LEMMA InitFiles == Init => FilesInv
<1> SUFFICES ASSUME Init PROVE FilesInv
  OBVIOUS
<1>1. Linked
  BY DEF Init, Linked, FilesComeFromAttempts, AttemptsLinkTheirOwn, RequestsLinkTheirOwn, Made,
         FreeDockFile, AbsentAttempt
<1>2. ASSUME NEW u \in Tasks PROVE Brings(u)
  BY DEF Init, Idle, Brings, Carrying, Importing, InHand, Filing, Moved, Adding, Discarding
<1> QED
  BY <1>1, <1>2 DEF FilesInv

\* Every dock row, every link to one and every activation that carries one agree about
\* which attempt, and which request, its files were downloaded for.  Only the link of a
\* request that has become available may be to another's row: whoever closes it by hand
\* names any row he sees.
THEOREM FilesStayLinked == Spec => []FilesInv
  BY InitFiles, NextKeepsFiles, InvHolds, PTL DEF Spec

-------------------------------------------------------------------------------
(***************************************************************************)
(* What an activation says is decided when it begins.                      *)
(***************************************************************************)
SaysSo(t) == task'[t].says \in {task[t].says, "none", "choice", "truncated"}

\* One activation moves, and says what it said or what an import makes of it,
LEMMA OneSays ==
  ASSUME NEW t \in Tasks, SaysSo(t), \A u \in Tasks \ {t} : task'[u] = task[u]
  PROVE  \A u \in Tasks : SaysSo(u)
  BY DEF SaysSo

\* going to another await,
LEMMA GoSays ==
  ASSUME TasksOK, NEW t \in Tasks, NEW pc, Go(t, pc)
  PROVE  \A u \in Tasks : SaysSo(u)
<1>1. task'[t].says = task[t].says /\ \A u \in Tasks \ {t} : task'[u] = task[u]
  BY DEF TasksOK, TaskState, Go
<1> QED
  BY <1>1, OneSays DEF SaysSo

\* returning,
LEMMA ReturnSays ==
  ASSUME TasksOK, NEW t \in Tasks, Return(t)
  PROVE  \A u \in Tasks : SaysSo(u)
<1>1. task'[t].says \in {task[t].says, "none"} /\ \A u \in Tasks \ {t} : task'[u] = task[u]
  BY DEF TasksOK, TaskState, Return, Idle
<1> QED
  BY <1>1, OneSays DEF SaysSo

\* or taking any step of a service.
LEMMA StepSays ==
  ASSUME TasksOK, NEW t \in Tasks, Step(t)
  PROVE  \A u \in Tasks : SaysSo(u)
<1>1. task \in [Tasks -> TaskState]
  BY DEF TasksOK
<1>2. ASSUME NEW new, task' = new, \A u \in Tasks \ {t} : new[u] = task[u],
             new[t].says \in {task[t].says, "none", "choice", "truncated"}
      PROVE  \A u \in Tasks : SaysSo(u)
  BY <1>2, OneSays DEF SaysSo
<1>3. CASE GrabStep(t) \/ GrabAddLost(t)
  <2>1. ASSUME NEW a \in Attempts, task' = [task EXCEPT ![t].pc = "grab_add", ![t].attempt = a]
        PROVE  \A u \in Tasks : SaysSo(u)
    BY <1>1, <1>2, <2>1 DEF TaskState
  <2>2. CASE UNCHANGED task
    BY <2>2 DEF SaysSo
  <2> QED
    BY <1>3, <2>1, <2>2, GoSays, ReturnSays
    DEF GrabStep, GrabClaim, GrabResolve, GrabRefused, GrabCreate, GrabAdd, GrabAddRefused,
        GrabAddLost, GrabFailed, GrabRollback, GrabConfirm
<1>4. CASE AutomationStep(t)
  <2>1. CASE task' = [task EXCEPT ![t].pc = "grab_claim",
                                  ![t].was = request[task[t].request].status]
    BY <1>1, <1>2, <2>1 DEF TaskState
  <2> QED
    BY <1>4, <2>1, GoSays, ReturnSays
    DEF AutomationStep, PassClaim, PassDeclines, SearchFindsNothing, SearchFinds, PassGrabs,
        PassFails, Abandon, HandBack
<1>5. CASE MonitorStep(t) \/ Adopt(t)
  BY <1>5, GoSays, ReturnSays
  DEF MonitorStep, PollApply, PollRequest, ResumeEnqueue, HandOff, Adopt
<1>6. CASE ImportStep(t) \/ ImportPlaceCollides(t)
  <2>1. ASSUME NEW f \in DockFiles, NEW to,
               task' = [task EXCEPT ![t].pc = to, ![t].dock = f]
        PROVE  \A u \in Tasks : SaysSo(u)
    BY <1>1, <1>2, <2>1 DEF TaskState
  <2>2. ASSUME NEW why \in {"choice", "truncated"}, ImportHold(t, why)
        PROVE  \A u \in Tasks : SaysSo(u)
    BY <1>1, <1>2, <2>2 DEF ImportHold, TaskState
  <2>3. CASE ImportDone(t)
    BY <1>1, <1>2, <2>3 DEF ImportDone, TaskState, Idle
  <2> QED
    BY <1>6, <2>1, <2>2, <2>3, GoSays, ReturnSays
    DEF ImportStep, ChooseClaim, ImportError, ImportClaimDock, ImportReclaimDock,
        ClaimDestination, ImportClaim, ImportUndo, ImportRefused, ImportRecord, ImportPlace,
        ImportPlaceThrows, ImportPlaceCollides, ImportPlaceFails, ImportReclaim, ImportRerecord
<1>7. CASE VerificationStep(t)
  BY <1>7, GoSays, ReturnSays
  DEF VerificationStep, VerifyPasses, VerifyHolds, VerifyFindsNoRow, FileRead, FileMove,
      FileMoveFails, FileRequest, FileAttempt, DiscardRequest, DiscardAttempt, DiscardDock,
      DiscardDockFails, DiscardUndoAttempt, DiscardUndoRequest, NotFiled
<1>8. CASE RemovalStep(t) \/ SettleRefused(t)
  <2>1. ASSUME NEW a \in Attempts, task' = [task EXCEPT ![t].pc = "detach", ![t].attempt = a]
        PROVE  \A u \in Tasks : SaysSo(u)
    BY <1>1, <1>2, <2>1 DEF TaskState
  <2> QED
    BY <1>8, <2>1, GoSays, ReturnSays
    DEF RemovalStep, Latest, Detach, DetachRefused, FailInFlight, SettleStopped, SettleRemoved,
        Settle, SettleFulfilled, SettleRefused, FailInFlightForRequest, AfterRemoval
<1>9. CASE FailAttempt(t) \/ FailRequest(t) \/ HoldAttempt(t) \/ HoldRequest(t)
  BY <1>9, GoSays, ReturnSays DEF FailAttempt, FailRequest, HoldAttempt, HoldRequest
<1> QED
  BY <1>3, <1>4, <1>5, <1>6, <1>7, <1>8, <1>9 DEF Step

\* Only a forced filing begins as "held", only a fulfilment as "fulfil", and only a
\* verification that nobody asked for as "auto".
LEMMA StartSays ==
  ASSUME TasksOK, NEW t \in Tasks, Start(t), NEW u \in Tasks
  PROVE  /\ task'[u].says = "held" => task[u].says = "held" \/ "force_file" \in Operations
         /\ task'[u].says = "fulfil" => task[u].says = "fulfil" \/ "fulfil" \in Operations
         /\ task'[u].says = "auto" =>
              task[u].says = "auto" \/ Operations \cap {"verify", "refetch"} # {}
<1>1. task \in [Tasks -> TaskState]
  BY DEF TasksOK
<1>2. CASE u # t
  BY <1>2, StartsAlone
<1>3. CASE u = t
  <2>1. ASSUME NEW r \in Requests, GrabRead(t, r) \/ AbandonRead(t, r) \/ Cancel(t, r)
        PROVE  task'[t].says \in {task[t].says, "cancel"}
    BY <1>1, <2>1 DEF GrabRead, AbandonRead, Cancel, Begin, TaskState
  <2>2. ASSUME NEW r \in Requests, NEW trigger \in {"unattended", "retry"},
               PassRead(t, r, trigger)
        PROVE  task'[t].says \in {"unattended", "retry"}
    BY <1>1, <2>2 DEF PassRead, TaskState
  <2>3. ASSUME NEW a \in Attempts, PollRead(t, a) \/ AdoptRead(t, a)
        PROVE  task'[t].says \in {"queued", "downloading", "completed", "failing"}
    <3>1. CASE PollRead(t, a)
      <4>1. PICK says \in Answers(attempt[a].release) :
              task' = [task EXCEPT
                ![t].pc = IF says = "failing" THEN "fail_attempt" ELSE "poll_apply",
                ![t].attempt = a, ![t].was = attempt[a].status, ![t].says = says]
        BY <3>1 DEF PollRead
      <4> QED
        BY <1>1, <4>1 DEF TaskState, Answers
    <3>2. CASE AdoptRead(t, a)
      <4>1. PICK says \in Owned(attempt[a].release) :
              task' = [task EXCEPT ![t].pc = "adopt", ![t].attempt = a, ![t].says = says]
        BY <3>2 DEF AdoptRead
      <4> QED
        BY <1>1, <4>1 DEF TaskState, Owned
    <3> QED
      BY <2>3, <3>1, <3>2
  <2>4. ASSUME NEW a \in Attempts,
               ResumeRead(t, a) \/ WatchdogRead(t, a) \/ ImportBegin(t, a) \/ ChooseUnit(t, a)
        PROVE  task'[t].says = task[t].says
    BY <1>1, <2>4 DEF ResumeRead, WatchdogRead, ImportBegin, ChooseUnit, TaskState
  <2>5. ASSUME NEW a \in Attempts, StopDownload(t, a) \/ RemoveFromClient(t, a)
        PROVE  task'[t].says \in {"stop", "remove"}
    BY <1>1, <2>5 DEF StopDownload, RemoveFromClient, Begin, TaskState
  <2>6. ASSUME NEW f \in DockFiles, NEW a \in Attempts, VerifyRead(t, f, a)
        PROVE  task'[t].says = "auto"
    BY <1>1, <2>6 DEF VerifyRead, TaskState
  <2>7. ASSUME NEW r \in Requests, NEW a \in Attempts, Discard(t, r, a)
        PROVE  task'[t].says = task[t].says
    BY <1>1, <2>7 DEF Discard, TaskState
  <2>8. ASSUME NEW r \in Requests, MarkFulfilled(t, r)
        PROVE  task'[t].says = "fulfil"
    BY <1>1, <2>8 DEF MarkFulfilled, Begin, TaskState
  <2>9. ASSUME NEW r \in Requests, NEW a \in Attempts, FileHeld(t, r, a)
        PROVE  task'[t].says = "held"
    BY <1>1, <2>9 DEF FileHeld, TaskState
  <2> QED
    BY <1>3, <2>1, <2>2, <2>3, <2>4, <2>5, <2>6, <2>7, <2>8, <2>9
    DEF Start, On, GrabStart, PassStart, MonitorStart, WatchdogStart, AdoptStart, ImportStart,
        ChoiceStart, VerificationStart, RefetchStart, ForceFileStart, DiscardStart
<1> QED
  BY <1>2, <1>3

NobodySays(words) == \A t \in Tasks : task[t].says \notin words

\* So where those are not among the operations nobody ever says it.
LEMMA NextSays ==
  ASSUME Inv, [Next]_vars
  PROVE  /\ NobodySays({"held"}) /\ "force_file" \notin Operations => NobodySays({"held"})'
         /\ NobodySays({"fulfil"}) /\ "fulfil" \notin Operations => NobodySays({"fulfil"})'
         /\ NobodySays({"auto"}) /\ Operations \cap {"verify", "refetch"} = {} =>
              NobodySays({"auto"})'
<1>1. ASSUME NEW t \in Tasks, Step(t)
      PROVE  \A u \in Tasks : SaysSo(u)
  BY <1>1, StepSays DEF Inv
<1>2. CASE Environment \/ UNCHANGED vars
  <2>1. task' = task \/ task' = [t \in Tasks |-> Idle]
    BY <1>2
    DEF Environment, ReleaseSearch, Approve, Reject, Decide, DiscardDockFile, ClientProgress,
        ClientFailure, ClientCompletes, ClientErrors, ClientForgets, Advance, Restart, Shutdown,
        vars
  <2> QED
    BY <2>1 DEF NobodySays, Idle
<1>3. CASE \E t \in Tasks : Start(t)
  BY <1>3, StartSays DEF NobodySays, Inv
<1>4. CASE \E t \in Tasks : Step(t)
  BY <1>1, <1>4 DEF NobodySays, SaysSo
<1> QED
  BY <1>2, <1>3, <1>4 DEF Next

-------------------------------------------------------------------------------
(***************************************************************************)
(* What is imported has its book, and what is available has arrived.       *)
(***************************************************************************)

\* A file stays where it was filed.
LEMMA FiledStays ==
  ASSUME RowsOK, RowsKeep, NEW a \in Attempts
  PROVE  /\ Filed(a) \subseteq Filed(a)'
         /\ Inserted(a) => Inserted(a)' /\ attempt'[a].request = attempt[a].request
  BY DEF Filed, RowsKeep, Made, Inserted

\* A filing that has moved its file carries the book of its request, and one that nobody
\* forced that of its attempt.
LEMMA MovedIsFiled ==
  ASSUME RowsOK, FilesInv, NEW t \in Tasks, task[t].pc \in Moved
  PROVE  \E b \in Attempts :
           /\ attempt[b].request = task[t].request
           /\ attempt[b].request = attempt[task[t].attempt].request
           /\ Inserted(b)
           /\ task[t].says # "held" => b = task[t].attempt
           /\ Filed(b) # {}
<1> DEFINE f == task[t].dock
<1>1. /\ f \in DockFiles /\ dock[f].state = "filed"
      /\ Owner(f) = task[t].request
      /\ attempt[task[t].attempt].request = task[t].request
      /\ task[t].says # "held" => dock[f].attempt = task[t].attempt
  BY DEF FilesInv, Brings, CarriesFile, Filing, Made
<1>2. Inserted(dock[f].attempt)
  BY <1>1 DEF FilesInv, Linked, FilesComeFromAttempts, Made
<1>3. f \in Filed(dock[f].attempt)
  BY <1>1 DEF Filed
<1> QED
  BY <1>1, <1>2, <1>3 DEF Owner, Inserted

\* With everything people do, an imported attempt's request has its book.
ImportedHasBook ==
  \A a \in Attempts :
    attempt[a].status = "imported" =>
      \E b \in Attempts :
        Inserted(b) /\ attempt[b].request = attempt[a].request /\ Filed(b) # {}

\* Only a filing marks an attempt imported, and it has moved a file of the request.
LEMMA NextKeepsImported ==
  ASSUME Inv, FilesInv, ImportedHasBook, [Next]_vars
  PROVE  ImportedHasBook'
<1>1. RowsOK /\ SoundWrites
  BY NextKeepsFiles DEF Inv
<1>2. SUFFICES ASSUME NEW a \in Attempts, attempt'[a].status = "imported"
               PROVE  \E b \in Attempts :
                        /\ Inserted(b)' /\ attempt'[b].request = attempt'[a].request
                        /\ Filed(b)' # {}
  BY DEF ImportedHasBook
<1>3. PICK b \in Attempts :
        /\ Inserted(b) /\ attempt[b].request = attempt[a].request
        /\ Inserted(a)
        /\ Filed(b) # {}
  <2>1. CASE attempt[a].status = "imported"
    BY <2>1 DEF ImportedHasBook, Inserted, Created
  <2>2. ASSUME NEW t \in Tasks, task[t].pc \in Moved, task[t].attempt = a
        PROVE  \E b \in Attempts :
                 /\ Inserted(b) /\ attempt[b].request = attempt[a].request
                 /\ Inserted(a)
                 /\ Filed(b) # {}
    <3>1. Inserted(a)
      BY <2>2 DEF FilesInv, Brings, Carrying, Filing
    <3> QED
      BY <1>1, <2>2, <3>1, MovedIsFiled
  <2> QED
    BY <1>1, <1>2, <2>1, <2>2
    DEF SoundWrites, AttemptsWritten, Written, ActiveAttempt
<1> QED
  BY <1>1, <1>3, FiledStays DEF SoundWrites

\* Whatever people and sweeps do, a request one of whose downloads counts as imported has
\* a book in the library, though a person may have forced the file of an older download.
THEOREM ImportedRequestsHaveBooks == Spec => []ImportedHasBook
<1>1. Init => ImportedHasBook
  BY DEF Init, ImportedHasBook, AbsentAttempt
<1> QED
  BY <1>1, NextKeepsImported, InvHolds, FilesStayLinked, PTL DEF Spec

\* Unless somebody forces a filing, that file is the attempt's own.
LEMMA NextKeepsImportedOwn ==
  ASSUME Inv, FilesInv, NobodySays({"held"}), ImportedIsFiled, [Next]_vars
  PROVE  ImportedIsFiled'
<1>1. RowsOK /\ SoundWrites
  BY NextKeepsFiles DEF Inv
<1>2. SUFFICES ASSUME NEW a \in Attempts, attempt'[a].status = "imported"
               PROVE  Filed(a)' # {}
  BY DEF ImportedIsFiled
<1>3. Filed(a) # {}
  <2>1. CASE attempt[a].status = "imported"
    BY <2>1 DEF ImportedIsFiled
  <2>2. ASSUME NEW t \in Tasks, task[t].pc \in Moved, task[t].attempt = a
        PROVE  Filed(a) # {}
    BY <1>1, <2>2, MovedIsFiled DEF NobodySays
  <2> QED
    BY <1>1, <1>2, <2>1, <2>2
    DEF SoundWrites, AttemptsWritten, Written, ActiveAttempt
<1> QED
  BY <1>1, <1>3, FiledStays DEF SoundWrites

\* Where nobody forces a filing, a download that counts as imported became a book itself:
\* verification files the row its own import made, however often it is announced, held,
\* deleted or crashed in between.
THEOREM ImportedDownloadsAreBooks ==
  ASSUME "force_file" \notin Operations
  PROVE  Spec => []ImportedIsFiled
<1>1. Init => NobodySays({"held"}) /\ ImportedIsFiled
  BY DEF Init, NobodySays, Idle, ImportedIsFiled, AbsentAttempt
<1>2. Inv /\ FilesInv /\ NobodySays({"held"}) /\ ImportedIsFiled /\ [Next]_vars =>
        NobodySays({"held"})' /\ ImportedIsFiled'
  BY NextSays, NextKeepsImportedOwn
<1> QED
  BY <1>1, <1>2, InvHolds, FilesStayLinked, PTL DEF Spec

\* A request that is available has a book an attempt of its own became.
ArrivedHasBook ==
  \A r \in Requests :
    request[r].status = "available" =>
      \E a \in Attempts : Inserted(a) /\ attempt[a].request = r /\ Filed(a) # {}

\* Unless somebody marks it fulfilled, only a filing makes a request available.
LEMMA NextKeepsArrived ==
  ASSUME Inv, FilesInv, NobodySays({"fulfil"}), ArrivedHasBook, [Next]_vars
  PROVE  ArrivedHasBook'
<1>1. RowsOK /\ SoundWrites
  BY NextKeepsFiles DEF Inv
<1>2. SUFFICES ASSUME NEW r \in Requests, request'[r].status = "available"
               PROVE  \E a \in Attempts :
                        Inserted(a)' /\ attempt'[a].request = r /\ Filed(a)' # {}
  BY DEF ArrivedHasBook
<1>3. PICK a \in Attempts : Inserted(a) /\ attempt[a].request = r /\ Filed(a) # {}
  <2>1. CASE request[r].status = "available"
    BY <2>1 DEF ArrivedHasBook
  <2>2. ASSUME NEW t \in Tasks, task[t].pc \in Moved, task[t].request = r
        PROVE  \E a \in Attempts : Inserted(a) /\ attempt[a].request = r /\ Filed(a) # {}
    BY <1>1, <2>2, MovedIsFiled
  <2> QED
    BY <1>1, <1>2, <2>1, <2>2 DEF SoundWrites, OnlyFilingsArrive, NobodySays
<1> QED
  BY <1>1, <1>3, FiledStays DEF SoundWrites

\* Where nobody marks requests fulfilled by hand, a request becomes available only with a
\* book of its own: no discard, failed move, late hold or crash reads as an arrival.
THEOREM AvailableRequestsHaveBooks ==
  ASSUME "fulfil" \notin Operations
  PROVE  Spec => []AvailableIsFiled
<1>1. Init => NobodySays({"fulfil"}) /\ ArrivedHasBook
  <2> SUFFICES ASSUME Init PROVE NobodySays({"fulfil"}) /\ ArrivedHasBook
    OBVIOUS
  <2>1. \A r \in Requests : request[r].status # "available"
    BY DEF Init
  <2> QED
    BY <2>1 DEF Init, NobodySays, Idle, ArrivedHasBook
<1>2. Inv /\ FilesInv /\ NobodySays({"fulfil"}) /\ ArrivedHasBook /\ [Next]_vars =>
        NobodySays({"fulfil"})' /\ ArrivedHasBook'
  BY NextSays, NextKeepsArrived
<1>3. ArrivedHasBook => AvailableIsFiled
  BY DEF ArrivedHasBook, AvailableIsFiled
<1> QED
  BY <1>1, <1>2, <1>3, InvHolds, FilesStayLinked, PTL DEF Spec

-------------------------------------------------------------------------------
(***************************************************************************)
(* Who gets an attempt to itself.                                          *)
(***************************************************************************)

\* Where an import has recorded its dock row.
Recorded == {"import_place", "import_reclaim_dock", "import_reclaim", "import_rerecord"}

\* Activation t keeps the attempt it had to itself,
Keeps(t) ==
  /\ task[t].pc \in Owning
  /\ task'[t].attempt = task[t].attempt
  /\ task'[t].pc \in Importing => task[t].pc \in Importing
  /\ task'[t].pc \in Recorded =>
       task[t].pc \in Recorded \/ attempt'[task[t].attempt].status = "importing"

\* or takes one that a person has to look at,
Takes(t) ==
  /\ task[t].pc \in {"choose_claim", "discard_attempt"}
  /\ task'[t].pc = "import_extract" => task[t].pc = "choose_claim"
  /\ task'[t].pc \in {"import_extract", "discard_dock"}
  /\ task'[t].attempt = task[t].attempt
  /\ attempt[task[t].attempt].status = "needs_review"
  /\ attempt'[task[t].attempt].status \in {"importing", "failed"}

\* or is a verification that holds one whoever has it,
Interferes(t) == task[t].says = "auto" /\ task'[t].pc = "hold_attempt"

\* or is the queue's.
Begins(t) ==
  \E a \in Attempts :
    /\ ImportBegin(t, a)
    /\ attempt[a].status = "completed"
    /\ task'[t].attempt = a
    /\ task'[t].pc = "import_extract"

Engaged == Owning \cup {"choose_claim"}

Acquires(t) ==
  /\ task'[t].pc \in Owning => Keeps(t) \/ Takes(t) \/ Interferes(t) \/ Begins(t)
  /\ \A u \in Tasks \ {t} : task'[u] = task[u]

Moves(t) == Acquires(t) /\ task'[t].pc # "choose_claim"

WorkerAt ==
  Importing \cup {"idle", "import_done", "hold_attempt", "hold_request", "fail_attempt",
                  "fail_request"}

\* A handler of the queue imports, and has one attempt until it is done.
WorkerMoves(t) ==
  t \in ImportWorkers /\ task[t].pc \in WorkerAt =>
    /\ task'[t].pc \in WorkerAt
    /\ task'[t].attempt \in {task[t].attempt, NoRow}

\* An activation that goes to another await keeps what it has, or gives it up,
LEMMA GoMoves ==
  ASSUME TasksOK, NEW t \in Tasks, NEW pc, Go(t, pc)
  PROVE  /\ task'[t].pc = pc /\ task'[t].attempt = task[t].attempt
         /\ \A u \in Tasks \ {t} : task'[u] = task[u]
  BY DEF TasksOK, TaskState, Go

\* and one that returns gives it up.
LEMMA ReturnMoves ==
  ASSUME TasksOK, NEW t \in Tasks, Return(t)
  PROVE  Moves(t) /\ WorkerMoves(t)
<1>1. /\ task'[t].pc \in {"idle", "import_done"}
      /\ task'[t].attempt \in {task[t].attempt, NoRow}
      /\ \A u \in Tasks \ {t} : task'[u] = task[u]
  BY DEF TasksOK, TaskState, Return, Idle
<1> QED
  BY <1>1 DEF Moves, Acquires, WorkerMoves, WorkerAt, Engaged, Owning, Importing

\* One that goes where no attempt is had, or chosen, takes none.
LEMMA FreeMoves ==
  ASSUME TasksOK, NEW t \in Tasks, NEW pc, pc \notin Engaged, Go(t, pc),
         task[t].pc \notin WorkerAt \/ pc \in WorkerAt
  PROVE  Moves(t) /\ WorkerMoves(t)
  BY GoMoves DEF Moves, Acquires, WorkerMoves, Engaged

\* Neither grabs nor passes, polls and adoptions take an attempt.
LEMMA GrabStepMoves ==
  ASSUME TasksOK, NEW t \in Tasks, GrabStep(t) \/ GrabAddLost(t) \/ AutomationStep(t)
  PROVE  Moves(t) /\ WorkerMoves(t)
<1>1. task \in [Tasks -> TaskState]
  BY DEF TasksOK
<1>2. ASSUME task'[t].pc \notin Engaged, task[t].pc \notin WorkerAt,
             \A u \in Tasks \ {t} : task'[u] = task[u]
      PROVE  Moves(t) /\ WorkerMoves(t)
  BY <1>2 DEF Moves, Acquires, WorkerMoves, Engaged
<1>3. CASE \E h \in Releases : GrabCreate(t, h)
  <2>1. ASSUME NEW a \in Attempts, task' = [task EXCEPT ![t].pc = "grab_add", ![t].attempt = a]
        PROVE  task'[t].pc \notin Engaged /\ \A u \in Tasks \ {t} : task'[u] = task[u]
    BY <1>1, <2>1 DEF TaskState, Engaged, Owning, Importing
  <2>2. ASSUME Go(t, "grab_rollback")
        PROVE  task'[t].pc \notin Engaged /\ \A u \in Tasks \ {t} : task'[u] = task[u]
    BY <2>2, GoMoves DEF Engaged, Owning, Importing
  <2>3. task[t].pc = "grab_create"
    BY <1>3 DEF GrabCreate, At
  <2>4. task[t].pc \notin WorkerAt
    BY <2>3 DEF WorkerAt, Importing
  <2> QED
    BY <1>2, <1>3, <2>1, <2>2, <2>4 DEF GrabCreate
<1>4. CASE PassGrabs(t)
  <2>1. ASSUME task' = [task EXCEPT ![t].pc = "grab_claim",
                                    ![t].was = request[task[t].request].status]
        PROVE  task'[t].pc \notin Engaged /\ \A u \in Tasks \ {t} : task'[u] = task[u]
    BY <1>1, <2>1 DEF TaskState, Engaged, Owning, Importing
  <2>2. ASSUME Go(t, "auto_failed")
        PROVE  task'[t].pc \notin Engaged /\ \A u \in Tasks \ {t} : task'[u] = task[u]
    BY <2>2, GoMoves DEF Engaged, Owning, Importing
  <2>3. task[t].pc \notin WorkerAt
    BY <1>4 DEF PassGrabs, At, WorkerAt, Importing
  <2> QED
    BY <1>2, <1>4, <2>1, <2>2, <2>3 DEF PassGrabs
<1>5. CASE GrabAddLost(t)
  <2>1. CASE UNCHANGED task
    BY <1>2, <1>5, <2>1 DEF GrabAddLost, At, WorkerAt, Engaged, Owning, Importing
  <2> QED
    BY <1>5, <2>1, FreeMoves DEF GrabAddLost, At, WorkerAt, Engaged, Owning, Importing
<1>6. CASE GrabClaim(t) \/ GrabResolve(t) \/ GrabRefused(t) \/ GrabAdd(t) \/ GrabAddRefused(t)
           \/ GrabFailed(t) \/ GrabRollback(t) \/ GrabConfirm(t)
  BY <1>6, FreeMoves, ReturnMoves
  DEF GrabClaim, GrabResolve, GrabRefused, GrabAdd, GrabAddRefused, GrabFailed, GrabRollback,
      GrabConfirm, At, WorkerAt, Engaged, Owning, Importing
<1>7. CASE PassClaim(t) \/ PassDeclines(t) \/ SearchFindsNothing(t) \/ SearchFinds(t)
           \/ PassFails(t) \/ Abandon(t)
  BY <1>7, FreeMoves, ReturnMoves
  DEF PassClaim, PassDeclines, SearchFindsNothing, SearchFinds, PassFails, Abandon, HandBack,
      At, WorkerAt, Engaged, Owning, Importing
<1> QED
  BY <1>3, <1>4, <1>5, <1>6, <1>7 DEF GrabStep, AutomationStep

\* Neither do polls, adoptions, removals and the outcomes of a download.
LEMMA OutcomeStepMoves ==
  ASSUME TasksOK, NEW t \in Tasks,
         \/ MonitorStep(t) \/ Adopt(t) \/ RemovalStep(t) \/ SettleRefused(t)
         \/ FailAttempt(t) \/ FailRequest(t) \/ HoldAttempt(t) \/ HoldRequest(t)
  PROVE  Moves(t) /\ WorkerMoves(t)
<1>1. task \in [Tasks -> TaskState]
  BY DEF TasksOK
<1>2. CASE MonitorStep(t) \/ Adopt(t)
  BY <1>2, FreeMoves, ReturnMoves
  DEF MonitorStep, PollApply, PollRequest, ResumeEnqueue, HandOff, Adopt,
      At, WorkerAt, Engaged, Owning, Importing
<1>3. CASE Latest(t)
  <2>1. ASSUME NEW a \in Attempts, task' = [task EXCEPT ![t].pc = "detach", ![t].attempt = a]
        PROVE  task'[t].pc \notin Engaged /\ \A u \in Tasks \ {t} : task'[u] = task[u]
    BY <1>1, <2>1 DEF TaskState, Engaged, Owning, Importing
  <2>2. task[t].pc \notin WorkerAt
    BY <1>3 DEF Latest, At, WorkerAt, Importing
  <2>3. ASSUME NEW a \in Attempts, task' = [task EXCEPT ![t].pc = "detach", ![t].attempt = a]
        PROVE  Moves(t) /\ WorkerMoves(t)
    BY <2>1, <2>2, <2>3 DEF Moves, Acquires, WorkerMoves, Engaged
  <2> QED
    BY <1>3, <2>2, <2>3, FreeMoves, ReturnMoves DEF Latest, AfterRemoval, Engaged, Owning, Importing
<1>4. CASE Detach(t) \/ DetachRefused(t) \/ FailInFlight(t) \/ SettleStopped(t) \/ SettleRemoved(t)
           \/ SettleFulfilled(t) \/ SettleRefused(t) \/ FailInFlightForRequest(t)
  BY <1>4, FreeMoves, ReturnMoves
  DEF Detach, DetachRefused, FailInFlight, SettleStopped, SettleRemoved, Settle, SettleFulfilled,
      SettleRefused, FailInFlightForRequest, AfterRemoval, At, WorkerAt, Engaged, Owning, Importing
<1>5. CASE FailAttempt(t) \/ FailRequest(t) \/ HoldAttempt(t) \/ HoldRequest(t)
  BY <1>5, FreeMoves, ReturnMoves
  DEF FailAttempt, FailRequest, HoldAttempt, HoldRequest, At, WorkerAt, Engaged, Owning, Importing
<1> QED
  BY <1>2, <1>3, <1>4, <1>5 DEF RemovalStep

\* An import goes on with its attempt, records it, or gives it up; a choice takes one.
LEMMA ImportStepMoves ==
  ASSUME Inv, FilesInv, NEW t \in Tasks, ImportStep(t) \/ ImportPlaceCollides(t)
  PROVE  Moves(t) /\ WorkerMoves(t)
<1>1. TasksOK /\ RowsOK /\ task \in [Tasks -> TaskState]
  BY DEF Inv, TasksOK
<1>2. task[t].pc \in Carrying => task[t].attempt \in Attempts
  BY DEF FilesInv, Brings, Inserted
<1>3. CASE ImportDone(t)
  <2>1. /\ task'[t].pc = "idle" /\ task'[t].attempt = NoRow
        /\ \A u \in Tasks \ {t} : task'[u] = task[u]
    BY <1>1, <1>3 DEF ImportDone, Idle
  <2> QED
    BY <2>1 DEF Moves, Acquires, WorkerMoves, WorkerAt, Engaged, Owning, Importing
<1>4. CASE ChooseClaim(t)
  <2>1. CASE attempt[task[t].attempt].status = "needs_review"
    <3>1. /\ task[t].pc = "choose_claim" /\ task[t].attempt \in Attempts
          /\ attempt'[task[t].attempt].status = "importing"
      BY <1>1, <1>2, <1>4, <2>1
      DEF ChooseClaim, At, Carrying, SetAttempt, RowsOK, AttemptRow
    <3>2. Takes(t) /\ \A u \in Tasks \ {t} : task'[u] = task[u]
      BY <1>1, <1>4, <2>1, <3>1, GoMoves DEF ChooseClaim, Takes
    <3>3. task'[t].pc # "choose_claim"
      BY <3>2 DEF Takes
    <3>4. task[t].pc \notin WorkerAt
      BY <3>1 DEF WorkerAt, Importing
    <3> QED
      BY <3>2, <3>3, <3>4 DEF Moves, Acquires, WorkerMoves
  <2>2. CASE attempt[task[t].attempt].status # "needs_review"
    BY <1>1, <1>4, <2>2, ReturnMoves DEF ChooseClaim
  <2> QED
    BY <2>1, <2>2
<1>5. ASSUME NEW why \in {"choice", "truncated"}, ImportHold(t, why)
      PROVE  Moves(t) /\ WorkerMoves(t)
  <2>1. /\ task[t].pc = "import_extract"
        /\ task'[t].pc = "hold_attempt" /\ task'[t].attempt = task[t].attempt
        /\ \A u \in Tasks \ {t} : task'[u] = task[u]
    BY <1>1, <1>5 DEF ImportHold, At, TaskState
  <2> QED
    BY <2>1 DEF Moves, Acquires, Keeps, Recorded, WorkerMoves, WorkerAt, Engaged, Owning, Importing
<1>6. CASE ImportClaimDock(t) \/ ImportReclaimDock(t)
  <2>1. PICK f \in DockFiles, from \in {"import_extract", "import_reclaim_dock"},
             to \in {"import_claim", "import_reclaim"} :
               /\ task[t].pc = from
               /\ to = "import_reclaim" => from = "import_reclaim_dock"
               /\ task' = [task EXCEPT ![t].pc = to, ![t].dock = f]
    BY <1>6 DEF ImportClaimDock, ImportReclaimDock, ClaimDestination, At
  <2>2. /\ task'[t].pc = to /\ task'[t].attempt = task[t].attempt
        /\ \A u \in Tasks \ {t} : task'[u] = task[u]
    BY <1>1, <2>1 DEF TaskState
  <2> QED
    BY <2>1, <2>2
    DEF Moves, Acquires, Keeps, Recorded, WorkerMoves, WorkerAt, Engaged, Owning, Importing
<1>7. CASE ImportRecord(t)
  <2>1. CASE Go(t, "import_place")
    <3>1. /\ task[t].pc = "import_record"
          /\ attempt'[task[t].attempt].status = "importing"
      BY <1>1, <1>2, <1>7, <2>1, GoMoves
      DEF ImportRecord, At, Carrying, Importing, RowsOK, AttemptRow
    <3> QED
      BY <1>1, <2>1, <3>1, GoMoves
      DEF Moves, Acquires, Keeps, Recorded, WorkerMoves, WorkerAt, Engaged, Owning, Importing
  <2>2. CASE Go(t, "fail_attempt")
    BY <1>1, <2>2, FreeMoves DEF WorkerAt, Engaged, Owning, Importing
  <2> QED
    BY <1>7, <2>1, <2>2 DEF ImportRecord
<1>8. CASE ImportError(t) \/ ImportClaim(t) \/ ImportUndo(t) \/ ImportRefused(t)
           \/ ImportPlace(t) \/ ImportPlaceThrows(t) \/ ImportReclaim(t) \/ ImportRerecord(t)
           \/ ImportPlaceCollides(t)
  <2>1. \/ Return(t) \/ Go(t, "fail_attempt")
        \/ \E from \in Importing, to \in Importing :
             /\ task[t].pc = from /\ Go(t, to)
             /\ to \in Recorded => from \in Recorded
    BY <1>8
    DEF ImportError, ImportClaim, ImportUndo, ImportRefused, ImportPlace, ImportPlaceThrows,
        ImportPlaceCollides, ImportPlaceFails, ImportReclaim, ImportRerecord, At, Importing,
        Recorded
  <2>2. CASE \E from \in Importing, to \in Importing :
               /\ task[t].pc = from /\ Go(t, to)
               /\ to \in Recorded => from \in Recorded
    <3>1. "choose_claim" \notin Importing
      BY DEF Importing
    <3> QED
      BY <1>1, <2>2, <3>1, GoMoves DEF Moves, Acquires, Keeps, WorkerMoves, WorkerAt, Owning
  <2> QED
    BY <1>1, <2>1, <2>2, ReturnMoves, FreeMoves DEF WorkerAt, Engaged, Owning, Importing
<1> QED
  BY <1>3, <1>4, <1>5, <1>6, <1>7, <1>8 DEF ImportStep

\* A verification holds whatever it was announced; a discard takes what it was shown.
LEMMA VerificationStepMoves ==
  ASSUME Inv, FilesInv, NEW t \in Tasks, VerificationStep(t)
  PROVE  Moves(t) /\ WorkerMoves(t)
<1>1. TasksOK /\ RowsOK /\ task \in [Tasks -> TaskState]
  BY DEF Inv, TasksOK
<1>2. task[t].pc \in Carrying => task[t].attempt \in Attempts
  BY DEF FilesInv, Brings, Inserted
<1>3. task[t].pc \notin WorkerAt
  BY DEF VerificationStep, VerifyPasses, VerifyHolds, VerifyFindsNoRow, FileRead, FileMove,
         FileMoveFails, FileRequest, FileAttempt, DiscardRequest, DiscardAttempt, DiscardDock,
         DiscardDockFails, DiscardUndoAttempt, DiscardUndoRequest, At, WorkerAt, Importing
<1>4. ASSUME Go(t, "hold_attempt"), task[t].says = "auto"
      PROVE  Moves(t) /\ WorkerMoves(t)
  BY <1>1, <1>3, <1>4, GoMoves DEF Moves, Acquires, Interferes, WorkerMoves
<1>5. ASSUME NotFiled(t)
      PROVE  Moves(t) /\ WorkerMoves(t)
  BY <1>1, <1>4, <1>5, ReturnMoves DEF NotFiled
<1>6. CASE VerifyHolds(t)
  <2>1. task[t].says = "auto"
    BY <1>6 DEF VerifyHolds, At, FilesInv, Brings
  <2> QED
    BY <1>4, <1>6, <2>1 DEF VerifyHolds
<1>7. CASE FileRead(t) \/ FileMoveFails(t) \/ FileAttempt(t)
  BY <1>1, <1>3, <1>5, <1>7, FreeMoves, ReturnMoves
  DEF FileRead, FileMoveFails, FileAttempt, Engaged, Owning, Importing
<1>8. CASE VerifyPasses(t) \/ VerifyFindsNoRow(t) \/ FileMove(t) \/ FileRequest(t)
           \/ DiscardRequest(t) \/ DiscardDock(t) \/ DiscardUndoAttempt(t)
           \/ DiscardUndoRequest(t)
  BY <1>1, <1>3, <1>8, FreeMoves, ReturnMoves
  DEF VerifyPasses, VerifyFindsNoRow, FileMove, FileRequest, DiscardRequest, DiscardDock,
      DiscardUndoAttempt, DiscardUndoRequest, Engaged, Owning, Importing
<1>9. CASE DiscardAttempt(t)
  <2>1. CASE Go(t, "discard_dock")
    <3>1. /\ task[t].pc = "discard_attempt" /\ task'[t].pc = "discard_dock"
          /\ attempt[task[t].attempt].status = "needs_review"
          /\ attempt'[task[t].attempt].status = "failed"
      BY <1>1, <1>2, <1>9, <2>1, GoMoves
      DEF DiscardAttempt, At, Carrying, Discarding, SetAttempt, RowsOK, AttemptRow
    <3>2. Takes(t)
      BY <1>1, <2>1, <3>1, GoMoves DEF Takes
    <3> QED
      BY <1>1, <1>3, <2>1, <3>2, GoMoves DEF Moves, Acquires, WorkerMoves, Engaged
  <2> QED
    BY <1>1, <1>3, <1>9, <2>1, FreeMoves DEF DiscardAttempt, Engaged, Owning, Importing
<1>10. CASE DiscardDockFails(t)
  <2>1. task[t].pc = "discard_dock" /\ Go(t, "discard_undo_attempt")
    BY <1>10 DEF DiscardDockFails, At
  <2> QED
    BY <1>1, <1>3, <2>1, GoMoves
    DEF Moves, Acquires, Keeps, Recorded, WorkerMoves, Engaged, Owning, Importing
<1> QED
  BY <1>6, <1>7, <1>8, <1>9, <1>10 DEF VerificationStep

\* No step of a service takes an attempt but in those ways.
LEMMA StepMoves ==
  ASSUME Inv, FilesInv, NEW t \in Tasks, Step(t)
  PROVE  Moves(t) /\ WorkerMoves(t)
<1>1. TasksOK
  BY DEF Inv
<1> QED
  BY <1>1, GrabStepMoves, OutcomeStepMoves, ImportStepMoves, VerificationStepMoves DEF Step

Alone(t) == UNCHANGED <<attempt, dock>> /\ \A u \in Tasks \ {t} : task'[u] = task[u]

\* What begins takes no attempt but for the queue: a choice only reads one.
LEMMA StartTakes ==
  ASSUME Inv, NEW t \in Tasks, Start(t)
  PROVE  /\ Alone(t)
         /\ \/ /\ t \in Handlers
               /\ task'[t].pc \notin Owning
               /\ task'[t].pc = "choose_claim" => "choose" \in Operations
               /\ task'[t].pc = "adopt" => "adopt" \in Operations
            \/ \E a \in Attempts :
                 /\ ImportBegin(t, a)
                 /\ task'[t].attempt = a
                 /\ task'[t].pc \in {"import_extract", "import_done"}
                 /\ task'[t].pc = "import_extract" => attempt[a].status = "completed"
<1>1. task \in [Tasks -> TaskState]
  BY DEF Inv, TasksOK
<1>2. ASSUME NEW r \in Requests,
             \/ GrabRead(t, r) \/ AbandonRead(t, r) \/ Cancel(t, r) \/ MarkFulfilled(t, r)
             \/ \E trigger \in {"unattended", "retry"} : PassRead(t, r, trigger)
      PROVE  /\ Alone(t)
             /\ t \in Handlers
             /\ task'[t].pc \notin Owning \cup {"choose_claim", "adopt"}
  <2>1. CASE MarkFulfilled(t, r)
    <3>1. t \in Handlers /\ UNCHANGED <<attempt, dock>>
      BY <2>1 DEF MarkFulfilled, Free, rows
    <3> QED
      BY <1>1, <2>1, <3>1, FulfilBegins DEF Owning, Importing, Alone
  <2> QED
    BY <1>1, <1>2, <2>1
    DEF GrabRead, AbandonRead, Cancel, PassRead, Begin, Free, rows, TaskState, Owning, Importing,
        Alone
<1>3. ASSUME NEW a \in Attempts, PollRead(t, a)
      PROVE  /\ Alone(t)
             /\ t \in Handlers
             /\ task'[t].pc \notin Owning \cup {"choose_claim", "adopt"}
  <2>1. PICK says \in Answers(attempt[a].release) :
          task' = [task EXCEPT
            ![t].pc = IF says = "failing" THEN "fail_attempt" ELSE "poll_apply",
            ![t].attempt = a, ![t].was = attempt[a].status, ![t].says = says]
    BY <1>3 DEF PollRead
  <2> QED
    BY <1>1, <1>3, <2>1 DEF PollRead, Free, rows, TaskState, Owning, Importing, Alone
<1>4. ASSUME NEW a \in Attempts,
             \/ ResumeRead(t, a) \/ WatchdogRead(t, a)
             \/ StopDownload(t, a) \/ RemoveFromClient(t, a)
             \/ \E r \in Requests : FileHeld(t, r, a) \/ Discard(t, r, a)
             \/ \E f \in DockFiles : VerifyRead(t, f, a)
      PROVE  /\ Alone(t)
             /\ t \in Handlers
             /\ task'[t].pc \notin Owning \cup {"choose_claim", "adopt"}
  <2>1. CASE ResumeRead(t, a) \/ WatchdogRead(t, a)
             \/ StopDownload(t, a) \/ RemoveFromClient(t, a)
    BY <1>1, <2>1
    DEF ResumeRead, WatchdogRead, StopDownload, RemoveFromClient, Begin, Free, rows, TaskState,
        Owning, Importing, Alone
  <2>2. ASSUME NEW r \in Requests, FileHeld(t, r, a) \/ Discard(t, r, a)
        PROVE  /\ Alone(t)
               /\ t \in Handlers
               /\ task'[t].pc \notin Owning \cup {"choose_claim", "adopt"}
    BY <1>1, <2>2 DEF FileHeld, Discard, Free, rows, TaskState, Owning, Importing, Alone
  <2>3. ASSUME NEW f \in DockFiles, VerifyRead(t, f, a)
        PROVE  /\ Alone(t)
               /\ t \in Handlers
               /\ task'[t].pc \notin Owning \cup {"choose_claim", "adopt"}
    BY <1>1, <2>3 DEF VerifyRead, Free, rows, TaskState, Owning, Importing, Alone
  <2> QED
    BY <1>4, <2>1, <2>2, <2>3
<1>5. ASSUME NEW a \in Attempts, AdoptRead(t, a)
      PROVE  Alone(t) /\ t \in Handlers /\ task'[t].pc = "adopt"
  <2>1. PICK says \in Owned(attempt[a].release) :
          task' = [task EXCEPT ![t].pc = "adopt", ![t].attempt = a, ![t].says = says]
    BY <1>5 DEF AdoptRead
  <2> QED
    BY <1>1, <1>5, <2>1 DEF AdoptRead, Free, rows, TaskState, Alone
<1>6. ASSUME NEW a \in Attempts, ChooseUnit(t, a)
      PROVE  Alone(t) /\ t \in Handlers /\ task'[t].pc = "choose_claim"
  BY <1>1, <1>6 DEF ChooseUnit, Free, rows, TaskState, Alone
<1>7. ASSUME NEW a \in Attempts, ImportBegin(t, a)
      PROVE  /\ Alone(t)
             /\ task'[t].attempt = a
             /\ task'[t].pc \in {"import_extract", "import_done"}
             /\ task'[t].pc = "import_extract" => attempt[a].status = "completed"
  BY <1>1, <1>7 DEF ImportBegin, rows, TaskState, Alone
<1>8. {"choose_claim", "adopt"} \cap Owning = {}
  BY DEF Owning, Importing
<1>9. CASE On("import") /\ ImportStart(t)
  BY <1>7, <1>9 DEF ImportStart
<1>10. CASE On("choose") /\ ChoiceStart(t)
  BY <1>6, <1>8, <1>10 DEF ChoiceStart, On
<1>11. CASE On("adopt") /\ AdoptStart(t)
  BY <1>5, <1>8, <1>11 DEF AdoptStart, On
<1>12. ASSUME Alone(t), t \in Handlers, task'[t].pc \notin Owning \cup {"choose_claim", "adopt"}
       PROVE  /\ Alone(t)
              /\ t \in Handlers
              /\ task'[t].pc \notin Owning
              /\ task'[t].pc = "choose_claim" => "choose" \in Operations
              /\ task'[t].pc = "adopt" => "adopt" \in Operations
  BY <1>12
<1>13. CASE \/ On("grab") /\ GrabStart(t)
            \/ On("automate") /\ PassStart(t)
            \/ On("abandon") /\ \E r \in Requests : AbandonRead(t, r)
            \/ On("cancel") /\ \E r \in Requests : Cancel(t, r)
            \/ On("fulfil") /\ \E r \in Requests : MarkFulfilled(t, r)
  BY <1>2, <1>12, <1>13 DEF GrabStart, PassStart
<1>14. CASE \/ On("monitor") /\ MonitorStart(t)
            \/ On("watchdog") /\ WatchdogStart(t)
            \/ On("stop") /\ \E a \in Attempts : StopDownload(t, a)
            \/ On("remove") /\ \E a \in Attempts : RemoveFromClient(t, a)
  BY <1>3, <1>4, <1>12, <1>14 DEF MonitorStart, WatchdogStart
<1>15. CASE \/ On("verify") /\ VerificationStart(t)
            \/ On("refetch") /\ RefetchStart(t)
            \/ On("force_file") /\ ForceFileStart(t)
            \/ On("discard") /\ DiscardStart(t)
  BY <1>4, <1>12, <1>15 DEF VerificationStart, RefetchStart, ForceFileStart, DiscardStart
<1> QED
  BY <1>9, <1>10, <1>11, <1>13, <1>14, <1>15 DEF Start
-------------------------------------------------------------------------------
(***************************************************************************)
(* The handlers of the queue are given different attempts, and keep them.  *)
(***************************************************************************)
WorkersApart ==
  /\ \A w \in ImportWorkers : task[w].pc \in WorkerAt
  /\ \A v, w \in ImportWorkers :
       v # w /\ task[v].attempt = task[w].attempt => task[v].attempt = NoRow

\* No handler of the queue has an attempt at first.
LEMMA InitWorkers == Init => WorkersApart
  BY DEF Init, WorkersApart, Idle, WorkerAt, Tasks

\* Everything begins anew, or nothing moves.
LEMMA EnvironmentMovesNobody ==
  ASSUME Environment \/ UNCHANGED vars
  PROVE  task' = task \/ task' = [t \in Tasks |-> Idle]
  BY DEF Environment, ReleaseSearch, Approve, Reject, Decide, DiscardDockFile, ClientProgress,
         ClientFailure, ClientCompletes, ClientErrors, ClientForgets, Advance, Restart,
         Shutdown, vars

\* The queue hands an attempt out once, and a handler has it until it is done.
LEMMA NextKeepsWorkers ==
  ASSUME Inv, FilesInv, WorkersApart, [Next]_vars
  PROVE  WorkersApart'
<1>1. ASSUME NEW t \in Tasks, Step(t) PROVE WorkersApart'
  <2>1. WorkerMoves(t) /\ \A u \in Tasks \ {t} : task'[u] = task[u]
    BY <1>1, StepMoves DEF Moves, Acquires
  <2>2. \A w \in ImportWorkers : w \in Tasks
    BY DEF Tasks
  <2> QED
    BY <2>1, <2>2 DEF WorkersApart, WorkerMoves
<1>2. ASSUME NEW t \in Tasks, Start(t) PROVE WorkersApart'
  <2>1. Alone(t)
    BY <1>2, StartTakes
  <2>2. \A w \in ImportWorkers : w \in Tasks
    BY DEF Tasks
  <2>3. CASE t \in Handlers
    BY <2>1, <2>2, <2>3, TasksAssumption DEF WorkersApart, Alone
  <2>4. ASSUME NEW a \in Attempts, ImportBegin(t, a), task'[t].attempt = a,
               task'[t].pc \in {"import_extract", "import_done"}
        PROVE  WorkersApart'
    <3>1. \A v \in ImportWorkers : task[v].attempt # a
      BY <2>4 DEF ImportBegin
    <3>2. task'[t].pc \in WorkerAt
      BY <2>4 DEF WorkerAt, Importing
    <3> QED
      BY <2>1, <2>2, <2>4, <3>1, <3>2 DEF WorkersApart, Alone
  <2> QED
    BY <1>2, <2>3, <2>4, StartTakes
<1>3. CASE Environment \/ UNCHANGED vars
  <2>1. Idle.pc \in WorkerAt /\ Idle.attempt = NoRow
    BY DEF Idle, WorkerAt
  <2>2. task' = task \/ task' = [t \in Tasks |-> Idle]
    BY <1>3, EnvironmentMovesNobody
  <2> HIDE DEF Idle
  <2> QED
    BY <2>1, <2>2 DEF WorkersApart, Tasks
<1> QED
  BY <1>1, <1>2, <1>3 DEF Next

\* In a step of the pipeline one activation moves at most, or the process starts anew.
LEMMA NextAcquires ==
  ASSUME Inv, FilesInv, [Next]_vars
  PROVE  \/ \E t \in Tasks : Acquires(t)
         \/ UNCHANGED task
         \/ task' = [t \in Tasks |-> Idle]
<1>1. ASSUME NEW t \in Tasks, Step(t) PROVE Acquires(t)
  BY <1>1, StepMoves DEF Moves
<1>2. ASSUME NEW t \in Tasks, Start(t) PROVE Acquires(t)
  <2>1. ASSUME NEW a \in Attempts, ImportBegin(t, a), task'[t].attempt = a,
               task'[t].pc \in {"import_extract", "import_done"},
               task'[t].pc = "import_extract" => attempt[a].status = "completed"
        PROVE  task'[t].pc \in Owning => Begins(t)
    BY <2>1 DEF Begins, Owning, Importing
  <2> QED
    BY <1>2, <2>1, StartTakes DEF Acquires, Alone
<1> QED
  BY <1>1, <1>2, EnvironmentMovesNobody DEF Next

NobodyChooses == \A t \in Tasks : task[t].pc # "choose_claim"

\* Without choices nobody goes to one,
LEMMA NextChoosesNothing ==
  ASSUME Inv, FilesInv, NobodyChooses, "choose" \notin Operations, [Next]_vars
  PROVE  NobodyChooses'
<1>1. ASSUME NEW t \in Tasks, Step(t) PROVE NobodyChooses'
  BY <1>1, StepMoves DEF Moves, Acquires, NobodyChooses
<1>2. ASSUME NEW t \in Tasks, Start(t) PROVE NobodyChooses'
  BY <1>2, StartTakes DEF Alone, NobodyChooses
<1>3. CASE Environment \/ UNCHANGED vars
  BY <1>3, EnvironmentMovesNobody DEF NobodyChooses, Idle
<1> QED
  BY <1>1, <1>2, <1>3 DEF Next

\* and so only the handlers of the queue import.
WorkersImport == WorkersApart /\ NobodyChooses /\ \A t \in Handlers : task[t].pc \notin Importing

\* Who imports did so before, or was just given a finished download.
Continues(u) ==
  task'[u].pc \in Importing =>
    \/ Keeps(u)
    \/ /\ u \in ImportWorkers
       /\ task'[u].pc = "import_extract"
       /\ task'[u].attempt \in Attempts
       /\ attempt[task'[u].attempt].status = "completed"
       /\ attempt[task'[u].attempt].dock = NoRow
       /\ \A v \in ImportWorkers : task[v].attempt # task'[u].attempt

\* Every step is such.
LEMMA NextContinues ==
  ASSUME Inv, FilesInv, NobodyChooses, [Next]_vars
  PROVE  \A u \in Tasks : Continues(u)
<1>1. \A u \in Tasks : task'[u] = task[u] => Continues(u)
  BY DEF Continues, Keeps, Owning
<1>2. ASSUME NEW t \in Tasks, Acquires(t) PROVE Continues(t)
  <2>1. ~Takes(t) \/ task'[t].pc \notin Importing
    BY DEF Takes, NobodyChooses, Importing
  <2>2. ~Interferes(t) \/ task'[t].pc \notin Importing
    BY DEF Interferes, Importing
  <2>3. ASSUME NEW a \in Attempts, ImportBegin(t, a), task'[t].pc = "import_extract"
        PROVE  /\ t \in ImportWorkers
               /\ attempt[a].dock = NoRow
               /\ \A v \in ImportWorkers : task[v].attempt # a
    BY <2>3 DEF ImportBegin, Inv, TasksOK, TaskState
  <2> QED
    BY <1>2, <2>1, <2>2, <2>3 DEF Acquires, Continues, Owning, Begins
<1>3. CASE task' = [t \in Tasks |-> Idle]
  BY <1>3 DEF Continues, Idle, Importing
<1> QED
  BY <1>1, <1>2, <1>3, NextAcquires DEF Acquires

\* So handlers of the queue alone import,
LEMMA NextKeepsWorkersImport ==
  ASSUME Inv, FilesInv, WorkersImport, "choose" \notin Operations, [Next]_vars
  PROVE  WorkersImport'
<1>1. NobodyChooses' /\ WorkersApart'
  BY NextChoosesNothing, NextKeepsWorkers DEF WorkersImport
<1>2. ASSUME NEW t \in Handlers PROVE task'[t].pc \notin Importing
  <2>1. t \in Tasks /\ t \notin ImportWorkers
    BY TasksAssumption DEF Tasks
  <2> QED
    BY <2>1, NextContinues DEF WorkersImport, Continues, Keeps
<1> QED
  BY <1>1, <1>2 DEF WorkersImport

\* beginning with none.
LEMMA InitWorkersImport == Init => WorkersImport
<1>1. Init => \A t \in Tasks : task[t].pc = "idle"
  BY DEF Init, Idle
<1> QED
  BY <1>1, InitWorkers DEF WorkersImport, NobodyChooses, Tasks, Importing

-------------------------------------------------------------------------------
(***************************************************************************)
(* One download, one book.                                                 *)
(***************************************************************************)
Passed(a) == attempt[a].status \in {"importing", "needs_review", "failed", "imported"}

\* A download that has passed to its import is not offered again.
LEMMA PassedStays ==
  ASSUME AttemptsWritten, NobodyAdopts, NEW a \in Attempts, Passed(a)
  PROVE  Passed(a)'
  BY DEF AttemptsWritten, Written, NobodyAdopts, Passed, ActiveAttempt

\* Files are of a download that has passed; nobody imports a download that has files; and
\* no two dock rows have the files of one.
FilesArePassed == \A f \in DockFiles : HasFiles(f) => Passed(dock[f].attempt)
RecordedIsPassed == \A t \in Tasks : task[t].pc \in Recorded => Passed(task[t].attempt)
NothingIsImportedAgain ==
  \A t \in Tasks, f \in DockFiles :
    task[t].pc \in Importing /\ HasFiles(f) => dock[f].attempt # task[t].attempt
FilesAreApart ==
  \A e, f \in DockFiles :
    e # f /\ HasFiles(e) /\ HasFiles(f) => dock[e].attempt # dock[f].attempt

BooksInv ==
  /\ WorkersImport /\ NobodyAdopts
  /\ FilesArePassed /\ RecordedIsPassed /\ NothingIsImportedAgain /\ FilesAreApart

\* An import begins on a completed download, which has no files yet; what it makes are the
\* only ones.
LEMMA NextKeepsBooks ==
  ASSUME Inv, FilesInv, BooksInv, Operations \cap {"choose", "adopt"} = {}, [Next]_vars
  PROVE  BooksInv'
<1>1. /\ RowsOK /\ SoundWrites /\ Linked /\ WorkersImport' /\ NobodyAdopts'
      /\ \A u \in Tasks : Continues(u)
  BY NextKeepsFiles, NextKeepsWorkersImport, NextRevivesNothing, NextContinues
  DEF Inv, FilesInv, BooksInv, WorkersImport
<1>2. \A a \in Attempts : Passed(a) => Passed(a)'
  BY <1>1, PassedStays DEF SoundWrites, BooksInv
<1>3. \A f \in DockFiles :
        HasFiles(f) => Inserted(dock[f].attempt) /\ dock'[f].attempt = dock[f].attempt
  BY <1>1 DEF HasFiles, Made, SoundWrites, RowsKeep, Linked, FilesComeFromAttempts
<1>4. ASSUME NEW f \in DockFiles, HasFiles(f)', ~HasFiles(f)
      PROVE  \E t \in ImportWorkers :
               /\ task[t].pc = "import_place" /\ Leaves(t)
               /\ Inserted(task[t].attempt)
               /\ dock[f].attempt = task[t].attempt
               /\ dock'[f].attempt = task[t].attempt
  <2>1. PICK t \in Tasks : task[t].pc = "import_place" /\ task[t].dock = f /\ Leaves(t)
    BY <1>1, <1>4 DEF SoundWrites, FilesWritten
  <2>2. /\ Inserted(task[t].attempt) /\ Made(f) /\ dock[f].attempt = task[t].attempt
    BY <2>1 DEF FilesInv, Brings, Carrying, Importing, InHand
  <2>3. t \in ImportWorkers
    BY <2>1 DEF Tasks, BooksInv, WorkersImport, Importing
  <2> QED
    BY <1>1, <2>1, <2>2, <2>3 DEF SoundWrites, RowsKeep
<1>5. FilesArePassed'
  <2> SUFFICES ASSUME NEW f \in DockFiles, HasFiles(f)' PROVE Passed(dock[f].attempt)'
    BY DEF FilesArePassed
  <2>1. CASE HasFiles(f)
    BY <1>2, <1>3, <2>1 DEF BooksInv, FilesArePassed, Inserted, Passed
  <2>2. CASE ~HasFiles(f)
    <3>1. PICK t \in ImportWorkers :
            /\ task[t].pc = "import_place" /\ Inserted(task[t].attempt)
            /\ dock'[f].attempt = task[t].attempt
      BY <1>4, <2>2
    <3>2. Passed(task[t].attempt)
      BY <3>1 DEF BooksInv, RecordedIsPassed, Recorded, Tasks
    <3> QED
      BY <1>2, <3>1, <3>2 DEF Inserted, Passed
  <2> QED
    BY <2>1, <2>2
<1>6. RecordedIsPassed'
  <2> SUFFICES ASSUME NEW t \in Tasks, task'[t].pc \in Recorded PROVE Passed(task[t].attempt)'
    BY DEF RecordedIsPassed
  <2>1. task'[t].pc \in Importing /\ task'[t].pc # "import_extract"
    BY DEF Recorded, Importing
  <2>2. Keeps(t)
    BY <1>1, <2>1 DEF Continues
  <2>3. task[t].pc \in Importing /\ task'[t].attempt = task[t].attempt
    BY <2>1, <2>2 DEF Keeps
  <2>4. task[t].attempt \in Attempts
    BY <2>3 DEF FilesInv, Brings, Carrying, Inserted
  <2> QED
    BY <1>2, <2>2, <2>3, <2>4 DEF Keeps, BooksInv, RecordedIsPassed, Passed
<1>7. NothingIsImportedAgain'
  <2> SUFFICES ASSUME NEW t \in Tasks, NEW f \in DockFiles, task'[t].pc \in Importing,
                      HasFiles(f)'
               PROVE  dock'[f].attempt # task'[t].attempt
    BY DEF NothingIsImportedAgain
  <2>1. CASE HasFiles(f)
    <3>1. Passed(dock[f].attempt) /\ dock'[f].attempt = dock[f].attempt
      BY <1>3, <2>1 DEF BooksInv, FilesArePassed
    <3>2. CASE Keeps(t)
      BY <2>1, <3>1, <3>2 DEF Keeps, BooksInv, NothingIsImportedAgain
    <3>3. CASE attempt[task'[t].attempt].status = "completed"
      BY <3>1, <3>3 DEF Passed
    <3> QED
      BY <1>1, <3>2, <3>3 DEF Continues
  <2>2. CASE ~HasFiles(f)
    <3>1. PICK u \in ImportWorkers :
            /\ task[u].pc = "import_place" /\ Leaves(u)
            /\ Inserted(task[u].attempt)
            /\ dock'[f].attempt = task[u].attempt
      BY <1>4, <2>2
    <3>2. t # u /\ task'[t] = task[t]
      BY <3>1 DEF Leaves, Owning
    <3>3. t \in ImportWorkers
      BY <3>2 DEF BooksInv, WorkersImport, Tasks
    <3>4. task[u].attempt # NoRow
      BY <3>1 DEF Inserted, Attempts, NoRow
    <3> QED
      BY <3>1, <3>2, <3>3, <3>4 DEF BooksInv, WorkersImport, WorkersApart
  <2> QED
    BY <2>1, <2>2
<1>8. FilesAreApart'
  <2>1. ASSUME NEW e \in DockFiles, NEW f \in DockFiles, HasFiles(e), HasFiles(f)', ~HasFiles(f)
        PROVE  dock'[e].attempt # dock'[f].attempt
    <3>1. PICK t \in ImportWorkers :
            task[t].pc = "import_place" /\ dock'[f].attempt = task[t].attempt
      BY <1>4, <2>1
    <3> QED
      BY <1>3, <2>1, <3>1 DEF BooksInv, NothingIsImportedAgain, Importing, Tasks
  <2>2. ASSUME NEW e \in DockFiles, NEW f \in DockFiles, HasFiles(e)', HasFiles(f)', e # f,
               ~HasFiles(e), ~HasFiles(f)
        PROVE  dock'[e].attempt # dock'[f].attempt
    <3>1. PICK t \in Tasks : task[t].pc = "import_place" /\ task[t].dock = e /\ Leaves(t)
      BY <1>1, <2>2 DEF SoundWrites, FilesWritten
    <3>2. PICK u \in Tasks : task[u].pc = "import_place" /\ task[u].dock = f /\ Leaves(u)
      BY <1>1, <2>2 DEF SoundWrites, FilesWritten
    <3>3. t # u
      BY <2>2, <3>1, <3>2
    <3>4. task'[u] = task[u]
      BY <3>1, <3>3 DEF Leaves
    <3> QED
      BY <3>2, <3>4 DEF Leaves, Owning, Importing
  <2> SUFFICES ASSUME NEW e \in DockFiles, NEW f \in DockFiles, e # f, HasFiles(e)', HasFiles(f)'
               PROVE  dock'[e].attempt # dock'[f].attempt
    BY DEF FilesAreApart
  <2>3. CASE HasFiles(e) /\ HasFiles(f)
    BY <1>3, <2>3 DEF BooksInv, FilesAreApart
  <2> QED
    BY <2>1, <2>2, <2>3
<1> QED
  BY <1>1, <1>5, <1>6, <1>7, <1>8 DEF BooksInv

\* Where nobody chooses one book of several and no failed transfer is adopted, a download
\* becomes at most one book, through name collisions, repeated offers, deletions, forced
\* filings and crashes half way through an import.
THEOREM DownloadsBecomeOneBook ==
  ASSUME Operations \cap {"choose", "adopt"} = {}
  PROVE  Spec => []OneBookPerAttempt
<1>1. Init => BooksInv
  <2> SUFFICES ASSUME Init PROVE BooksInv
    OBVIOUS
  <2>1. /\ \A t \in Tasks : task[t].pc = "idle"
        /\ \A f \in DockFiles : ~HasFiles(f)
    BY DEF Init, Idle, FreeDockFile, HasFiles
  <2> QED
    BY <2>1, InitWorkersImport
    DEF BooksInv, NobodyAdopts, FilesArePassed, RecordedIsPassed, NothingIsImportedAgain,
        FilesAreApart, Importing, Recorded
<1>2. Inv /\ FilesInv /\ BooksInv /\ [Next]_vars => BooksInv'
  BY NextKeepsBooks
<1>3. BooksInv => OneBookPerAttempt
  <2> SUFFICES ASSUME BooksInv, NEW a \in Attempts PROVE Cardinality(Filed(a)) <= 1
    BY DEF OneBookPerAttempt
  <2>1. CASE Filed(a) = {}
    BY <2>1, FS_EmptySet
  <2>2. CASE Filed(a) # {}
    <3>1. PICK f \in Filed(a) : TRUE
      BY <2>2
    <3>2. Filed(a) = {f}
      BY <3>1 DEF Filed, BooksInv, FilesAreApart, HasFiles
    <3> QED
      BY <3>2, FS_Singleton
  <2> QED
    BY <2>1, <2>2
<1> QED
  BY <1>1, <1>2, <1>3, InvHolds, FilesStayLinked, PTL DEF Spec

-------------------------------------------------------------------------------
(***************************************************************************)
(* One import of a download at a time.                                     *)
(***************************************************************************)
OwnersApart ==
  \A t, u \in Tasks :
    t # u /\ task[t].pc \in Owning /\ task[u].pc \in Owning => task[t].attempt # task[u].attempt
OwnedIsTaken ==
  \A t \in Tasks :
    task[t].pc \in Owning =>
      task[t].attempt \in Attempts /\ attempt[task[t].attempt].status # "needs_review"
OwnedByHandIsPassed ==
  \A t \in Handlers : task[t].pc \in Owning => Passed(task[t].attempt)

\* Where a choice claims, what it claims is a person's alone; a person's choice and the
\* queue's offers are told apart by what has passed.
ClaimsInv ==
  /\ WorkersApart /\ NobodyAdopts /\ NobodySays({"auto"})
  /\ OwnersApart /\ OwnedIsTaken /\ OwnedByHandIsPassed

\* A claim is conditional on needs_review, which nobody else's import leaves as it is.
LEMMA NextKeepsClaims ==
  ASSUME Inv, FilesInv, ClaimsInv, Operations \cap {"adopt", "verify", "refetch"} = {},
         [Next]_vars
  PROVE  ClaimsInv'
<1>1. /\ RowsOK /\ SoundWrites /\ WorkersApart' /\ NobodyAdopts' /\ NobodySays({"auto"})'
  BY NextKeepsFiles, NextKeepsWorkers, NextRevivesNothing, NextSays DEF Inv, ClaimsInv
<1>2. \A a \in Attempts : Written(a) /\ (Passed(a) => Passed(a)')
  BY <1>1, PassedStays DEF SoundWrites, AttemptsWritten, ClaimsInv
<1>3. CASE UNCHANGED task \/ task' = [t \in Tasks |-> Idle]
  <2>1. ASSUME NEW t \in Tasks, task'[t].pc \in Owning PROVE task'[t] = task[t]
    BY <1>3, <2>1 DEF Idle, Owning, Importing
  <2>2. OwnersApart'
    BY <2>1 DEF ClaimsInv, OwnersApart
  <2>3. OwnedByHandIsPassed'
    BY <1>2, <2>1 DEF ClaimsInv, OwnedByHandIsPassed, OwnedIsTaken, Tasks, Passed
  <2>4. OwnedIsTaken'
    <3> SUFFICES ASSUME NEW t \in Tasks, task'[t].pc \in Owning
                 PROVE  /\ task[t].attempt \in Attempts
                        /\ attempt'[task[t].attempt].status # "needs_review"
      BY <2>1 DEF OwnedIsTaken
    <3>1. task[t].pc \in Owning /\ task[t].attempt \in Attempts
          /\ attempt[task[t].attempt].status # "needs_review"
      BY <2>1 DEF ClaimsInv, OwnedIsTaken
    <3>2. \A u \in Tasks : Leaves(u) => u # t
      BY DEF Leaves
    <3>3. \A u \in Tasks : Leaves(u) /\ task[u].pc \in Owning =>
            task[u].attempt # task[t].attempt
      BY <3>1, <3>2 DEF ClaimsInv, OwnersApart
    <3> QED
      BY <1>2, <3>1, <3>3 DEF Written, ActiveAttempt, Owning
  <2> QED
    BY <1>1, <2>2, <2>3, <2>4 DEF ClaimsInv
<1>4. ASSUME NEW t \in Tasks, Acquires(t)
      PROVE  ClaimsInv'
  <2>1. \A u \in Tasks \ {t} : task'[u] = task[u]
    BY <1>4 DEF Acquires
  <2>2. ~Interferes(t)
    BY DEF Interferes, ClaimsInv, NobodySays
  <2>3. task'[t].pc \in Owning => Keeps(t) \/ Takes(t) \/ Begins(t)
    BY <1>4, <2>2 DEF Acquires
  <2>4. ASSUME Takes(t) PROVE task[t].attempt \in Attempts
    BY <2>4 DEF Takes, FilesInv, Brings, Carrying, Discarding, Inserted
  <2>5. ASSUME Begins(t)
        PROVE  /\ t \in ImportWorkers /\ task'[t].attempt \in Attempts
               /\ attempt[task'[t].attempt].status = "completed"
               /\ UNCHANGED attempt
               /\ \A w \in ImportWorkers : task[w].attempt # task'[t].attempt
    BY <2>5 DEF Begins, ImportBegin, rows
  <2>6. OwnersApart'
    <3>1. ASSUME NEW u \in Tasks, u # t, task'[t].pc \in Owning, task[u].pc \in Owning
          PROVE  task'[t].attempt # task[u].attempt
      <4>1. CASE Keeps(t)
        BY <3>1, <4>1 DEF Keeps, ClaimsInv, OwnersApart
      <4>2. CASE Takes(t)
        BY <3>1, <4>2 DEF Takes, ClaimsInv, OwnedIsTaken
      <4>3. CASE Begins(t)
        <5>1. CASE u \in ImportWorkers
          BY <2>5, <4>3, <5>1
        <5>2. CASE u \in Handlers
          <6>1. Passed(task[u].attempt)
            BY <3>1, <5>2 DEF ClaimsInv, OwnedByHandIsPassed
          <6> QED
            BY <2>5, <4>3, <6>1 DEF Passed
        <5> QED
          BY <5>1, <5>2 DEF Tasks
      <4> QED
        BY <2>3, <3>1, <4>1, <4>2, <4>3
    <3> SUFFICES ASSUME NEW u \in Tasks, NEW v \in Tasks, u # v, task'[u].pc \in Owning,
                        task'[v].pc \in Owning
                 PROVE  task'[u].attempt # task'[v].attempt
      BY DEF OwnersApart
    <3>2. CASE u = t
      BY <2>1, <3>1, <3>2
    <3>3. CASE v = t
      BY <2>1, <3>1, <3>3
    <3>4. CASE u # t /\ v # t
      BY <2>1, <3>4 DEF ClaimsInv, OwnersApart
    <3> QED
      BY <3>2, <3>3, <3>4
  <2>7. OwnedIsTaken'
    <3> SUFFICES ASSUME NEW u \in Tasks, task'[u].pc \in Owning
                 PROVE  /\ task'[u].attempt \in Attempts
                        /\ attempt'[task'[u].attempt].status # "needs_review"
      BY DEF OwnedIsTaken
    <3>1. ASSUME task[u].pc \in Owning, task'[u].attempt = task[u].attempt
          PROVE  /\ task'[u].attempt \in Attempts
                 /\ attempt'[task'[u].attempt].status # "needs_review"
      <4>1. task[u].attempt \in Attempts /\ attempt[task[u].attempt].status # "needs_review"
        BY <3>1 DEF ClaimsInv, OwnedIsTaken
      <4>2. \A v \in Tasks : Leaves(v) => v # u
        BY DEF Leaves
      <4>3. \A v \in Tasks : Leaves(v) /\ task[v].pc \in Owning =>
              task[v].attempt # task[u].attempt
        BY <3>1, <4>2 DEF ClaimsInv, OwnersApart
      <4> QED
        BY <1>2, <3>1, <4>1, <4>3 DEF Written, ActiveAttempt, Owning
    <3>2. CASE u # t \/ Keeps(t)
      BY <2>1, <3>1, <3>2 DEF Keeps
    <3>3. CASE u = t /\ Takes(t)
      BY <2>4, <3>3 DEF Takes
    <3>4. CASE u = t /\ Begins(t)
      BY <2>5, <3>4
    <3> QED
      BY <2>3, <3>2, <3>3, <3>4
  <2>8. OwnedByHandIsPassed'
    <3> SUFFICES ASSUME NEW u \in Handlers, task'[u].pc \in Owning
                 PROVE  Passed(task[u].attempt)'
      BY DEF OwnedByHandIsPassed
    <3>1. u \in Tasks /\ u \notin ImportWorkers
      BY TasksAssumption DEF Tasks
    <3>2. ASSUME task[u].pc \in Owning, task'[u].attempt = task[u].attempt
          PROVE  Passed(task[u].attempt)'
      <4>1. Passed(task[u].attempt) /\ task[u].attempt \in Attempts
        BY <3>1, <3>2 DEF ClaimsInv, OwnedByHandIsPassed, OwnedIsTaken
      <4> QED
        BY <1>2, <3>2, <4>1 DEF Passed
    <3>3. CASE u # t \/ Keeps(t)
      BY <2>1, <3>1, <3>2, <3>3 DEF Keeps
    <3>4. CASE u = t /\ Takes(t)
      BY <3>4 DEF Takes, Passed
    <3>5. CASE u = t /\ Begins(t)
      BY <2>5, <3>1, <3>5
    <3> QED
      BY <2>3, <3>3, <3>4, <3>5
  <2> QED
    BY <1>1, <2>6, <2>7, <2>8 DEF ClaimsInv
<1> QED
  BY <1>3, <1>4, NextAcquires

\* No two imports of one download are under way where nobody chooses, whoever offers it
\* to the queue however often; nor where people choose, as long as no verification holds
\* a download again that a choice has claimed and no adoption brings one back.
THEOREM ImportsAreApart ==
  ASSUME "choose" \notin Operations \/ Operations \cap {"adopt", "verify", "refetch"} = {}
  PROVE  Spec => []OneImportPerAttempt
<1>1. CASE "choose" \notin Operations
  <2>1. Inv /\ FilesInv /\ WorkersImport /\ [Next]_vars => WorkersImport'
    BY <1>1, NextKeepsWorkersImport
  <2>2. Inv /\ FilesInv /\ WorkersImport => OneImportPerAttempt
    <3> SUFFICES ASSUME FilesInv, WorkersImport, NEW t \in Tasks, NEW u \in Tasks, t # u,
                        task[t].pc \in Importing, task[u].pc \in Importing
                 PROVE  task[t].attempt # task[u].attempt
      BY DEF OneImportPerAttempt
    <3>1. t \in ImportWorkers /\ u \in ImportWorkers
      BY DEF WorkersImport, Tasks
    <3>2. task[t].attempt # NoRow
      BY DEF FilesInv, Brings, Carrying, Inserted, Attempts, NoRow
    <3> QED
      BY <3>1, <3>2 DEF WorkersImport, WorkersApart
  <2> QED
    BY <2>1, <2>2, InitWorkersImport, InvHolds, FilesStayLinked, PTL DEF Spec
<1>2. CASE Operations \cap {"adopt", "verify", "refetch"} = {}
  <2>1. Init => ClaimsInv
    <3> SUFFICES ASSUME Init PROVE ClaimsInv
      OBVIOUS
    <3>1. \A t \in Tasks : task[t].pc = "idle" /\ task[t].says = "none"
      BY DEF Init, Idle
    <3> QED
      BY <3>1, InitWorkers
      DEF ClaimsInv, NobodyAdopts, NobodySays, OwnersApart, OwnedIsTaken, OwnedByHandIsPassed,
          Tasks, Owning, Importing
  <2>2. Inv /\ FilesInv /\ ClaimsInv /\ [Next]_vars => ClaimsInv'
    BY <1>2, NextKeepsClaims
  <2>3. ClaimsInv => OneImportPerAttempt
    BY DEF ClaimsInv, OwnersApart, OneImportPerAttempt, Owning
  <2> QED
    BY <2>1, <2>2, <2>3, InvHolds, FilesStayLinked, PTL DEF Spec
<1> QED
  BY <1>1, <1>2

-------------------------------------------------------------------------------
(***************************************************************************)
(* Every row in the dock is an attempt's, or an import has it in hand.     *)
(***************************************************************************)
\* An import has a row in hand that is not linked yet.
Claiming == InHand \ {"import_place"}

\* A row that its attempt does not link is in somebody's hand.
OwnedRows ==
  \A f \in DockFiles :
    DockRow(f) =>
      \/ attempt[dock[f].attempt].dock = f
      \/ \E t \in Tasks : task[t].pc \in Claiming /\ task[t].dock = f

\* Whoever imports an attempt has the only row that was made for it.
OneRowInHand ==
  \A t \in Tasks, f \in DockFiles :
    task[t].pc \in Importing /\ DockRow(f) /\ dock[f].attempt = task[t].attempt =>
      task[t].pc \in InHand /\ task[t].dock = f

DockInv == WorkersImport /\ OwnedRows /\ OneRowInHand

\* The two writes of an import that a unique index may refuse: the claim of a request that
\* had failed, and the record of an attempt that had.
IndexesYield ==
  \A t \in Tasks :
    LET a == task[t].attempt
        r == attempt[a].request
    IN
    /\ At(t, "import_claim") => request[r].status # "failed" \/ KeyFree(r)
    /\ At(t, "import_record") => HashFree(attempt[a].release, a)

\* No row comes to the dock, and links go only with their row.
RowsOnlyGo ==
  /\ \A f \in DockFiles : DockRow(f)' => DockRow(f)
  /\ \A a \in Attempts, f \in DockFiles :
       Created(a) /\ attempt[a].dock = f /\ DockRow(f)' => attempt'[a].dock = f

\* Activation t gives up what it has in hand only when it is linked, or gone.
HandsOn(t) ==
  \A f \in DockFiles :
    task[t].pc \in InHand /\ task[t].dock = f /\ DockRow(f)' =>
      /\ \/ task[t].pc = "import_place"
         \/ task'[t].pc \in Claiming /\ task'[t].dock = f
         \/ attempt'[dock[f].attempt].dock = f
      /\ task'[t].pc \in Importing => task'[t].pc \in InHand /\ task'[t].dock = f

\* So every row keeps its owner, whatever one activation does,
LEMMA OwnersStay ==
  ASSUME FilesInv, DockInv, RowsKeep, RowsOnlyGo, NEW t \in Tasks, HandsOn(t),
         \A u \in Tasks \ {t} : task'[u] = task[u], Continues(t)
  PROVE  OwnedRows' /\ OneRowInHand'
<1>1. \A f \in DockFiles :
        DockRow(f) => Inserted(dock[f].attempt) /\ dock'[f].attempt = dock[f].attempt
  BY DEF DockRow, Made, RowsKeep, FilesInv, Linked, FilesComeFromAttempts
<1>2. OwnedRows'
  <2> SUFFICES ASSUME NEW f \in DockFiles, DockRow(f)'
               PROVE  \/ attempt'[dock'[f].attempt].dock = f
                      \/ \E u \in Tasks : task'[u].pc \in Claiming /\ task'[u].dock = f
    BY DEF OwnedRows
  <2>1. DockRow(f)
    BY DEF RowsOnlyGo
  <2>2. CASE attempt[dock[f].attempt].dock = f
    BY <1>1, <2>1, <2>2 DEF RowsOnlyGo, Inserted
  <2>3. ASSUME NEW u \in Tasks, task[u].pc \in Claiming, task[u].dock = f
        PROVE  \/ attempt'[dock'[f].attempt].dock = f
               \/ task'[u].pc \in Claiming /\ task'[u].dock = f
    BY <1>1, <2>1, <2>3 DEF HandsOn, Claiming
  <2> QED
    BY <2>1, <2>2, <2>3 DEF DockInv, OwnedRows
<1>3. OneRowInHand'
  <2> SUFFICES ASSUME NEW u \in Tasks, NEW f \in DockFiles, task'[u].pc \in Importing,
                      DockRow(f)', dock'[f].attempt = task'[u].attempt
               PROVE  task'[u].pc \in InHand /\ task'[u].dock = f
    BY DEF OneRowInHand
  <2>1. DockRow(f) /\ dock[f].attempt = task'[u].attempt
    BY <1>1 DEF RowsOnlyGo
  <2>2. CASE u # t
    BY <2>1, <2>2 DEF DockInv, OneRowInHand
  <2>3. CASE u = t /\ Keeps(t)
    <3>1. task[t].pc \in InHand /\ task[t].dock = f
      BY <2>1, <2>3 DEF Keeps, DockInv, OneRowInHand
    <3> QED
      BY <2>3, <3>1 DEF HandsOn
  <2>4. CASE /\ u = t /\ attempt[task'[t].attempt].dock = NoRow
             /\ \A v \in ImportWorkers : task[v].attempt # task'[t].attempt
    <3>1. f # NoRow
      BY DEF DockFiles, NoRow
    <3>2. PICK v \in Tasks : task[v].pc \in Claiming /\ task[v].dock = f
      BY <2>1, <2>4, <3>1 DEF DockInv, OwnedRows
    <3>3. v \in ImportWorkers
      BY <3>2 DEF Claiming, InHand, Importing, DockInv, WorkersImport, Tasks
    <3>4. dock[f].attempt = task[v].attempt
      BY <3>2 DEF Claiming, FilesInv, Brings
    <3> QED
      BY <2>1, <2>4, <3>3, <3>4
  <2> QED
    BY <2>2, <2>3, <2>4 DEF Continues
<1> QED
  BY <1>2, <1>3

\* if it has nothing in hand.
LEMMA OwnersOfOthers ==
  ASSUME FilesInv, DockInv, RowsKeep, RowsOnlyGo, NEW t \in Tasks, task[t].pc \notin InHand,
         \A u \in Tasks \ {t} : task'[u] = task[u], Continues(t)
  PROVE  OwnedRows' /\ OneRowInHand'
<1>1. HandsOn(t)
  BY DEF HandsOn
<1> QED
  BY <1>1, OwnersStay

\* Writes of other columns leave rows and links,
LEMMA NoRowsGo ==
  ASSUME dock' = dock, \A a \in Attempts : Created(a) => attempt'[a].dock = attempt[a].dock
  PROVE  RowsOnlyGo
  BY DEF RowsOnlyGo, DockRow

\* and a deletion takes a row and its links.
LEMMA DeletedRowsGo ==
  ASSUME RowsOK, NEW f \in DockFiles \cup {NoRow}, NEW state \in {"dropped", "filed"},
         DeleteDockRow(f, state)
  PROVE  RowsOnlyGo /\ ~DockRow(f)'
<1>1. /\ \A g \in DockFiles \ {f} : dock'[g] = dock[g]
      /\ ~DockRow(f)'
  <2>1. CASE DockRow(f)
    <3>1. f \in DockFiles /\ dock' = [dock EXCEPT ![f].state = state]
      BY <2>1 DEF DockRow, DeleteDockRow
    <3> QED
      BY <3>1 DEF RowsOK, DockRows, DockRow
  <2>2. CASE ~DockRow(f)
    BY <2>2 DEF DeleteDockRow, DockRow
  <2> QED
    BY <2>1, <2>2
<1>2. \A g \in DockFiles : DockRow(g)' => DockRow(g)
  BY <1>1 DEF DockRow
<1>3. \A a \in Attempts : attempt'[a].dock = attempt[a].dock \/ attempt[a].dock = f
  BY DEF DeleteDockRow, Unlink
<1> QED
  BY <1>1, <1>2, <1>3 DEF RowsOnlyGo

\* Outside the imports the steps of activations insert attempts, write their statuses, or
\* delete a row.
LEMMA OtherStepsOnlyGo ==
  ASSUME Inv, NEW t \in Tasks, Step(t), ~ImportStep(t), ~ImportPlaceCollides(t)
  PROVE  RowsOnlyGo /\ task[t].pc \notin InHand
<1>1. RowsOK /\ task[t] \in TaskState
  BY DEF Inv, TasksOK
<1>2. CASE GrabStep(t) \/ GrabAddLost(t)
  <2>1. ASSUME NEW h \in Releases, GrabCreate(t, h)
        PROVE  /\ dock' = dock /\ task[t].pc \notin InHand
               /\ \A a \in Attempts : Created(a) => attempt'[a].dock = attempt[a].dock
    BY <1>1, <2>1 DEF GrabCreate, At, InHand, IsNextAttempt, Insert, RowsOK
  <2>2. CASE GrabRefused(t)
    <3>1. /\ dock' = dock /\ task[t].pc \notin InHand
          /\ \A a \in Attempts : Created(a) => attempt'[a].dock = attempt[a].dock
      BY <1>1, <2>2 DEF GrabRefused, At, InHand, IsNextAttempt, Insert, RowsOK
    <3> QED
      BY <3>1, NoRowsGo
  <2>3. CASE GrabFailed(t)
    <3>1. /\ dock' = dock /\ task[t].pc \notin InHand
          /\ \A a \in Attempts : Created(a) => attempt'[a].dock = attempt[a].dock
      BY <1>1, <2>3 DEF GrabFailed, At, InHand, SetAttempt, RowsOK, AttemptRow
    <3> QED
      BY <3>1, NoRowsGo
  <2>4. CASE \/ GrabClaim(t) \/ GrabResolve(t) \/ GrabAdd(t) \/ GrabAddRefused(t)
             \/ GrabRollback(t) \/ GrabConfirm(t) \/ GrabAddLost(t)
    <3>1. UNCHANGED <<attempt, dock>> /\ task[t].pc \notin InHand
      BY <2>4
      DEF GrabClaim, GrabResolve, GrabAdd, GrabAddRefused, GrabRollback, GrabConfirm, GrabAddLost,
          At, InHand, rows
    <3> QED
      BY <3>1, NoRowsGo
  <2> QED
    BY <1>2, <2>1, <2>2, <2>3, <2>4, NoRowsGo DEF GrabStep
<1>3. CASE AutomationStep(t)
  <2>1. UNCHANGED <<attempt, dock>> /\ task[t].pc \notin InHand
    BY <1>3
    DEF AutomationStep, PassClaim, PassDeclines, SearchFindsNothing, SearchFinds, PassGrabs,
        PassFails, Abandon, At, InHand, rows
  <2> QED
    BY <2>1, NoRowsGo
<1>4. CASE Adopt(t) \/ MonitorStep(t)
  <2>1. /\ dock' = dock /\ task[t].pc \notin InHand
        /\ \A a \in Attempts : attempt'[a].dock = attempt[a].dock
    <3>1. CASE Adopt(t)
      BY <1>1, <3>1 DEF Adopt, At, InHand, RowsOK, AttemptRow
    <3>2. CASE PollApply(t)
      BY <1>1, <3>2 DEF PollApply, At, InHand, SetAttempt, RowsOK, AttemptRow
    <3>3. CASE PollRequest(t) \/ ResumeEnqueue(t)
      BY <3>3 DEF PollRequest, ResumeEnqueue, At, InHand, rows
    <3> QED
      BY <1>4, <3>1, <3>2, <3>3 DEF MonitorStep
  <2> QED
    BY <2>1, NoRowsGo
<1>5. CASE FailAttempt(t) \/ FailRequest(t) \/ HoldAttempt(t) \/ HoldRequest(t)
  <2>1. /\ dock' = dock /\ task[t].pc \notin InHand
        /\ \A a \in Attempts : attempt'[a].dock = attempt[a].dock
    BY <1>1, <1>5
    DEF FailAttempt, FailRequest, HoldAttempt, HoldRequest, At, InHand, SetAttempt, RowsOK,
        AttemptRow
  <2> QED
    BY <2>1, NoRowsGo
<1>6. CASE RemovalStep(t) \/ SettleRefused(t)
  <2>1. /\ dock' = dock /\ task[t].pc \notin InHand
        /\ \A a \in Attempts : attempt'[a].dock = attempt[a].dock
    <3>1. CASE FailInFlight(t) \/ FailInFlightForRequest(t)
      BY <1>1, <3>1 DEF FailInFlight, FailInFlightForRequest, At, InHand, RowsOK, AttemptRow
    <3>2. CASE \/ Latest(t) \/ Detach(t) \/ DetachRefused(t) \/ SettleStopped(t)
               \/ SettleRemoved(t) \/ SettleFulfilled(t) \/ SettleRefused(t)
      BY <3>2
      DEF Latest, Detach, DetachRefused, SettleStopped, SettleRemoved, Settle, SettleFulfilled,
          SettleRefused, At, InHand, rows
    <3> QED
      BY <1>6, <3>1, <3>2 DEF RemovalStep
  <2> QED
    BY <2>1, NoRowsGo
<1>7. CASE VerificationStep(t)
  <2>1. CASE FileMove(t) \/ DiscardDock(t)
    <3>1. task[t].dock \in DockFiles \cup {NoRow}
      BY <1>1 DEF TaskState
    <3> QED
      BY <1>1, <2>1, <3>1, DeletedRowsGo DEF FileMove, DiscardDock, At, InHand
  <2>2. CASE \/ VerifyPasses(t) \/ VerifyHolds(t) \/ VerifyFindsNoRow(t) \/ FileRead(t)
             \/ FileMoveFails(t) \/ FileRequest(t) \/ DiscardRequest(t) \/ DiscardDockFails(t)
             \/ DiscardUndoRequest(t)
    <3>1. UNCHANGED <<attempt, dock>> /\ task[t].pc \notin InHand
      BY <2>2
      DEF VerifyPasses, VerifyHolds, VerifyFindsNoRow, FileRead, FileMoveFails, FileRequest,
          DiscardRequest, DiscardDockFails, DiscardUndoRequest, At, InHand, rows
    <3> QED
      BY <3>1, NoRowsGo
  <2>3. CASE FileAttempt(t) \/ DiscardAttempt(t) \/ DiscardUndoAttempt(t)
    <3>1. /\ dock' = dock /\ task[t].pc \notin InHand
          /\ \A a \in Attempts : attempt'[a].dock = attempt[a].dock
      BY <1>1, <2>3
      DEF FileAttempt, DiscardAttempt, DiscardUndoAttempt, At, InHand, SetAttempt, RowsOK,
          AttemptRow
    <3> QED
      BY <3>1, NoRowsGo
  <2> QED
    BY <1>7, <2>1, <2>2, <2>3 DEF VerificationStep
<1> QED
  BY <1>2, <1>3, <1>4, <1>5, <1>6, <1>7 DEF Step

\* A row is claimed for an attempt of which there is none,
LEMMA ClaimsOwn ==
  ASSUME Inv, FilesInv, DockInv, NEW t \in Tasks, NEW from \in Importing \ InHand,
         NEW to \in Claiming, ClaimDestination(t, from, to)
  PROVE  OwnedRows' /\ OneRowInHand'
<1>1. RowsOK /\ task \in [Tasks -> TaskState]
  BY DEF Inv, TasksOK
<1>2. PICK f \in DockFiles :
        /\ IsNextDockFile(f)
        /\ dock' = [dock EXCEPT ![f] = [state |-> "claimed", attempt |-> task[t].attempt]]
        /\ task' = [task EXCEPT ![t].pc = to, ![t].dock = f]
  BY DEF ClaimDestination
<1>3. /\ task[t].pc = from /\ attempt' = attempt
      /\ ~DockRow(f)
  BY <1>2 DEF ClaimDestination, At, IsNextDockFile, DockRow
<1>4. /\ \A g \in DockFiles \ {f} : dock'[g] = dock[g]
      /\ dock'[f].attempt = task[t].attempt
  BY <1>1, <1>2 DEF RowsOK
<1>5. /\ task'[t].pc = to /\ task'[t].dock = f /\ task'[t].attempt = task[t].attempt
      /\ \A u \in Tasks \ {t} : task'[u] = task[u]
  BY <1>1, <1>2 DEF TaskState
<1>6. OwnedRows'
  <2> SUFFICES ASSUME NEW g \in DockFiles, DockRow(g)'
               PROVE  \/ attempt'[dock'[g].attempt].dock = g
                      \/ \E u \in Tasks : task'[u].pc \in Claiming /\ task'[u].dock = g
    BY DEF OwnedRows
  <2>1. CASE g = f
    BY <1>5, <2>1
  <2>2. CASE g # f
    <3>1. DockRow(g)
      BY <1>4, <2>2 DEF DockRow
    <3>2. task[t].pc \notin Claiming
      BY <1>3 DEF Claiming
    <3> QED
      BY <1>3, <1>4, <1>5, <2>2, <3>1, <3>2 DEF DockInv, OwnedRows
  <2> QED
    BY <2>1, <2>2
<1>7. OneRowInHand'
  <2> SUFFICES ASSUME NEW u \in Tasks, NEW g \in DockFiles, task'[u].pc \in Importing,
                      DockRow(g)', dock'[g].attempt = task'[u].attempt
               PROVE  task'[u].pc \in InHand /\ task'[u].dock = g
    BY DEF OneRowInHand
  <2>1. CASE g # f
    <3>1. DockRow(g) /\ dock[g].attempt = task'[u].attempt
      BY <1>4, <2>1 DEF DockRow
    <3>2. u # t
      BY <1>3, <1>5, <3>1 DEF DockInv, OneRowInHand
    <3> QED
      BY <1>5, <3>1, <3>2 DEF DockInv, OneRowInHand
  <2>2. CASE g = f /\ u = t
    BY <1>5, <2>2 DEF Claiming
  <2>3. CASE g = f /\ u # t
    <3>1. task[u].pc \in Importing /\ task[u].attempt = task[t].attempt
      BY <1>4, <1>5, <2>3
    <3>2. u \in ImportWorkers /\ t \in ImportWorkers
      BY <1>3, <3>1 DEF DockInv, WorkersImport, Tasks
    <3>3. task[t].attempt # NoRow
      BY <1>3 DEF FilesInv, Brings, Carrying, Inserted, Attempts, NoRow
    <3> QED
      BY <2>3, <3>1, <3>2, <3>3 DEF DockInv, WorkersImport, WorkersApart
  <2> QED
    BY <2>1, <2>2, <2>3
<1> QED
  BY <1>6, <1>7

\* and an import lets a row go only once it is linked.
LEMMA ImportHandsOn ==
  ASSUME Inv, FilesInv, DockInv, IndexesYield, NEW t \in Tasks,
         ImportStep(t) \/ ImportPlaceCollides(t), ~ImportClaimDock(t), ~ImportReclaimDock(t)
  PROVE  RowsOnlyGo /\ HandsOn(t)
<1>1. RowsOK /\ task \in [Tasks -> TaskState]
  BY DEF Inv, TasksOK
<1> DEFINE a == task[t].attempt
           f == task[t].dock
<1>2. task[t].pc \in InHand =>
        /\ a \in Attempts /\ Created(a)
        /\ f \in DockFiles /\ dock[f].attempt = a
  BY DEF FilesInv, Brings, Carrying, InHand, Importing, Inserted, Made
<1>3. CASE ImportDone(t) \/ ImportError(t) \/ ChooseClaim(t) \/ ImportRefused(t)
           \/ \E why \in {"choice", "truncated"} : ImportHold(t, why)
  <2>1. task[t].pc \notin InHand /\ dock' = dock
    BY <1>3
    DEF ImportDone, ImportError, ChooseClaim, ImportRefused, ImportHold, At, InHand, rows
  <2>2. \A b \in Attempts : attempt'[b].dock = attempt[b].dock
    BY <1>1, <1>3
    DEF ImportDone, ImportError, ChooseClaim, ImportRefused, ImportHold, SetAttempt, RowsOK,
        AttemptRow, rows
  <2> QED
    BY <2>1, <2>2, NoRowsGo DEF HandsOn
<1>4. CASE ImportClaim(t) \/ ImportReclaim(t)
  <2>1. task[t].pc \in InHand \ {"import_place"} /\ UNCHANGED <<attempt, dock>>
    BY <1>4 DEF ImportClaim, ImportReclaim, At, InHand
  <2>2. \/ task'[t].pc \in {"import_record", "import_rerecord", "import_undo"}
           /\ task'[t].dock = f
        \/ ~DockRow(f) /\ task'[t].pc = "fail_attempt"
    <3>1. CASE ImportClaim(t)
      <4>1. \/ Go(t, "import_record") \/ Go(t, "import_undo")
            \/ ~DockRow(f) /\ Go(t, "fail_attempt")
        BY <3>1 DEF ImportClaim, IndexesYield
      <4> QED
        BY <1>1, <4>1 DEF Go, TaskState
    <3>2. CASE ImportReclaim(t)
      <4>1. \/ Go(t, "import_rerecord") \/ Go(t, "import_undo")
            \/ ~DockRow(f) /\ Go(t, "fail_attempt")
        BY <3>2 DEF ImportReclaim
      <4> QED
        BY <1>1, <4>1 DEF Go, TaskState
    <3> QED
      BY <1>4, <3>1, <3>2
  <2>3. \A g \in DockFiles : DockRow(g)' <=> DockRow(g)
    BY <2>1 DEF DockRow
  <2>4. HandsOn(t)
    BY <2>2, <2>3 DEF HandsOn, Claiming, InHand, Importing
  <2> QED
    BY <2>1, <2>4, NoRowsGo
<1>5. CASE ImportUndo(t) \/ ImportPlaceThrows(t) \/ ImportPlaceCollides(t)
  <2>1. \E state \in {"dropped", "filed"} : DeleteDockRow(f, state)
    BY <1>5 DEF ImportUndo, ImportPlaceThrows, ImportPlaceCollides, ImportPlaceFails
  <2>2. task[t].pc \in InHand
    BY <1>5 DEF ImportUndo, ImportPlaceThrows, ImportPlaceCollides, ImportPlaceFails, At, InHand
  <2>3. f \in DockFiles
    BY <1>2, <2>2
  <2>4. RowsOnlyGo /\ \A g \in DockFiles : g = f => ~DockRow(g)'
    <3> HIDE DEF f
    <3> QED
      BY <1>1, <2>1, <2>3, DeletedRowsGo DEF DockRow
  <2> QED
    BY <2>4 DEF HandsOn
<1>6. CASE ImportRecord(t) \/ ImportRerecord(t)
  <2>1. task[t].pc \in InHand \ {"import_place"} /\ dock' = dock
    BY <1>6 DEF ImportRecord, ImportRerecord, At, InHand
  <2>2. \A g \in DockFiles : DockRow(g)' <=> DockRow(g)
    BY <2>1 DEF DockRow
  <2>3. CASE attempt' = attempt /\ ~Go(t, "import_place")
    <3>1. ~DockRow(f)
      BY <1>6, <2>3 DEF ImportRecord, ImportRerecord, IndexesYield
    <3> QED
      BY <2>1, <2>2, <2>3, <3>1, NoRowsGo DEF HandsOn
  <2>4. CASE /\ Go(t, "import_place")
             /\ \/ attempt' = [attempt EXCEPT ![a].status = "importing", ![a].dock = f]
                \/ attempt' = [attempt EXCEPT ![a].dock = f]
    <3>1. attempt'[a].dock = f /\ \A b \in Attempts \ {a} : attempt'[b] = attempt[b]
      BY <1>1, <1>2, <2>1, <2>4 DEF RowsOK, AttemptRow
    <3>2. ASSUME NEW g \in DockFiles, attempt[a].dock = g, DockRow(g) PROVE g = f
      <4>1. dock[g].attempt = a
        BY <1>2, <2>1, <3>2 DEF FilesInv, Linked, AttemptsLinkTheirOwn, DockRow
      <4> QED
        BY <2>1, <3>2, <4>1 DEF DockInv, OneRowInHand, InHand, Importing
    <3>3. RowsOnlyGo
      BY <2>2, <3>1, <3>2 DEF RowsOnlyGo
    <3>4. task'[t].pc = "import_place" /\ task'[t].dock = f
      BY <1>1, <2>4 DEF Go, TaskState
    <3>5. HandsOn(t)
      BY <1>2, <2>1, <3>1, <3>4 DEF HandsOn, InHand
    <3> QED
      BY <3>3, <3>5
  <2>5. \/ attempt' = attempt
        \/ /\ Go(t, "import_place")
           /\ \/ attempt' = [attempt EXCEPT ![a].status = "importing", ![a].dock = f]
              \/ attempt' = [attempt EXCEPT ![a].dock = f]
    BY <1>6 DEF ImportRecord, ImportRerecord
  <2>6. Go(t, "import_place") =>
          \/ attempt' = [attempt EXCEPT ![a].status = "importing", ![a].dock = f]
          \/ attempt' = [attempt EXCEPT ![a].dock = f]
    <3>1. ~(Go(t, "import_place") /\ Go(t, "fail_attempt"))
      BY <1>1 DEF Go, TaskState
    <3> QED
      BY <1>6, <3>1 DEF ImportRecord, ImportRerecord
  <2> QED
    BY <2>3, <2>4, <2>5, <2>6
<1>7. CASE ImportPlace(t)
  <2>1. attempt' = attempt /\ task[t].pc = "import_place" /\ task'[t].pc \notin Importing
    BY <1>1, <1>7 DEF ImportPlace, At, Return, Idle, Importing, TaskState
  <2>2. \A g \in DockFiles : DockRow(g)' => DockRow(g)
    BY <1>1, <1>7 DEF ImportPlace, DockRow, RowsOK, DockRows
  <2> QED
    BY <2>1, <2>2 DEF RowsOnlyGo, HandsOn
<1> QED
  BY <1>3, <1>4, <1>5, <1>6, <1>7 DEF ImportStep

\* So no step loses a row, as long as nothing begins anew,
LEMMA NextOwnsRows ==
  ASSUME Inv, FilesInv, DockInv, IndexesYield, Operations \cap {"choose", "restart"} = {},
         [Next]_vars
  PROVE  DockInv'
<1>1. WorkersImport' /\ RowsKeep /\ \A u \in Tasks : Continues(u)
  BY NextKeepsWorkersImport, NextKeepsFiles, NextContinues DEF DockInv, WorkersImport, SoundWrites
<1>2. ASSUME NEW t \in Tasks, Step(t) PROVE OwnedRows' /\ OneRowInHand'
  <2>1. \A u \in Tasks \ {t} : task'[u] = task[u]
    BY <1>2, StepMoves DEF Moves, Acquires
  <2>2. CASE ImportClaimDock(t) \/ ImportReclaimDock(t)
    BY <2>2, ClaimsOwn DEF ImportClaimDock, ImportReclaimDock, Claiming, InHand, Importing
  <2>3. CASE /\ ImportStep(t) \/ ImportPlaceCollides(t)
             /\ ~ImportClaimDock(t) /\ ~ImportReclaimDock(t)
    BY <1>1, <2>1, <2>3, ImportHandsOn, OwnersStay
  <2>4. CASE ~ImportStep(t) /\ ~ImportPlaceCollides(t)
    BY <1>1, <1>2, <2>1, <2>4, OtherStepsOnlyGo, OwnersOfOthers
  <2> QED
    BY <2>2, <2>3, <2>4
<1>3. ASSUME NEW t \in Tasks, Start(t) PROVE OwnedRows' /\ OneRowInHand'
  <2>1. Alone(t) /\ task[t].pc \notin InHand
    <3>1. task[t] = Idle
      BY <1>3
      DEF Start, GrabStart, GrabRead, PassStart, PassRead, AbandonRead, AdoptStart, AdoptRead,
          MonitorStart, PollRead, ResumeRead, WatchdogStart, WatchdogRead, ImportStart,
          ImportBegin, ChoiceStart, ChooseUnit, VerificationStart, RefetchStart, VerifyRead,
          ForceFileStart, FileHeld, DiscardStart, Discard, Cancel, MarkFulfilled, StopDownload,
          RemoveFromClient, Free
    <3> QED
      BY <1>3, <3>1, StartTakes DEF Idle, InHand
  <2>2. RowsOnlyGo
    BY <2>1, NoRowsGo DEF Alone
  <2> QED
    BY <1>1, <2>1, <2>2, OwnersOfOthers DEF Alone
<1>4. ASSUME Environment \/ UNCHANGED vars PROVE OwnedRows' /\ OneRowInHand'
  <2>1. UNCHANGED task
    BY <1>4
    DEF Environment, ReleaseSearch, Approve, Reject, Decide, DiscardDockFile, ClientProgress,
        ClientFailure, ClientCompletes, ClientErrors, ClientForgets, Advance, On, Shutdown, vars
  <2>2. RowsOnlyGo
    <3>1. ASSUME NEW f \in DockFiles, DiscardDockFile(f) PROVE RowsOnlyGo
      BY <3>1, DeletedRowsGo DEF DiscardDockFile, Inv
    <3>2. ASSUME ~\E f \in DockFiles : DiscardDockFile(f) PROVE UNCHANGED <<attempt, dock>>
      BY <1>4, <3>2
      DEF Environment, ReleaseSearch, Approve, Reject, Decide, ClientProgress, ClientFailure,
          ClientCompletes, ClientErrors, ClientForgets, Advance, Restart, Shutdown, vars, rows
    <3> QED
      BY <3>1, <3>2, NoRowsGo
  <2>3. PICK t \in Tasks : TRUE
    BY TasksAssumption DEF Tasks
  <2>4. HandsOn(t)
    BY <1>1, <2>1, <2>2 DEF HandsOn, Claiming, RowsOnlyGo
  <2> QED
    BY <1>1, <2>1, <2>2, <2>4, OwnersStay
<1>5. OwnedRows' /\ OneRowInHand'
  BY <1>2, <1>3, <1>4 DEF Next
<1> QED
  BY <1>1, <1>5 DEF DockInv

\* of which there are none at first.
LEMMA InitOwnsRows == Init => DockInv
<1> SUFFICES ASSUME Init PROVE DockInv
  OBVIOUS
<1>1. \A f \in DockFiles : ~DockRow(f)
  BY DEF Init, FreeDockFile, DockRow
<1> QED
  BY <1>1, InitWorkersImport DEF DockInv, OwnedRows, OneRowInHand

-------------------------------------------------------------------------------
(***************************************************************************)
(* Every attempt is of a request that exists.                              *)
(***************************************************************************)

\* So has every grab and every pass one.
KnownRequests ==
  /\ \A a \in Attempts : Created(a) => attempt[a].request \in Requests
  /\ \A t \in Tasks : task[t].pc \in Seeking => task[t].request \in Requests

\* No attempt comes, or is given to another request.
NoneComes ==
  \A a \in Attempts : Created(a)' => Created(a) /\ attempt'[a].request = attempt[a].request

\* No attempt comes but for the request t grabs for.
ComesFor(t) ==
  \A a \in Attempts :
    Created(a)' =>
      \/ Created(a) /\ attempt'[a].request = attempt[a].request
      \/ task[t].pc \in Seeking /\ attempt'[a].request = task[t].request

\* Who seeks a release did so before.
SeeksOn(t) ==
  task'[t].pc \in Seeking => task[t].pc \in Seeking /\ task'[t].request = task[t].request

\* Writes of one attempt that is there bring none,
LEMMA WritesBringNone ==
  ASSUME RowsOK, NEW a, a \in Attempts => Created(a), NEW s,
         \/ SetAttempt(a, s)
         \/ \E d \in BOOLEAN : attempt' = [attempt EXCEPT ![a].status = s, ![a].units = d]
         \/ \E f : attempt' = [attempt EXCEPT ![a].status = s, ![a].dock = f]
         \/ \E f : attempt' = [attempt EXCEPT ![a].dock = f]
  PROVE  NoneComes
<1>1. \A b \in Attempts : /\ attempt'[b].request = attempt[b].request
                          /\ b # a => attempt'[b].status = attempt[b].status
  BY DEF RowsOK, AttemptRow, SetAttempt
<1> QED
  BY <1>1 DEF NoneComes, Created

\* and neither does a deletion, nor what leaves the attempts alone.
LEMMA LeavesBringNone ==
  ASSUME RowsOK, UNCHANGED attempt \/ \E f, state : DeleteDockRow(f, state)
  PROVE  NoneComes
  BY DEF NoneComes, Created, DeleteDockRow, Unlink, RowsOK, AttemptRow

\* No grab begins on the way,
LEMMA GoSeeksNot ==
  ASSUME TasksOK, NEW t \in Tasks, NEW pc, Return(t) \/ (pc \notin Seeking /\ Go(t, pc))
  PROVE  SeeksOn(t)
  BY DEF TasksOK, TaskState, Go, Return, Idle, SeeksOn, Seeking, Grabbing, Searching

\* and one under way keeps its request.
LEMMA GoSeeks ==
  ASSUME TasksOK, NEW t \in Tasks, task[t].pc \in Seeking, NEW pc, Go(t, pc) \/ Return(t)
  PROVE  SeeksOn(t)
  BY DEF TasksOK, TaskState, Go, Return, Idle, SeeksOn, Seeking, Grabbing, Searching

\* A grab inserts attempts of its own request.
LEMMA GrabComesFor ==
  ASSUME Inv, FilesInv, NEW t \in Tasks, GrabStep(t) \/ GrabAddLost(t)
  PROVE  ComesFor(t) /\ SeeksOn(t)
<1>1. RowsOK /\ TasksOK /\ task \in [Tasks -> TaskState]
  BY DEF Inv, TasksOK
<1>2. task[t].pc \in Seeking
  BY DEF GrabStep, GrabClaim, GrabResolve, GrabRefused, GrabCreate, GrabAdd, GrabAddRefused,
         GrabAddLost, GrabFailed, GrabRollback, GrabConfirm, At, Seeking, Grabbing
<1>3. ASSUME NEW a \in Attempts, NEW row, row.request = task[t].request, Insert(a, row)
      PROVE  ComesFor(t)
  BY <1>1, <1>2, <1>3 DEF Insert, ComesFor, Created, RowsOK
<1>4. NoneComes => ComesFor(t)
  BY DEF NoneComes, ComesFor
<1>5. CASE GrabRefused(t)
  <2>1. [AbsentAttempt EXCEPT !.status = "failed", !.request = task[t].request,
                              !.automated = Unattended(t)].request = task[t].request
    BY DEF AbsentAttempt
  <2>2. UNCHANGED attempt => NoneComes
    BY <1>1, LeavesBringNone
  <2> QED
    BY <1>1, <1>2, <1>3, <1>4, <1>5, <2>1, <2>2, GoSeeks DEF GrabRefused
<1>6. ASSUME NEW h \in Releases, GrabCreate(t, h)
      PROVE  ComesFor(t) /\ SeeksOn(t)
  <2>1. [AbsentAttempt EXCEPT !.status = "queued", !.release = h, !.request = task[t].request,
                              !.automated = Unattended(t)].request = task[t].request
    BY DEF AbsentAttempt
  <2>2. UNCHANGED attempt => NoneComes
    BY <1>1, LeavesBringNone
  <2>3. ASSUME NEW a \in Attempts, task' = [task EXCEPT ![t].pc = "grab_add", ![t].attempt = a]
        PROVE  SeeksOn(t)
    BY <1>1, <1>2, <2>3 DEF SeeksOn, TaskState
  <2> QED
    BY <1>1, <1>2, <1>3, <1>4, <1>6, <2>1, <2>2, <2>3, GoSeeks DEF GrabCreate
<1>7. CASE GrabFailed(t)
  <2>1. Created(task[t].attempt)
    BY <1>7 DEF GrabFailed, At, FilesInv, Brings, Carrying, Adding, Inserted
  <2> QED
    BY <1>1, <1>2, <1>4, <1>7, <2>1, WritesBringNone, GoSeeks DEF GrabFailed
<1>8. CASE \/ GrabClaim(t) \/ GrabResolve(t) \/ GrabAdd(t) \/ GrabAddRefused(t)
           \/ GrabRollback(t) \/ GrabConfirm(t) \/ GrabAddLost(t)
  <2>1. NoneComes
    BY <1>1, <1>8, LeavesBringNone
    DEF GrabClaim, GrabResolve, GrabAdd, GrabAddRefused, GrabRollback, GrabConfirm, GrabAddLost,
        rows
  <2>2. UNCHANGED task => SeeksOn(t)
    BY DEF SeeksOn
  <2>3. UNCHANGED task \/ Return(t) \/ \E pc \in Seeking : Go(t, pc)
    BY <1>8
    DEF GrabClaim, GrabResolve, GrabAdd, GrabAddRefused, GrabRollback, GrabConfirm, GrabAddLost,
        Seeking, Grabbing, Searching
  <2> QED
    BY <1>1, <1>2, <1>4, <2>1, <2>2, <2>3, GoSeeks
<1> QED
  BY <1>5, <1>6, <1>7, <1>8 DEF GrabStep

\* Elsewhere no attempt comes and no grab begins, but those of a pass.
LEMMA OthersKnow ==
  ASSUME Inv, FilesInv, NEW t \in Tasks, Step(t), ~GrabStep(t), ~GrabAddLost(t)
  PROVE  NoneComes /\ SeeksOn(t)
<1>1. RowsOK /\ TasksOK /\ task \in [Tasks -> TaskState]
  BY DEF Inv, TasksOK
<1> DEFINE a == task[t].attempt
<1>2. /\ task[t].pc \in Carrying => Created(a)
      /\ attempt[a].status # "absent" => Created(a)
  BY DEF FilesInv, Brings, Inserted, Created
<1>3. UNCHANGED task => SeeksOn(t)
  BY DEF SeeksOn
<1>4. CASE AutomationStep(t)
  <2>1. task[t].pc \in Seeking \/ Return(t)
    BY <1>4
    DEF AutomationStep, PassClaim, PassDeclines, SearchFindsNothing, SearchFinds, PassGrabs,
        PassFails, Abandon, At, Seeking, Searching
  <2>2. PassGrabs(t) => SeeksOn(t)
    <3>1. task' = [task EXCEPT ![t].pc = "grab_claim",
                               ![t].was = request[task[t].request].status]
            => task'[t].request = task[t].request
      BY <1>1 DEF TaskState
    <3> QED
      BY <1>1, <3>1, GoSeeks DEF PassGrabs, At, SeeksOn, Seeking, Searching
  <2>3. Return(t) \/ (\E pc : Go(t, pc)) => SeeksOn(t)
    BY <1>1, <2>1, GoSeeks, GoSeeksNot
  <2>4. SeeksOn(t)
    BY <1>4, <2>2, <2>3
    DEF AutomationStep, PassClaim, PassDeclines, SearchFindsNothing, SearchFinds, PassGrabs,
        PassFails, Abandon, HandBack
  <2>5. NoneComes
    BY <1>1, <1>4, LeavesBringNone
    DEF AutomationStep, PassClaim, PassDeclines, SearchFindsNothing, SearchFinds, PassGrabs,
        PassFails, Abandon, rows
  <2> QED
    BY <2>4, <2>5
<1>5. CASE Adopt(t) \/ MonitorStep(t)
  <2>1. SeeksOn(t)
    <3>1. Return(t) \/ Go(t, "poll_request")
      BY <1>5 DEF Adopt, MonitorStep, PollApply, PollRequest, ResumeEnqueue, HandOff
    <3> QED
      BY <1>1, <3>1, GoSeeksNot DEF Seeking, Grabbing, Searching
  <2>2. CASE PollRequest(t) \/ ResumeEnqueue(t)
    BY <1>1, <2>1, <2>2, LeavesBringNone DEF PollRequest, ResumeEnqueue, rows
  <2>3. CASE PollApply(t)
    <3>1. attempt[a].status \in ActiveAttempt => attempt[a].status # "absent"
      BY DEF ActiveAttempt
    <3> QED
      BY <1>1, <1>2, <2>1, <2>3, <3>1, WritesBringNone, LeavesBringNone DEF PollApply
  <2>4. CASE Adopt(t)
    <3>1. CASE attempt[a].status = "failed" /\ SetAttempt(a, task[t].says)
      BY <1>1, <1>2, <2>1, <3>1, WritesBringNone
    <3> QED
      BY <1>1, <2>1, <2>4, <3>1, LeavesBringNone DEF Adopt, SetAttempt
  <2> QED
    BY <1>5, <2>2, <2>3, <2>4 DEF MonitorStep
<1>6. CASE FailAttempt(t) \/ FailRequest(t) \/ HoldAttempt(t) \/ HoldRequest(t)
  <2>1. SeeksOn(t)
    BY <1>1, <1>6, GoSeeksNot
    DEF FailAttempt, FailRequest, HoldAttempt, HoldRequest, Seeking, Grabbing, Searching
  <2>2. attempt[a].status \in Unsettled => attempt[a].status # "absent"
    BY DEF Unsettled, InFlight, ActiveAttempt
  <2>3. (task[t].says = "choice") \in BOOLEAN
    OBVIOUS
  <2> QED
    BY <1>1, <1>2, <1>6, <2>1, <2>2, <2>3, WritesBringNone, LeavesBringNone
    DEF FailAttempt, FailRequest, HoldAttempt, HoldRequest
<1>7. CASE ImportStep(t) \/ ImportPlaceCollides(t)
  <2>1. SeeksOn(t)
    <3>1. ASSUME NEW f \in DockFiles, NEW to \in {"import_claim", "import_reclaim"},
                 task' = [task EXCEPT ![t].pc = to, ![t].dock = f]
          PROVE  SeeksOn(t)
      BY <1>1, <3>1 DEF SeeksOn, TaskState, Seeking, Grabbing, Searching
    <3>2. ASSUME NEW why, ImportHold(t, why) PROVE SeeksOn(t)
      BY <1>1, <3>2 DEF ImportHold, SeeksOn, TaskState, Seeking, Grabbing, Searching
    <3>3. CASE ImportDone(t)
      BY <1>1, <3>3 DEF ImportDone, Idle, SeeksOn, Seeking, Grabbing, Searching
    <3> QED
      BY <1>1, <1>7, <3>1, <3>2, <3>3, GoSeeksNot
      DEF ImportStep, ChooseClaim, ImportError, ImportClaimDock, ImportReclaimDock,
          ClaimDestination, ImportClaim, ImportUndo, ImportRefused, ImportRecord, ImportPlace,
          ImportPlaceThrows, ImportPlaceCollides, ImportPlaceFails, ImportReclaim,
          ImportRerecord, Seeking, Grabbing, Searching
  <2>2. CASE ChooseClaim(t) \/ ImportRefused(t) \/ ImportRecord(t) \/ ImportRerecord(t)
    <3>1. Created(a)
      BY <1>2, <2>2
      DEF ChooseClaim, ImportRefused, ImportRecord, ImportRerecord, At, Carrying, Importing
    <3> QED
      BY <1>1, <2>1, <2>2, <3>1, WritesBringNone, LeavesBringNone
      DEF ChooseClaim, ImportRefused, ImportRecord, ImportRerecord, SetAttempt
  <2>3. CASE \/ ImportDone(t) \/ ImportError(t) \/ ImportClaimDock(t) \/ ImportClaim(t)
             \/ ImportUndo(t) \/ ImportPlace(t) \/ ImportPlaceThrows(t)
             \/ ImportPlaceCollides(t) \/ ImportReclaimDock(t) \/ ImportReclaim(t)
             \/ \E why \in {"choice", "truncated"} : ImportHold(t, why)
    BY <1>1, <2>1, <2>3, LeavesBringNone
    DEF ImportDone, ImportError, ImportHold, ImportClaimDock, ImportReclaimDock,
        ClaimDestination, ImportClaim, ImportUndo, ImportPlace, ImportPlaceThrows,
        ImportPlaceCollides, ImportPlaceFails, ImportReclaim, rows
  <2> QED
    BY <1>7, <2>2, <2>3 DEF ImportStep
<1>8. CASE VerificationStep(t)
  <2>1. SeeksOn(t)
    BY <1>1, <1>8, GoSeeksNot
    DEF VerificationStep, VerifyPasses, VerifyHolds, VerifyFindsNoRow, FileRead, FileMove,
        FileMoveFails, FileRequest, FileAttempt, DiscardRequest, DiscardAttempt, DiscardDock,
        DiscardDockFails, DiscardUndoAttempt, DiscardUndoRequest, NotFiled, Seeking, Grabbing,
        Searching
  <2>2. CASE FileAttempt(t) \/ DiscardAttempt(t) \/ DiscardUndoAttempt(t)
    <3>1. Created(a)
      BY <1>2, <2>2
      DEF FileAttempt, DiscardAttempt, DiscardUndoAttempt, At, Carrying, Filing, Moved,
          Discarding
    <3> QED
      BY <1>1, <2>1, <2>2, <3>1, WritesBringNone, LeavesBringNone
      DEF FileAttempt, DiscardAttempt, DiscardUndoAttempt, SetAttempt
  <2> QED
    BY <1>1, <1>8, <2>1, <2>2, LeavesBringNone
    DEF VerificationStep, VerifyPasses, VerifyHolds, VerifyFindsNoRow, FileRead, FileMove,
        FileMoveFails, FileRequest, DiscardRequest, DiscardDock, DiscardDockFails,
        DiscardUndoRequest, rows
<1>9. CASE RemovalStep(t) \/ SettleRefused(t)
  <2>1. SeeksOn(t)
    <3>1. ASSUME NEW b \in Attempts, task' = [task EXCEPT ![t].pc = "detach", ![t].attempt = b]
          PROVE  SeeksOn(t)
      BY <1>1, <3>1 DEF SeeksOn, TaskState, Seeking, Grabbing, Searching
    <3> QED
      BY <1>1, <1>9, <3>1, GoSeeksNot
      DEF RemovalStep, Latest, Detach, DetachRefused, FailInFlight, SettleStopped,
          SettleRemoved, Settle, SettleFulfilled, SettleRefused, FailInFlightForRequest,
          AfterRemoval, Seeking, Grabbing, Searching
  <2>2. CASE FailInFlight(t) \/ FailInFlightForRequest(t)
    <3>1. \A b \in Attempts :
            /\ attempt'[b].request = attempt[b].request
            /\ \/ attempt'[b].status = attempt[b].status
               \/ attempt[b].status \in InFlight
      BY <1>1, <2>2 DEF FailInFlight, FailInFlightForRequest, RowsOK, AttemptRow
    <3> QED
      BY <2>1, <3>1 DEF NoneComes, Created, InFlight, ActiveAttempt
  <2> QED
    BY <1>1, <1>9, <2>1, <2>2, LeavesBringNone
    DEF RemovalStep, Latest, Detach, DetachRefused, SettleStopped, SettleRemoved, Settle,
        SettleFulfilled, SettleRefused, rows
<1> QED
  BY <1>4, <1>5, <1>6, <1>7, <1>8, <1>9 DEF Step

\* What begins to seek is a grab or a pass,
LEMMA StartSeeks ==
  ASSUME TasksOK, NEW t \in Tasks, Start(t), task'[t].pc \in Seeking
  PROVE  \E r \in Requests :
           GrabRead(t, r) \/ \E trigger \in {"unattended", "retry"} : PassRead(t, r, trigger)
<1>1. task \in [Tasks -> TaskState]
  BY DEF TasksOK
<1>2. ASSUME NEW r \in Requests, AbandonRead(t, r) \/ Cancel(t, r) \/ MarkFulfilled(t, r)
      PROVE  FALSE
  <2>1. CASE MarkFulfilled(t, r)
    BY <1>1, <2>1, FulfilBegins DEF Seeking, Grabbing, Searching
  <2> QED
    BY <1>1, <1>2, <2>1
    DEF AbandonRead, Cancel, Begin, TaskState, Seeking, Grabbing, Searching
<1>3. ASSUME NEW a \in Attempts,
             \/ ResumeRead(t, a) \/ WatchdogRead(t, a) \/ StopDownload(t, a)
             \/ RemoveFromClient(t, a) \/ ImportBegin(t, a) \/ ChooseUnit(t, a)
      PROVE  FALSE
  BY <1>1, <1>3
  DEF ResumeRead, WatchdogRead, StopDownload, RemoveFromClient, ImportBegin, ChooseUnit, Begin,
      TaskState, Seeking, Grabbing, Searching
<1>4. ASSUME NEW a \in Attempts, PollRead(t, a) \/ AdoptRead(t, a)
      PROVE  FALSE
  <2>1. PICK pc \in {"fail_attempt", "poll_apply", "adopt"} :
          \E was, says :
            \/ task' = [task EXCEPT ![t].pc = pc, ![t].attempt = a, ![t].was = was,
                                    ![t].says = says]
            \/ task' = [task EXCEPT ![t].pc = pc, ![t].attempt = a, ![t].says = says]
    BY <1>4 DEF PollRead, AdoptRead
  <2> QED
    BY <1>1, <2>1 DEF TaskState, Seeking, Grabbing, Searching
<1>5. ASSUME NEW a \in Attempts,
             \/ \E f \in DockFiles : VerifyRead(t, f, a)
             \/ \E r \in Requests : FileHeld(t, r, a) \/ Discard(t, r, a)
      PROVE  FALSE
  <2>1. task'[t].pc \in {"verify", "file_read", "discard_request"}
    <3>1. ASSUME NEW f \in DockFiles, VerifyRead(t, f, a) PROVE task'[t].pc = "verify"
      BY <1>1, <3>1 DEF VerifyRead, TaskState
    <3>2. ASSUME NEW r \in Requests, FileHeld(t, r, a) PROVE task'[t].pc = "file_read"
      BY <1>1, <3>2 DEF FileHeld, TaskState
    <3>3. ASSUME NEW r \in Requests, Discard(t, r, a) PROVE task'[t].pc = "discard_request"
      BY <1>1, <3>3 DEF Discard, TaskState
    <3> QED
      BY <1>5, <3>1, <3>2, <3>3
  <2> QED
    BY <2>1 DEF Seeking, Grabbing, Searching
<1> QED
  BY <1>2, <1>3, <1>4, <1>5
  DEF Start, GrabStart, PassStart, MonitorStart, WatchdogStart, AdoptStart, ImportStart,
      ChoiceStart, VerificationStart, RefetchStart, ForceFileStart, DiscardStart

\* for a request that exists.
LEMMA StartKnows ==
  ASSUME TasksOK, NEW t \in Tasks, Start(t), task'[t].pc \in Seeking
  PROVE  task'[t].request \in Requests
<1>1. task \in [Tasks -> TaskState]
  BY DEF TasksOK
<1>2. ASSUME NEW r \in Requests,
             GrabRead(t, r) \/ \E trigger \in {"unattended", "retry"} : PassRead(t, r, trigger)
      PROVE  task'[t].request \in Requests
  BY <1>1, <1>2 DEF GrabRead, PassRead, TaskState
<1> QED
  BY <1>2, StartSeeks

\* So no attempt is ever made for nothing.
LEMMA NextKnows ==
  ASSUME Inv, FilesInv, KnownRequests, [Next]_vars
  PROVE  KnownRequests'
<1>1. ASSUME NEW t \in Tasks, ComesFor(t), \A u \in Tasks \ {t} : task'[u] = task[u],
             task'[t].pc \in Seeking => task'[t].request \in Requests
      PROVE  KnownRequests'
  BY <1>1 DEF KnownRequests, ComesFor
<1>2. \A t \in Tasks : NoneComes => ComesFor(t)
  BY DEF NoneComes, ComesFor
<1>3. ASSUME NEW t \in Tasks, Step(t) PROVE KnownRequests'
  <2>1. ComesFor(t) /\ SeeksOn(t)
    BY <1>2, <1>3, GrabComesFor, OthersKnow
  <2>2. \A u \in Tasks \ {t} : task'[u] = task[u]
    BY <1>3, StepMoves DEF Moves, Acquires
  <2> QED
    BY <1>1, <2>1, <2>2 DEF SeeksOn, KnownRequests
<1>4. ASSUME NEW t \in Tasks, Start(t) PROVE KnownRequests'
  <2>1. NoneComes
    BY <1>4, StartTakes, LeavesBringNone DEF Alone, Inv
  <2> QED
    BY <1>1, <1>2, <1>4, <2>1, StartTakes, StartKnows DEF Alone, Inv
<1>5. ASSUME Environment \/ UNCHANGED vars PROVE KnownRequests'
  <2>1. UNCHANGED attempt \/ \E f, state : DeleteDockRow(f, state)
    BY <1>5
    DEF Environment, ReleaseSearch, Approve, Reject, Decide, DiscardDockFile, ClientProgress,
        ClientFailure, ClientCompletes, ClientErrors, ClientForgets, Advance, Restart, Shutdown,
        vars, rows
  <2>2. NoneComes
    BY <2>1, LeavesBringNone DEF Inv
  <2> QED
    BY <1>5, <2>2, EnvironmentMovesNobody
    DEF KnownRequests, NoneComes, Idle, Seeking, Grabbing, Searching
<1> QED
  BY <1>3, <1>4, <1>5 DEF Next

\* At first there is none.
LEMMA InitKnows == Init => KnownRequests
  BY DEF Init, KnownRequests, Created, AbsentAttempt, Idle, Seeking, Grabbing, Searching

\* Where the process stays up and nobody chooses among books, an import leaves a row in the
\* dock that nobody knows of only if a unique index refused a write it cannot take back.
THEOREM DockFilesHaveOwners ==
  ASSUME Operations \cap {"choose", "restart"} = {}
  PROVE  Spec /\ []IndexesYield => []DockFilesAreOwned
<1>1. Inv /\ FilesInv /\ DockInv /\ IndexesYield /\ [Next]_vars => DockInv'
  BY NextOwnsRows
<1>2. FilesInv /\ DockInv => DockFilesAreOwned
  <2> SUFFICES ASSUME FilesInv, DockInv, Quiet, NEW f \in DockFiles, DockRow(f)
               PROVE  \E a \in Attempts : attempt[a].dock = f
    BY DEF DockFilesAreOwned
  <2>1. \A t \in Tasks : task[t].pc \notin Claiming
    BY DEF Quiet, Idle, Claiming, InHand
  <2>2. dock[f].attempt \in Attempts
    BY DEF DockRow, FilesInv, Linked, FilesComeFromAttempts, Made, Inserted
  <2> QED
    BY <2>1, <2>2 DEF DockInv, OwnedRows
<1> QED
  BY <1>1, <1>2, InitOwnsRows, InvHolds, FilesStayLinked, PTL DEF Spec

\* No index refuses anything where each request asks for a work of its own and one download
\* is ever made: then every row has its owner, however many rows and activations there are.
THEOREM LoneDownloadsHaveOwners ==
  ASSUME Operations \cap {"choose", "restart"} = {},
         MaxAttempts = 1,
         \A q, r \in Requests : Work[q] = Work[r] => q = r
  PROVE  Spec => []DockFilesAreOwned
<1>1. FilesInv /\ KnownRequests => IndexesYield
  <2> SUFFICES ASSUME FilesInv, KnownRequests, NEW t \in Tasks, task[t].pc \in Importing
               PROVE  /\ KeyFree(attempt[task[t].attempt].request)
                      /\ HashFree(attempt[task[t].attempt].release, task[t].attempt)
    BY DEF IndexesYield, At, Importing
  <2>1. Inserted(task[t].attempt)
    BY DEF FilesInv, Brings, Carrying
  <2>2. Attempts = {task[t].attempt}
    BY <2>1 DEF Inserted, Attempts
  <2>3. \A r \in Requests : KeyFree(r)
    BY DEF KeyFree
  <2> QED
    BY <2>1, <2>2, <2>3 DEF HashFree, Inserted, KnownRequests
<1>2. Spec => []KnownRequests
  BY InitKnows, NextKnows, InvHolds, FilesStayLinked, PTL DEF Spec
<1> QED
  BY <1>1, <1>2, DockFilesHaveOwners, FilesStayLinked, PTL
===============================================================================
