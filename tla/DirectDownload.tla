----------------------------- MODULE DirectDownload -----------------------------
(***************************************************************************)
(* DirectDownloadService: files fetched over HTTP by the server itself,    *)
(* and what drives it: a grab, the poll, an import, a removal, and the     *)
(* watchdog's bootstrap.                                                   *)
(*                                                                         *)
(* The service keeps everything by the hash of the file's URL: one staging *)
(* directory, one progress entry, one controller, one task.  The attempts  *)
(* at one URL share them, one after the other.  This module is one URL,    *)
(* and an attempt that is queued counts as downloading already.            *)
(*                                                                         *)
(* "Operations" says what an instance lets happen beyond a grab, a fetch    *)
(* and its import:                                                         *)
(*   stop            a person takes the attempt away                       *)
(*   restart         the process dies and is started again                 *)
(*   source_changes  the server has a new representation                   *)
(*   import_fails    the file is not a book of the request                 *)
(*   disk_fails      a directory cannot be removed                         *)
(* and, each of them with consequences of its own:                         *)
(*   prompt_retry    the URL is grabbed again while the service remembers  *)
(*                   the attempt before                                    *)
(*   same_again      the URL is grabbed again when it has made a book      *)
(*   early_stop      an attempt is taken away while "add" is under way     *)
(*   remove_settled  ... when another attempt at the URL is the live one   *)
(*   early_poll      the poll runs before the bootstrap is through         *)
(*   late_crash      the process dies when a new download has recorded     *)
(*                   its validator and not yet emptied an older file       *)
(*                                                                         *)
(* A representation of the file is a number, its bytes are Size[v] blocks  *)
(* that say v, and a hole in a file is a block that says NoVersion.  A     *)
(* validator is the number of the representation it names.                 *)
(***************************************************************************)
EXTENDS Integers, FiniteSets, Sequences, BookRequestStatus

CONSTANTS
  MaxAttempts,   \* bound on the attempts at this URL
  MaxFiles,      \* bound on files on disk at once
  Transfers,     \* calls of "run" in progress at once
  NoTransfer,
  Size,          \* Size[v]: blocks in representation v; the source goes from 1 upwards
  Operations     \* what an instance lets happen

\* There is a file for every book and one more to be staged.
ASSUME BoundsAssumption == MaxAttempts \in Nat /\ MaxFiles \in Nat /\ MaxFiles > MaxAttempts
ASSUME SizeAssumption == Size \in Seq(Nat \ {0}) /\ Size # <<>>
ASSUME TransfersAssumption == NoTransfer \notin Transfers

Attempts == 1 .. MaxAttempts
Files == 1 .. MaxFiles
Versions == DOMAIN Size
NoVersion == 0
NoSize == 0
NoAttempt == 0
NoFile == 0

VARIABLES
  attempt,    \* attempt[a]: the row; "old" past the grace a missing transfer gets;
              \* "book" is the file its import linked
  source,     \* the representation the server has now
  disk,       \* disk[f]: the blocks of a file
  staged,     \* the staging directory and the file in it
  progress,   \* the entry of the hash, and the attempt it was started for
  controller, \* the transfer a removal would abort
  current,    \* tasks: the transfer a removal would wait for
  transfer,   \* transfer[x]: where a call of "run" is, and what it remembers
  adding,     \* the attempt a grab is calling "add" for
  poll,       \* the poll of direct transfers in flight
  importer,   \* the import in progress
  removal,    \* removal[k]: the removal in progress for a person, and after an import
  boot        \* how far the bootstrap has come, and the rows it has still to resume

memory == <<progress, controller, current>>
callers == <<adding, poll, importer, removal, boot>>
vars == <<attempt, source, disk, staged, memory, transfer, callers>>

AbsentAttempt ==
  [status |-> "absent", validator |-> NoVersion, total |-> NoSize, old |-> FALSE,
   book |-> NoFile]

NoStaging == [dir |-> FALSE, file |-> NoFile]
NoProgress == [state |-> "none", of |-> NoAttempt]

IdleTransfer ==
  [pc |-> "idle", attempt |-> NoAttempt, offset |-> 0, validator |-> NoVersion,
   expected |-> NoSize, version |-> NoVersion, total |-> NoSize, read |-> 0,
   file |-> NoFile, aborted |-> FALSE]

IdlePoll == [pc |-> "idle", attempt |-> NoAttempt, says |-> "none", of |-> NoAttempt]
IdleImporter == [pc |-> "idle", attempt |-> NoAttempt]
IdleRemoval == [pc |-> "idle", attempt |-> NoAttempt, task |-> NoTransfer]
Up == [pc |-> "up", rows |-> {}]

Init ==
  /\ attempt = [a \in Attempts |-> AbsentAttempt]
  /\ source = 1
  /\ disk = [f \in Files |-> <<>>]
  /\ staged = NoStaging
  /\ progress = NoProgress
  /\ controller = NoTransfer
  /\ current = NoTransfer
  /\ transfer = [x \in Transfers |-> IdleTransfer]
  /\ adding = NoAttempt
  /\ poll = IdlePoll
  /\ importer = IdleImporter
  /\ removal = [k \in {"stop", "cleanup"} |-> IdleRemoval]
  /\ boot = Up

Is(a, s) == attempt[a].status = s
SetStatus(a, s) == attempt' = [attempt EXCEPT ![a].status = s]

\* failDownload, as far as the attempt's row goes.
FailDownload(a) ==
  attempt' = IF attempt[a].status \in Unsettled
               THEN [attempt EXCEPT ![a].status = "failed", ![a].validator = NoVersion]
               ELSE attempt

-------------------------------------------------------------------------------
(***************************************************************************)
(* Files.  A file is one inode: an import links the staged file into the   *)
(* dock, so the book and the staged file are the same one until the        *)
(* staging directory goes.  A file that is neither staged nor a book is    *)
(* out of reach, and what is still written to it is not followed.          *)
(***************************************************************************)
Books == {attempt[a].book : a \in Attempts} \ {NoFile}

\* "now" is what else the step makes of the transfers.
RemoveStaging(now) ==
  LET lost == {staged.file} \ Books IN
  /\ staged' = NoStaging
  /\ disk' = [f \in Files |-> IF f \in lost THEN <<>> ELSE disk[f]]
  /\ transfer' = [x \in Transfers |->
                    IF now[x].file \in lost
                      THEN [now[x] EXCEPT !.file = NoFile]
                      ELSE now[x]]

UnusedFiles == Files \ (Books \cup {staged.file})
StagedFile == IF staged.file # NoFile
                THEN staged.file
                ELSE CHOOSE f \in UnusedFiles : TRUE

StagedBytes == IF staged.file = NoFile THEN 0 ELSE Len(disk[staged.file])

\* Writing one block at a position: over what is there, or past its end.
Overwrite(blocks, n, v) ==
  [i \in 1 .. IF n > Len(blocks) THEN n ELSE Len(blocks) |->
     IF i = n THEN v ELSE IF i <= Len(blocks) THEN blocks[i] ELSE NoVersion]

-------------------------------------------------------------------------------
(***************************************************************************)
(* start: the entries of the hash are taken over, whoever had them.        *)
(***************************************************************************)
\* Mutant: the task is filed under the wrong key.
StartMisfiled(a, offset, validator, expected) ==
  \E x \in Transfers :
    /\ transfer[x] = IdleTransfer
    /\ transfer' = [transfer EXCEPT ![x].pc = "open", ![x].attempt = a, ![x].offset = offset,
                                    ![x].validator = validator, ![x].expected = expected]
    /\ progress' = [state |-> "downloading", of |-> a]
    /\ controller' = x
    /\ current' = a
    /\ staged' = [staged EXCEPT !.dir = TRUE]

Start(a, offset, validator, expected) ==
  \E x \in Transfers \ {removal[k].task : k \in DOMAIN removal} :
    /\ transfer[x] = IdleTransfer
    /\ transfer' = [transfer EXCEPT ![x].pc = "open", ![x].attempt = a, ![x].offset = offset,
                                    ![x].validator = validator, ![x].expected = expected]
    /\ progress' = [state |-> "downloading", of |-> a]
    /\ controller' = x
    /\ current' = x
    /\ staged' = [staged EXCEPT !.dir = TRUE]

(***************************************************************************)
(* The end of a transfer.  An error marks the entry failed unless it was   *)
(* an abort; the entries of the hash go whosever they are by now; and the  *)
(* directory is discarded unless the entry says completed.                 *)
(***************************************************************************)
Over(x) ==
  /\ controller' = NoTransfer
  /\ current' = NoTransfer
  /\ transfer' = IF progress'.state = "completed"
                   THEN [transfer EXCEPT ![x] = IdleTransfer]
                   ELSE [transfer EXCEPT ![x] = [IdleTransfer EXCEPT !.pc = "discard"]]

Throws(x) ==
  /\ progress' = IF transfer[x].aborted
                   THEN progress
                   ELSE [state |-> "failed", of |-> transfer[x].attempt]
  /\ Over(x)

Completes(x) ==
  /\ progress' = [state |-> "completed", of |-> transfer[x].attempt]
  /\ Over(x)

(***************************************************************************)
(* run.  A response to a new download starts a representation, declared    *)
(* with its length or not and with a validator or not.  A response to a    *)
(* range goes on with the representation the validator names, if that is   *)
(* the one the server still has.                                           *)
(***************************************************************************)
RespondsWhole(x) ==
  LET f == transfer[x] IN
  /\ f.offset = 0
  /\ \E total \in {NoSize, Size[source]}, validator \in {NoVersion, source} :
       transfer' = [transfer EXCEPT ![x].pc = "record", ![x].version = source,
                                    ![x].total = total, ![x].validator = validator]
  /\ UNCHANGED memory

\* Mutant: the range is asked for without If-Range.
RespondsAnyPartial(x) ==
  LET f == transfer[x] IN
  /\ f.offset \in 1 .. Size[source] - 1
  /\ transfer' = [transfer EXCEPT ![x].pc = "record", ![x].version = source,
                                  ![x].total = Size[source]]
  /\ UNCHANGED memory

RespondsPartial(x) ==
  LET f == transfer[x] IN
  /\ f.offset \in 1 .. Size[source] - 1
  /\ f.validator = source
  /\ f.expected \in {NoSize, Size[source]}
  /\ transfer' = [transfer EXCEPT ![x].pc = "record", ![x].version = source,
                                  ![x].total = Size[source]]
  /\ UNCHANGED memory

\* 416 with the exact size: there was nothing left to fetch.
RespondsComplete(x) ==
  LET f == transfer[x] IN
  /\ f.offset = Size[source]
  /\ f.validator = source
  /\ f.expected \in {NoSize, Size[source]}
  /\ Completes(x)

Respond(x) ==
  /\ transfer[x].pc = "open"
  /\ ~transfer[x].aborted
  /\ RespondsWhole(x) \/ RespondsPartial(x) \/ RespondsComplete(x)
  /\ UNCHANGED <<attempt, source, disk, staged, callers>>

\* What a resume will need is saved before the first byte of it is written.  "total" is
\* what this answer declared: the figures the poll writes over it are not followed.
Record(x) ==
  LET f == transfer[x] IN
  /\ f.pc = "record"
  /\ attempt' = [attempt EXCEPT ![f.attempt].validator = f.validator,
                                ![f.attempt].total = f.total]
  /\ transfer' = [transfer EXCEPT ![x].pc = "create"]
  /\ UNCHANGED <<source, disk, staged, memory, callers>>

\* createWriteStream: appending to a partial file, or emptying what is there.  The
\* directory may be gone.
Create(x) ==
  LET f == transfer[x] IN
  /\ f.pc = "create"
  /\ \/ /\ staged.dir
        /\ ~f.aborted
        /\ staged' = [staged EXCEPT !.file = StagedFile]
        /\ disk' = IF f.offset = 0 THEN [disk EXCEPT ![StagedFile] = <<>>] ELSE disk
        /\ transfer' = [transfer EXCEPT ![x].pc = "write", ![x].file = StagedFile]
        /\ UNCHANGED memory
     \/ /\ ~staged.dir
        /\ Throws(x)
        /\ UNCHANGED <<disk, staged>>
  /\ UNCHANGED <<attempt, source, callers>>

Write(x) ==
  LET f == transfer[x]
      n == f.read + 1
  IN
  /\ f.pc = "write"
  /\ ~f.aborted
  /\ f.offset + n <= Size[f.version]
  /\ transfer' = [transfer EXCEPT ![x].read = n]
  /\ IF f.file = NoFile
       THEN UNCHANGED disk
       ELSE disk' = [disk EXCEPT ![f.file] =
                       IF f.offset = 0 THEN Overwrite(@, n, f.version)
                                       ELSE Append(@, f.version)]
  /\ UNCHANGED <<attempt, source, staged, memory, callers>>

\* Mutant: the length is not compared with the one declared.
FinishUnmeasured(x) ==
  /\ transfer[x].pc = "write"
  /\ ~transfer[x].aborted
  /\ transfer[x].read > 0
  /\ Completes(x)
  /\ UNCHANGED <<attempt, source, disk, staged, callers>>

\* The body ends: a body whose length was not declared may end anywhere after its first
\* block, and a connection that closes early is taken for its end.
Finish(x) ==
  LET f == transfer[x] IN
  /\ f.pc = "write"
  /\ ~f.aborted
  /\ f.read > 0
  /\ f.total # NoSize => f.offset + f.read = f.total
  /\ Completes(x)
  /\ UNCHANGED <<attempt, source, disk, staged, callers>>

\* Mutant: nothing measures whether bytes still arrive.
BreakBeforeBody(x) ==
  /\ transfer[x].pc \in {"open", "create"}
  /\ Throws(x)
  /\ UNCHANGED <<attempt, source, disk, staged, callers>>

\* The connection fails, goes silent or runs past the ceiling, the answer is not the
\* one asked for, the body is short, or the transfer was aborted.
Break(x) ==
  /\ transfer[x].pc \in {"open", "create", "write"}
  /\ Throws(x)
  /\ UNCHANGED <<attempt, source, disk, staged, callers>>

\* Best effort: a directory that cannot be removed stays.
Discard(x) ==
  LET over == [transfer EXCEPT ![x] = IdleTransfer] IN
  /\ transfer[x].pc = "discard"
  /\ \/ RemoveStaging(over)
     \/ /\ "disk_fails" \in Operations
        /\ transfer' = over
        /\ UNCHANGED <<disk, staged>>
  /\ UNCHANGED <<attempt, source, memory, callers>>

\* Ten minutes after its end an entry goes; the poll had read it long before.
Prune ==
  /\ progress.state \in {"completed", "failed"}
  /\ ~Is(progress.of, "downloading")
  /\ progress' = NoProgress
  /\ UNCHANGED <<attempt, source, disk, staged, controller, current, transfer, callers>>

-------------------------------------------------------------------------------
(***************************************************************************)
(* The grab of RequestFulfillmentService: the row, and then "add", which   *)
(* resolves the host and makes the directory before it calls start.        *)
(* Attempts at one hash are unsettled one at a time.                       *)
(***************************************************************************)
\* Nothing is left in memory of an attempt before.
Forgotten ==
  /\ progress = NoProgress
  /\ importer = IdleImporter
  /\ \A x \in Transfers : transfer[x] = IdleTransfer
  /\ \A k \in DOMAIN removal : removal[k] = IdleRemoval

Grab(a) ==
  /\ boot.pc = "up"
  /\ adding = NoAttempt
  /\ Is(a, "absent")
  /\ \A b \in Attempts : b < a => ~Is(b, "absent")
  /\ \A b \in Attempts : attempt[b].status \notin Unsettled
  /\ "prompt_retry" \notin Operations => Forgotten
  /\ "same_again" \notin Operations => Books = {}
  /\ SetStatus(a, "downloading")
  /\ adding' = a
  /\ UNCHANGED <<source, disk, staged, memory, transfer, poll, importer, removal, boot>>

Add ==
  /\ adding # NoAttempt
  /\ adding' = NoAttempt
  /\ \/ /\ Start(adding, 0, NoVersion, NoSize)
        /\ UNCHANGED <<attempt, disk>>
     \/ /\ SetStatus(adding, "failed")
        /\ UNCHANGED <<disk, staged, memory, transfer>>
  /\ UNCHANGED <<source, poll, importer, removal, boot>>

(***************************************************************************)
(* The poll, and handleMissing: an answer, written later.                  *)
(***************************************************************************)
\* Two minutes go by, which outlast an add and a poll.
Ages(a) ==
  /\ Is(a, "downloading")
  /\ adding # a
  /\ poll.attempt # a
  /\ attempt' = [attempt EXCEPT ![a].old = TRUE]
  /\ UNCHANGED <<source, disk, staged, memory, transfer, callers>>

PollRead(a) ==
  /\ "early_poll" \notin Operations => boot.pc = "up"
  /\ poll = IdlePoll
  /\ Is(a, "downloading")
  /\ poll' = [pc |-> "apply", attempt |-> a, says |-> progress.state, of |-> progress.of]
  /\ UNCHANGED <<attempt, source, disk, staged, memory, transfer, adding, importer, removal,
                 boot>>

PollApply ==
  LET a == poll.attempt IN
  /\ poll.pc = "apply"
  /\ poll' = IdlePoll
  /\ \/ /\ poll.says = "failed" \/ (poll.says = "none" /\ attempt[a].old)
        /\ FailDownload(a)
     \/ /\ poll.says = "completed"
        /\ attempt' = IF Is(a, "downloading")
                        THEN [attempt EXCEPT ![a].status = "completed",
                                             ![a].validator = NoVersion]
                        ELSE attempt
     \/ /\ poll.says = "downloading" \/ (poll.says = "none" /\ ~attempt[a].old)
        /\ UNCHANGED attempt
  /\ UNCHANGED <<source, disk, staged, memory, transfer, adding, importer, removal, boot>>

(***************************************************************************)
(* remove: abort, wait for the task to end, forget the entry, delete.      *)
(* A removal that a person asks for fails the attempt afterwards; an       *)
(* import that has its file only wants the directory gone.                 *)
(***************************************************************************)
\* Mutant: the entry goes and the transfer stays.
RemovesEntry(k, a) ==
  /\ removal' = [removal EXCEPT ![k] = [pc |-> "await", attempt |-> a, task |-> NoTransfer]]
  /\ UNCHANGED transfer

Removes(k, a) ==
  /\ removal' = [removal EXCEPT ![k] = [pc |-> "await", attempt |-> a, task |-> current]]
  /\ transfer' = [x \in Transfers |-> IF x = controller
                                        THEN [transfer[x] EXCEPT !.aborted = TRUE]
                                        ELSE transfer[x]]

Stop(a) ==
  /\ boot.pc = "up"
  /\ removal["stop"] = IdleRemoval
  /\ ~Is(a, "absent")
  /\ "remove_settled" \notin Operations => attempt[a].status \in Unsettled
  /\ "early_stop" \notin Operations => adding # a
  /\ Removes("stop", a)
  /\ UNCHANGED <<attempt, source, disk, staged, memory, adding, poll, importer, boot>>

RemovalForgets(k) ==
  /\ removal[k].pc = "await"
  /\ removal[k].task \in {NoTransfer} \cup {x \in Transfers : transfer[x] = IdleTransfer}
  /\ progress' = NoProgress
  /\ removal' = [removal EXCEPT ![k].pc = "delete", ![k].task = NoTransfer]
  /\ UNCHANGED <<attempt, source, disk, staged, controller, current, transfer, adding, poll,
                 importer, boot>>

\* Stopping a request fails the attempt even so when the directory cannot be removed;
\* removing one attempt does not.
RemovalDeletes(k) ==
  LET over == IF k = "stop" THEN [removal[k] EXCEPT !.pc = "fail"] ELSE IdleRemoval IN
  /\ removal[k].pc = "delete"
  /\ \/ /\ RemoveStaging(transfer)
        /\ removal' = [removal EXCEPT ![k] = over]
     \/ /\ "disk_fails" \in Operations
        /\ removal' \in {[removal EXCEPT ![k] = over], [removal EXCEPT ![k] = IdleRemoval]}
        /\ UNCHANGED <<disk, staged, transfer>>
  /\ UNCHANGED <<attempt, source, memory, adding, poll, importer, boot>>

RemovalFails(k) ==
  LET a == removal[k].attempt IN
  /\ removal[k].pc = "fail"
  /\ removal' = [removal EXCEPT ![k] = IdleRemoval]
  /\ IF attempt[a].status \in InFlight THEN SetStatus(a, "failed") ELSE UNCHANGED attempt
  /\ UNCHANGED <<source, disk, staged, memory, transfer, adding, poll, importer, boot>>

(***************************************************************************)
(* The import of a completed download, as far as its bytes go.             *)
(***************************************************************************)
ImportClaim(a) ==
  /\ importer = IdleImporter
  /\ boot.pc = "up"
  /\ Is(a, "completed")
  /\ importer' = [pc |-> "place", attempt |-> a]
  /\ SetStatus(a, "importing")
  /\ UNCHANGED <<source, disk, staged, memory, transfer, adding, poll, removal, boot>>

\* placeFile links; a file that is not there, or not a book, fails the attempt.
ImportPlace ==
  LET a == importer.attempt IN
  /\ importer.pc = "place"
  /\ \/ /\ staged.file # NoFile
        /\ attempt' = [attempt EXCEPT ![a].book = staged.file]
        /\ importer' = [importer EXCEPT !.pc = "cleanup"]
     \/ /\ staged.file = NoFile \/ "import_fails" \in Operations
        /\ FailDownload(a)
        /\ importer' = IdleImporter
  /\ UNCHANGED <<source, disk, staged, memory, transfer, adding, poll, removal, boot>>

ImportCleanup ==
  /\ importer.pc = "cleanup"
  /\ importer' = IdleImporter
  /\ Removes("cleanup", importer.attempt)
  /\ UNCHANGED <<attempt, source, disk, staged, memory, adding, poll, boot>>

\* The verification files the book.
Verified(a) ==
  /\ Is(a, "importing")
  /\ attempt[a].book # NoFile
  /\ SetStatus(a, "imported")
  /\ UNCHANGED <<source, disk, staged, memory, transfer, callers>>

(***************************************************************************)
(* Restart, and the watchdog's bootstrap: what was active is resumed or    *)
(* failed, then staging with no attempt behind it is reaped.               *)
(***************************************************************************)
\* A new download has recorded its validator, and an older file is still in its place.
OverLeftover ==
  \E a \in Attempts :
    /\ Is(a, "downloading")
    /\ attempt[a].validator # NoVersion
    /\ \E i \in 1 .. StagedBytes : disk[staged.file][i] # attempt[a].validator

Restart ==
  /\ "late_crash" \notin Operations => ~OverLeftover
  /\ boot' = [pc |-> "read", rows |-> {}]
  /\ progress' = NoProgress
  /\ controller' = NoTransfer
  /\ current' = NoTransfer
  /\ transfer' = [x \in Transfers |-> IdleTransfer]
  /\ adding' = NoAttempt
  /\ poll' = IdlePoll
  /\ importer' = IdleImporter
  /\ removal' = [k \in DOMAIN removal |-> IdleRemoval]
  /\ UNCHANGED <<attempt, source, disk, staged>>

BootRead ==
  /\ boot.pc = "read"
  /\ boot' = [pc |-> "resume", rows |-> {a \in Attempts : Is(a, "downloading")}]
  /\ UNCHANGED <<attempt, source, disk, staged, memory, transfer, adding, poll, importer,
                 removal>>

\* The total the row has by then may be one of the poll's: that of the last answer, or none.
BootResume(a) ==
  LET row == attempt[a]
      resumable == progress = NoProgress /\ (StagedBytes > 0 => row.validator # NoVersion)
  IN
  /\ boot.pc = "resume"
  /\ a \in boot.rows
  /\ boot' = [boot EXCEPT !.rows = @ \ {a}]
  /\ \/ /\ resumable
        /\ \E expected \in {NoSize, row.total} : Start(a, StagedBytes, row.validator, expected)
        /\ UNCHANGED <<attempt, disk>>
     \/ /\ FailDownload(a)
        /\ UNCHANGED <<disk, staged, memory, transfer>>
  /\ UNCHANGED <<source, adding, poll, importer, removal>>

\* Mutant: only the staging of transfers is kept.
BootReapFinished ==
  /\ boot.pc = "resume"
  /\ boot.rows = {}
  /\ boot' = Up
  /\ IF progress = NoProgress /\ \A a \in Attempts : ~Is(a, "downloading")
       THEN RemoveStaging(transfer)
       ELSE UNCHANGED <<disk, staged, transfer>>
  /\ UNCHANGED <<attempt, source, memory, adding, poll, importer, removal>>

BootReap ==
  /\ boot.pc = "resume"
  /\ boot.rows = {}
  /\ boot' = Up
  /\ \/ /\ progress = NoProgress
        /\ \A a \in Attempts : attempt[a].status \notin Unsettled
        /\ RemoveStaging(transfer)
     \/ /\ \/ progress # NoProgress
           \/ \E a \in Attempts : attempt[a].status \in Unsettled
           \/ "disk_fails" \in Operations
        /\ UNCHANGED <<disk, staged, transfer>>
  /\ UNCHANGED <<attempt, source, memory, adding, poll, importer, removal>>

SourceChanges ==
  /\ source + 1 \in Versions
  /\ source' = source + 1
  /\ UNCHANGED <<attempt, disk, staged, memory, transfer, callers>>

-------------------------------------------------------------------------------
Step(x) == Respond(x) \/ Record(x) \/ Create(x) \/ Write(x) \/ Finish(x) \/ Break(x) \/ Discard(x)
RemovalStep(k) == RemovalForgets(k) \/ RemovalDeletes(k) \/ RemovalFails(k)
ImportStep == (\E a \in Attempts : ImportClaim(a)) \/ ImportPlace \/ ImportCleanup
BootStep == BootRead \/ BootReap \/ \E a \in Attempts : BootResume(a)

Next ==
  \/ \E x \in Transfers : Step(x)
  \/ Prune
  \/ \E a \in Attempts :
       Grab(a) \/ Ages(a) \/ PollRead(a) \/ Verified(a)
  \/ Add \/ PollApply
  \/ "stop" \in Operations /\ \E a \in Attempts : Stop(a)
  \/ \E k \in DOMAIN removal : RemovalStep(k)
  \/ ImportStep
  \/ BootStep
  \/ "restart" \in Operations /\ Restart
  \/ "source_changes" \in Operations /\ SourceChanges

Spec == Init /\ [][Next]_vars

-------------------------------------------------------------------------------
TypeOK ==
  /\ \A a \in Attempts :
       /\ attempt[a].status \in {"absent", "downloading", "completed", "importing", "imported",
                                 "failed"}
       /\ attempt[a].validator \in Versions \cup {NoVersion}
       /\ attempt[a].book \in Files \cup {NoFile}
  /\ source \in Versions
  /\ disk \in [Files -> Seq(Versions \cup {NoVersion})]
  /\ staged \in [dir : BOOLEAN, file : Files \cup {NoFile}]
  /\ {controller, current} \subseteq Transfers \cup {NoTransfer}

Beginning(blocks) ==
  \E v \in Versions : \E n \in 1 .. Size[v] : blocks = [i \in 1 .. n |-> v]
Whole(blocks) == \E v \in Versions : blocks = [i \in 1 .. Size[v] |-> v]

\* A book an import took from the staging directory is one representation of the file from
\* its first byte on, not empty, and has all of it if the answer it came from declared its
\* length; and it stays so: a download resumed over a restart goes on with the bytes it has
\* only if the source still serves the same ones, and no later download writes to a file
\* that has become a book.  A body of undeclared length that ends early is taken for the
\* whole (direct-download.service.ts:452): nothing could tell.
BooksAreOfOnePiece ==
  \A a \in Attempts :
    attempt[a].book # NoFile =>
      /\ Beginning(disk[attempt[a].book])
      /\ attempt[a].total # NoSize => Whole(disk[attempt[a].book])

\* A transfer that goes on is the transfer of an attempt that is still waited for: what
\* settles an attempt ends its fetch, before or after a restart.
NoFetchForNobody ==
  \A x \in Transfers :
    transfer[x].pc \in {"open", "record", "create", "write"} /\ ~transfer[x].aborted =>
      attempt[transfer[x].attempt].status \in Unsettled

\* The file of a finished download that waits for its import is deleted by nothing but
\* the removal of that attempt.
FinishedFilesStay ==
  [][\A a \in Attempts :
       Is(a, "completed") /\ staged.file # NoFile /\ staged'.file = NoFile =>
         \E k \in DOMAIN removal : removal[k].attempt = a]_vars

\* What the process does by itself: the source never has to answer.
OwnStep(x) == Record(x) \/ Create(x) \/ Finish(x) \/ Break(x) \/ Discard(x)

Fairness ==
  /\ <>[][~Restart]_vars
  /\ WF_vars(BootStep)
  /\ WF_vars(Add)
  /\ \A x \in Transfers : WF_vars(OwnStep(x))
  /\ WF_vars(\E a \in Attempts : PollRead(a))
  /\ WF_vars(PollApply)
  /\ \A a \in Attempts : SF_vars(Ages(a))
  /\ \A k \in {"stop", "cleanup"} : WF_vars(RemovalStep(k))

FairSpec == Spec /\ Fairness

\* However the source behaves, and wherever the process dies, an attempt is not at
\* "downloading" for ever.
DownloadsEnd ==
  \A a \in Attempts : Is(a, "downloading") ~> ~Is(a, "downloading")
===============================================================================
