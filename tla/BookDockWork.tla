----------------------------- MODULE BookDockWork -----------------------------
(***************************************************************************)
(* The work of the Book Dock: how a file that lies in the dock comes to be *)
(* read, and filed if filing is automatic, over pauses and restarts.       *)
(* BookDockWorkQueue, the two services that own one each                   *)
(* (BookDockIngestService and BookDockFinalizeService), the watcher, and   *)
(* the pausing and resuming of BookDockService.                            *)
(*                                                                         *)
(* "Operations" says what an instance lets happen beyond files arriving:   *)
(*   pause            processing is paused and resumed                     *)
(*   restart          the process dies and is started again                *)
(*   import           a request imports a file                             *)
(*   upload           a person uploads one                                 *)
(*   retry            ... or has one read again                            *)
(*   discard          ... or throws one away                               *)
(*   rescan           ... or has the dock walked                           *)
(* and, each of them with consequences of its own:                         *)
(*   crossed_calls    a pause and a resume overlap                         *)
(*   prompt_resume    a resume comes while the recovery of the one before  *)
(*                    is under way                                         *)
(*   prompt_retry     a file is read again while its job is ending         *)
(*   crossed_ingest   two ways of arrival insert the row of one file       *)
(*   restart_units    the process dies over the unread row of a folder     *)
(***************************************************************************)
EXTENDS FiniteSets

CONSTANTS
  Files,        \* what may come to lie in the dock, each once
  Units,        \* those of them that are folders
  Managed,      \* those of them that a request imports, and files by itself
  NoFile,
  Callers,      \* calls that pause or resume, in progress at once
  Operations    \* what an instance lets happen

ASSUME FilesAssumption == Units \subseteq Files /\ Managed \subseteq Files /\ NoFile \notin Files

Queues == {"metadata", "finalize"}
Scans == {"walk", "recovery"}   \* a walk at boot, or one that is asked for

VARIABLES
  status,    \* status[f]: of its row; "absent", "found" without one, or "gone"
  arrival,   \* arrival[f]: how its row comes about, where that is under way
  unplaced,  \* the files of which an import has inserted the row, and not linked the file yet
  event,     \* event[f]: the watcher's timer for it
  asking,    \* asking[f]: a reading again under way, and the status it found
  paused,    \* the flag in memory
  saved,     \* ... and in the settings
  queue,     \* queue[q]
  call,      \* call[c]
  recovery,  \* the background work of a resume
  scan       \* scan[s]: a walk of the dock

flags == <<paused, saved>>
arrivals == <<arrival, unplaced, event, asking>>
controls == <<call, recovery>>
vars == <<status, arrivals, flags, queue, controls, scan>>

Unread == {"pending", "extracting", "fetching"}
Rows == Unread \cup {"ready", "error"}
OnDisk == {f \in Files \ unplaced : status[f] \notin {"absent", "gone"}}

EmptyQueue == [pending |-> {}, running |-> NoFile, pc |-> "idle", timer |-> FALSE,
               paused |-> FALSE]
NoAsking == [pc |-> "idle", was |-> "absent"]
Asked == [pc |-> "over", was |-> "absent"]
NoScan == [pc |-> "idle", left |-> {}, file |-> NoFile]

Init ==
  /\ status = [f \in Files |-> "absent"]
  /\ unplaced = {}
  /\ arrival = [f \in Files |-> "none"]
  /\ event = [f \in Files |-> "none"]
  /\ asking = [f \in Files |-> NoAsking]
  /\ paused = FALSE
  /\ saved = FALSE
  /\ queue = [q \in Queues |-> EmptyQueue]
  /\ call = [c \in Callers |-> "idle"]
  /\ recovery = "idle"
  /\ scan = [s \in Scans |-> NoScan]

-------------------------------------------------------------------------------
(***************************************************************************)
(* BookDockWorkQueue, one job at a time.  Each operator gives the queues   *)
(* that may come of one.  The metadata queue waits before a job, so that   *)
(* it starts one when a timer fires; the finalize queue starts it at once. *)
(* Which of those that wait is the next - the newest of the one, the       *)
(* oldest of the other - is a choice.                                      *)
(***************************************************************************)
\* A job asks for the flag first, which is in memory: started while processing is paused it
\* is dropped, and pauses its queue.  The recovery of the resume will offer its row again.
Started(rec) ==
  IF paused
    THEN {[rec EXCEPT !.pending = @ \ {f}, !.timer = FALSE, !.paused = TRUE] : f \in rec.pending}
    ELSE {[rec EXCEPT !.pending = @ \ {f}, !.timer = FALSE, !.running = f, !.pc = "row"] :
            f \in rec.pending}

Scheduled(q, rec) ==
  IF rec.paused \/ rec.pending = {} \/ rec.running # NoFile
    THEN {rec}
    ELSE IF q = "metadata" THEN {[rec EXCEPT !.timer = TRUE]} ELSE Started(rec)

\* Mutant: what runs may wait once more.
OfferedAgain(q, rec, files) ==
  LET taken == files \ rec.pending IN
  IF taken = {} THEN {rec} ELSE Scheduled(q, [rec EXCEPT !.pending = @ \cup taken])

\* What waits or runs already is refused.
Offered(q, rec, files) ==
  LET taken == files \ (rec.pending \cup {rec.running}) IN
  IF taken = {} THEN {rec} ELSE Scheduled(q, [rec EXCEPT !.pending = @ \cup taken])

Paused(rec) == [rec EXCEPT !.paused = TRUE, !.timer = FALSE]

\* Mutant: nothing is scheduled.
ResumedOnly(q, rec) == {[rec EXCEPT !.paused = FALSE]}

Resumed(q, rec) ==
  IF rec.paused THEN Scheduled(q, [rec EXCEPT !.paused = FALSE]) ELSE {rec}

Finished(q, rec) == Scheduled(q, [rec EXCEPT !.running = NoFile, !.pc = "idle"])

\* A queue follows the flag whenever something is offered to it.
Following(rec) == IF paused THEN Paused(rec) ELSE rec

Becomes(q, recs) == \E rec \in recs : queue' = [queue EXCEPT ![q] = rec]

\* extractMetadataAsync, and requeueExistingIfProcessable of rows that are unread.
OfferToRead(files) == Becomes("metadata", Offered("metadata", Following(queue["metadata"]), files))

-------------------------------------------------------------------------------
(***************************************************************************)
(* The job that reads a file: its own metadata, then what the providers    *)
(* have.  The announcement of a file that was read goes to the finalize    *)
(* queue (and to the verification of requests).                            *)
(***************************************************************************)
Reading(pc) == queue["metadata"].running # NoFile /\ queue["metadata"].pc = pc
Read == queue["metadata"].running
ReadGoesOn(pc) == queue' = [queue EXCEPT !["metadata"].pc = pc]
SetRow(f, s) == status' = IF status[f] \in Rows THEN [status EXCEPT ![f] = s] ELSE status

TimerFires ==
  /\ queue["metadata"].timer
  /\ Becomes("metadata", Started(queue["metadata"]))
  /\ UNCHANGED <<status, arrivals, flags, controls, scan>>

\* A row that was offered and is read by now is left alone.
ReadBegins ==
  /\ Reading("row")
  /\ IF status[Read] \in Unread
       THEN SetRow(Read, "extracting") /\ ReadGoesOn("extract")
       ELSE Becomes("metadata", Finished("metadata", queue["metadata"])) /\ UNCHANGED status
  /\ UNCHANGED <<arrivals, flags, controls, scan>>

\* There is nothing to read where the file is not linked yet.
ReadExtracts ==
  /\ Reading("extract")
  /\ ReadGoesOn("fetch")
  /\ \/ Read \notin unplaced /\ SetRow(Read, "ready")
     \/ SetRow(Read, "error")
  /\ UNCHANGED <<arrivals, flags, controls, scan>>

\* Fetching is a setting, and there may be nothing to search for.
ReadFetches ==
  /\ Reading("fetch")
  /\ \/ /\ status[Read] \in Rows \ {"error"}
        /\ SetRow(Read, "fetching")
        /\ ReadGoesOn("fetching")
     \/ ReadGoesOn("announce") /\ UNCHANGED status
  /\ UNCHANGED <<arrivals, flags, controls, scan>>

ReadFetched ==
  /\ Reading("fetching")
  /\ SetRow(Read, "ready")
  /\ ReadGoesOn("announce")
  /\ UNCHANGED <<arrivals, flags, controls, scan>>

ReadEnds ==
  /\ Reading("announce")
  /\ \E read \in Finished("metadata", queue["metadata"]),
        filing \in Offered("finalize", Following(queue["finalize"]), {Read}) :
       queue' = [queue EXCEPT !["metadata"] = read, !["finalize"] = filing]
  /\ UNCHANGED <<status, arrivals, flags, controls, scan>>

-------------------------------------------------------------------------------
(***************************************************************************)
(* The job that files a book by itself, where that is set up.              *)
(***************************************************************************)
Filed == queue["finalize"].running

\* Whether it is set up, and what the row must look like, are settings.  They may ask for
\* a score alone, which a row that is being read again still has.
FileEnds ==
  /\ Filed # NoFile
  /\ \/ Filed \notin Managed /\ SetRow(Filed, "gone")
     \/ UNCHANGED status
  /\ Becomes("finalize", Finished("finalize", queue["finalize"]))
  /\ UNCHANGED <<arrivals, flags, controls, scan>>

-------------------------------------------------------------------------------
(***************************************************************************)
(* Arrivals.  The row of a file says it is there; the first to insert it   *)
(* offers it, and whoever comes to insert a second one fails.  Of a file   *)
(* whose row is there an arrival offers the row if it is unread; of a      *)
(* folder it does nothing.                                                 *)
(***************************************************************************)
Insert(f) == status' = [status EXCEPT ![f] = "pending"] /\ OfferToRead({f})

Known(f) ==
  /\ status[f] \in Rows
  /\ IF f \notin Units /\ status[f] \in Unread THEN OfferToRead({f}) ELSE UNCHANGED queue

\* Nobody else is about to insert the row.
InsertsAlone(f) ==
  \/ "crossed_ingest" \in Operations
  \/ /\ arrival[f] = "none"
     /\ event[f] # "create"
     /\ \A s \in Scans : scan[s].file # f

\* A file or a folder is put there, by hand or, for a file, by an upload.
Drops(f) ==
  /\ f \notin Managed
  /\ status[f] = "absent"
  /\ status' = [status EXCEPT ![f] = "found"]
  /\ event' = [event EXCEPT ![f] = "due"]
  /\ arrival' \in {arrival} \cup IF "upload" \in Operations /\ f \notin Units
                                  THEN {[arrival EXCEPT ![f] = "upload"]}
                                  ELSE {}
  /\ UNCHANGED <<unplaced, asking, flags, queue, controls, scan>>

\* The upload inserts its row; if it cannot, it takes its file back.
UploadEnds(f) ==
  /\ arrival[f] = "upload"
  /\ arrival' = [arrival EXCEPT ![f] = "none"]
  /\ \/ status[f] = "found" /\ Insert(f)
     \/ /\ status[f] # "found"
        /\ status' = [status EXCEPT ![f] = "gone"]
        /\ UNCHANGED queue
  /\ UNCHANGED <<unplaced, event, asking, flags, controls, scan>>

\* The import of a request inserts the row of a file, which keeps the name, before it claims
\* the request and records the row on the attempt.
ImportReserves(f) ==
  /\ f \in Managed
  /\ status[f] = "absent"
  /\ status' = [status EXCEPT ![f] = "pending"]
  /\ unplaced' = unplaced \cup {f}
  /\ arrival' = [arrival EXCEPT ![f] = "reserve"]
  /\ UNCHANGED <<event, asking, flags, queue, controls, scan>>

\* If the request has been decided or the file cannot be linked the row goes back; a claim
\* that throws, or a removal that fails, leaves it.
ImportGivesUp(f) ==
  /\ arrival[f] = "reserve"
  /\ arrival' = [arrival EXCEPT ![f] = "none"]
  /\ status' \in {status, [status EXCEPT ![f] = "gone"]}
  /\ UNCHANGED <<unplaced, event, asking, flags, queue, controls, scan>>

\* Then it links the file.  Where its row has been discarded meanwhile, that is a file like
\* any other, and has a name of its own here as its row will have a new number.
ImportPlaces(f) ==
  /\ arrival[f] = "reserve"
  /\ unplaced' = unplaced \ {f}
  /\ \/ /\ status[f] # "gone"
        /\ arrival' = [arrival EXCEPT ![f] = "import"]
        /\ event' = [event EXCEPT ![f] = "due"]
        /\ UNCHANGED status
     \/ \E g \in Files \ Managed :
          /\ status[f] = "gone" /\ status[g] = "absent"
          /\ f \in Units <=> g \in Units
          /\ status' = [status EXCEPT ![g] = "found"]
          /\ arrival' = [arrival EXCEPT ![f] = "none", ![g] = "import"]
          /\ event' = [event EXCEPT ![g] = "due"]
  /\ UNCHANGED <<asking, flags, queue, controls, scan>>

\* and offers what it has linked, as the watcher does.
ImportOffers(f) ==
  /\ arrival[f] = "import"
  /\ arrival' = [arrival EXCEPT ![f] = "none"]
  /\ \/ status[f] = "found" /\ Insert(f)
     \/ status[f] \in Unread /\ OfferToRead({f}) /\ UNCHANGED status
     \/ status[f] \notin Unread \cup {"found"} /\ UNCHANGED <<status, queue>>
  /\ UNCHANGED <<unplaced, event, asking, flags, controls, scan>>

\* The watcher: what happens while processing is paused is left to a walk.
WatchMeets(f) ==
  /\ event[f] = "due"
  /\ \/ /\ paused \/ f \notin OnDisk
        /\ event' = [event EXCEPT ![f] = "none"]
        /\ UNCHANGED queue
     \/ ~paused /\ Known(f) /\ event' = [event EXCEPT ![f] = "none"]
     \/ /\ ~paused
        /\ status[f] = "found"
        /\ InsertsAlone(f)
        /\ event' = [event EXCEPT ![f] = "create"]
        /\ UNCHANGED queue
  /\ UNCHANGED <<status, unplaced, arrival, asking, flags, controls, scan>>

WatchInserts(f) ==
  /\ event[f] = "create"
  /\ event' = [event EXCEPT ![f] = "none"]
  /\ IF status[f] = "found" THEN Insert(f) ELSE UNCHANGED <<status, queue>>
  /\ UNCHANGED <<unplaced, arrival, asking, flags, controls, scan>>

-------------------------------------------------------------------------------
(***************************************************************************)
(* rescan and walkAndIngest, at boot and at the end of a recovery.  It     *)
(* stops where it finds processing paused, and where an insert fails.      *)
(***************************************************************************)
Walk(flag) == IF flag THEN NoScan ELSE [NoScan EXCEPT !.pc = "walk", !.left = OnDisk]

Rescans ==
  /\ scan["walk"] = NoScan
  /\ scan' = [scan EXCEPT !["walk"] = Walk(paused)]
  /\ UNCHANGED <<status, arrivals, flags, queue, controls>>

ScanMeets(s, f) ==
  LET on == [scan EXCEPT ![s].left = @ \ {f}] IN
  /\ scan[s].pc = "walk"
  /\ f \in scan[s].left
  /\ \/ paused /\ scan' = [scan EXCEPT ![s] = NoScan] /\ UNCHANGED queue
     \/ ~paused /\ f \notin OnDisk /\ scan' = on /\ UNCHANGED queue
     \/ ~paused /\ Known(f) /\ scan' = on
     \/ /\ ~paused
        /\ status[f] = "found"
        /\ InsertsAlone(f)
        /\ scan' = [on EXCEPT ![s].pc = "create", ![s].file = f]
        /\ UNCHANGED queue
  /\ UNCHANGED <<status, arrivals, flags, controls>>

\* Mutant: the row is not offered.
ScanInsertsOnly(s) ==
  LET f == scan[s].file IN
  /\ scan[s].pc = "create"
  /\ scan' = [scan EXCEPT ![s].pc = "walk", ![s].file = NoFile]
  /\ status' = IF status[f] = "found" THEN [status EXCEPT ![f] = "pending"] ELSE status
  /\ UNCHANGED <<arrivals, flags, controls, queue>>

ScanInserts(s) ==
  LET f == scan[s].file IN
  /\ scan[s].pc = "create"
  /\ IF status[f] = "found"
       THEN Insert(f) /\ scan' = [scan EXCEPT ![s].pc = "walk", ![s].file = NoFile]
       ELSE UNCHANGED <<status, queue>> /\ scan' = [scan EXCEPT ![s] = NoScan]
  /\ UNCHANGED <<arrivals, flags, controls>>

ScanEnds(s) ==
  /\ scan[s].pc = "walk"
  /\ scan[s].left = {}
  /\ scan' = [scan EXCEPT ![s] = NoScan]
  /\ UNCHANGED <<status, arrivals, flags, queue, controls>>

-------------------------------------------------------------------------------
(***************************************************************************)
(* Pausing and resuming: the flag, the setting, the queues, and for a      *)
(* resume the work in the background, if none is under way.                *)
(***************************************************************************)
Recovering == recovery # "idle" \/ scan["recovery"] # NoScan
NoCall == \A c \in Callers : call[c] = "idle"

Begin(c, what, flag) ==
  /\ call[c] = "idle"
  /\ "crossed_calls" \in Operations \/ NoCall
  /\ call' = [call EXCEPT ![c] = what]
  /\ paused' = flag
  /\ UNCHANGED <<status, arrivals, saved, queue, recovery, scan>>

PauseBegins(c) == ~paused /\ Begin(c, "pause", TRUE)

ResumeBegins(c) ==
  /\ paused
  /\ "prompt_resume" \in Operations \/ ~Recovering
  /\ Begin(c, "resume", FALSE)

PauseEnds(c) ==
  /\ call[c] = "pause"
  /\ call' = [call EXCEPT ![c] = "idle"]
  /\ saved' = TRUE
  /\ queue' = [q \in Queues |-> Paused(queue[q])]
  /\ UNCHANGED <<status, arrivals, paused, recovery, scan>>

\* Mutant: the queues alone.
ResumeEndsAtQueues(c) ==
  /\ call[c] = "resume"
  /\ call' = [call EXCEPT ![c] = "idle"]
  /\ saved' = FALSE
  /\ \E read \in Resumed("metadata", queue["metadata"]),
        filing \in Resumed("finalize", queue["finalize"]) :
       queue' = [queue EXCEPT !["metadata"] = read, !["finalize"] = filing]
  /\ UNCHANGED <<status, arrivals, paused, recovery, scan>>

ResumeEnds(c) ==
  /\ call[c] = "resume"
  /\ call' = [call EXCEPT ![c] = "idle"]
  /\ saved' = FALSE
  /\ IF paused
       THEN UNCHANGED queue
       ELSE \E read \in Resumed("metadata", queue["metadata"]),
               filing \in Resumed("finalize", queue["finalize"]) :
              queue' = [queue EXCEPT !["metadata"] = read, !["finalize"] = filing]
  /\ recovery' = IF Recovering THEN recovery ELSE "read"
  /\ UNCHANGED <<status, arrivals, paused, scan>>

\* requeueProcessableFiles: every unread row is offered again.
RecoveryReads ==
  LET rows == {f \in Files : status[f] \in Unread} IN
  /\ recovery = "read"
  /\ recovery' = "file"
  /\ IF paused \/ rows = {} THEN UNCHANGED queue ELSE OfferToRead(rows)
  /\ UNCHANGED <<status, arrivals, flags, call, scan>>

\* requeueAutoFinalizeCandidates: those that the settings let through, and on to the walk.
RecoveryFiles ==
  /\ recovery = "file"
  /\ recovery' = "idle"
  /\ scan' = [scan EXCEPT !["recovery"] = Walk(paused)]
  /\ \E rows \in SUBSET {f \in Files \ Managed : status[f] = "ready" /\ ~paused} :
       Becomes("finalize", Offered("finalize", queue["finalize"], rows))
  /\ UNCHANGED <<status, arrivals, flags, call>>

-------------------------------------------------------------------------------
(***************************************************************************)
(* Reading a file again: retryFetch after an error, refetchMetadata for    *)
(* any, which puts the status back when its offer is refused.  One file is *)
(* asked for, once, as a bound.                                            *)
(***************************************************************************)
AsksAgain(f) ==
  /\ \A g \in Files : asking[g] = NoAsking
  /\ "prompt_retry" \in Operations \/ queue["metadata"].running # f
  /\ \/ status[f] = "error" /\ asking' = [asking EXCEPT ![f].pc = "retry"]
     \/ /\ status[f] \in {"ready", "error"}
        /\ asking' = [asking EXCEPT ![f] = [pc |-> "refetch", was |-> status[f]]]
  /\ SetRow(f, "pending")
  /\ UNCHANGED <<unplaced, arrival, event, flags, queue, controls, scan>>

AskingEnds(f) ==
  /\ asking[f].pc \in {"retry", "refetch"}
  /\ asking' = [asking EXCEPT ![f] = Asked]
  /\ OfferToRead({f})
  /\ IF /\ asking[f].pc = "refetch"
        /\ f \in queue["metadata"].pending \cup {queue["metadata"].running}
       THEN SetRow(f, asking[f].was)
       ELSE UNCHANGED status
  /\ UNCHANGED <<unplaced, arrival, event, flags, controls, scan>>

Discards(f) ==
  /\ status[f] \in Rows
  /\ status' = [status EXCEPT ![f] = "gone"]
  /\ UNCHANGED <<arrivals, flags, queue, controls, scan>>

Restart ==
  /\ "restart_units" \in Operations \/ \A f \in Units : status[f] \notin Unread
  /\ arrival' = [f \in Files |-> "none"]
  /\ event' = [f \in Files |-> "none"]
  /\ asking' = [f \in Files |-> IF asking[f] = NoAsking THEN NoAsking ELSE Asked]
  /\ paused' = saved
  /\ queue' = [q \in Queues |-> [EmptyQueue EXCEPT !.paused = saved]]
  /\ call' = [c \in Callers |-> "idle"]
  /\ recovery' = "idle"
  /\ scan' = [s \in Scans |-> IF s = "walk" THEN Walk(saved) ELSE NoScan]
  /\ UNCHANGED <<status, unplaced, saved>>

-------------------------------------------------------------------------------
ReadStep ==
  ReadBegins \/ ReadExtracts \/ ReadFetches \/ ReadFetched \/ ReadEnds
ArrivalStep(f) ==
  \/ UploadEnds(f) \/ ImportGivesUp(f) \/ ImportPlaces(f) \/ ImportOffers(f)
  \/ WatchMeets(f) \/ WatchInserts(f) \/ AskingEnds(f)
ScanStep(s) == ScanInserts(s) \/ ScanEnds(s) \/ \E f \in Files : ScanMeets(s, f)
CallStep(c) == PauseEnds(c) \/ ResumeEnds(c)
RecoveryStep == RecoveryReads \/ RecoveryFiles

Next ==
  \/ TimerFires \/ ReadStep \/ FileEnds \/ RecoveryStep
  \/ \E f \in Files : Drops(f) \/ ArrivalStep(f)
  \/ \E s \in Scans : ScanStep(s)
  \/ \E c \in Callers : CallStep(c)
  \/ "pause" \in Operations /\ \E c \in Callers : PauseBegins(c) \/ ResumeBegins(c)
  \/ "import" \in Operations /\ \E f \in Files : ImportReserves(f)
  \/ "retry" \in Operations /\ \E f \in Files : AsksAgain(f)
  \/ "rescan" \in Operations /\ Rescans
  \/ "discard" \in Operations /\ \E f \in Files : Discards(f)
  \/ "restart" \in Operations /\ Restart

Spec == Init /\ [][Next]_vars

-------------------------------------------------------------------------------
QueueOK(rec) ==
  /\ rec \in [pending : SUBSET Files, running : Files \cup {NoFile},
              pc : {"idle", "row", "extract", "fetch", "fetching", "announce"},
              timer : BOOLEAN, paused : BOOLEAN]
  /\ rec.running \notin rec.pending
  /\ rec.running = NoFile <=> rec.pc = "idle"
  /\ rec.timer => rec.running = NoFile /\ ~rec.paused

Walks ==
  {w \in [pc : {"idle", "walk", "create"}, left : SUBSET Files, file : Files \cup {NoFile}] :
     w.pc = "create" <=> w.file # NoFile}

TypeOK ==
  /\ status \in [Files -> Rows \cup {"absent", "found", "gone"}]
  /\ unplaced \subseteq Files
  /\ arrival \in [Files -> {"none", "upload", "reserve", "import"}]
  /\ event \in [Files -> {"none", "due", "create"}]
  /\ asking \in [Files -> [pc : {"idle", "retry", "refetch", "over"}, was : Rows \cup {"absent"}]]
  /\ paused \in BOOLEAN /\ saved \in BOOLEAN
  /\ DOMAIN queue = Queues /\ \A q \in Queues : QueueOK(queue[q])
  /\ call \in [Callers -> {"idle", "pause", "resume"}]
  /\ recovery \in {"idle", "read", "file"}
  /\ scan \in [Scans -> Walks]

IsRead(f) == status[f] \notin Unread \cup {"found"}
Wakes(rec) == rec.pending # {} => rec.paused \/ rec.running # NoFile \/ rec.timer

\* A queue that is not paused and not at work has nothing waiting, or a timer that will
\* start it; and once a pause or a resume has returned both queues stand as it left them,
\* whatever jobs, arrivals and restarts there have been.
QueuesFollow ==
  /\ \A q \in Queues : Wakes(queue[q])
  /\ NoCall => \A q \in Queues : queue[q].paused = paused

\* While processing is not paused and nothing recovers or walks, a file that lies in the dock
\* and is not read yet has somebody to offer it: its job waits or runs, or its arrival is not
\* over.  This is what dropping jobs and events during a pause relies on.  (The row an import
\* left that never linked its file has no file: no walk meets it, and it stays pending until a
\* resume offers it and the reading fails.)
NoFileIsForgotten ==
  ~paused /\ NoCall /\ recovery = "idle" /\ (\A s \in Scans : scan[s] = NoScan) =>
    \A f \in OnDisk :
      /\ status[f] \in Unread =>
           \/ f \in queue["metadata"].pending \cup {queue["metadata"].running}
           \/ arrival[f] # "none"
           \/ asking[f].pc \in {"retry", "refetch"}
      /\ status[f] = "found" => event[f] # "none" \/ arrival[f] # "none"

Fairness ==
  /\ <>[][~Restart]_vars
  /\ WF_vars(TimerFires \/ ReadStep)
  /\ WF_vars(RecoveryStep \/ ScanStep("recovery"))
  /\ WF_vars(ScanStep("walk"))
  /\ \A f \in Files : WF_vars(ArrivalStep(f))
  /\ \A c \in Callers : WF_vars(PauseEnds(c) \/ ResumeEnds(c))

FairSpec == Spec /\ Fairness

\* Whatever came to lie in the dock is read in the end, unless processing is paused again
\* and again.
EveryFileIsRead ==
  \A f \in Files : f \in OnDisk /\ ~IsRead(f) ~> f \notin OnDisk \/ IsRead(f) \/ paused
===============================================================================
