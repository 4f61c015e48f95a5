--------------------------- MODULE BookDockWorkProofs ---------------------------
(***************************************************************************)
(* The two work queues of the dock stand as the last pause or resume left  *)
(* them and never forget to start, for any number of files and callers;    *)
(* and a file whose metadata is not fetched is in the queue for it, or     *)
(* somebody is about to put it there, unless two recoveries cross.         *)
(***************************************************************************)
EXTENDS BookDockWork, TLAPS

\* What a queue may become, whatever is done to it: it keeps its books, it does not fall
\* asleep over what waits, and if it agreed with the flag it does so still.
Follows(rec, new) ==
  /\ QueueOK(new)
  /\ Wakes(rec) => Wakes(new)
  /\ rec.paused = paused => new.paused = paused

\* The queue takes up the next file it is asked for,
LEMMA StartedFollows ==
  ASSUME NEW rec, QueueOK(rec), rec.running = NoFile, ~rec.paused, paused \in BOOLEAN,
         NEW new \in Started(rec)
  PROVE  Follows(rec, new) /\ Wakes(new)
<1>1. PICK f \in rec.pending : new \in Started(rec) /\
        new = IF paused
                THEN [rec EXCEPT !.pending = @ \ {f}, !.timer = FALSE, !.paused = TRUE]
                ELSE [rec EXCEPT !.pending = @ \ {f}, !.timer = FALSE, !.running = f,
                                 !.pc = "row"]
  BY DEF Started
<1>2. f \in Files /\ f # NoFile
  BY FilesAssumption DEF QueueOK
<1>3. QueueOK(new)
  BY <1>1, <1>2 DEF QueueOK
<1>4. Wakes(new) /\ (rec.paused = paused => new.paused = paused)
  BY <1>1, <1>2 DEF QueueOK, Wakes
<1> QED
  BY <1>3, <1>4 DEF Follows

\* or puts off taking it up until its timer,
LEMMA ScheduledFollows ==
  ASSUME NEW q, NEW rec, QueueOK(rec), paused \in BOOLEAN, NEW new \in Scheduled(q, rec)
  PROVE  Follows(rec, new) /\ Wakes(new)
<1>1. CASE rec.paused \/ rec.pending = {} \/ rec.running # NoFile
  BY <1>1 DEF Scheduled, Follows, Wakes
<1>2. CASE ~(rec.paused \/ rec.pending = {} \/ rec.running # NoFile) /\ q = "metadata"
  <2>1. new = [rec EXCEPT !.timer = TRUE]
    BY <1>2 DEF Scheduled
  <2> QED
    BY <1>2, <2>1 DEF Follows, QueueOK, Wakes
<1>3. CASE ~(rec.paused \/ rec.pending = {} \/ rec.running # NoFile) /\ q # "metadata"
  BY <1>3, StartedFollows DEF Scheduled
<1> QED
  BY <1>1, <1>2, <1>3

\* or is offered files that the duplicate test lets through,
LEMMA OfferedFollows ==
  ASSUME NEW q, NEW rec, QueueOK(rec), paused \in BOOLEAN, NEW files \in SUBSET Files,
         NEW new \in Offered(q, rec, files)
  PROVE  Follows(rec, new)
<1> DEFINE taken == files \ (rec.pending \cup {rec.running})
           more == [rec EXCEPT !.pending = @ \cup taken]
<1>1. CASE taken = {}
  BY <1>1 DEF Offered, Follows
<1>2. CASE taken # {}
  <2>1. QueueOK(more) /\ more.paused = rec.paused
    BY DEF QueueOK
  <2>2. new \in Scheduled(q, more)
    BY <1>2 DEF Offered
  <2> QED
    BY <2>1, <2>2, ScheduledFollows DEF Follows
<1> QED
  BY <1>1, <1>2

\* or is paused because the flag says so,
LEMMA FollowingFollows ==
  ASSUME NEW rec, QueueOK(rec), paused \in BOOLEAN
  PROVE  Follows(rec, Following(rec))
  BY DEF Following, Paused, Follows, QueueOK, Wakes

\* or is paused and forgets its timer,
LEMMA PausedFollows ==
  ASSUME NEW rec, QueueOK(rec), Wakes(rec)
  PROVE  QueueOK(Paused(rec)) /\ Wakes(Paused(rec)) /\ Paused(rec).paused = TRUE
BY DEF Paused, QueueOK, Wakes

\* or ends a job,
LEMMA FinishedFollows ==
  ASSUME NEW q, NEW rec, QueueOK(rec), paused \in BOOLEAN, NEW new \in Finished(q, rec)
  PROVE  Follows(rec, new)
<1> DEFINE free == [rec EXCEPT !.running = NoFile, !.pc = "idle"]
<1>1. QueueOK(free) /\ free.paused = rec.paused
  BY FilesAssumption DEF QueueOK
<1>2. new \in Scheduled(q, free)
  BY DEF Finished
<1> QED
  BY <1>1, <1>2, ScheduledFollows DEF Follows

\* or is resumed and starts what waits.
LEMMA ResumedFollows ==
  ASSUME NEW q, NEW rec, QueueOK(rec), paused = FALSE, NEW new \in Resumed(q, rec)
  PROVE  QueueOK(new) /\ (Wakes(rec) => Wakes(new)) /\ new.paused = paused
<1>1. CASE rec.paused
  <2> DEFINE awake == [rec EXCEPT !.paused = FALSE]
  <2>1. QueueOK(awake) /\ awake.paused = paused
    BY DEF QueueOK
  <2>2. new \in Scheduled(q, awake)
    BY <1>1 DEF Resumed
  <2> QED
    BY <2>1, <2>2, ScheduledFollows DEF Follows
<1>2. CASE ~rec.paused
  <2>1. new = rec /\ rec.paused \in BOOLEAN
    BY <1>2 DEF Resumed, QueueOK
  <2> QED
    BY <1>2, <2>1
<1> QED
  BY <1>1, <1>2

\* Two of these, one after the other, are one of these.
LEMMA FollowsTwice ==
  ASSUME NEW rec, NEW mid, NEW new, Follows(rec, mid), Follows(mid, new)
  PROVE  Follows(rec, new)
  BY DEF Follows

\* What every action but a pause, a resume and a restart does to the two queues.
QueuesKeep ==
  /\ DOMAIN queue' = Queues
  /\ \A q \in Queues : Follows(queue[q], queue'[q])

\* Nothing happens to the queues,
LEMMA UnchangedKeeps ==
  ASSUME TypeOK, UNCHANGED queue
  PROVE  QueuesKeep
  BY DEF TypeOK, QueuesKeep, Follows

\* or one of them becomes what it may,
LEMMA BecomesKeeps ==
  ASSUME TypeOK, NEW q \in Queues, NEW recs, \A rec \in recs : Follows(queue[q], rec),
         Becomes(q, recs)
  PROVE  QueuesKeep
<1>1. PICK rec \in recs : queue' = [queue EXCEPT ![q] = rec]
  BY DEF Becomes
<1>2. DOMAIN queue' = Queues
  BY <1>1 DEF TypeOK
<1>3. ASSUME NEW p \in Queues
      PROVE  Follows(queue[p], queue'[p])
  <2>1. CASE p = q
    BY <1>1, <2>1 DEF TypeOK
  <2>2. CASE p # q
    <3>1. queue'[p] = queue[p]
      BY <1>1, <2>2 DEF TypeOK
    <3> QED
      BY <3>1 DEF TypeOK, Follows
  <2> QED
    BY <2>1, <2>2
<1> QED
  BY <1>2, <1>3 DEF QueuesKeep

\* or is offered files to read,
LEMMA OfferToReadKeeps ==
  ASSUME TypeOK, NEW files \in SUBSET Files, OfferToRead(files)
  PROVE  QueuesKeep
<1> DEFINE rec == queue["metadata"]
<1>1. "metadata" \in Queues /\ QueueOK(rec) /\ paused \in BOOLEAN
  BY DEF TypeOK, Queues
<1>2. Follows(rec, Following(rec))
  BY <1>1, FollowingFollows
<1>3. QueueOK(Following(rec))
  BY <1>2 DEF Follows
<1>4. \A new \in Offered("metadata", Following(rec), files) : Follows(Following(rec), new)
  BY <1>1, <1>3, OfferedFollows
<1>5. \A new \in Offered("metadata", Following(rec), files) : Follows(rec, new)
  BY <1>2, <1>4, FollowsTwice
<1> QED
  BY <1>1, <1>5, BecomesKeeps DEF OfferToRead

\* or its job goes on.
LEMMA GoesOnKeeps ==
  ASSUME TypeOK, NEW pc \in {"row", "extract", "fetch", "fetching", "announce"},
         queue["metadata"].running # NoFile, ReadGoesOn(pc)
  PROVE  QueuesKeep
<1> DEFINE rec == queue["metadata"]
           new == [rec EXCEPT !.pc = pc]
<1>1. "metadata" \in Queues /\ QueueOK(rec)
  BY DEF TypeOK, Queues
<1>2. Follows(rec, new)
  BY <1>1 DEF Follows, QueueOK, Wakes
<1>3. Becomes("metadata", {new})
  BY <1>1 DEF ReadGoesOn, Becomes, TypeOK
<1> QED
  BY <1>1, <1>2, <1>3, BecomesKeeps

\* A row's status stays one of a row's.
LEMMA SetRowKeeps ==
  ASSUME TypeOK, NEW f, NEW s \in Rows \cup {"gone"}, SetRow(f, s)
  PROVE  status' \in [Files -> Rows \cup {"absent", "found", "gone"}]
  BY DEF TypeOK, SetRow

(***************************************************************************)
(* One lemma for the steps of each part.                                   *)
(***************************************************************************)
Keeps ==
  /\ TypeOK'
  /\ QueuesKeep
  /\ UNCHANGED <<paused, call>>

\* What a step has to leave alone beside the queues.
LEMMA KeepsByParts ==
  ASSUME TypeOK, QueuesKeep,
         status' \in [Files -> Rows \cup {"absent", "found", "gone"}],
         UNCHANGED <<arrivals, flags, controls, scan>>
  PROVE  Keeps
  BY DEF TypeOK, QueuesKeep, Follows, Keeps, arrivals, flags, controls

\* The timer, and the job that reads a file.
LEMMA ReadStepKeeps ==
  ASSUME TypeOK, TimerFires \/ ReadStep
  PROVE  Keeps
<1> DEFINE rec == queue["metadata"]
<1>1. "metadata" \in Queues /\ QueueOK(rec) /\ paused \in BOOLEAN
      /\ {"ready", "error", "extracting", "fetching"} \subseteq Rows
  BY DEF TypeOK, Queues, Rows, Unread
<1>2. CASE TimerFires
  <2>1. rec.running = NoFile /\ ~rec.paused
    BY <1>1, <1>2 DEF TimerFires, QueueOK
  <2>2. \A new \in Started(rec) : Follows(rec, new)
    BY <1>1, <2>1, StartedFollows
  <2> QED
    BY <1>1, <1>2, <2>2, BecomesKeeps, KeepsByParts DEF TimerFires, TypeOK
<1>3. CASE ReadBegins
  <2>1. CASE status[Read] \in Unread
    BY <1>1, <1>3, <2>1, SetRowKeeps, GoesOnKeeps, KeepsByParts DEF ReadBegins, Reading
  <2>2. CASE status[Read] \notin Unread
    <3>1. \A new \in Finished("metadata", rec) : Follows(rec, new)
      BY <1>1, FinishedFollows
    <3> QED
      BY <1>1, <1>3, <2>2, <3>1, BecomesKeeps, KeepsByParts DEF ReadBegins, TypeOK
  <2> QED
    BY <2>1, <2>2
<1>4. CASE ReadExtracts
  BY <1>1, <1>4, SetRowKeeps, GoesOnKeeps, KeepsByParts DEF ReadExtracts, Reading
<1>5. CASE ReadFetches
  BY <1>1, <1>5, SetRowKeeps, GoesOnKeeps, KeepsByParts DEF ReadFetches, Reading, TypeOK
<1>6. CASE ReadFetched
  BY <1>1, <1>6, SetRowKeeps, GoesOnKeeps, KeepsByParts DEF ReadFetched, Reading
<1>7. CASE ReadEnds
  <2> DEFINE filing == queue["finalize"]
  <2>1. "finalize" \in Queues /\ QueueOK(filing) /\ Read \in Files
    BY <1>1, <1>7 DEF TypeOK, Queues, ReadEnds, Reading, Read, QueueOK
  <2>2. PICK new \in Finished("metadata", rec),
             then \in Offered("finalize", Following(filing), {Read}) :
          queue' = [queue EXCEPT !["metadata"] = new, !["finalize"] = then]
    BY <1>7 DEF ReadEnds
  <2>3. Follows(rec, new)
    BY <1>1, FinishedFollows
  <2>4. Follows(filing, Following(filing))
    BY <1>1, <2>1, FollowingFollows
  <2>5. Follows(Following(filing), then)
    BY <1>1, <2>1, <2>4, OfferedFollows DEF Follows
  <2>6. Follows(filing, then)
    BY <2>4, <2>5, FollowsTwice
  <2>7. DOMAIN queue' = Queues /\ queue'["metadata"] = new /\ queue'["finalize"] = then
    BY <2>2 DEF TypeOK, Queues
  <2>8. QueuesKeep
    BY <2>3, <2>6, <2>7 DEF QueuesKeep, Queues
  <2> QED
    BY <1>7, <2>8, KeepsByParts DEF ReadEnds, TypeOK
<1> QED
  BY <1>2, <1>3, <1>4, <1>5, <1>6, <1>7 DEF ReadStep

\* The job that files one.
LEMMA FileEndsKeeps ==
  ASSUME TypeOK, FileEnds
  PROVE  Keeps
<1>1. "finalize" \in Queues /\ QueueOK(queue["finalize"]) /\ paused \in BOOLEAN
  BY DEF TypeOK, Queues
<1>2. \A new \in Finished("finalize", queue["finalize"]) : Follows(queue["finalize"], new)
  BY <1>1, FinishedFollows
<1>3. QueuesKeep
  BY <1>1, <1>2, BecomesKeeps DEF FileEnds
<1>4. status' \in [Files -> Rows \cup {"absent", "found", "gone"}]
  BY SetRowKeeps DEF FileEnds, TypeOK
<1> QED
  BY <1>3, <1>4, KeepsByParts DEF FileEnds

\* A new row offers its file to be read.
LEMMA InsertKeeps ==
  ASSUME TypeOK, NEW f \in Files, Insert(f)
  PROVE  /\ QueuesKeep
         /\ status' \in [Files -> Rows \cup {"absent", "found", "gone"}]
<1>1. QueuesKeep
  BY OfferToReadKeeps DEF Insert
<1>2. status' \in [Files -> Rows \cup {"absent", "found", "gone"}]
  BY DEF Insert, TypeOK, Rows, Unread
<1> QED
  BY <1>1, <1>2

\* A row that is there already does so only while it is unread.
LEMMA KnownKeeps ==
  ASSUME TypeOK, NEW f \in Files, Known(f)
  PROVE  QueuesKeep
  BY OfferToReadKeeps, UnchangedKeeps DEF Known

\* The ways a file arrives, and a person who asks to have it read again.
LEMMA ArrivalKeeps ==
  ASSUME TypeOK, NEW f \in Files, Drops(f) \/ ImportReserves(f) \/ ArrivalStep(f) \/ AsksAgain(f)
  PROVE  Keeps
<1> DEFINE Statuses == Rows \cup {"absent", "found", "gone"}
<1>1. {"pending", "found", "gone"} \subseteq Statuses /\ "pending" \in Rows
  BY DEF Rows, Unread
<1>2. CASE Drops(f)
  <2>1. QueuesKeep
    BY <1>2, UnchangedKeeps DEF Drops
  <2>2. status' \in [Files -> Statuses] /\ event' \in [Files -> {"none", "due", "create"}]
    BY <1>1, <1>2 DEF Drops, TypeOK
  <2>3. arrival' \in [Files -> {"none", "upload", "reserve", "import"}]
    BY <1>2 DEF Drops, TypeOK
  <2> QED
    BY <1>2, <2>1, <2>2, <2>3 DEF Drops, Keeps, QueuesKeep, Follows, TypeOK, flags, controls
<1>3. CASE UploadEnds(f)
  <2>1. QueuesKeep /\ status' \in [Files -> Statuses]
    BY <1>1, <1>3, InsertKeeps, UnchangedKeeps DEF UploadEnds, TypeOK
  <2> QED
    BY <1>3, <2>1 DEF UploadEnds, Keeps, QueuesKeep, Follows, TypeOK, flags, controls
<1>4. CASE ImportReserves(f)
  <2>1. QueuesKeep
    BY <1>4, UnchangedKeeps DEF ImportReserves
  <2> QED
    BY <1>1, <1>4, <2>1 DEF ImportReserves, Keeps, QueuesKeep, Follows, TypeOK, flags, controls
<1>5. CASE ImportGivesUp(f)
  <2>1. QueuesKeep
    BY <1>5, UnchangedKeeps DEF ImportGivesUp
  <2> QED
    BY <1>1, <1>5, <2>1 DEF ImportGivesUp, Keeps, QueuesKeep, Follows, TypeOK, flags, controls
<1>6. CASE ImportPlaces(f)
  <2>1. QueuesKeep
    BY <1>6, UnchangedKeeps DEF ImportPlaces
  <2>2. /\ status' \in [Files -> Statuses]
        /\ event' \in [Files -> {"none", "due", "create"}]
        /\ arrival' \in [Files -> {"none", "upload", "reserve", "import"}]
        /\ unplaced' \subseteq Files
    BY <1>1, <1>6 DEF ImportPlaces, TypeOK
  <2> QED
    BY <1>6, <2>1, <2>2 DEF ImportPlaces, Keeps, QueuesKeep, Follows, TypeOK, flags, controls
<1>7. CASE ImportOffers(f)
  <2>1. QueuesKeep /\ status' \in [Files -> Statuses]
    BY <1>1, <1>7, InsertKeeps, OfferToReadKeeps, UnchangedKeeps DEF ImportOffers, TypeOK
  <2> QED
    BY <1>7, <2>1 DEF ImportOffers, Keeps, QueuesKeep, Follows, TypeOK, flags, controls
<1>8. CASE WatchMeets(f)
  <2>1. QueuesKeep
    BY <1>8, KnownKeeps, UnchangedKeeps DEF WatchMeets
  <2>2. \E e \in {"none", "create"} : event' = [event EXCEPT ![f] = e]
    BY <1>8, Zenon DEF WatchMeets
  <2>3. event' \in [Files -> {"none", "due", "create"}]
    BY <2>2 DEF TypeOK
  <2> QED
    BY <1>8, <2>1, <2>3 DEF WatchMeets, Keeps, QueuesKeep, Follows, TypeOK, flags, controls
<1>9. CASE WatchInserts(f)
  <2>1. QueuesKeep /\ status' \in [Files -> Statuses]
    BY <1>9, InsertKeeps, UnchangedKeeps DEF WatchInserts, TypeOK
  <2> QED
    BY <1>9, <2>1 DEF WatchInserts, Keeps, QueuesKeep, Follows, TypeOK, flags, controls
<1>10. CASE AskingEnds(f)
  <2>1. QueuesKeep
    BY <1>10, OfferToReadKeeps DEF AskingEnds
  <2>2. status' \in [Files -> Statuses]
    BY <1>10 DEF AskingEnds, SetRow, TypeOK
  <2>3. asking' \in [Files -> [pc : {"idle", "retry", "refetch", "over"},
                               was : Rows \cup {"absent"}]]
    BY <1>10 DEF AskingEnds, Asked, TypeOK
  <2> QED
    BY <1>10, <2>1, <2>2, <2>3
       DEF AskingEnds, Keeps, QueuesKeep, Follows, TypeOK, flags, controls
<1>11. CASE AsksAgain(f)
  <2>1. QueuesKeep
    BY <1>11, UnchangedKeeps DEF AsksAgain
  <2>2. status' \in [Files -> Statuses]
    BY <1>1, <1>11, SetRowKeeps DEF AsksAgain
  <2>3. asking' \in [Files -> [pc : {"idle", "retry", "refetch", "over"},
                               was : Rows \cup {"absent"}]]
    BY <1>11 DEF AsksAgain, TypeOK, Rows
  <2> QED
    BY <1>11, <2>1, <2>2, <2>3
       DEF AsksAgain, Keeps, QueuesKeep, Follows, TypeOK, flags, controls
<1> QED
  BY <1>2, <1>3, <1>4, <1>7, <1>8, <1>9, <1>10, <1>11, <1>5, <1>6 DEF ArrivalStep

\* A walk begins as one of the states of a walk.
LEMMA WalkIsScan == ASSUME NEW flag PROVE Walk(flag) \in Walks
  BY DEF Walk, Walks, NoScan, OnDisk

\* A walk of the dock's directory.
LEMMA ScanKeeps ==
  ASSUME TypeOK, NEW s \in Scans, Rescans \/ ScanStep(s)
  PROVE  Keeps
<1> DEFINE Statuses == Rows \cup {"absent", "found", "gone"}
<1>1. NoScan \in Walks /\ scan \in [Scans -> Walks] /\ scan[s] \in Walks
  BY DEF TypeOK, Walks, NoScan
<1>2. CASE Rescans
  <2>1. QueuesKeep
    BY <1>2, UnchangedKeeps DEF Rescans
  <2>2. scan' \in [Scans -> Walks]
    BY <1>1, <1>2, WalkIsScan DEF Rescans
  <2> QED
    BY <1>2, <2>1, <2>2
       DEF Rescans, Keeps, QueuesKeep, Follows, TypeOK, arrivals, flags, controls, Walks
<1>3. CASE ScanInserts(s)
  <2>1. CASE status[scan[s].file] = "found"
    <3> scan[s].file \in Files
      BY <1>1, <1>3 DEF ScanInserts, Walks
    <3>1. QueuesKeep /\ status' \in [Files -> Statuses]
      BY <1>3, <2>1, InsertKeeps DEF ScanInserts
    <3>2. scan' \in [Scans -> Walks]
      BY <1>1, <1>3, <2>1 DEF ScanInserts, Walks
    <3> QED
      BY <1>3, <3>1, <3>2
         DEF ScanInserts, Keeps, QueuesKeep, Follows, TypeOK, arrivals, flags, controls, Walks
  <2>2. CASE status[scan[s].file] # "found"
    <3>1. QueuesKeep
      BY <1>3, <2>2, UnchangedKeeps DEF ScanInserts
    <3>2. scan' \in [Scans -> Walks]
      BY <1>1, <1>3, <2>2 DEF ScanInserts
    <3> QED
      BY <1>3, <2>2, <3>1, <3>2
         DEF ScanInserts, Keeps, QueuesKeep, Follows, TypeOK, arrivals, flags, controls, Walks
  <2> QED
    BY <2>1, <2>2
<1>4. CASE ScanEnds(s)
  <2>1. QueuesKeep
    BY <1>4, UnchangedKeeps DEF ScanEnds
  <2>2. scan' \in [Scans -> Walks]
    BY <1>1, <1>4 DEF ScanEnds
  <2> QED
    BY <1>4, <2>1, <2>2
       DEF ScanEnds, Keeps, QueuesKeep, Follows, TypeOK, arrivals, flags, controls, Walks
<1>5. ASSUME NEW f \in Files, ScanMeets(s, f)
      PROVE  Keeps
  <2>1. QueuesKeep
    BY <1>5, KnownKeeps, UnchangedKeeps DEF ScanMeets
  <2>2. scan' \in [Scans -> Walks]
    BY <1>1, <1>5 DEF ScanMeets, Walks
  <2> QED
    BY <1>5, <2>1, <2>2
       DEF ScanMeets, Keeps, QueuesKeep, Follows, TypeOK, arrivals, flags, controls, Walks
<1> QED
  BY <1>2, <1>3, <1>4, <1>5 DEF ScanStep

\* The recovery a resume begins.
LEMMA RecoveryKeeps ==
  ASSUME TypeOK, RecoveryStep
  PROVE  Keeps
<1>1. CASE RecoveryReads
  <2>1. QueuesKeep
    BY <1>1, OfferToReadKeeps, UnchangedKeeps DEF RecoveryReads
  <2> QED
    BY <1>1, <2>1 DEF RecoveryReads, Keeps, QueuesKeep, Follows, TypeOK, arrivals, flags
<1>2. CASE RecoveryFiles
  <2>1. "finalize" \in Queues /\ QueueOK(queue["finalize"]) /\ paused \in BOOLEAN
    BY DEF TypeOK, Queues
  <2>2. PICK rows \in SUBSET {f \in Files \ Managed : status[f] = "ready" /\ ~paused} :
          Becomes("finalize", Offered("finalize", queue["finalize"], rows))
    BY <1>2 DEF RecoveryFiles
  <2>3. rows \in SUBSET Files
    OBVIOUS
  <2>4. \A new \in Offered("finalize", queue["finalize"], rows) :
          Follows(queue["finalize"], new)
    BY <2>1, <2>3, OfferedFollows
  <2>5. QueuesKeep
    BY <2>1, <2>2, <2>4, BecomesKeeps
  <2>6. scan' \in [Scans -> Walks]
    BY <1>2, WalkIsScan DEF RecoveryFiles, TypeOK
  <2> QED
    BY <1>2, <2>5, <2>6 DEF RecoveryFiles, Keeps, QueuesKeep, Follows, TypeOK, arrivals, flags
<1> QED
  BY <1>1, <1>2 DEF RecoveryStep

\* A file that is thrown away.
LEMMA DiscardsKeeps ==
  ASSUME TypeOK, NEW f \in Files, Discards(f)
  PROVE  Keeps
<1>1. QueuesKeep
  BY UnchangedKeeps DEF Discards
<1>2. status' \in [Files -> Rows \cup {"absent", "found", "gone"}]
  BY DEF Discards, TypeOK
<1> QED
  BY <1>1, <1>2, KeepsByParts DEF Discards

\* A pause or a resume in progress has set the flag to what it asks for, and where they do
\* not overlap nobody has changed it since.
CallsAgree ==
  /\ \A c, d \in Callers : call[c] # "idle" /\ call[d] # "idle" => c = d
  /\ \A c \in Callers : call[c] = "pause" => paused = TRUE
  /\ \A c \in Callers : call[c] = "resume" => paused = FALSE
  /\ NoCall => \A q \in Queues : queue[q].paused = paused

Awake == \A q \in Queues : Wakes(queue[q])

WorkInv ==
  /\ TypeOK
  /\ Awake
  /\ "crossed_calls" \notin Operations => CallsAgree

\* The actions above keep the invariant.
LEMMA KeepsInv ==
  ASSUME WorkInv, Keeps
  PROVE  WorkInv'
<1>1. Awake'
  BY DEF WorkInv, Awake, Keeps, QueuesKeep, Follows
<1>2. ASSUME CallsAgree
      PROVE  CallsAgree'
  BY <1>2 DEF CallsAgree, NoCall, Keeps, QueuesKeep, Follows
<1> QED
  BY <1>1, <1>2 DEF WorkInv, Keeps

\* A pause or a resume sets the flag,
LEMMA CallBegins ==
  ASSUME WorkInv, NEW c \in Callers, PauseBegins(c) \/ ResumeBegins(c)
  PROVE  WorkInv'
<1>1. PICK what \in {"pause", "resume"} :
        Begin(c, what, what = "pause")
  BY DEF PauseBegins, ResumeBegins
<1>2. TypeOK'
  BY <1>1 DEF Begin, WorkInv, TypeOK, arrivals
<1>3. Awake'
  BY <1>1 DEF Begin, WorkInv, Awake
<1>4. ASSUME "crossed_calls" \notin Operations
      PROVE  CallsAgree'
  <2>1. NoCall /\ call' = [call EXCEPT ![c] = what] /\ paused' = (what = "pause")
    BY <1>1, <1>4 DEF Begin
  <2>2. call'[c] = what /\ \A d \in Callers : d # c => call'[d] = "idle"
    BY <2>1 DEF NoCall, WorkInv, TypeOK
  <2> QED
    BY <2>1, <2>2 DEF CallsAgree, NoCall
<1> QED
  BY <1>2, <1>3, <1>4 DEF WorkInv

\* and then both queues.
LEMMA CallEnds ==
  ASSUME WorkInv, NEW c \in Callers, CallStep(c)
  PROVE  WorkInv'
<1>1. \A q \in Queues : QueueOK(queue[q]) /\ Wakes(queue[q])
  BY DEF WorkInv, TypeOK, Awake
<1>2. CASE PauseEnds(c)
  <2>1. \A q \in Queues : queue'[q] = Paused(queue[q])
    BY <1>2 DEF PauseEnds
  <2>2. DOMAIN queue' = Queues
    BY <1>2 DEF PauseEnds
  <2>3. \A q \in Queues : /\ QueueOK(queue'[q]) /\ Wakes(queue'[q])
                           /\ queue'[q].paused = TRUE
    BY <1>1, <2>1, PausedFollows
  <2>4. TypeOK'
    BY <1>2, <2>2, <2>3 DEF PauseEnds, WorkInv, TypeOK, arrivals
  <2>5. ASSUME "crossed_calls" \notin Operations
        PROVE  CallsAgree'
    BY <1>2, <2>3, <2>5 DEF PauseEnds, WorkInv, CallsAgree, NoCall, TypeOK
  <2> QED
    BY <2>3, <2>4, <2>5 DEF WorkInv, Awake
<1>3. CASE ResumeEnds(c)
  <2>1. CASE paused
    <3>1. UNCHANGED queue
      BY <1>3, <2>1 DEF ResumeEnds
    <3>2. TypeOK' /\ Awake'
      BY <1>3, <3>1 DEF ResumeEnds, WorkInv, TypeOK, Awake, arrivals
    <3>3. "crossed_calls" \in Operations
      BY <1>3, <2>1 DEF ResumeEnds, WorkInv, CallsAgree
    <3> QED
      BY <3>2, <3>3 DEF WorkInv
  <2>2. CASE ~paused
    <3> DEFINE rec == queue["metadata"]
               filing == queue["finalize"]
    <3>1. PICK new \in Resumed("metadata", rec), then \in Resumed("finalize", filing) :
            queue' = [queue EXCEPT !["metadata"] = new, !["finalize"] = then]
      BY <1>3, <2>2 DEF ResumeEnds
    <3>2. paused = FALSE /\ QueueOK(rec) /\ QueueOK(filing)
          /\ Wakes(rec) /\ Wakes(filing)
      BY <1>1, <2>2 DEF WorkInv, TypeOK, Queues
    <3>3. QueueOK(new) /\ Wakes(new) /\ new.paused = paused
      BY <3>1, <3>2, ResumedFollows
    <3>4. QueueOK(then) /\ Wakes(then) /\ then.paused = paused
      BY <3>1, <3>2, ResumedFollows
    <3>5. DOMAIN queue' = Queues /\ queue'["metadata"] = new /\ queue'["finalize"] = then
      BY <3>1 DEF WorkInv, TypeOK, Queues
    <3>6. \A q \in Queues : /\ QueueOK(queue'[q]) /\ Wakes(queue'[q])
                             /\ queue'[q].paused = paused
      BY <3>3, <3>4, <3>5 DEF Queues
    <3>7. TypeOK'
      BY <1>3, <3>5, <3>6 DEF ResumeEnds, WorkInv, TypeOK, arrivals
    <3>8. ASSUME "crossed_calls" \notin Operations
          PROVE  CallsAgree'
      BY <1>3, <3>6, <3>8 DEF ResumeEnds, WorkInv, CallsAgree, NoCall, TypeOK
    <3> QED
      BY <3>6, <3>7, <3>8 DEF WorkInv, Awake
  <2> QED
    BY <2>1, <2>2
<1> QED
  BY <1>2, <1>3 DEF CallStep

\* A new process takes the flag from the settings, and its queues with it.
LEMMA RestartKeepsInv ==
  ASSUME WorkInv, Restart
  PROVE  WorkInv'
<1>1. /\ DOMAIN queue' = Queues
      /\ \A q \in Queues : queue'[q] = [EmptyQueue EXCEPT !.paused = saved]
  BY DEF Restart
<1>2. saved \in BOOLEAN /\ paused' = saved
  BY DEF Restart, WorkInv, TypeOK
<1>3. \A q \in Queues : QueueOK(queue'[q]) /\ Wakes(queue'[q]) /\ queue'[q].paused = saved
  BY <1>1, <1>2 DEF EmptyQueue, QueueOK, Wakes
<1>4. scan' \in [Scans -> Walks]
  BY WalkIsScan DEF Restart, NoScan, Walks
<1>5. TypeOK'
  BY <1>1, <1>2, <1>3, <1>4 DEF Restart, WorkInv, TypeOK, NoAsking, Asked
<1>6. CallsAgree'
  BY <1>2, <1>3 DEF Restart, CallsAgree, NoCall
<1> QED
  BY <1>3, <1>5, <1>6 DEF WorkInv, Awake

\* The dock begins with empty queues that agree with the flag.
LEMMA WorkInvInitially ==
  ASSUME Init
  PROVE  WorkInv
<1>1. \A q \in Queues : QueueOK(queue[q]) /\ Wakes(queue[q]) /\ queue[q].paused = paused
  BY DEF Init, EmptyQueue, QueueOK, Wakes
<1>2. TypeOK
  BY <1>1 DEF Init, TypeOK, NoAsking, NoScan, Walks
<1>3. CallsAgree
  BY <1>1 DEF Init, CallsAgree
<1> QED
  BY <1>1, <1>2, <1>3 DEF WorkInv, Awake

\* The invariant is inductive.
LEMMA WorkInvStep ==
  ASSUME WorkInv, [Next]_vars
  PROVE  WorkInv'
<1>1. CASE UNCHANGED vars
  BY <1>1 DEF WorkInv, TypeOK, Awake, CallsAgree, NoCall, vars, arrivals, flags, controls
<1>2. CASE TimerFires \/ ReadStep \/ FileEnds \/ RecoveryStep
  BY <1>2, ReadStepKeeps, FileEndsKeeps, RecoveryKeeps, KeepsInv DEF WorkInv
<1>3. CASE \E f \in Files : Drops(f) \/ ImportReserves(f) \/ ArrivalStep(f) \/ AsksAgain(f)
  BY <1>3, ArrivalKeeps, KeepsInv DEF WorkInv
<1>4. CASE Rescans \/ \E s \in Scans : ScanStep(s)
  BY <1>4, ScanKeeps, KeepsInv DEF WorkInv, Scans
<1>5. CASE \E f \in Files : Discards(f)
  BY <1>5, DiscardsKeeps, KeepsInv DEF WorkInv
<1>6. CASE \E c \in Callers : CallStep(c)
  BY <1>6, CallEnds
<1>7. CASE \E c \in Callers : PauseBegins(c) \/ ResumeBegins(c)
  BY <1>7, CallBegins
<1>8. CASE Restart
  BY <1>8, RestartKeepsInv
<1> QED
  BY <1>1, <1>2, <1>3, <1>4, <1>5, <1>6, <1>7, <1>8 DEF Next

\* BookDockWorkQueue and the job of each queue, through pauses, resumes, restarts and every
\* kind of arrival: the types of the dock's work, the duplicate test of a queue among them.
THEOREM WorkTypesHold == Spec => []TypeOK
<1>1. Init => WorkInv
  BY WorkInvInitially
<1>2. WorkInv /\ [Next]_vars => WorkInv'
  BY WorkInvStep
<1>3. WorkInv => TypeOK
  BY DEF WorkInv
<1> QED
  BY <1>1, <1>2, <1>3, PTL DEF Spec

\* pauseProcessing and resumeProcessing, where no two calls of them overlap: once they have
\* returned both queues stand as the flag says, and a queue that is free to work on what
\* waits will.
THEOREM QueuesFollowHolds ==
  ASSUME "crossed_calls" \notin Operations
  PROVE  Spec => []QueuesFollow
<1>1. Init => WorkInv
  BY WorkInvInitially
<1>2. WorkInv /\ [Next]_vars => WorkInv'
  BY WorkInvStep
<1>3. WorkInv => QueuesFollow
  BY DEF WorkInv, CallsAgree, Awake, QueuesFollow
<1> QED
  BY <1>1, <1>2, <1>3, PTL DEF Spec
(***************************************************************************)
(* Who offers the files that are not read yet.                             *)
(***************************************************************************)
\* Two calls, two recoveries or two inserts of one file do not cross, a file is not read
\* again while its job ends, and no process dies over the unread row of a folder.
Uncrossed ==
  Operations \cap {"crossed_calls", "prompt_resume", "prompt_retry", "crossed_ingest",
                   "restart_units"} = {}

Waits(f) == f \in queue["metadata"].pending \cup {queue["metadata"].running}
Resuming == \E c \in Callers : call[c] = "resume"
WalkLeft(f) == \E s \in Scans : scan[s].pc # "idle" /\ f \in scan[s].left

\* An unread row waits to be read, or a recovery, an arrival, a person or a walk is still to
\* offer it; while processing is paused it is left to the resume; or its file is not there.
Offerers(f) ==
  \/ f \in unplaced
  \/ paused \/ Resuming \/ recovery = "read"
  \/ Waits(f) \/ arrival[f] # "none" \/ asking[f].pc \in {"retry", "refetch"}
  \/ f \notin Units /\ WalkLeft(f)

\* A file without a row has somebody who is still to insert one.
Inserters(f) ==
  \/ f \in unplaced
  \/ paused \/ Resuming \/ recovery # "idle"
  \/ event[f] # "none" \/ arrival[f] # "none"
  \/ WalkLeft(f) \/ \E s \in Scans : scan[s].file = f

NobodyForgotten ==
  \A f \in Files : /\ status[f] \in Unread => Offerers(f)
                   /\ status[f] = "found" => Inserters(f)

\* What waits to be read or offered has had a row, and what was read and is announced is
\* not unread.
QueuedAreRows ==
  /\ \A f \in Files :
       Waits(f) \/ arrival[f] = "reserve" \/ asking[f].pc \in {"retry", "refetch"} =>
         status[f] \in Rows \cup {"gone"}
  /\ \A f \in Files : /\ arrival[f] = "import" => status[f] # "absent"
                      /\ arrival[f] = "reserve" => f \in unplaced
  /\ queue["metadata"].pc \in {"fetch", "announce"} =>
       status[queue["metadata"].running] \notin Unread
  /\ \A f \in Files : asking[f].pc = "refetch" => asking[f].was \in Rows \ Unread

\* One at a time inserts the row of a file, so that no insert fails and ends a walk early.
InsertAlone ==
  /\ \A f \in Files : event[f] = "create" => status[f] = "found" /\ arrival[f] = "none"
  /\ \A s \in Scans :
       scan[s].file # NoFile =>
         /\ status[scan[s].file] = "found" /\ arrival[scan[s].file] = "none"
         /\ event[scan[s].file] # "create"
         /\ \A t \in Scans : scan[t].file = scan[s].file => s = t

\* A resume in progress will begin a recovery of its own.
ResumesAlone == Resuming => ~Recovering

OfferInv == NobodyForgotten /\ QueuedAreRows /\ InsertAlone /\ ResumesAlone

OfferAll == WorkInv /\ OfferInv

\* The kinds of status.
LEMMA StatusKinds ==
  /\ Unread \subseteq Rows /\ {"pending", "extracting", "fetching"} \subseteq Unread
  /\ {"ready", "error"} \subseteq Rows \ Unread
  /\ {"absent", "found", "gone"} \cap Rows = {}
  BY DEF Rows, Unread

\* The queue that reads waits with a timer: nothing is taken from it meanwhile,
LEMMA ScheduledWaits ==
  ASSUME NEW rec, QueueOK(rec), NEW new \in Scheduled("metadata", rec)
  PROVE  new.pending = rec.pending /\ new.running = rec.running /\ new.pc = rec.pc
<1>1. new = rec \/ new = [rec EXCEPT !.timer = TRUE]
  BY DEF Scheduled
<1> QED
  BY <1>1 DEF QueueOK

\* what is offered to it waits or runs,
LEMMA OfferToReadWaits ==
  ASSUME TypeOK, NEW files \in SUBSET Files, OfferToRead(files)
  PROVE  /\ \A f \in Files : Waits(f)' <=> Waits(f) \/ f \in files
         /\ queue'["metadata"].running = queue["metadata"].running
         /\ queue'["metadata"].pc = queue["metadata"].pc
<1> DEFINE rec == queue["metadata"]
           mid == Following(rec)
           taken == files \ (mid.pending \cup {mid.running})
           more == [mid EXCEPT !.pending = @ \cup taken]
<1>1. "metadata" \in Queues /\ QueueOK(rec) /\ paused \in BOOLEAN /\ DOMAIN queue = Queues
  BY DEF TypeOK, Queues
<1>2. /\ mid.pending = rec.pending /\ mid.running = rec.running /\ mid.pc = rec.pc
      /\ QueueOK(mid)
  BY <1>1, FollowingFollows DEF Following, Paused, QueueOK, Follows
<1>3. PICK new \in Offered("metadata", mid, files) : queue' = [queue EXCEPT !["metadata"] = new]
  BY DEF OfferToRead, Becomes
<1>4. queue'["metadata"] = new
  BY <1>1, <1>3
<1>5. /\ new.running = mid.running /\ new.pc = mid.pc
      /\ new.pending = mid.pending \cup taken
  <2>1. CASE taken = {}
    BY <1>3, <2>1 DEF Offered
  <2>2. CASE taken # {}
    <3>1. new \in Scheduled("metadata", more)
      BY <1>3, <2>2 DEF Offered
    <3>2. /\ QueueOK(more) /\ more.pending = mid.pending \cup taken
          /\ more.running = mid.running /\ more.pc = mid.pc
      BY <1>2 DEF QueueOK
    <3> HIDE DEF more
    <3> QED
      BY <3>1, <3>2, ScheduledWaits
  <2> QED
    BY <2>1, <2>2
<1> QED
  BY <1>2, <1>4, <1>5 DEF Waits

\* and a job that ends leaves the others there.
LEMMA FinishedWaits ==
  ASSUME NEW rec, QueueOK(rec), NEW new \in Finished("metadata", rec)
  PROVE  new.pending = rec.pending /\ new.running = NoFile /\ new.pc = "idle"
<1> DEFINE free == [rec EXCEPT !.running = NoFile, !.pc = "idle"]
<1>1. /\ QueueOK(free) /\ free.pending = rec.pending /\ free.running = NoFile
      /\ free.pc = "idle"
  BY FilesAssumption DEF QueueOK
<1>2. new \in Scheduled("metadata", free)
  BY DEF Finished
<1> HIDE DEF free
<1> QED
  BY <1>1, <1>2, ScheduledWaits

\* A step of a job, or one that throws a file away, forgets none: what leaves the queue is
\* read or processing is paused.
LEMMA JobForgetsNone ==
  ASSUME OfferAll, UNCHANGED <<arrivals, flags, controls, scan>>, QueuedAreRows',
         \A f \in Files :
           /\ status'[f] = "found" <=> status[f] = "found"
           /\ status'[f] \in Unread =>
                \/ Waits(f)'
                \/ status[f] \in Unread /\ (Waits(f) => Waits(f)' \/ paused)
  PROVE  OfferInv'
<1> USE DEF OfferAll, OfferInv, arrivals, flags, controls
<1>1. NobodyForgotten'
  BY DEF NobodyForgotten, Offerers, Inserters, Resuming, WalkLeft
<1>2. InsertAlone'
  BY DEF InsertAlone, WorkInv, TypeOK, Walks
<1>3. ResumesAlone'
  BY DEF ResumesAlone, Resuming, Recovering
<1> QED
  BY <1>1, <1>2, <1>3

\* What a row is set to, if it is a row.
LEMMA SetRowSets ==
  ASSUME TypeOK, NEW f \in Files, NEW s \in Rows \cup {"gone"}, SetRow(f, s)
  PROVE  /\ \A g \in Files \ {f} : status'[g] = status[g]
         /\ status[f] \in Rows => status'[f] = s
         /\ status[f] \notin Rows => status'[f] = status[f]
  BY DEF SetRow, TypeOK

\* The timer and the job that reads a file,
LEMMA ReadForgetsNone ==
  ASSUME OfferAll, TimerFires \/ ReadStep
  PROVE  OfferInv'
<1> DEFINE rec == queue["metadata"]
<1>1. /\ TypeOK /\ "metadata" \in Queues /\ QueueOK(rec) /\ DOMAIN queue = Queues
      /\ paused \in BOOLEAN /\ QueuedAreRows /\ NoFile \notin Files
  BY FilesAssumption DEF OfferAll, OfferInv, WorkInv, TypeOK, Queues
<1>2. ASSUME Reading(rec.pc)
      PROVE  /\ Read \in Files /\ Read = rec.running /\ Waits(Read)
             /\ status[Read] \in Rows \cup {"gone"}
  BY <1>1, <1>2 DEF Reading, Read, QueueOK, Waits, QueuedAreRows
<1>3. CASE TimerFires
  <2>1. rec.running = NoFile /\ rec.pc = "idle" /\ UNCHANGED <<status, arrival, unplaced, asking>>
    BY <1>1, <1>3 DEF TimerFires, QueueOK, arrivals
  <2>2. PICK new \in Started(rec) : queue'["metadata"] = new
    BY <1>1, <1>3 DEF TimerFires, Becomes
  <2>3. /\ \A g \in Files : Waits(g)' => Waits(g)
        /\ \A g \in Files : Waits(g) => Waits(g)' \/ paused
        /\ queue'["metadata"].pc \notin {"fetch", "announce"}
    <3>1. CASE paused
      <4>1. PICK f \in rec.pending :
              new = [rec EXCEPT !.pending = @ \ {f}, !.timer = FALSE, !.paused = TRUE]
        BY <2>2, <3>1 DEF Started
      <4> QED
        BY <1>1, <2>1, <2>2, <3>1, <4>1 DEF QueueOK, Waits
    <3>2. CASE ~paused
      <4>1. PICK f \in rec.pending :
              new = [rec EXCEPT !.pending = @ \ {f}, !.timer = FALSE, !.running = f,
                                !.pc = "row"]
        BY <2>2, <3>2 DEF Started
      <4> QED
        BY <1>1, <2>1, <2>2, <4>1 DEF QueueOK, Waits
    <3> QED
      BY <3>1, <3>2
  <2>4. QueuedAreRows'
    BY <1>1, <2>1, <2>3 DEF QueuedAreRows
  <2> QED
    BY <1>3, <2>1, <2>3, <2>4, JobForgetsNone DEF TimerFires
<1>4. ASSUME NEW pc \in {"extract", "fetch", "fetching", "announce"}, ReadGoesOn(pc)
      PROVE  /\ queue'["metadata"].pc = pc /\ queue'["metadata"].running = rec.running
             /\ \A g \in Files : Waits(g)' = Waits(g)
  BY <1>1, <1>4 DEF ReadGoesOn, QueueOK, Waits
<1>5. ASSUME NEW new \in Finished("metadata", rec), queue'["metadata"] = new,
             status[Read] \notin Unread, rec.running # NoFile,
             UNCHANGED <<status, arrival, unplaced, asking>>
      PROVE  /\ QueuedAreRows'
             /\ \A g \in Files : status[g] \in Unread => (Waits(g) => Waits(g)')
  BY <1>1, <1>5, FinishedWaits DEF Waits, Read, QueuedAreRows
<1>6. CASE ReadBegins
  <2>1. CASE status[Read] \in Unread
    <3>1. SetRow(Read, "extracting") /\ ReadGoesOn("extract") /\ Read \in Files
          /\ Waits(Read) /\ status[Read] \in Rows /\ UNCHANGED <<arrival, unplaced, asking>>
      BY <1>2, <1>6, <2>1, StatusKinds DEF ReadBegins, Reading, arrivals
    <3>2. /\ \A g \in Files \ {Read} : status'[g] = status[g]
          /\ status'[Read] = "extracting"
      BY <1>1, <3>1, StatusKinds, SetRowSets
    <3>3. QueuedAreRows'
      BY <1>1, <1>4, <3>1, <3>2, StatusKinds DEF QueuedAreRows
    <3> QED
      BY <1>4, <1>6, <3>1, <3>2, <3>3, StatusKinds, JobForgetsNone DEF ReadBegins
  <2>2. CASE status[Read] \notin Unread
    <3>1. PICK new \in Finished("metadata", rec) : queue'["metadata"] = new
      BY <1>1, <1>6, <2>2 DEF ReadBegins, Becomes
    <3>2. UNCHANGED <<status, arrival, unplaced, asking>> /\ rec.running # NoFile
      BY <1>6, <2>2 DEF ReadBegins, Reading, arrivals
    <3> QED
      BY <1>5, <1>6, <2>2, <3>1, <3>2, JobForgetsNone DEF ReadBegins
  <2> QED
    BY <2>1, <2>2
<1>7. CASE ReadExtracts
  <2>1. PICK s \in {"ready", "error"} : SetRow(Read, s)
    BY <1>7 DEF ReadExtracts
  <2>2. ReadGoesOn("fetch") /\ Read \in Files /\ status[Read] \in Rows \cup {"gone"}
        /\ UNCHANGED <<arrival, unplaced, asking>> /\ Read = rec.running /\ rec.running \in Files
    BY <1>2, <1>7 DEF ReadExtracts, Reading, arrivals
  <2>3. /\ \A g \in Files \ {Read} : status'[g] = status[g]
        /\ status'[Read] \in (Rows \ Unread) \cup {"gone"}
        /\ status[Read] # "found"
    BY <1>1, <2>1, <2>2, StatusKinds, SetRowSets
  <2>4. QueuedAreRows'
    BY <1>1, <1>4, <2>2, <2>3, StatusKinds DEF QueuedAreRows
  <2> QED
    BY <1>4, <1>7, <2>2, <2>3, <2>4, StatusKinds, JobForgetsNone DEF ReadExtracts
<1>8. CASE ReadFetches
  <2>1. /\ Read \in Files /\ Read = rec.running /\ Waits(Read)
        /\ UNCHANGED <<arrival, unplaced, asking>>
        /\ status[Read] \notin Unread /\ rec.running \in Files
    BY <1>1, <1>2, <1>8 DEF ReadFetches, Reading, arrivals, QueuedAreRows
  <2>2. CASE /\ status[Read] \in Rows /\ SetRow(Read, "fetching") /\ ReadGoesOn("fetching")
    <3>1. /\ \A g \in Files \ {Read} : status'[g] = status[g]
          /\ status'[Read] = "fetching" /\ status[Read] # "found"
      BY <1>1, <2>1, <2>2, StatusKinds, SetRowSets
    <3>2. QueuedAreRows'
      BY <1>1, <1>4, <2>1, <2>2, <3>1, StatusKinds DEF QueuedAreRows
    <3> QED
      BY <1>4, <1>8, <2>1, <2>2, <3>1, <3>2, StatusKinds, JobForgetsNone DEF ReadFetches
  <2>3. CASE ReadGoesOn("announce") /\ UNCHANGED status
    <3>1. QueuedAreRows'
      BY <1>1, <1>4, <2>1, <2>3 DEF QueuedAreRows
    <3> QED
      BY <1>4, <1>8, <2>3, <3>1, JobForgetsNone DEF ReadFetches
  <2> QED
    BY <1>8, <2>2, <2>3 DEF ReadFetches
<1>9. CASE ReadFetched
  <2>1. ReadGoesOn("announce") /\ Read \in Files /\ status[Read] \in Rows \cup {"gone"}
        /\ UNCHANGED <<arrival, unplaced, asking>> /\ Read = rec.running /\ rec.running \in Files
        /\ SetRow(Read, "ready")
    BY <1>2, <1>9 DEF ReadFetched, Reading, arrivals
  <2>2. /\ \A g \in Files \ {Read} : status'[g] = status[g]
        /\ status'[Read] \in (Rows \ Unread) \cup {"gone"}
        /\ status[Read] # "found"
    BY <1>1, <2>1, StatusKinds, SetRowSets
  <2>3. QueuedAreRows'
    BY <1>1, <1>4, <2>1, <2>2, StatusKinds DEF QueuedAreRows
  <2> QED
    BY <1>4, <1>9, <2>1, <2>2, <2>3, StatusKinds, JobForgetsNone DEF ReadFetched
<1>10. CASE ReadEnds
  <2>1. PICK new \in Finished("metadata", rec) : queue'["metadata"] = new
    BY <1>1, <1>10 DEF ReadEnds, Queues
  <2>2. /\ UNCHANGED <<status, arrival, unplaced, asking>>
        /\ rec.running # NoFile /\ status[Read] \notin Unread
    BY <1>1, <1>10 DEF ReadEnds, Reading, arrivals, QueuedAreRows, Read
  <2> QED
    BY <1>5, <1>10, <2>1, <2>2, JobForgetsNone DEF ReadEnds
<1> QED
  BY <1>3, <1>6, <1>7, <1>8, <1>9, <1>10 DEF ReadStep

\* the job that files one, and the person who throws one away.
LEMMA GoneForgetsNone ==
  ASSUME OfferAll, FileEnds \/ \E f \in Files : Discards(f)
  PROVE  OfferInv'
<1>1. TypeOK /\ QueuedAreRows /\ DOMAIN queue = Queues
  BY DEF OfferAll, OfferInv, WorkInv, TypeOK
<1>2. /\ queue'["metadata"] = queue["metadata"]
      /\ UNCHANGED <<arrivals, flags, controls, scan>>
  BY <1>1 DEF FileEnds, Discards, Becomes, Queues
<1>3. \A f \in Files : \/ status'[f] = status[f]
                       \/ status[f] \in Rows /\ status'[f] = "gone"
  <2>1. CASE FileEnds
    BY <1>1, <2>1 DEF FileEnds, SetRow, TypeOK
  <2>2. CASE \E f \in Files : Discards(f)
    BY <1>1, <2>2 DEF Discards, TypeOK
  <2> QED
    BY <2>1, <2>2
<1>4. queue["metadata"].pc \in {"fetch", "announce"} => queue["metadata"].running \in Files
  BY <1>1 DEF TypeOK, QueueOK, Queues
<1>5. QueuedAreRows'
  BY <1>1, <1>2, <1>3, <1>4, StatusKinds DEF QueuedAreRows, Waits, arrivals
<1> QED
  BY <1>2, <1>3, <1>5, StatusKinds, JobForgetsNone DEF Waits

\* A step that concerns one file leaves the others as they are.
LEMMA OneFileForgetsNone ==
  ASSUME OfferAll, TypeOK', NEW f \in Files, UNCHANGED <<flags, controls, scan>>,
         \A g \in Files \ {f} :
           /\ status'[g] = status[g] /\ event'[g] = event[g]
           /\ asking'[g] = asking[g] /\ (Waits(g)' <=> Waits(g))
           /\ \/ arrival'[g] = arrival[g] /\ (g \in unplaced' <=> g \in unplaced)
              \/ arrival'[g] = "none" /\ status[g] = "gone",
         queue'["metadata"].running = queue["metadata"].running,
         queue'["metadata"].pc = queue["metadata"].pc,
         status'[f] \in Unread => Offerers(f)',
         status'[f] = "found" => Inserters(f)',
         Waits(f)' \/ arrival'[f] = "reserve" \/ asking'[f].pc \in {"retry", "refetch"} =>
           status'[f] \in Rows \cup {"gone"},
         arrival'[f] = "import" => status'[f] # "absent",
         arrival'[f] = "reserve" => f \in unplaced',
         queue["metadata"].running = f /\ queue["metadata"].pc \in {"fetch", "announce"} =>
           status'[f] \notin Unread,
         asking'[f].pc = "refetch" => asking'[f].was \in Rows \ Unread,
         event'[f] = "create" =>
           /\ status'[f] = "found" /\ arrival'[f] = "none"
           /\ \A s \in Scans : scan[s].file # f,
         \A s \in Scans :
           scan[s].file = f =>
             status'[f] = "found" /\ arrival'[f] = "none" /\ event'[f] # "create"
  PROVE  OfferInv'
<1> USE DEF OfferAll, OfferInv, flags, controls
<1>1. NobodyForgotten'
  BY StatusKinds DEF NobodyForgotten, Offerers, Inserters, Resuming, WalkLeft
<1>2. QueuedAreRows'
  <2>1. queue["metadata"].pc \in {"fetch", "announce"} => queue["metadata"].running \in Files
    BY DEF WorkInv, TypeOK, QueueOK, Queues
  <2> QED
    BY <2>1 DEF QueuedAreRows
<1>3. InsertAlone'
  <2>1. \A s \in Scans : scan[s].file \in Files \cup {NoFile}
    BY DEF WorkInv, TypeOK, Walks
  <2> QED
    BY <2>1 DEF InsertAlone
<1>4. ResumesAlone'
  BY DEF ResumesAlone, Resuming, Recovering
<1> QED
  BY <1>1, <1>2, <1>3, <1>4

\* A file that comes to lie there, by hand, by an upload or by an import, and a person who
\* has one read again.
LEMMA ArrivalForgetsNone ==
  ASSUME OfferAll, Uncrossed, NEW f \in Files,
         Drops(f) \/ ImportReserves(f) \/ ArrivalStep(f) \/ AsksAgain(f)
  PROVE  OfferInv'
<1> DEFINE rec == queue["metadata"]
<1>1. /\ TypeOK /\ TypeOK' /\ QueuedAreRows /\ InsertAlone /\ NobodyForgotten
      /\ NoFile \notin Files
  BY ArrivalKeeps, FilesAssumption DEF Keeps, OfferAll, OfferInv, WorkInv
<1>2. \A s \in Scans : scan[s].file = f => /\ status[f] = "found" /\ arrival[f] = "none"
                                           /\ event[f] # "create"
  BY <1>1 DEF InsertAlone
<1>3. ASSUME OfferToRead({f})
      PROVE  /\ \A g \in Files \ {f} : Waits(g)' <=> Waits(g)
             /\ Waits(f)'
             /\ queue'["metadata"].running = rec.running /\ queue'["metadata"].pc = rec.pc
  BY <1>1, <1>3, OfferToReadWaits
<1>4. ASSUME UNCHANGED queue
      PROVE  /\ \A g \in Files : Waits(g)' <=> Waits(g)
             /\ queue'["metadata"].running = rec.running /\ queue'["metadata"].pc = rec.pc
  BY <1>4 DEF Waits
<1>5. rec.running = f => Waits(f)
  BY DEF Waits
<1>6. Waits(f) => status[f] \in Rows \cup {"gone"}
  BY <1>1 DEF QueuedAreRows
<1>7. CASE Drops(f)
  <2>1. /\ status'[f] = "found" /\ event'[f] = "due" /\ status[f] = "absent"
        /\ \A g \in Files \ {f} : /\ status'[g] = status[g] /\ event'[g] = event[g]
                                  /\ arrival'[g] = arrival[g]
        /\ arrival'[f] \in {arrival[f], "upload"}
        /\ UNCHANGED <<unplaced, asking, flags, queue, controls, scan>>
    BY <1>1, <1>7 DEF Drops, TypeOK
  <2>2. arrival[f] \notin {"reserve", "import"} /\ asking[f].pc \notin {"retry", "refetch"}
    BY <1>1, <2>1, StatusKinds DEF QueuedAreRows
  <2>3. Inserters(f)'
    BY <2>1 DEF Inserters
  <2> QED
    BY <1>1, <1>2, <1>4, <1>5, <1>6, <2>1, <2>2, <2>3, StatusKinds, OneFileForgetsNone
<1>8. CASE ImportReserves(f)
  <2>1. /\ status'[f] = "pending" /\ status[f] = "absent"
        /\ \A g \in Files \ {f} : /\ status'[g] = status[g]
                                  /\ arrival'[g] = arrival[g]
                                  /\ g \in unplaced' <=> g \in unplaced
        /\ arrival'[f] = "reserve" /\ f \in unplaced'
        /\ UNCHANGED <<event, asking, flags, queue, controls, scan>>
    BY <1>1, <1>8 DEF ImportReserves, TypeOK
  <2>2. asking[f].pc \notin {"retry", "refetch"} /\ event[f] # "create"
    BY <1>1, <2>1, StatusKinds DEF QueuedAreRows, InsertAlone
  <2>3. Offerers(f)'
    BY <2>1 DEF Offerers
  <2> QED
    BY <1>1, <1>2, <1>4, <1>5, <1>6, <2>1, <2>2, <2>3, StatusKinds, OneFileForgetsNone
<1>9. CASE ImportGivesUp(f)
  <2>1. /\ status'[f] \in {status[f], "gone"}
        /\ \A g \in Files \ {f} : status'[g] = status[g] /\ arrival'[g] = arrival[g]
        /\ arrival[f] = "reserve" /\ arrival'[f] = "none"
        /\ UNCHANGED <<unplaced, event, asking, flags, queue, controls, scan>>
    BY <1>1, <1>9 DEF ImportGivesUp, TypeOK
  <2>2. /\ status[f] \in Rows \cup {"gone"} /\ f \in unplaced
        /\ asking[f].pc = "refetch" => asking[f].was \in Rows \ Unread
        /\ rec.running = f /\ rec.pc \in {"fetch", "announce"} => status[f] \notin Unread
        /\ event[f] # "create" /\ \A s \in Scans : scan[s].file # f
    BY <1>1, <2>1, StatusKinds DEF QueuedAreRows, InsertAlone
  <2>3. Offerers(f)' /\ Inserters(f)'
    BY <2>1, <2>2 DEF Offerers, Inserters
  <2> QED
    BY <1>1, <1>4, <2>1, <2>2, <2>3, StatusKinds, OneFileForgetsNone
<1>10. CASE ImportPlaces(f)
  <2>1. /\ arrival[f] = "reserve" /\ status[f] \in Rows \cup {"gone"}
        /\ \A g \in Files \ {f} : g \in unplaced' <=> g \in unplaced
        /\ UNCHANGED <<asking, flags, queue, controls, scan>>
    BY <1>1, <1>10 DEF ImportPlaces, TypeOK, QueuedAreRows
  <2>2. CASE /\ status[f] # "gone" /\ arrival' = [arrival EXCEPT ![f] = "import"]
             /\ event' = [event EXCEPT ![f] = "due"] /\ UNCHANGED status
    <3>1. /\ \A g \in Files \ {f} : event'[g] = event[g] /\ arrival'[g] = arrival[g]
          /\ arrival'[f] = "import" /\ event'[f] = "due"
      BY <1>1, <2>2 DEF TypeOK
    <3>2. /\ asking[f].pc = "refetch" => asking[f].was \in Rows \ Unread
          /\ rec.running = f /\ rec.pc \in {"fetch", "announce"} => status[f] \notin Unread
          /\ \A s \in Scans : scan[s].file # f
      BY <1>1, <2>1 DEF QueuedAreRows, InsertAlone
    <3>3. Offerers(f)' /\ Inserters(f)'
      BY <3>1 DEF Offerers, Inserters
    <3> QED
      BY <1>1, <1>4, <2>1, <2>2, <3>1, <3>2, <3>3, StatusKinds, OneFileForgetsNone
  <2>3. ASSUME NEW g \in Files \ Managed, status[f] = "gone", status[g] = "absent",
               status' = [status EXCEPT ![g] = "found"],
               arrival' = [arrival EXCEPT ![f] = "none", ![g] = "import"],
               event' = [event EXCEPT ![g] = "due"]
        PROVE  OfferInv'
    <3>1. /\ f # g /\ status'[g] = "found" /\ arrival'[g] = "import" /\ event'[g] = "due"
          /\ arrival'[f] = "none" /\ status'[f] = status[f] /\ event'[f] = event[f]
          /\ \A h \in Files \ {f, g} : /\ status'[h] = status[h] /\ event'[h] = event[h]
                                       /\ arrival'[h] = arrival[h]
      BY <1>1, <2>3 DEF TypeOK
    <3>2. /\ ~Waits(g) /\ asking[g].pc \notin {"retry", "refetch"}
          /\ \A s \in Scans : scan[s].file # g
      BY <1>1, <2>3, StatusKinds DEF QueuedAreRows, InsertAlone
    <3>3. rec.running # g
      BY <3>2 DEF Waits
    <3>4. Inserters(g)' /\ ~Waits(g)'
      BY <1>4, <2>1, <3>1, <3>2 DEF Inserters
    <3>5. ASSUME NEW h \in Files \ {g}
          PROVE  /\ status'[h] = status[h] /\ event'[h] = event[h]
                 /\ asking'[h] = asking[h] /\ (Waits(h)' <=> Waits(h))
                 /\ \/ arrival'[h] = arrival[h] /\ (h \in unplaced' <=> h \in unplaced)
                    \/ arrival'[h] = "none" /\ status[h] = "gone"
      <4>1. CASE h = f
        BY <1>4, <2>1, <2>3, <3>1, <4>1
      <4>2. CASE h # f
        BY <1>4, <2>1, <3>1, <4>2
      <4> QED
        BY <4>1, <4>2
    <3>6. "found" \notin Unread /\ g \in Files /\ UNCHANGED <<flags, controls, scan>>
      BY <2>1, StatusKinds
    <3> QED
      BY <1>1, <1>4, <2>1, <3>1, <3>2, <3>3, <3>4, <3>5, <3>6, OneFileForgetsNone
  <2> QED
    BY <1>10, <2>2, <2>3 DEF ImportPlaces
<1>11. CASE UploadEnds(f)
  <2>1. /\ \A g \in Files \ {f} : status'[g] = status[g] /\ arrival'[g] = arrival[g]
        /\ arrival[f] = "upload" /\ arrival'[f] = "none"
        /\ UNCHANGED <<unplaced, event, asking, flags, controls, scan>>
    BY <1>1, <1>11 DEF UploadEnds, Insert, TypeOK
  <2>2. event[f] # "create" /\ \A s \in Scans : scan[s].file # f
    BY <1>1, <2>1 DEF InsertAlone
  <2>3. CASE status[f] = "found" /\ Insert(f)
    <3>1. status'[f] = "pending" /\ OfferToRead({f})
      BY <1>1, <2>3 DEF Insert, TypeOK
    <3>2. Offerers(f)' /\ asking[f].pc \notin {"retry", "refetch"}
      BY <1>1, <1>3, <2>3, <3>1, StatusKinds DEF Offerers, QueuedAreRows
    <3> QED
      BY <1>1, <1>3, <1>5, <1>6, <2>1, <2>2, <2>3, <3>1, <3>2, StatusKinds, OneFileForgetsNone
  <2>4. CASE /\ status[f] # "found" /\ status' = [status EXCEPT ![f] = "gone"]
             /\ UNCHANGED queue
    <3>1. status'[f] = "gone" /\ "gone" \notin Unread
      BY <1>1, <2>4, StatusKinds DEF TypeOK
    <3>2. asking[f].pc = "refetch" => asking[f].was \in Rows \ Unread
      BY <1>1 DEF QueuedAreRows
    <3> QED
      BY <1>1, <1>4, <2>1, <2>2, <2>4, <3>1, <3>2, OneFileForgetsNone
  <2> QED
    BY <1>11, <2>3, <2>4 DEF UploadEnds
<1>12. CASE ImportOffers(f)
  <2>1. /\ \A g \in Files \ {f} : arrival'[g] = arrival[g]
        /\ arrival[f] = "import" /\ arrival'[f] = "none"
        /\ UNCHANGED <<unplaced, event, asking, flags, controls, scan>>
    BY <1>1, <1>12 DEF ImportOffers, TypeOK
  <2>2. /\ status[f] # "absent"
        /\ asking[f].pc = "refetch" => asking[f].was \in Rows \ Unread
        /\ asking[f].pc \in {"retry", "refetch"} => status[f] \in Rows \cup {"gone"}
        /\ rec.running = f /\ rec.pc \in {"fetch", "announce"} => status[f] \notin Unread
        /\ event[f] # "create" /\ \A s \in Scans : scan[s].file # f
    BY <1>1, <2>1 DEF QueuedAreRows, InsertAlone
  <2>3. CASE status[f] \in Unread /\ OfferToRead({f}) /\ UNCHANGED status
    <3>1. Offerers(f)'
      BY <1>3, <2>3 DEF Offerers
    <3> QED
      BY <1>1, <1>3, <2>1, <2>2, <2>3, <3>1, StatusKinds, OneFileForgetsNone
  <2>4. CASE status[f] \notin Unread \cup {"found"} /\ UNCHANGED <<status, queue>>
    BY <1>1, <1>4, <1>6, <2>1, <2>2, <2>4, OneFileForgetsNone
  <2>5. CASE status[f] = "found" /\ Insert(f)
    <3>1. /\ \A g \in Files \ {f} : status'[g] = status[g]
          /\ status'[f] = "pending" /\ OfferToRead({f})
      BY <1>1, <2>5 DEF Insert, TypeOK
    <3>2. Offerers(f)' /\ rec.running # f
      BY <1>1, <1>3, <1>5, <1>6, <2>5, <3>1, StatusKinds DEF Offerers
    <3> QED
      BY <1>1, <1>3, <2>1, <2>2, <2>5, <3>1, <3>2, StatusKinds, OneFileForgetsNone
  <2> QED
    BY <1>12, <2>3, <2>4, <2>5 DEF ImportOffers
<1>13. ASSUME Known(f)
       PROVE  /\ status[f] \in Rows
              /\ \A g \in Files : Waits(g) => Waits(g)'
              /\ \A g \in Files \ {f} : Waits(g)' <=> Waits(g)
              /\ f \notin Units /\ status[f] \in Unread => Waits(f)'
              /\ queue'["metadata"].running = rec.running /\ queue'["metadata"].pc = rec.pc
  BY <1>1, <1>3, <1>4, <1>13, OfferToReadWaits DEF Known
<1>14. CASE WatchMeets(f)
  <2>1. /\ \A g \in Files \ {f} : event'[g] = event[g]
        /\ event[f] = "due"
        /\ UNCHANGED <<status, arrival, unplaced, asking, flags, controls, scan>>
    BY <1>1, <1>14 DEF WatchMeets, TypeOK
  <2>2. /\ rec.running = f /\ rec.pc \in {"fetch", "announce"} => status[f] \notin Unread
        /\ asking[f].pc = "refetch" => asking[f].was \in Rows \ Unread
        /\ arrival[f] = "reserve" \/ asking[f].pc \in {"retry", "refetch"} =>
             status[f] \in Rows \cup {"gone"}
        /\ arrival[f] = "import" => status[f] # "absent"
        /\ arrival[f] = "reserve" => f \in unplaced
    BY <1>1 DEF QueuedAreRows
  <2>3. /\ status[f] \in Unread => Offerers(f)
        /\ (\A g \in Files : Waits(g) => Waits(g)') => (Offerers(f) => Offerers(f)')
    BY <1>1, <2>1 DEF NobodyForgotten, Offerers, flags, controls, Resuming, WalkLeft
  <2>4. CASE (paused \/ f \notin OnDisk) /\ event' = [event EXCEPT ![f] = "none"]
             /\ UNCHANGED queue
    <3>1. event'[f] = "none"
      BY <1>1, <2>4 DEF TypeOK
    <3>2. status'[f] = "found" => Inserters(f)'
      BY <2>1, <2>4 DEF Inserters, OnDisk, flags
    <3> QED
      BY <1>1, <1>2, <1>4, <1>6, <2>1, <2>2, <2>3, <2>4, <3>1, <3>2, OneFileForgetsNone
  <2>5. CASE Known(f) /\ event' = [event EXCEPT ![f] = "none"]
    <3>1. event'[f] = "none"
      BY <1>1, <2>5 DEF TypeOK
    <3> QED
      BY <1>1, <1>2, <1>6, <1>13, <2>1, <2>2, <2>3, <2>5, <3>1, StatusKinds,
         OneFileForgetsNone
  <2>6. CASE /\ status[f] = "found" /\ InsertsAlone(f) /\ UNCHANGED queue
             /\ event' = [event EXCEPT ![f] = "create"]
    <3>1. event'[f] = "create"
      BY <1>1, <2>6 DEF TypeOK
    <3>2. arrival[f] = "none" /\ \A s \in Scans : scan[s].file # f
      BY <2>6 DEF InsertsAlone, Uncrossed
    <3>3. Inserters(f)'
      BY <3>1 DEF Inserters
    <3> QED
      BY <1>1, <1>4, <1>6, <2>1, <2>2, <2>3, <2>6, <3>1, <3>2, <3>3, OneFileForgetsNone
  <2> QED
    BY <1>14, <2>4, <2>5, <2>6 DEF WatchMeets
<1>15. CASE WatchInserts(f)
  <2>1. /\ \A g \in Files \ {f} : event'[g] = event[g]
        /\ event[f] = "create" /\ event'[f] = "none"
        /\ status[f] = "found" /\ arrival[f] = "none"
        /\ \A s \in Scans : scan[s].file # f
        /\ Insert(f)
        /\ UNCHANGED <<arrival, unplaced, asking, flags, controls, scan>>
    BY <1>1, <1>15 DEF WatchInserts, TypeOK, InsertAlone
  <2>2. /\ \A g \in Files \ {f} : status'[g] = status[g]
        /\ status'[f] = "pending" /\ OfferToRead({f})
    BY <1>1, <2>1 DEF Insert, TypeOK
  <2>3. Offerers(f)' /\ asking[f].pc \notin {"retry", "refetch"} /\ rec.running # f
    BY <1>1, <1>3, <1>5, <1>6, <2>1, <2>2, StatusKinds DEF Offerers, QueuedAreRows
  <2> QED
    BY <1>1, <1>3, <2>1, <2>2, <2>3, StatusKinds, OneFileForgetsNone
<1>16. CASE AsksAgain(f)
  <2>1. /\ rec.running # f /\ status[f] \in {"ready", "error"} /\ SetRow(f, "pending")
        /\ UNCHANGED <<arrival, unplaced, event, flags, queue, controls, scan>>
        /\ \/ asking' = [asking EXCEPT ![f].pc = "retry"] /\ asking[f] = NoAsking
           \/ asking' = [asking EXCEPT ![f] = [pc |-> "refetch", was |-> status[f]]]
    BY <1>16 DEF AsksAgain, Uncrossed
  <2>2. /\ \A g \in Files \ {f} : status'[g] = status[g]
        /\ status'[f] = "pending"
    BY <1>1, <2>1, StatusKinds, SetRowSets
  <2>3. /\ \A g \in Files \ {f} : asking'[g] = asking[g]
        /\ asking'[f].pc \in {"retry", "refetch"}
        /\ asking'[f].pc = "refetch" => asking'[f].was \in Rows \ Unread
    BY <1>1, <2>1, StatusKinds DEF TypeOK
  <2>4. /\ Offerers(f)' /\ event[f] # "create" /\ \A s \in Scans : scan[s].file # f
        /\ arrival[f] = "reserve" => f \in unplaced
    BY <1>1, <2>1, <2>3 DEF Offerers, InsertAlone, QueuedAreRows
  <2> QED
    BY <1>1, <1>4, <1>5, <2>1, <2>2, <2>3, <2>4, StatusKinds, OneFileForgetsNone
<1>17. CASE AskingEnds(f)
  <2>1. /\ asking[f].pc \in {"retry", "refetch"} /\ OfferToRead({f})
        /\ asking' = [asking EXCEPT ![f] = Asked]
        /\ UNCHANGED <<arrival, unplaced, event, flags, controls, scan>>
        /\ status[f] \in Rows \cup {"gone"}
        /\ asking[f].pc = "refetch" => asking[f].was \in Rows \ Unread
        /\ rec.running = f /\ rec.pc \in {"fetch", "announce"} => status[f] \notin Unread
    BY <1>1, <1>17 DEF AskingEnds, QueuedAreRows
  <2>2. /\ \A g \in Files \ {f} : asking'[g] = asking[g]
        /\ asking'[f].pc = "over"
    BY <1>1, <2>1 DEF TypeOK, Asked
  <2>3. /\ \A g \in Files \ {f} : status'[g] = status[g]
        /\ status'[f] = status[f] \/ status'[f] \in Rows \ Unread
        /\ status'[f] \in Rows \cup {"gone"}
    <3>1. CASE UNCHANGED status
      BY <2>1, <3>1
    <3>2. CASE asking[f].pc = "refetch" /\ SetRow(f, asking[f].was)
      BY <1>1, <2>1, <3>2, SetRowSets
    <3> QED
      BY <1>17, <3>1, <3>2 DEF AskingEnds
  <2>4. /\ Offerers(f)' /\ event[f] # "create" /\ \A s \in Scans : scan[s].file # f
        /\ arrival[f] = "reserve" => f \in unplaced
    BY <1>1, <1>3, <2>1, StatusKinds DEF Offerers, InsertAlone, QueuedAreRows
  <2> QED
    BY <1>1, <1>3, <2>1, <2>2, <2>3, <2>4, StatusKinds, OneFileForgetsNone
<1> QED
  BY <1>7, <1>8, <1>11, <1>12, <1>14, <1>15, <1>16, <1>17, <1>9, <1>10 DEF ArrivalStep

\* A walk, whoever asked for it,
LEMMA ScanForgetsNone ==
  ASSUME OfferAll, Uncrossed, NEW s \in Scans, Rescans \/ ScanStep(s)
  PROVE  OfferInv'
<1> DEFINE rec == queue["metadata"]
<1>1. /\ TypeOK /\ TypeOK' /\ QueuedAreRows /\ InsertAlone /\ NobodyForgotten /\ ResumesAlone
      /\ NoFile \notin Files
  BY ScanKeeps, FilesAssumption DEF Keeps, OfferAll, OfferInv, WorkInv
<1>2. scan \in [Scans -> Walks] /\ scan' \in [Scans -> Walks] /\ NoScan.pc = "idle"
      /\ NoScan.file = NoFile
  BY <1>1 DEF TypeOK, NoScan
<1>3. CASE Rescans
  <2>1. /\ scan["walk"] = NoScan /\ scan'["walk"].file = NoFile
        /\ scan'["recovery"] = scan["recovery"]
        /\ UNCHANGED <<status, arrivals, flags, queue, controls>>
    BY <1>2, <1>3 DEF Rescans, Walk, NoScan, Scans
  <2>2. NobodyForgotten'
    BY <1>1, <1>2, <2>1 DEF NobodyForgotten, Offerers, Inserters, Waits, Resuming, WalkLeft,
                            arrivals, flags, controls, Scans
  <2>3. QueuedAreRows' /\ InsertAlone' /\ ResumesAlone'
    BY <1>1, <1>2, <2>1 DEF QueuedAreRows, Waits, InsertAlone, ResumesAlone, Resuming,
                            Recovering, arrivals, controls, Scans
  <2> QED
    BY <2>2, <2>3 DEF OfferInv
<1>4. ASSUME UNCHANGED <<status, arrivals, controls>>,
             queue'["metadata"].running = rec.running, queue'["metadata"].pc = rec.pc,
             \A f \in Files : Waits(f)' => Waits(f) \/ status[f] \in Rows
      PROVE  QueuedAreRows'
  BY <1>1, <1>4 DEF QueuedAreRows, arrivals
<1>5. ASSUME scan[s].pc # "idle", UNCHANGED <<call, recovery>>,
             \A t \in Scans \ {s} : scan'[t] = scan[t]
      PROVE  ResumesAlone'
  <2>1. CASE s = "recovery"
    <3>1. Recovering
      BY <1>2, <1>5, <2>1 DEF Recovering
    <3> QED
      BY <1>1, <1>5, <3>1 DEF ResumesAlone, Resuming
  <2>2. CASE s # "recovery"
    <3>1. scan'["recovery"] = scan["recovery"]
      BY <1>5, <2>2 DEF Scans
    <3> QED
      BY <1>1, <1>5, <3>1 DEF ResumesAlone, Resuming, Recovering
  <2> QED
    BY <2>1, <2>2
<1>6. ASSUME NEW f \in Files, ScanMeets(s, f)
      PROVE  OfferInv'
  <2>1. /\ UNCHANGED <<status, arrivals, flags, controls>>
        /\ scan[s].pc = "walk" /\ scan[s].file = NoFile /\ f \in scan[s].left
        /\ \A t \in Scans \ {s} : scan'[t] = scan[t]
    BY <1>2, <1>6 DEF ScanMeets, Walks
  <2>2. ResumesAlone'
    BY <1>5, <2>1 DEF controls
  <2>3. CASE paused /\ scan' = [scan EXCEPT ![s] = NoScan] /\ UNCHANGED queue
    <3>1. scan'[s].file = NoFile
      BY <1>2, <2>3
    <3>2. NobodyForgotten'
      BY <2>1, <2>3 DEF NobodyForgotten, Offerers, Inserters, flags
    <3>3. QueuedAreRows'
      BY <1>4, <2>1, <2>3 DEF Waits
    <3>4. InsertAlone'
      BY <1>1, <2>1, <3>1 DEF InsertAlone, arrivals
    <3> QED
      BY <2>2, <3>2, <3>3, <3>4 DEF OfferInv
  <2>4. CASE /\ (f \notin OnDisk /\ UNCHANGED queue) \/ Known(f)
             /\ scan' = [scan EXCEPT ![s].left = @ \ {f}]
    <3>1. /\ \A g \in Files : Waits(g) => Waits(g)'
          /\ \A g \in Files : Waits(g)' => Waits(g) \/ status[g] \in Rows
          /\ queue'["metadata"].running = rec.running /\ queue'["metadata"].pc = rec.pc
          /\ status[f] = "found" => f \in unplaced
          /\ f \notin Units /\ status[f] \in Unread => Waits(f)' \/ f \in unplaced
      <4>1. CASE f \notin OnDisk /\ UNCHANGED queue
        BY <4>1, StatusKinds DEF OnDisk, Waits
      <4>2. CASE Known(f) /\ OfferToRead({f})
        BY <1>1, <4>2, StatusKinds, OfferToReadWaits DEF Known
      <4>3. CASE Known(f) /\ UNCHANGED queue /\ ~(f \notin Units /\ status[f] \in Unread)
        BY <4>3, StatusKinds DEF Known, Waits
      <4> QED
        BY <2>4, <4>1, <4>2, <4>3 DEF Known
    <3>2. /\ scan'[s].pc = "walk" /\ scan'[s].file = NoFile
          /\ scan'[s].left = scan[s].left \ {f}
      BY <1>2, <2>1, <2>4 DEF Walks
    <3>3. \A g \in Files \ {f} : WalkLeft(g) => WalkLeft(g)'
      BY <2>1, <3>2 DEF WalkLeft
    <3>4. \A g \in Files : \A t \in Scans : scan[t].file = g => scan'[t].file = g
      BY <1>1, <2>1, <3>2
    <3>5. NobodyForgotten'
      BY <1>1, <2>1, <3>1, <3>3, <3>4
         DEF NobodyForgotten, Offerers, Inserters, Resuming, arrivals, flags, controls
    <3>6. QueuedAreRows'
      BY <1>4, <2>1, <3>1
    <3>7. InsertAlone'
      BY <1>1, <2>1, <3>2 DEF InsertAlone, arrivals
    <3> QED
      BY <2>2, <3>5, <3>6, <3>7 DEF OfferInv
  <2>5. CASE /\ status[f] = "found" /\ InsertsAlone(f) /\ UNCHANGED queue
             /\ scan' = [[scan EXCEPT ![s].left = @ \ {f}]
                           EXCEPT ![s].pc = "create", ![s].file = f]
    <3>1. /\ scan'[s].pc = "create" /\ scan'[s].file = f
          /\ scan'[s].left = scan[s].left \ {f}
      BY <1>2, <2>1, <2>5 DEF Walks
    <3>2. \A g \in Files \ {f} : WalkLeft(g) => WalkLeft(g)'
      BY <2>1, <3>1 DEF WalkLeft
    <3>3. \A g \in Files : \A t \in Scans : scan[t].file = g => scan'[t].file = g
      BY <1>1, <2>1, <3>1
    <3>4. arrival[f] = "none" /\ event[f] # "create" /\ \A t \in Scans : scan[t].file # f
      BY <2>5 DEF InsertsAlone, Uncrossed
    <3>5. NobodyForgotten'
      <4>1. ASSUME NEW g \in Files
            PROVE  /\ status[g] \in Unread => Offerers(g) /\ g # f
                   /\ status[g] = "found" => Inserters(g)
        BY <1>1, <2>5, StatusKinds DEF NobodyForgotten
      <4>2. ASSUME NEW g \in Files \ {f}, Offerers(g)
            PROVE  Offerers(g)'
        BY <2>1, <2>5, <3>2, <4>2 DEF Offerers, Waits, Resuming, arrivals, flags, controls
      <4>3. ASSUME NEW g \in Files \ {f}, Inserters(g)
            PROVE  Inserters(g)'
        BY <2>1, <3>2, <3>3, <4>3 DEF Inserters, Resuming, arrivals, flags, controls
      <4>4. Inserters(f)'
        BY <3>1 DEF Inserters
      <4> QED
        BY <2>1, <4>1, <4>2, <4>3, <4>4 DEF NobodyForgotten
    <3>6. QueuedAreRows'
      BY <1>4, <2>1, <2>5 DEF Waits
    <3>7. InsertAlone'
      <4>1. ASSUME NEW t \in Scans, scan'[t].file # NoFile
            PROVE  /\ status[scan'[t].file] = "found" /\ arrival[scan'[t].file] = "none"
                   /\ event[scan'[t].file] # "create"
                   /\ \A u \in Scans : scan'[u].file = scan'[t].file => t = u
        <5>1. CASE t = s
          BY <2>1, <2>5, <3>1, <3>4, <5>1
        <5>2. CASE t # s
          BY <1>1, <2>1, <3>1, <3>4, <4>1, <5>2 DEF InsertAlone
        <5> QED
          BY <5>1, <5>2
      <4> QED
        BY <1>1, <2>1, <4>1 DEF InsertAlone, arrivals
    <3> QED
      BY <2>2, <3>5, <3>6, <3>7 DEF OfferInv
  <2> QED
    BY <1>6, <2>3, <2>4, <2>5 DEF ScanMeets
<1>7. CASE ScanInserts(s)
  <2>1. PICK f \in Files :
          /\ f = scan[s].file /\ scan[s].pc = "create" /\ status[f] = "found"
          /\ arrival[f] = "none" /\ event[f] # "create"
          /\ \A t \in Scans \ {s} : scan[t].file # f
    BY <1>1, <1>2, <1>7 DEF ScanInserts, Walks, InsertAlone
  <2>2. /\ Insert(f) /\ scan' = [scan EXCEPT ![s].pc = "walk", ![s].file = NoFile]
        /\ UNCHANGED <<arrivals, flags, controls>>
    BY <1>7, <2>1 DEF ScanInserts
  <2>3. /\ \A t \in Scans \ {s} : scan'[t] = scan[t]
        /\ scan'[s].pc = "walk" /\ scan'[s].left = scan[s].left /\ scan'[s].file = NoFile
    BY <1>2, <2>2 DEF Walks
  <2>4. /\ \A g \in Files \ {f} : status'[g] = status[g]
        /\ status'[f] = "pending" /\ OfferToRead({f})
    BY <1>1, <2>1, <2>2 DEF Insert, TypeOK
  <2>5. /\ \A g \in Files : Waits(g)' <=> Waits(g) \/ g = f
        /\ queue'["metadata"].running = rec.running /\ queue'["metadata"].pc = rec.pc
    BY <1>1, <2>1, <2>4, OfferToReadWaits
  <2>6. \A g \in Files : WalkLeft(g)' <=> WalkLeft(g)
    BY <2>1, <2>3 DEF WalkLeft
  <2>7. \A g \in Files \ {f} : \A t \in Scans : scan[t].file = g <=> scan'[t].file = g
    BY <1>1, <2>1, <2>3
  <2>8. NobodyForgotten'
    <3>1. ASSUME NEW g \in Files
          PROVE  /\ status[g] \in Unread => Offerers(g)
                 /\ status[g] = "found" => Inserters(g)
      BY <1>1 DEF NobodyForgotten
    <3>2. ASSUME NEW g \in Files \ {f}, Offerers(g)
          PROVE  Offerers(g)'
      BY <2>2, <2>5, <2>6, <3>2 DEF Offerers, Resuming, arrivals, flags, controls
    <3>3. ASSUME NEW g \in Files \ {f}, Inserters(g)
          PROVE  Inserters(g)'
      BY <2>2, <2>6, <2>7, <3>3 DEF Inserters, Resuming, arrivals, flags, controls
    <3>4. Offerers(f)' /\ status'[f] # "found"
      BY <2>1, <2>4, <2>5, StatusKinds DEF Offerers
    <3> QED
      BY <2>4, <3>1, <3>2, <3>3, <3>4 DEF NobodyForgotten
  <2>9. QueuedAreRows'
    <3>1. rec.running # f
      BY <1>1, <2>1, StatusKinds DEF QueuedAreRows, Waits
    <3>2. rec.pc \in {"fetch", "announce"} => rec.running \in Files
      BY <1>1 DEF TypeOK, QueueOK, Queues
    <3> QED
      BY <1>1, <2>1, <2>2, <2>4, <2>5, <3>1, <3>2, StatusKinds DEF QueuedAreRows, arrivals
  <2>10. InsertAlone'
    BY <1>1, <1>2, <2>1, <2>2, <2>3, <2>4 DEF InsertAlone, arrivals, Walks
  <2>11. ResumesAlone'
    BY <1>5, <2>1, <2>2, <2>3 DEF controls
  <2> QED
    BY <2>8, <2>9, <2>10, <2>11 DEF OfferInv
<1>8. CASE ScanEnds(s)
  <2>1. /\ scan[s].pc = "walk" /\ scan[s].left = {} /\ scan[s].file = NoFile
        /\ scan'[s].file = NoFile /\ \A t \in Scans \ {s} : scan'[t] = scan[t]
        /\ UNCHANGED <<status, arrivals, flags, queue, controls>>
    BY <1>2, <1>8 DEF ScanEnds, Walks
  <2>2. \A g \in Files : WalkLeft(g) => WalkLeft(g)'
    BY <2>1 DEF WalkLeft
  <2>3. \A g \in Files : \A t \in Scans : scan[t].file = g => scan'[t].file = g
    BY <1>1, <2>1
  <2>4. NobodyForgotten'
    BY <1>1, <2>1, <2>2, <2>3
       DEF NobodyForgotten, Offerers, Inserters, Waits, Resuming, arrivals, flags, controls
  <2>5. QueuedAreRows' /\ InsertAlone'
    BY <1>1, <1>4, <2>1 DEF InsertAlone, Waits, arrivals
  <2>6. ResumesAlone'
    BY <1>5, <2>1 DEF controls
  <2> QED
    BY <2>4, <2>5, <2>6 DEF OfferInv
<1> QED
  BY <1>3, <1>6, <1>7, <1>8 DEF ScanStep

\* the recovery that a resume begins,
LEMMA RecoveryForgetsNone ==
  ASSUME OfferAll, RecoveryStep
  PROVE  OfferInv'
<1> DEFINE rec == queue["metadata"]
<1>1. /\ TypeOK /\ QueuedAreRows /\ InsertAlone /\ NobodyForgotten /\ ResumesAlone
      /\ NoFile \notin Files /\ DOMAIN queue = Queues /\ scan \in [Scans -> Walks]
  BY FilesAssumption DEF OfferAll, OfferInv, WorkInv, TypeOK
<1>2. recovery # "idle" /\ UNCHANGED <<status, arrivals, flags, call>>
  BY DEF RecoveryStep, RecoveryReads, RecoveryFiles
<1>3. ResumesAlone'
  BY <1>1, <1>2 DEF ResumesAlone, Resuming, Recovering
<1>4. CASE RecoveryReads
  <2>1. recovery' = "file" /\ UNCHANGED scan
    BY <1>4 DEF RecoveryReads
  <2>2. /\ \A f \in Files : status[f] \in Unread => paused \/ Waits(f)'
        /\ \A f \in Files : Waits(f)' => Waits(f) \/ status[f] \in Unread
        /\ queue'["metadata"].running = rec.running /\ queue'["metadata"].pc = rec.pc
    <3> DEFINE rows == {f \in Files : status[f] \in Unread}
    <3>1. CASE OfferToRead(rows)
      BY <1>1, <3>1, OfferToReadWaits
    <3>2. CASE (paused \/ rows = {}) /\ UNCHANGED queue
      BY <3>2 DEF Waits
    <3> QED
      BY <1>4, <3>1, <3>2 DEF RecoveryReads
  <2>3. NobodyForgotten'
    BY <1>2, <2>1, <2>2 DEF NobodyForgotten, Offerers, Inserters, flags
  <2>4. QueuedAreRows'
    BY <1>1, <1>2, <2>2, StatusKinds DEF QueuedAreRows, arrivals
  <2>5. InsertAlone'
    BY <1>1, <1>2, <2>1 DEF InsertAlone, arrivals
  <2> QED
    BY <1>3, <2>3, <2>4, <2>5 DEF OfferInv
<1>5. CASE RecoveryFiles
  <2>1. /\ recovery = "file"
        /\ scan'["recovery"] = Walk(paused) /\ scan'["walk"] = scan["walk"]
        /\ queue'["metadata"] = rec
    BY <1>1, <1>5 DEF RecoveryFiles, Becomes, Queues, Scans
  <2>2. /\ scan'["recovery"].file = NoFile
        /\ ~paused => scan'["recovery"].pc = "walk" /\ scan'["recovery"].left = OnDisk
    BY <2>1 DEF Walk, NoScan
  <2>3. ASSUME NEW f \in Files \ unplaced, ~paused, status[f] \in Rows \cup {"found"}
        PROVE  WalkLeft(f)'
    <3>1. f \in OnDisk
      BY <2>3, StatusKinds DEF OnDisk
    <3> QED
      BY <2>2, <2>3, <3>1 DEF WalkLeft, Scans
  <2>4. NobodyForgotten'
    BY <1>1, <1>2, <2>1, <2>3, StatusKinds
       DEF NobodyForgotten, Offerers, Inserters, Waits, Resuming, arrivals, flags
  <2>5. QueuedAreRows'
    BY <1>1, <1>2, <2>1 DEF QueuedAreRows, Waits, arrivals
  <2>6. InsertAlone'
    <3>1. \A s \in Scans : scan'[s].file # NoFile => s = "walk"
      BY <2>2 DEF Scans
    <3> QED
      BY <1>1, <1>2, <2>1, <3>1 DEF InsertAlone, arrivals
  <2> QED
    BY <1>3, <2>4, <2>5, <2>6 DEF OfferInv
<1> QED
  BY <1>4, <1>5 DEF RecoveryStep

\* a pause or a resume that is asked for and the end of it,
LEMMA CallForgetsNone ==
  ASSUME OfferAll, Uncrossed, NEW c \in Callers,
         PauseBegins(c) \/ ResumeBegins(c) \/ CallStep(c)
  PROVE  OfferInv'
<1> DEFINE rec == queue["metadata"]
<1>1. /\ TypeOK /\ QueuedAreRows /\ InsertAlone /\ NobodyForgotten /\ ResumesAlone
      /\ DOMAIN queue = Queues /\ CallsAgree /\ call \in [Callers -> {"idle", "pause", "resume"}]
  BY DEF OfferAll, OfferInv, WorkInv, TypeOK, Uncrossed
<1>2. ASSUME UNCHANGED <<status, arrivals, scan>>,
             queue'["metadata"].pending = rec.pending, queue'["metadata"].pc = rec.pc,
             queue'["metadata"].running = rec.running
      PROVE  QueuedAreRows' /\ InsertAlone'
  BY <1>1, <1>2 DEF QueuedAreRows, Waits, InsertAlone, arrivals
<1>3. CASE PauseBegins(c)
  <2>1. /\ paused' = TRUE /\ NoCall /\ call'[c] = "pause"
        /\ \A d \in Callers : d # c => call'[d] = call[d]
        /\ UNCHANGED <<status, arrivals, queue, scan>>
    BY <1>1, <1>3 DEF PauseBegins, Begin, Uncrossed
  <2>2. NobodyForgotten' /\ ResumesAlone'
    BY <2>1 DEF NobodyForgotten, Offerers, Inserters, ResumesAlone, Resuming, NoCall
  <2>3. QueuedAreRows' /\ InsertAlone'
    BY <1>2, <2>1
  <2> QED
    BY <2>2, <2>3 DEF OfferInv
<1>4. CASE ResumeBegins(c)
  <2>1. ~Recovering /\ call'[c] = "resume" /\ UNCHANGED <<status, arrivals, queue, recovery, scan>>
    BY <1>1, <1>4 DEF ResumeBegins, Begin, Uncrossed
  <2>2. NobodyForgotten' /\ ResumesAlone'
    BY <2>1 DEF NobodyForgotten, Offerers, Inserters, ResumesAlone, Resuming, Recovering
  <2> QED
    BY <1>2, <2>1, <2>2 DEF OfferInv
<1>5. CASE PauseEnds(c)
  <2>1. /\ paused = TRUE /\ UNCHANGED <<status, arrivals, paused, recovery, scan>>
        /\ call[c] = "pause" /\ \A d \in Callers : call'[d] = "resume" => call[d] = "resume"
        /\ queue'["metadata"] = Paused(rec)
    BY <1>1, <1>5 DEF PauseEnds, CallsAgree, Queues
  <2>2. /\ queue'["metadata"].pending = rec.pending /\ queue'["metadata"].pc = rec.pc
        /\ queue'["metadata"].running = rec.running
    BY <1>1, <2>1 DEF Paused, TypeOK, QueueOK, Queues
  <2>3. NobodyForgotten' /\ ResumesAlone'
    BY <1>1, <2>1 DEF NobodyForgotten, Offerers, Inserters, ResumesAlone, Resuming, Recovering
  <2> QED
    BY <1>2, <2>1, <2>2, <2>3 DEF OfferInv
<1>6. CASE ResumeEnds(c)
  <2>1. /\ ~paused /\ call[c] = "resume" /\ ~Recovering /\ recovery' = "read"
        /\ UNCHANGED <<status, arrivals, scan>>
        /\ call'[c] = "idle" /\ \A d \in Callers : d # c => call'[d] = call[d]
    BY <1>1, <1>6 DEF ResumeEnds, CallsAgree, ResumesAlone, Resuming
  <2>2. PICK new \in Resumed("metadata", rec) : queue'["metadata"] = new
    BY <1>1, <1>6, <2>1 DEF ResumeEnds, Queues
  <2>3. new.pending = rec.pending /\ new.running = rec.running /\ new.pc = rec.pc
    <3> DEFINE awake == [rec EXCEPT !.paused = FALSE]
    <3>1. /\ QueueOK(awake) /\ awake.pending = rec.pending /\ awake.running = rec.running
          /\ awake.pc = rec.pc
      BY <1>1 DEF TypeOK, QueueOK, Queues
    <3>2. new = rec \/ new \in Scheduled("metadata", awake)
      BY <2>2 DEF Resumed
    <3> HIDE DEF awake
    <3> QED
      BY <3>1, <3>2, ScheduledWaits
  <2>4. NobodyForgotten'
    BY <2>1 DEF NobodyForgotten, Offerers, Inserters
  <2>5. ResumesAlone'
    BY <1>1, <2>1 DEF ResumesAlone, Resuming, CallsAgree
  <2> QED
    <3>1. QueuedAreRows' /\ InsertAlone'
      BY <1>2, <2>1, <2>2, <2>3
    <3> QED
      BY <2>4, <2>5, <3>1 DEF OfferInv
<1> QED
  BY <1>3, <1>4, <1>5, <1>6 DEF CallStep

\* and a process that dies: the next one walks the dock, unless it is to stay paused.
LEMMA RestartForgetsNone ==
  ASSUME OfferAll, Uncrossed, Restart
  PROVE  OfferInv'
<1>1. NoFile \notin Files /\ "metadata" \in Queues
  BY FilesAssumption DEF Queues
<1>2. /\ paused' = saved /\ UNCHANGED <<status, unplaced>>
      /\ scan'["walk"] = Walk(saved) /\ scan'["recovery"] = NoScan
      /\ queue'["metadata"].pending = {} /\ queue'["metadata"].running = NoFile
      /\ queue'["metadata"].pc = "idle"
      /\ \A f \in Files : arrival'[f] = "none" /\ event'[f] = "none"
      /\ \A c \in Callers : call'[c] = "idle"
      /\ \A f \in Units : status[f] \notin Unread
  BY <1>1 DEF Restart, EmptyQueue, Uncrossed, Scans
<1>3. \A f \in Files : asking'[f].pc \in {"idle", "over"}
  BY DEF Restart, NoAsking, Asked
<1>4. /\ scan'["walk"].file = NoFile /\ scan'["recovery"].file = NoFile
      /\ ~saved => scan'["walk"].pc = "walk" /\ scan'["walk"].left = OnDisk
  BY <1>2 DEF Walk, NoScan
<1>5. \A f \in Files \ unplaced : ~saved /\ status[f] \in Rows \cup {"found"} => WalkLeft(f)'
  BY <1>4, StatusKinds DEF WalkLeft, OnDisk, Scans
<1>6. NobodyForgotten'
  BY <1>2, <1>5, StatusKinds DEF NobodyForgotten, Offerers, Inserters
<1>7. QueuedAreRows'
  BY <1>1, <1>2, <1>3 DEF QueuedAreRows, Waits
<1>8. InsertAlone' /\ ResumesAlone'
  BY <1>2, <1>4 DEF InsertAlone, ResumesAlone, Resuming, Scans
<1> QED
  BY <1>6, <1>7, <1>8 DEF OfferInv

\* The dock begins without a file.
LEMMA OfferInitially ==
  ASSUME Init
  PROVE  OfferAll
<1>1. /\ \A f \in Files : /\ status[f] = "absent" /\ arrival[f] = "none" /\ event[f] = "none"
                          /\ asking[f].pc = "idle"
      /\ queue["metadata"].pending = {} /\ queue["metadata"].running = NoFile
      /\ queue["metadata"].pc = "idle"
      /\ \A s \in Scans : scan[s].file = NoFile
      /\ \A c \in Callers : call[c] = "idle"
  BY DEF Init, EmptyQueue, NoAsking, NoScan, Queues
<1>2. NobodyForgotten /\ QueuedAreRows /\ InsertAlone /\ ResumesAlone
  BY <1>1, StatusKinds, FilesAssumption
     DEF NobodyForgotten, QueuedAreRows, Waits, InsertAlone, ResumesAlone, Resuming
<1> QED
  BY <1>2, WorkInvInitially DEF OfferAll, OfferInv

\* The invariant is inductive.
LEMMA OfferStep ==
  ASSUME OfferAll, Uncrossed, [Next]_vars
  PROVE  OfferAll'
<1>1. WorkInv'
  BY WorkInvStep DEF OfferAll
<1>2. CASE UNCHANGED vars
  BY <1>1, <1>2
  DEF OfferAll, OfferInv, NobodyForgotten, Offerers, Inserters, Waits, Resuming, WalkLeft,
              QueuedAreRows, InsertAlone, ResumesAlone, Recovering, vars, arrivals, flags,
              controls
<1>3. CASE TimerFires \/ ReadStep
  BY <1>1, <1>3, ReadForgetsNone DEF OfferAll
<1>4. CASE FileEnds \/ \E f \in Files : Discards(f)
  BY <1>1, <1>4, GoneForgetsNone DEF OfferAll
<1>5. CASE \E f \in Files : Drops(f) \/ ImportReserves(f) \/ ArrivalStep(f) \/ AsksAgain(f)
  BY <1>1, <1>5, ArrivalForgetsNone DEF OfferAll
<1>6. CASE Rescans \/ \E s \in Scans : ScanStep(s)
  BY <1>1, <1>6, ScanForgetsNone DEF OfferAll, Scans
<1>7. CASE RecoveryStep
  BY <1>1, <1>7, RecoveryForgetsNone DEF OfferAll
<1>8. CASE \E c \in Callers : PauseBegins(c) \/ ResumeBegins(c) \/ CallStep(c)
  BY <1>1, <1>8, CallForgetsNone DEF OfferAll
<1>9. CASE Restart
  BY <1>1, <1>9, RestartForgetsNone DEF OfferAll
<1>10. OfferInv'
  BY <1>2, <1>3, <1>4, <1>5, <1>6, <1>7, <1>8, <1>9 DEF Next, OfferAll
<1> QED
  BY <1>1, <1>10 DEF OfferAll

\* The dock, where its operations do not cross: while processing is not paused, and nothing
\* is being resumed, recovered or walked, a file that lies there and is not read yet waits to
\* be read or has somebody who will offer it, whatever jobs, events and walks were dropped and
\* whatever imports died over a row of theirs before.
THEOREM NobodyIsForgotten ==
  ASSUME Uncrossed
  PROVE  Spec => []NoFileIsForgotten
<1>1. Init => OfferAll
  BY OfferInitially
<1>2. OfferAll /\ [Next]_vars => OfferAll'
  BY OfferStep
<1>3. ASSUME OfferAll
      PROVE  NoFileIsForgotten
  <2>1. SUFFICES ASSUME ~paused, NoCall, recovery = "idle", \A s \in Scans : scan[s] = NoScan,
                        NEW f \in Files, f \notin unplaced
                 PROVE  /\ status[f] \in Unread => Offerers(f)
                        /\ status[f] = "found" => Inserters(f)
                        /\ ~Resuming /\ ~WalkLeft(f) /\ \A s \in Scans : scan[s].file # f
    BY <2>1 DEF NoFileIsForgotten, Offerers, Inserters, Waits, OnDisk
  <2>2. ~Resuming
    BY <2>1 DEF NoCall, Resuming
  <2>3. ~WalkLeft(f) /\ \A s \in Scans : scan[s].file # f
    BY <2>1, FilesAssumption DEF WalkLeft, NoScan
  <2> QED
    BY <1>3, <2>2, <2>3 DEF OfferAll, OfferInv, NobodyForgotten
<1> QED
  BY <1>1, <1>2, <1>3, PTL DEF Spec

===============================================================================
