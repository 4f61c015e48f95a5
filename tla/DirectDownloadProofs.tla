------------------------- MODULE DirectDownloadProofs -------------------------
(***************************************************************************)
(* A direct download that is fetched is waited for, a book it makes is of  *)
(* one piece, and its finished file waits for its import, for any number   *)
(* of attempts, transfers and files and any sizes.                         *)
(***************************************************************************)
EXTENDS DirectDownload, FiniteSetTheorems, SequenceTheorems, TLAPS

(***************************************************************************)
(* Types: those of TypeOK and of what the activations remember.            *)
(***************************************************************************)
Statuses == {"absent", "downloading", "completed", "importing", "imported", "failed"}
Blocks == Seq(Versions \cup {NoVersion})
Fetching == {"open", "record", "create", "write"}
Responded == {"record", "create", "write"}

AttemptRows ==
  [status : Statuses, validator : Versions \cup {NoVersion}, total : Nat, old : BOOLEAN,
   book : Files \cup {NoFile}]

TransferStates ==
  [pc : Fetching \cup {"idle", "discard"}, attempt : Attempts \cup {NoAttempt}, offset : Nat,
   validator : Versions \cup {NoVersion}, expected : Nat, version : Versions \cup {NoVersion},
   total : Nat, read : Nat, file : Files \cup {NoFile}, aborted : BOOLEAN]

ProgressStates == {"none", "downloading", "completed", "failed"}

RowsOK == attempt \in [Attempts -> AttemptRows]

FilesOK ==
  /\ source \in Versions
  /\ disk \in [Files -> Blocks]
  /\ staged \in [dir : BOOLEAN, file : Files \cup {NoFile}]

TransfersOK ==
  /\ transfer \in [Transfers -> TransferStates]
  /\ \A x \in Transfers :
       /\ transfer[x].pc \in Fetching => transfer[x].attempt \in Attempts
       /\ transfer[x].pc \in Responded => transfer[x].version \in Versions

MemoryOK ==
  /\ progress \in [state : ProgressStates, of : Attempts \cup {NoAttempt}]
  /\ controller \in Transfers \cup {NoTransfer}
  /\ current \in Transfers \cup {NoTransfer}

CallersOK ==
  /\ adding \in Attempts \cup {NoAttempt}
  /\ poll \in [pc : {"idle", "apply"}, attempt : Attempts \cup {NoAttempt},
               says : ProgressStates, of : Attempts \cup {NoAttempt}]
  /\ poll.pc = "apply" => poll.attempt \in Attempts
  /\ importer \in [pc : {"idle", "place", "cleanup"}, attempt : Attempts \cup {NoAttempt}]
  /\ importer.pc # "idle" => importer.attempt \in Attempts
  /\ removal \in [{"stop", "cleanup"} ->
                    [pc : {"idle", "await", "delete", "fail"},
                     attempt : Attempts \cup {NoAttempt}, task : Transfers \cup {NoTransfer}]]
  /\ boot \in [pc : {"up", "read", "resume"}, rows : SUBSET Attempts]

Types == RowsOK /\ FilesOK /\ TransfersOK /\ MemoryOK /\ CallersOK

\* A set from 1 to a bound has as many members as that.
LEMMA BoundsAreSizes ==
  /\ IsFiniteSet(Attempts) /\ Cardinality(Attempts) = MaxAttempts
  /\ Cardinality(Files) = MaxFiles
  /\ 1 \in Files
<1>1. MaxAttempts \in Nat /\ MaxFiles \in Nat /\ MaxFiles > MaxAttempts
  BY BoundsAssumption
<1>2. /\ IsFiniteSet(1 .. MaxAttempts)
      /\ Cardinality(1 .. MaxAttempts) = IF 1 > MaxAttempts THEN 0 ELSE MaxAttempts - 1 + 1
  BY <1>1, FS_Interval
<1>3. Cardinality(1 .. MaxFiles) = IF 1 > MaxFiles THEN 0 ELSE MaxFiles - 1 + 1
  BY <1>1, FS_Interval
<1> QED
  BY <1>1, <1>2, <1>3 DEF Attempts, Files

\* There is always a file to stage: no attempt has more than one book.
LEMMA StagedFileIsFile ==
  ASSUME Types
  PROVE  StagedFile \in Files
<1>1. CASE staged.file # NoFile
  BY <1>1 DEF StagedFile, Types, FilesOK
<1>2. CASE staged.file = NoFile
  <2>1. UnusedFiles # {}
    <3>1. SUFFICES ASSUME UnusedFiles = {} PROVE FALSE
      OBVIOUS
    <3> DEFINE book == [a \in Attempts |->
                          IF attempt[a].book = NoFile THEN 1 ELSE attempt[a].book]
    <3>2. Files \subseteq Books
      BY <1>2, <3>1 DEF UnusedFiles, Files, NoFile
    <3>3. book \in [Attempts -> Files]
      BY BoundsAreSizes DEF Types, RowsOK, AttemptRows
    <3>4. \A f \in Files : \E a \in Attempts : book[a] = f
      BY <3>2 DEF Books
    <3>5. book \in Surjection(Attempts, Files)
      BY <3>3, <3>4 DEF Surjection
    <3>6. Cardinality(Files) <= Cardinality(Attempts)
      BY <3>5, BoundsAreSizes, FS_Surjection
    <3> QED
      BY <3>6, BoundsAreSizes, BoundsAssumption
  <2> QED
    BY <1>2, <2>1 DEF StagedFile, UnusedFiles
<1> QED
  BY <1>1, <1>2

\* A representation is its number and has a size.
LEMMA SizesAreSizes ==
  /\ 1 \in Versions /\ NoVersion \notin Versions /\ Versions \subseteq Nat
  /\ \A v \in Versions : Size[v] \in Nat \ {0}
<1>1. Len(Size) \in Nat /\ DOMAIN Size = 1 .. Len(Size) /\ Len(Size) # 0
  BY SizeAssumption
<1> QED
  BY <1>1, SizeAssumption DEF Versions, NoVersion

\* One more block of a representation, over a file or after it.
LEMMA OverwriteIsBlocks ==
  ASSUME NEW blocks \in Blocks, NEW n \in Nat \ {0}, NEW v \in Versions
  PROVE  /\ Overwrite(blocks, n, v) \in Blocks
         /\ n = Len(blocks) + 1 => Len(Overwrite(blocks, n, v)) = n
         /\ n = Len(blocks) + 1 =>
              \A i \in 1 .. n : Overwrite(blocks, n, v)[i] = IF i = n THEN v ELSE blocks[i]
<1> DEFINE long == IF n > Len(blocks) THEN n ELSE Len(blocks)
<1>1. Len(blocks) \in Nat /\ blocks \in [1 .. Len(blocks) -> Versions \cup {NoVersion}]
  BY LenProperties DEF Blocks
<1>2. long \in Nat
  BY <1>1
<1>3. Overwrite(blocks, n, v) \in [1 .. long -> Versions \cup {NoVersion}]
  BY <1>1 DEF Overwrite
<1>4. Overwrite(blocks, n, v) \in Blocks
  BY <1>2, <1>3, SeqDef DEF Blocks
<1>5. Len(Overwrite(blocks, n, v)) = long
  BY <1>2, <1>3, <1>4 DEF Blocks
<1>6. ASSUME n = Len(blocks) + 1, NEW i \in 1 .. n
      PROVE  Overwrite(blocks, n, v)[i] = IF i = n THEN v ELSE blocks[i]
  <2>1. long = n /\ i \in 1 .. long /\ (i = n \/ i <= Len(blocks))
    BY <1>1, <1>6
  <2> QED
    BY <2>1 DEF Overwrite
<1>7. n = Len(blocks) + 1 => Len(Overwrite(blocks, n, v)) = n
  BY <1>1, <1>5
<1> QED
  BY <1>4, <1>6, <1>7

(***************************************************************************)
(* One lemma for the steps of each part.                                   *)
(***************************************************************************)
\* A row of a failed download is a row.
LEMMA FailDownloadTypes ==
  ASSUME Types, NEW a \in Attempts, FailDownload(a)
  PROVE  RowsOK'
  BY DEF FailDownload, Types, RowsOK, AttemptRows, Statuses

\* So is one whose status alone was set.
LEMMA SetStatusTypes ==
  ASSUME Types, NEW a \in Attempts, NEW s \in Statuses, SetStatus(a, s)
  PROVE  RowsOK'
  BY DEF SetStatus, Types, RowsOK, AttemptRows

\* What is known of a transfer that begins, and of the entries it takes over.
LEMMA StartTypes ==
  ASSUME Types, NEW a \in Attempts, NEW offset \in Nat,
         NEW validator \in Versions \cup {NoVersion}, NEW expected \in Nat,
         Start(a, offset, validator, expected)
  PROVE  /\ TransfersOK' /\ MemoryOK'
         /\ staged' \in [dir : BOOLEAN, file : Files \cup {NoFile}]
<1>1. PICK x \in Transfers :
        /\ transfer' = [transfer EXCEPT ![x].pc = "open", ![x].attempt = a,
                                        ![x].offset = offset, ![x].validator = validator,
                                        ![x].expected = expected]
        /\ progress' = [state |-> "downloading", of |-> a]
        /\ controller' = x
        /\ current' = x
        /\ staged' = [staged EXCEPT !.dir = TRUE]
  BY DEF Start
<1> DEFINE new == [transfer[x] EXCEPT !.pc = "open", !.attempt = a, !.offset = offset,
                                        !.validator = validator, !.expected = expected]
<1>2. new \in TransferStates /\ new.pc = "open" /\ new.attempt = a
  BY DEF Types, TransfersOK, TransferStates, Fetching
<1>3. transfer' = [transfer EXCEPT ![x] = new]
  BY <1>1
<1>4. TransfersOK'
  <2> HIDE DEF new
  <2> QED
    BY <1>2, <1>3 DEF Types, TransfersOK, Responded
<1>5. MemoryOK'
  BY <1>1 DEF Types, MemoryOK, ProgressStates
<1> QED
  BY <1>1, <1>4, <1>5 DEF Types, FilesOK

\* What is known of a transfer that is over.
LEMMA OverTypes ==
  ASSUME Types, NEW x \in Transfers, Over(x),
         progress' \in [state : ProgressStates, of : Attempts \cup {NoAttempt}]
  PROVE  TransfersOK' /\ MemoryOK'
<1>1. IdleTransfer \in TransferStates /\ IdleTransfer.pc = "idle"
      /\ [IdleTransfer EXCEPT !.pc = "discard"] \in TransferStates
  BY DEF IdleTransfer, TransferStates, NoSize
<1>2. PICK over \in {IdleTransfer, [IdleTransfer EXCEPT !.pc = "discard"]} :
        transfer' = [transfer EXCEPT ![x] = over]
  BY DEF Over
<1>3. over \in TransferStates /\ over.pc \notin Fetching /\ over.pc \notin Responded
  BY <1>1, <1>2 DEF IdleTransfer, Fetching, Responded
<1>4. TransfersOK'
  BY <1>2, <1>3 DEF Types, TransfersOK
<1>5. MemoryOK'
  BY DEF Over, Types, MemoryOK
<1> QED
  BY <1>4, <1>5

\* A fetch that throws, or completes, leaves a progress that is its own.
LEMMA ThrowsTypes ==
  ASSUME Types, NEW x \in Transfers, Throws(x) \/ Completes(x)
  PROVE  TransfersOK' /\ MemoryOK'
<1>1. progress' \in [state : ProgressStates, of : Attempts \cup {NoAttempt}]
  BY DEF Throws, Completes, Types, TransfersOK, TransferStates, MemoryOK, ProgressStates
<1> QED
  BY <1>1, OverTypes DEF Throws, Completes

\* What is known of files and transfers when the staging directory is gone.
LEMMA RemoveStagingTypes ==
  ASSUME Types, NEW now, RemoveStaging(now), now \in [Transfers -> TransferStates],
         \A x \in Transfers :
           /\ now[x].pc \in Fetching => now[x].attempt \in Attempts
           /\ now[x].pc \in Responded => now[x].version \in Versions
  PROVE  /\ disk' \in [Files -> Blocks]
         /\ staged' \in [dir : BOOLEAN, file : Files \cup {NoFile}]
         /\ TransfersOK'
<1>1. <<>> \in Blocks
  BY EmptySeq DEF Blocks
<1>2. disk' \in [Files -> Blocks]
  BY <1>1 DEF RemoveStaging, Types, FilesOK
<1>3. staged' \in [dir : BOOLEAN, file : Files \cup {NoFile}]
  BY DEF RemoveStaging, NoStaging
<1>4. \A x \in Transfers :
        transfer'[x] = now[x] \/ transfer'[x] = [now[x] EXCEPT !.file = NoFile]
  BY DEF RemoveStaging
<1>5. \A x \in Transfers : [now[x] EXCEPT !.file = NoFile] \in TransferStates
  BY DEF TransferStates
<1> DEFINE fate(x) == IF now[x].file \in {staged.file} \ Books
                        THEN [now[x] EXCEPT !.file = NoFile] ELSE now[x]
<1>6. transfer' = [x \in Transfers |-> fate(x)]
  BY DEF RemoveStaging
<1>7. \A x \in Transfers : fate(x) \in TransferStates
  BY <1>5
<1>8. transfer' \in [Transfers -> TransferStates]
  <2> HIDE DEF fate
  <2> QED
    BY <1>6, <1>7
<1>9. TransfersOK'
  BY <1>4, <1>8 DEF TransfersOK, TransferStates
<1> QED
  BY <1>2, <1>3, <1>9

\* The steps of a transfer.
LEMMA StepTypes ==
  ASSUME Types, NEW x \in Transfers, Step(x)
  PROVE  Types'
<1> DEFINE f == transfer[x]
<1>1. /\ f \in TransferStates
      /\ f.pc \in Fetching => f.attempt \in Attempts
      /\ f.pc \in Responded => f.version \in Versions
  BY DEF Types, TransfersOK
<1>2. CASE Respond(x)
  <2>1. RowsOK' /\ FilesOK' /\ CallersOK'
    BY <1>2 DEF Respond, callers, Types, RowsOK, FilesOK, CallersOK
  <2>2. Size[source] \in Nat
    BY SizesAreSizes DEF Types, FilesOK
  <2>3. TransfersOK' /\ MemoryOK'
    <3>1. CASE RespondsWhole(x)
      <4>1. PICK total \in Nat, validator \in {NoVersion, source} :
              transfer' = [transfer EXCEPT ![x].pc = "record", ![x].version = source,
                                           ![x].total = total, ![x].validator = validator]
        <5>1. PICK total \in {NoSize, Size[source]}, validator \in {NoVersion, source} :
                transfer' = [transfer EXCEPT ![x].pc = "record", ![x].version = source,
                                             ![x].total = total, ![x].validator = validator]
          BY <3>1 DEF RespondsWhole
        <5>2. total \in Nat
          BY <2>2 DEF NoSize
        <5> QED
          BY <5>1, <5>2
      <4>2. TransfersOK'
        BY <1>1, <1>2, <4>1 DEF Respond, Types, FilesOK, TransfersOK, TransferStates, Fetching,
                                Responded
      <4> QED
        BY <3>1, <4>2 DEF RespondsWhole, memory, Types, MemoryOK
    <3>2. CASE RespondsPartial(x)
      <4>1. TransfersOK'
        BY <1>1, <1>2, <2>2, <3>2 DEF Respond, RespondsPartial, Types, FilesOK, TransfersOK,
                                      TransferStates, Fetching, Responded
      <4> QED
        BY <3>2, <4>1 DEF RespondsPartial, memory, Types, MemoryOK
    <3>3. CASE RespondsComplete(x)
      BY <3>3, ThrowsTypes DEF RespondsComplete
    <3> QED
      BY <1>2, <3>1, <3>2, <3>3 DEF Respond
  <2> QED
    BY <2>1, <2>3 DEF Types
<1>3. CASE Record(x)
  <2>1. RowsOK'
    <3>1. f.attempt \in Attempts /\ f.validator \in Versions \cup {NoVersion} /\ f.total \in Nat
      BY <1>1, <1>3 DEF Record, TransferStates, Fetching
    <3> QED
      BY <1>3, <3>1 DEF Record, Types, RowsOK, AttemptRows
  <2>2. TransfersOK'
    BY <1>1, <1>3 DEF Record, Types, TransfersOK, TransferStates, Fetching, Responded
  <2> QED
    BY <1>3, <2>1, <2>2 DEF Record, memory, callers, Types, FilesOK, MemoryOK, CallersOK
<1>4. CASE Create(x)
  <2>1. RowsOK' /\ CallersOK' /\ source' \in Versions
    BY <1>4 DEF Create, callers, Types, RowsOK, FilesOK, CallersOK
  <2>2. CASE /\ staged' = [staged EXCEPT !.file = StagedFile]
             /\ disk' = IF f.offset = 0 THEN [disk EXCEPT ![StagedFile] = <<>>] ELSE disk
             /\ transfer' = [transfer EXCEPT ![x].pc = "write", ![x].file = StagedFile]
             /\ UNCHANGED memory
    <3>1. <<>> \in Blocks /\ StagedFile \in Files
      BY EmptySeq, StagedFileIsFile DEF Blocks
    <3>2. FilesOK'
      BY <2>1, <2>2, <3>1 DEF Types, FilesOK
    <3>3. TransfersOK'
      BY <1>1, <1>4, <2>2, <3>1 DEF Create, Types, TransfersOK, TransferStates, Fetching,
                                    Responded
    <3> QED
      BY <2>1, <2>2, <3>2, <3>3 DEF Types, MemoryOK, memory
  <2>3. CASE Throws(x) /\ UNCHANGED <<disk, staged>>
    BY <2>1, <2>3, ThrowsTypes DEF Types, FilesOK
  <2> QED
    BY <1>4, <2>2, <2>3 DEF Create
<1>5. CASE Write(x)
  <2>1. TransfersOK'
    <3>1. f.read + 1 \in Nat /\ transfer' = [transfer EXCEPT ![x].read = f.read + 1]
      BY <1>1, <1>5 DEF Write, TransferStates
    <3> QED
      BY <1>1, <3>1 DEF Types, TransfersOK, TransferStates, Fetching, Responded
  <2>2. CASE f.file = NoFile
    BY <1>5, <2>1, <2>2
       DEF Write, memory, callers, Types, RowsOK, FilesOK, MemoryOK, CallersOK
  <2>3. CASE f.file # NoFile
    <3> DEFINE blocks == disk[f.file]
               more == IF f.offset = 0 THEN Overwrite(blocks, f.read + 1, f.version)
                                       ELSE Append(blocks, f.version)
    <3>1. f.file \in Files /\ blocks \in Blocks /\ f.read + 1 \in Nat \ {0}
          /\ f.version \in Versions
      BY <1>1, <1>5, <2>3 DEF Write, Types, FilesOK, TransferStates, Responded
    <3>2. more \in Blocks
      BY <3>1, OverwriteIsBlocks, AppendProperties DEF Blocks
    <3>3. disk' = [disk EXCEPT ![f.file] = more]
      BY <1>5, <2>3 DEF Write
    <3>4. disk' \in [Files -> Blocks]
      BY <3>2, <3>3 DEF Types, FilesOK
    <3> QED
      BY <1>5, <2>1, <3>4
         DEF Write, memory, callers, Types, RowsOK, FilesOK, MemoryOK, CallersOK
  <2> QED
    BY <2>2, <2>3
<1>6. CASE Finish(x) \/ Break(x)
  BY <1>6, ThrowsTypes DEF Finish, Break, callers, Types, RowsOK, FilesOK, CallersOK
<1>7. CASE Discard(x)
  <2> DEFINE over == [transfer EXCEPT ![x] = IdleTransfer]
  <2>1. over \in [Transfers -> TransferStates]
    BY DEF IdleTransfer, Types, TransfersOK, TransferStates, NoSize
  <2>2. \A y \in Transfers :
          /\ over[y].pc \in Fetching => over[y].attempt \in Attempts
          /\ over[y].pc \in Responded => over[y].version \in Versions
    BY DEF IdleTransfer, Types, TransfersOK, Fetching, Responded
  <2>3. FilesOK' /\ TransfersOK'
    <3>1. source' \in Versions
      BY <1>7 DEF Discard, Types, FilesOK
    <3>2. CASE RemoveStaging(over)
      <4> HIDE DEF over
      <4> QED
        BY <2>1, <2>2, <3>1, <3>2, RemoveStagingTypes DEF FilesOK
    <3>3. CASE transfer' = over /\ UNCHANGED <<disk, staged>>
      BY <2>1, <2>2, <3>1, <3>3 DEF Types, FilesOK, TransfersOK
    <3> QED
      BY <1>7, <3>2, <3>3 DEF Discard
  <2> QED
    BY <1>7, <2>3 DEF Discard, memory, callers, Types, RowsOK, MemoryOK, CallersOK
<1> QED
  BY <1>2, <1>3, <1>4, <1>5, <1>6, <1>7 DEF Step

\* Idle activations are of the types they have.
LEMMA IdleTypes ==
  /\ IdleTransfer \in TransferStates /\ IdleTransfer.pc = "idle"
  /\ IdlePoll \in [pc : {"idle", "apply"}, attempt : Attempts \cup {NoAttempt},
                   says : ProgressStates, of : Attempts \cup {NoAttempt}]
  /\ IdlePoll.pc = "idle"
  /\ IdleImporter \in [pc : {"idle", "place", "cleanup"}, attempt : Attempts \cup {NoAttempt}]
  /\ IdleImporter.pc = "idle"
  /\ IdleRemoval \in [pc : {"idle", "await", "delete", "fail"},
                      attempt : Attempts \cup {NoAttempt}, task : Transfers \cup {NoTransfer}]
  /\ IdleRemoval.pc = "idle"
  /\ NoProgress \in [state : ProgressStates, of : Attempts \cup {NoAttempt}]
  BY DEF IdleTransfer, TransferStates, NoSize, IdlePoll, IdleImporter, IdleRemoval, NoProgress,
         ProgressStates

\* The entry that is forgotten, and an attempt grabbed, added or aged.
LEMMA GrabTypes ==
  ASSUME Types, Prune \/ Add \/ \E a \in Attempts : Grab(a) \/ Ages(a)
  PROVE  Types'
<1>1. CASE Prune
  BY <1>1, IdleTypes
     DEF Prune, callers, Types, RowsOK, FilesOK, TransfersOK, MemoryOK, CallersOK
<1>2. CASE Add
  <2>1. adding \in Attempts
    BY <1>2 DEF Add, Types, CallersOK
  <2>2. CallersOK' /\ source' \in Versions
    BY <1>2 DEF Add, Types, FilesOK, CallersOK
  <2>3. CASE Start(adding, 0, NoVersion, NoSize) /\ UNCHANGED <<attempt, disk>>
    BY <2>1, <2>2, <2>3, StartTypes DEF Types, RowsOK, FilesOK, NoSize
  <2>4. CASE SetStatus(adding, "failed") /\ UNCHANGED <<disk, staged, memory, transfer>>
    BY <2>1, <2>2, <2>4, SetStatusTypes
       DEF Types, FilesOK, TransfersOK, MemoryOK, memory, Statuses
  <2> QED
    BY <1>2, <2>3, <2>4 DEF Add
<1>3. ASSUME NEW a \in Attempts, Grab(a)
      PROVE  Types'
  <2>1. RowsOK'
    BY <1>3, SetStatusTypes DEF Grab, Statuses
  <2> QED
    BY <1>3, <2>1 DEF Grab, memory, Types, FilesOK, TransfersOK, MemoryOK, CallersOK
<1>4. ASSUME NEW a \in Attempts, Ages(a)
      PROVE  Types'
  <2>1. RowsOK'
    BY <1>4 DEF Ages, Types, RowsOK, AttemptRows
  <2> QED
    BY <1>4, <2>1 DEF Ages, memory, callers, Types, FilesOK, TransfersOK, MemoryOK, CallersOK
<1> QED
  BY <1>1, <1>2, <1>3, <1>4

\* The poll.
LEMMA PollTypes ==
  ASSUME Types, PollApply \/ \E a \in Attempts : PollRead(a)
  PROVE  Types'
<1>1. ASSUME NEW a \in Attempts, PollRead(a)
      PROVE  Types'
  BY <1>1 DEF PollRead, memory, Types, RowsOK, FilesOK, TransfersOK, MemoryOK, CallersOK
<1>2. CASE PollApply
  <2> DEFINE a == poll.attempt
  <2>1. a \in Attempts
    BY <1>2 DEF PollApply, Types, CallersOK
  <2>2. RowsOK'
    <3>1. CASE FailDownload(a)
      BY <2>1, <3>1, FailDownloadTypes
    <3>2. CASE attempt' = [attempt EXCEPT ![a].status = "completed",
                                          ![a].validator = NoVersion]
      BY <2>1, <3>2 DEF Types, RowsOK, AttemptRows, Statuses
    <3>3. CASE UNCHANGED attempt
      BY <3>3 DEF Types, RowsOK
    <3> QED
      BY <1>2, <3>1, <3>2, <3>3 DEF PollApply
  <2> QED
    BY <1>2, <2>2, IdleTypes
       DEF PollApply, memory, Types, FilesOK, TransfersOK, MemoryOK, CallersOK
<1> QED
  BY <1>1, <1>2

\* A removal begins,
LEMMA RemovesTypes ==
  ASSUME Types, NEW k \in {"stop", "cleanup"}, NEW a \in Attempts, Removes(k, a)
  PROVE  /\ TransfersOK'
         /\ removal' \in [{"stop", "cleanup"} ->
                            [pc : {"idle", "await", "delete", "fail"},
                             attempt : Attempts \cup {NoAttempt},
                             task : Transfers \cup {NoTransfer}]]
<1>1. \A x \in Transfers : [transfer[x] EXCEPT !.aborted = TRUE] \in TransferStates
  BY DEF Types, TransfersOK, TransferStates
<1>2. \A x \in Transfers : transfer[x] \in TransferStates
  BY DEF Types, TransfersOK
<1>3. transfer' \in [Transfers -> TransferStates]
  BY <1>1, <1>2 DEF Removes
<1>4. \A x \in Transfers : /\ transfer'[x].pc = transfer[x].pc
                           /\ transfer'[x].attempt = transfer[x].attempt
                           /\ transfer'[x].version = transfer[x].version
  BY <1>2 DEF Removes, TransferStates
<1>5. TransfersOK'
  BY <1>3, <1>4 DEF Types, TransfersOK
<1> QED
  BY <1>5 DEF Removes, Types, MemoryOK, CallersOK

\* and goes on.
LEMMA RemovalTypes ==
  ASSUME Types, (\E a \in Attempts : Stop(a)) \/ \E k \in DOMAIN removal : RemovalStep(k)
  PROVE  Types'
<1>1. ASSUME NEW a \in Attempts, Stop(a)
      PROVE  Types'
  BY <1>1, RemovesTypes DEF Stop, memory, Types, RowsOK, FilesOK, MemoryOK, CallersOK
<1>2. ASSUME NEW k \in {"stop", "cleanup"}, RemovalForgets(k)
      PROVE  Types'
  BY <1>2, IdleTypes
     DEF RemovalForgets, Types, RowsOK, FilesOK, TransfersOK, MemoryOK, CallersOK
<1>3. ASSUME NEW k \in {"stop", "cleanup"}, RemovalDeletes(k)
      PROVE  Types'
  <2> DEFINE over == IF k = "stop" THEN [removal[k] EXCEPT !.pc = "fail"] ELSE IdleRemoval
  <2>1. PICK rec \in {over, IdleRemoval} : removal' = [removal EXCEPT ![k] = rec]
    BY <1>3 DEF RemovalDeletes
  <2>2. removal' \in [{"stop", "cleanup"} ->
                        [pc : {"idle", "await", "delete", "fail"},
                         attempt : Attempts \cup {NoAttempt}, task : Transfers \cup {NoTransfer}]]
    BY <2>1, IdleTypes DEF Types, CallersOK
  <2>3. TransfersOK' /\ FilesOK'
    <3>1. source' \in Versions
      BY <1>3 DEF RemovalDeletes, Types, FilesOK
    <3>2. CASE RemoveStaging(transfer)
      BY <3>1, <3>2, RemoveStagingTypes DEF FilesOK, Types, TransfersOK
    <3>3. CASE UNCHANGED <<disk, staged, transfer>>
      BY <3>1, <3>3 DEF Types, FilesOK, TransfersOK
    <3> QED
      BY <1>3, <3>2, <3>3 DEF RemovalDeletes
  <2> QED
    BY <1>3, <2>2, <2>3 DEF RemovalDeletes, memory, Types, RowsOK, MemoryOK, CallersOK
<1>4. ASSUME NEW k \in {"stop", "cleanup"}, RemovalFails(k)
      PROVE  Types'
  <2>1. RowsOK'
    BY <1>4 DEF RemovalFails, SetStatus, Types, RowsOK, AttemptRows, Statuses
  <2> QED
    BY <1>4, <2>1, IdleTypes
       DEF RemovalFails, memory, Types, FilesOK, TransfersOK, MemoryOK, CallersOK
<1> QED
  BY <1>1, <1>2, <1>3, <1>4 DEF RemovalStep, Types, CallersOK

\* The import of what was downloaded.
LEMMA ImportTypes ==
  ASSUME Types, ImportStep \/ \E a \in Attempts : Verified(a)
  PROVE  Types'
<1>1. ASSUME NEW a \in Attempts, ImportClaim(a)
      PROVE  Types'
  <2>1. RowsOK'
    BY <1>1, SetStatusTypes DEF ImportClaim, Statuses
  <2> QED
    BY <1>1, <2>1 DEF ImportClaim, memory, Types, FilesOK, TransfersOK, MemoryOK, CallersOK
<1>2. CASE ImportPlace
  <2> DEFINE a == importer.attempt
  <2>1. a \in Attempts
    BY <1>2 DEF ImportPlace, Types, CallersOK
  <2>2. RowsOK'
    <3>1. CASE attempt' = [attempt EXCEPT ![a].book = staged.file]
      BY <2>1, <3>1 DEF Types, RowsOK, FilesOK, AttemptRows
    <3>2. CASE FailDownload(a)
      BY <2>1, <3>2, FailDownloadTypes
    <3> QED
      BY <1>2, <3>1, <3>2 DEF ImportPlace
  <2> QED
    BY <1>2, <2>1, <2>2, IdleTypes
       DEF ImportPlace, memory, Types, FilesOK, TransfersOK, MemoryOK, CallersOK
<1>3. CASE ImportCleanup
  <2>1. importer.attempt \in Attempts
    BY <1>3 DEF ImportCleanup, Types, CallersOK
  <2> QED
    BY <1>3, <2>1, RemovesTypes, IdleTypes
       DEF ImportCleanup, memory, Types, RowsOK, FilesOK, MemoryOK, CallersOK
<1>4. ASSUME NEW a \in Attempts, Verified(a)
      PROVE  Types'
  <2>1. RowsOK'
    BY <1>4, SetStatusTypes DEF Verified, Statuses
  <2> QED
    BY <1>4, <2>1 DEF Verified, memory, callers, Types, FilesOK, TransfersOK, MemoryOK,
                      CallersOK
<1> QED
  BY <1>1, <1>2, <1>3, <1>4 DEF ImportStep

\* Restart and bootstrap.
LEMMA BootTypes ==
  ASSUME Types, Restart \/ BootStep \/ SourceChanges
  PROVE  Types'
<1>1. CASE Restart
  <2>1. TransfersOK'
    BY <1>1, IdleTypes DEF Restart, TransfersOK, Fetching, Responded
  <2>2. CallersOK'
    BY <1>1, IdleTypes DEF Restart, Types, CallersOK
  <2> QED
    BY <1>1, <2>1, <2>2, IdleTypes DEF Restart, Types, RowsOK, FilesOK, MemoryOK
<1>2. CASE BootRead
  BY <1>2 DEF BootRead, memory, Types, RowsOK, FilesOK, TransfersOK, MemoryOK, CallersOK
<1>3. ASSUME NEW a \in Attempts, BootResume(a)
      PROVE  Types'
  <2> DEFINE row == attempt[a]
  <2>1. CallersOK' /\ source' \in Versions
    BY <1>3 DEF BootResume, Types, FilesOK, CallersOK
  <2>2. ASSUME NEW expected \in {NoSize, row.total}, UNCHANGED <<attempt, disk>>,
               Start(a, StagedBytes, row.validator, expected)
        PROVE  Types'
    <3>1. StagedBytes \in Nat
      BY LenProperties DEF StagedBytes, Types, FilesOK, Blocks
    <3>2. row.validator \in Versions \cup {NoVersion} /\ expected \in Nat
      BY DEF Types, RowsOK, AttemptRows, NoSize
    <3> QED
      BY <2>1, <2>2, <3>1, <3>2, StartTypes DEF Types, RowsOK, FilesOK
  <2>3. CASE FailDownload(a) /\ UNCHANGED <<disk, staged, memory, transfer>>
    BY <2>1, <2>3, FailDownloadTypes DEF Types, FilesOK, TransfersOK, MemoryOK, memory
  <2> QED
    BY <1>3, <2>2, <2>3 DEF BootResume
<1>4. CASE BootReap
  <2>1. TransfersOK' /\ FilesOK'
    <3>1. source' \in Versions
      BY <1>4 DEF BootReap, Types, FilesOK
    <3>2. CASE RemoveStaging(transfer)
      BY <3>1, <3>2, RemoveStagingTypes DEF FilesOK, Types, TransfersOK
    <3>3. CASE UNCHANGED <<disk, staged, transfer>>
      BY <3>1, <3>3 DEF Types, FilesOK, TransfersOK
    <3> QED
      BY <1>4, <3>2, <3>3 DEF BootReap
  <2> QED
    BY <1>4, <2>1 DEF BootReap, Up, memory, Types, RowsOK, MemoryOK, CallersOK
<1>5. CASE SourceChanges
  BY <1>5 DEF SourceChanges, memory, callers, Types, RowsOK, FilesOK, TransfersOK, MemoryOK,
              CallersOK
<1> QED
  BY <1>1, <1>2, <1>3, <1>4, <1>5 DEF BootStep

\* Nothing has been asked for.
LEMMA TypesInitially ==
  ASSUME Init
  PROVE  Types
<1>1. RowsOK
  BY DEF Init, RowsOK, AttemptRows, AbsentAttempt, Statuses, NoSize
<1>2. FilesOK
  BY SizesAreSizes, EmptySeq DEF Init, FilesOK, Blocks, NoStaging
<1>3. TransfersOK
  BY IdleTypes DEF Init, TransfersOK, Fetching, Responded
<1>4. MemoryOK /\ CallersOK
  BY IdleTypes DEF Init, MemoryOK, CallersOK, Up
<1> QED
  BY <1>1, <1>2, <1>3, <1>4 DEF Types

\* Every step keeps the types.
LEMMA TypesStep ==
  ASSUME Types, [Next]_vars
  PROVE  Types'
<1>1. CASE UNCHANGED vars
  BY <1>1 DEF vars, memory, callers, Types, RowsOK, FilesOK, TransfersOK, MemoryOK, CallersOK
<1> QED
  BY <1>1, StepTypes, GrabTypes, PollTypes, RemovalTypes, ImportTypes, BootTypes DEF Next

\* DirectDownloadService and its callers, whatever they do and whenever the process dies:
\* the types of the rows, the files and the entries of the hash.
THEOREM DirectTypesHold == Spec => []TypeOK
<1>1. Types => TypeOK
  BY DEF Types, RowsOK, FilesOK, MemoryOK, AttemptRows, Statuses, Blocks, TypeOK
<1>2. Types /\ [Next]_vars => Types'
  BY TypesStep
<1> QED
  BY <1>1, <1>2, TypesInitially, PTL DEF Spec

(***************************************************************************)
(* Who may be at work at once.                                             *)
(***************************************************************************)
\* The kinds of activity under which the entries of the hash are one attempt's.
Apart == Operations \cap {"prompt_retry", "early_stop", "remove_settled", "early_poll"} = {}

Going(a) == attempt[a].status \in Unsettled
Live(x) == transfer[x].pc \in Fetching /\ ~transfer[x].aborted
AllIdle == \A x \in Transfers : transfer[x] = IdleTransfer
NoRemoval == \A k \in {"stop", "cleanup"} : removal[k] = IdleRemoval
PollWill(says) == poll.pc = "apply" /\ poll.says = says /\ Is(poll.attempt, "downloading")

\* One attempt is unsettled at a time, and one transfer under way.
OneOfEach ==
  /\ \A a, b \in Attempts : Going(a) /\ Going(b) => a = b
  /\ \A x, y \in Transfers : transfer[x] # IdleTransfer /\ transfer[y] # IdleTransfer => x = y
  /\ \A a \in Attempts : Is(a, "absent") => attempt[a] = AbsentAttempt
  /\ poll.pc = "apply" => ~Is(poll.attempt, "absent")
  /\ importer.pc # "idle" => ~Is(importer.attempt, "absent")
  /\ \A x \in Transfers :
       transfer[x].pc \in Fetching => ~Is(transfer[x].attempt, "absent")

\* A transfer that was not aborted has the entries, its attempt is at "downloading", and
\* nobody else is about to do anything with it but the poll.
LiveAlone ==
  /\ controller # NoTransfer => transfer[controller].pc \in Fetching
  /\ \A x \in Transfers :
       Live(x) =>
         /\ controller = x
         /\ progress = [state |-> "downloading", of |-> transfer[x].attempt]
         /\ Is(transfer[x].attempt, "downloading")
         /\ adding = NoAttempt /\ importer = IdleImporter /\ NoRemoval

\* While an add is under way nothing is left of an attempt before.
AddAlone ==
  adding # NoAttempt =>
    /\ Is(adding, "downloading") /\ ~attempt[adding].old
    /\ Forgotten
    /\ boot.pc = "up"

\* The poll settles an attempt, if it is about to, only when its transfer is over.
PollSettles ==
  PollWill("failed") \/ PollWill("completed") \/ (PollWill("none") /\ attempt[poll.attempt].old)

PollAlone ==
  /\ PollSettles => adding = NoAttempt /\ \A x \in Transfers : ~Live(x)
  /\ PollWill("completed") => AllIdle

\* A finished download has no transfer that could still take its directory away.
FinishedAlone ==
  /\ progress.state = "completed" => AllIdle
  /\ \A a \in Attempts : Is(a, "completed") => AllIdle

\* An import and a removal are those of the attempt that is unsettled, if there is one.
ImportAlone ==
  importer # IdleImporter =>
    \A a \in Attempts : Going(a) => a = importer.attempt /\ Is(a, "importing")

RemovalAlone ==
  \A k \in {"stop", "cleanup"} :
    removal[k] # IdleRemoval => \A a \in Attempts : Going(a) => a = removal[k].attempt

\* Until the bootstrap is through nobody else is there.
BootAlone ==
  /\ boot.pc # "up" => adding = NoAttempt /\ poll = IdlePoll /\ importer = IdleImporter
                       /\ NoRemoval
  /\ boot.pc = "read" \/ boot.rows # {} => progress = NoProgress /\ AllIdle
  /\ boot.rows # {} => boot.pc = "resume"
  /\ \A a \in boot.rows : Is(a, "downloading")

AllAlone ==
  /\ OneOfEach /\ LiveAlone /\ AddAlone /\ PollAlone /\ FinishedAlone
  /\ ImportAlone /\ RemovalAlone /\ BootAlone

FetchInv == Types /\ AllAlone

\* A transfer that is not over is not idle.
LEMMA LiveIsBusy ==
  ASSUME NEW x \in Transfers, Live(x)
  PROVE  transfer[x] # IdleTransfer
  BY IdleTypes DEF Live, Fetching

\* Steps that change nothing but what an activation has in hand, or end it,
SameRows ==
  \A a \in Attempts :
    /\ attempt'[a].status = attempt[a].status
    /\ attempt'[a].old = attempt[a].old
    /\ attempt[a] = AbsentAttempt => attempt'[a] = AbsentAttempt

Quieter ==
  \A x \in Transfers :
    /\ transfer[x] = IdleTransfer => transfer'[x] = IdleTransfer
    /\ transfer[x].pc \in Fetching => transfer'[x].pc \in Fetching
    /\ transfer'[x].pc \in Fetching =>
         /\ transfer[x].pc \in Fetching
         /\ transfer'[x].attempt = transfer[x].attempt
         /\ transfer[x].aborted => transfer'[x].aborted

ImportGoesOn ==
  /\ importer.pc # "idle" /\ importer'.pc # "idle"
  /\ importer'.attempt = importer.attempt

\* disturb nobody.
LEMMA QuieterKeeps ==
  ASSUME FetchInv, SameRows, Quieter,
         UNCHANGED <<progress, controller, adding, poll, removal>>,
         UNCHANGED importer \/ ImportGoesOn,
         UNCHANGED boot \/ boot' = Up
  PROVE  AllAlone'
<1> USE DEF FetchInv, AllAlone, SameRows, Quieter
<1>1. importer = IdleImporter => importer' = IdleImporter
  BY IdleTypes DEF ImportGoesOn
<1>2. importer'.pc # "idle" => importer # IdleImporter /\ importer'.attempt = importer.attempt
  BY IdleTypes DEF ImportGoesOn
<1>3. importer' # IdleImporter => importer # IdleImporter /\ importer'.attempt = importer.attempt
  BY IdleTypes DEF ImportGoesOn
<1>4. OneOfEach'
  <2>1. \A a \in Attempts : attempt'[a].status = attempt[a].status
    OBVIOUS
  <2>2. poll.pc = "apply" => poll.attempt \in Attempts
    BY DEF Types, CallersOK
  <2>3. importer.pc # "idle" => importer.attempt \in Attempts
    BY DEF Types, CallersOK
  <2>4. importer'.pc # "idle" => importer.pc # "idle"
    BY DEF ImportGoesOn
  <2> QED
    BY <1>2, <2>1, <2>2, <2>3, <2>4 DEF OneOfEach, Going, Is, Types, TransfersOK
<1>5. LiveAlone'
  BY <1>1 DEF LiveAlone, Is, Types, TransfersOK, MemoryOK, NoRemoval, Live
<1>6. AddAlone'
  BY <1>1 DEF AddAlone, Is, Types, CallersOK, Forgotten, Up
<1>7. PollAlone'
  BY DEF PollAlone, PollSettles, PollWill, Is, Types, CallersOK, AllIdle, Live
<1>8. FinishedAlone'
  BY DEF FinishedAlone, Is, AllIdle
<1>9. ImportAlone' /\ RemovalAlone'
  BY <1>3 DEF ImportAlone, RemovalAlone, Going, Is
<1>10. BootAlone'
  BY <1>1 DEF BootAlone, Is, AllIdle, NoRemoval, Types, CallersOK, Up
<1> QED
  BY <1>4, <1>5, <1>6, <1>7, <1>8, <1>9, <1>10

\* The end of a transfer.
LEMMA ThrowsKeeps ==
  ASSUME FetchInv, NEW x \in Transfers, transfer[x] # IdleTransfer,
         Throws(x) \/ Completes(x), UNCHANGED <<attempt, callers>>
  PROVE  AllAlone'
<1> USE DEF FetchInv, AllAlone, callers
<1>1. /\ \A y \in Transfers \ {x} : transfer[y] = IdleTransfer /\ transfer'[y] = IdleTransfer
      /\ transfer'[x].pc \notin Fetching
      /\ progress'.state = "completed" => transfer'[x] = IdleTransfer
  <2>1. transfer \in [Transfers -> TransferStates]
    BY DEF Types, TransfersOK
  <2>2. \A y \in Transfers \ {x} : transfer[y] = IdleTransfer
    BY DEF OneOfEach
  <2>3. transfer' = IF progress'.state = "completed"
                      THEN [transfer EXCEPT ![x] = IdleTransfer]
                      ELSE [transfer EXCEPT ![x] = [IdleTransfer EXCEPT !.pc = "discard"]]
    BY DEF Throws, Completes, Over
  <2>4. IdleTransfer.pc = "idle" /\ [IdleTransfer EXCEPT !.pc = "discard"].pc = "discard"
    BY DEF IdleTransfer
  <2> QED
    BY <2>1, <2>2, <2>3, <2>4 DEF Fetching
<1>2. \A y \in Transfers : ~Live(y)'
  BY <1>1, IdleTypes DEF Live, Fetching
<1>3. adding = NoAttempt /\ boot.pc # "read" /\ boot.rows = {}
  BY DEF AddAlone, Forgotten, BootAlone, AllIdle
<1>4. progress.state # "completed" /\ (\A a \in Attempts : ~Is(a, "completed"))
      /\ ~PollWill("completed")
  BY DEF FinishedAlone, PollAlone, AllIdle
<1>5. OneOfEach'
  BY <1>1, IdleTypes DEF OneOfEach, Going, Is, Fetching
<1>6. LiveAlone' /\ AddAlone'
  BY <1>2, <1>3 DEF LiveAlone, AddAlone, Throws, Completes, Over
<1>7. PollAlone'
  BY <1>2, <1>3, <1>4 DEF PollAlone, PollSettles, PollWill, Is
<1>8. FinishedAlone'
  BY <1>1, <1>4 DEF FinishedAlone, Is, AllIdle
<1>9. ImportAlone' /\ RemovalAlone'
  BY DEF ImportAlone, RemovalAlone, Going, Is
<1>10. BootAlone'
  BY <1>3 DEF BootAlone, NoRemoval
<1> QED
  BY <1>5, <1>6, <1>7, <1>8, <1>9, <1>10

\* The staging directory goes: a transfer loses at most its file.
LEMMA RemoveStagingLeaves ==
  ASSUME Types, NEW now, RemoveStaging(now), now \in [Transfers -> TransferStates],
         NEW x \in Transfers
  PROVE  /\ now[x] = IdleTransfer => transfer'[x] = IdleTransfer
         /\ transfer'[x].pc = now[x].pc
         /\ transfer'[x].attempt = now[x].attempt
         /\ transfer'[x].aborted = now[x].aborted
<1>1. transfer'[x] = now[x] \/ transfer'[x] = [now[x] EXCEPT !.file = NoFile]
  BY DEF RemoveStaging
<1>2. now[x] \in TransferStates
  OBVIOUS
<1>3. [IdleTransfer EXCEPT !.file = NoFile] = IdleTransfer
  <2>1. IdleTransfer \in TransferStates /\ IdleTransfer.file = NoFile
    BY IdleTypes DEF IdleTransfer
  <2> QED
    BY <2>1 DEF TransferStates
<1> QED
  BY <1>1, <1>2, <1>3 DEF TransferStates

\* A transfer, from its response to its end.
LEMMA StepKeeps ==
  ASSUME FetchInv, NEW x \in Transfers, Step(x)
  PROVE  AllAlone'
<1> DEFINE f == transfer[x]
           GoesOn == /\ f.pc \in Fetching
                     /\ \A y \in Transfers \ {x} : transfer'[y] = transfer[y]
                     /\ transfer'[x].pc \in Fetching
                     /\ transfer'[x].attempt = f.attempt
                     /\ transfer'[x].aborted = f.aborted
<1>1. Types /\ transfer \in [Transfers -> TransferStates]
  BY DEF FetchInv, Types, TransfersOK
<1>2. f.pc \in Fetching \cup {"discard"} => f # IdleTransfer
  BY IdleTypes DEF Fetching
<1>3. ASSUME GoesOn, SameRows, UNCHANGED <<memory, callers>>
      PROVE  AllAlone'
  <2>1. Quieter
    BY <1>2, <1>3 DEF Quieter
  <2> QED
    BY <1>3, <2>1, QuieterKeeps DEF memory, callers
<1>4. UNCHANGED attempt => SameRows
  BY DEF SameRows
<1>5. CASE Respond(x)
  <2>1. CASE RespondsComplete(x)
    BY <1>2, <1>5, <2>1, ThrowsKeeps DEF Respond, RespondsComplete, Fetching
  <2>2. CASE RespondsWhole(x) \/ RespondsPartial(x)
    <3>1. GoesOn
      BY <1>1, <1>5, <2>2
         DEF Respond, RespondsWhole, RespondsPartial, Fetching, TransferStates
    <3> QED
      BY <1>3, <1>4, <1>5, <2>2, <3>1 DEF Respond, RespondsWhole, RespondsPartial
  <2> QED
    BY <1>5, <2>1, <2>2 DEF Respond
<1>6. CASE Record(x)
  <2>1. SameRows
    <3>1. f.attempt \in Attempts /\ attempt[f.attempt] # AbsentAttempt
      BY <1>1, <1>6 DEF Record, Types, TransfersOK, FetchInv, AllAlone, OneOfEach, Fetching, Is,
                        AbsentAttempt
    <3> QED
      BY <1>6, <3>1 DEF Record, SameRows, FetchInv, Types, RowsOK, AttemptRows
  <2>2. GoesOn
    BY <1>1, <1>6 DEF Record, Fetching, TransferStates
  <2> QED
    BY <1>3, <1>6, <2>1, <2>2 DEF Record
<1>7. CASE Create(x)
  <2>1. CASE Throws(x)
    BY <1>2, <1>7, <2>1, ThrowsKeeps DEF Create, Fetching
  <2>2. CASE /\ transfer' = [transfer EXCEPT ![x].pc = "write", ![x].file = StagedFile]
             /\ UNCHANGED memory
    <3>1. GoesOn
      BY <1>1, <1>7, <2>2 DEF Create, Fetching, TransferStates
    <3> QED
      BY <1>3, <1>4, <1>7, <2>2, <3>1 DEF Create
  <2> QED
    BY <1>7, <2>1, <2>2 DEF Create
<1>8. CASE Write(x)
  <2>1. GoesOn
    BY <1>1, <1>8 DEF Write, Fetching, TransferStates
  <2> QED
    BY <1>3, <1>4, <1>8, <2>1 DEF Write
<1>9. CASE Finish(x) \/ Break(x)
  BY <1>2, <1>9, ThrowsKeeps DEF Finish, Break, Fetching
<1>10. CASE Discard(x)
  <2> DEFINE over == [transfer EXCEPT ![x] = IdleTransfer]
  <2>1. over \in [Transfers -> TransferStates]
    BY <1>1, IdleTypes
  <2>2. \A y \in Transfers :
          /\ over[y] = IdleTransfer => transfer'[y] = IdleTransfer
          /\ transfer'[y].pc = over[y].pc
          /\ transfer'[y].attempt = over[y].attempt
          /\ transfer'[y].aborted = over[y].aborted
    <3>1. CASE RemoveStaging(over)
      <4> HIDE DEF over
      <4> QED
        BY <1>1, <2>1, <3>1, RemoveStagingLeaves
    <3>2. CASE transfer' = over
      BY <3>2
    <3> QED
      BY <1>10, <3>1, <3>2 DEF Discard
  <2>3. Quieter
    BY <1>1, <1>10, <2>2, IdleTypes DEF Discard, Quieter, Fetching
  <2> QED
    BY <1>4, <1>10, <2>3, QuieterKeeps DEF Discard, memory, callers
<1> QED
  BY <1>5, <1>6, <1>7, <1>8, <1>9, <1>10 DEF Step

\* The callers are the ones there were, or fewer.
FewerCallers ==
  /\ adding' \in {adding, NoAttempt}
  /\ poll' \in {poll, IdlePoll}
  /\ importer' \in {importer, IdleImporter}
  /\ DOMAIN removal' = {"stop", "cleanup"}
  /\ \A k \in {"stop", "cleanup"} : removal'[k] \in {removal[k], IdleRemoval}
  /\ boot'.pc = boot.pc /\ boot'.rows \subseteq boot.rows

\* An attempt that nobody fetches any more, or is about to, is settled.
RowSettles(a) ==
  /\ ~Is(a, "absent") /\ attempt'[a].status \in {"imported", "failed"}
  /\ \A b \in Attempts \ {a} : attempt'[b] = attempt[b]
  /\ \A x \in Transfers : Live(x) => transfer[x].attempt # a
  /\ adding' # a /\ a \notin boot'.rows

\* What settles an attempt, or changes none, leaves the others to themselves.
LEMMA SettlesKeeps ==
  ASSUME FetchInv, FewerCallers, UNCHANGED <<progress, controller, transfer>>,
         UNCHANGED attempt \/ \E a \in Attempts : RowSettles(a)
  PROVE  AllAlone'
<1> USE DEF FetchInv, AllAlone
<1>1. PICK a \in Attempts \cup {NoAttempt} :
        /\ \A b \in Attempts \ {a} : attempt'[b] = attempt[b]
        /\ a \in Attempts => RowSettles(a)
  <2>1. CASE UNCHANGED attempt
    <3>1. NoAttempt \notin Attempts
      BY BoundsAssumption DEF Attempts, NoAttempt
    <3> QED
      BY <2>1, <3>1
  <2>2. CASE \E a \in Attempts : RowSettles(a)
    BY <2>2 DEF RowSettles
  <2> QED
    BY <2>1, <2>2
<1>2. \A b \in Attempts : \/ b # a /\ attempt'[b] = attempt[b]
                          \/ /\ b = a /\ attempt'[b].status \in {"imported", "failed"}
                             /\ attempt[b].status # "absent"
  BY <1>1 DEF RowSettles, Is
<1>3. \A b \in Attempts : Going(b)' => Going(b) /\ b # a /\ attempt'[b] = attempt[b]
  BY <1>2 DEF Going, Unsettled, InFlight, ActiveAttempt
<1>4. OneOfEach'
  <2>1. /\ poll'.pc = "apply" => poll.pc = "apply" /\ poll' = poll /\ poll.attempt \in Attempts
        /\ importer'.pc # "idle" => /\ importer.pc # "idle" /\ importer' = importer
                                    /\ importer.attempt \in Attempts
    BY IdleTypes DEF FewerCallers, Types, CallersOK
  <2>2. \A b \in Attempts :
          Is(b, "absent")' => Is(b, "absent") /\ attempt'[b] = attempt[b]
    BY <1>2 DEF Is
  <2> QED
    BY <1>3, <2>1, <2>2 DEF OneOfEach, Is, Types, TransfersOK
<1>5. \A x \in Transfers : Live(x)' = Live(x)
  BY DEF Live
<1>6. LiveAlone'
  <2>1. \A x \in Transfers : Live(x) => transfer[x].attempt \in Attempts \ {a}
    BY <1>1 DEF RowSettles, Live, Types, TransfersOK
  <2> QED
    BY <1>1, <1>5, <2>1 DEF LiveAlone, FewerCallers, Is, NoRemoval
<1>7. AddAlone'
  BY <1>1 DEF AddAlone, FewerCallers, RowSettles, Is, Forgotten, Types, CallersOK
<1>8. PollAlone'
  <2>1. \A s \in ProgressStates : PollWill(s)' => PollWill(s) /\ poll' = poll
                                    /\ attempt'[poll.attempt] = attempt[poll.attempt]
    BY <1>2, IdleTypes DEF FewerCallers, PollWill, Is, Types, CallersOK
  <2> QED
    BY <1>5, <2>1 DEF PollAlone, PollSettles, ProgressStates, AllIdle, FewerCallers
<1>9. FinishedAlone'
  BY <1>2 DEF FinishedAlone, Is, AllIdle
<1>10. ImportAlone' /\ RemovalAlone'
  BY <1>3 DEF ImportAlone, RemovalAlone, Is, FewerCallers
<1>11. BootAlone'
  <2>1. boot'.rows \subseteq boot.rows /\ boot.rows \subseteq Attempts
        /\ \A b \in boot'.rows : attempt'[b] = attempt[b]
    BY <1>1 DEF FewerCallers, RowSettles, Types, CallersOK
  <2> QED
    BY <2>1 DEF BootAlone, FewerCallers, Is, AllIdle, NoRemoval
<1> QED
  BY <1>4, <1>6, <1>7, <1>8, <1>9, <1>10, <1>11

\* A transfer that begins has the URL to itself.
LEMMA StartKeeps ==
  ASSUME FetchInv, NEW a \in Attempts, Is(a, "downloading"),
         NEW offset, NEW validator, NEW expected, Start(a, offset, validator, expected),
         AllIdle, importer = IdleImporter, NoRemoval, ~PollSettles,
         adding' = NoAttempt, boot'.rows = {}, boot'.pc # "read",
         boot'.pc # "up" => poll = IdlePoll,
         UNCHANGED <<attempt, poll, importer, removal>>
  PROVE  AllAlone'
<1> USE DEF FetchInv, AllAlone
<1>1. PICK x \in Transfers :
        /\ transfer' = [transfer EXCEPT ![x].pc = "open", ![x].attempt = a,
                                        ![x].offset = offset, ![x].validator = validator,
                                        ![x].expected = expected]
        /\ progress' = [state |-> "downloading", of |-> a]
        /\ controller' = x
  BY DEF Start
<1>2. /\ \A y \in Transfers \ {x} : transfer'[y] = IdleTransfer
      /\ transfer'[x].pc = "open" /\ transfer'[x].attempt = a
  BY <1>1, IdleTypes DEF AllIdle, Types, TransfersOK, TransferStates
<1>3. \A b \in Attempts : Going(b) => b = a
  BY DEF OneOfEach, Going, Is, Unsettled, InFlight, ActiveAttempt
<1>4. OneOfEach'
  BY <1>2, IdleTypes DEF OneOfEach, Going, Is, Fetching
<1>5. LiveAlone'
  BY <1>1, <1>2, IdleTypes DEF LiveAlone, Live, Is, Fetching, NoRemoval
<1>6. AddAlone' /\ ImportAlone' /\ RemovalAlone'
  BY DEF AddAlone, ImportAlone, RemovalAlone, NoRemoval
<1>7. PollAlone'
  BY DEF PollAlone, PollSettles, PollWill, Is
<1>8. FinishedAlone'
  BY <1>1, <1>3 DEF FinishedAlone, Is, Going, Unsettled, InFlight
<1>9. BootAlone'
  BY DEF BootAlone, NoRemoval
<1> QED
  BY <1>4, <1>5, <1>6, <1>7, <1>8, <1>9

\* An entry that is forgotten, and a grab.
LEMMA GrabKeeps ==
  ASSUME FetchInv, Apart, Prune \/ SourceChanges \/ \E a \in Attempts : Grab(a) \/ Ages(a)
  PROVE  AllAlone'
<1> USE DEF FetchInv, AllAlone
<1>1. CASE Prune
  <2>1. adding = NoAttempt /\ \A x \in Transfers : ~Live(x)
    BY <1>1 DEF Prune, AddAlone, Forgotten, LiveAlone, NoProgress
  <2>2. progress' = NoProgress /\ UNCHANGED <<attempt, controller, transfer, callers>>
    BY <1>1 DEF Prune
  <2>3. OneOfEach' /\ AddAlone' /\ PollAlone' /\ ImportAlone' /\ RemovalAlone'
    BY <2>1, <2>2 DEF callers, OneOfEach, AddAlone, PollAlone, PollSettles, PollWill, Is, Going,
                      AllIdle, Live, ImportAlone, RemovalAlone
  <2>4. LiveAlone' /\ FinishedAlone' /\ BootAlone'
    BY <2>1, <2>2 DEF callers, LiveAlone, Live, FinishedAlone, AllIdle, BootAlone, NoProgress,
                      NoRemoval, Is
  <2> QED
    BY <2>3, <2>4
<1>2. CASE SourceChanges
  BY <1>2, QuieterKeeps DEF SourceChanges, SameRows, Quieter, memory, callers
<1>3. ASSUME NEW a \in Attempts, Grab(a)
      PROVE  AllAlone'
  <2>1. Forgotten
    BY <1>3 DEF Grab, Apart
  <2>2. AllIdle /\ NoRemoval /\ importer = IdleImporter /\ progress = NoProgress
    BY <2>1 DEF Forgotten, AllIdle, NoRemoval, Types, CallersOK
  <2>3. /\ UNCHANGED <<progress, controller, transfer, poll, importer, removal, boot>>
        /\ adding' = a /\ boot.pc = "up" /\ boot.rows = {}
    BY <1>3 DEF Grab, memory, BootAlone
  <2>4. /\ attempt'[a].status = "downloading" /\ attempt'[a].old = FALSE
        /\ \A b \in Attempts \ {a} : attempt'[b] = attempt[b] /\ ~Going(b)
    BY <1>3 DEF Grab, SetStatus, Types, RowsOK, AttemptRows, Going, OneOfEach, Is, AbsentAttempt
  <2>5. \A s : ~PollWill(s)'
    <3>1. poll.pc = "apply" => poll.attempt \in Attempts \ {a}
      BY <1>3 DEF Grab, OneOfEach, Types, CallersOK
    <3> QED
      BY <2>3, <2>4, <3>1 DEF PollWill, Is, Going, Unsettled, InFlight, ActiveAttempt
  <2>6. OneOfEach'
    <3>1. poll.pc = "apply" => poll.attempt \in Attempts
      BY DEF Types, CallersOK
    <3>2. importer.pc # "idle" => importer.attempt \in Attempts
      BY DEF Types, CallersOK
    <3> QED
      BY <2>2, <2>3, <2>4, <3>1, <3>2, IdleTypes DEF OneOfEach, Going, Is, AllIdle, Fetching
  <2>7. LiveAlone' /\ FinishedAlone'
    BY <2>2, <2>3, IdleTypes DEF LiveAlone, Live, FinishedAlone, AllIdle, Fetching, Types,
                                 MemoryOK
  <2>8. AddAlone'
    BY <2>1, <2>3, <2>4 DEF AddAlone, Is, Forgotten
  <2>9. PollAlone'
    BY <2>5 DEF PollAlone, PollSettles
  <2>10. ImportAlone' /\ RemovalAlone' /\ BootAlone'
    BY <2>2, <2>3 DEF ImportAlone, RemovalAlone, NoRemoval, BootAlone
  <2> QED
    BY <2>6, <2>7, <2>8, <2>9, <2>10
<1>4. ASSUME NEW a \in Attempts, Ages(a)
      PROVE  AllAlone'
  <2>1. /\ UNCHANGED <<progress, controller, transfer, adding, poll, importer, removal, boot>>
        /\ adding # a /\ poll.attempt # a /\ ~Is(a, "absent")
        /\ attempt' = [attempt EXCEPT ![a].old = TRUE]
    BY <1>4 DEF Ages, memory, callers, Is
  <2>2. /\ \A b \in Attempts : attempt'[b].status = attempt[b].status
        /\ \A b \in Attempts \ {a} : attempt'[b] = attempt[b]
    BY <2>1 DEF Types, RowsOK, AttemptRows
  <2>3. OneOfEach'
    BY <2>1, <2>2 DEF OneOfEach, Going, Is, Types, CallersOK, TransfersOK
  <2>4. LiveAlone' /\ FinishedAlone'
    BY <2>1, <2>2 DEF LiveAlone, Live, FinishedAlone, AllIdle, Is, NoRemoval, Types,
                      TransfersOK
  <2>5. AddAlone' /\ PollAlone'
    BY <2>1, <2>2 DEF AddAlone, PollAlone, PollSettles, PollWill, Is, Live, Forgotten, AllIdle,
                      Types, CallersOK
  <2>6. ImportAlone' /\ RemovalAlone' /\ BootAlone'
    BY <2>1, <2>2 DEF ImportAlone, RemovalAlone, BootAlone, Going, Is, AllIdle, NoRemoval,
                      Types, CallersOK
  <2> QED
    BY <2>3, <2>4, <2>5, <2>6
<1> QED
  BY <1>1, <1>2, <1>3, <1>4

\* An add that has come to its end.
LEMMA AddKeeps ==
  ASSUME FetchInv, Add
  PROVE  AllAlone'
<1> USE DEF FetchInv, AllAlone
<1>1. /\ adding \in Attempts /\ Is(adding, "downloading") /\ AllIdle /\ importer = IdleImporter
      /\ NoRemoval /\ ~PollSettles /\ boot.pc = "up" /\ boot.rows = {}
  BY DEF Add, AddAlone, Forgotten, AllIdle, NoRemoval, PollAlone, BootAlone, Types, CallersOK
<1>2. adding' = NoAttempt /\ UNCHANGED <<poll, importer, removal, boot>>
  BY DEF Add
<1>3. CASE Start(adding, 0, NoVersion, NoSize) /\ UNCHANGED attempt
  BY <1>1, <1>2, <1>3, StartKeeps
<1>4. CASE SetStatus(adding, "failed") /\ UNCHANGED <<memory, transfer>>
  <2>1. FewerCallers
    BY <1>2 DEF FewerCallers, Types, CallersOK
  <2>2. NoAttempt \notin Attempts
    BY BoundsAssumption DEF Attempts, NoAttempt
  <2>3. \A x \in Transfers : ~Live(x)
    BY <1>1, IdleTypes DEF AllIdle, Live, Fetching
  <2>4. RowSettles(adding)
    BY <1>1, <1>2, <1>4, <2>2, <2>3
       DEF RowSettles, SetStatus, Is, Types, RowsOK, AttemptRows
  <2> QED
    BY <1>1, <1>4, <2>1, <2>4, SettlesKeeps DEF memory
<1> QED
  BY <1>3, <1>4 DEF Add

\* A download that is failed has no transfer that goes on.
LEMMA FailDownloadSettles ==
  ASSUME FetchInv, NEW a \in Attempts, FailDownload(a), adding' = adding,
         boot.rows = {}, boot'.rows = {},
         Is(a, "downloading") => adding # a /\ \A x \in Transfers : ~Live(x)
  PROVE  UNCHANGED attempt \/ RowSettles(a)
<1> USE DEF FetchInv, AllAlone
<1>1. CASE ~Going(a)
  BY <1>1 DEF FailDownload, Going
<1>2. CASE Going(a)
  <2>1. /\ attempt'[a].status = "failed"
        /\ \A b \in Attempts \ {a} : attempt'[b] = attempt[b]
    BY <1>2 DEF FailDownload, Going, Types, RowsOK, AttemptRows
  <2>2. ~Is(a, "absent")
    BY <1>2 DEF Going, Is, Unsettled, InFlight, ActiveAttempt
  <2>3. adding # a /\ \A x \in Transfers : Live(x) => transfer[x].attempt # a
    <3>1. a # NoAttempt
      BY BoundsAssumption DEF Attempts, NoAttempt
    <3> QED
      BY <3>1 DEF LiveAlone, AddAlone
  <2> QED
    BY <2>1, <2>2, <2>3 DEF RowSettles
<1> QED
  BY <1>1, <1>2

\* The poll, and what it makes of its answer.
LEMMA PollKeeps ==
  ASSUME FetchInv, Apart, PollApply \/ \E a \in Attempts : PollRead(a)
  PROVE  AllAlone'
<1> USE DEF FetchInv, AllAlone
<1>1. ASSUME NEW a \in Attempts, PollRead(a)
      PROVE  AllAlone'
  <2>1. /\ boot.pc = "up" /\ boot.rows = {} /\ Is(a, "downloading")
        /\ poll' = [pc |-> "apply", attempt |-> a, says |-> progress.state, of |-> progress.of]
        /\ UNCHANGED <<attempt, progress, controller, transfer, adding, importer, removal, boot>>
    BY <1>1 DEF PollRead, Apart, memory, BootAlone
  <2>2. adding # NoAttempt => progress = NoProgress /\ ~attempt[a].old
    BY <2>1 DEF AddAlone, Forgotten, OneOfEach, Going, Is, Unsettled, InFlight, ActiveAttempt,
                Types, CallersOK
  <2>3. NoProgress.state = "none"
    BY DEF NoProgress
  <2>4. PollAlone'
    BY <2>1, <2>2, <2>3
       DEF PollAlone, PollSettles, PollWill, Is, LiveAlone, Live, FinishedAlone, AllIdle
  <2>5. OneOfEach'
    BY <2>1 DEF OneOfEach, Going, Is
  <2>6. LiveAlone' /\ AddAlone' /\ FinishedAlone'
    BY <2>1 DEF LiveAlone, AddAlone, FinishedAlone, Is, AllIdle, Live, NoRemoval, Forgotten
  <2>7. ImportAlone' /\ RemovalAlone' /\ BootAlone'
    BY <2>1 DEF ImportAlone, RemovalAlone, BootAlone, Is, Going, AllIdle, NoRemoval
  <2> QED
    BY <2>4, <2>5, <2>6, <2>7
<1>2. CASE PollApply
  <2> DEFINE a == poll.attempt
  <2>1. /\ a \in Attempts /\ ~Is(a, "absent") /\ poll' = IdlePoll /\ boot.pc = "up"
        /\ boot.rows = {} /\ poll.pc = "apply"
        /\ UNCHANGED <<progress, controller, transfer, adding, importer, removal, boot>>
    BY <1>2, IdleTypes DEF PollApply, memory, OneOfEach, BootAlone, Types, CallersOK
  <2>2. FewerCallers
    BY <2>1 DEF FewerCallers, Types, CallersOK
  <2>3. CASE /\ poll.says = "failed" \/ (poll.says = "none" /\ attempt[a].old)
             /\ FailDownload(a)
    <3>1. Is(a, "downloading") => adding = NoAttempt /\ \A x \in Transfers : ~Live(x)
      BY <2>1, <2>3 DEF PollAlone, PollSettles, PollWill
    <3>2. a # NoAttempt
      BY <2>1, BoundsAssumption DEF Attempts, NoAttempt
    <3>3. UNCHANGED attempt \/ RowSettles(a)
      <4> HIDE DEF a
      <4> QED
        BY <2>1, <2>3, <3>1, <3>2, FailDownloadSettles
    <3> QED
      BY <2>1, <2>2, <3>3, SettlesKeeps
  <2>4. CASE UNCHANGED attempt
    BY <2>1, <2>2, <2>4, SettlesKeeps
  <2>5. CASE /\ poll.says = "completed" /\ Is(a, "downloading")
             /\ attempt' = [attempt EXCEPT ![a].status = "completed", ![a].validator = NoVersion]
    <3>1. adding = NoAttempt /\ AllIdle /\ \A x \in Transfers : ~Live(x)
      BY <2>1, <2>5 DEF PollAlone, PollSettles, PollWill
    <3>2. /\ attempt'[a].status = "completed"
          /\ \A b \in Attempts \ {a} : attempt'[b] = attempt[b]
      BY <2>1, <2>5 DEF Types, RowsOK, AttemptRows
    <3>3. \A b \in Attempts : Going(b)' = Going(b)
      <4>1. attempt[a].status \in Unsettled /\ attempt'[a].status \in Unsettled
        BY <2>5, <3>2 DEF Is, Unsettled, InFlight, ActiveAttempt
      <4> QED
        BY <3>2, <4>1 DEF Going
    <3>4. OneOfEach'
      <4>1. importer.pc # "idle" => importer.attempt \in Attempts
        BY DEF Types, CallersOK
      <4>2. \A b \in Attempts : Is(b, "absent")' => Is(b, "absent") /\ attempt'[b] = attempt[b]
        BY <3>2 DEF Is
      <4> QED
        BY <2>1, <3>1, <3>3, <4>1, <4>2, IdleTypes DEF OneOfEach, AllIdle, Fetching
    <3>5. LiveAlone' /\ AddAlone' /\ FinishedAlone'
      BY <2>1, <3>1, IdleTypes DEF LiveAlone, Live, AddAlone, FinishedAlone, AllIdle, Fetching,
                                   Types, MemoryOK
    <3>6. PollAlone'
      BY <2>1, IdleTypes DEF PollAlone, PollSettles, PollWill
    <3>7. ImportAlone' /\ RemovalAlone' /\ BootAlone'
      <4>1. importer = IdleImporter
        BY <2>1, <2>5 DEF ImportAlone, Going, Is, Unsettled, InFlight, ActiveAttempt
      <4> QED
        BY <2>1, <3>3, <4>1 DEF ImportAlone, RemovalAlone, BootAlone
    <3> QED
      BY <3>4, <3>5, <3>6, <3>7
  <2> QED
    BY <1>2, <2>3, <2>4, <2>5 DEF PollApply
<1> QED
  BY <1>1, <1>2

\* A removal that begins has no transfer to leave behind but the one it aborts.
LEMMA RemovesKeeps ==
  ASSUME FetchInv, NEW k \in {"stop", "cleanup"}, NEW a \in Attempts, Removes(k, a),
         \A b \in Attempts : Going(b) => b = a,
         adding = NoAttempt, boot.pc = "up", importer' \in {importer, IdleImporter},
         UNCHANGED <<attempt, progress, controller, adding, poll, boot>>
  PROVE  AllAlone'
<1> USE DEF FetchInv, AllAlone
<1>1. /\ removal' \in [{"stop", "cleanup"} ->
                         [pc : {"idle", "await", "delete", "fail"},
                          attempt : Attempts \cup {NoAttempt}, task : Transfers \cup {NoTransfer}]]
      /\ removal'[k].attempt = a
      /\ \A j \in {"stop", "cleanup"} \ {k} : removal'[j] = removal[j]
  BY RemovesTypes DEF Removes, Types, CallersOK
<1>2. \A x \in Transfers :
        /\ transfer'[x].pc = transfer[x].pc /\ transfer'[x].attempt = transfer[x].attempt
        /\ transfer[x].aborted => transfer'[x].aborted
        /\ x = controller => transfer'[x].aborted
        /\ transfer[x] = IdleTransfer => transfer'[x] = IdleTransfer
  <2>1. \A x \in Transfers : transfer[x] \in TransferStates
    BY DEF Types, TransfersOK
  <2>2. \A x \in Transfers : x = controller => transfer[x] # IdleTransfer
    BY IdleTypes, TransfersAssumption DEF LiveAlone, Fetching
  <2> QED
    BY <2>1, <2>2 DEF Removes, TransferStates
<1>3. \A x \in Transfers : ~Live(x)'
  BY <1>2 DEF LiveAlone, Live
<1>4. AllIdle => AllIdle'
  BY <1>2 DEF AllIdle
<1>5. OneOfEach'
  <2>1. importer'.pc # "idle" => importer.pc # "idle" /\ importer' = importer
    BY IdleTypes
  <2> QED
    BY <1>2, <2>1 DEF OneOfEach, Going, Is
<1>6. LiveAlone' /\ AddAlone'
  BY <1>2, <1>3 DEF LiveAlone, AddAlone, Types, MemoryOK
<1>7. PollAlone' /\ FinishedAlone'
  BY <1>3, <1>4 DEF PollAlone, PollSettles, PollWill, Is, FinishedAlone
<1>8. ImportAlone' /\ RemovalAlone'
  BY <1>1 DEF ImportAlone, RemovalAlone, Going, Is
<1>9. BootAlone'
  BY DEF BootAlone
<1> QED
  BY <1>5, <1>6, <1>7, <1>8, <1>9

\* A removal that forgets the entry or deletes the directory: nobody is left to miss them.
LEMMA RemovalGoesOn ==
  ASSUME FetchInv, NEW k \in {"stop", "cleanup"}, removal[k].pc # "idle",
         progress' \in {progress, NoProgress}, Quieter, DOMAIN removal' = {"stop", "cleanup"},
         removal'[k] = IdleRemoval \/ removal'[k].attempt = removal[k].attempt,
         \A j \in {"stop", "cleanup"} \ {k} : removal'[j] = removal[j],
         UNCHANGED <<attempt, controller, adding, poll, importer, boot>>
  PROVE  AllAlone'
<1> USE DEF FetchInv, AllAlone
<1>1. removal[k] # IdleRemoval
  BY IdleTypes
<1>2. adding = NoAttempt /\ boot.pc = "up" /\ boot.rows = {} /\ \A x \in Transfers : ~Live(x)
  BY <1>1 DEF AddAlone, Forgotten, BootAlone, LiveAlone, NoRemoval, Types, CallersOK
<1>3. \A x \in Transfers : ~Live(x)'
  BY <1>2 DEF Live, Quieter
<1>4. OneOfEach'
  BY DEF OneOfEach, Quieter, Going, Is
<1>5. LiveAlone' /\ AddAlone'
  BY <1>2, <1>3 DEF LiveAlone, AddAlone, Quieter, Types, MemoryOK
<1>6. PollAlone' /\ FinishedAlone'
  BY <1>2, <1>3 DEF PollAlone, PollSettles, PollWill, Is, FinishedAlone, AllIdle, Quieter,
                    NoProgress
<1>7. ImportAlone' /\ RemovalAlone' /\ BootAlone'
  BY <1>1, <1>2 DEF ImportAlone, RemovalAlone, BootAlone, Going, Is
<1> QED
  BY <1>4, <1>5, <1>6, <1>7

\* A person takes an attempt away, and a removal goes on.
LEMMA RemovalKeeps ==
  ASSUME FetchInv, Apart,
         (\E a \in Attempts : Stop(a)) \/ \E k \in DOMAIN removal : RemovalStep(k)
  PROVE  AllAlone'
<1> USE DEF FetchInv, AllAlone
<1>1. ASSUME NEW a \in Attempts, Stop(a)
      PROVE  AllAlone'
  <2>1. \A b \in Attempts : Going(b) => b = a
    BY <1>1 DEF Stop, Apart, OneOfEach, Going
  <2>2. adding = NoAttempt
    BY <1>1, <2>1 DEF Stop, Apart, AddAlone, Going, Is, Unsettled, InFlight, ActiveAttempt,
                      Types, CallersOK
  <2> QED
    BY <1>1, <2>1, <2>2, RemovesKeeps DEF Stop, memory
<1>2. ASSUME NEW k \in {"stop", "cleanup"}, RemovalForgets(k)
      PROVE  AllAlone'
  <2>1. removal'[k].attempt = removal[k].attempt /\ DOMAIN removal' = {"stop", "cleanup"}
        /\ \A j \in {"stop", "cleanup"} \ {k} : removal'[j] = removal[j]
    BY <1>2 DEF RemovalForgets, Types, CallersOK
  <2>2. Quieter
    BY <1>2 DEF RemovalForgets, Quieter
  <2> QED
    BY <1>2, <2>1, <2>2, RemovalGoesOn DEF RemovalForgets
<1>3. ASSUME NEW k \in {"stop", "cleanup"}, RemovalDeletes(k)
      PROVE  AllAlone'
  <2> DEFINE over == IF k = "stop" THEN [removal[k] EXCEPT !.pc = "fail"] ELSE IdleRemoval
  <2>1. PICK rec \in {over, IdleRemoval} : removal' = [removal EXCEPT ![k] = rec]
    BY <1>3 DEF RemovalDeletes
  <2>2. /\ removal'[k] = IdleRemoval \/ removal'[k].attempt = removal[k].attempt
        /\ DOMAIN removal' = {"stop", "cleanup"}
        /\ \A j \in {"stop", "cleanup"} \ {k} : removal'[j] = removal[j]
    BY <2>1 DEF Types, CallersOK
  <2>3. Quieter
    <3>1. CASE RemoveStaging(transfer)
      BY <3>1, RemoveStagingLeaves DEF Quieter, Types, TransfersOK
    <3>2. CASE UNCHANGED transfer
      BY <3>2 DEF Quieter
    <3> QED
      BY <1>3, <3>1, <3>2 DEF RemovalDeletes
  <2> QED
    BY <1>3, <2>2, <2>3, RemovalGoesOn DEF RemovalDeletes, memory
<1>4. ASSUME NEW k \in {"stop", "cleanup"}, RemovalFails(k)
      PROVE  AllAlone'
  <2> DEFINE a == removal[k].attempt
  <2>1. FewerCallers
    BY <1>4 DEF RemovalFails, FewerCallers, Types, CallersOK
  <2>2. removal[k] # IdleRemoval
    BY <1>4, IdleTypes DEF RemovalFails
  <2>3. adding = NoAttempt /\ boot.rows = {} /\ \A x \in Transfers : ~Live(x)
    BY <2>2 DEF AddAlone, Forgotten, BootAlone, LiveAlone, NoRemoval, Types, CallersOK
  <2>4. ASSUME attempt[a].status \in InFlight, a \in Attempts, SetStatus(a, "failed")
        PROVE  RowSettles(a)
    <3>1. a # NoAttempt
      BY <2>4, BoundsAssumption DEF Attempts, NoAttempt
    <3> QED
      BY <1>4, <2>3, <2>4, <3>1 DEF RowSettles, RemovalFails, SetStatus, Is, InFlight,
                                    ActiveAttempt, Types, RowsOK, AttemptRows
  <2>5. UNCHANGED attempt \/ \E b \in Attempts : RowSettles(b)
    <3>1. a \in Attempts \cup {NoAttempt}
      BY DEF Types, CallersOK
    <3>2. CASE a \in Attempts
      BY <1>4, <2>4, <3>2 DEF RemovalFails
    <3>3. CASE a \notin Attempts
      <4>1. SetStatus(a, "failed") => UNCHANGED attempt
        BY <3>3 DEF SetStatus, Types, RowsOK
      <4> QED
        BY <1>4, <4>1 DEF RemovalFails
    <3> QED
      BY <3>2, <3>3
  <2> QED
    BY <1>4, <2>1, <2>5, SettlesKeeps DEF RemovalFails, memory
<1> QED
  BY <1>1, <1>2, <1>3, <1>4 DEF RemovalStep, Types, CallersOK

\* An import, from its claim to its cleanup, and the verification.
LEMMA ImportKeeps ==
  ASSUME FetchInv, ImportStep \/ \E a \in Attempts : Verified(a)
  PROVE  AllAlone'
<1> USE DEF FetchInv, AllAlone
<1>1. ASSUME NEW a \in Attempts, ImportClaim(a)
      PROVE  AllAlone'
  <2>1. /\ Is(a, "completed") /\ AllIdle /\ boot.pc = "up" /\ boot.rows = {}
        /\ importer = IdleImporter /\ importer' = [pc |-> "place", attempt |-> a]
        /\ UNCHANGED <<progress, controller, transfer, adding, poll, removal, boot>>
    BY <1>1 DEF ImportClaim, memory, FinishedAlone, BootAlone
  <2>2. /\ attempt'[a].status = "importing" /\ attempt'[a].old = attempt[a].old
        /\ \A b \in Attempts \ {a} : attempt'[b] = attempt[b]
    BY <1>1 DEF ImportClaim, SetStatus, Types, RowsOK, AttemptRows
  <2>3. attempt[a].status \in Unsettled /\ attempt'[a].status \in Unsettled
    BY <2>1, <2>2 DEF Is, Unsettled, InFlight
  <2>4. /\ \A b \in Attempts : Going(b)' = Going(b)
        /\ \A b \in Attempts : Going(b) => b = a
    BY <2>2, <2>3 DEF Going, OneOfEach
  <2>5. adding = NoAttempt /\ \A x \in Transfers : ~Live(x)
    BY <2>1, <2>4, IdleTypes DEF AddAlone, Going, Is, Unsettled, InFlight, ActiveAttempt, Types,
                                 CallersOK, AllIdle, Live, Fetching
  <2>6. OneOfEach'
    <3>1. poll.pc = "apply" => poll.attempt \in Attempts
      BY DEF Types, CallersOK
    <3>2. \A b \in Attempts : Is(b, "absent")' => Is(b, "absent") /\ attempt'[b] = attempt[b]
      BY <2>2 DEF Is
    <3>3. AllIdle' /\ \A x \in Transfers : transfer'[x].pc \notin Fetching
      BY <2>1, IdleTypes DEF AllIdle, Fetching
    <3>4. importer'.attempt = a /\ ~Is(a, "absent")'
      BY <2>1, <2>2 DEF Is
    <3>5. poll'.pc = "apply" => ~Is(poll.attempt, "absent")'
      BY <2>1, <3>1, <3>2 DEF OneOfEach
    <3> QED
      BY <2>1, <2>4, <3>2, <3>3, <3>4, <3>5 DEF OneOfEach, AllIdle, Is
  <2>7. LiveAlone' /\ AddAlone' /\ FinishedAlone'
    BY <2>1, <2>5, IdleTypes DEF LiveAlone, Live, AddAlone, FinishedAlone, AllIdle, Fetching,
                                 Types, MemoryOK
  <2>8. PollAlone'
    BY <2>1, <2>5 DEF PollAlone, Live, AllIdle
  <2>9. ImportAlone' /\ RemovalAlone'
    BY <2>1, <2>2, <2>4 DEF ImportAlone, RemovalAlone, Is
  <2>10. BootAlone'
    BY <2>1 DEF BootAlone
  <2> QED
    BY <2>6, <2>7, <2>8, <2>9, <2>10
<1>2. CASE ImportPlace
  <2> DEFINE a == importer.attempt
  <2>1. /\ importer.pc = "place" /\ importer # IdleImporter /\ a \in Attempts
        /\ ~Is(a, "absent")
        /\ UNCHANGED <<progress, controller, transfer, adding, poll, removal, boot>>
    BY <1>2, IdleTypes DEF ImportPlace, memory, OneOfEach, Types, CallersOK
  <2>2. CASE /\ attempt' = [attempt EXCEPT ![a].book = staged.file]
             /\ importer' = [importer EXCEPT !.pc = "cleanup"]
    <3>1. SameRows
      <4>1. attempt[a] # AbsentAttempt
        BY <2>1 DEF Is, AbsentAttempt
      <4> HIDE DEF a
      <4> QED
        BY <2>1, <2>2, <4>1 DEF SameRows, Types, RowsOK, AttemptRows
    <3>2. ImportGoesOn
      BY <2>1, <2>2 DEF ImportGoesOn, Types, CallersOK
    <3>3. Quieter
      BY <2>1 DEF Quieter
    <3> QED
      BY <2>1, <3>1, <3>2, <3>3, QuieterKeeps
  <2>3. CASE FailDownload(a) /\ importer' = IdleImporter
    <3>1. /\ adding = NoAttempt /\ boot.rows = {} /\ \A x \in Transfers : ~Live(x)
          /\ a # NoAttempt
      BY <2>1, BoundsAssumption
         DEF AddAlone, Forgotten, BootAlone, LiveAlone, Attempts, NoAttempt
    <3>2. UNCHANGED attempt \/ RowSettles(a)
      <4> HIDE DEF a
      <4> QED
        BY <2>1, <2>3, <3>1, FailDownloadSettles
    <3>3. FewerCallers
      BY <2>1, <2>3 DEF FewerCallers, Types, CallersOK
    <3> QED
      BY <2>1, <3>2, <3>3, SettlesKeeps
  <2> QED
    BY <1>2, <2>2, <2>3 DEF ImportPlace
<1>3. CASE ImportCleanup
  <2>1. importer.attempt \in Attempts /\ importer # IdleImporter
    BY <1>3, IdleTypes DEF ImportCleanup, Types, CallersOK
  <2>2. adding = NoAttempt /\ boot.pc = "up"
    BY <2>1 DEF AddAlone, Forgotten, BootAlone
  <2>3. \A b \in Attempts : Going(b) => b = importer.attempt
    BY <2>1 DEF ImportAlone
  <2> QED
    BY <1>3, <2>1, <2>2, <2>3, RemovesKeeps DEF ImportCleanup, memory
<1>4. ASSUME NEW a \in Attempts, Verified(a)
      PROVE  AllAlone'
  <2>1. FewerCallers
    BY <1>4 DEF Verified, callers, FewerCallers, Types, CallersOK
  <2>2. RowSettles(a)
    <3>1. a # NoAttempt
      BY BoundsAssumption DEF Attempts, NoAttempt
    <3> QED
      BY <1>4, <3>1 DEF Verified, callers, RowSettles, SetStatus, Is, LiveAlone, AddAlone,
                        BootAlone, Types, RowsOK, AttemptRows
  <2> QED
    BY <1>4, <2>1, <2>2, SettlesKeeps DEF Verified, memory
<1> QED
  BY <1>1, <1>2, <1>3, <1>4 DEF ImportStep

\* The process dies, or what it left is taken up again.
LEMMA BootKeeps ==
  ASSUME FetchInv, Restart \/ BootStep
  PROVE  AllAlone'
<1> USE DEF FetchInv, AllAlone
<1>1. CASE Restart
  <2>1. /\ boot' = [pc |-> "read", rows |-> {}] /\ progress' = NoProgress
        /\ controller' = NoTransfer /\ adding' = NoAttempt /\ poll' = IdlePoll
        /\ importer' = IdleImporter /\ UNCHANGED attempt
        /\ AllIdle' /\ NoRemoval'
    BY <1>1 DEF Restart, AllIdle, NoRemoval, Types, CallersOK
  <2>2. OneOfEach'
    BY <2>1, IdleTypes DEF OneOfEach, Going, Is, AllIdle, Fetching
  <2>3. LiveAlone' /\ AddAlone' /\ PollAlone' /\ FinishedAlone'
    BY <2>1, IdleTypes DEF LiveAlone, Live, AddAlone, PollAlone, PollSettles, PollWill,
                           FinishedAlone, AllIdle, Fetching
  <2>4. ImportAlone' /\ RemovalAlone' /\ BootAlone'
    BY <2>1 DEF ImportAlone, RemovalAlone, BootAlone, NoRemoval
  <2> QED
    BY <2>2, <2>3, <2>4
<1>2. CASE BootRead
  <2>1. /\ boot.pc = "read"
        /\ boot' = [pc |-> "resume", rows |-> {a \in Attempts : Is(a, "downloading")}]
        /\ UNCHANGED <<attempt, progress, controller, transfer, adding, poll, importer, removal>>
    BY <1>2 DEF BootRead, memory
  <2>2. OneOfEach' /\ PollAlone' /\ FinishedAlone'
    BY <2>1 DEF OneOfEach, Going, Is, PollAlone, PollSettles, PollWill, FinishedAlone, AllIdle,
                Live
  <2>3. LiveAlone' /\ AddAlone' /\ ImportAlone' /\ RemovalAlone' /\ BootAlone'
    BY <2>1 DEF LiveAlone, Live, Is, NoRemoval, AddAlone, ImportAlone, RemovalAlone, Going,
                BootAlone, AllIdle
  <2> QED
    BY <2>2, <2>3
<1>3. ASSUME NEW a \in Attempts, BootResume(a)
      PROVE  AllAlone'
  <2>1. /\ boot.pc = "resume" /\ a \in boot.rows /\ Is(a, "downloading") /\ AllIdle
        /\ adding = NoAttempt /\ poll = IdlePoll /\ importer = IdleImporter /\ NoRemoval
        /\ boot' = [boot EXCEPT !.rows = boot.rows \ {a}]
        /\ UNCHANGED <<adding, poll, importer, removal>>
    BY <1>3 DEF BootResume, BootAlone
  <2>2. boot.rows = {a}
    BY <2>1 DEF BootAlone, OneOfEach, Going, Is, Unsettled, InFlight, ActiveAttempt, Types,
                CallersOK
  <2>3. boot'.pc = "resume" /\ boot'.rows = {}
    BY <2>1, <2>2 DEF Types, CallersOK
  <2>4. ASSUME NEW expected, Start(a, StagedBytes, attempt[a].validator, expected),
               UNCHANGED attempt
        PROVE  AllAlone'
    <3>1. ~PollSettles
      BY <2>1, IdleTypes DEF PollSettles, PollWill
    <3> QED
      BY <2>1, <2>3, <2>4, <3>1, StartKeeps
  <2>5. CASE FailDownload(a) /\ UNCHANGED <<memory, transfer>>
    <3>1. RowSettles(a)
      <4>1. /\ attempt'[a].status = "failed"
            /\ \A b \in Attempts \ {a} : attempt'[b] = attempt[b]
        BY <2>1, <2>5 DEF FailDownload, Is, Unsettled, InFlight, ActiveAttempt, Types, RowsOK,
                          AttemptRows
      <4>2. a # NoAttempt
        BY BoundsAssumption DEF Attempts, NoAttempt
      <4> QED
        BY <2>1, <2>3, <4>1, <4>2, IdleTypes DEF RowSettles, Is, AllIdle, Live, Fetching
    <3>2. FewerCallers
      BY <2>1, <2>3 DEF FewerCallers, Types, CallersOK
    <3> QED
      BY <2>5, <3>1, <3>2, SettlesKeeps DEF memory
  <2> QED
    BY <1>3, <2>4, <2>5 DEF BootResume
<1>4. CASE BootReap
  <2>1. Quieter
    <3>1. CASE RemoveStaging(transfer)
      BY <3>1, RemoveStagingLeaves DEF Quieter, Types, TransfersOK
    <3>2. CASE UNCHANGED transfer
      BY <3>2 DEF Quieter
    <3> QED
      BY <1>4, <3>1, <3>2 DEF BootReap
  <2>2. SameRows
    BY <1>4 DEF BootReap, SameRows
  <2> QED
    BY <1>4, <2>1, <2>2, QuieterKeeps DEF BootReap, memory
<1> QED
  BY <1>1, <1>2, <1>3, <1>4 DEF BootStep

\* Nobody is at work in the beginning,
LEMMA AloneInitially ==
  ASSUME Init
  PROVE  FetchInv
<1>1. Types
  BY TypesInitially
<1>2. /\ \A a \in Attempts : attempt[a] = AbsentAttempt /\ ~Going(a)
      /\ AllIdle /\ NoRemoval
      /\ progress = NoProgress /\ controller = NoTransfer /\ adding = NoAttempt
      /\ poll = IdlePoll /\ importer = IdleImporter /\ boot = Up
  BY DEF Init, Going, AbsentAttempt, Unsettled, InFlight, ActiveAttempt, AllIdle, NoRemoval
<1>3. OneOfEach /\ LiveAlone
  BY <1>2, IdleTypes DEF OneOfEach, LiveAlone, Live, AllIdle, Fetching, Going
<1>4. AddAlone /\ PollAlone /\ FinishedAlone
  BY <1>2, IdleTypes DEF AddAlone, PollAlone, PollSettles, PollWill, FinishedAlone, AllIdle
<1>5. ImportAlone /\ RemovalAlone /\ BootAlone
  BY <1>2 DEF ImportAlone, RemovalAlone, NoRemoval, BootAlone, Up
<1> QED
  BY <1>1, <1>3, <1>4, <1>5 DEF FetchInv, AllAlone

\* and every step leaves them apart.
LEMMA AloneStep ==
  ASSUME FetchInv, Apart, [Next]_vars
  PROVE  FetchInv'
<1>1. Types'
  BY TypesStep DEF FetchInv
<1>2. CASE UNCHANGED vars
  <2>1. SameRows /\ Quieter
    BY <1>2 DEF vars, SameRows, Quieter
  <2> QED
    BY <1>1, <1>2, <2>1, QuieterKeeps DEF vars, memory, callers, FetchInv
<1>3. CASE Next
  <2>1. AllAlone'
    BY <1>3, StepKeeps, GrabKeeps, AddKeeps, PollKeeps, RemovalKeeps, ImportKeeps, BootKeeps
       DEF Next
  <2> QED
    BY <1>1, <2>1 DEF FetchInv
<1> QED
  BY <1>2, <1>3

\* DirectDownloadService.run and the callers of remove, failDownload and add, with restarts:
\* as long as one attempt is finished with before the next is grabbed, nothing goes on
\* fetching for an attempt that is settled.
THEOREM NothingIsFetchedForNobody ==
  ASSUME Apart
  PROVE  Spec => []NoFetchForNobody
<1>1. Init => FetchInv
  BY AloneInitially
<1>2. FetchInv /\ [Next]_vars => FetchInv'
  BY AloneStep
<1>3. FetchInv => NoFetchForNobody
  BY DEF FetchInv, AllAlone, LiveAlone, Live, Is, NoFetchForNobody, Fetching, Unsettled,
         InFlight, ActiveAttempt
<1> QED
  BY <1>1, <1>2, <1>3, PTL DEF Spec

\* The end of a transfer, a removal and the reaping at boot each delete the staging
\* directory: none of them takes the file of a download that waits for its import, but the
\* removal of that very attempt.
THEOREM WaitingFilesStay ==
  ASSUME Apart
  PROVE  Spec => FinishedFilesStay
<1> DEFINE Stays == \A a \in Attempts :
                      Is(a, "completed") /\ staged.file # NoFile /\ staged'.file = NoFile =>
                        \E k \in DOMAIN removal : removal[k].attempt = a
<1>1. ASSUME FetchInv, [Next]_vars
      PROVE  Stays
  <2> SUFFICES ASSUME NEW a \in Attempts, Is(a, "completed"),
                      staged.file # NoFile, staged'.file = NoFile
               PROVE  \E k \in DOMAIN removal : removal[k].attempt = a
    OBVIOUS
  <2>1. staged \in [dir : BOOLEAN, file : Files \cup {NoFile}]
    BY <1>1 DEF FetchInv, Types, FilesOK
  <2>2. Going(a)
    BY DEF Going, Is, Unsettled, InFlight
  <2>3. ASSUME NEW x \in Transfers, Step(x)
        PROVE  FALSE
    BY <1>1, <2>3, IdleTypes
       DEF FetchInv, AllAlone, FinishedAlone, AllIdle, Step, Respond, Record, Create, Write,
           Finish, Break, Discard
  <2>4. staged' # staged
    OBVIOUS
  <2>5. CASE Prune \/ Add \/ \E b \in Attempts : Grab(b) \/ Ages(b)
    BY <2>1, <2>5 DEF Prune, Add, Start, Grab, Ages
  <2>6. CASE PollApply \/ \E b \in Attempts : PollRead(b)
    BY <2>6 DEF PollApply, PollRead
  <2>7. CASE \E b \in Attempts : Stop(b)
    BY <2>7 DEF Stop
  <2>8. ASSUME NEW k \in DOMAIN removal, RemovalStep(k)
        PROVE  removal[k].attempt = a
    <3>1. removal[k] # IdleRemoval
      BY <2>8, IdleTypes DEF RemovalStep, RemovalForgets, RemovalDeletes, RemovalFails
    <3> QED
      BY <1>1, <2>2, <3>1 DEF FetchInv, AllAlone, RemovalAlone, Types, CallersOK
  <2>9. CASE ImportStep \/ \E b \in Attempts : Verified(b)
    BY <2>9 DEF ImportStep, ImportClaim, ImportPlace, ImportCleanup, Verified
  <2>10. CASE BootStep \/ Restart \/ SourceChanges
    BY <2>1, <2>2, <2>10 DEF BootStep, BootRead, BootReap, BootResume, Start, Restart,
                             SourceChanges, Going
  <2>11. CASE UNCHANGED vars
    BY <2>11 DEF vars
  <2> QED
    BY <1>1, <2>3, <2>5, <2>6, <2>7, <2>8, <2>9, <2>10, <2>11 DEF Next
<1>2. Init => FetchInv
  BY AloneInitially
<1>3. FetchInv /\ [Next]_vars => FetchInv'
  BY AloneStep
<1>4. FetchInv /\ [Next]_vars => [Stays]_vars
  BY <1>1
<1> QED
  BY <1>2, <1>3, <1>4, PTL DEF Spec, FinishedFilesStay

(***************************************************************************)
(* What the bytes on disk are, when the URL is not grabbed again after it  *)
(* made a book and no older file is left under a new validator.            *)
(***************************************************************************)
Plain == Apart /\ Operations \cap {"same_again", "late_crash"} = {}

Says(blocks, n, v) == Len(blocks) = n /\ \A i \in 1 .. n : blocks[i] = v

\* What the file of a download may be when its last answer declared "total".
Piece(blocks, total) == Beginning(blocks) /\ (total # NoSize => Whole(blocks))
StagedPiece(a) == staged.file # NoFile => Piece(disk[staged.file], attempt[a].total)

\* A transfer goes on with the representation it is at: the one its response began, or
\* before a response the one its validator names.
At(x) == IF transfer[x].pc = "open" THEN transfer[x].validator ELSE transfer[x].version

InStaging(x) ==
  LET f == transfer[x] IN
  /\ f.pc # "write" => f.read = 0
  /\ f.pc \in Responded =>
       f.total \in {NoSize, Size[f.version]} /\ f.offset + f.read <= Size[f.version]
  /\ f.pc \in {"create", "write"} => attempt[f.attempt].total = f.total
  /\ f.pc = "write" => f.file = staged.file
  /\ f.offset > 0 \/ f.pc = "write" =>
       staged.file # NoFile /\ Says(disk[staged.file], f.offset + f.read, At(x))

LiveBytes == \A x \in Transfers : Live(x) => InStaging(x)

\* What lies there at boot is of the representation that the row names, if it names one.
BootBytes ==
  \A a \in Attempts :
     /\ Is(a, "downloading") /\ (boot.pc = "read" \/ a \in boot.rows)
     /\ attempt[a].validator # NoVersion /\ staged.file # NoFile
    => Says(disk[staged.file], Len(disk[staged.file]), attempt[a].validator)

FinishedBytes ==
  /\ \A a \in Attempts :
       /\ Is(a, "downloading") /\ (progress.state = "completed" \/ PollWill("completed")) =>
            StagedPiece(a)
       /\ Is(a, "completed") => StagedPiece(a)
  /\ importer.pc = "place" => StagedPiece(importer.attempt)

\* While an attempt is at "downloading" there is no book, and when there is one, or an
\* import is about to make it, no transfer is left.
NoBookYet ==
  /\ \A a \in Attempts : Is(a, "downloading") => Books = {}
  /\ Books # {} \/ importer.pc = "place" => AllIdle

Bytes == LiveBytes /\ BootBytes /\ FinishedBytes /\ NoBookYet /\ BooksAreOfOnePiece

BytesInv == FetchInv /\ Bytes

\* Bytes that all say one representation are a beginning of it, and as many as it has the
\* whole of it.
LEMMA AllOfItIsWhole ==
  ASSUME NEW blocks \in Blocks, NEW v \in Versions, NEW n \in 1 .. Size[v], Says(blocks, n, v)
  PROVE  Beginning(blocks) /\ (n = Size[v] => Whole(blocks))
<1>1. blocks \in [1 .. Len(blocks) -> Versions \cup {NoVersion}] /\ Len(blocks) = n
  BY LenProperties DEF Blocks, Says
<1>2. blocks = [i \in 1 .. n |-> v]
  BY <1>1 DEF Says
<1> QED
  BY <1>2 DEF Beginning, Whole

\* Most steps begin no transfer, finish none, place no file and grab nothing:
NothingNew ==
  /\ \A x \in Transfers : Live(x)' => transfer'[x] = transfer[x]
  /\ (\A x \in Transfers : transfer[x] = IdleTransfer) =>
       \A x \in Transfers : transfer'[x] = IdleTransfer
  /\ \A a \in Attempts :
       /\ attempt'[a].book = attempt[a].book
       /\ attempt'[a].total = attempt[a].total
       /\ Is(a, "downloading")' =>
            Is(a, "downloading") /\ attempt'[a].validator = attempt[a].validator
       /\ Is(a, "completed")' =>
            Is(a, "completed") \/ (Is(a, "downloading") /\ PollWill("completed"))
       /\ a \in boot'.rows => boot.pc = "read" \/ a \in boot.rows
  /\ boot'.pc = "read" => boot.pc = "read"
  /\ progress'.state = "completed" => progress.state = "completed"
  /\ PollWill("completed")' => PollWill("completed") \/ progress.state = "completed"
  /\ importer'.pc = "place" =>
       \/ importer.pc = "place" /\ importer.attempt = importer'.attempt
       \/ \E a \in Attempts : a = importer'.attempt /\ Is(a, "completed")

\* such a step leaves the bytes as they are,
LEMMA NothingNewKeeps ==
  ASSUME BytesInv, NothingNew, UNCHANGED <<disk, staged>>
  PROVE  Bytes'
<1> USE DEF BytesInv, Bytes, NothingNew
<1>1. Books' = Books
  BY DEF Books
<1>2. LiveBytes'
  <2> SUFFICES ASSUME NEW x \in Transfers, Live(x)'
               PROVE  InStaging(x)'
    BY DEF LiveBytes
  <2>1. transfer'[x] = transfer[x] /\ Live(x) /\ transfer[x].attempt \in Attempts
    BY DEF Live, FetchInv, Types, TransfersOK
  <2> QED
    BY <2>1 DEF LiveBytes, InStaging, At
<1>3. BootBytes'
  BY DEF BootBytes
<1> USE DEF FetchInv, AllAlone
<1>4. FinishedBytes'
  <2>1. \A a \in Attempts : StagedPiece(a) => StagedPiece(a)'
    BY DEF StagedPiece
  <2>2. ASSUME NEW a \in Attempts, Is(a, "downloading")',
               progress'.state = "completed" \/ PollWill("completed")'
        PROVE  StagedPiece(a)'
    BY <2>1, <2>2 DEF FinishedBytes
  <2>3. ASSUME NEW a \in Attempts, Is(a, "completed")'
        PROVE  StagedPiece(a)'
    BY <2>1, <2>3 DEF FinishedBytes
  <2>4. ASSUME importer'.pc = "place"
        PROVE  StagedPiece(importer.attempt)'
    <3>1. importer'.attempt \in Attempts /\ StagedPiece(importer'.attempt)
      BY <2>4 DEF FinishedBytes, Types, CallersOK
    <3> QED
      BY <2>1, <3>1 DEF StagedPiece
  <2> QED
    BY <2>2, <2>3, <2>4 DEF FinishedBytes
<1>5. NoBookYet' /\ BooksAreOfOnePiece'
  BY <1>1 DEF NoBookYet, BooksAreOfOnePiece, FinishedAlone, AllIdle
<1> QED
  BY <1>2, <1>3, <1>4, <1>5

\* or takes away what is staged and no book.
LEMMA RemoveStagingKeeps ==
  ASSUME BytesInv, NothingNew, NEW now, RemoveStaging(now), \A x \in Transfers : ~Live(x)'
  PROVE  Bytes'
<1> USE DEF BytesInv, Bytes, NothingNew
<1>1. Books' = Books
  BY DEF Books
<1>2. staged'.file = NoFile
  BY DEF RemoveStaging, NoStaging
<1>3. BooksAreOfOnePiece' /\ NoBookYet'
  <2>1. \A a \in Attempts : attempt[a].book # NoFile => attempt[a].book \in Books \cap Files
    BY DEF Books, FetchInv, Types, RowsOK, AttemptRows
  <2>2. \A f \in Books \cap Files : disk'[f] = disk[f]
    BY DEF RemoveStaging
  <2>3. BooksAreOfOnePiece'
    BY <2>1, <2>2 DEF BooksAreOfOnePiece
  <2> QED
    BY <1>1, <2>3 DEF NoBookYet, AllIdle, FinishedAlone, FetchInv, AllAlone
<1> QED
  BY <1>2, <1>3 DEF LiveBytes, BootBytes, FinishedBytes, StagedPiece

\* A transfer that goes on writes to no book, and to nothing that is finished.
LEMMA LiveKeeps ==
  ASSUME BytesInv, NEW x \in Transfers, Live(x), InStaging(x)',
         \A y \in Transfers \ {x} : transfer'[y] = transfer[y],
         \A a \in Attempts : /\ attempt'[a].status = attempt[a].status
                             /\ attempt'[a].book = attempt[a].book,
         UNCHANGED <<progress, callers>>
  PROVE  Bytes'
<1> USE DEF BytesInv, Bytes, FetchInv, AllAlone, callers
<1>1. ~AllIdle /\ progress.state = "downloading" /\ importer.pc = "idle"
  BY LiveIsBusy, IdleTypes DEF AllIdle, LiveAlone
<1>2. Books = {}
  BY DEF LiveAlone, NoBookYet, Types, TransfersOK, Live
<1>3. Books' = {} /\ \A a \in Attempts : attempt'[a].book = NoFile
  BY <1>2 DEF Books
<1>4. LiveBytes'
  <2>1. \A y \in Transfers \ {x} : ~Live(y)
    BY DEF LiveAlone
  <2> QED
    BY <2>1 DEF LiveBytes, Live
<1>5. BootBytes'
  BY <1>1 DEF BootBytes, BootAlone
<1>6. FinishedBytes'
  BY <1>1 DEF FinishedBytes, PollWill, FinishedAlone, PollAlone, Is, Types, CallersOK
<1>7. NoBookYet' /\ BooksAreOfOnePiece'
  BY <1>1, <1>3 DEF NoBookYet, BooksAreOfOnePiece
<1> QED
  BY <1>4, <1>5, <1>6, <1>7

\* A transfer that has what its answer declared, or a part of what declared nothing, leaves
\* a file of one piece.
LEMMA CompletesKeeps ==
  ASSUME BytesInv, NEW x \in Transfers, Live(x), Completes(x), NEW v \in Versions,
         NEW n \in 1 .. Size[v], staged.file # NoFile, Says(disk[staged.file], n, v),
         attempt[transfer[x].attempt].total # NoSize => n = Size[v],
         UNCHANGED <<attempt, disk, staged, callers>>
  PROVE  Bytes'
<1> USE DEF BytesInv, Bytes, FetchInv, AllAlone, callers
<1>1. Piece(disk[staged.file], attempt[transfer[x].attempt].total)
  BY AllOfItIsWhole DEF Piece, Types, FilesOK
<1>2. Books' = Books
  BY DEF Books
<1>3. \A y \in Transfers : ~Live(y)'
  <2>1. \A y \in Transfers \ {x} : transfer[y] = IdleTransfer
    BY LiveIsBusy DEF OneOfEach
  <2>2. transfer' = [transfer EXCEPT ![x] = IdleTransfer]
    BY DEF Completes, Over
  <2> QED
    BY <2>1, <2>2, IdleTypes DEF Live, Fetching, Types, TransfersOK
<1>4. ~AllIdle
  BY LiveIsBusy DEF AllIdle
<1>5. LiveBytes' /\ BootBytes'
  BY <1>3, <1>4 DEF LiveBytes, BootBytes, BootAlone
<1>6. FinishedBytes'
  <2>1. \A a \in Attempts : Is(a, "downloading") => a = transfer[x].attempt
    BY DEF OneOfEach, LiveAlone, Going, Is, Unsettled, InFlight, ActiveAttempt, Types,
           TransfersOK, Live
  <2>2. \A a \in Attempts : a = transfer[x].attempt => StagedPiece(a)'
    BY <1>1 DEF StagedPiece
  <2>3. importer = IdleImporter /\ \A a \in Attempts : ~Is(a, "completed")
    BY <1>4 DEF LiveAlone, FinishedAlone
  <2> QED
    BY <2>1, <2>2, <2>3, IdleTypes DEF FinishedBytes, Is
<1>7. NoBookYet' /\ BooksAreOfOnePiece'
  BY <1>2, <1>4 DEF NoBookYet, BooksAreOfOnePiece, Is
<1> QED
  BY <1>5, <1>6, <1>7

\* A transfer that begins where the bytes it found end.
LEMMA StartBytes ==
  ASSUME BytesInv, NEW a \in Attempts, NEW offset \in Nat,
         NEW validator \in Versions \cup {NoVersion}, NEW expected \in Nat,
         Start(a, offset, validator, expected), AllIdle,
         offset > 0 => staged.file # NoFile /\ Says(disk[staged.file], offset, validator),
         boot'.rows = {}, boot'.pc # "read", Is(a, "downloading"), importer = IdleImporter,
         UNCHANGED <<attempt, disk, poll, importer>>
  PROVE  Bytes'
<1> USE DEF BytesInv, Bytes, FetchInv
<1>1. PICK x \in Transfers :
        /\ transfer' = [transfer EXCEPT ![x].pc = "open", ![x].attempt = a,
                                        ![x].offset = offset, ![x].validator = validator,
                                        ![x].expected = expected]
        /\ progress' = [state |-> "downloading", of |-> a]
        /\ staged' = [staged EXCEPT !.dir = TRUE]
  BY DEF Start
<1>2. /\ \A y \in Transfers \ {x} : transfer'[y] = IdleTransfer
      /\ transfer'[x].pc = "open" /\ transfer'[x].offset = offset
      /\ transfer'[x].validator = validator /\ transfer'[x].read = 0
  <2>1. IdleTransfer.read = 0
    BY DEF IdleTransfer
  <2> QED
    BY <1>1, <2>1, IdleTypes DEF AllIdle, Types, TransfersOK, TransferStates
<1>3. staged'.file = staged.file
  BY <1>1 DEF Types, FilesOK
<1>4. LiveBytes'
  <2>1. InStaging(x)'
    BY <1>2, <1>3 DEF InStaging, At, Responded
  <2>2. \A y \in Transfers \ {x} : ~Live(y)'
    BY <1>2, IdleTypes DEF Live, Fetching
  <2> QED
    BY <2>1, <2>2 DEF LiveBytes
<1>5. Books' = Books /\ Books = {} /\ \A b \in Attempts : StagedPiece(b) => StagedPiece(b)'
  BY <1>3 DEF Books, StagedPiece, Piece, NoBookYet
<1>6. BootBytes' /\ FinishedBytes'
  BY <1>1, <1>5, IdleTypes DEF BootBytes, FinishedBytes, PollWill, Is
<1>7. NoBookYet' /\ BooksAreOfOnePiece'
  BY <1>5, IdleTypes DEF NoBookYet, BooksAreOfOnePiece, Is
<1> QED
  BY <1>4, <1>6, <1>7

\* A block more of the representation that is there already.
LEMMA OneMoreBlock ==
  ASSUME NEW blocks \in Blocks, NEW offset \in Nat, NEW read \in Nat, NEW v \in Versions,
         Says(blocks, offset + read, v)
  PROVE  Says(IF offset = 0 THEN Overwrite(blocks, read + 1, v) ELSE Append(blocks, v),
              offset + read + 1, v)
<1>1. Len(blocks) = offset + read /\ \A i \in 1 .. offset + read : blocks[i] = v
  BY DEF Says
<1>2. CASE offset = 0
  <2> DEFINE n == read + 1
  <2>1. n \in Nat \ {0} /\ n = Len(blocks) + 1 /\ offset + read + 1 = n
    BY <1>1, <1>2
  <2>2. Len(Overwrite(blocks, n, v)) = n
    BY <2>1, OverwriteIsBlocks
  <2>3. \A i \in 1 .. n : Overwrite(blocks, n, v)[i] = IF i = n THEN v ELSE blocks[i]
    BY <2>1, OverwriteIsBlocks
  <2>4. \A i \in 1 .. n : i = n \/ i \in 1 .. offset + read
    BY <2>1
  <2> HIDE DEF n
  <2>5. Says(Overwrite(blocks, n, v), n, v)
    BY <1>1, <2>2, <2>3, <2>4 DEF Says
  <2> QED
    BY <1>2, <2>1, <2>5 DEF n
<1>3. CASE offset # 0
  <2>1. blocks \in Seq(Versions \cup {NoVersion}) /\ v \in Versions \cup {NoVersion}
    BY DEF Blocks
  <2>2. Len(Append(blocks, v)) = offset + read + 1
    BY <1>1, <2>1, AppendProperties
  <2>3. \A i \in 1 .. offset + read : Append(blocks, v)[i] = blocks[i]
    BY <1>1, <2>1, AppendProperties
  <2>4. Append(blocks, v)[offset + read + 1] = v
    BY <1>1, <2>1, AppendProperties
  <2>5. \A i \in 1 .. offset + read + 1 : i = offset + read + 1 \/ i \in 1 .. offset + read
    OBVIOUS
  <2>6. Says(Append(blocks, v), offset + read + 1, v)
    BY <1>1, <2>2, <2>3, <2>4, <2>5 DEF Says
  <2> QED
    BY <1>3, <2>6
<1> QED
  BY <1>2, <1>3

\* A transfer that answers, records, opens its file, writes, breaks off or is discarded.
LEMMA StepBytes ==
  ASSUME BytesInv, NEW x \in Transfers, Step(x)
  PROVE  Bytes'
<1> USE DEF BytesInv, Bytes, FetchInv
<1> DEFINE f == transfer[x]
           Others == \A y \in Transfers \ {x} : transfer'[y] = transfer[y]
           Rows == \A a \in Attempts : /\ attempt'[a].status = attempt[a].status
                                       /\ attempt'[a].book = attempt[a].book
<1>1. /\ f \in TransferStates /\ transfer \in [Transfers -> TransferStates]
      /\ f.pc \in Fetching => f.attempt \in Attempts
      /\ f.pc \in Responded => f.version \in Versions
      /\ source \in Versions /\ disk \in [Files -> Blocks]
      /\ staged.file \in Files \cup {NoFile} /\ staged.dir \in BOOLEAN
  BY DEF Types, TransfersOK, FilesOK
<1>2. Live(x) => InStaging(x)
  BY DEF LiveBytes
<1>3. ASSUME Throws(x), f.pc \in Fetching, UNCHANGED <<attempt, disk, staged, callers>>
      PROVE  Bytes'
  <2>1. f # IdleTransfer
    BY <1>3, IdleTypes DEF Fetching
  <2>2. \A y \in Transfers : ~Live(y)'
    <3>1. \A y \in Transfers \ {x} : transfer[y] = IdleTransfer
      BY <2>1 DEF AllAlone, OneOfEach
    <3>2. PICK over \in {IdleTransfer, [IdleTransfer EXCEPT !.pc = "discard"]} :
            transfer' = [transfer EXCEPT ![x] = over]
      BY <1>3 DEF Throws, Over
    <3>3. over.pc \notin Fetching
      BY <3>2 DEF IdleTransfer, Fetching
    <3> QED
      BY <1>1, <3>1, <3>2, <3>3, IdleTypes DEF Live, Fetching
  <2>3. progress'.state = "completed" => progress.state = "completed"
    BY <1>3 DEF Throws
  <2>4. NothingNew
    BY <1>3, <2>1, <2>2, <2>3 DEF NothingNew, AllIdle, callers, Is, PollWill, Types, CallersOK
  <2> QED
    BY <1>3, <2>4, NothingNewKeeps
<1>4. CASE Respond(x)
  <2>1. f.pc = "open" /\ Live(x) /\ f.read = 0
        /\ UNCHANGED <<attempt, source, disk, staged, callers>>
    BY <1>1, <1>2, <1>4 DEF Respond, Live, Fetching, InStaging
  <2>2. CASE RespondsWhole(x) \/ RespondsPartial(x)
    <3>1. /\ Others /\ UNCHANGED progress
          /\ transfer'[x].pc = "record" /\ transfer'[x].version = source
          /\ transfer'[x].offset = f.offset /\ transfer'[x].read = f.read
          /\ f.offset > 0 => f.validator = source
          /\ transfer'[x].total \in {NoSize, Size[source]} /\ f.offset <= Size[source]
      BY <1>1, <2>2, SizesAreSizes
         DEF RespondsWhole, RespondsPartial, memory, TransferStates
    <3>2. InStaging(x)'
      BY <1>1, <1>2, <2>1, <3>1 DEF InStaging, At, TransferStates
    <3> QED
      BY <2>1, <3>1, <3>2, LiveKeeps
  <2>3. CASE RespondsComplete(x)
    <3>1. f.offset = Size[source] /\ f.validator = source /\ Completes(x) /\ f.offset > 0
          /\ f.offset + f.read = Size[source]
      BY <1>1, <2>1, <2>3, SizesAreSizes DEF RespondsComplete
    <3>2. staged.file # NoFile /\ Says(disk[staged.file], Size[source], source)
      BY <1>2, <2>1, <3>1 DEF InStaging, At
    <3>3. Size[source] \in 1 .. Size[source]
      BY <1>1, SizesAreSizes
    <3> QED
      BY <1>1, <2>1, <3>1, <3>2, <3>3, CompletesKeeps
  <2> QED
    BY <1>4, <2>2, <2>3 DEF Respond
<1>5. CASE Record(x)
  <2>1. Others /\ Rows
    BY <1>1, <1>5 DEF Record, Fetching, Types, RowsOK, AttemptRows
  <2>2. /\ f.pc = "record" /\ transfer'[x].pc = "create"
        /\ transfer'[x].version = f.version /\ transfer'[x].offset = f.offset
        /\ transfer'[x].read = f.read /\ transfer'[x].aborted = f.aborted
        /\ transfer'[x].attempt = f.attempt /\ transfer'[x].total = f.total
        /\ UNCHANGED <<source, disk, staged, memory, callers>>
    BY <1>1, <1>5 DEF Record, TransferStates
  <2>3. CASE Live(x)
    <3>1. attempt'[f.attempt].total = f.total
      BY <1>1, <1>5 DEF Record, Fetching, Types, RowsOK, AttemptRows
    <3>2. InStaging(x)'
      BY <1>2, <2>2, <2>3, <3>1 DEF InStaging, At, Responded
    <3> QED
      BY <2>1, <2>2, <2>3, <3>2, LiveKeeps DEF memory
  <2>4. CASE ~Live(x)
    <3>1. f # IdleTransfer /\ ~AllIdle /\ Books = {} /\ importer.pc # "place"
      BY <2>2, IdleTypes DEF AllIdle, NoBookYet
    <3>2. \A y \in Transfers : ~Live(y)'
      <4>1. \A y \in Transfers \ {x} : transfer[y] = IdleTransfer
        BY <3>1 DEF AllAlone, OneOfEach
      <4> QED
        BY <2>1, <2>2, <2>4, <4>1, IdleTypes DEF Live, Fetching
    <3>3. Books' = Books
      BY <2>1 DEF Books
    <3>4. BootBytes' /\ LiveBytes'
      BY <2>2, <3>1, <3>2 DEF BootBytes, LiveBytes, AllAlone, BootAlone, callers
    <3>5. FinishedBytes'
      BY <2>1, <2>2, <3>1 DEF FinishedBytes, PollWill, Is, memory, callers, AllAlone,
                              PollAlone, FinishedAlone, Types, CallersOK
    <3>6. NoBookYet' /\ BooksAreOfOnePiece'
      BY <2>1, <2>2, <3>1, <3>3 DEF NoBookYet, BooksAreOfOnePiece, Books, Is, callers
    <3> QED
      BY <3>4, <3>5, <3>6
  <2> QED
    BY <2>3, <2>4
<1>6. CASE Create(x)
  <2>1. CASE Throws(x) /\ UNCHANGED <<disk, staged>>
    BY <1>3, <1>6, <2>1 DEF Create, Fetching
  <2>2. CASE /\ ~f.aborted
             /\ staged' = [staged EXCEPT !.file = StagedFile]
             /\ disk' = IF f.offset = 0 THEN [disk EXCEPT ![StagedFile] = <<>>] ELSE disk
             /\ transfer' = [transfer EXCEPT ![x].pc = "write", ![x].file = StagedFile]
             /\ UNCHANGED memory
    <3>1. f.pc = "create" /\ Live(x) /\ f.read = 0 /\ UNCHANGED <<attempt, callers>>
      BY <1>2, <1>6, <2>2 DEF Create, Live, Fetching, InStaging
    <3>2. /\ Others /\ transfer'[x].pc = "write" /\ transfer'[x].file = StagedFile
          /\ transfer'[x].version = f.version /\ transfer'[x].offset = f.offset
          /\ transfer'[x].read = 0 /\ f.offset \in Nat
          /\ transfer'[x].attempt = f.attempt /\ transfer'[x].total = f.total
          /\ f.total \in {NoSize, Size[f.version]} /\ f.offset + 0 <= Size[f.version]
          /\ attempt[f.attempt].total = f.total
      BY <1>1, <1>2, <2>2, <3>1 DEF TransferStates, InStaging, Responded
    <3>3. staged'.file = StagedFile /\ StagedFile \in Files /\ StagedFile # NoFile
      BY <2>2, StagedFileIsFile DEF Types, FilesOK, Files, NoFile
    <3>4. Says(disk[staged.file], f.offset, f.version)' \/ f.offset > 0
      BY <1>1, <2>2, <3>2, <3>3 DEF Says
    <3>5. InStaging(x)'
      <4>1. CASE f.offset > 0
        <5>1. staged.file # NoFile /\ Says(disk[staged.file], f.offset, f.version)
          BY <1>2, <3>1, <3>2, <4>1 DEF InStaging, At
        <5>2. disk' = disk /\ staged'.file = staged.file
          BY <2>2, <3>3, <4>1, <5>1 DEF StagedFile
        <5> QED
          BY <3>1, <3>2, <3>3, <5>1, <5>2 DEF InStaging, At
      <4>2. CASE f.offset = 0
        <5>1. disk'[staged'.file] = <<>>
          BY <1>1, <2>2, <3>3, <4>2
        <5> QED
          BY <3>1, <3>2, <3>3, <4>2, <5>1 DEF InStaging, At, Says
      <4> QED
        BY <3>2, <4>1, <4>2
    <3> QED
      BY <2>2, <3>1, <3>2, <3>5, LiveKeeps DEF memory
  <2> QED
    BY <1>6, <2>1, <2>2 DEF Create
<1>7. CASE Write(x)
  <2> DEFINE n == f.read + 1
             blocks == disk[f.file]
             more == IF f.offset = 0 THEN Overwrite(blocks, n, f.version)
                                     ELSE Append(blocks, f.version)
  <2>1. /\ f.pc = "write" /\ Live(x) /\ Others /\ UNCHANGED <<attempt, staged, memory, callers>>
        /\ transfer' = [transfer EXCEPT ![x].read = n]
    BY <1>1, <1>7 DEF Write, Live, Fetching
  <2>2. /\ f.file = staged.file /\ staged.file # NoFile /\ f.file \in Files
        /\ Says(blocks, f.offset + f.read, f.version) /\ blocks \in Blocks
        /\ f.offset \in Nat /\ f.read \in Nat /\ n \in Nat \ {0} /\ f.version \in Versions
        /\ f.total \in {NoSize, Size[f.version]} /\ attempt[f.attempt].total = f.total
        /\ f.offset + n <= Size[f.version]
    BY <1>1, <1>2, <1>7, <2>1 DEF Write, InStaging, At, Responded, TransferStates
  <2>3. disk' = [disk EXCEPT ![f.file] = more]
    BY <1>7, <2>2 DEF Write
  <2>4. Says(more, f.offset + n, f.version)
    <3>1. Says(more, f.offset + f.read + 1, f.version)
      BY <2>2, OneMoreBlock
    <3>2. f.offset + n = f.offset + f.read + 1
      BY <2>2
    <3> QED
      BY <3>1, <3>2
  <2>5. /\ transfer'[x].pc = "write" /\ transfer'[x].file = f.file
        /\ transfer'[x].version = f.version /\ transfer'[x].offset = f.offset
        /\ transfer'[x].read = n /\ transfer'[x].attempt = f.attempt
        /\ transfer'[x].total = f.total
    BY <1>1, <2>1 DEF TransferStates
  <2>6. InStaging(x)'
    <3>1. disk'[f.file] = more
      BY <1>1, <2>2, <2>3
    <3> HIDE DEF more
    <3> QED
      BY <2>1, <2>2, <2>4, <2>5, <3>1 DEF InStaging, At
  <2> QED
    BY <2>1, <2>6, LiveKeeps DEF memory
<1>8. CASE Finish(x)
  <2> DEFINE n == f.offset + f.read
  <2>1. /\ Live(x) /\ f.pc = "write" /\ Completes(x) /\ f.version \in Versions /\ f.read > 0
        /\ f.total # NoSize => n = f.total
        /\ UNCHANGED <<attempt, disk, staged, callers>>
    BY <1>1, <1>8 DEF Finish, Live, Fetching, Responded
  <2>2. /\ staged.file # NoFile /\ Says(disk[staged.file], n, f.version)
        /\ f.total \in {NoSize, Size[f.version]} /\ n <= Size[f.version]
        /\ attempt[f.attempt].total = f.total
    BY <1>2, <2>1 DEF InStaging, At, Responded
  <2>3. n \in 1 .. Size[f.version]
    BY <1>1, <2>1, <2>2, SizesAreSizes DEF TransferStates
  <2> HIDE DEF n
  <2> QED
    BY <2>1, <2>2, <2>3, CompletesKeeps
<1>9. CASE Break(x)
  BY <1>3, <1>9 DEF Break, Fetching
<1>10. CASE Discard(x)
  <2> DEFINE over == [transfer EXCEPT ![x] = IdleTransfer]
  <2>1. f.pc = "discard" /\ UNCHANGED <<attempt, memory, callers>>
    BY <1>10 DEF Discard
  <2>2. \A y \in Transfers : over[y] = IdleTransfer
    BY <1>1, <2>1, IdleTypes DEF AllAlone, OneOfEach
  <2>3. \A y \in Transfers : transfer'[y] = IdleTransfer
    <3>1. CASE RemoveStaging(over)
      <4>1. over \in [Transfers -> TransferStates]
        BY <1>1, IdleTypes
      <4> HIDE DEF over
      <4> QED
        BY <2>2, <3>1, <4>1, RemoveStagingLeaves
    <3>2. CASE transfer' = over
      BY <2>2, <3>2
    <3> QED
      BY <1>10, <3>1, <3>2 DEF Discard
  <2>4. \A y \in Transfers : ~Live(y)'
    BY <2>3, IdleTypes DEF Live, Fetching
  <2>5. NothingNew
    BY <2>1, <2>3, <2>4 DEF NothingNew, memory, callers, Is, PollWill
  <2> QED
    BY <1>10, <2>4, <2>5, NothingNewKeeps, RemoveStagingKeeps DEF Discard
<1> QED
  BY <1>4, <1>5, <1>6, <1>7, <1>8, <1>9, <1>10 DEF Step

\* A row that is failed is no longer at "downloading", and has the book it had.
LEMMA FailedRow ==
  ASSUME Types, NEW a \in Attempts, FailDownload(a) \/ SetStatus(a, "failed")
  PROVE  \A b \in Attempts :
           /\ attempt'[b].book = attempt[b].book
           /\ attempt'[b].total = attempt[b].total
           /\ \A s \in {"downloading", "completed"} :
                Is(b, s)' => Is(b, s) /\ attempt'[b] = attempt[b]
<1>1. \A b \in Attempts : \/ attempt'[b] = attempt[b]
                          \/ /\ attempt'[b].status = "failed"
                             /\ attempt'[b].book = attempt[b].book
                             /\ attempt'[b].total = attempt[b].total
  BY DEF FailDownload, SetStatus, Types, RowsOK, AttemptRows
<1> QED
  BY <1>1 DEF Is

\* A grab, an add, and what the poll makes of its answer.
LEMMA PollBytes ==
  ASSUME BytesInv, Plain,
         Prune \/ Add \/ PollApply \/ SourceChanges
           \/ \E a \in Attempts : Grab(a) \/ Ages(a) \/ PollRead(a)
  PROVE  Bytes'
<1> USE DEF BytesInv, FetchInv
<1>1. CASE Prune
  <2>1. NothingNew
    BY <1>1 DEF Prune, NothingNew, callers, Is, PollWill, NoProgress
  <2> QED
    BY <1>1, <2>1, NothingNewKeeps DEF Prune
<1>2. CASE SourceChanges
  <2>1. NothingNew
    BY <1>2 DEF SourceChanges, NothingNew, memory, callers, Is, PollWill
  <2> QED
    BY <1>2, <2>1, NothingNewKeeps DEF SourceChanges
<1>3. CASE Add
  <2>1. /\ adding \in Attempts /\ AllIdle /\ boot.pc = "up" /\ boot.rows = {}
        /\ Is(adding, "downloading") /\ importer = IdleImporter
        /\ UNCHANGED <<disk, poll, importer, removal, boot>>
    BY <1>3 DEF Add, AllAlone, AddAlone, Forgotten, AllIdle, BootAlone, Types, CallersOK
  <2>2. CASE Start(adding, 0, NoVersion, NoSize) /\ UNCHANGED attempt
    BY <2>1, <2>2, StartBytes DEF NoSize
  <2>3. CASE SetStatus(adding, "failed") /\ UNCHANGED <<staged, memory, transfer>>
    <3>1. NothingNew
      BY <2>1, <2>3, FailedRow DEF NothingNew, AllIdle, memory, Is, PollWill, Types, CallersOK
    <3> QED
      BY <2>1, <2>3, <3>1, NothingNewKeeps
  <2> QED
    BY <1>3, <2>2, <2>3 DEF Add
<1>4. ASSUME NEW a \in Attempts, Grab(a)
      PROVE  Bytes'
  <2>1. /\ AllIdle /\ Books = {} /\ boot.pc = "up" /\ boot.rows = {} /\ importer = IdleImporter
        /\ progress = NoProgress
        /\ UNCHANGED <<disk, staged, progress, transfer, poll, importer, boot>>
    BY <1>4 DEF Grab, Plain, Apart, Forgotten, AllIdle, AllAlone, BootAlone, memory
  <2>2. \A b \in Attempts : /\ attempt'[b].book = attempt[b].book
                            /\ Is(b, "completed")' => Is(b, "completed")
    BY <1>4 DEF Grab, SetStatus, Is, Types, RowsOK, AttemptRows
  <2>3. Books' = {} /\ \A b \in Attempts : attempt'[b].book = NoFile
    BY <2>1, <2>2 DEF Books
  <2>4. LiveBytes' /\ BootBytes'
    BY <2>1, IdleTypes DEF LiveBytes, Live, AllIdle, Fetching, BootBytes
  <2>5. ~PollWill("completed")'
    <3>1. poll.pc = "apply" => poll.attempt \in Attempts \ {a} /\ ~Going(poll.attempt)
      BY <1>4 DEF Grab, AllAlone, OneOfEach, Going, Types, CallersOK
    <3>2. \A b \in Attempts \ {a} : attempt'[b] = attempt[b]
      BY <1>4 DEF Grab, SetStatus, Types, RowsOK
    <3> QED
      BY <2>1, <3>1, <3>2 DEF PollWill, Is, Going, Unsettled, InFlight, ActiveAttempt
  <2>6. FinishedBytes'
    <3>1. \A b \in Attempts : ~Is(b, "completed")
      BY <1>4 DEF Grab, Is, Unsettled, InFlight
    <3> QED
      BY <2>1, <2>2, <2>5, <3>1, IdleTypes DEF FinishedBytes, NoProgress
  <2> QED
    BY <2>1, <2>3, <2>4, <2>6 DEF Bytes, NoBookYet, BooksAreOfOnePiece, AllIdle
<1>5. ASSUME NEW a \in Attempts, Ages(a)
      PROVE  Bytes'
  <2>1. \A b \in Attempts : /\ attempt'[b].status = attempt[b].status
                            /\ attempt'[b].validator = attempt[b].validator
                            /\ attempt'[b].total = attempt[b].total
                            /\ attempt'[b].book = attempt[b].book
    BY <1>5 DEF Ages, Types, RowsOK, AttemptRows
  <2>2. NothingNew
    BY <1>5, <2>1 DEF Ages, NothingNew, memory, callers, Is, PollWill, Types, CallersOK
  <2> QED
    BY <1>5, <2>2, NothingNewKeeps DEF Ages
<1>6. ASSUME NEW a \in Attempts, PollRead(a)
      PROVE  Bytes'
  <2>1. NothingNew
    BY <1>6 DEF PollRead, NothingNew, memory, Is, PollWill
  <2> QED
    BY <1>6, <2>1, NothingNewKeeps DEF PollRead
<1>7. CASE PollApply
  <2> DEFINE a == poll.attempt
  <2>1. /\ a \in Attempts /\ poll' = IdlePoll /\ poll.pc = "apply"
        /\ UNCHANGED <<disk, staged, progress, transfer, importer, boot>>
    BY <1>7 DEF PollApply, memory, Types, CallersOK
  <2>2. \A b \in Attempts :
          /\ attempt'[b].book = attempt[b].book
          /\ attempt'[b].total = attempt[b].total
          /\ Is(b, "downloading")' => Is(b, "downloading") /\ attempt'[b] = attempt[b]
          /\ Is(b, "completed")' =>
               Is(b, "completed") \/ (Is(b, "downloading") /\ PollWill("completed"))
    <3>1. CASE FailDownload(a)
      <4> HIDE DEF a
      <4> QED
        BY <2>1, <3>1, FailedRow
    <3>2. CASE UNCHANGED attempt
      BY <3>2 DEF Is
    <3>3. CASE /\ poll.says = "completed" /\ Is(a, "downloading")
               /\ attempt' = [attempt EXCEPT ![a].status = "completed",
                                             ![a].validator = NoVersion]
      BY <2>1, <3>3 DEF Is, PollWill, Types, RowsOK, AttemptRows
    <3> QED
      BY <1>7, <3>1, <3>2, <3>3 DEF PollApply
  <2>3. ~PollWill("completed")'
    BY <2>1, IdleTypes DEF PollWill
  <2>4. NothingNew
    BY <2>1, <2>2, <2>3 DEF NothingNew, AllIdle, Types, CallersOK
  <2> QED
    BY <2>1, <2>4, NothingNewKeeps
<1> QED
  BY <1>1, <1>2, <1>3, <1>4, <1>5, <1>6, <1>7

\* A removal aborts, forgets, deletes, and fails the attempt.
LEMMA RemovalBytes ==
  ASSUME BytesInv, (\E a \in Attempts : Stop(a)) \/ \E k \in DOMAIN removal : RemovalStep(k)
  PROVE  Bytes'
<1> USE DEF BytesInv, FetchInv
<1>1. ASSUME NEW k, NEW a, Removes(k, a), UNCHANGED <<attempt, progress, poll, boot>>,
             importer' \in {importer, IdleImporter}
      PROVE  NothingNew
  <2>1. \A x \in Transfers : Live(x)' => transfer'[x] = transfer[x]
    BY <1>1 DEF Removes, Live, Types, TransfersOK, TransferStates
  <2>2. AllIdle => UNCHANGED transfer
    <3>1. AllIdle => controller \notin Transfers
      BY IdleTypes, TransfersAssumption DEF AllIdle, AllAlone, LiveAlone, Fetching
    <3> QED
      BY <1>1, <3>1 DEF Removes, Types, TransfersOK
  <2> QED
    BY <1>1, <2>1, <2>2, IdleTypes DEF NothingNew, AllIdle, Is, PollWill
<1>2. ASSUME NEW a \in Attempts, Stop(a)
      PROVE  Bytes'
  <2>1. NothingNew
    BY <1>1, <1>2 DEF Stop, memory
  <2> QED
    BY <1>2, <2>1, NothingNewKeeps DEF Stop
<1>3. ASSUME NEW k \in {"stop", "cleanup"}, RemovalForgets(k)
      PROVE  Bytes'
  <2>1. NothingNew
    BY <1>3 DEF RemovalForgets, NothingNew, Is, PollWill, NoProgress
  <2> QED
    BY <1>3, <2>1, NothingNewKeeps DEF RemovalForgets
<1>4. ASSUME NEW k \in {"stop", "cleanup"}, RemovalDeletes(k)
      PROVE  Bytes'
  <2>1. removal[k] # IdleRemoval
    BY <1>4, IdleTypes DEF RemovalDeletes
  <2>2. \A x \in Transfers : ~Live(x)'
    <3>1. \A x \in Transfers : ~Live(x)
      BY <2>1 DEF AllAlone, LiveAlone, NoRemoval
    <3>2. CASE RemoveStaging(transfer)
      BY <3>1, <3>2, RemoveStagingLeaves DEF Live, Types, TransfersOK
    <3>3. CASE UNCHANGED transfer
      BY <3>1, <3>3 DEF Live
    <3> QED
      BY <1>4, <3>2, <3>3 DEF RemovalDeletes
  <2>3. AllIdle => AllIdle'
    <3>1. CASE RemoveStaging(transfer)
      BY <3>1, RemoveStagingLeaves DEF AllIdle, Types, TransfersOK
    <3>2. CASE UNCHANGED transfer
      BY <3>2 DEF AllIdle
    <3> QED
      BY <1>4, <3>1, <3>2 DEF RemovalDeletes
  <2>4. NothingNew
    BY <1>4, <2>2, <2>3 DEF RemovalDeletes, NothingNew, AllIdle, memory, Is, PollWill
  <2> QED
    BY <1>4, <2>2, <2>4, NothingNewKeeps, RemoveStagingKeeps DEF RemovalDeletes
<1>5. ASSUME NEW k \in {"stop", "cleanup"}, RemovalFails(k)
      PROVE  Bytes'
  <2> DEFINE a == removal[k].attempt
  <2>1. \A b \in Attempts :
          /\ attempt'[b].book = attempt[b].book
          /\ attempt'[b].total = attempt[b].total
          /\ \A s \in {"downloading", "completed"} :
               Is(b, s)' => Is(b, s) /\ attempt'[b] = attempt[b]
    <3>1. CASE SetStatus(a, "failed") /\ a \in Attempts
      <4> HIDE DEF a
      <4> QED
        BY <3>1, FailedRow
    <3>2. CASE UNCHANGED attempt
      BY <3>2 DEF Is
    <3>3. a \notin Attempts /\ SetStatus(a, "failed") => UNCHANGED attempt
      BY DEF SetStatus, Types, RowsOK
    <3> QED
      BY <1>5, <3>1, <3>2, <3>3 DEF RemovalFails
  <2>2. NothingNew
    BY <1>5, <2>1 DEF RemovalFails, NothingNew, memory, PollWill, Types, CallersOK
  <2> QED
    BY <1>5, <2>2, NothingNewKeeps DEF RemovalFails
<1>6. DOMAIN removal = {"stop", "cleanup"}
  BY DEF Types, CallersOK
<1> QED
  BY <1>2, <1>3, <1>4, <1>5, <1>6 DEF RemovalStep

\* An import links the file of a finished download, which is whole.
LEMMA ImportBytes ==
  ASSUME BytesInv, ImportStep \/ \E a \in Attempts : Verified(a)
  PROVE  Bytes'
<1> USE DEF BytesInv, FetchInv
<1>1. ASSUME NEW a \in Attempts, ImportClaim(a) \/ Verified(a)
      PROVE  Bytes'
  <2>1. \A b \in Attempts :
          /\ attempt'[b].book = attempt[b].book
          /\ attempt'[b].total = attempt[b].total
          /\ \A s \in {"downloading", "completed"} :
               Is(b, s)' => Is(b, s) /\ attempt'[b] = attempt[b]
    BY <1>1 DEF ImportClaim, Verified, SetStatus, Is, Types, RowsOK, AttemptRows
  <2>2. NothingNew
    BY <1>1, <2>1
       DEF ImportClaim, Verified, NothingNew, memory, callers, PollWill, Types, CallersOK
  <2> QED
    BY <1>1, <2>2, NothingNewKeeps DEF ImportClaim, Verified
<1>2. CASE ImportPlace
  <2> DEFINE a == importer.attempt
  <2>1. /\ importer.pc = "place" /\ importer # IdleImporter /\ a \in Attempts
        /\ AllIdle /\ UNCHANGED <<disk, staged, progress, transfer, poll, boot>>
    BY <1>2, IdleTypes DEF ImportPlace, memory, Types, CallersOK, Bytes, NoBookYet
  <2>2. CASE /\ staged.file # NoFile /\ importer' = [importer EXCEPT !.pc = "cleanup"]
             /\ attempt' = [attempt EXCEPT ![a].book = staged.file]
    <3>1. \A b \in Attempts :
            /\ attempt'[b].status = attempt[b].status
            /\ attempt'[b].validator = attempt[b].validator
            /\ attempt'[b].total = attempt[b].total
            /\ attempt'[b].book = IF b = a THEN staged.file ELSE attempt[b].book
      BY <2>1, <2>2 DEF Types, RowsOK, AttemptRows
    <3>2. \A b \in Attempts : ~Is(b, "downloading")
      BY <2>1 DEF AllAlone, ImportAlone, Going, Is, Unsettled, InFlight, ActiveAttempt
    <3>3. \A x \in Transfers : ~Live(x)
      BY <2>1 DEF AllAlone, LiveAlone
    <3>4. Piece(disk[staged.file], attempt[a].total)
      BY <2>1, <2>2 DEF Bytes, FinishedBytes, StagedPiece
    <3>5. BooksAreOfOnePiece'
      <4>1. \A b \in Attempts : attempt[b].book # NoFile =>
              Piece(disk[attempt[b].book], attempt[b].total)
        BY DEF Bytes, BooksAreOfOnePiece, Piece
      <4>2. \A b \in Attempts : attempt'[b].book # NoFile =>
              Piece(disk[attempt'[b].book], attempt'[b].total)
        BY <3>1, <3>4, <4>1
      <4> QED
        BY <2>1, <4>2 DEF BooksAreOfOnePiece, Piece, Beginning, Whole
    <3>6. LiveBytes' /\ BootBytes' /\ NoBookYet'
      BY <2>1, <3>1, <3>2, <3>3 DEF LiveBytes, Live, BootBytes, NoBookYet, Is, AllIdle
    <3>7. FinishedBytes'
      <4>1. /\ \A b \in Attempts : StagedPiece(b) => StagedPiece(b)'
            /\ \A b \in Attempts : Is(b, "completed")' => Is(b, "completed")
            /\ \A b \in Attempts : ~Is(b, "downloading")'
            /\ importer'.pc = "cleanup"
        BY <2>1, <2>2, <3>1, <3>2 DEF StagedPiece, Piece, Beginning, Whole, Is, Types, CallersOK
      <4> QED
        BY <4>1 DEF Bytes, FinishedBytes
    <3> QED
      BY <3>5, <3>6, <3>7 DEF Bytes
  <2>3. CASE FailDownload(a) /\ importer' = IdleImporter
    <3>1. \A b \in Attempts :
            /\ attempt'[b].book = attempt[b].book
            /\ attempt'[b].total = attempt[b].total
            /\ \A s \in {"downloading", "completed"} :
                 Is(b, s)' => Is(b, s) /\ attempt'[b] = attempt[b]
      <4> HIDE DEF a
      <4> QED
        BY <2>1, <2>3, FailedRow
    <3>2. NothingNew
      BY <2>1, <2>3, <3>1, IdleTypes DEF NothingNew, PollWill, Types, CallersOK
    <3> QED
      BY <2>1, <3>2, NothingNewKeeps
  <2> QED
    BY <1>2, <2>2, <2>3 DEF ImportPlace
<1>3. CASE ImportCleanup
  <2>1. \A x \in Transfers : Live(x)' => transfer'[x] = transfer[x]
    BY <1>3 DEF ImportCleanup, Removes, Live, Types, TransfersOK, TransferStates
  <2>2. AllIdle => UNCHANGED transfer
    <3>1. AllIdle => controller \notin Transfers
      BY IdleTypes, TransfersAssumption DEF AllIdle, AllAlone, LiveAlone, Fetching
    <3> QED
      BY <1>3, <3>1 DEF ImportCleanup, Removes, Types, TransfersOK
  <2>3. NothingNew
    BY <1>3, <2>1, <2>2, IdleTypes DEF ImportCleanup, NothingNew, AllIdle, memory, Is, PollWill
  <2> QED
    BY <1>3, <2>3, NothingNewKeeps DEF ImportCleanup
<1> QED
  BY <1>1, <1>2, <1>3 DEF ImportStep

\* What a restart finds is of the representation its row names, and goes on from there.
LEMMA BootBytesKeep ==
  ASSUME BytesInv, Plain, Restart \/ BootStep
  PROVE  Bytes'
<1> USE DEF BytesInv, FetchInv
<1>1. CASE Restart
  <2>1. /\ ~OverLeftover /\ UNCHANGED <<attempt, disk, staged>>
        /\ progress' = NoProgress /\ poll' = IdlePoll /\ importer' = IdleImporter
        /\ boot' = [pc |-> "read", rows |-> {}] /\ AllIdle'
    BY <1>1 DEF Restart, Plain, AllIdle
  <2>2. BootBytes'
    <3> SUFFICES ASSUME NEW a \in Attempts, Is(a, "downloading"),
                        attempt[a].validator # NoVersion, staged.file # NoFile
                 PROVE  Says(disk[staged.file], Len(disk[staged.file]), attempt[a].validator)
      BY <2>1 DEF BootBytes, Is
    <3> QED
      BY <2>1 DEF OverLeftover, StagedBytes, Says
  <2>3. LiveBytes'
    BY <2>1, IdleTypes DEF LiveBytes, Live, AllIdle, Fetching
  <2>4. FinishedBytes'
    BY <2>1, IdleTypes DEF Bytes, FinishedBytes, StagedPiece, Piece, Beginning, Whole, PollWill,
                           NoProgress, Is
  <2>5. NoBookYet' /\ BooksAreOfOnePiece'
    BY <2>1 DEF Beginning, Whole, Bytes, NoBookYet, BooksAreOfOnePiece, Books, Is
  <2> QED
    BY <2>2, <2>3, <2>4, <2>5 DEF Bytes
<1>2. CASE BootRead
  <2>1. NothingNew
    BY <1>2 DEF BootRead, NothingNew, memory, Is, PollWill
  <2> QED
    BY <1>2, <2>1, NothingNewKeeps DEF BootRead
<1>3. ASSUME NEW a \in Attempts, BootResume(a)
      PROVE  Bytes'
  <2> DEFINE row == attempt[a]
  <2>1. /\ boot.pc = "resume" /\ a \in boot.rows /\ Is(a, "downloading") /\ AllIdle
        /\ boot' = [boot EXCEPT !.rows = boot.rows \ {a}]
        /\ importer = IdleImporter /\ UNCHANGED <<disk, poll, importer>>
    BY <1>3 DEF BootResume, AllAlone, BootAlone
  <2>2. boot.rows = {a}
    BY <2>1 DEF AllAlone, BootAlone, OneOfEach, Going, Is, Unsettled, InFlight, ActiveAttempt,
                Types, CallersOK
  <2>3. boot'.pc = "resume" /\ boot'.rows = {}
    BY <2>1, <2>2 DEF Types, CallersOK
  <2>4. ASSUME StagedBytes > 0 => row.validator # NoVersion, UNCHANGED attempt,
               NEW expected \in {NoSize, row.total},
               Start(a, StagedBytes, row.validator, expected)
        PROVE  Bytes'
    <3>1. StagedBytes \in Nat
      BY LenProperties DEF StagedBytes, Types, FilesOK, Blocks
    <3>2. row.validator \in Versions \cup {NoVersion} /\ expected \in Nat
      BY DEF Types, RowsOK, AttemptRows, NoSize
    <3>3. StagedBytes > 0 =>
            staged.file # NoFile /\ Says(disk[staged.file], StagedBytes, row.validator)
      BY <2>1, <2>4 DEF Bytes, BootBytes, StagedBytes
    <3> QED
      BY <2>1, <2>3, <2>4, <3>1, <3>2, <3>3, StartBytes
  <2>5. CASE FailDownload(a) /\ UNCHANGED <<staged, memory, transfer>>
    <3>1. NothingNew
      BY <2>1, <2>3, <2>5, FailedRow DEF NothingNew, memory, PollWill, Types, CallersOK
    <3> QED
      BY <2>1, <2>5, <3>1, NothingNewKeeps
  <2> QED
    BY <1>3, <2>4, <2>5 DEF BootResume
<1>4. CASE BootReap
  <2>1. boot.rows = {} /\ boot' = Up /\ UNCHANGED <<attempt, memory, poll, importer>>
    BY <1>4 DEF BootReap
  <2>2. CASE RemoveStaging(transfer) /\ \A a \in Attempts : attempt[a].status \notin Unsettled
    <3>1. \A x \in Transfers : ~Live(x)
      BY <2>2 DEF AllAlone, LiveAlone, Live, Is, Unsettled, InFlight, ActiveAttempt, Types,
                  TransfersOK
    <3>2. \A x \in Transfers : ~Live(x)'
      BY <2>2, <3>1, RemoveStagingLeaves DEF Live, Types, TransfersOK
    <3>3. AllIdle => AllIdle'
      BY <2>2, RemoveStagingLeaves DEF AllIdle, Types, TransfersOK
    <3>4. NothingNew
      BY <2>1, <3>2, <3>3 DEF NothingNew, AllIdle, memory, Is, PollWill, Up
    <3> QED
      BY <2>2, <3>2, <3>4, RemoveStagingKeeps
  <2>3. CASE UNCHANGED <<disk, staged, transfer>>
    <3>1. NothingNew
      BY <2>1, <2>3 DEF NothingNew, memory, Is, PollWill, Up
    <3> QED
      BY <2>3, <3>1, NothingNewKeeps
  <2> QED
    BY <1>4, <2>2, <2>3 DEF BootReap
<1> QED
  BY <1>1, <1>2, <1>3, <1>4 DEF BootStep

\* There are no bytes in the beginning,
LEMMA BytesInitially ==
  ASSUME Init
  PROVE  BytesInv
<1>1. FetchInv
  BY AloneInitially
<1>2. /\ \A a \in Attempts : attempt[a].status = "absent" /\ attempt[a].book = NoFile
      /\ \A x \in Transfers : transfer[x] = IdleTransfer
      /\ progress = NoProgress /\ poll = IdlePoll /\ importer = IdleImporter
      /\ staged = NoStaging
  BY DEF Init, AbsentAttempt
<1>3. Bytes
  BY <1>2, IdleTypes DEF Bytes, LiveBytes, Live, Fetching, BootBytes, FinishedBytes, PollWill, Is,
                         NoProgress, StagedPiece, NoStaging, NoBookYet, BooksAreOfOnePiece,
                         Books, AllIdle
<1> QED
  BY <1>1, <1>3 DEF BytesInv

\* and every step leaves them of one representation.
LEMMA BytesStep ==
  ASSUME BytesInv, Plain, [Next]_vars
  PROVE  BytesInv'
<1>1. FetchInv'
  BY AloneStep DEF BytesInv, Plain
<1>2. CASE UNCHANGED vars
  <2>1. NothingNew
    BY <1>2 DEF vars, memory, callers, NothingNew, Is, PollWill
  <2> QED
    BY <1>1, <1>2, <2>1, NothingNewKeeps DEF vars, BytesInv
<1>3. CASE Next
  <2>1. Bytes'
    BY <1>3, StepBytes, PollBytes, RemovalBytes, ImportBytes, BootBytesKeep DEF Next
  <2> QED
    BY <1>1, <2>1 DEF BytesInv
<1> QED
  BY <1>2, <1>3

\* DirectDownloadService.run, startDownload's resume over a restart, and placeFile: the file
\* that an import links is one representation of the source from its first byte to its last,
\* though the source changes at any time and the process dies at any time, and nothing is
\* written to it afterwards.
THEOREM LinkedBooksAreOfOnePiece ==
  ASSUME Plain
  PROVE  Spec => []BooksAreOfOnePiece
<1>1. Init => BytesInv
  BY BytesInitially
<1>2. BytesInv /\ [Next]_vars => BytesInv'
  BY BytesStep
<1>3. BytesInv => BooksAreOfOnePiece
  BY DEF BytesInv, Bytes
<1> QED
  BY <1>1, <1>2, <1>3, PTL DEF Spec

===============================================================================
