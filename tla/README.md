# Verification of the book-request pipeline

TLA+ models, TLC runs and TLAPS proofs for the server in `server/` of this repository (paths below
are relative to the repository's root, which the models' map calls `src/`). The server is a NestJS
application over PostgreSQL that keeps a book library. Most of it reads and writes single rows
behind controllers. The part with a protocol of its own is **book requests**: somebody asks for a
book, a release is grabbed, a download client fetches it, an import places it in the Book Dock, a
verification files it into the library or holds it for a person, and meanwhile people approve,
reject, cancel, stop, remove, retry and discard, and unattended passes search and grab. Ten services
write the same three rows, each one reading, waiting for something slow, and writing afterwards. Two
neighbours with a protocol of their own are modelled beside it: the downloads the server makes itself,
over HTTP, and the work of the Book Dock.

## 1. Inventory

`S` stands for `server/src/modules`.

| Component | State | Operations | What makes it correct |
|---|---|---|---|
| Statuses (`packages/types/src/book-request.ts`, `download-client.ts`) | none | the sets that guard every conditional write | together they let a request make only legal moves |
| Import queue (`S/book-request/fulfillment/request-import-queue.ts`) | `pending`, `queued`, `running`, `stopped` | `enqueue`, `drain`, the settling of a handler, `stop`, loss with the process | list and sets agree, no slot idles, nobody is overtaken or forgotten |
| Request store (`book-request.repository.ts`, `book-request-download.repository.ts`, `server/src/db/schema`) | `book_requests`, `book_request_downloads`, `book_dock_files`, two partial unique indexes, set-null references | conditional and unconditional updates | one live request for a work, one live attempt for a hash |
| Grab (`request-fulfillment.service.ts`) | one claim (`grabbed`) per request | `grab`, `startGrab`, `failDownload`, `holdForReview` | one release at a time, a failed grab gives its claim back |
| Download monitor (`download-monitor.service.ts`) | polls in flight, sweep timers | poll, apply, hand-off, resume sweep, heartbeat, shutdown | a late answer undoes nothing, a finished download is imported |
| Import (`request-import.service.ts`) | none between awaits but its locals | `importDownload`, `importChosenUnit` | one import per download, no dock row left behind |
| Verification (`request-verification.service.ts`) | as above | `handleIngested`, `fileHeldImport`, `discardHeldImport` | one book per download, "available" means there is a book |
| Removal (`download-removal.service.ts`, `request-seed.service.ts`) | as above | `removeAttempt`, `removeLatestForRequest` | only a working attempt is failed |
| Decisions (`book-request.service.ts`) | as above | `approve`, `reject`, `cancel`, `cancelDownload`, `markFulfilled` | a decision stands |
| Submission (`book-request.service.ts`, `book-request-dedupe.service.ts`) | subscriptions, self-serve, fulfiller | `submit`, `takeOnOrAttach`, `attachTo`, `remove` | a second asker is folded in, the cap holds, one fulfiller |
| Watchdog (`request-watchdog.service.ts`) | none | sweeps every ten minutes | nothing sits in flight for ever |
| Automation (`request-automation.service.ts`) | `searching` | a pass: claim, search, grab in turn, hand back | it never writes over what a person did since it began |
| Reconciliation (`S/book-request/download-clients/download-client-reconciliation.service.ts`) | none | `adopt` | a failed transfer comes back only if no other was started |
| Direct downloads (`direct-download.service.ts`) | progress, controllers and tasks by the hash of a URL; staged files | `add`, `resume`, `run`, `status`, `remove`, the reap at boot | a book is bytes of one representation, all of them where their number was declared, a fetch ends with its attempt, every fetch ends |
| Download clients | external transfers | `add`, `status`, `remove` | environment of the pipeline |
| Book Dock work (`S/book-dock`: two `BookDockWorkQueue`s, ingest, metadata, watcher, processing state) | rows, two queues, the paused flag in memory and in the settings, the recovery of a resume | arrive, read, file, read again, discard, walk, pause, resume | queues follow the flag, and no file stays unread |
| Book Dock finalize (`book-dock-finalize.service.ts`) | dock rows | finalize, discard | as far as a request's file goes through it |
| Auth, Kobo and KOReader sync, scanner, migration, metadata, catalogue, statistics, client, ... | rows of their own | | outside the pipeline; `PROJECT.json` lists each with the reason |

**How they interact.** All services run in one Node process. A handler runs without interruption
from one `await` to the next, so the unit of interleaving is what happens between two awaits: at most
one SQL statement or one call of a download client. They share no memory but the import queue and
`pollsInFlight`; everything else goes through the rows. The monitor offers finished downloads to the
queue, whose handler is `importDownload`; an import hands its dock row to the dock, whose ingest
announcement starts the verification; verification calls the dock's finalize, which moves the files
and creates the book. The download client is asked and told things by the monitor, by a grab and by a
removal, and answers when it likes. A direct download stands in the client's place and lives in the
process: its map of progress is what the poll is told. The failure of an attempt sets off another
unattended pass. In the dock a row is unread (`pending`, `extracting`, `fetching`) until its job ran;
the job announces the file to the filing queue and to the verification of requests.

**What is hard.** Every service writes on the strength of a row it read before an await that may take
seconds (a client) or minutes (an archive). Request and attempt are two rows, written one after the
other without a transaction, so a restart or another service may come between. A failed request gives
up its claim on the work and may be revived when the work has been asked for again. The same finished
download is offered to the queue by the poll that saw it finish, by the sweep that runs every 15
seconds, and by a person's choice of a book. A direct download is resumed from a file of unknown age
under a name that the next download of the URL will use again. A pause of the dock drops what it
meets, and relies on the resume to find it again. `PROJECT.json` lists each such place as a hazard with
the line where it bites and the properties about it.

## 2. Modules

Each activation of a handler is a record in `task[t]`: `pc` says after which await it stands, and the
other fields are what the code still holds in local variables (`was` is a status it read, `says` what
the client answered or who called). An action takes one activation to its next await and contains
everything the code does in between. `Free(t)` is an activation that may begin.

| Module | Models | Notes |
|---|---|---|
| `BookRequestStatus` | the status sets of `packages/types` | |
| `RequestImportQueue` | class `RequestImportQueue` | used on its own and, by `INSTANCE`, inside the pipeline |
| `FulfilmentStore` | rows, indexes, activations; `failDownload`, `holdForReview` | extended by the next seven |
| `RequestGrab` | `grab`, `startGrab`, `recordRefusedAttempt` | |
| `DownloadMonitor` | poll, resume sweep, two watchdog sweeps, the download client (external) | |
| `RequestImport` | the handler of the queue and `importChosenUnit` | |
| `RequestVerification` | verification, forced filing, discard, and finalize as they use it | |
| `RequestDecisions` | what people do to a request, and `DownloadRemovalService` | |
| `RequestAutomation` | an unattended pass, the release of stranded searches, the cancelling of abandoned self-serve requests | its grabs are those of `RequestGrab`, on behalf of nobody |
| `DownloadReconciliation` | `adopt` | |
| `RequestFulfilment` | **composition** of the seven: `Init`, `Next`, restart, shutdown, types | `Operations` selects the kinds of activity an instance has |
| `RequestLifecycle` | **abstract**: the life of a request as anybody who reads its status sees it | a status per request; searching, handing back and adoption are moves of it; its two theorems are in it |
| `RequestPromises` | safety and liveness properties of the composition, and the refinement mapping | |
| `RequestSubmission` | `submit`, taking on, subscribing, `remove` | the pipeline appears as moves of the status |
| `DirectDownload` | `DirectDownloadService` and its callers for one URL: a grab, the poll, an import, a removal, the bootstrap | own state, with the files on disk |
| `BookDockWork` | `BookDockWorkQueue` twice, the job of each, ingest, watcher, pausing and resuming | own state |
| `RequestImportQueueProofs`, `RequestPromisesProofs`, `RequestFilingProofs`, `RequestStrandingProofs`, `RequestSubmissionProofs`, `DirectDownloadProofs`, `BookDockWorkProofs` | theorems and proofs | section 4 |
| `MC*`, `*.cfg` | instances | |

Operators whose comment begins with `Mutant:` are plausible bugs next to the definition they would
replace. No specification uses them; they are there to show that the properties notice.

### Abstractions

- **Data.** A release is its info hash. What an archive holds is the choice between one book, several
  (`choice`), too much to read (`truncated`) and an error. A score is the choice between filing and
  holding. A description of a book is its ISBNs, its sources in order and its work (title and
  author), from which the dedupe keys follow; when several live requests match, the code takes the
  one with the most specific key and the model any of them.
- **Statements.** One SQL statement is one atomic step, and a unique index or a foreign key that
  would refuse it is a disjunct of its own ("throws"). The transactions behind the self-serve cap are
  two steps, the count and the write, with the advisory lock held between them.
- **Reads.** Two reads with nothing between them but each other (the two lookups of `loadHeld`, the
  two of `findActiveByDedupeKeys`, the row, attempts and libraries read by `canTakeOn`) are one. What
  a read without consequences for a row returns is chosen freely.
- **Time.** A timeout is a condition on what it outlasts. The two minutes given to a missing torrent
  and the twelve hours given to a stalled one are longer than an add takes; the heartbeat keeps
  members of the queue younger than the hour a stuck import is given.
- **Poll targets.** The code keeps one poll in flight per client. The model has one per attempt, so
  that polls of different attempts overlap at least as often as in the code.
- **The dock.** A dock row is `claimed` before its files are linked, `placed` with them, `filed` once
  they are a book, `dropped` when it was deleted without one. Whoever closes a request by hand names a row of
  the dock, whosever it is, or a book of the library, which is no row. Only the first of two activations that
  move a file finds it where the row said. Failures to delete a dock row after an import, which the
  code swallows, are left out, and so is batch finalize from the dock's own screen.
- **Direct downloads.** One URL, whose attempts share a staging directory, a progress entry, a controller
  and a task, as the code keys all of them by the hash of the URL. A representation of the file is a
  number, its bytes are blocks that say the number, its length is declared or not, and a validator (`ETag` or `Last-Modified`) names it.
  A redirect, the address check, a size cap, an HTML answer and a broken connection are one choice: the
  transfer throws. An attempt that is queued counts as downloading. An import links the staged file, so a
  book and a staged file may be one inode.
- **Dock work.** Which of the files that wait is next is a choice (the code has priorities), and so are the
  settings behind fetching and filing, and the score. A flag read from memory is one step with what follows
  it, for no other callback can come between; a row read and the write that depends on it are one step too.
  A folder is one book. Filing a book is one step. The row that an import inserts, the linking of its file and
  its offer are steps of their own (`unplaced` has the rows in between, a process that dies there leaves one), and
  the claims that an import gives up on are one of them.
- **The others, in `RequestSubmission`.** `rejected` and `available` stand behind `cancelled` there: a
  submission cannot tell them apart. The states between `grabbed` and the end of a request are one.
  A failed request comes back (`Revive`) whoever brings it back: a grab by hand (`book-request.repository.ts:324`), the
  claim of a pass or its handing back, the claim of an import (`request-import.service.ts:241`), a hold for review
  (`request-fulfillment.service.ts:507`), an adoption, a discard that is taken back
  (`request-verification.service.ts:342`). `revived` is a ghost: it remembers that this happened.

## 3. Runs

`tlc -config X.cfg M` in this directory. Bounds are small because the state is wide: one request has
about ten activations that can touch it at about forty places.

| Run (`cfg`) | Instance | Shows |
|---|---|---|
| `import_queue` | 5 downloads, 2 slots; the program has one slot, two make the arithmetic of `drain` matter | the sets agree with the list, slots are used, order is kept, nobody waits for ever |
| `pipeline` | 1 request, 1 attempt, 1 dock row, 2 handlers and the import worker; every operation but unattended passes, the sweep of abandoned requests, adoption and shutdown | types; decisions stand; a settled attempt is not revived; one import per attempt; "imported" means filed |
| `one_book` | 2 dock rows for 1 attempt, grabbed by a person or unattended, with collisions, lost answers and restarts | at most one book per download; "available" means there is one |
| `stranded` | 1 request, 1 attempt, 2 dock rows, unattended passes too, the sweep of abandoned requests and shutdown; no restart (section 5) | whenever no activation is between two writes, every request that only a worker moves has its attempt and every dock row an owner |
| `one_transfer` | 3 attempts, 2 releases; people, unattended passes and adoptions grab, sweeps release and cancel, people decide; no transfer fails or is imported | one transfer at a time; the request says so; no sweep cancels it |
| `lifecycle` | 2 requests for one work; the same, and imports | the pipeline implements `RequestLifecycle`; one live request for a work |
| `submission` | 3 submissions of one book described two ways, filed under an ISBN or under the work, 1 asker and 2 self-fulfillers, cap 1, 2 rows, 2 handlers | the cap on what has not failed before, the recovery from a lost insert race, one fulfiller who follows what he took on, and deletion |
| `recovery` | 2 dock rows, restarts and shutdowns, fairness | a finished download is imported, held or failed in the end |
| `direct` | 2 attempts at a URL, representations of 2 and 3 blocks with a declared length or without, stops, failed deletions, restarts; fairness | a book is of one piece, and whole where its length was declared; no fetch for a settled attempt; a finished file stays; every download ends |
| `dock_work` | a folder that is dropped and a file that a request imports; read again, walks, pauses, restarts | the queues stand as the last pause or resume left them; no unread file is without somebody to offer it |
| `dock_read` | a loose file, dropped or uploaded, and an imported file; pauses, discards, restarts; fairness | what lies in the dock is read in the end, unless processing is paused again |
| `claim_direct` | a URL that is grabbed again after it has made a book | section 6 |

**Why the bounds are enough.** A hazard of this code is two activations out of step, sometimes three.
Two handlers beside the import worker give every pair of handlers and every handler against an
import; a third matters only where two activations race while another changes the rows, and there the
third one's steps are few and are covered by letting a handler finish and another begin. One attempt
is enough where a property speaks of one attempt; the runs with two attempts or two requests are the
ones whose property relates two of them. Two dock rows are what a retried collision or a second import
of the same download needs. Three submissions are two that collide and one that takes the winner's
place. Three attempts are two whose grab was refused, either of which may be adopted, and one that was
started since. A representation of two blocks and one of three are what it takes to break off in the middle,
and to resume over a file that is shorter, as long, or longer than what the source has now. Two files in
the dock are one whose job runs and one that waits; each may be read again, once, and `dock_work` has a folder, which a
walk passes over, and an import, which may die at any of its steps. A loose file is in `dock_read`. `MaxAttempts`,
`MaxDockFiles`, `MaxRequests` and `MaxSubmissions` bound what is inserted: an activation that would insert
more is not begun, or waits.

**Deadlock** is not checked: with no request left to move and nothing in flight the system stops.

**Kinds of activity.** `client` is a download client that makes progress and is asked, `client_fails` one
that reports errors and loses transfers, `lost_add` an `add` whose answer is lost although the client took
the release. The comment at the head of each module with `Operations` says what the others are.

**Fairness** (`Fairness` in `RequestPromises`) is what the process gives. A promise that is pending
settles, so each activation in progress goes on (weak fairness of `Step(t)`) and the queue calls its
handler (`ImportStart(w)`). The resume sweep comes round every 15 seconds and the watchdog every ten
minutes for as long as the process is up, and each looks at every row. The model has two handlers
where the process has any number, so that an attempt's turn is repeatedly rather than always possible
and the fairness is strong. The watchdog is relied on only for what the resume sweep does not select.
A process that was shut down is started again, and restarts stop at some point. Nothing a person or a
download client does is assumed to happen.

In `DirectDownload` the source never has to answer: what is fair is the process's own, the timer that breaks
off a silent transfer among it, the poll, which comes every few seconds, and the age of a row. In
`BookDockWork` timers fire, a job, a walk, a recovery and an arrival go on, and a pause or a resume that was
called returns; nobody has to call one, and `EveryFileIsRead` speaks only of files that no further pause
holds up.

## 4. Proofs

TLC sees two or three of everything; the theorems hold for any number of requests, attempts, dock
rows, releases, files, people, activations and slots, from the named assumptions on the constants:
`RequestsAssumption` (ids are positive and every request has a work), `BoundsAssumption` (in
`DirectDownload` it says that there is always a name left for a staged file, and is the only use of the bound),
`ReleasesAssumption` (the null hash is no release), `TasksAssumption` (handlers and import workers are
apart, and there are finitely many, at least one, of the latter), `OperationsAssumption`,
`ConcurrencyAssumption`, `UsersAssumption` (nobody is no user), `DescriptionsAssumption` (there are
descriptions, and the sources of one are a list) and `FilesAssumption`. Where a theorem holds only
without one kind of activity, its statement says so (`ASSUME "adopt" \notin Operations`); section 5 has
the reason.

- **The import queue** (`RequestImportQueueProofs`). `QueueInv` is `TypeOK`, `Consistent`, `SlotsUsed`
  and finiteness of `running`. `Consistent` alone is not inductive: that `drain` takes distinct ids from
  the list needs the list to be injective, and that the new slots are exactly used needs the cardinality
  of a prefix of an injective list (`PrefixCardinality`). `DrainEffect` states once what `drain` does and
  `Accept` and `Finish` follow from it. That nobody is overtaken (`OldestGoFirst`) is that `drain` takes a
  prefix (`DrainTakesTheFront`) and that what it took is not in the list any more.
- **Types of the pipeline** (`RequestPromisesProofs`). `TypeOK` is not inductive: a grab gives back the
  status it remembers, so it must have remembered a grabbable one; a poll writes what the client said, so
  it must be a status; a hand-off queues the attempt it remembers, so there must be one. `Remembers` says
  so for each await, and `Inv` is `RowsOK`, `TasksOK` and the queue's types. One lemma for each service's
  steps, one for each start.
- **The pipeline implements the lifecycle** (the same module). The mapping takes a request's row to
  its status. Every action is one move of `RequestLifecycle` or leaves every status alone, by way of
  `AllowedWrite`: a conditional write whose guard and value match a move is that move. From this
  refinement and the two theorems in `RequestLifecycle` follow `OneClaimPerWorkHolds` (no two live
  requests for a work) and `DecisionsStandHolds` (nothing moves a settled request) for the whole pipeline.
- **Settled attempts** (the same module). Of the writes that make an attempt one that is polled or queued,
  a grab's goes to a new row and a poll's is conditional on the row being polled still. Only an
  adoption's goes to a failed row; without adoption nobody ever stands where it writes
  (`NobodyAdopts`), and `SettledAttemptsStaySo` follows.
- **One transfer at a time** (the same module). `OneTransferPerRequest` is not inductive, for a grab holds its
  request long before there is an attempt. `Held` says who holds a request: an activation that grabs it, a
  running attempt, or an activation that is telling a failure. `Safe` says that it is held by one of them, but
  for a grab that holds it through the attempt it adds, and that what is held is shown. A claim
  starts from a status that a held request has not; an adoption and an unattended pass write only
  where nobody holds; `AddIsSpared` says that nobody else fails an attempt while its grab is
  adding it. These three theorems assume `TransfersAlone`, the exclusion of the operations that the run
  `one_transfer` leaves out too and of nothing more: restarts, lost answers, shutdown and any number of everything are in.
- **Where files come from and where they end** (`RequestFilingProofs`). `FilesInv`: every dock row was made by an import
  of one attempt, attempts and requests link rows made for them, but for a request that has become available, since whoever closes
  it by hand names any row he sees; and an activation that carries a row from
  one await to the next carries it for the attempt and the request it was made for. What is recorded as imported has
  its book since a verification records it only behind the move of that file (`Moved`); what became available by
  itself likewise (`ArrivedHasBook`). That a link to another's row does no harm needs the lifecycle: nothing reads the
  link of an available request or moves one to another status (`AvailableStays`, from the refinement), so every
  lemma about a write assumes `ArrivalsStay` of the step it is part of.
- **One book for a download** (the same module). `BooksInv`: while an import is under way its attempt has no other files,
  an attempt that has files has passed the point where the queue takes it up, and two rows with files are of two
  attempts. An offer to the queue may be old; the import reads the row again and goes on only from `completed`,
  and without a choice only one worker does. With choices (`ClaimsInv`) an import is a person's or the queue's
  according to what the attempt has passed, and the claim on `needs_review` keeps two people apart, as long as
  nothing puts that status back; adoption and verification do (section 6, 14).
- **Every dock row has an owner** (the same module). `DockFilesAreOwned` speaks of quiet states only. `OwnedRows` holds
  always: the attempt a row was made for links it, or an import that is between its insert and its link has it in
  hand. Since an import overwrites its attempt's link without looking, `OneRowInHand` is needed too: whoever imports an
  attempt has the only row there is for it, which rests on imports being apart and on an import beginning only with
  an attempt that links none. `HandsOn` then goes through the awaits of an import: a row in hand is passed on, linked
  or deleted, but for the two writes that a unique index may refuse (`IndexesYield`).
- **No request is stranded** (`RequestStrandingProofs`). `NoRequestIsStranded` looks at requests and attempts when
  no activation is between two writes, so the invariant has to say at each await which of the two is out of
  date and who will write it. `TendInv` is about downloads: one activation at most tends one (adds it, imports it, files it,
  settles it or rejects it), and `Fits` says at each await which status the download has, which file, and what its
  client may say of it meanwhile. It is shown from what a step does to a download as the others see it (`Effects`): it
  leaves the download to who tends it, or takes up one that nobody tends. `Promised` is about requests: a
  status that needs a worker has a download in flight (`Carries`), a grab that has claimed the request and added nothing yet
  (`Tries`), or an activation that is about to write what has become of it (`Tells`). `Keeping` is what one
  activation may write: it makes a status a worker's only by bringing one of the three, takes a download out
  of flight only when it tells the request next or the request has gone on, and ends supporting nothing. With `Quiet` only the first of
  the three is left, and `HeldIsUntended` has the rest: a request that is held has a
  download that is held. The theorem assumes `Undisturbed`, no operation that fails or revives a download under who
  tends it, and that each request and each release is tried once (`FirstTries`), for any number of
  requests, downloads, dock rows and activations; both are needed (section 6: 5, 17 and 18). `OneAttemptIsFirst`
  proves the second of an instance with one attempt, the one that `stranded` checks.
- **Direct downloads** (`DirectDownloadProofs`). `Types` has what every activation remembers beside `TypeOK`.
  `FetchInv` adds who is alone with what: one unsettled attempt and one transfer at most, and a transfer that was not aborted is the one that the
  service's memory names, for an attempt that is at `downloading`; an add, a poll, an import, a removal and a bootstrap are each about that attempt or
  can do nothing to it. `NothingIsFetchedForNobody` and `WaitingFilesStay` follow. `BytesInv` adds bytes: what is staged says
  the validator that the attempt's row has, as far as the transfer has come, and no book was made yet whose file it could be; so what a
  transfer completes is of one representation, with every block where the response or the row declared how many there are, and an import links that
  (`LinkedBooksAreOfOnePiece`, under `Plain`). Where no length was declared the end of the body is taken for the end of the
  book (section 6, 19), and no block that is there belongs to another.
- **The dock's queues** (`BookDockWorkProofs`). `Follows` says what a queue may become in a step: it keeps
  its books, does not fall asleep over what waits (`Wakes`), and agrees with the flag if it did. Each
  operation of `BookDockWorkQueue` is shown to follow, and each action to be such operations. Only a pause
  and a resume break the agreement and restore it: `CallsAgree` says how far one has come, and the
  invariant is `TypeOK`, `Wakes` of both queues, and `CallsAgree` where calls do not overlap.
- **Nobody is forgotten in the dock** (the same module). `NoFileIsForgotten` names everybody who may be about to offer an
  unread file that lies in the dock (`OnDisk`: a row that an import has inserted without linking its file is none). It needs three facts of its own (`OfferInv`): what is queued has a row; who is about to
  insert a row is alone with its path; and a resume in progress finds no recovery under way, so that it begins one.
  `Uncrossed` names the five kinds of activity of section 5 without which this holds.
- **Submission and deletion** (`RequestSubmissionProofs`). The invariant has a part for each row (who
  drives it; whoever took it on follows it or is about to), one for each activation (`Remembers`, and
  `Explained`: every insert but the last lost to a request that is live no longer), and two for all
  of them: `CapKept`, a person at the count under the lock has a place to spare among what has never failed and only one activation
  counts for him (what failed and comes back leaves that number alone), and `Reserved`, one activation deletes a request and nobody can have it meanwhile. The
  cap itself is not inductive, for the count and the write are two steps. `PrimaryIsAKey` is why the loser
  of the index always finds the winner: the key that a request is filed under is among those it is
  looked up by.

**Only model-checked:** liveness (`NoneWaitsForever`, `FinishedDownloadsAreSettled`, `DownloadsEnd`,
`EveryFileIsRead`), since the prover has no reasoning about fairness and `ENABLED`. Every invariant
and action property of a run is a theorem, some under the conditions of section 5.

## 5. Conditions on what is shown

- `OneTransferPerRequest`, `LiveTransferIsShown` and `AbandonmentSparesTransfers` are checked, and proved
  (`TransfersAlone`), where no transfer fails or is imported and nobody takes one away by hand: section 6 has what
  happens otherwise (4, 6, 7 and 16).
- `NoRequestIsStranded` is checked with one attempt, and proved with any number where each request and each release is
  tried once: with a second grab a write that is late for the first one may undo it (section 6, 17). It
  is checked and proved (`Undisturbed`) without restarts: a process that dies between claiming a request and
  recording its attempt leaves it at `grabbed`, and no sweep looks for that. It also leaves out stops and
  lost answers: a stop that settles the attempt while its import has claimed the request leaves the
  request at `importing`, and an add whose answer was lost after a poll has moved the request leaves it
  at `downloading`, both with a failed attempt. A request closed by hand with a file that goes from the dock
  meanwhile is a third (section 6, 22; `fulfil_gone`). Adoption, the watchdog, the choice of a book, the forced filing, the
  reading again of a file and its discard from the dock's own screen are left out too, for each of them can write
  a download that another activation is at work on (section 6, 18). None of these ten is excluded without need: with any one of
  them added to `Stranded.cfg` TLC finds a request that is left behind.
- `DockFilesAreOwned` is checked for a request whose work nobody else asks for. When the request had
  failed and its work was requested again, the claim of an import throws on the dedupe index after the
  dock row was inserted (`request-import.service.ts:241`), and the row stays. So it does when an attempt was failed and
  its release grabbed again while it was imported, and the record of it (`:258`) throws on the index of live
  hashes. `DockFilesHaveOwners` proves that these two are the only ways, in a process that stays up and where nobody
  chooses among books, for any number of requests, downloads and activations; `LoneDownloadsHaveOwners` that
  neither exists where requests have different works and one download is made.
- `OneImportPerAttempt` is checked with two handlers beside the import worker, and `OneBookPerAttempt` leaves
  out the choice of a book. With more of either, a choice read before another one was imported and held
  again imports the download a second time (section 6, 14). `OneImportPerAttempt` is proved for any number of handlers
  and workers without the choice of a book, and with it where nothing verifies or adopts; `OneBookPerAttempt` without
  the choice of a book and adoption.
- `ImportedIsFiled` is checked with forced filings and one attempt, and proved without forced filings. With both a
  forced filing and a second attempt, the book that an attempt was marked imported for may be an older
  attempt's (section 6, 15). That the request has a book is proved with everything (`ImportedRequestsHaveBooks`).
- `AvailableIsFiled` leaves out `markFulfilled`, which makes a request available by hand.
- `SettledAttemptsAreNotRevived` is about the writers that are conditional. Adoption revives a failed attempt
  because somebody asks for it, and is in the runs that do not state this.
- The budget of unattended attempts is the room for rows, and a failed attempt may set off a pass at any time
  after.
- `SelfServeCap` is checked and proved with everything that brings a failed self-serve request back among the live
  ones, and counts what has never failed. Nothing in the code counts what comes back, so a person at
  the cap goes over it in any of the ways that section 2 lists (section 6, 21).
- `FilesStayLinked` says of a request that has become available only that the row it links was made by somebody:
  `markFulfilled` writes the file it is given (`book-request.service.ts:1068`), after it has asked only whether the
  person may see it (`:1053`).
- `NoFileIsForgotten` and `EveryFileIsRead` are about files that lie in the dock. A row whose import died before it linked the
  file (section 6, 20), or gave up and could not delete it, stays unread with nobody to offer it, and `OnDisk` leaves it out.
- `BooksAreOfOnePiece` says that a book is whole where its length was declared, and no more (section 6, 19).
- `RemovalStopsNothingLive` has one deletion of a request at a time. Of two, the first may give its
  reservation back when the client refuses while the second, which read the request as cancelled, goes on
  to take out the transfer of a retry.
- `FulfillersFollow` leaves out restarts and `unsubscribe`, which decides on a row read before the take-on.

`NoFetchForNobody` and `FinishedFilesStay` are proved without the first, third, fourth and fifth of the following
(`Apart`), `BooksAreOfOnePiece` without the first six (`Plain`), `QueuesFollow` without `crossed_calls`, and
`NoFileIsForgotten` without the last five (`Uncrossed`); the types without any condition.

`DirectDownload` and `BookDockWork` name what their runs leave out, because the code does something else
there, as members of `Operations`; adding one to a configuration shows it.

- `prompt_retry`: the URL is grabbed again within the ten minutes the service remembers the attempt before,
  and the first poll reads what came of that (`NoFetchForNobody` and `BooksAreOfOnePiece` are then about the
  wrong attempt).
- `same_again`: the URL is grabbed again when it has made a book (section 6).
- `early_stop`: a stop while `add` is under way finds no controller to abort, and the fetch goes on.
- `remove_settled`: removing an old attempt aborts the fetch of the one after it.
- `early_poll`: a poll that runs while the bootstrap is reading finds no entry for an interrupted attempt, and
  fails it as missing if it is older than the grace.
- `late_crash`: a process that dies between recording a new validator and emptying the older, shorter file
  resumes new bytes after old ones.
- `crossed_calls`: a pause and a resume overlap, and the queues end as the later writer left them.
- `prompt_resume`: a resume during the recovery of the one before begins no recovery of its own.
- `prompt_retry`, in the dock: a file is read again while its job is ending.
- `crossed_ingest`: two ways of arrival insert one row.
- `restart_units`: the process dies over the unread row of a folder.

The flag is changed before its setting is saved. What a failing save leaves (the flag as asked for, the
queues as they were) is not in the model.

## 6. Where the code and its comments differ

1. `claim_direct`, a run: a direct download writes to the path of its URL with `createWriteStream`, which
   empties a file that is there, in place (`direct-download.service.ts:440`). An import hard-links that file.
   When the directory could not be removed after an import (`:317` calls that wasted disk) and the URL is
   grabbed again, the book in the library is emptied.

The following were met while modelling and no run is kept for them.

2. An attempt that was failed by a stop is brought back to `importing` by an import already under way, whose
   writes to the attempt are unconditional (`request-import.service.ts:258`). `download-client.ts:201-205` says
   that every write that moves an attempt between states is conditional.
3. `cancel` settles the request first so that "there is no attempt left to revive"
   (`book-request.service.ts:683-686`). A grab between its claim and its insert records an attempt afterwards,
   and the transfer runs under a cancelled request until its import is refused.
4. The claim of a grab is there so that two callers cannot start two releases for one request
   (`request-fulfillment.service.ts:210-212`). The last write of a stop puts the request back to `approved`
   whoever has it by then (`book-request.service.ts:731`), and a third grab starts beside the second.
5. The sweeps exist to stop a request sitting at `downloading` for ever (`request-watchdog.service.ts:15-17`).
   A restart between the two writes of `failDownload` leaves one there, with its attempt failed and nothing
   for a sweep to select. So does an add whose answer was lost after a poll has moved the request.
6. A watchdog that read an attempt before it completed may fail it when its import has begun. The request is
   grabbed again, and the old import then takes it from under the new transfer
   (`request-import.service.ts:241`).
7. The second write of `failDownload` may come after another grab has taken the request: an add that is
   refused because the client has the transfer already hands the claim back first. The new transfer then
   runs under a request that reads `failed`.
8. A grab that claimed from `searching` and fails when the unattended pass has ended puts `searching` back,
   with nobody searching. The release after half an hour is the only way out. That release sends an
   auto-approved request to `approved` without announcing it to those who approve.
9. `TERMINAL_RETENTION_MS` is explained (`direct-download.service.ts:70-79`) as keeping the end of a transfer
   for the poll that has yet to see it. A poll between the insert of a new attempt at the URL and its start
   sees it too, and takes it for its own. `download-monitor.service.ts:265-268` relies on the bootstrap having
   put every interrupted attempt back, which a poll during the bootstrap does not wait for.
10. A file that is asked to be read again while the job that failed it is ending is refused by the queue
    (`book-dock-ingest.service.ts:114`), and its row stays `pending` until the next resume or restart.
    `refetchMetadata` looks at the refusal; `retryFetch` does not.
11. A folder that is unread when the process dies stays unread: the walk at boot passes over a folder that has
    a row (`book-dock-watcher.service.ts:168`). If a request imported it, the request waits at `importing`
    until the sweep for stuck imports fails it an hour later. Nor are read files offered to automatic filing
    again at boot; only a resume does that.
12. A resume that comes while the recovery of the resume before is under way starts none
    (`book-dock.service.ts:432`), so that what the pause in between dropped stays dropped.
13. When a walk and the watcher, or an upload and a walk, meet over one path, the one that loses on the unique
    index ends its walk, or deletes the uploaded file the other's row is about
    (`book-dock-ingest.service.ts:105`).
14. `importChosenUnit` claims the attempt because a second click would "place the book twice under two dock
    rows" (`request-import.service.ts:149-151`). The claim asks only for `needs_review` (`:152`). Where the
    first choice was imported and the verification held its file, a second choice that was read before
    (`:140`) is claimed too: the download is imported again under a second dock row, and both may be filed.
    When the first file was placed but its import has not ended, the verification may hold the attempt at once,
    and then the two imports run beside each other.
15. A forced filing is to file the import the person looked at (`request-verification.service.ts:264-268`).
    `loadHeld` takes the file from the request first and the attempt from the latest attempt (`:386-389`), and
    `failDownload` leaves the request's link. When an attempt failed after it had recorded its file, and a second
    one is held because a book must be chosen from it, the forced filing files the older download's file and
    marks the second attempt imported. A discard throws the older file away.
16. A failed grab gives its claim back "only if the claim is still ours" (`request-fulfillment.service.ts:226-229`).
    The write asks whether the request is at `grabbed`, not by whom. When the poll or the watchdog fails an
    attempt while its grab waits for the client, the request may be grabbed again; a refusal then gives
    the second grab's claim back, and a third may start beside it.
17. `DOWNLOADING_FROM` is narrow so that a late poll cannot drag a request back (`download-monitor.service.ts:55-60`), but it
    has `grabbed`. A poll writes its attempt (`:307`) and then its request (`:321`). When the attempt is failed in
    between and the request grabbed again, the second write turns the new claim into `downloading`. If the new
    grab is refused then, giving its claim back asks for `grabbed` (`request-fulfillment.service.ts:229`) and does
    nothing: the request stays at `downloading` with failed attempts only, the state that the sweeps of 5 are for.
18. `holdForReview` and `failDownload` write the attempt and then the request, and each says that a request settled in the
    meantime is left alone (`request-fulfillment.service.ts:442-445`, `:498-500`). What neither looks at is the attempt
    in the meantime: the watchdog, on a row it read before, a choice of a book whose import then fails, or a discard of what
    another verification held, may fail the attempt between the two writes of a hold (`:501` and `:507`).
    The request then says that somebody has to review it, and its attempt is failed: there is nothing to file.
19. A transfer that ends early is told by its length (`direct-download.service.ts:451-454`), which is compared only when there was one.
    A body without a `Content-Length` that is cut short where the transport does not notice is recorded as completed, imported
    and filed short. `Finish` lets such a body end after any block, and `BooksAreOfOnePiece` asks for the whole only where a length was declared.
20. An import inserts its dock row (`request-import.service.ts:230`), claims the request, records the attempt, and links the file last (`:274`).
    A process that dies in between leaves a `pending` row that points at no file. The walk at boot goes by the
    directory (`book-dock-watcher.service.ts:196-215`) and never meets it; it stays `pending` until processing is
    paused and resumed, when the job finds nothing to read and marks it `error`. The same resume may come between the insert and
    the link in a process that stays up; the row is at `error` when the file arrives, the import does not
    offer it, and the file is not read until somebody asks.
21. The cap on live self-serve requests is counted by a submission and by a take-on only (`book-request.service.ts`). A failed
    request has given its place up, and when it comes back (by a grab for it, a pass, an import that was under way, a hold, an
    adoption, a discard taken back) nobody counts again.
22. `markFulfilled` takes the transfer out of its client and fails its attempt first, so that a request is closed only when
    nothing is downloading (`book-request.service.ts:1062-1068`). When the dock file it names is deleted meanwhile,
    the foreign key refuses the last write (`book-requests.ts:84`): the request keeps `downloading` or `importing`, with a failed attempt.

## 7. Not modelled, and why

Indexers are the answer or the refusal a grab gets. Notifications, the gateway and the audit log follow
the state and never decide it. The bulk forms of a decision are that decision many times. Credentials and
the client adapters are request and response, and what a client may answer is in `DownloadMonitor`.

Of the components that are modelled, these are left out:

- in the dock: batch finalize and the moving of files it does, the edits a person makes to a row, the
  events of a watched file that disappears or is renamed, `removeOrphan`, the order of the queue's
  priorities, a save of the setting that fails;
- in the requests: the deletion of an account with its requests, edits of a request's description, and
  the seeding limits that decide when a finished transfer is taken out of its client (the taking out is
  `RemoveFromClient`);
- in direct downloads: progress in bytes, redirects and address checks, which are one choice;
- in reconciliation: the listing of a client and its matching, which are the choice of an attempt.

The other components of the server (authentication, the scanner, Kobo and KOReader synchronisation,
migration, the catalogue, metadata, statistics) have no part in the pipeline. Most of them are single-row
reads and writes behind controllers; those with a protocol worth a module are in the plan. The Vue client
shows what the server decides, and is most of the repository's code.

## 8. Plan

Done: the status sets; the import queue, proved; the pipeline of ten services with unattended passes,
adoption and restarts, proved as to transfers, files, books, imports, dock rows and stranded requests; the abstract lifecycle, with the
refinement proved; submission and deletion, proved; direct downloads and the dock's work, their safety proved.

Next, in this order:

1. An abstract `AttemptLifecycle` beside `RequestLifecycle`, with the writes that are not conditional as
   the moves that spoil it, and the refinement.
2. `BookDockWork` as the implementation of the dock that `RequestVerification` assumes, with batch finalize.
3. Components outside the pipeline: token rotation in `S/auth`, the jobs of `S/scanner`, the snapshots of
   Kobo synchronisation.

Theorems to come: the refinement of `AttemptLifecycle`; `NoRequestIsStranded` with second attempts, once item
17 of section 6 is settled in the code.
