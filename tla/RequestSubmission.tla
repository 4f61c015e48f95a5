--------------------------- MODULE RequestSubmission ---------------------------
(***************************************************************************)
(* BookRequestService.submit, remove and the taking-on of a request by a   *)
(* self-fulfiller: how a request comes to exist, who follows it and who    *)
(* drives it, and how it goes.  Every activation is one HTTP handler going *)
(* from one await to the next.  What the pipeline does to a request's      *)
(* status meanwhile is "the others": the moves of RequestLifecycle that a  *)
(* submission can tell apart.                                              *)
(***************************************************************************)
EXTENDS Naturals, FiniteSets, Sequences, BookRequestStatus

CONSTANTS
  Users,
  NoUser,          \* the null fulfiller_user_id
  SelfFulfillers,  \* users with book_request_self_fulfill
  AutoApproved,    \* users whose requests nobody decides on
  Descriptions,    \* what a submission says of the book it wants
  MaxRequests,     \* bound on rows of book_requests
  MaxSubmissions,  \* bound on submissions
  MaxLive,         \* MAX_LIVE_SELF_SERVE_REQUESTS
  InsertAttempts,  \* SUBMIT_INSERT_ATTEMPTS
  Handlers,        \* activations in flight at once
  Operations       \* what an instance has besides submissions

ASSUME UsersAssumption ==
  /\ NoUser \notin Users
  /\ SelfFulfillers \subseteq Users
  /\ AutoApproved \subseteq Users
ASSUME DescriptionsAssumption ==
  /\ Descriptions # {}
  /\ \A d \in Descriptions :
       /\ DOMAIN d = {"isbns", "providers", "title"}
       /\ IsFiniteSet(d.isbns)
       /\ d.providers \in Seq({d.providers[i] : i \in DOMAIN d.providers})
ASSUME BoundsAssumption ==
  /\ MaxRequests \in Nat
  /\ MaxSubmissions \in Nat
  /\ MaxLive \in Nat
  /\ InsertAttempts \in Nat \ {0}
ASSUME OperationsAssumption ==
  Operations \subseteq {"decide", "work", "revive", "remove", "remove_twice"}

VARIABLES
  row,         \* row[r]: the request, "absent" before it is inserted
  subscribers, \* subscribers[r]
  task,        \* task[t]: where activation t is, and what it remembers
  submitted    \* submissions made so far

vars == <<row, subscribers, task, submitted>>

Requests == 1 .. MaxRequests
NoRow == 0

-------------------------------------------------------------------------------
(***************************************************************************)
(* What a book is filed under.  A description has the ISBNs its sources    *)
(* name, the sources themselves, best first, and a title with its author.  *)
(* Every request here is for the same kind of medium.                      *)
(***************************************************************************)
IsbnKeys(d) == {<<"isbn13", i>> : i \in d.isbns}
ProviderKeys(d) == {<<"provider", d.providers[i]>> : i \in DOMAIN d.providers}
WorkKey(d) == <<"work", d.title>>

\* dedupeKeyCandidates
Keys(d) == IsbnKeys(d) \cup ProviderKeys(d) \cup {WorkKey(d)}

\* primaryDedupeKey: the only ISBN, the best provider, or the work; the work too when
\* the sources disagree about the ISBN.
Primary(d) ==
  CASE Cardinality(IsbnKeys(d)) = 1 -> CHOOSE k \in IsbnKeys(d) : TRUE
    [] IsbnKeys(d) = {} /\ d.providers # <<>> -> <<"provider", Head(d.providers)>>
    [] OTHER -> WorkKey(d)

-------------------------------------------------------------------------------
(***************************************************************************)
(* Rows.  "revived" says that a self-serve request has failed and come     *)
(* back; no step reads it.                                                 *)
(***************************************************************************)
Exists(r) == r # NoRow /\ row[r].status \in RequestStatuses
Live(r) == row[r].status \in ActiveRequest
Settled == RequestStatuses \ ActiveRequest

AnyDescription == CHOOSE d \in Descriptions : TRUE

AbsentRow ==
  [status |-> "absent", user |-> NoUser, fulfiller |-> NoUser, selfServe |-> FALSE,
   work |-> AnyDescription, revived |-> FALSE]

IsNextRequest(r) ==
  /\ row[r].status = "absent"
  /\ \A q \in 1 .. r - 1 : row[q].status # "absent"

\* book_requests_active_dedupe_key_uidx: the key a row is filed under, of live rows.
KeyFree(d, r) ==
  \A q \in Requests \ {r} : Live(q) => Primary(row[q].work) # Primary(d)

\* findActiveByDedupeKeys: live rows that own or borrow one of the keys.
Matches(d) == {q \in Requests : Live(q) /\ Keys(row[q].work) \cap Keys(d) # {}}

\* isBookRequestFulfiller, and countLiveSelfServe's idea of it.
Drives(u, r) ==
  IF row[r].fulfiller = NoUser THEN row[r].user = u ELSE row[r].fulfiller = u

LiveSelfServe(u) == {r \in Requests : Live(r) /\ row[r].selfServe /\ Drives(u, r)}

-------------------------------------------------------------------------------
(***************************************************************************)
(* Activations.  "was" is the status remove() has to give back.  "losses"  *)
(* counts the live requests lost since a submission began, as far as       *)
(* InsertAttempts; no step reads it.  A removal acts for no user.          *)
(***************************************************************************)
Idle ==
  [pc |-> "idle", user |-> NoUser, work |-> AnyDescription, selfServe |-> FALSE, request |-> NoRow,
   inserts |-> 0, losses |-> 0, owned |-> FALSE, was |-> "none"]

Free(t) == task[t].pc = "idle"
At(t, pc) == task[t].pc = pc
Go(t, pc) == task' = [task EXCEPT ![t].pc = pc]
Return(t) == task' = [task EXCEPT ![t] = Idle]

Init ==
  /\ row = [r \in Requests |-> AbsentRow]
  /\ task = [t \in Handlers |-> Idle]
  /\ subscribers = [r \in Requests |-> {}]
  /\ submitted = 0

On(operation) == operation \in Operations

(***************************************************************************)
(* submit.                                                                 *)
(***************************************************************************)
\* canTakeOn as far as the row that was found can tell.  A request somebody grabbed
\* for, or whose destination the caller cannot reach, is only joined.
MayTakeOn(r, user, selfServe) ==
  /\ selfServe
  /\ row[r].user # user
  /\ ~row[r].selfServe /\ row[r].fulfiller = NoUser
  /\ row[r].status \in {"pending", "approved"}

\* takeOnOrAttach and attachTo, for the submission "state".
Join(t, state, r) ==
  \E pc \in {"attach", "claim_count"} :
    /\ pc = "claim_count" => MayTakeOn(r, state.user, state.selfServe)
    /\ task' = [task EXCEPT ![t] = [state EXCEPT !.pc = pc, !.request = r]]

\* The insert of a self-serve row that is not available already goes through the cap.
ToInsert(t, state, owned) ==
  task' = [task EXCEPT ![t] = [state EXCEPT
             !.pc = IF state.selfServe /\ ~owned THEN "count" ELSE "insert",
             !.owned = owned, !.inserts = @ + 1, !.request = NoRow]]

\* findActiveRequestFor, and findOwnedBookFor when nothing live was found.  A
\* submission without a destination it may use ends there.
Submit(t, u, d, selfServe) ==
  LET state == [Idle EXCEPT !.user = u, !.work = d, !.selfServe = selfServe] IN
  /\ Free(t)
  /\ submitted < MaxSubmissions
  /\ selfServe => u \in SelfFulfillers
  /\ \/ \E r \in Matches(d) : Join(t, state, r)
     \/ Matches(d) = {} /\ \E owned \in BOOLEAN : ToInsert(t, state, owned)
  /\ submitted' = submitted + 1
  /\ UNCHANGED <<row, subscribers>>

\* The per-user advisory lock is held from the count to the end of the transaction.
CapLock(u) ==
  \E s \in Handlers : task[s].user = u /\ task[s].pc \in {"insert_counted", "claim_counted"}

\* Mutant: counted and inserted without the lock.
CountUnlocked(t, from, counted, full) ==
  LET u == task[t].user IN
  /\ At(t, from)
  /\ \/ Cardinality(LiveSelfServe(u)) < MaxLive /\ Go(t, counted)
     \/ Cardinality(LiveSelfServe(u)) >= MaxLive /\ full
  /\ UNCHANGED <<row, subscribers, submitted>>

Count(t, from, counted, full) ==
  LET u == task[t].user IN
  /\ At(t, from)
  /\ ~CapLock(u)
  /\ \/ Cardinality(LiveSelfServe(u)) < MaxLive /\ Go(t, counted)
     \/ Cardinality(LiveSelfServe(u)) >= MaxLive /\ full
  /\ UNCHANGED <<row, subscribers, submitted>>

CountForInsert(t) == Count(t, "count", "insert_counted", Return(t))

CreatedStatus(t) ==
  IF task[t].owned THEN "available"
  ELSE IF task[t].selfServe \/ task[t].user \in AutoApproved THEN "approved"
  ELSE "pending"

\* insertWithAliases: the row and its other keys in one transaction.  Bound: an
\* insert that has no row left waits for ever.
Insert(t) ==
  LET d == task[t].work
      s == CreatedStatus(t)
  IN
  /\ At(t, "insert") \/ At(t, "insert_counted")
  /\ \/ /\ s \in ActiveRequest => KeyFree(d, NoRow)
        /\ \E r \in Requests :
             /\ IsNextRequest(r)
             /\ row' = [row EXCEPT ![r] = [AbsentRow EXCEPT
                          !.status = s, !.work = d, !.user = task[t].user,
                          !.selfServe = task[t].selfServe]]
        /\ Return(t)
     \/ /\ s \in ActiveRequest /\ ~KeyFree(d, NoRow)
        /\ Go(t, "lost_race")
        /\ UNCHANGED row
  /\ UNCHANGED <<subscribers, submitted>>

\* Mutant: the insert is not tried again.
RetryInsertNever(t) == Go(t, "conflict")

\* Mutant: it is tried once more than it should be.
RetryInsertOnceMore(t) ==
  IF task[t].inserts <= InsertAttempts THEN ToInsert(t, task[t], task[t].owned)
  ELSE Go(t, "conflict")

\* The winner has gone too: the insert is tried again, or its error is thrown.
RetryInsert(t) ==
  IF task[t].inserts < InsertAttempts THEN ToInsert(t, task[t], task[t].owned)
  ELSE Go(t, "conflict")

\* The loser of the insert race looks for the winner.
FindWinner(t) ==
  /\ At(t, "lost_race")
  /\ \/ \E r \in Matches(task[t].work) : Join(t, task[t], r)
     \/ Matches(task[t].work) = {} /\ RetryInsert(t)
  /\ UNCHANGED <<row, subscribers, submitted>>

\* The unique violation reaches the requester.
Conflict(t) ==
  /\ At(t, "conflict")
  /\ Return(t)
  /\ UNCHANGED <<row, subscribers, submitted>>

(***************************************************************************)
(* takeOnOrAttach and attachTo.                                            *)
(***************************************************************************)
CountForClaim(t) == Count(t, "claim_count", "claim_counted", Go(t, "attach"))

\* Mutant: the update does not ask whether somebody took the request on first.
ClaimTaken(t) ==
  LET r == task[t].request IN
  /\ At(t, "claim_counted")
  /\ row' = IF row[r].status \in {"pending", "approved"}
              THEN [row EXCEPT ![r].selfServe = TRUE, ![r].fulfiller = task[t].user,
                               ![r].status = "approved"]
              ELSE row
  /\ Go(t, "attach")
  /\ UNCHANGED <<subscribers, submitted>>

\* Mutant: a claim that succeeded answers without attaching.
ClaimReturns(t) ==
  LET r == task[t].request
      claimable ==
        /\ row[r].status \in {"pending", "approved"}
        /\ ~row[r].selfServe /\ row[r].fulfiller = NoUser
  IN
  /\ At(t, "claim_counted")
  /\ IF claimable
       THEN /\ row' = [row EXCEPT ![r].selfServe = TRUE, ![r].fulfiller = task[t].user,
                                  ![r].status = "approved"]
            /\ Return(t)
       ELSE UNCHANGED row /\ Go(t, "attach")
  /\ UNCHANGED <<subscribers, submitted>>

\* claimForSelfServe's conditional update.
Claim(t) ==
  LET r == task[t].request
      claimable ==
        /\ row[r].status \in {"pending", "approved"}
        /\ ~row[r].selfServe /\ row[r].fulfiller = NoUser
  IN
  /\ At(t, "claim_counted")
  /\ row' = IF claimable
              THEN [row EXCEPT ![r].selfServe = TRUE, ![r].fulfiller = task[t].user,
                               ![r].status = "approved"]
              ELSE row
  /\ Go(t, "attach")
  /\ UNCHANGED <<subscribers, submitted>>

\* attachTo reads the row.  When it has been deleted, a submission that lost the
\* insert race tries again, and any other is told that there is no such request.
Attach(t) ==
  LET r == task[t].request IN
  /\ At(t, "attach")
  /\ \/ Exists(r) /\ row[r].user = task[t].user /\ Return(t)
     \/ Exists(r) /\ row[r].user # task[t].user /\ Go(t, "subscribe")
     \/ ~Exists(r) /\ task[t].inserts > 0 /\ RetryInsert(t)
     \/ ~Exists(r) /\ task[t].inserts = 0 /\ Return(t)
  /\ UNCHANGED <<row, subscribers, submitted>>

\* addSubscriber; the foreign key refuses a row deleted since it was read.
Subscribe(t) ==
  LET r == task[t].request IN
  /\ At(t, "subscribe")
  /\ subscribers' =
       IF Exists(r) THEN [subscribers EXCEPT ![r] = @ \cup {task[t].user}] ELSE subscribers
  /\ Return(t)
  /\ UNCHANGED <<row, submitted>>

(***************************************************************************)
(* remove: a failed request is reserved as cancelled, the latest attempt   *)
(* is taken out of its client, and the row is deleted.                     *)
(***************************************************************************)
BeingRemoved(r) ==
  \E t \in Handlers : task[t].request = r /\ task[t].pc \in {"reserve", "detach", "delete"}

Remove(t, r) ==
  /\ Free(t)
  /\ BeingRemoved(r) => On("remove_twice")
  /\ row[r].status \in Settled
  /\ task' = [task EXCEPT ![t].pc = IF row[r].status = "failed" THEN "reserve" ELSE "detach",
                          ![t].request = r, ![t].was = row[r].status]
  /\ UNCHANGED <<row, subscribers, submitted>>

\* Mutant: a failed request is not reserved.
ReserveNothing(t) ==
  /\ At(t, "reserve")
  /\ Go(t, "detach")
  /\ UNCHANGED <<row, subscribers, submitted>>

Reserve(t) ==
  LET r == task[t].request IN
  /\ At(t, "reserve")
  /\ \/ /\ row[r].status = "failed"
        /\ row' = [row EXCEPT ![r].status = "cancelled"]
        /\ Go(t, "detach")
     \/ /\ row[r].status # "failed"
        /\ Return(t)
        /\ UNCHANGED row
  /\ UNCHANGED <<subscribers, submitted>>

Detach(t) ==
  /\ At(t, "detach")
  /\ Go(t, "delete")
  /\ UNCHANGED <<row, subscribers, submitted>>

\* The client refuses: the reservation is given back.
DetachRefused(t) ==
  LET r == task[t].request IN
  /\ At(t, "detach")
  /\ row' = IF task[t].was = "failed" /\ row[r].status = "cancelled"
              THEN [row EXCEPT ![r].status = "failed"] ELSE row
  /\ Return(t)
  /\ UNCHANGED <<subscribers, submitted>>

\* The row goes, and its subscriptions with it.
Delete(t) ==
  LET r == task[t].request IN
  /\ At(t, "delete")
  /\ \/ /\ row[r].status \in Settled
        /\ row' = [row EXCEPT ![r] = [AbsentRow EXCEPT !.status = "deleted"]]
        /\ subscribers' = [subscribers EXCEPT ![r] = {}]
     \/ /\ row[r].status \notin Settled
        /\ UNCHANGED <<row, subscribers>>
  /\ Return(t)
  /\ UNCHANGED submitted

(***************************************************************************)
(* The others: what approvers and the pipeline do to a request's status.   *)
(***************************************************************************)
CountLoss ==
  [t \in Handlers |->
    IF task[t].user # NoUser /\ task[t].losses < InsertAttempts
      THEN [task[t] EXCEPT !.losses = @ + 1] ELSE task[t]]

Move(r, from, s) ==
  /\ row[r].status \in from
  /\ row[r].status = "failed" /\ s \in ActiveRequest => KeyFree(row[r].work, r)
  /\ row' = [row EXCEPT ![r].status = s,
                        ![r].revived = s \in ActiveRequest /\ (@ \/ (row[r].selfServe /\ ~Live(r)))]
  /\ task' = IF Live(r) /\ s \notin ActiveRequest THEN CountLoss ELSE task
  /\ UNCHANGED <<subscribers, submitted>>

\* Rejected and available are as settled as cancelled is.
Decide(r) ==
  \/ Move(r, {"pending"}, "approved")
  \/ Move(r, WorkerWritable, "cancelled")

\* "grabbed" stands for every live status that nobody takes a request on from; a search that
\* is given up leads back to approved.
Work(r) ==
  \/ Move(r, {"approved"}, "grabbed")
  \/ Move(r, {"grabbed"}, "approved")
  \/ Move(r, WorkerWritable, "failed")

\* A failed request comes back: a person grabs for it, a pass searches for it or hands it
\* back, an attempt still under way is imported or held, an attempt is adopted, or a discard
\* is taken back.  None of them counts what its owner has.
Revive(r) == \E s \in {"approved", "grabbed"} : Move(r, {"failed"}, s)

SubmissionStep(t) ==
  \/ CountForInsert(t)
  \/ Insert(t)
  \/ FindWinner(t)
  \/ Conflict(t)
  \/ CountForClaim(t)
  \/ Claim(t)
  \/ Attach(t)
  \/ Subscribe(t)

RemovalStep(t) ==
  \/ Reserve(t)
  \/ Detach(t)
  \/ DetachRefused(t)
  \/ Delete(t)

Others(r) ==
  \/ On("decide") /\ Decide(r)
  \/ On("work") /\ Work(r)
  \/ On("revive") /\ Revive(r)

Next ==
  \/ \E t \in Handlers, u \in Users, d \in Descriptions, selfServe \in BOOLEAN :
       Submit(t, u, d, selfServe)
  \/ \E t \in Handlers : SubmissionStep(t) \/ RemovalStep(t)
  \/ On("remove") /\ \E t \in Handlers, r \in Requests : Remove(t, r)
  \/ \E r \in Requests : Others(r)

Spec == Init /\ [][Next]_vars

-------------------------------------------------------------------------------
Row ==
  [status : RequestStatuses \cup {"absent", "deleted"}, user : Users \cup {NoUser},
   fulfiller : SelfFulfillers \cup {NoUser}, selfServe : BOOLEAN,
   work : Descriptions, revived : BOOLEAN]

Pcs ==
  {"idle", "count", "insert", "insert_counted", "lost_race", "conflict",
   "claim_count", "claim_counted", "attach", "subscribe",
   "reserve", "detach", "delete"}

TaskState ==
  [pc : Pcs, user : Users \cup {NoUser}, work : Descriptions, selfServe : BOOLEAN,
   request : Requests \cup {NoRow}, inserts : 0 .. InsertAttempts,
   losses : 0 .. InsertAttempts, owned : BOOLEAN,
   was : Settled \cup {"none"}]

\* Every row and every activation has the shape the code gives it; only somebody who
\* may fulfil his own requests is ever recorded as a fulfiller.
TypeOK ==
  /\ row \in [Requests -> Row]
  /\ subscribers \in [Requests -> SUBSET Users]
  /\ task \in [Handlers -> TaskState]
  /\ submitted \in 0 .. MaxSubmissions

\* Those of a person's live self-serve requests that have never failed.
CountedSelfServe(u) == {r \in LiveSelfServe(u) : ~row[r].revived}

\* Nobody has more live self-serve requests than the cap, whether he opened them or took them
\* on, and however many of his submissions are in flight, but for those that failed and have
\* come back: counting first and inserting after is no cap, which is what the lock is for.
\* Nothing counts what comes back, by claimForGrab, the claims of a pass and of an import, a
\* hold for review, an adoption or the undoing of a discard.
SelfServeCap == \A u \in Users : Cardinality(CountedSelfServe(u)) <= MaxLive

\* A requester is refused for a conflict only if the request he collided with was
\* gone again as often as the insert is tried: losing the insert race once, or
\* finding the winner gone once, is recovered from.
ConflictsAreExplained ==
  \A t \in Handlers : At(t, "conflict") => task[t].losses = InsertAttempts

\* Of two self-fulfillers who both found a request undriven, one takes it on, and
\* nobody takes it from him.
TakenOnOnce ==
  [][\A r \in Requests :
       row[r].fulfiller # NoUser /\ row'[r].status # "deleted" =>
         row'[r].fulfiller = row[r].fulfiller]_vars

\* Whoever took a request on follows it, once his submission has been answered: it is
\* what makes the request visible to him.
FulfillersFollow ==
  \A r \in Requests :
    row[r].fulfiller # NoUser =>
      \/ row[r].fulfiller \in subscribers[r]
      \/ \E t \in Handlers : task[t].user = row[r].fulfiller /\ task[t].request = r

\* Where one person at a time deletes a request, it is not live while its transfer is
\* taken out of the client: a retry cannot start one that the deletion then stops.
RemovalStopsNothingLive ==
  \A t \in Handlers : At(t, "detach") => ~Live(task[t].request)
===============================================================================
