------------------------- MODULE RequestPromisesProofs -------------------------
(***************************************************************************)
(* Type correctness of the fulfilment pipeline, its refinement of          *)
(* RequestLifecycle, and its transfers, for any requests, works, releases, *)
(* bounds and numbers of activations.                                      *)
(***************************************************************************)
EXTENDS RequestPromises, FiniteSetTheorems, SequenceTheorems, TLAPS

-------------------------------------------------------------------------------
(***************************************************************************)
(* Types.  TypeOK is not inductive as it stands: a grab puts back the      *)
(* status it read and a poll writes the client's answer, so what an        *)
(* activation remembers has to be right too.                               *)
(***************************************************************************)

\* What an activation remembers is what its next steps rely on.
Remembers(t) ==
  /\ task[t].pc \in Grabbing \cup {"auto_claim"} => task[t].was \in Grabbable
  /\ task[t].pc \in {"poll_apply", "adopt"}
       => task[t].says \in {"queued", "downloading", "completed"}
  /\ task[t].pc \in {"poll_apply", "poll_request", "resume", "adopt"}
       => task[t].attempt \in Attempts

TasksOK ==
  /\ task \in [Tasks -> TaskState]
  /\ \A t \in Tasks : Remembers(t)

Inv == RowsOK /\ TasksOK /\ Queue!TypeOK

-------------------------------------------------------------------------------
(***************************************************************************)
(* The steps activations take.                                             *)
(***************************************************************************)

\* An activation may go on to any place it remembers enough for.
LEMMA GoKeepsTasks ==
  ASSUME TasksOK, NEW t \in Tasks, NEW pc \in Pcs, Go(t, pc),
         pc \in Grabbing => task[t].was \in Grabbable,
         pc \notin {"poll_apply", "resume", "adopt", "auto_claim"},
         pc = "poll_request" => task[t].attempt \in Attempts
  PROVE  TasksOK'
<1>1. task' \in [Tasks -> TaskState]
  BY DEF TasksOK, Go, TaskState
<1>2. ASSUME NEW u \in Tasks PROVE Remembers(u)'
  <2>1. CASE u = t
    BY <2>1 DEF TasksOK, TaskState, Go, Remembers
  <2>2. CASE u # t
    BY <2>2 DEF TasksOK, TaskState, Go, Remembers
  <2> QED
    BY <2>1, <2>2
<1> QED
  BY <1>1, <1>2 DEF TasksOK

\* It may return from anywhere.
LEMMA ReturnKeepsTasks ==
  ASSUME TasksOK, NEW t \in Tasks, Return(t)
  PROVE  TasksOK'
<1>1. Idle \in TaskState
  BY DEF Idle, TaskState, Pcs, Says
<1>2. task' \in [Tasks -> TaskState]
  BY <1>1 DEF TasksOK, Return, TaskState, Pcs
<1>3. ASSUME NEW u \in Tasks PROVE Remembers(u)'
  <2>1. CASE u = t
    BY <2>1 DEF TasksOK, TaskState, Return, Remembers, Idle, Grabbing
  <2>2. CASE u # t
    BY <2>2 DEF TasksOK, TaskState, Return, Remembers
  <2> QED
    BY <2>1, <2>2
<1> QED
  BY <1>2, <1>3 DEF TasksOK

\* The general form: only t moves, to a state it can act on.
LEMMA OthersKeepTasks ==
  ASSUME TasksOK, NEW t \in Tasks, task' \in [Tasks -> TaskState],
         \A u \in Tasks \ {t} : task'[u] = task[u], Remembers(t)'
  PROVE  TasksOK'
<1>1. ASSUME NEW u \in Tasks PROVE Remembers(u)'
  BY DEF TasksOK, Remembers
<1> QED
  BY <1>1 DEF TasksOK

\* A step that leaves activations alone leaves them right.
LEMMA SameTasks == TasksOK /\ UNCHANGED task => TasksOK'
  BY DEF TasksOK, Remembers

-------------------------------------------------------------------------------
(***************************************************************************)
(* The writes of the rows.                                                 *)
(***************************************************************************)

\* updateIf of a request keeps the table's shape, even for a row that does not exist.
LEMMA UpdateKeepsRequests ==
  ASSUME request \in [Requests -> RequestRow], NEW r, NEW from, NEW s \in RequestStatuses,
         UpdateRequestIf(r, from, s)
  PROVE  request' \in [Requests -> RequestRow]
  BY DEF UpdateRequestIf, RequestRow

\* So does a new status of an attempt.
LEMMA SetKeepsAttempts ==
  ASSUME attempt \in [Attempts -> AttemptRow], NEW a, NEW s \in AttemptStatuses,
         SetAttempt(a, s)
  PROVE  attempt' \in [Attempts -> AttemptRow]
  BY DEF SetAttempt, AttemptRow

\* Deleting a dock row, with the columns it empties, keeps all three tables.
LEMMA DeleteKeepsRows ==
  ASSUME RowsOK, NEW f, NEW state \in {"filed", "dropped"},
         DeleteDockRow(f, state), UNCHANGED client
  PROVE  RowsOK'
<1>1. dock' \in [DockFiles -> DockRows]
  BY DEF RowsOK, DeleteDockRow, DockRows
<1>2. request' \in [Requests -> RequestRow]
  BY DEF RowsOK, DeleteDockRow, Unlink, RequestRow
<1>3. attempt' \in [Attempts -> AttemptRow]
  BY DEF RowsOK, DeleteDockRow, Unlink, AttemptRow
<1> QED
  BY <1>1, <1>2, <1>3 DEF RowsOK

-------------------------------------------------------------------------------
(***************************************************************************)
(* The import queue.                                                       *)
(***************************************************************************)

\* drain() only moves ids it was given.
LEMMA DrainKeepsTypes ==
  ASSUME NEW waiting \in Seq(Attempts), NEW started \in SUBSET Attempts,
         stopped \in BOOLEAN, Queue!Drain(waiting, started)
  PROVE  pending' \in Seq(Attempts) /\ running' \subseteq Attempts
<1> DEFINE c == Cardinality(started)
           n == IF stopped THEN 0 ELSE Queue!Moved(waiting, c)
<1>1. Queue!Cardinality(started) = c
  BY DEF Queue!Cardinality, Cardinality
<1>2. IsFiniteSet(Attempts)
  BY FS_Interval, BoundsAssumption DEF Attempts
<1>3. IsFiniteSet(started) /\ c \in Nat
  BY <1>2, FS_Subset, FS_CardinalityType
<1>4. Cardinality(ImportWorkers) \in Nat
  BY TasksAssumption, FS_CardinalityType
<1>5. n \in 0 .. Len(waiting)
  BY <1>3, <1>4 DEF Queue!Moved, Queue!Room
<1>6. pending' = SubSeq(waiting, n + 1, Len(waiting))
      /\ running' = started \cup {waiting[i] : i \in 1 .. n}
  BY <1>1 DEF Queue!Drain
<1> HIDE DEF n
<1>7. \A i \in n + 1 .. Len(waiting) : waiting[i] \in Attempts
  BY <1>5
<1>8. pending' \in Seq(Attempts)
  BY <1>5, <1>6, <1>7, SubSeqProperties
<1> QED
  BY <1>5, <1>6, <1>8

\* An offered download is refused, or waits, or runs.
LEMMA EnqueueKeepsTypes ==
  ASSUME Queue!TypeOK, NEW a \in Attempts, Queue!Enqueue(a)
  PROVE  Queue!TypeOK'
<1>1. CASE Queue!Accept(a)
  <2>1. Append(pending, a) \in Seq(Attempts)
    BY DEF Queue!TypeOK
  <2>2. pending' \in Seq(Attempts) /\ running' \subseteq Attempts
    BY <1>1, <2>1, DrainKeepsTypes DEF Queue!TypeOK, Queue!Accept
  <2> QED
    BY <1>1, <2>2 DEF Queue!TypeOK, Queue!Accept
<1>2. CASE Queue!Refuse(a)
  BY <1>2 DEF Queue!Refuse, Queue!TypeOK, Queue!vars
<1> QED
  BY <1>1, <1>2 DEF Queue!Enqueue

\* A settled import makes room for another.
LEMMA FinishKeepsTypes ==
  ASSUME Queue!TypeOK, NEW a, Queue!Finish(a)
  PROVE  Queue!TypeOK'
<1>1. pending' \in Seq(Attempts) /\ running' \subseteq Attempts
  BY DrainKeepsTypes DEF Queue!TypeOK, Queue!Finish
<1> QED
  BY <1>1 DEF Queue!TypeOK, Queue!Finish

\* A step that leaves the queue alone leaves it right.
LEMMA SameQueue == Queue!TypeOK /\ UNCHANGED queueVars => Queue!TypeOK'
  BY DEF Queue!TypeOK, queueVars

-------------------------------------------------------------------------------
(***************************************************************************)
(* Grabs.                                                                  *)
(***************************************************************************)

\* Who grabbed is a yes or a no.
LEMMA UnattendedIsBoolean == \A t : Unattended(t) \in BOOLEAN
  BY DEF Unattended

\* Every step of a grab.
LEMMA GrabStepKeepsInv ==
  ASSUME Inv, NEW t \in Tasks, GrabStep(t) \/ GrabAddLost(t)
  PROVE  Inv'
<1>1. CASE GrabClaim(t)
  <2>1. RowsOK'
    BY <1>1 DEF Inv, RowsOK, GrabClaim, RequestRow, RequestStatuses
  <2>2. TasksOK'
    BY <1>1, GoKeepsTasks, ReturnKeepsTasks DEF Inv, Pcs, Importing, Grabbing, Searching,
      GrabClaim, At, TasksOK, Remembers
  <2>3. Queue!TypeOK'
    BY <1>1, SameQueue DEF Inv, GrabClaim
  <2> QED
    BY <2>1, <2>2, <2>3 DEF Inv
<1>2. CASE GrabResolve(t)
  <2>1. RowsOK'
    BY <1>2 DEF Inv, RowsOK, rows, GrabResolve
  <2>2. TasksOK'
    BY <1>2, GoKeepsTasks DEF Inv, Pcs, Importing, Grabbing, GrabResolve, At, TasksOK, Remembers
  <2>3. Queue!TypeOK'
    BY <1>2, SameQueue DEF Inv, GrabResolve
  <2> QED
    BY <2>1, <2>2, <2>3 DEF Inv
<1>3. CASE GrabRefused(t)
  <2>1. RowsOK'
    <3>1. task[t].request \in Requests \cup {NoRow}
      BY DEF Inv, TasksOK, TaskState
    <3>2. [AbsentAttempt EXCEPT !.status = "failed", !.request = task[t].request,
                                !.automated = Unattended(t)] \in AttemptRow
      BY <3>1, UnattendedIsBoolean DEF AbsentAttempt, AttemptRow, AttemptStatuses
    <3>3. attempt' \in [Attempts -> AttemptRow]
      BY <1>3, <3>2 DEF Inv, RowsOK, GrabRefused, Insert
    <3> QED
      BY <1>3, <3>3 DEF Inv, RowsOK, GrabRefused
  <2>2. TasksOK'
    BY <1>3, GoKeepsTasks DEF Inv, Pcs, Importing, Grabbing, GrabRefused, At, TasksOK, Remembers
  <2>3. Queue!TypeOK'
    BY <1>3, SameQueue DEF Inv, GrabRefused
  <2> QED
    BY <2>1, <2>2, <2>3 DEF Inv
<1>4. CASE \E h \in Releases : GrabCreate(t, h)
  <2>1. RowsOK'
    <3>1. PICK h \in Releases : GrabCreate(t, h)
      BY <1>4
    <3>2. task[t].request \in Requests \cup {NoRow}
      BY DEF Inv, TasksOK, TaskState
    <3>3. [AbsentAttempt EXCEPT !.status = "queued", !.release = h,
                                !.request = task[t].request,
                                !.automated = Unattended(t)] \in AttemptRow
      BY <3>2, UnattendedIsBoolean DEF AbsentAttempt, AttemptRow, AttemptStatuses
    <3>4. attempt' \in [Attempts -> AttemptRow]
      BY <3>1, <3>3 DEF Inv, RowsOK, GrabCreate, Insert
    <3> QED
      BY <3>1, <3>4 DEF Inv, RowsOK, GrabCreate
  <2>2. TasksOK'
    <3>1. PICK h \in Releases : GrabCreate(t, h)
      BY <1>4
    <3>2. CASE Go(t, "grab_rollback")
      BY <3>1, <3>2, GoKeepsTasks DEF Inv, Pcs, Importing, Grabbing, GrabCreate, At, TasksOK,
        Remembers
    <3>3. ASSUME NEW a \in Attempts,
                 task' = [task EXCEPT ![t].pc = "grab_add", ![t].attempt = a]
          PROVE  TasksOK'
      <4>1. task' \in [Tasks -> TaskState]
        <5>1. "grab_add" \in Pcs
          BY DEF Pcs, Grabbing
        <5> QED
          BY <3>3, <5>1 DEF Inv, TasksOK, TaskState
      <4>2. Remembers(t)'
        BY <3>1, <3>3 DEF Inv, TasksOK, TaskState, GrabCreate, At, Remembers, Grabbing
      <4> QED
        BY <3>3, <4>1, <4>2, OthersKeepTasks DEF Inv, TasksOK
    <3> QED
      BY <3>1, <3>2, <3>3 DEF GrabCreate
  <2>3. Queue!TypeOK'
    BY <1>4, SameQueue DEF Inv, GrabCreate
  <2> QED
    BY <2>1, <2>2, <2>3 DEF Inv
<1>5. CASE GrabAdd(t)
  <2>1. RowsOK'
    BY <1>5 DEF Inv, RowsOK, rows, GrabAdd, ClientTakes
  <2>2. TasksOK'
    BY <1>5, GoKeepsTasks DEF Inv, Pcs, Importing, Grabbing, GrabAdd, At, TasksOK, Remembers
  <2>3. Queue!TypeOK'
    BY <1>5, SameQueue DEF Inv, GrabAdd
  <2> QED
    BY <2>1, <2>2, <2>3 DEF Inv
<1>6. CASE GrabAddLost(t)
  <2>1. RowsOK'
    BY <1>6 DEF Inv, RowsOK, rows, GrabAddLost, ClientTakes
  <2>2. TasksOK'
    <3>1. CASE Go(t, "grab_failed")
      BY <1>6, <3>1, GoKeepsTasks
      DEF Inv, Pcs, Importing, Grabbing, GrabAddLost, At, TasksOK, Remembers
    <3>2. CASE UNCHANGED task
      BY <3>2, SameTasks DEF Inv
    <3> QED
      BY <1>6, <3>1, <3>2 DEF GrabAddLost
  <2>3. Queue!TypeOK'
    BY <1>6, SameQueue DEF Inv, GrabAddLost
  <2> QED
    BY <2>1, <2>2, <2>3 DEF Inv
<1>7. CASE GrabAddRefused(t)
  <2>1. RowsOK'
    BY <1>7 DEF Inv, RowsOK, rows, GrabAddRefused
  <2>2. TasksOK'
    BY <1>7, GoKeepsTasks DEF Inv, Pcs, Importing, Grabbing, GrabAddRefused, At, TasksOK,
      Remembers
  <2>3. Queue!TypeOK'
    BY <1>7, SameQueue DEF Inv, GrabAddRefused
  <2> QED
    BY <2>1, <2>2, <2>3 DEF Inv
<1>8. CASE GrabFailed(t)
  <2>1. RowsOK'
    BY <1>8, SetKeepsAttempts DEF Inv, RowsOK, GrabFailed, AttemptStatuses
  <2>2. TasksOK'
    BY <1>8, GoKeepsTasks DEF Inv, Pcs, Importing, Grabbing, GrabFailed, At, TasksOK, Remembers
  <2>3. Queue!TypeOK'
    BY <1>8, SameQueue DEF Inv, GrabFailed
  <2> QED
    BY <2>1, <2>2, <2>3 DEF Inv
<1>9. CASE GrabRollback(t)
  <2>1. RowsOK'
    <3>1. task[t].was \in RequestStatuses
      BY <1>9 DEF Inv, TasksOK, Remembers, GrabRollback, At, Grabbing, Grabbable, RequestStatuses
    <3> QED
      BY <1>9, <3>1, UpdateKeepsRequests DEF Inv, RowsOK, GrabRollback
  <2>2. TasksOK'
    BY <1>9, GoKeepsTasks, ReturnKeepsTasks
    DEF Inv, Pcs, Importing, Grabbing, Searching, GrabRollback
  <2>3. Queue!TypeOK'
    BY <1>9, SameQueue DEF Inv, GrabRollback
  <2> QED
    BY <2>1, <2>2, <2>3 DEF Inv
<1>10. CASE GrabConfirm(t)
  <2>1. RowsOK'
    BY <1>10, UpdateKeepsRequests DEF Inv, RowsOK, GrabConfirm, RequestStatuses
  <2>2. TasksOK'
    BY <1>10, ReturnKeepsTasks DEF Inv, GrabConfirm
  <2>3. Queue!TypeOK'
    BY <1>10, SameQueue DEF Inv, GrabConfirm
  <2> QED
    BY <2>1, <2>2, <2>3 DEF Inv
<1> QED
  BY <1>1, <1>2, <1>3, <1>4, <1>5, <1>6, <1>7, <1>8, <1>9, <1>10 DEF GrabStep

-------------------------------------------------------------------------------
(***************************************************************************)
(* Unattended passes, and adoption.                                        *)
(***************************************************************************)

\* Handing a request back keeps the table and ends the pass.
LEMMA HandBackKeeps ==
  ASSUME Inv, NEW t \in Tasks, NEW from, HandBack(t, from)
  PROVE  request' \in [Requests -> RequestRow] /\ TasksOK'
<1>1. "failed" \in RequestStatuses /\ "approved" \in RequestStatuses
  BY DEF RequestStatuses
<1>2. request' \in [Requests -> RequestRow]
  BY <1>1, UpdateKeepsRequests DEF Inv, RowsOK, HandBack
<1>3. TasksOK'
  BY ReturnKeepsTasks DEF Inv, HandBack
<1> QED
  BY <1>2, <1>3

\* Every step of a pass outside its grabs, and the sweep for abandoned requests.
LEMMA AutomationStepKeepsInv ==
  ASSUME Inv, NEW t \in Tasks, AutomationStep(t)
  PROVE  Inv'
<1>1. CASE PassClaim(t)
  <2>1. RowsOK'
    BY <1>1 DEF Inv, RowsOK, RequestRow, RequestStatuses, PassClaim
  <2>2. TasksOK'
    BY <1>1, GoKeepsTasks, ReturnKeepsTasks
    DEF Inv, Pcs, Importing, Grabbing, Searching, PassClaim
  <2>3. Queue!TypeOK'
    BY <1>1, SameQueue DEF Inv, PassClaim
  <2> QED
    BY <2>1, <2>2, <2>3 DEF Inv
<1>2. CASE PassDeclines(t)
  <2>1. RowsOK'
    BY <1>2, HandBackKeeps DEF Inv, RowsOK, PassDeclines
  <2>2. TasksOK'
    BY <1>2, HandBackKeeps, ReturnKeepsTasks DEF Inv, PassDeclines
  <2>3. Queue!TypeOK'
    BY <1>2, SameQueue DEF Inv, PassDeclines
  <2> QED
    BY <2>1, <2>2, <2>3 DEF Inv
<1>3. CASE SearchFindsNothing(t)
  <2>1. RowsOK'
    BY <1>3, HandBackKeeps DEF Inv, RowsOK, SearchFindsNothing
  <2>2. TasksOK'
    BY <1>3, HandBackKeeps DEF SearchFindsNothing
  <2>3. Queue!TypeOK'
    BY <1>3, SameQueue DEF Inv, SearchFindsNothing
  <2> QED
    BY <2>1, <2>2, <2>3 DEF Inv
<1>4. CASE SearchFinds(t)
  <2>1. RowsOK'
    BY <1>4 DEF Inv, RowsOK, rows, SearchFinds
  <2>2. TasksOK'
    BY <1>4, GoKeepsTasks DEF Inv, Pcs, Importing, Grabbing, Searching, SearchFinds
  <2>3. Queue!TypeOK'
    BY <1>4, SameQueue DEF Inv, SearchFinds
  <2> QED
    BY <2>1, <2>2, <2>3 DEF Inv
<1>5. CASE PassGrabs(t)
  <2>1. RowsOK'
    BY <1>5 DEF Inv, RowsOK, rows, PassGrabs
  <2>2. TasksOK'
    <3>1. CASE Go(t, "auto_failed")
      BY <3>1, GoKeepsTasks DEF Inv, Pcs, Importing, Grabbing, Searching
    <3>2. CASE
        /\ request[task[t].request].status \in Grabbable
        /\ task' = [task EXCEPT ![t].pc = "grab_claim",
                               ![t].was = request[task[t].request].status]
      <4>1. "grab_claim" \in Pcs /\ Grabbable \subseteq RequestStatuses
        BY DEF Pcs, Grabbing, Grabbable, RequestStatuses
      <4>2. task' \in [Tasks -> TaskState]
        BY <3>2, <4>1 DEF Inv, TasksOK, TaskState
      <4>3. Remembers(t)'
        BY <3>2 DEF Inv, TasksOK, TaskState, Remembers, Grabbing
      <4> QED
        BY <3>2, <4>2, <4>3, OthersKeepTasks DEF Inv, TasksOK
    <3> QED
      BY <1>5, <3>1, <3>2 DEF PassGrabs
  <2>3. Queue!TypeOK'
    BY <1>5, SameQueue DEF Inv, PassGrabs
  <2> QED
    BY <2>1, <2>2, <2>3 DEF Inv
<1>6. CASE PassFails(t)
  <2>1. RowsOK'
    BY <1>6, UpdateKeepsRequests DEF Inv, RowsOK, RequestStatuses, PassFails
  <2>2. TasksOK'
    BY <1>6, ReturnKeepsTasks DEF Inv, PassFails
  <2>3. Queue!TypeOK'
    BY <1>6, SameQueue DEF Inv, PassFails
  <2> QED
    BY <2>1, <2>2, <2>3 DEF Inv
<1>7. CASE Abandon(t)
  <2>1. RowsOK'
    BY <1>7, UpdateKeepsRequests DEF Inv, RowsOK, RequestStatuses, Abandon
  <2>2. TasksOK'
    BY <1>7, ReturnKeepsTasks DEF Inv, Abandon
  <2>3. Queue!TypeOK'
    BY <1>7, SameQueue DEF Inv, Abandon
  <2> QED
    BY <2>1, <2>2, <2>3 DEF Inv
<1> QED
  BY <1>1, <1>2, <1>3, <1>4, <1>5, <1>6, <1>7 DEF AutomationStep

\* An adoption writes both rows, or none.
LEMMA AdoptKeepsInv ==
  ASSUME Inv, NEW t \in Tasks, Adopt(t)
  PROVE  Inv'
<1>1. task[t].says \in AttemptStatuses
  BY DEF Inv, TasksOK, Remembers, Adopt, At, AttemptStatuses
<1>2. attempt' \in [Attempts -> AttemptRow]
  BY <1>1 DEF Inv, RowsOK, AttemptRow, Adopt
<1>3. request' \in [Requests -> RequestRow]
  BY DEF Inv, RowsOK, RequestRow, RequestStatuses, Adopt
<1>4. RowsOK'
  BY <1>2, <1>3 DEF Inv, RowsOK, Adopt
<1>5. TasksOK' /\ Queue!TypeOK'
  BY ReturnKeepsTasks, SameQueue DEF Inv, Adopt
<1> QED
  BY <1>4, <1>5 DEF Inv

\* A pass has read a request.
LEMMA PassReadKeepsInv ==
  ASSUME Inv, NEW t \in Tasks, NEW r \in Requests, NEW trigger \in {"unattended", "retry"},
         PassRead(t, r, trigger)
  PROVE  Inv'
<1>1. RowsOK'
  BY DEF Inv, RowsOK, rows, PassRead
<1>2. TasksOK'
  <2>1. "auto_claim" \in Pcs /\ trigger \in Says /\ Grabbable \subseteq RequestStatuses
    BY DEF Pcs, Searching, Says, Grabbable, RequestStatuses
  <2> DEFINE next == [task[t] EXCEPT !.pc = "auto_claim", !.request = r,
                                     !.was = request[r].status, !.says = trigger]
  <2>2. next \in TaskState
    BY <2>1 DEF Inv, TasksOK, TaskState, PassRead
  <2>3. task' = [task EXCEPT ![t] = next]
    BY DEF Inv, TasksOK, TaskState, PassRead
  <2>4. task' \in [Tasks -> TaskState]
    BY <2>2, <2>3 DEF Inv, TasksOK
  <2>5. Remembers(t)'
    BY DEF Inv, TasksOK, TaskState, Remembers, PassRead, Grabbing
  <2> QED
    BY <2>4, <2>5, OthersKeepTasks DEF Inv, TasksOK, PassRead
<1>3. Queue!TypeOK'
  BY SameQueue DEF Inv, PassRead
<1> QED
  BY <1>1, <1>2, <1>3 DEF Inv

\* The sweep for abandoned requests has read one.
LEMMA AbandonReadKeepsInv ==
  ASSUME Inv, NEW t \in Tasks, NEW r \in Requests, AbandonRead(t, r)
  PROVE  Inv'
<1>1. RowsOK'
  BY DEF Inv, RowsOK, rows, AbandonRead
<1>2. TasksOK'
  <2>1. "abandon" \in Pcs /\ "abandon" \notin Grabbing
    BY DEF Pcs, Grabbing
  <2>2. task' \in [Tasks -> TaskState]
    BY <2>1 DEF Inv, TasksOK, TaskState, AbandonRead
  <2>3. Remembers(t)'
    BY <2>1 DEF Inv, TasksOK, TaskState, Remembers, AbandonRead
  <2> QED
    BY <2>2, <2>3, OthersKeepTasks DEF Inv, TasksOK, AbandonRead
<1>3. Queue!TypeOK'
  BY SameQueue DEF Inv, AbandonRead
<1> QED
  BY <1>1, <1>2, <1>3 DEF Inv

\* An adoption has found an attempt.
LEMMA AdoptReadKeepsInv ==
  ASSUME Inv, NEW t \in Tasks, NEW a \in Attempts, AdoptRead(t, a)
  PROVE  Inv'
<1>1. RowsOK'
  BY DEF Inv, RowsOK, rows, AdoptRead
<1>2. TasksOK'
  <2>1. PICK says \in {"queued", "downloading", "completed"} :
          task' = [task EXCEPT ![t].pc = "adopt", ![t].attempt = a, ![t].says = says]
    BY DEF AdoptRead, Owned
  <2>2. "adopt" \in Pcs /\ "adopt" \notin Grabbing /\ says \in Says
    BY DEF Pcs, Grabbing, Says
  <2> DEFINE next == [task[t] EXCEPT !.pc = "adopt", !.attempt = a, !.says = says]
  <2>3. next \in TaskState
    BY <2>2 DEF Inv, TasksOK, TaskState
  <2>4. task' = [task EXCEPT ![t] = next]
    BY <2>1 DEF Inv, TasksOK, TaskState
  <2>5. task' \in [Tasks -> TaskState]
    BY <2>3, <2>4 DEF Inv, TasksOK
  <2>6. Remembers(t)'
    BY <2>1, <2>2 DEF Inv, TasksOK, TaskState, Remembers
  <2> QED
    BY <2>1, <2>5, <2>6, OthersKeepTasks DEF Inv, TasksOK
<1>3. Queue!TypeOK'
  BY SameQueue DEF Inv, AdoptRead
<1> QED
  BY <1>1, <1>2, <1>3 DEF Inv

-------------------------------------------------------------------------------
(***************************************************************************)
(* Failing and holding a download.                                         *)
(***************************************************************************)

\* Every step of failDownload and holdForReview.
LEMMA OutcomeKeepsInv ==
  ASSUME Inv, NEW t \in Tasks,
    FailAttempt(t) \/ FailRequest(t) \/ HoldAttempt(t) \/ HoldRequest(t)
  PROVE  Inv'
<1>1. CASE FailAttempt(t)
  <2>1. RowsOK'
    BY <1>1, SetKeepsAttempts DEF Inv, RowsOK, AttemptStatuses, FailAttempt
  <2>2. TasksOK'
    BY <1>1, GoKeepsTasks, ReturnKeepsTasks
      DEF Inv, Pcs, Importing, Grabbing, FailAttempt
  <2>3. Queue!TypeOK'
    BY <1>1, SameQueue DEF Inv, FailAttempt
  <2> QED
    BY <2>1, <2>2, <2>3 DEF Inv
<1>2. CASE FailRequest(t)
  <2>1. RowsOK'
    BY <1>2, UpdateKeepsRequests DEF Inv, RowsOK, RequestStatuses, FailRequest
  <2>2. TasksOK'
    BY <1>2, ReturnKeepsTasks DEF Inv, FailRequest
  <2>3. Queue!TypeOK'
    BY <1>2, SameQueue DEF Inv, FailRequest
  <2> QED
    BY <2>1, <2>2, <2>3 DEF Inv
<1>3. CASE HoldAttempt(t)
  <2>1. RowsOK'
    BY <1>3 DEF Inv, RowsOK, AttemptRow, AttemptStatuses, HoldAttempt
  <2>2. TasksOK'
    BY <1>3, GoKeepsTasks, ReturnKeepsTasks
      DEF Inv, Pcs, Importing, Grabbing, HoldAttempt
  <2>3. Queue!TypeOK'
    BY <1>3, SameQueue DEF Inv, HoldAttempt
  <2> QED
    BY <2>1, <2>2, <2>3 DEF Inv
<1>4. CASE HoldRequest(t)
  <2>1. RowsOK'
    BY <1>4, UpdateKeepsRequests DEF Inv, RowsOK, RequestStatuses, HoldRequest
  <2>2. TasksOK'
    BY <1>4, GoKeepsTasks, ReturnKeepsTasks
      DEF Inv, Pcs, Importing, Grabbing, HoldRequest
  <2>3. Queue!TypeOK'
    BY <1>4, SameQueue DEF Inv, HoldRequest
  <2> QED
    BY <2>1, <2>2, <2>3 DEF Inv
<1> QED
  BY <1>1, <1>2, <1>3, <1>4

-------------------------------------------------------------------------------
(***************************************************************************)
(* The monitor.                                                            *)
(***************************************************************************)

\* Every step of a poll or a resume sweep.
LEMMA MonitorStepKeepsInv ==
  ASSUME Inv, NEW t \in Tasks, MonitorStep(t)
  PROVE  Inv'
<1>1. CASE PollApply(t)
  <2>1. RowsOK'
    <3>1. task[t].says \in AttemptStatuses
      BY <1>1 DEF Inv, TasksOK, Remembers, PollApply, At, AttemptStatuses
    <3> QED
      BY <1>1, <3>1, SetKeepsAttempts DEF Inv, RowsOK, PollApply
  <2>2. TasksOK'
    BY <1>1, GoKeepsTasks, ReturnKeepsTasks
      DEF Inv, TasksOK, Remembers, Pcs, Importing, Grabbing, PollApply, HandOff, At
  <2>3. Queue!TypeOK'
    <3>1. task[t].attempt \in Attempts
      BY <1>1 DEF Inv, TasksOK, Remembers, PollApply, At
    <3> QED
      BY <1>1, <3>1, EnqueueKeepsTypes, SameQueue DEF Inv, PollApply, HandOff
  <2> QED
    BY <2>1, <2>2, <2>3 DEF Inv
<1>2. CASE PollRequest(t)
  <2>1. RowsOK'
    BY <1>2, UpdateKeepsRequests DEF Inv, RowsOK, RequestStatuses, PollRequest
  <2>2. TasksOK'
    BY <1>2, ReturnKeepsTasks DEF Inv, PollRequest, HandOff
  <2>3. Queue!TypeOK'
    <3>1. task[t].attempt \in Attempts
      BY <1>2 DEF Inv, TasksOK, Remembers, PollRequest, At
    <3> QED
      BY <1>2, <3>1, EnqueueKeepsTypes, SameQueue DEF Inv, PollRequest, HandOff
  <2> QED
    BY <2>1, <2>2, <2>3 DEF Inv
<1>3. CASE ResumeEnqueue(t)
  <2>1. RowsOK'
    BY <1>3 DEF Inv, RowsOK, rows, ResumeEnqueue
  <2>2. TasksOK'
    BY <1>3, ReturnKeepsTasks DEF Inv, ResumeEnqueue
  <2>3. Queue!TypeOK'
    <3>1. task[t].attempt \in Attempts
      BY <1>3 DEF Inv, TasksOK, Remembers, ResumeEnqueue, At
    <3> QED
      BY <1>3, <3>1, EnqueueKeepsTypes DEF Inv, ResumeEnqueue
  <2> QED
    BY <2>1, <2>2, <2>3 DEF Inv
<1> QED
  BY <1>1, <1>2, <1>3 DEF MonitorStep

-------------------------------------------------------------------------------
(***************************************************************************)
(* Imports.                                                                *)
(***************************************************************************)

\* Every step of an import.
LEMMA ImportStepKeepsInv ==
  ASSUME Inv, NEW t \in Tasks, ImportStep(t) \/ ImportPlaceCollides(t)
  PROVE  Inv'
<1>1. CASE ImportDone(t)
  <2>1. RowsOK'
    BY <1>1 DEF Inv, RowsOK, rows, ImportDone
  <2>2. TasksOK'
    <3>1. Idle \in TaskState /\ Idle.pc \notin Grabbing
      BY DEF Idle, TaskState, Pcs, Says, Grabbing
    <3>2. task' \in [Tasks -> TaskState]
      BY <1>1, <3>1 DEF Inv, TasksOK, ImportDone
    <3>3. Remembers(t)'
      BY <1>1, <3>1 DEF Inv, TasksOK, Remembers, ImportDone, Idle
    <3> QED
      BY <1>1, <3>2, <3>3, OthersKeepTasks DEF Inv, TasksOK, ImportDone
  <2>3. Queue!TypeOK'
    BY <1>1, FinishKeepsTypes DEF Inv, ImportDone
  <2> QED
    BY <2>1, <2>2, <2>3 DEF Inv
<1>2. CASE ChooseClaim(t)
  <2>1. RowsOK'
    BY <1>2, SetKeepsAttempts DEF Inv, RowsOK, AttemptStatuses, ChooseClaim
  <2>2. TasksOK'
    BY <1>2, GoKeepsTasks, ReturnKeepsTasks
      DEF Inv, Pcs, Importing, Grabbing, ChooseClaim
  <2>3. Queue!TypeOK'
    BY <1>2, SameQueue DEF Inv, ChooseClaim
  <2> QED
    BY <2>1, <2>2, <2>3 DEF Inv
<1>3. CASE ImportError(t)
  <2>1. RowsOK'
    BY <1>3 DEF Inv, RowsOK, rows, ImportError
  <2>2. TasksOK'
    BY <1>3, GoKeepsTasks DEF Inv, Pcs, Importing, Grabbing, ImportError
  <2>3. Queue!TypeOK'
    BY <1>3, SameQueue DEF Inv, ImportError
  <2> QED
    BY <2>1, <2>2, <2>3 DEF Inv
<1>4. CASE \E why \in {"choice", "truncated"} : ImportHold(t, why)
  <2>1. RowsOK'
    BY <1>4 DEF Inv, RowsOK, rows, ImportHold
  <2>2. TasksOK'
    <3>1. PICK why \in {"choice", "truncated"} : ImportHold(t, why)
      BY <1>4
    <3>2. "hold_attempt" \in Pcs /\ why \in Says
      BY DEF Pcs, Says
    <3>3. task' \in [Tasks -> TaskState]
      BY <3>1, <3>2 DEF Inv, TasksOK, TaskState, ImportHold
    <3>4. Remembers(t)'
      BY <3>1 DEF Inv, TasksOK, TaskState, Remembers, Importing, Grabbing, ImportHold
    <3> QED
      BY <3>1, <3>3, <3>4, OthersKeepTasks DEF Inv, TasksOK, ImportHold
  <2>3. Queue!TypeOK'
    BY <1>4, SameQueue DEF Inv, ImportHold
  <2> QED
    BY <2>1, <2>2, <2>3 DEF Inv
<1>5. CASE ImportClaimDock(t) \/ ImportReclaimDock(t)
  <2>1. RowsOK'
    <3>1. task[t].attempt \in Attempts \cup {NoRow}
      BY DEF Inv, TasksOK, TaskState
    <3>2. dock' \in [DockFiles -> DockRows]
      BY <1>5, <3>1 DEF Inv, RowsOK, DockRows, ImportClaimDock, ImportReclaimDock,
        ClaimDestination
    <3> QED
      BY <1>5, <3>2 DEF Inv, RowsOK, ImportClaimDock, ImportReclaimDock, ClaimDestination
  <2>2. TasksOK'
    <3>1. "import_claim" \in Pcs /\ "import_reclaim" \in Pcs
      BY DEF Pcs, Importing, Grabbing
    <3>2. task' \in [Tasks -> TaskState]
      BY <1>5, <3>1 DEF Inv, TasksOK, TaskState, ImportClaimDock, ImportReclaimDock,
        ClaimDestination
    <3>3. Remembers(t)'
      BY <1>5 DEF Inv, TasksOK, TaskState, Remembers, Importing, Grabbing, ImportClaimDock,
        ImportReclaimDock, ClaimDestination
    <3> QED
      BY <1>5, <3>2, <3>3, OthersKeepTasks DEF Inv, TasksOK, ImportClaimDock, ImportReclaimDock,
        ClaimDestination
  <2>3. Queue!TypeOK'
    BY <1>5, SameQueue DEF Inv, ImportClaimDock, ImportReclaimDock, ClaimDestination
  <2> QED
    BY <2>1, <2>2, <2>3 DEF Inv
<1>6. CASE ImportClaim(t)
  <2>1. RowsOK'
    <3>1. task[t].dock \in DockFiles \cup {NoRow}
      BY DEF Inv, TasksOK, TaskState
    <3>2. request \in [Requests -> RequestRow] /\ "importing" \in RequestStatuses
      BY DEF Inv, RowsOK, RequestStatuses
    <3>3. \A r : [request EXCEPT ![r].status = "importing", ![r].dock = task[t].dock]
                 \in [Requests -> RequestRow]
      BY <3>1, <3>2 DEF RequestRow
    <3>4. request' \in [Requests -> RequestRow]
      BY <1>6, <3>2, <3>3 DEF ImportClaim
    <3> QED
      BY <1>6, <3>4 DEF Inv, RowsOK, ImportClaim
  <2>2. TasksOK'
    BY <1>6, GoKeepsTasks, ReturnKeepsTasks
      DEF Inv, Pcs, Importing, Grabbing, ImportClaim
  <2>3. Queue!TypeOK'
    BY <1>6, SameQueue DEF Inv, ImportClaim
  <2> QED
    BY <2>1, <2>2, <2>3 DEF Inv
<1>7. CASE ImportUndo(t)
  <2>1. RowsOK'
    BY <1>7, DeleteKeepsRows DEF Inv, ImportUndo
  <2>2. TasksOK'
    BY <1>7, GoKeepsTasks DEF Inv, Pcs, Importing, Grabbing, ImportUndo
  <2>3. Queue!TypeOK'
    BY <1>7, SameQueue DEF Inv, ImportUndo
  <2> QED
    BY <2>1, <2>2, <2>3 DEF Inv
<1>8. CASE ImportRefused(t)
  <2>1. RowsOK'
    <3>1. attempt' = attempt \/ SetAttempt(task[t].attempt, "failed")
      BY <1>8 DEF ImportRefused, SetAttempt
    <3>2. attempt' \in [Attempts -> AttemptRow]
      BY <3>1, SetKeepsAttempts DEF Inv, RowsOK, AttemptStatuses
    <3> QED
      BY <1>8, <3>2 DEF Inv, RowsOK, ImportRefused
  <2>2. TasksOK'
    BY <1>8, ReturnKeepsTasks DEF Inv, ImportRefused
  <2>3. Queue!TypeOK'
    BY <1>8, SameQueue DEF Inv, ImportRefused
  <2> QED
    BY <2>1, <2>2, <2>3 DEF Inv
<1>9. CASE ImportRecord(t)
  <2>1. RowsOK'
    <3>1. task[t].dock \in DockFiles \cup {NoRow}
      BY DEF Inv, TasksOK, TaskState
    <3> QED
      BY <1>9, <3>1 DEF Inv, RowsOK, AttemptRow, AttemptStatuses, ImportRecord
  <2>2. TasksOK'
    BY <1>9, GoKeepsTasks, ReturnKeepsTasks
      DEF Inv, Pcs, Importing, Grabbing, ImportRecord
  <2>3. Queue!TypeOK'
    BY <1>9, SameQueue DEF Inv, ImportRecord
  <2> QED
    BY <2>1, <2>2, <2>3 DEF Inv
<1>10. CASE ImportPlace(t)
  <2>1. RowsOK'
    <3>1. dock \in [DockFiles -> DockRows]
      BY DEF Inv, RowsOK
    <3>2. [dock EXCEPT ![task[t].dock].state = "placed"] \in [DockFiles -> DockRows]
      BY <3>1 DEF DockRows
    <3>3. dock' \in [DockFiles -> DockRows]
      BY <1>10, <3>1, <3>2 DEF ImportPlace
    <3> QED
      BY <1>10, <3>3 DEF Inv, RowsOK, ImportPlace
  <2>2. TasksOK'
    BY <1>10, ReturnKeepsTasks DEF Inv, ImportPlace
  <2>3. Queue!TypeOK'
    BY <1>10, SameQueue DEF Inv, ImportPlace
  <2> QED
    BY <2>1, <2>2, <2>3 DEF Inv
<1>11. CASE ImportPlaceThrows(t) \/ ImportPlaceCollides(t)
  <2>1. RowsOK'
    BY <1>11, DeleteKeepsRows DEF Inv, ImportPlaceThrows, ImportPlaceCollides, ImportPlaceFails
  <2>2. TasksOK'
    BY <1>11, GoKeepsTasks DEF Inv, Pcs, Importing, Grabbing, ImportPlaceThrows,
      ImportPlaceCollides, ImportPlaceFails
  <2>3. Queue!TypeOK'
    BY <1>11, SameQueue DEF Inv, ImportPlaceThrows, ImportPlaceCollides, ImportPlaceFails
  <2> QED
    BY <2>1, <2>2, <2>3 DEF Inv
<1>12. CASE ImportReclaim(t)
  <2>1. RowsOK'
    <3>1. task[t].dock \in DockFiles \cup {NoRow}
      BY DEF Inv, TasksOK, TaskState
    <3> QED
      BY <1>12, <3>1 DEF Inv, RowsOK, RequestRow, RequestStatuses, ImportReclaim
  <2>2. TasksOK'
    BY <1>12, GoKeepsTasks, ReturnKeepsTasks
      DEF Inv, Pcs, Importing, Grabbing, ImportReclaim
  <2>3. Queue!TypeOK'
    BY <1>12, SameQueue DEF Inv, ImportReclaim
  <2> QED
    BY <2>1, <2>2, <2>3 DEF Inv
<1>13. CASE ImportRerecord(t)
  <2>1. RowsOK'
    <3>1. task[t].dock \in DockFiles \cup {NoRow}
      BY DEF Inv, TasksOK, TaskState
    <3> QED
      BY <1>13, <3>1 DEF Inv, RowsOK, AttemptRow, AttemptStatuses, ImportRerecord
  <2>2. TasksOK'
    BY <1>13, GoKeepsTasks, ReturnKeepsTasks
      DEF Inv, Pcs, Importing, Grabbing, ImportRerecord
  <2>3. Queue!TypeOK'
    BY <1>13, SameQueue DEF Inv, ImportRerecord
  <2> QED
    BY <2>1, <2>2, <2>3 DEF Inv
<1> QED
  BY <1>1, <1>2, <1>3, <1>4, <1>5, <1>6, <1>7, <1>8, <1>9, <1>10, <1>11, <1>12,
    <1>13 DEF ImportStep

-------------------------------------------------------------------------------
(***************************************************************************)
(* Verification.                                                           *)
(***************************************************************************)

\* Every step of a verification, a filing or a discard.
LEMMA VerificationStepKeepsInv ==
  ASSUME Inv, NEW t \in Tasks, VerificationStep(t)
  PROVE  Inv'
<1>1. CASE VerifyPasses(t) \/ VerifyHolds(t) \/ VerifyFindsNoRow(t)
  <2>1. RowsOK'
    BY <1>1 DEF Inv, RowsOK, rows, VerifyPasses, VerifyHolds, VerifyFindsNoRow
  <2>2. TasksOK'
    BY <1>1, GoKeepsTasks DEF Inv, Pcs, Importing, Grabbing, VerifyPasses, VerifyHolds,
      VerifyFindsNoRow
  <2>3. Queue!TypeOK'
    BY <1>1, SameQueue DEF Inv, VerifyPasses, VerifyHolds, VerifyFindsNoRow
  <2> QED
    BY <2>1, <2>2, <2>3 DEF Inv
<1>2. CASE FileRead(t)
  <2>1. RowsOK'
    BY <1>2 DEF Inv, RowsOK, rows, FileRead
  <2>2. TasksOK'
    BY <1>2, GoKeepsTasks, ReturnKeepsTasks
      DEF Inv, Pcs, Importing, Grabbing, NotFiled, FileRead
  <2>3. Queue!TypeOK'
    BY <1>2, SameQueue DEF Inv, FileRead
  <2> QED
    BY <2>1, <2>2, <2>3 DEF Inv
<1>3. CASE FileMove(t)
  <2>1. RowsOK'
    BY <1>3, DeleteKeepsRows DEF Inv, FileMove
  <2>2. TasksOK'
    BY <1>3, GoKeepsTasks DEF Inv, Pcs, Importing, Grabbing, FileMove
  <2>3. Queue!TypeOK'
    BY <1>3, SameQueue DEF Inv, FileMove
  <2> QED
    BY <2>1, <2>2, <2>3 DEF Inv
<1>4. CASE FileMoveFails(t)
  <2>1. RowsOK'
    BY <1>4 DEF Inv, RowsOK, rows, FileMoveFails
  <2>2. TasksOK'
    BY <1>4, GoKeepsTasks, ReturnKeepsTasks
      DEF Inv, Pcs, Importing, Grabbing, NotFiled, FileMoveFails
  <2>3. Queue!TypeOK'
    BY <1>4, SameQueue DEF Inv, FileMoveFails
  <2> QED
    BY <2>1, <2>2, <2>3 DEF Inv
<1>5. CASE FileRequest(t)
  <2>1. RowsOK'
    BY <1>5 DEF Inv, RowsOK, RequestRow, RequestStatuses, FileRequest
  <2>2. TasksOK'
    BY <1>5, GoKeepsTasks DEF Inv, Pcs, Importing, Grabbing, FileRequest
  <2>3. Queue!TypeOK'
    BY <1>5, SameQueue DEF Inv, FileRequest
  <2> QED
    BY <2>1, <2>2, <2>3 DEF Inv
<1>6. CASE FileAttempt(t)
  <2>1. RowsOK'
    <3>1. attempt' = attempt \/ SetAttempt(task[t].attempt, "imported")
      BY <1>6 DEF FileAttempt, SetAttempt
    <3>2. attempt' \in [Attempts -> AttemptRow]
      BY <3>1, SetKeepsAttempts DEF Inv, RowsOK, AttemptStatuses
    <3> QED
      BY <1>6, <3>2 DEF Inv, RowsOK, FileAttempt
  <2>2. TasksOK'
    BY <1>6, GoKeepsTasks, ReturnKeepsTasks
      DEF Inv, Pcs, Importing, Grabbing, NotFiled, FileAttempt
  <2>3. Queue!TypeOK'
    BY <1>6, SameQueue DEF Inv, FileAttempt
  <2> QED
    BY <2>1, <2>2, <2>3 DEF Inv
<1>7. CASE DiscardRequest(t)
  <2>1. RowsOK'
    BY <1>7 DEF Inv, RowsOK, RequestRow, RequestStatuses, DiscardRequest
  <2>2. TasksOK'
    BY <1>7, GoKeepsTasks, ReturnKeepsTasks
      DEF Inv, Pcs, Importing, Grabbing, DiscardRequest
  <2>3. Queue!TypeOK'
    BY <1>7, SameQueue DEF Inv, DiscardRequest
  <2> QED
    BY <2>1, <2>2, <2>3 DEF Inv
<1>8. CASE DiscardAttempt(t)
  <2>1. RowsOK'
    BY <1>8, SetKeepsAttempts DEF Inv, RowsOK, AttemptStatuses, DiscardAttempt
  <2>2. TasksOK'
    BY <1>8, GoKeepsTasks DEF Inv, Pcs, Importing, Grabbing, DiscardAttempt
  <2>3. Queue!TypeOK'
    BY <1>8, SameQueue DEF Inv, DiscardAttempt
  <2> QED
    BY <2>1, <2>2, <2>3 DEF Inv
<1>9. CASE DiscardDock(t)
  <2>1. RowsOK'
    BY <1>9, DeleteKeepsRows DEF Inv, DiscardDock
  <2>2. TasksOK'
    BY <1>9, ReturnKeepsTasks DEF Inv, DiscardDock
  <2>3. Queue!TypeOK'
    BY <1>9, SameQueue DEF Inv, DiscardDock
  <2> QED
    BY <2>1, <2>2, <2>3 DEF Inv
<1>10. CASE DiscardDockFails(t)
  <2>1. RowsOK'
    BY <1>10 DEF Inv, RowsOK, rows, DiscardDockFails
  <2>2. TasksOK'
    BY <1>10, GoKeepsTasks DEF Inv, Pcs, Importing, Grabbing, DiscardDockFails
  <2>3. Queue!TypeOK'
    BY <1>10, SameQueue DEF Inv, DiscardDockFails
  <2> QED
    BY <2>1, <2>2, <2>3 DEF Inv
<1>11. CASE DiscardUndoAttempt(t)
  <2>1. RowsOK'
    <3>1. attempt' = attempt \/ SetAttempt(task[t].attempt, "needs_review")
      BY <1>11 DEF DiscardUndoAttempt, SetAttempt
    <3>2. attempt' \in [Attempts -> AttemptRow]
      BY <3>1, SetKeepsAttempts DEF Inv, RowsOK, AttemptStatuses
    <3> QED
      BY <1>11, <3>2 DEF Inv, RowsOK, DiscardUndoAttempt
  <2>2. TasksOK'
    BY <1>11, GoKeepsTasks DEF Inv, Pcs, Importing, Grabbing, DiscardUndoAttempt
  <2>3. Queue!TypeOK'
    BY <1>11, SameQueue DEF Inv, DiscardUndoAttempt
  <2> QED
    BY <2>1, <2>2, <2>3 DEF Inv
<1>12. CASE DiscardUndoRequest(t)
  <2>1. RowsOK'
    BY <1>12 DEF Inv, RowsOK, RequestRow, RequestStatuses, DiscardUndoRequest
  <2>2. TasksOK'
    BY <1>12, ReturnKeepsTasks DEF Inv, DiscardUndoRequest
  <2>3. Queue!TypeOK'
    BY <1>12, SameQueue DEF Inv, DiscardUndoRequest
  <2> QED
    BY <2>1, <2>2, <2>3 DEF Inv
<1> QED
  BY <1>1, <1>2, <1>3, <1>4, <1>5, <1>6, <1>7, <1>8, <1>9, <1>10, <1>11,
    <1>12 DEF VerificationStep

-------------------------------------------------------------------------------
(***************************************************************************)
(* Decisions and removals.                                                 *)
(***************************************************************************)

\* Every step of taking a download out of its client.
LEMMA RemovalStepKeepsInv ==
  ASSUME Inv, NEW t \in Tasks, RemovalStep(t) \/ SettleRefused(t)
  PROVE  Inv'
<1>1. CASE Latest(t)
  <2>1. RowsOK'
    BY <1>1 DEF Inv, RowsOK, rows, Latest
  <2>2. TasksOK'
    <3>1. CASE \E a \in Attempts : task' = [task EXCEPT ![t].pc = "detach", ![t].attempt = a]
      <4>1. PICK a \in Attempts : task' = [task EXCEPT ![t].pc = "detach", ![t].attempt = a]
        BY <3>1
      <4>2. "detach" \in Pcs /\ "detach" \notin Grabbing
        BY DEF Pcs, Grabbing
      <4>3. [task[t] EXCEPT !.pc = "detach", !.attempt = a] \in TaskState
        BY <4>2 DEF Inv, TasksOK, TaskState
      <4>4. task' = [task EXCEPT ![t] = [task[t] EXCEPT !.pc = "detach", !.attempt = a]]
        BY <4>1
      <4>5. task' \in [Tasks -> TaskState]
        BY <4>3, <4>4 DEF Inv, TasksOK
      <4>6. Remembers(t)'
        BY <4>1, <4>2 DEF Inv, TasksOK, TaskState, Remembers
      <4> QED
        BY <4>1, <4>5, <4>6, OthersKeepTasks DEF Inv, TasksOK
    <3>2. CASE AfterRemoval(t, FALSE)
      BY <3>2, GoKeepsTasks, ReturnKeepsTasks DEF Inv, Pcs, Importing, Grabbing, AfterRemoval
    <3> QED
      BY <1>1, <3>1, <3>2 DEF Latest
  <2>3. Queue!TypeOK'
    BY <1>1, SameQueue DEF Inv, Latest
  <2> QED
    BY <2>1, <2>2, <2>3 DEF Inv
<1>2. CASE Detach(t)
  <2>1. RowsOK'
    BY <1>2 DEF Inv, RowsOK, rows, Detach
  <2>2. TasksOK'
    BY <1>2, GoKeepsTasks DEF Inv, Pcs, Importing, Grabbing, Detach
  <2>3. Queue!TypeOK'
    BY <1>2, SameQueue DEF Inv, Detach
  <2> QED
    BY <2>1, <2>2, <2>3 DEF Inv
<1>3. CASE DetachRefused(t)
  <2>1. RowsOK'
    BY <1>3 DEF Inv, RowsOK, rows, DetachRefused
  <2>2. TasksOK'
    BY <1>3, GoKeepsTasks, ReturnKeepsTasks
      DEF Inv, Pcs, Importing, Grabbing, DetachRefused
  <2>3. Queue!TypeOK'
    BY <1>3, SameQueue DEF Inv, DetachRefused
  <2> QED
    BY <2>1, <2>2, <2>3 DEF Inv
<1>4. CASE FailInFlight(t)
  <2>1. RowsOK'
    <3>1. attempt' = attempt \/ SetAttempt(task[t].attempt, "failed")
      BY <1>4 DEF FailInFlight, SetAttempt
    <3>2. attempt' \in [Attempts -> AttemptRow]
      BY <3>1, SetKeepsAttempts DEF Inv, RowsOK, AttemptStatuses
    <3> QED
      BY <1>4, <3>2 DEF Inv, RowsOK, FailInFlight
  <2>2. TasksOK'
    BY <1>4, GoKeepsTasks, ReturnKeepsTasks
      DEF Inv, Pcs, Importing, Grabbing, FailInFlight, AfterRemoval
  <2>3. Queue!TypeOK'
    BY <1>4, SameQueue DEF Inv, FailInFlight
  <2> QED
    BY <2>1, <2>2, <2>3 DEF Inv
<1>5. CASE SettleStopped(t) \/ SettleRemoved(t)
  <2>1. RowsOK'
    BY <1>5, UpdateKeepsRequests DEF Inv, RowsOK, RequestStatuses, SettleStopped, SettleRemoved,
      Settle
  <2>2. TasksOK'
    BY <1>5, ReturnKeepsTasks DEF Inv, SettleStopped, SettleRemoved, Settle
  <2>3. Queue!TypeOK'
    BY <1>5, SameQueue DEF Inv, SettleStopped, SettleRemoved, Settle
  <2> QED
    BY <2>1, <2>2, <2>3 DEF Inv
<1>6. CASE SettleFulfilled(t)
  <2>1. RowsOK'
    BY <1>6 DEF Inv, RowsOK, RequestRow, RequestStatuses, SettleFulfilled
  <2>2. TasksOK'
    BY <1>6, GoKeepsTasks, ReturnKeepsTasks
      DEF Inv, Pcs, Importing, Grabbing, SettleFulfilled
  <2>3. Queue!TypeOK'
    BY <1>6, SameQueue DEF Inv, SettleFulfilled
  <2> QED
    BY <2>1, <2>2, <2>3 DEF Inv
<1>7. CASE FailInFlightForRequest(t)
  <2>1. RowsOK'
    BY <1>7 DEF Inv, RowsOK, AttemptRow, AttemptStatuses, FailInFlightForRequest
  <2>2. TasksOK'
    BY <1>7, ReturnKeepsTasks DEF Inv, FailInFlightForRequest
  <2>3. Queue!TypeOK'
    BY <1>7, SameQueue DEF Inv, FailInFlightForRequest
  <2> QED
    BY <2>1, <2>2, <2>3 DEF Inv
<1>8. CASE SettleRefused(t)
  <2>1. RowsOK'
    BY <1>8 DEF Inv, RowsOK, rows, SettleRefused
  <2>2. TasksOK'
    BY <1>8, ReturnKeepsTasks DEF Inv, SettleRefused
  <2>3. Queue!TypeOK'
    BY <1>8, SameQueue DEF Inv, SettleRefused
  <2> QED
    BY <2>1, <2>2, <2>3 DEF Inv
<1> QED
  BY <1>1, <1>2, <1>3, <1>4, <1>5, <1>6, <1>7, <1>8 DEF RemovalStep

-------------------------------------------------------------------------------
(***************************************************************************)
(* What begins an activation.                                              *)
(***************************************************************************)

\* A grab begins.
LEMMA GrabReadKeepsInv ==
  ASSUME Inv, NEW t \in Tasks, NEW r \in Requests, GrabRead(t, r)
  PROVE  Inv'
<1>1. RowsOK'
  BY DEF Inv, RowsOK, rows, GrabRead
<1>2. TasksOK'
  <2>1. "grab_claim" \in Pcs
    BY DEF Pcs, Importing, Grabbing
  <2>2. request[r].status \in RequestStatuses
    BY DEF Inv, RowsOK, RequestRow
  <2> DEFINE next == [task[t] EXCEPT !.pc = "grab_claim", !.request = r,
            !.was = request[r].status]
  <2>3. task[t] \in TaskState
    BY DEF Inv, TasksOK
  <2>4. next \in TaskState
    BY <2>1, <2>2, <2>3 DEF TaskState
  <2>5. task' = [task EXCEPT ![t] = next]
    BY <2>1, <2>2 DEF Inv, TasksOK, TaskState, GrabRead
  <2>6. task' \in [Tasks -> TaskState]
    BY <2>4, <2>5 DEF Inv, TasksOK
  <2>7. Remembers(t)'
    BY <2>1, <2>2 DEF Inv, TasksOK, TaskState, Remembers, GrabRead
  <2> QED
    BY <2>6, <2>7, OthersKeepTasks DEF Inv, TasksOK, GrabRead
<1>3. Queue!TypeOK'
  BY SameQueue DEF Inv, GrabRead
<1> QED
  BY <1>1, <1>2, <1>3 DEF Inv

\* A poll begins.
LEMMA PollReadKeepsInv ==
  ASSUME Inv, NEW t \in Tasks, NEW a \in Attempts, PollRead(t, a)
  PROVE  Inv'
<1>1. RowsOK'
  BY DEF Inv, RowsOK, rows, PollRead
<1>2. TasksOK'
  <2>1. "fail_attempt" \in Pcs /\ "fail_attempt" \notin Grabbing /\ "poll_apply" \in Pcs
        /\ "poll_apply" \notin Grabbing
    BY DEF Pcs, Importing, Grabbing
  <2>2. attempt[a].status \in AttemptStatuses
    BY DEF Inv, RowsOK, AttemptRow, PollRead, ActiveAttempt, AttemptStatuses
  <2>3. PICK says \in Answers(attempt[a].release) :
          task' = [task EXCEPT ![t].pc = IF says = "failing" THEN "fail_attempt" ELSE "poll_apply",
                               ![t].attempt = a, ![t].was = attempt[a].status, ![t].says = says]
    BY DEF PollRead
  <2>4. says \in {"queued", "downloading", "completed", "failing"}
    BY <2>3 DEF Answers
  <2>5. says \in Says
    BY <2>4 DEF Says
  <2> DEFINE next == [task[t] EXCEPT
            !.pc = IF says = "failing" THEN "fail_attempt" ELSE "poll_apply",
            !.attempt = a, !.was = attempt[a].status, !.says = says]
  <2>6. task[t] \in TaskState
    BY DEF Inv, TasksOK
  <2>7. next \in TaskState
    BY <2>1, <2>2, <2>3, <2>4, <2>5, <2>6 DEF TaskState
  <2>8. task' = [task EXCEPT ![t] = next]
    BY <2>1, <2>2, <2>3, <2>4, <2>5 DEF Inv, TasksOK, TaskState, PollRead
  <2>9. task' \in [Tasks -> TaskState]
    BY <2>7, <2>8 DEF Inv, TasksOK
  <2>10. Remembers(t)'
    BY <2>1, <2>2, <2>3, <2>4, <2>5 DEF Inv, TasksOK, TaskState, Remembers, PollRead
  <2> QED
    BY <2>9, <2>10, OthersKeepTasks DEF Inv, TasksOK, PollRead
<1>3. Queue!TypeOK'
  BY SameQueue DEF Inv, PollRead
<1> QED
  BY <1>1, <1>2, <1>3 DEF Inv

\* A resume sweep comes to a download.
LEMMA ResumeReadKeepsInv ==
  ASSUME Inv, NEW t \in Tasks, NEW a \in Attempts, ResumeRead(t, a)
  PROVE  Inv'
<1>1. RowsOK'
  BY DEF Inv, RowsOK, rows, ResumeRead
<1>2. TasksOK'
  <2>1. "resume" \in Pcs /\ "resume" \notin Grabbing
    BY DEF Pcs, Importing, Grabbing
  <2> DEFINE next == [task[t] EXCEPT !.pc = "resume", !.attempt = a]
  <2>2. task[t] \in TaskState
    BY DEF Inv, TasksOK
  <2>3. next \in TaskState
    BY <2>1, <2>2 DEF TaskState
  <2>4. task' = [task EXCEPT ![t] = next]
    BY <2>1 DEF Inv, TasksOK, TaskState, ResumeRead
  <2>5. task' \in [Tasks -> TaskState]
    BY <2>3, <2>4 DEF Inv, TasksOK
  <2>6. Remembers(t)'
    BY <2>1 DEF Inv, TasksOK, TaskState, Remembers, ResumeRead
  <2> QED
    BY <2>5, <2>6, OthersKeepTasks DEF Inv, TasksOK, ResumeRead
<1>3. Queue!TypeOK'
  BY SameQueue DEF Inv, ResumeRead
<1> QED
  BY <1>1, <1>2, <1>3 DEF Inv

\* A watchdog sweep comes to a download.
LEMMA WatchdogReadKeepsInv ==
  ASSUME Inv, NEW t \in Tasks, NEW a \in Attempts, WatchdogRead(t, a)
  PROVE  Inv'
<1>1. RowsOK'
  BY DEF Inv, RowsOK, rows, WatchdogRead
<1>2. TasksOK'
  <2>1. "fail_attempt" \in Pcs /\ "fail_attempt" \notin Grabbing
    BY DEF Pcs, Importing, Grabbing
  <2> DEFINE next == [task[t] EXCEPT !.pc = "fail_attempt", !.attempt = a]
  <2>2. task[t] \in TaskState
    BY DEF Inv, TasksOK
  <2>3. next \in TaskState
    BY <2>1, <2>2 DEF TaskState
  <2>4. task' = [task EXCEPT ![t] = next]
    BY <2>1 DEF Inv, TasksOK, TaskState, WatchdogRead
  <2>5. task' \in [Tasks -> TaskState]
    BY <2>3, <2>4 DEF Inv, TasksOK
  <2>6. Remembers(t)'
    BY <2>1 DEF Inv, TasksOK, TaskState, Remembers, WatchdogRead
  <2> QED
    BY <2>5, <2>6, OthersKeepTasks DEF Inv, TasksOK, WatchdogRead
<1>3. Queue!TypeOK'
  BY SameQueue DEF Inv, WatchdogRead
<1> QED
  BY <1>1, <1>2, <1>3 DEF Inv

\* The queue's handler begins.
LEMMA ImportBeginKeepsInv ==
  ASSUME Inv, NEW t \in Tasks, NEW a \in Attempts, ImportBegin(t, a)
  PROVE  Inv'
<1>1. RowsOK'
  BY DEF Inv, RowsOK, rows, ImportBegin
<1>2. TasksOK'
  <2>1. "import_extract" \in Pcs /\ "import_extract" \notin Grabbing /\ "import_done" \in Pcs
        /\ "import_done" \notin Grabbing
    BY DEF Pcs, Importing, Grabbing
  <2> DEFINE next == [task[t] EXCEPT !.pc = IF attempt[a].status = "completed"
            /\ attempt[a].dock = NoRow
                                         THEN "import_extract" ELSE "import_done", !.attempt = a]
  <2>2. task[t] \in TaskState
    BY DEF Inv, TasksOK
  <2>3. next \in TaskState
    BY <2>1, <2>2 DEF TaskState
  <2>4. task' = [task EXCEPT ![t] = next]
    BY <2>1 DEF Inv, TasksOK, TaskState, ImportBegin
  <2>5. task' \in [Tasks -> TaskState]
    BY <2>3, <2>4 DEF Inv, TasksOK
  <2>6. Remembers(t)'
    BY <2>1 DEF Inv, TasksOK, TaskState, Remembers, ImportBegin
  <2> QED
    BY <2>5, <2>6, OthersKeepTasks DEF Inv, TasksOK, ImportBegin
<1>3. Queue!TypeOK'
  BY SameQueue DEF Inv, ImportBegin
<1> QED
  BY <1>1, <1>2, <1>3 DEF Inv

\* An approver chooses a book.
LEMMA ChooseUnitKeepsInv ==
  ASSUME Inv, NEW t \in Tasks, NEW a \in Attempts, ChooseUnit(t, a)
  PROVE  Inv'
<1>1. RowsOK'
  BY DEF Inv, RowsOK, rows, ChooseUnit
<1>2. TasksOK'
  <2>1. "choose_claim" \in Pcs /\ "choose_claim" \notin Grabbing
    BY DEF Pcs, Importing, Grabbing
  <2> DEFINE next == [task[t] EXCEPT !.pc = "choose_claim", !.attempt = a]
  <2>2. task[t] \in TaskState
    BY DEF Inv, TasksOK
  <2>3. next \in TaskState
    BY <2>1, <2>2 DEF TaskState
  <2>4. task' = [task EXCEPT ![t] = next]
    BY <2>1 DEF Inv, TasksOK, TaskState, ChooseUnit
  <2>5. task' \in [Tasks -> TaskState]
    BY <2>3, <2>4 DEF Inv, TasksOK
  <2>6. Remembers(t)'
    BY <2>1 DEF Inv, TasksOK, TaskState, Remembers, ChooseUnit
  <2> QED
    BY <2>5, <2>6, OthersKeepTasks DEF Inv, TasksOK, ChooseUnit
<1>3. Queue!TypeOK'
  BY SameQueue DEF Inv, ChooseUnit
<1> QED
  BY <1>1, <1>2, <1>3 DEF Inv

\* A dock file is announced.
LEMMA VerifyReadKeepsInv ==
  ASSUME Inv, NEW t \in Tasks, NEW f \in DockFiles, NEW a \in Attempts, VerifyRead(t, f, a)
  PROVE  Inv'
<1>1. RowsOK'
  BY DEF Inv, RowsOK, rows, VerifyRead
<1>2. TasksOK'
  <2>1. "verify" \in Pcs /\ "verify" \notin Grabbing
    BY DEF Pcs, Importing, Grabbing
  <2>2. attempt[a].request \in Requests \cup {NoRow} /\ "auto" \in Says
    BY DEF Inv, RowsOK, AttemptRow, Says
  <2> DEFINE next == [task[t] EXCEPT !.pc = "verify", !.attempt = a, !.dock = f,
            !.request = attempt[a].request, !.says = "auto"]
  <2>3. task[t] \in TaskState
    BY DEF Inv, TasksOK
  <2>4. next \in TaskState
    BY <2>1, <2>2, <2>3 DEF TaskState
  <2>5. task' = [task EXCEPT ![t] = next]
    BY <2>1, <2>2 DEF Inv, TasksOK, TaskState, VerifyRead
  <2>6. task' \in [Tasks -> TaskState]
    BY <2>4, <2>5 DEF Inv, TasksOK
  <2>7. Remembers(t)'
    BY <2>1, <2>2 DEF Inv, TasksOK, TaskState, Remembers, VerifyRead
  <2> QED
    BY <2>6, <2>7, OthersKeepTasks DEF Inv, TasksOK, VerifyRead
<1>3. Queue!TypeOK'
  BY SameQueue DEF Inv, VerifyRead
<1> QED
  BY <1>1, <1>2, <1>3 DEF Inv

\* A held import is filed by hand.
LEMMA FileHeldKeepsInv ==
  ASSUME Inv, NEW t \in Tasks, NEW r \in Requests, NEW a \in Attempts, FileHeld(t, r, a)
  PROVE  Inv'
<1>1. RowsOK'
  BY DEF Inv, RowsOK, rows, FileHeld
<1>2. TasksOK'
  <2>1. "file_read" \in Pcs /\ "file_read" \notin Grabbing
    BY DEF Pcs, Importing, Grabbing
  <2>2. HeldFile(r, a) \in DockFiles \cup {NoRow} /\ "held" \in Says
    BY DEF Inv, RowsOK, AttemptRow, RequestRow, HeldFile, Says
  <2> DEFINE next == [task[t] EXCEPT !.pc = "file_read", !.attempt = a, !.request = r,
            !.dock = HeldFile(r, a), !.says = "held"]
  <2>3. task[t] \in TaskState
    BY DEF Inv, TasksOK
  <2>4. next \in TaskState
    BY <2>1, <2>2, <2>3 DEF TaskState
  <2>5. task' = [task EXCEPT ![t] = next]
    BY <2>1, <2>2 DEF Inv, TasksOK, TaskState, FileHeld
  <2>6. task' \in [Tasks -> TaskState]
    BY <2>4, <2>5 DEF Inv, TasksOK
  <2>7. Remembers(t)'
    BY <2>1, <2>2 DEF Inv, TasksOK, TaskState, Remembers, FileHeld
  <2> QED
    BY <2>6, <2>7, OthersKeepTasks DEF Inv, TasksOK, FileHeld
<1>3. Queue!TypeOK'
  BY SameQueue DEF Inv, FileHeld
<1> QED
  BY <1>1, <1>2, <1>3 DEF Inv

\* A held import is discarded.
LEMMA DiscardKeepsInv ==
  ASSUME Inv, NEW t \in Tasks, NEW r \in Requests, NEW a \in Attempts, Discard(t, r, a)
  PROVE  Inv'
<1>1. RowsOK'
  BY DEF Inv, RowsOK, rows, Discard
<1>2. TasksOK'
  <2>1. "discard_request" \in Pcs /\ "discard_request" \notin Grabbing
    BY DEF Pcs, Importing, Grabbing
  <2>2. HeldFile(r, a) \in DockFiles \cup {NoRow} /\ "held" \in Says
    BY DEF Inv, RowsOK, AttemptRow, RequestRow, HeldFile, Says
  <2> DEFINE next == [task[t] EXCEPT !.pc = "discard_request", !.attempt = a, !.request = r,
            !.dock = HeldFile(r, a)]
  <2>3. task[t] \in TaskState
    BY DEF Inv, TasksOK
  <2>4. next \in TaskState
    BY <2>1, <2>2, <2>3 DEF TaskState
  <2>5. task' = [task EXCEPT ![t] = next]
    BY <2>1, <2>2 DEF Inv, TasksOK, TaskState, Discard
  <2>6. task' \in [Tasks -> TaskState]
    BY <2>4, <2>5 DEF Inv, TasksOK
  <2>7. Remembers(t)'
    BY <2>1, <2>2 DEF Inv, TasksOK, TaskState, Remembers, Discard
  <2> QED
    BY <2>6, <2>7, OthersKeepTasks DEF Inv, TasksOK, Discard
<1>3. Queue!TypeOK'
  BY SameQueue DEF Inv, Discard
<1> QED
  BY <1>1, <1>2, <1>3 DEF Inv

\* A request is cancelled.
LEMMA CancelKeepsInv ==
  ASSUME Inv, NEW t \in Tasks, NEW r \in Requests, Cancel(t, r)
  PROVE  Inv'
<1>1. RowsOK'
  BY DEF Inv, RowsOK, RequestRow, RequestStatuses, Cancel
<1>2. TasksOK'
  <2>1. "latest" \in Pcs /\ "latest" \notin Grabbing
    BY DEF Pcs, Importing, Grabbing
  <2>2. "cancel" \in Says
    BY DEF Says
  <2> DEFINE next == [task[t] EXCEPT !.pc = "latest", !.request = r, !.attempt = NoRow,
            !.says = "cancel"]
  <2>3. task[t] \in TaskState
    BY DEF Inv, TasksOK
  <2>4. next \in TaskState
    BY <2>1, <2>2, <2>3 DEF TaskState
  <2>5. task' = [task EXCEPT ![t] = next]
    BY <2>1, <2>2 DEF Inv, TasksOK, TaskState, Cancel, Begin
  <2>6. task' \in [Tasks -> TaskState]
    BY <2>4, <2>5 DEF Inv, TasksOK
  <2>7. Remembers(t)'
    BY <2>1, <2>2 DEF Inv, TasksOK, TaskState, Remembers, Cancel, Begin
  <2> QED
    BY <2>6, <2>7, OthersKeepTasks DEF Inv, TasksOK, Cancel, Begin
<1>3. Queue!TypeOK'
  BY SameQueue DEF Inv, Cancel, Begin
<1> QED
  BY <1>1, <1>2, <1>3 DEF Inv

\* Whoever marks a request fulfilled keeps the row of the dock he names.
LEMMA FulfilBegins ==
  ASSUME task \in [Tasks -> TaskState], NEW t \in Tasks, NEW r \in Requests, MarkFulfilled(t, r)
  PROVE  \E f \in DockFiles \cup {NoRow} :
           /\ f = NoRow \/ DockRow(f)
           /\ task' = [task EXCEPT ![t] = [task[t] EXCEPT !.pc = "latest", !.request = r,
                                                         !.dock = f, !.says = "fulfil"]]
           /\ task'[t].pc = "latest" /\ task'[t].request = r /\ task'[t].dock = f
           /\ task'[t].says = "fulfil" /\ task'[t].attempt = NoRow
           /\ \A u \in Tasks \ {t} : task'[u] = task[u]
<1>1. PICK f \in DockFiles \cup {NoRow} :
        /\ f = NoRow \/ DockRow(f)
        /\ task' = [task EXCEPT ![t].pc = "latest", ![t].request = r, ![t].dock = f,
                                ![t].says = "fulfil"]
  BY DEF MarkFulfilled
<1>2. task[t].attempt = NoRow
  BY DEF MarkFulfilled, Free, Idle
<1>3. task' = [task EXCEPT ![t] = [task[t] EXCEPT !.pc = "latest", !.request = r, !.dock = f,
                                                  !.says = "fulfil"]]
  BY <1>1
<1>4. task[t] \in TaskState
  OBVIOUS
<1>5. /\ task'[t] = [task[t] EXCEPT !.pc = "latest", !.request = r, !.dock = f,
                                    !.says = "fulfil"]
      /\ \A u \in Tasks \ {t} : task'[u] = task[u]
  BY <1>3
<1>6. /\ task'[t].pc = "latest" /\ task'[t].request = r /\ task'[t].dock = f
      /\ task'[t].says = "fulfil" /\ task'[t].attempt = NoRow
  BY <1>2, <1>4, <1>5 DEF TaskState
<1> QED
  BY <1>1, <1>3, <1>5, <1>6

\* A request is being marked fulfilled.
LEMMA MarkFulfilledKeepsInv ==
  ASSUME Inv, NEW t \in Tasks, NEW r \in Requests, MarkFulfilled(t, r)
  PROVE  Inv'
<1>1. RowsOK'
  BY DEF Inv, RowsOK, rows, MarkFulfilled
<1>2. TasksOK'
  <2>1. "latest" \in Pcs /\ "latest" \notin Grabbing /\ "fulfil" \in Says
    BY DEF Pcs, Importing, Grabbing, Says
  <2>2. task \in [Tasks -> TaskState]
    BY DEF Inv, TasksOK
  <2>3. PICK f \in DockFiles \cup {NoRow} :
          /\ task' = [task EXCEPT ![t] = [task[t] EXCEPT !.pc = "latest", !.request = r,
                                                        !.dock = f, !.says = "fulfil"]]
          /\ task'[t].pc = "latest"
          /\ \A u \in Tasks \ {t} : task'[u] = task[u]
    BY <2>2, FulfilBegins
  <2>4. [task[t] EXCEPT !.pc = "latest", !.request = r, !.dock = f, !.says = "fulfil"] \in TaskState
    BY <2>1, <2>2 DEF TaskState
  <2>5. task' \in [Tasks -> TaskState]
    BY <2>2, <2>3, <2>4
  <2>6. Remembers(t)'
    BY <2>1, <2>3 DEF Remembers
  <2> QED
    BY <2>3, <2>5, <2>6, OthersKeepTasks DEF Inv, TasksOK, MarkFulfilled
<1>3. Queue!TypeOK'
  BY SameQueue DEF Inv, MarkFulfilled
<1> QED
  BY <1>1, <1>2, <1>3 DEF Inv

\* A download is being stopped.
LEMMA StopDownloadKeepsInv ==
  ASSUME Inv, NEW t \in Tasks, NEW a \in Attempts, StopDownload(t, a)
  PROVE  Inv'
<1>1. RowsOK'
  BY DEF Inv, RowsOK, rows, StopDownload, Begin
<1>2. TasksOK'
  <2>1. "detach" \in Pcs /\ "detach" \notin Grabbing
    BY DEF Pcs, Importing, Grabbing
  <2>2. attempt[a].request \in Requests \cup {NoRow} /\ "stop" \in Says
    BY DEF Inv, RowsOK, AttemptRow, Says
  <2> DEFINE next == [task[t] EXCEPT !.pc = "detach", !.request = attempt[a].request,
            !.attempt = a, !.says = "stop"]
  <2>3. task[t] \in TaskState
    BY DEF Inv, TasksOK
  <2>4. next \in TaskState
    BY <2>1, <2>2, <2>3 DEF TaskState
  <2>5. task' = [task EXCEPT ![t] = next]
    BY <2>1, <2>2 DEF Inv, TasksOK, TaskState, StopDownload, Begin
  <2>6. task' \in [Tasks -> TaskState]
    BY <2>4, <2>5 DEF Inv, TasksOK
  <2>7. Remembers(t)'
    BY <2>1, <2>2 DEF Inv, TasksOK, TaskState, Remembers, StopDownload, Begin
  <2> QED
    BY <2>6, <2>7, OthersKeepTasks DEF Inv, TasksOK, StopDownload, Begin
<1>3. Queue!TypeOK'
  BY SameQueue DEF Inv, StopDownload, Begin
<1> QED
  BY <1>1, <1>2, <1>3 DEF Inv

\* A download is being removed from its client.
LEMMA RemoveFromClientKeepsInv ==
  ASSUME Inv, NEW t \in Tasks, NEW a \in Attempts, RemoveFromClient(t, a)
  PROVE  Inv'
<1>1. RowsOK'
  BY DEF Inv, RowsOK, rows, RemoveFromClient, Begin
<1>2. TasksOK'
  <2>1. "detach" \in Pcs /\ "detach" \notin Grabbing
    BY DEF Pcs, Importing, Grabbing
  <2>2. attempt[a].request \in Requests \cup {NoRow} /\ "remove" \in Says
    BY DEF Inv, RowsOK, AttemptRow, Says
  <2> DEFINE next == [task[t] EXCEPT !.pc = "detach", !.request = attempt[a].request,
            !.attempt = a, !.says = "remove"]
  <2>3. task[t] \in TaskState
    BY DEF Inv, TasksOK
  <2>4. next \in TaskState
    BY <2>1, <2>2, <2>3 DEF TaskState
  <2>5. task' = [task EXCEPT ![t] = next]
    BY <2>1, <2>2 DEF Inv, TasksOK, TaskState, RemoveFromClient, Begin
  <2>6. task' \in [Tasks -> TaskState]
    BY <2>4, <2>5 DEF Inv, TasksOK
  <2>7. Remembers(t)'
    BY <2>1, <2>2 DEF Inv, TasksOK, TaskState, Remembers, RemoveFromClient, Begin
  <2> QED
    BY <2>6, <2>7, OthersKeepTasks DEF Inv, TasksOK, RemoveFromClient, Begin
<1>3. Queue!TypeOK'
  BY SameQueue DEF Inv, RemoveFromClient, Begin
<1> QED
  BY <1>1, <1>2, <1>3 DEF Inv

-------------------------------------------------------------------------------
(***************************************************************************)
(* What happens without an activation, and the whole.                      *)
(***************************************************************************)

\* Decisions, the client, the dock's own screen, and the process going down.
LEMMA EnvironmentKeepsInv ==
  ASSUME Inv, Environment
  PROVE  Inv'
<1>1. CASE \E r \in Requests : Approve(r) \/ Reject(r)
  <2>1. RowsOK'
    BY <1>1 DEF Inv, RowsOK, RequestRow, RequestStatuses, Approve, Reject, Decide
  <2>2. TasksOK' /\ Queue!TypeOK'
    BY <1>1, SameTasks, SameQueue DEF Inv, Approve, Reject, Decide
  <2> QED
    BY <2>1, <2>2 DEF Inv
<1>2. CASE \E f \in DockFiles : DiscardDockFile(f)
  <2>1. RowsOK'
    BY <1>2, DeleteKeepsRows DEF Inv, DiscardDockFile
  <2>2. TasksOK' /\ Queue!TypeOK'
    BY <1>2, SameTasks, SameQueue DEF Inv, DiscardDockFile
  <2> QED
    BY <2>1, <2>2 DEF Inv
<1>3. CASE ClientProgress \/ ClientFailure
  <2>1. RowsOK'
    BY <1>3 DEF Inv, RowsOK, rows, ClientProgress, ClientFailure, ClientCompletes,
      ClientErrors, ClientForgets, Advance
  <2>2. TasksOK' /\ Queue!TypeOK'
    BY <1>3, SameTasks, SameQueue
    DEF Inv, ClientProgress, ClientFailure, ClientCompletes, ClientErrors, ClientForgets,
        Advance
  <2> QED
    BY <2>1, <2>2 DEF Inv
<1>4. CASE Restart
  <2>1. RowsOK'
    BY <1>4 DEF Inv, RowsOK, rows, Restart
  <2>2. Idle \in TaskState /\ Idle.pc = "idle" /\ "idle" \notin Grabbing
    BY DEF Idle, TaskState, Pcs, Says, Grabbing
  <2>3. TasksOK'
    BY <1>4, <2>2 DEF TasksOK, Remembers, Restart
  <2>4. <<>> \in Seq(Attempts)
    OBVIOUS
  <2>5. Queue!TypeOK'
    BY <1>4, <2>4 DEF Restart, Queue!Reset, Queue!TypeOK
  <2> QED
    BY <2>1, <2>3, <2>5 DEF Inv
<1>5. CASE Shutdown
  <2>1. RowsOK'
    BY <1>5 DEF Inv, RowsOK, rows, Shutdown
  <2>2. TasksOK'
    BY <1>5, SameTasks DEF Inv, Shutdown
  <2>3. Queue!TypeOK'
    BY <1>5 DEF Inv, Shutdown, Queue!Stop, Queue!TypeOK
  <2> QED
    BY <2>1, <2>2, <2>3 DEF Inv
<1>6. CASE \E r \in Requests : ReleaseSearch(r)
  <2>1. RowsOK'
    BY <1>6 DEF Inv, RowsOK, RequestRow, RequestStatuses, ReleaseSearch
  <2>2. TasksOK' /\ Queue!TypeOK'
    BY <1>6, SameTasks, SameQueue DEF Inv, ReleaseSearch
  <2> QED
    BY <2>1, <2>2 DEF Inv
<1> QED
  BY <1>1, <1>2, <1>3, <1>4, <1>5, <1>6 DEF Environment

\* However an activation begins.
LEMMA StartKeepsInv ==
  ASSUME Inv, NEW t \in Tasks, Start(t)
  PROVE  Inv'
<1>1. CASE GrabStart(t)
  BY <1>1, GrabReadKeepsInv DEF GrabStart
<1>2. CASE MonitorStart(t) \/ WatchdogStart(t)
  BY <1>2, PollReadKeepsInv, ResumeReadKeepsInv, WatchdogReadKeepsInv
  DEF MonitorStart, WatchdogStart
<1>3. CASE ImportStart(t) \/ ChoiceStart(t)
  BY <1>3, ImportBeginKeepsInv, ChooseUnitKeepsInv DEF ImportStart, ChoiceStart
<1>4. CASE VerificationStart(t) \/ RefetchStart(t)
  BY <1>4, VerifyReadKeepsInv DEF VerificationStart, RefetchStart
<1>5. CASE ForceFileStart(t) \/ DiscardStart(t)
  BY <1>5, FileHeldKeepsInv, DiscardKeepsInv DEF ForceFileStart, DiscardStart
<1>6. CASE \E r \in Requests : Cancel(t, r) \/ MarkFulfilled(t, r)
  BY <1>6, CancelKeepsInv, MarkFulfilledKeepsInv
<1>7. CASE \E a \in Attempts : StopDownload(t, a) \/ RemoveFromClient(t, a)
  BY <1>7, StopDownloadKeepsInv, RemoveFromClientKeepsInv
<1>8. CASE PassStart(t) \/ (\E r \in Requests : AbandonRead(t, r)) \/ AdoptStart(t)
  BY <1>8, PassReadKeepsInv, AbandonReadKeepsInv, AdoptReadKeepsInv DEF PassStart, AdoptStart
<1> QED
  BY <1>1, <1>2, <1>3, <1>4, <1>5, <1>6, <1>7, <1>8 DEF Start

\* Whatever step an activation takes.
LEMMA StepKeepsInv ==
  ASSUME Inv, NEW t \in Tasks, Step(t)
  PROVE  Inv'
<1> QED
  BY GrabStepKeepsInv, AutomationStepKeepsInv, AdoptKeepsInv, OutcomeKeepsInv,
     MonitorStepKeepsInv, ImportStepKeepsInv, VerificationStepKeepsInv, RemovalStepKeepsInv
  DEF Step

\* The program starts with rows of the right shape and nothing remembered.
LEMMA InitInv == Init => Inv
<1> SUFFICES ASSUME Init PROVE Inv
  OBVIOUS
<1>1. RowsOK
  BY DEF Init, RowsOK, RequestRow, RequestStatuses, AttemptRow, AttemptStatuses, AbsentAttempt,
         DockRows, FreeDockFile
<1>2. Idle \in TaskState /\ Idle.pc = "idle" /\ "idle" \notin Grabbing
  BY DEF Idle, TaskState, Pcs, Says, Grabbing
<1>3. TasksOK
  BY <1>2 DEF Init, TasksOK, Remembers
<1>4. <<>> \in Seq(Attempts)
  OBVIOUS
<1>5. Queue!TypeOK
  BY <1>4 DEF Init, Queue!Init, Queue!TypeOK
<1> QED
  BY <1>1, <1>3, <1>5 DEF Inv

\* The invariant is inductive.
LEMMA NextKeepsInv == Inv /\ [Next]_vars => Inv'
<1> SUFFICES ASSUME Inv, [Next]_vars PROVE Inv'
  OBVIOUS
<1>1. CASE \E t \in Tasks : Start(t)
  BY <1>1, StartKeepsInv
<1>2. CASE \E t \in Tasks : Step(t)
  BY <1>2, StepKeepsInv
<1>3. CASE Environment
  BY <1>3, EnvironmentKeepsInv
<1>4. CASE UNCHANGED vars
  BY <1>4, SameTasks DEF Inv, vars, RowsOK, Queue!TypeOK
<1> QED
  BY <1>1, <1>2, <1>3, <1>4 DEF Next

\* Rows, activations and queue have their shapes, and what an activation remembers is
\* what its next write relies on.
THEOREM InvHolds == Spec => []Inv
<1> QED
  BY InitInv, NextKeepsInv, PTL DEF Spec

\* Every row and every activation keeps the shape the code gives it, whatever the
\* interleaving of the services, of crashes and of the download client.
THEOREM TypeCorrect == Spec => []TypeOK
<1>1. Inv => TypeOK
  BY DEF Inv, TypeOK, TasksOK
<1> QED
  BY <1>1, InvHolds, PTL

-------------------------------------------------------------------------------
(***************************************************************************)
(* The pipeline implements RequestLifecycle, and what follows for it from  *)
(* the lifecycle's own theorems.  Each of the first lemmas shows that the  *)
(* steps of one service are moves of the lifecycle or leave every status   *)
(* alone; type correctness supplies the status a grab puts back and the    *)
(* rows the writes start from.  Then what the lifecycle does not say: that *)
(* settled attempts are not revived, and that a request has one transfer   *)
(* at a time, which says so.                                               *)
(***************************************************************************)

\* The status of every request, which is all the lifecycle sees.
Statuses == [r \in Requests |-> request[r].status]
LifecycleStep == [Lifecycle!Next]_Statuses

-------------------------------------------------------------------------------
(***************************************************************************)
(* A write of one request's status.                                        *)
(***************************************************************************)

\* The writes the lifecycle has a move for.
Allowed(s, to) ==
  \/ s = "pending" /\ to \in {"approved", "rejected"}
  \/ s \in Grabbable /\ to \in {"searching", "approved", "grabbed", "downloading"}
  \/ s = "grabbed" /\ to \in Grabbable
  \/ s \in ActiveTransfer /\ to \in {"downloading", "approved"}
  \/ s \in WorkerWritable /\ to \in {"cancelled", "importing", "needs_review", "failed",
    "available"}

\* A request that had failed comes back to life only with its work free.
Claimed(r, to) == request[r].status = "failed" /\ to \in ActiveRequest => KeyFree(r)

Writes(r, to) ==
  /\ request'[r].status = to
  /\ \A q \in Requests \ {r} : request'[q].status = request[q].status

\* No status is written.
LEMMA NoMove ==
  ASSUME \A r \in Requests : request'[r].status = request[r].status
  PROVE  LifecycleStep
  BY DEF LifecycleStep, Statuses

\* The status sets the lifecycle is written with are those of the pipeline.
LEMMA SameSets ==
  /\ Lifecycle!ActiveRequest = ActiveRequest
  /\ Lifecycle!WorkerWritable = WorkerWritable
  /\ Lifecycle!Grabbable = Grabbable
  /\ Lifecycle!ActiveTransfer = ActiveTransfer
  BY DEF Lifecycle!ActiveRequest, ActiveRequest, Lifecycle!WorkerWritable, WorkerWritable,
         Lifecycle!Grabbable, Grabbable, Lifecycle!ActiveTransfer, ActiveTransfer

\* A write of one status is a Move, if the work is free where it must be.
LEMMA OneMove ==
  ASSUME NEW r \in Requests, NEW from, NEW to,
         request[r].status \in from, Claimed(r, to), Writes(r, to)
  PROVE  Lifecycle!Move(r, from, to)
<1>1. to \in Lifecycle!ActiveRequest /\ request[r].status = "failed" => Lifecycle!KeyFree(r)
  BY SameSets DEF Claimed, Lifecycle!KeyFree, KeyFree
<1>2. [q \in Requests |-> request'[q].status] =
        [[q \in Requests |-> request[q].status] EXCEPT ![r] = to]
  BY DEF Writes
<1> QED
  BY <1>1, <1>2 DEF Lifecycle!Move

\* One status is written, and the lifecycle allows it.
LEMMA AllowedWrite ==
  ASSUME NEW r \in Requests, NEW to, Allowed(request[r].status, to), Claimed(r, to), Writes(r, to)
  PROVE  LifecycleStep
<1>1. CASE request[r].status = "pending" /\ to \in {"approved", "rejected"}
  <2>1. Lifecycle!Move(r, {"pending"}, to)
    BY <1>1, OneMove
  <2>2. Lifecycle!Approve(r) \/ Lifecycle!Reject(r)
    BY <1>1, <2>1 DEF Lifecycle!Approve, Lifecycle!Reject
  <2> QED
    BY <2>2 DEF LifecycleStep, Lifecycle!Next
<1>2. CASE request[r].status \in Grabbable
           /\ to \in {"searching", "approved", "grabbed", "downloading"}
  <2>1. Lifecycle!Move(r, Grabbable, to)
    BY <1>2, OneMove
  <2>2. Lifecycle!Search(r) \/ Lifecycle!HandBack(r) \/ Lifecycle!Claim(r) \/ Lifecycle!Adopt(r)
    BY <1>2, <2>1, SameSets
    DEF Lifecycle!Search, Lifecycle!HandBack, Lifecycle!Claim, Lifecycle!Adopt
  <2> QED
    BY <2>2 DEF LifecycleStep, Lifecycle!Next
<1>3. CASE request[r].status = "grabbed" /\ to \in Grabbable
  <2>1. Lifecycle!Move(r, {"grabbed"}, to)
    BY <1>3, OneMove
  <2>2. Lifecycle!GiveBack(r)
    BY <1>3, <2>1, SameSets DEF Lifecycle!GiveBack
  <2> QED
    BY <2>2 DEF LifecycleStep, Lifecycle!Next
<1>4. CASE request[r].status \in ActiveTransfer /\ to \in {"downloading", "approved"}
  <2>1. Lifecycle!Move(r, ActiveTransfer, to)
    BY <1>4, OneMove
  <2>2. Lifecycle!Begin(r) \/ Lifecycle!StopTransfer(r)
    BY <1>4, <2>1, SameSets DEF Lifecycle!Begin, Lifecycle!StopTransfer
  <2> QED
    BY <2>2 DEF LifecycleStep, Lifecycle!Next
<1>5. CASE request[r].status \in WorkerWritable
           /\ to \in {"cancelled", "importing", "needs_review", "failed", "available"}
  <2>1. Lifecycle!Move(r, WorkerWritable, to)
    BY <1>5, OneMove
  <2>2. \/ Lifecycle!Cancel(r) \/ Lifecycle!Import(r) \/ Lifecycle!Hold(r)
        \/ Lifecycle!Fail(r) \/ Lifecycle!Fulfil(r)
    BY <1>5, <2>1, SameSets
    DEF Lifecycle!Cancel, Lifecycle!Import, Lifecycle!Hold, Lifecycle!Fail, Lifecycle!Fulfil
  <2> QED
    BY <2>2 DEF LifecycleStep, Lifecycle!Next
<1> QED
  BY <1>1, <1>2, <1>3, <1>4, <1>5 DEF Allowed

\* updateIf, on a row that may not exist, under a condition that may not hold.
LEMMA AllowedUpdate ==
  ASSUME RowsOK, NEW r, NEW from, NEW to, UpdateRequestIf(r, from, to),
         \A s \in from : Allowed(s, to),
         request[r].status \in from => Claimed(r, to)
  PROVE  LifecycleStep
<1>1. CASE r \in Requests /\ request[r].status \in from
  <2>1. Writes(r, to)
    BY <1>1 DEF RowsOK, RequestRow, UpdateRequestIf, Writes
  <2> QED
    BY <1>1, <2>1, AllowedWrite
<1>2. CASE ~(r \in Requests /\ request[r].status \in from)
  <2>1. \A q \in Requests : request'[q].status = request[q].status
    BY <1>2 DEF RowsOK, RequestRow, UpdateRequestIf
  <2> QED
    BY <2>1, NoMove
<1> QED
  BY <1>1, <1>2

\* Deleting a dock row unlinks requests and leaves their statuses.
LEMMA DeleteIsNoMove ==
  ASSUME RowsOK, NEW f, NEW state, DeleteDockRow(f, state)
  PROVE  LifecycleStep
<1>1. \A r \in Requests : request'[r].status = request[r].status
  BY DEF RowsOK, RequestRow, DeleteDockRow, Unlink
<1> QED
  BY <1>1, NoMove

-------------------------------------------------------------------------------
(***************************************************************************)
(* The steps of each service.                                              *)
(***************************************************************************)

\* A grab claims a request and gives the claim back.
LEMMA GrabMoves ==
  ASSUME Inv, NEW t \in Tasks, GrabStep(t) \/ GrabAddLost(t)
  PROVE  LifecycleStep
<1>1. RowsOK
  BY DEF Inv
<1>2. CASE GrabClaim(t)
  <2>1. CASE request' = request
    BY <2>1, NoMove
  <2>2. CASE request[task[t].request].status \in Grabbable /\ KeyFree(task[t].request)
             /\ request' = [request EXCEPT ![task[t].request].status = "grabbed"]
    <3>1. UpdateRequestIf(task[t].request, Grabbable, "grabbed")
      BY <2>2 DEF UpdateRequestIf
    <3>2. \A s \in Grabbable : Allowed(s, "grabbed")
      BY DEF Allowed
    <3> QED
      BY <1>1, <2>2, <3>1, <3>2, AllowedUpdate DEF Claimed
  <2> QED
    BY <1>2, <2>1, <2>2 DEF GrabClaim
<1>3. CASE GrabRollback(t)
  <2>1. task[t].was \in Grabbable
    BY <1>3 DEF Inv, TasksOK, Remembers, GrabRollback, At, Grabbing
  <2>2. UpdateRequestIf(task[t].request, {"grabbed"}, task[t].was)
    BY <1>3 DEF GrabRollback
  <2>3. \A s \in {"grabbed"} : Allowed(s, task[t].was)
    BY <2>1 DEF Allowed
  <2> QED
    BY <1>1, <2>2, <2>3, AllowedUpdate DEF Claimed
<1>4. CASE GrabConfirm(t)
  <2>1. \A q \in Requests : request'[q].status = request[q].status
    BY <1>1, <1>4 DEF RowsOK, RequestRow, GrabConfirm, UpdateRequestIf
  <2> QED
    BY <2>1, NoMove
<1>5. CASE GrabResolve(t) \/ GrabRefused(t) \/ (\E h \in Releases : GrabCreate(t,
           h)) \/ GrabAdd(t)
           \/ GrabAddLost(t) \/ GrabAddRefused(t) \/ GrabFailed(t)
  BY <1>5, NoMove DEF rows, GrabResolve, GrabRefused, GrabCreate, GrabAdd, GrabAddLost,
                     GrabAddRefused, GrabFailed
<1> QED
  BY <1>2, <1>3, <1>4, <1>5 DEF GrabStep

\* A pass claims a request, hands it back or fails it, on its own claim only.
LEMMA HandBackMoves ==
  ASSUME Inv, NEW t \in Tasks, NEW from \in SUBSET Grabbable, HandBack(t, from)
  PROVE  LifecycleStep
<1> DEFINE r == task[t].request
           to == IF task[t].says = "retry" THEN "failed" ELSE "approved"
           throws == request[r].status = "failed" /\ to # "failed" /\ ~KeyFree(r)
<1>1. CASE request' = request
  BY <1>1, NoMove
<1>2. CASE UpdateRequestIf(r, from, to) /\ ~throws
  <2>1. \A s \in from : Allowed(s, to)
    BY DEF Allowed, Grabbable, WorkerWritable, ActiveRequest
  <2>2. Claimed(r, to)
    BY <1>2 DEF Claimed, ActiveRequest
  <2> QED
    BY <1>2, <2>1, <2>2, AllowedUpdate DEF Inv
<1> QED
  BY <1>1, <1>2 DEF HandBack

\* So does every step of a pass, and the sweep for abandoned requests cancels.
LEMMA AutomationMoves ==
  ASSUME Inv, NEW t \in Tasks, AutomationStep(t)
  PROVE  LifecycleStep
<1> DEFINE r == task[t].request
<1>1. RowsOK
  BY DEF Inv
<1>2. CASE PassClaim(t)
  <2>1. CASE request' = request
    BY <2>1, NoMove
  <2>2. CASE /\ request[r].status = task[t].was
             /\ task[t].was = "failed" => KeyFree(r)
             /\ request' = [request EXCEPT ![r].status = "searching"]
    <3>1. task[t].was \in Grabbable
      BY <1>2 DEF Inv, TasksOK, Remembers, PassClaim, At
    <3>2. UpdateRequestIf(r, Grabbable, "searching")
      BY <2>2, <3>1 DEF UpdateRequestIf
    <3>3. \A s \in Grabbable : Allowed(s, "searching")
      BY DEF Allowed
    <3> QED
      BY <1>1, <2>2, <3>2, <3>3, AllowedUpdate DEF Claimed
  <2> QED
    BY <1>2, <2>1, <2>2 DEF PassClaim
<1>3. CASE PassDeclines(t)
  <2>1. CASE HandBack(t, {task[t].was})
    <3>1. task[t].was \in Grabbable
      BY <1>3 DEF Inv, TasksOK, Remembers, PassDeclines, At
    <3> QED
      BY <2>1, <3>1, HandBackMoves
  <2> QED
    BY <1>3, <2>1, NoMove DEF PassDeclines
<1>4. CASE SearchFindsNothing(t)
  BY <1>4, HandBackMoves DEF SearchFindsNothing, Grabbable
<1>5. CASE SearchFinds(t) \/ PassGrabs(t)
  BY <1>5, NoMove DEF rows, SearchFinds, PassGrabs
<1>6. CASE PassFails(t)
  <2>1. UpdateRequestIf(r, {"searching"}, "failed")
    BY <1>6 DEF PassFails
  <2>2. \A s \in {"searching"} : Allowed(s, "failed")
    BY DEF Allowed, WorkerWritable, ActiveRequest
  <2>3. Claimed(r, "failed")
    BY DEF Claimed, ActiveRequest
  <2> QED
    BY <1>1, <2>1, <2>2, <2>3, AllowedUpdate
<1>7. CASE Abandon(t)
  <2>1. UpdateRequestIf(r, Abandonable, "cancelled")
    BY <1>7 DEF Abandon
  <2>2. \A s \in Abandonable : Allowed(s, "cancelled")
    BY DEF Allowed, Abandonable, WorkerWritable, ActiveRequest
  <2>3. Claimed(r, "cancelled")
    BY DEF Claimed, ActiveRequest
  <2> QED
    BY <1>1, <2>1, <2>2, <2>3, AllowedUpdate
<1> QED
  BY <1>2, <1>3, <1>4, <1>5, <1>6, <1>7 DEF AutomationStep

\* An adoption brings a request back to its transfer, its work still being free.
LEMMA AdoptMoves ==
  ASSUME Inv, NEW t \in Tasks, Adopt(t)
  PROVE  LifecycleStep
<1> DEFINE r == attempt[task[t].attempt].request
           to == IF task[t].says = "queued" THEN "grabbed" ELSE "downloading"
<1>1. CASE request' = request
  BY <1>1, NoMove
<1>2. CASE /\ request[r].status \in Grabbable
           /\ KeyFree(r)
           /\ request' = [request EXCEPT ![r].status = to]
  <2>1. UpdateRequestIf(r, Grabbable, to)
    BY <1>2 DEF UpdateRequestIf
  <2>2. \A s \in Grabbable : Allowed(s, to)
    BY DEF Allowed
  <2> QED
    BY <1>2, <2>1, <2>2, AllowedUpdate DEF Inv, Claimed
<1> QED
  BY <1>1, <1>2 DEF Adopt

\* A download fails its request, or holds it, unless a decision came first.
LEMMA OutcomeMoves ==
  ASSUME Inv, NEW t \in Tasks,
    FailAttempt(t) \/ FailRequest(t) \/ HoldAttempt(t) \/ HoldRequest(t)
  PROVE  LifecycleStep
<1>1. RowsOK
  BY DEF Inv
<1>2. CASE FailAttempt(t) \/ HoldAttempt(t)
  BY <1>2, NoMove DEF FailAttempt, HoldAttempt
<1>3. CASE FailRequest(t)
  <2>1. \A s \in WorkerWritable : Allowed(s, "failed")
    BY DEF Allowed, ActiveRequest
  <2>2. UpdateRequestIf(attempt[task[t].attempt].request, WorkerWritable, "failed")
    BY <1>3 DEF FailRequest
  <2>3. request[attempt[task[t].attempt].request].status \in WorkerWritable
        => Claimed(attempt[task[t].attempt].request, "failed")
    BY DEF Allowed, ActiveRequest, Claimed
  <2> QED
    BY <1>1, <2>1, <2>2, <2>3, AllowedUpdate
<1>4. CASE HoldRequest(t)
  <2>1. CASE request' = request
    BY <2>1, NoMove
  <2>2. CASE UpdateRequestIf(attempt[task[t].attempt].request, WorkerWritable, "needs_review")
             /\ ~(request[attempt[task[t].attempt].request].status = "failed"
                  /\ ~KeyFree(attempt[task[t].attempt].request))
    <3>1. \A s \in WorkerWritable : Allowed(s, "needs_review")
      BY DEF Allowed
    <3> QED
      BY <1>1, <2>2, <3>1, AllowedUpdate DEF Claimed
  <2> QED
    BY <1>4, <2>1, <2>2 DEF HoldRequest
<1> QED
  BY <1>2, <1>3, <1>4

\* A poll marks a request as downloading.
LEMMA MonitorMoves ==
  ASSUME Inv, NEW t \in Tasks, MonitorStep(t)
  PROVE  LifecycleStep
<1>1. RowsOK
  BY DEF Inv
<1>2. CASE PollApply(t) \/ ResumeEnqueue(t)
  BY <1>2, NoMove DEF rows, PollApply, ResumeEnqueue
<1>3. CASE PollRequest(t)
  <2>1. \A s \in ActiveTransfer : Allowed(s, "downloading")
    BY DEF Allowed, ActiveTransfer
  <2>2. UpdateRequestIf(attempt[task[t].attempt].request, ActiveTransfer, "downloading")
    BY <1>3 DEF PollRequest
  <2>3. request[attempt[task[t].attempt].request].status \in ActiveTransfer
        => Claimed(attempt[task[t].attempt].request, "downloading")
    BY DEF Allowed, ActiveTransfer, Claimed
  <2> QED
    BY <1>1, <2>1, <2>2, <2>3, AllowedUpdate
<1> QED
  BY <1>2, <1>3 DEF MonitorStep

\* An import takes its request, unless a decision came first.
LEMMA ImportMoves ==
  ASSUME Inv, NEW t \in Tasks, ImportStep(t) \/ ImportPlaceCollides(t)
  PROVE  LifecycleStep
<1>1. RowsOK
  BY DEF Inv
<1>2. CASE ImportDone(t) \/ ChooseClaim(t) \/ ImportError(t)
           \/ (\E why \in {"choice", "truncated"} : ImportHold(t, why)) \/ ImportClaimDock(t)
           \/ ImportRefused(t) \/ ImportRecord(t) \/ ImportPlace(t) \/ ImportReclaimDock(t)
           \/ ImportRerecord(t)
  BY <1>2, NoMove
  DEF rows, ImportDone, ChooseClaim, ImportError, ImportHold, ImportClaimDock, ImportRefused,
      ImportRecord, ImportPlace, ImportReclaimDock, ImportRerecord, ClaimDestination
<1>3. CASE ImportUndo(t) \/ ImportPlaceThrows(t) \/ ImportPlaceCollides(t)
  BY <1>1, <1>3, DeleteIsNoMove DEF ImportUndo, ImportPlaceThrows, ImportPlaceCollides,
    ImportPlaceFails
<1>4. CASE ImportClaim(t)
  <2> DEFINE r == attempt[task[t].attempt].request
  <2>1. CASE request' = request
    BY <2>1, NoMove
  <2>2. CASE /\ request[r].status \in WorkerWritable
             /\ ~(request[r].status = "failed" /\ ~KeyFree(r))
             /\ request' = [request EXCEPT ![r].status = "importing", ![r].dock = task[t].dock]
    <3>1. r \in Requests => Writes(r, "importing")
      BY <1>1, <2>2 DEF RowsOK, RequestRow, Writes
    <3>2. Allowed(request[r].status, "importing") /\ Claimed(r, "importing")
      BY <2>2 DEF Allowed, Claimed
    <3>3. r \notin Requests => request' = request
      BY <1>1, <2>2 DEF RowsOK
    <3> QED
      BY <3>1, <3>2, <3>3, AllowedWrite, NoMove
  <2> QED
    BY <1>4, <2>1, <2>2 DEF ImportClaim
<1>5. CASE ImportReclaim(t)
  <2>1. \A q \in Requests : request'[q].status = request[q].status
    BY <1>1, <1>5 DEF RowsOK, RequestRow, ImportReclaim
  <2> QED
    BY <2>1, NoMove
<1> QED
  BY <1>2, <1>3, <1>4, <1>5 DEF ImportStep

\* A filing makes its request available; a discard fails it, and may be undone.
LEMMA VerificationMoves ==
  ASSUME Inv, NEW t \in Tasks, VerificationStep(t)
  PROVE  LifecycleStep
<1>1. RowsOK
  BY DEF Inv
<1>2. CASE VerifyPasses(t) \/ VerifyHolds(t) \/ VerifyFindsNoRow(t) \/ FileRead(t)
           \/ FileMoveFails(t)
           \/ FileAttempt(t) \/ DiscardAttempt(t) \/ DiscardDockFails(t) \/ DiscardUndoAttempt(t)
  BY <1>2, NoMove
  DEF rows, VerifyPasses, VerifyHolds, VerifyFindsNoRow, FileRead, FileMoveFails, FileAttempt,
      DiscardAttempt, DiscardDockFails, DiscardUndoAttempt
<1>3. CASE FileMove(t) \/ DiscardDock(t)
  BY <1>1, <1>3, DeleteIsNoMove DEF FileMove, DiscardDock
<1>4. CASE FileRequest(t)
  <2> DEFINE r == task[t].request
  <2>1. CASE request' = request
    BY <2>1, NoMove
  <2>2. CASE request[r].status \in FileableFrom
             /\ request' = [request EXCEPT ![r].status = "available", ![r].dock = NoRow]
    <3>1. r \in Requests => Writes(r, "available")
      BY <1>1, <2>2 DEF RowsOK, RequestRow, Writes
    <3>2. Allowed(request[r].status, "available") /\ Claimed(r, "available")
      BY <2>2 DEF Allowed, Claimed, FileableFrom, WorkerWritable, ActiveRequest
    <3>3. r \notin Requests => request' = request
      BY <1>1, <2>2 DEF RowsOK
    <3> QED
      BY <3>1, <3>2, <3>3, AllowedWrite, NoMove
  <2> QED
    BY <1>4, <2>1, <2>2 DEF FileRequest
<1>5. CASE DiscardRequest(t)
  <2> DEFINE r == task[t].request
  <2>1. CASE request' = request
    BY <2>1, NoMove
  <2>2. CASE request[r].status = "needs_review"
             /\ request' = [request EXCEPT ![r].status = "failed"]
    <3>1. r \in Requests => Writes(r, "failed")
      BY <1>1, <2>2 DEF RowsOK, RequestRow, Writes
    <3>2. Allowed(request[r].status, "failed") /\ Claimed(r, "failed")
      BY <2>2 DEF Allowed, Claimed, WorkerWritable, ActiveRequest
    <3>3. r \notin Requests => request' = request
      BY <1>1, <2>2 DEF RowsOK
    <3> QED
      BY <3>1, <3>2, <3>3, AllowedWrite, NoMove
  <2> QED
    BY <1>5, <2>1, <2>2 DEF DiscardRequest
<1>6. CASE DiscardUndoRequest(t)
  <2> DEFINE r == task[t].request
  <2>1. CASE request' = request
    BY <2>1, NoMove
  <2>2. CASE request[r].status = "failed" /\ KeyFree(r)
             /\ request' = [request EXCEPT ![r].status = "needs_review"]
    <3>1. r \in Requests => Writes(r, "needs_review")
      BY <1>1, <2>2 DEF RowsOK, RequestRow, Writes
    <3>2. Allowed(request[r].status, "needs_review") /\ Claimed(r, "needs_review")
      BY <2>2 DEF Allowed, Claimed, WorkerWritable
    <3>3. r \notin Requests => request' = request
      BY <1>1, <2>2 DEF RowsOK
    <3> QED
      BY <3>1, <3>2, <3>3, AllowedWrite, NoMove
  <2> QED
    BY <1>6, <2>1, <2>2 DEF DiscardUndoRequest
<1> QED
  BY <1>2, <1>3, <1>4, <1>5, <1>6 DEF VerificationStep

\* A stopped or removed download reopens or fails its request.
LEMMA RemovalMoves ==
  ASSUME Inv, NEW t \in Tasks, RemovalStep(t) \/ SettleRefused(t)
  PROVE  LifecycleStep
<1>1. RowsOK
  BY DEF Inv
<1>2. CASE Latest(t) \/ Detach(t) \/ DetachRefused(t) \/ FailInFlight(t)
           \/ FailInFlightForRequest(t) \/ SettleRefused(t)
  BY <1>2, NoMove DEF rows, Latest, Detach, DetachRefused, FailInFlight, FailInFlightForRequest,
                      SettleRefused
<1>3. CASE SettleStopped(t)
  <2>1. \A s \in ActiveTransfer : Allowed(s, "approved")
    BY DEF Allowed, ActiveTransfer
  <2>2. UpdateRequestIf(task[t].request, ActiveTransfer, "approved")
    BY <1>3 DEF SettleStopped, Settle
  <2>3. request[task[t].request].status \in ActiveTransfer => Claimed(task[t].request, "approved")
    BY DEF Allowed, ActiveTransfer, Claimed
  <2> QED
    BY <1>1, <2>1, <2>2, <2>3, AllowedUpdate
<1>4. CASE SettleRemoved(t)
  <2>1. \A s \in WorkerWritable : Allowed(s, "failed")
    BY DEF Allowed, ActiveRequest
  <2>2. UpdateRequestIf(task[t].request, WorkerWritable, "failed")
    BY <1>4 DEF SettleRemoved, Settle
  <2>3. request[task[t].request].status \in WorkerWritable => Claimed(task[t].request, "failed")
    BY DEF Allowed, ActiveRequest, Claimed
  <2> QED
    BY <1>1, <2>1, <2>2, <2>3, AllowedUpdate
<1>5. CASE SettleFulfilled(t)
  <2> DEFINE r == task[t].request
  <2>1. CASE request' = request
    BY <2>1, NoMove
  <2>2. CASE request[r].status \in Fulfillable
             /\ request' = [request EXCEPT ![r].status = "available", ![r].dock = task[t].dock]
    <3>1. r \in Requests => Writes(r, "available")
      BY <1>1, <2>2 DEF RowsOK, RequestRow, Writes
    <3>2. Allowed(request[r].status, "available") /\ Claimed(r, "available")
      BY <2>2 DEF Allowed, Claimed, Fulfillable, ActiveRequest
    <3>3. r \notin Requests => request' = request
      BY <1>1, <2>2 DEF RowsOK
    <3> QED
      BY <3>1, <3>2, <3>3, AllowedWrite, NoMove
  <2> QED
    BY <1>5, <2>1, <2>2 DEF SettleFulfilled
<1> QED
  BY <1>2, <1>3, <1>4, <1>5 DEF RemovalStep

-------------------------------------------------------------------------------
(***************************************************************************)
(* What begins an activation, what needs none, and the whole.              *)
(***************************************************************************)

\* Nothing but a cancellation writes a status as it begins.
LEMMA StartMoves ==
  ASSUME Inv, NEW t \in Tasks, Start(t)
  PROVE  LifecycleStep
<1>1. RowsOK
  BY DEF Inv
<1>2. CASE UNCHANGED rows
  BY <1>2, NoMove DEF rows
<1>3. ASSUME NEW r \in Requests, Cancel(t, r)
      PROVE  LifecycleStep
  <2>1. Writes(r, "cancelled")
    BY <1>1, <1>3 DEF RowsOK, RequestRow, Writes, Cancel
  <2>2. Allowed(request[r].status, "cancelled") /\ Claimed(r, "cancelled")
    BY <1>3 DEF Cancel, Cancellable, Allowed, Claimed, ActiveRequest
  <2> QED
    BY <2>1, <2>2, AllowedWrite
<1>4. CASE GrabStart(t) \/ MonitorStart(t) \/ WatchdogStart(t) \/ ImportStart(t) \/ ChoiceStart(t)
  BY <1>2, <1>4 DEF GrabStart, MonitorStart, WatchdogStart, ImportStart, ChoiceStart, GrabRead,
                    PollRead, ResumeRead, WatchdogRead, ImportBegin, ChooseUnit
<1>5. CASE VerificationStart(t) \/ RefetchStart(t) \/ ForceFileStart(t) \/ DiscardStart(t)
  BY <1>2, <1>5 DEF VerificationStart, RefetchStart, ForceFileStart, DiscardStart, VerifyRead,
                    FileHeld, Discard
<1>6. CASE \/ \E r \in Requests : MarkFulfilled(t, r)
           \/ \E a \in Attempts : StopDownload(t, a) \/ RemoveFromClient(t, a)
  BY <1>2, <1>6 DEF MarkFulfilled, StopDownload, RemoveFromClient
<1>7. CASE PassStart(t) \/ (\E r \in Requests : AbandonRead(t, r)) \/ AdoptStart(t)
  BY <1>2, <1>7 DEF PassStart, PassRead, AbandonRead, AdoptStart, AdoptRead
<1> QED
  BY <1>3, <1>4, <1>5, <1>6, <1>7 DEF Start

\* An approver decides; the client, the dock's own screen and a restart decide nothing.
LEMMA EnvironmentMoves ==
  ASSUME Inv, Environment
  PROVE  LifecycleStep
<1>1. RowsOK
  BY DEF Inv
<1>2. ASSUME NEW r \in Requests, Approve(r) \/ Reject(r)
      PROVE  LifecycleStep
  <2>1. PICK to \in {"approved", "rejected"} : Decide(r, {"pending"}, to)
    BY <1>2 DEF Approve, Reject
  <2>2. Writes(r, to)
    BY <1>1, <2>1 DEF RowsOK, RequestRow, Writes, Decide
  <2>3. Allowed(request[r].status, to) /\ Claimed(r, to)
    BY <2>1 DEF Decide, Allowed, Claimed
  <2> QED
    BY <2>2, <2>3, AllowedWrite
<1>3. CASE \E f \in DockFiles : DiscardDockFile(f)
  BY <1>1, <1>3, DeleteIsNoMove DEF DiscardDockFile
<1>4. CASE ClientProgress \/ ClientFailure \/ Restart \/ Shutdown
  BY <1>4, NoMove
  DEF rows, ClientProgress, ClientFailure, ClientCompletes, ClientErrors, ClientForgets, Advance,
      Restart, Shutdown
<1>5. ASSUME NEW r \in Requests, ReleaseSearch(r)
      PROVE  LifecycleStep
  <2>1. Writes(r, "approved")
    BY <1>1, <1>5 DEF RowsOK, RequestRow, Writes, ReleaseSearch
  <2>2. Allowed(request[r].status, "approved") /\ Claimed(r, "approved")
    BY <1>5 DEF ReleaseSearch, Allowed, Claimed, Grabbable
  <2> QED
    BY <2>1, <2>2, AllowedWrite
<1> QED
  BY <1>2, <1>3, <1>4, <1>5 DEF Environment

\* Every step of the pipeline is a move of the lifecycle, or none.
LEMMA NextMoves == Inv /\ [Next]_vars => LifecycleStep
<1> SUFFICES ASSUME Inv, [Next]_vars PROVE LifecycleStep
  OBVIOUS
<1>1. CASE \E t \in Tasks : Start(t)
  BY <1>1, StartMoves
<1>2. CASE \E t \in Tasks : Step(t)
  BY <1>2, GrabMoves, AutomationMoves, AdoptMoves, OutcomeMoves, MonitorMoves, ImportMoves,
     VerificationMoves, RemovalMoves
  DEF Step
<1>3. CASE Environment
  BY <1>3, EnvironmentMoves
<1>4. CASE UNCHANGED vars
  BY <1>4, NoMove DEF vars
<1> QED
  BY <1>1, <1>2, <1>3, <1>4 DEF Next

\* The pipeline starts where the lifecycle does.
LEMMA InitMoves == Init => Lifecycle!Init
<1> SUFFICES ASSUME Init PROVE Lifecycle!Init
  OBVIOUS
<1>1. Statuses \in [Requests -> {"pending", "approved", "failed"}]
  BY DEF Init, Statuses
<1>2. \A r \in Requests : Statuses[r] # "failed" => Lifecycle!KeyFree(r)
  BY SameSets DEF Init, Statuses, KeyFree, Lifecycle!KeyFree
<1> QED
  BY <1>1, <1>2 DEF Lifecycle!Init, Statuses

\* Every behaviour of the pipeline is, in the statuses of its requests, a behaviour of
\* RequestLifecycle: the services, the sweeps, people and crashes make no other moves.
THEOREM PipelineImplementsLifecycle == Spec => ImplementsLifecycle
<1> QED
  BY InitMoves, NextMoves, InvHolds, PTL
  DEF Spec, ImplementsLifecycle, Lifecycle!Spec, LifecycleStep, Statuses

-------------------------------------------------------------------------------
(***************************************************************************)
(* What the lifecycle's theorems say of the pipeline.                      *)
(***************************************************************************)

\* Two requests for one work are never live together, for any requests and works.
THEOREM OneClaimPerWorkHolds == Spec => []OneClaimPerWork
<1>1. Lifecycle!OneClaim => OneClaimPerWork
  BY SameSets DEF Lifecycle!OneClaim, OneClaimPerWork
<1> QED
  BY <1>1, PipelineImplementsLifecycle, Lifecycle!OneClaimHolds, PTL DEF ImplementsLifecycle

\* What was cancelled, rejected or made available stays so.
THEOREM DecisionsStandHolds == Spec => DecisionsStand
<1>1. [\A r \in Requests : Statuses[r] \in Lifecycle!Decided => Statuses'[r] = Statuses[r]]_Statuses
        => [\A r \in Requests :
              request[r].status \in Decided => request'[r].status = request[r].status]_vars
  <2> SUFFICES ASSUME [\A r \in Requests :
                          Statuses[r] \in Lifecycle!Decided => Statuses'[r] = Statuses[r]]_Statuses,
                      NEW q \in Requests, request[q].status \in Decided
               PROVE  request'[q].status = request[q].status
    OBVIOUS
  <2>1. Statuses[q] = request[q].status /\ Statuses'[q] = request'[q].status
    BY DEF Statuses
  <2>2. Statuses[q] \in Lifecycle!Decided
    BY <2>1 DEF Lifecycle!Decided, Decided
  <2> QED
    BY <2>1, <2>2
<1> QED
  BY <1>1, PipelineImplementsLifecycle, Lifecycle!DecisionsAreFinalHolds, PTL
  DEF Lifecycle!DecisionsAreFinal, DecisionsStand, ImplementsLifecycle, Statuses

-------------------------------------------------------------------------------
(***************************************************************************)
(* Settled attempts.  Of the writes that make an attempt one that is       *)
(* polled or offered to the queue, a grab's is to a new row, and a poll's  *)
(* is conditional; only an adoption's is to a failed one.                  *)
(***************************************************************************)
Awake == ActiveAttempt \cup {"completed"}

NothingRevived ==
  \A a \in Attempts :
    attempt[a].status \in {"failed", "imported"} => attempt'[a].status \notin Awake

NobodyAdopts == \A t \in Tasks : task[t].pc # "adopt"

\* The attempts are left alone,
LEMMA SameAttempts ==
  ASSUME attempt' = attempt
  PROVE  NothingRevived
  BY DEF NothingRevived, Awake, ActiveAttempt

\* or settle, or go to the import or to a person,
LEMMA AsleepAttempts ==
  ASSUME RowsOK, \A a \in Attempts : attempt'[a].status \in
           {attempt[a].status, "failed", "importing", "needs_review", "imported"}
  PROVE  NothingRevived
  BY DEF NothingRevived, Awake, ActiveAttempt

\* or lose the dock row they refer to.
LEMMA DeleteRevivesNothing ==
  ASSUME RowsOK, NEW f, NEW state, DeleteDockRow(f, state)
  PROVE  NothingRevived
<1>1. \A a \in Attempts : attempt'[a].status = attempt[a].status
  BY DEF RowsOK, AttemptRow, DeleteDockRow, Unlink
<1> QED
  BY <1>1, AsleepAttempts

\* A grab wakes a row that is new.
LEMMA GrabRevivesNothing ==
  ASSUME Inv, NEW t \in Tasks, GrabStep(t) \/ GrabAddLost(t)
  PROVE  NothingRevived
<1>1. RowsOK
  BY DEF Inv
<1>2. ASSUME NEW a \in Attempts, NEW row, IsNextAttempt(a), Insert(a, row)
      PROVE  NothingRevived
  BY <1>1, <1>2
  DEF NothingRevived, Awake, ActiveAttempt, RowsOK, AttemptRow, IsNextAttempt, Created, Insert
<1>3. CASE GrabRefused(t)
  BY <1>2, <1>3, SameAttempts DEF GrabRefused
<1>4. CASE \E h \in Releases : GrabCreate(t, h)
  BY <1>2, <1>4, SameAttempts DEF GrabCreate
<1>5. CASE GrabFailed(t)
  BY <1>1, <1>5, AsleepAttempts DEF GrabFailed, SetAttempt, RowsOK, AttemptRow
<1>6. CASE GrabClaim(t) \/ GrabResolve(t) \/ GrabAdd(t) \/ GrabAddLost(t) \/ GrabAddRefused(t)
           \/ GrabRollback(t) \/ GrabConfirm(t)
  BY <1>6, SameAttempts DEF rows, GrabClaim, GrabResolve, GrabAdd, GrabAddLost, GrabAddRefused,
                            GrabRollback, GrabConfirm
<1> QED
  BY <1>3, <1>4, <1>5, <1>6 DEF GrabStep

\* A poll writes only over a row that is still polled.
LEMMA MonitorRevivesNothing ==
  ASSUME Inv, NEW t \in Tasks, MonitorStep(t)
  PROVE  NothingRevived
<1>1. RowsOK
  BY DEF Inv
<1>2. CASE PollApply(t)
  BY <1>1, <1>2, SameAttempts
  DEF NothingRevived, Awake, ActiveAttempt, PollApply, SetAttempt, RowsOK, AttemptRow
<1>3. CASE PollRequest(t) \/ ResumeEnqueue(t)
  BY <1>3, SameAttempts DEF rows, PollRequest, ResumeEnqueue
<1> QED
  BY <1>2, <1>3 DEF MonitorStep

\* An import takes an attempt on, or fails it.
LEMMA ImportRevivesNothing ==
  ASSUME Inv, NEW t \in Tasks, ImportStep(t) \/ ImportPlaceCollides(t)
  PROVE  NothingRevived
<1>1. RowsOK
  BY DEF Inv
<1>2. CASE ImportUndo(t) \/ ImportPlaceThrows(t) \/ ImportPlaceCollides(t)
  BY <1>1, <1>2, DeleteRevivesNothing
  DEF ImportUndo, ImportPlaceThrows, ImportPlaceCollides, ImportPlaceFails
<1>3. CASE ChooseClaim(t) \/ ImportRefused(t) \/ ImportRecord(t) \/ ImportRerecord(t)
  BY <1>1, <1>3, AsleepAttempts
  DEF ChooseClaim, ImportRefused, ImportRecord, ImportRerecord, SetAttempt, RowsOK, AttemptRow
<1>4. CASE \/ \E why \in {"choice", "truncated"} : ImportHold(t, why)
           \/ ImportDone(t) \/ ImportError(t) \/ ImportClaimDock(t)
           \/ ImportClaim(t) \/ ImportPlace(t) \/ ImportReclaimDock(t) \/ ImportReclaim(t)
  BY <1>4, SameAttempts
  DEF rows, ImportDone, ImportError, ImportHold, ImportClaimDock, ImportClaim, ImportPlace,
      ImportReclaimDock, ImportReclaim, ClaimDestination
<1> QED
  BY <1>2, <1>3, <1>4 DEF ImportStep

\* A verification imports, holds or fails it.
LEMMA VerificationRevivesNothing ==
  ASSUME Inv, NEW t \in Tasks, VerificationStep(t)
  PROVE  NothingRevived
<1>1. RowsOK
  BY DEF Inv
<1>2. CASE FileMove(t) \/ DiscardDock(t)
  BY <1>1, <1>2, DeleteRevivesNothing DEF FileMove, DiscardDock
<1>3. CASE FileAttempt(t) \/ DiscardAttempt(t) \/ DiscardUndoAttempt(t)
  BY <1>1, <1>3, AsleepAttempts
  DEF FileAttempt, DiscardAttempt, DiscardUndoAttempt, SetAttempt, RowsOK, AttemptRow
<1>4. CASE VerifyPasses(t) \/ VerifyHolds(t) \/ VerifyFindsNoRow(t) \/ FileRead(t)
           \/ FileMoveFails(t) \/ FileRequest(t) \/ DiscardRequest(t) \/ DiscardDockFails(t)
           \/ DiscardUndoRequest(t)
  BY <1>4, SameAttempts
  DEF rows, VerifyPasses, VerifyHolds, VerifyFindsNoRow, FileRead, FileMoveFails, FileRequest,
      DiscardRequest, DiscardDockFails, DiscardUndoRequest
<1> QED
  BY <1>2, <1>3, <1>4 DEF VerificationStep

\* A removal and the outcomes of a download fail or hold it.
LEMMA OutcomeRevivesNothing ==
  ASSUME Inv, NEW t \in Tasks,
         \/ RemovalStep(t) \/ SettleRefused(t)
         \/ FailAttempt(t) \/ FailRequest(t) \/ HoldAttempt(t) \/ HoldRequest(t)
  PROVE  NothingRevived
<1>1. RowsOK
  BY DEF Inv
<1>2. CASE FailInFlight(t) \/ FailInFlightForRequest(t) \/ FailAttempt(t) \/ HoldAttempt(t)
  BY <1>1, <1>2, AsleepAttempts
  DEF FailInFlight, FailInFlightForRequest, FailAttempt, HoldAttempt, SetAttempt, RowsOK, AttemptRow
<1>3. CASE Latest(t) \/ Detach(t) \/ DetachRefused(t) \/ SettleStopped(t) \/ SettleRemoved(t)
           \/ SettleFulfilled(t) \/ SettleRefused(t) \/ FailRequest(t) \/ HoldRequest(t)
  BY <1>3, SameAttempts
  DEF rows, Latest, Detach, DetachRefused, SettleStopped, SettleRemoved, Settle, SettleFulfilled,
      SettleRefused, FailRequest, HoldRequest
<1> QED
  BY <1>2, <1>3 DEF RemovalStep

\* Nothing that begins an activation, and nothing from outside, writes an attempt's status.
LEMMA OthersReviveNothing ==
  ASSUME Inv, (\E t \in Tasks : Start(t) \/ AutomationStep(t)) \/ Environment
  PROVE  NothingRevived
<1>1. RowsOK
  BY DEF Inv
<1>2. ASSUME NEW t \in Tasks, AutomationStep(t) PROVE NothingRevived
  BY <1>2, SameAttempts
  DEF rows, AutomationStep, PassClaim, PassDeclines, SearchFindsNothing, SearchFinds, PassGrabs,
      PassFails, Abandon
<1>3. ASSUME NEW t \in Tasks, Start(t) PROVE NothingRevived
  <2>1. attempt' = attempt
    BY <1>3
    DEF Start, rows, GrabStart, MonitorStart, WatchdogStart, ImportStart, ChoiceStart, GrabRead,
        PollRead, ResumeRead, WatchdogRead, ImportBegin, ChooseUnit, VerificationStart,
        RefetchStart, ForceFileStart, DiscardStart, VerifyRead, FileHeld, Discard, Cancel,
        MarkFulfilled, StopDownload, RemoveFromClient, PassStart, PassRead, AbandonRead,
        AdoptStart, AdoptRead
  <2> QED
    BY <2>1, SameAttempts
<1>4. CASE \E f \in DockFiles : DiscardDockFile(f)
  BY <1>1, <1>4, DeleteRevivesNothing DEF DiscardDockFile
<1>5. CASE \/ \E r \in Requests : ReleaseSearch(r) \/ Approve(r) \/ Reject(r)
           \/ ClientProgress \/ ClientFailure \/ Restart \/ Shutdown
  BY <1>5, SameAttempts
  DEF rows, ReleaseSearch, Approve, Reject, Decide, ClientProgress, ClientFailure,
      ClientCompletes, ClientErrors, ClientForgets, Advance, Restart, Shutdown
<1> QED
  BY <1>2, <1>3, <1>4, <1>5 DEF Environment

\* Without "adopt" among the operations nobody ever stands there: one activation moves,
\* somewhere else,
LEMMA OneMovesElsewhere ==
  ASSUME NobodyAdopts, NEW t \in Tasks, task'[t].pc # "adopt",
         \A u \in Tasks \ {t} : task'[u] = task[u]
  PROVE  NobodyAdopts'
  BY DEF NobodyAdopts

\* to another await,
LEMMA GoesElsewhere ==
  ASSUME Inv, NobodyAdopts, NEW t \in Tasks, NEW pc, pc # "adopt", Go(t, pc)
  PROVE  NobodyAdopts'
<1>1. task'[t].pc = pc /\ \A u \in Tasks \ {t} : task'[u] = task[u]
  BY DEF Inv, TasksOK, TaskState, Go
<1> QED
  BY <1>1, OneMovesElsewhere

\* or back to its beginning;
LEMMA ReturnsElsewhere ==
  ASSUME Inv, NobodyAdopts, NEW t \in Tasks, Return(t)
  PROVE  NobodyAdopts'
<1>1. task'[t].pc \in {"idle", "import_done"} /\ \A u \in Tasks \ {t} : task'[u] = task[u]
  BY DEF Inv, TasksOK, TaskState, Return, Idle
<1> QED
  BY <1>1, OneMovesElsewhere

\* or none does.
LEMMA NobodyMoves ==
  ASSUME NobodyAdopts, UNCHANGED task
  PROVE  NobodyAdopts'
  BY DEF NobodyAdopts

\* The steps of a grab, of a pass and of a poll,
LEMMA GrabAdoptsNobody ==
  ASSUME Inv, NobodyAdopts, NEW t \in Tasks,
         GrabStep(t) \/ GrabAddLost(t) \/ AutomationStep(t) \/ MonitorStep(t)
  PROVE  NobodyAdopts'
<1>1. task \in [Tasks -> TaskState]
  BY DEF Inv, TasksOK
<1>2. CASE \E h \in Releases : GrabCreate(t, h)
  <2>1. CASE \E a \in Attempts : task' = [task EXCEPT ![t].pc = "grab_add", ![t].attempt = a]
    BY <1>1, <2>1, OneMovesElsewhere DEF TaskState
  <2> QED
    BY <1>2, <2>1, GoesElsewhere DEF GrabCreate
<1>3. CASE GrabClaim(t) \/ GrabResolve(t) \/ GrabRefused(t) \/ GrabAdd(t) \/ GrabAddRefused(t)
           \/ GrabFailed(t) \/ GrabRollback(t) \/ GrabConfirm(t)
  BY <1>3, GoesElsewhere, ReturnsElsewhere
  DEF GrabClaim, GrabResolve, GrabRefused, GrabAdd, GrabAddRefused, GrabFailed, GrabRollback,
      GrabConfirm
<1>4. CASE GrabAddLost(t)
  BY <1>4, GoesElsewhere, NobodyMoves DEF GrabAddLost
<1>5. CASE PassGrabs(t)
  <2>1. CASE task' = [task EXCEPT ![t].pc = "grab_claim",
                                  ![t].was = request[task[t].request].status]
    BY <1>1, <2>1, OneMovesElsewhere DEF TaskState
  <2> QED
    BY <1>5, <2>1, GoesElsewhere DEF PassGrabs
<1>6. CASE PassClaim(t) \/ PassDeclines(t) \/ SearchFindsNothing(t) \/ SearchFinds(t)
           \/ PassFails(t) \/ Abandon(t)
  BY <1>6, GoesElsewhere, ReturnsElsewhere
  DEF PassClaim, PassDeclines, SearchFindsNothing, SearchFinds, PassFails, Abandon, HandBack
<1>7. CASE MonitorStep(t)
  BY <1>7, GoesElsewhere, ReturnsElsewhere
  DEF MonitorStep, PollApply, PollRequest, ResumeEnqueue, HandOff
<1> QED
  BY <1>2, <1>3, <1>4, <1>5, <1>6, <1>7 DEF GrabStep, AutomationStep

\* of an import,
LEMMA ImportAdoptsNobody ==
  ASSUME Inv, NobodyAdopts, NEW t \in Tasks, ImportStep(t) \/ ImportPlaceCollides(t)
  PROVE  NobodyAdopts'
<1>1. task \in [Tasks -> TaskState]
  BY DEF Inv, TasksOK
<1>2. CASE ImportClaimDock(t) \/ ImportReclaimDock(t)
  <2>1. PICK f \in DockFiles, to \in {"import_claim", "import_reclaim"} :
               task' = [task EXCEPT ![t].pc = to, ![t].dock = f]
    BY <1>2 DEF ImportClaimDock, ImportReclaimDock, ClaimDestination
  <2> QED
    BY <1>1, <2>1, OneMovesElsewhere DEF TaskState
<1>3. CASE \E why \in {"choice", "truncated"} : ImportHold(t, why)
  BY <1>1, <1>3, OneMovesElsewhere DEF ImportHold, TaskState
<1>4. CASE ImportDone(t)
  BY <1>1, <1>4, OneMovesElsewhere DEF ImportDone, TaskState, Idle
<1>5. CASE ChooseClaim(t) \/ ImportError(t) \/ ImportClaim(t) \/ ImportUndo(t) \/ ImportRefused(t)
           \/ ImportRecord(t) \/ ImportPlace(t) \/ ImportPlaceThrows(t) \/ ImportReclaim(t)
           \/ ImportRerecord(t) \/ ImportPlaceCollides(t)
  BY <1>5, GoesElsewhere, ReturnsElsewhere
  DEF ChooseClaim, ImportError, ImportClaim, ImportUndo, ImportRefused, ImportRecord, ImportPlace,
      ImportPlaceThrows, ImportPlaceCollides, ImportPlaceFails, ImportReclaim, ImportRerecord
<1> QED
  BY <1>2, <1>3, <1>4, <1>5 DEF ImportStep

\* of a verification, of a removal and of an outcome,
LEMMA VerificationAdoptsNobody ==
  ASSUME Inv, NobodyAdopts, NEW t \in Tasks,
         \/ VerificationStep(t) \/ RemovalStep(t) \/ SettleRefused(t)
         \/ FailAttempt(t) \/ FailRequest(t) \/ HoldAttempt(t) \/ HoldRequest(t)
  PROVE  NobodyAdopts'
<1>1. task \in [Tasks -> TaskState]
  BY DEF Inv, TasksOK
<1>2. CASE VerificationStep(t)
  BY <1>2, GoesElsewhere, ReturnsElsewhere
  DEF VerificationStep, VerifyPasses, VerifyHolds, VerifyFindsNoRow, FileRead, FileMove,
      FileMoveFails, FileRequest, FileAttempt, DiscardRequest, DiscardAttempt, DiscardDock,
      DiscardDockFails, DiscardUndoAttempt, DiscardUndoRequest, NotFiled
<1>3. CASE Latest(t)
  <2>1. CASE \E a \in Attempts : task' = [task EXCEPT ![t].pc = "detach", ![t].attempt = a]
    BY <1>1, <2>1, OneMovesElsewhere DEF TaskState
  <2> QED
    BY <1>3, <2>1, GoesElsewhere, ReturnsElsewhere DEF Latest, AfterRemoval
<1>4. CASE Detach(t) \/ DetachRefused(t) \/ FailInFlight(t) \/ SettleStopped(t) \/ SettleRemoved(t)
           \/ SettleFulfilled(t) \/ SettleRefused(t) \/ FailInFlightForRequest(t)
  BY <1>4, GoesElsewhere, ReturnsElsewhere
  DEF Detach, DetachRefused, FailInFlight, SettleStopped, SettleRemoved, Settle, SettleFulfilled,
      SettleRefused, FailInFlightForRequest, AfterRemoval
<1>5. CASE FailAttempt(t) \/ FailRequest(t) \/ HoldAttempt(t) \/ HoldRequest(t)
  BY <1>5, GoesElsewhere, ReturnsElsewhere DEF FailAttempt, FailRequest, HoldAttempt, HoldRequest
<1> QED
  BY <1>2, <1>3, <1>4, <1>5 DEF RemovalStep

\* and what begins.
LEMMA StartAdoptsNobody ==
  ASSUME Inv, NobodyAdopts, "adopt" \notin Operations, NEW t \in Tasks, Start(t)
  PROVE  NobodyAdopts'
<1>1. task \in [Tasks -> TaskState]
  BY DEF Inv, TasksOK
<1>2. ASSUME NEW r \in Requests,
             \/ GrabRead(t, r) \/ AbandonRead(t, r) \/ Cancel(t, r) \/ MarkFulfilled(t, r)
             \/ \E trigger \in {"unattended", "retry"} : PassRead(t, r, trigger)
      PROVE  NobodyAdopts'
  <2>1. task'[t].pc # "adopt"
    <3>1. CASE MarkFulfilled(t, r)
      BY <1>1, <3>1, FulfilBegins
    <3> QED
      BY <1>1, <1>2, <3>1 DEF GrabRead, AbandonRead, Cancel, PassRead, Begin, TaskState
  <2>2. \A u \in Tasks \ {t} : task'[u] = task[u]
    BY <1>1, <1>2, FulfilBegins DEF GrabRead, AbandonRead, Cancel, PassRead, Begin
  <2> QED
    BY <2>1, <2>2, OneMovesElsewhere
<1>3. ASSUME NEW a \in Attempts,
             \/ PollRead(t, a) \/ ResumeRead(t, a) \/ WatchdogRead(t, a) \/ ImportBegin(t, a)
             \/ ChooseUnit(t, a) \/ StopDownload(t, a) \/ RemoveFromClient(t, a)
      PROVE  NobodyAdopts'
  <2>1. task'[t].pc # "adopt"
    <3>1. CASE PollRead(t, a)
      <4>1. PICK says \in Answers(attempt[a].release) :
              task' = [task EXCEPT
                ![t].pc = IF says = "failing" THEN "fail_attempt" ELSE "poll_apply",
                ![t].attempt = a, ![t].was = attempt[a].status, ![t].says = says]
        BY <3>1 DEF PollRead
      <4> QED
        BY <1>1, <4>1 DEF TaskState
    <3>2. CASE ImportBegin(t, a)
      BY <1>1, <3>2 DEF ImportBegin, TaskState
    <3>3. CASE ResumeRead(t, a) \/ WatchdogRead(t, a) \/ ChooseUnit(t, a)
      BY <1>1, <3>3 DEF ResumeRead, WatchdogRead, ChooseUnit, TaskState
    <3>4. CASE StopDownload(t, a) \/ RemoveFromClient(t, a)
      BY <1>1, <3>4 DEF StopDownload, RemoveFromClient, Begin, TaskState
    <3> QED
      BY <1>3, <3>1, <3>2, <3>3, <3>4
  <2>2. \A u \in Tasks \ {t} : task'[u] = task[u]
    BY <1>1, <1>3
    DEF PollRead, ResumeRead, WatchdogRead, ImportBegin, ChooseUnit, StopDownload,
        RemoveFromClient, Begin
  <2> QED
    BY <2>1, <2>2, OneMovesElsewhere
<1>4. ASSUME NEW a \in Attempts,
             \/ \E f \in DockFiles : VerifyRead(t, f, a)
             \/ \E r \in Requests : FileHeld(t, r, a) \/ Discard(t, r, a)
      PROVE  NobodyAdopts'
  <2>1. task'[t].pc # "adopt"
    <3>1. ASSUME NEW f \in DockFiles, VerifyRead(t, f, a) PROVE task'[t].pc # "adopt"
      BY <1>1, <3>1 DEF VerifyRead, TaskState
    <3>2. ASSUME NEW r \in Requests, FileHeld(t, r, a) PROVE task'[t].pc # "adopt"
      BY <1>1, <3>2 DEF FileHeld, TaskState
    <3>3. ASSUME NEW r \in Requests, Discard(t, r, a) PROVE task'[t].pc # "adopt"
      BY <1>1, <3>3 DEF Discard, TaskState
    <3> QED
      BY <1>4, <3>1, <3>2, <3>3
  <2>2. \A u \in Tasks \ {t} : task'[u] = task[u]
    BY <1>1, <1>4 DEF VerifyRead, FileHeld, Discard
  <2> QED
    BY <2>1, <2>2, OneMovesElsewhere
<1> QED
  BY <1>2, <1>3, <1>4
  DEF Start, On, GrabStart, PassStart, MonitorStart, WatchdogStart, ImportStart, ChoiceStart,
      VerificationStart, RefetchStart, ForceFileStart, DiscardStart

\* The steps of the pipeline without adoption keep it so, and revive nothing.
LEMMA NextRevivesNothing ==
  ASSUME Inv, NobodyAdopts, "adopt" \notin Operations, [Next]_vars
  PROVE  NobodyAdopts' /\ NothingRevived
<1>1. ASSUME NEW t \in Tasks, Start(t)
      PROVE  NobodyAdopts' /\ NothingRevived
  BY <1>1, StartAdoptsNobody, OthersReviveNothing
<1>2. ASSUME NEW t \in Tasks, Step(t)
      PROVE  NobodyAdopts' /\ NothingRevived
  <2>1. ~Adopt(t)
    BY DEF Adopt, At, NobodyAdopts
  <2>2. NobodyAdopts'
    BY <1>2, <2>1, GrabAdoptsNobody, ImportAdoptsNobody, VerificationAdoptsNobody DEF Step
  <2>3. NothingRevived
    BY <1>2, <2>1, GrabRevivesNothing, OthersReviveNothing, MonitorRevivesNothing,
       ImportRevivesNothing, VerificationRevivesNothing, OutcomeRevivesNothing
    DEF Step
  <2> QED
    BY <2>2, <2>3
<1>3. CASE Environment
  <2>1. task' = task \/ task' = [t \in Tasks |-> Idle]
    BY <1>3
    DEF Environment, ReleaseSearch, Approve, Reject, Decide, DiscardDockFile, ClientProgress,
        ClientFailure, ClientCompletes, ClientErrors, ClientForgets, Advance, Restart, Shutdown
  <2>2. NobodyAdopts'
    BY <2>1, NobodyMoves DEF NobodyAdopts, Idle
  <2> QED
    BY <1>3, <2>2, OthersReviveNothing
<1>4. CASE UNCHANGED vars
  BY <1>4, NobodyMoves, SameAttempts DEF vars, rows
<1> QED
  BY <1>1, <1>2, <1>3, <1>4 DEF Next

\* No late poll, sweep, import or filing makes a settled attempt one that is polled or
\* offered to the queue again; only an adoption, which somebody asks for, does.
THEOREM SettledAttemptsStaySo ==
  ASSUME "adopt" \notin Operations
  PROVE  Spec => SettledAttemptsAreNotRevived
<1>1. Init => NobodyAdopts
  BY DEF Init, NobodyAdopts, Idle
<1>2. Inv /\ NobodyAdopts /\ [Next]_vars => NobodyAdopts' /\ NothingRevived
  BY NextRevivesNothing
<1>3. NothingRevived <=> \A a \in Attempts :
        attempt[a].status \in {"failed", "imported"} =>
          attempt'[a].status \notin ActiveAttempt \cup {"completed"}
  BY DEF NothingRevived, Awake
<1> QED
  BY <1>1, <1>2, <1>3, InvHolds, PTL DEF Spec, SettledAttemptsAreNotRevived
-------------------------------------------------------------------------------
(***************************************************************************)
(* Transfers.  A request is held by a grab that has claimed it, by a       *)
(* download on its way, or by the failure of one it has not been told of,  *)
(* and by one of them at a time; while it is, its status says so.  Nobody  *)
(* checks the first when it writes the second, so what is kept is who may  *)
(* still write: a failure about an attempt whose grab is not over would    *)
(* release the request twice.                                              *)
(***************************************************************************)
Adding == {"grab_add", "grab_failed", "grab_confirm"}

Grabs(t) == task[t].pc \in {"grab_resolve", "grab_create", "grab_rollback"} \cup Adding
Runs(a) == attempt[a].status \in ActiveAttempt \cup {"completed"}
Fails(t) == task[t].pc = "fail_request"

Grabber(t, r) == Grabs(t) /\ task[t].request = r
Running(a, r) == Runs(a) /\ attempt[a].request = r
Failing(t, r) == Fails(t) /\ attempt[task[t].attempt].request = r

Held(r) ==
  \/ \E t \in Tasks : Grabber(t, r) \/ Failing(t, r)
  \/ \E a \in Attempts : Running(a, r)

Shown(r) == request[r].status \in ActiveTransfer \cup Decided

\* A grab from its insert on is about the attempt it holds the request with.
HeldOnce(r) ==
  /\ \A t, u \in Tasks :
       /\ Grabber(t, r) /\ Grabber(u, r) => t = u
       /\ Failing(t, r) /\ Failing(u, r) => t = u
       /\ ~(Grabber(t, r) /\ Failing(u, r))
  /\ \A a, b \in Attempts : Running(a, r) /\ Running(b, r) => a = b
  /\ \A t \in Tasks, a \in Attempts :
       /\ ~(Failing(t, r) /\ Running(a, r))
       /\ Grabber(t, r) /\ Running(a, r) => task[t].pc \in Adding /\ task[t].attempt = a

Safe(r) == HeldOnce(r) /\ (Held(r) => Shown(r))

\* What activations may do where no transfer fails or is taken away by hand, and none goes
\* on to an import.
TransferPcs ==
  Grabbing \cup Searching \cup
  {"idle", "adopt", "abandon", "poll_apply", "poll_request", "resume", "fail_attempt",
   "fail_request", "latest", "detach", "fail_in_flight", "after_removal", "fulfil_attempts"}

Removing == {"latest", "detach", "fail_in_flight", "after_removal"}

TransfersOnly(t) ==
  /\ task[t].pc \in TransferPcs
  /\ t \in ImportWorkers => task[t].pc = "idle"
  /\ task[t].pc \in Removing => task[t].says \in {"cancel", "fulfil"}

Inserted(a) == a \in Attempts /\ Created(a)

Seeking == Grabbing \cup Searching

RoleHasRows(t) ==
  /\ task[t].pc \in Seeking => task[t].request \in Requests
  /\ task[t].pc \in Adding =>
       /\ Inserted(task[t].attempt)
       /\ attempt[task[t].attempt].request = task[t].request
       /\ attempt[task[t].attempt].release \in Releases
  /\ task[t].pc \in {"fail_attempt", "fail_request"} => Inserted(task[t].attempt)

\* Nobody is about to fail an attempt that is being added.
AddIsSpared(t) ==
  \A u \in Tasks :
    task[t].pc \in Adding /\ task[u].pc = "fail_attempt" => task[t].attempt # task[u].attempt

AttemptRuns(a) ==
  /\ attempt[a].status \in {"absent", "failed"} \/ Runs(a)
  /\ Created(a) => attempt[a].request \in Requests

TransferInv ==
  /\ \A t \in Tasks : TransfersOnly(t) /\ RoleHasRows(t) /\ AddIsSpared(t)
  /\ \A a \in Attempts : AttemptRuns(a)
  /\ \A h \in Releases : client[h] # "errored"
  /\ \A r \in Requests : Safe(r)

(***************************************************************************)
(* Nobody gets hold of r who has not held it.                              *)
(***************************************************************************)
Fewer(r) ==
  /\ \A t \in Tasks :
       /\ Grabber(t, r)' =>
            /\ Grabber(t, r)
            /\ task[t].pc \in Adding =>
                 \/ task'[t].pc \in Adding /\ task'[t].attempt = task[t].attempt
                 \/ \A a \in Attempts : Running(a, r)' => task[t].attempt # a
       /\ Failing(t, r)' => Failing(t, r)
  /\ \A a \in Attempts : Running(a, r)' => Running(a, r)

\* So what a request is held by, and that it shows, stays right.
LEMMA FewerHold ==
  ASSUME NEW r \in Requests, Safe(r), Fewer(r), Shown(r) /\ Held(r)' => Shown(r)'
  PROVE  Safe(r)'
<1>1. Held(r)' => Held(r)
  BY DEF Fewer, Held
<1>2. HeldOnce(r)'
  <2> SUFFICES ASSUME HeldOnce(r), Fewer(r) PROVE HeldOnce(r)'
    BY DEF Safe
  <2>1. ASSUME NEW t \in Tasks, NEW u \in Tasks
        PROVE  /\ Grabber(t, r)' /\ Grabber(u, r)' => t = u
               /\ Failing(t, r)' /\ Failing(u, r)' => t = u
               /\ ~(Grabber(t, r)' /\ Failing(u, r)')
    BY DEF Fewer, HeldOnce
  <2>2. ASSUME NEW a \in Attempts, NEW b \in Attempts
        PROVE  Running(a, r)' /\ Running(b, r)' => a = b
    BY DEF Fewer, HeldOnce
  <2>3. ASSUME NEW t \in Tasks, NEW a \in Attempts
        PROVE  /\ ~(Failing(t, r)' /\ Running(a, r)')
               /\ Grabber(t, r)' /\ Running(a, r)' =>
                    task'[t].pc \in Adding /\ task'[t].attempt = a
    BY DEF Fewer, HeldOnce
  <2> QED
    BY <2>1, <2>2, <2>3 DEF HeldOnce
<1> QED
  BY <1>1, <1>2 DEF Safe

\* What a step leaves of the rows, and of one activation that is not given a request.
RowsGo ==
  /\ \A a \in Attempts :
       /\ Created(a) =>
            /\ Created(a)'
            /\ attempt'[a].request = attempt[a].request
            /\ attempt'[a].release = attempt[a].release
       /\ AttemptRuns(a)'
  /\ \A h \in Releases : client'[h] # "errored"

NothingRuns == \A a \in Attempts : Runs(a)' => Runs(a) /\ attempt'[a].request = attempt[a].request

Plays(t) ==
  /\ t \in Handlers
  /\ TransfersOnly(t)'
  /\ Grabs(t)' =>
       /\ Grabs(t) /\ task'[t].request = task[t].request
       /\ task'[t].pc \in Adding => task[t].pc \in Adding /\ task'[t].attempt = task[t].attempt
       /\ task[t].pc \in Adding =>
            task'[t].pc \in Adding \/ \A a \in Attempts : Runs(a)' => task[t].attempt # a
  /\ Fails(t)' => Fails(t) /\ task'[t].attempt = task[t].attempt
  /\ task'[t].pc \in Seeking => task'[t].request \in Requests
  /\ task'[t].pc = "fail_attempt" =>
       /\ Inserted(task'[t].attempt)
       /\ \A u \in Tasks : task[u].pc \in Adding => task[u].attempt # task'[t].attempt
  /\ \A u \in Tasks \ {t} : task'[u] = task[u]

\* The parts of an activation that a step of another leaves alone stay.
LEMMA OthersKeepRoles ==
  ASSUME RowsOK, RowsGo, NEW t \in Tasks, TransfersOnly(t), RoleHasRows(t), task'[t] = task[t]
  PROVE  TransfersOnly(t)' /\ RoleHasRows(t)'
<1>1. \A a \in Attempts :
        Inserted(a) => /\ Inserted(a)'
                       /\ attempt'[a].request = attempt[a].request
                       /\ attempt'[a].release = attempt[a].release
  BY DEF RowsGo, Inserted
<1> QED
  BY <1>1 DEF TransfersOnly, RoleHasRows, Grabs, Inserted, Created

\* One that is given no request gets hold of none.
LEMMA PlaysFewer ==
  ASSUME Inv, TransferInv, RowsGo, NothingRuns, NEW t \in Tasks, Plays(t), NEW r \in Requests
  PROVE  Fewer(r)
<1>1. \A a \in Attempts :
        Inserted(a) => Inserted(a)' /\ attempt'[a].request = attempt[a].request
  BY DEF RowsGo, Inserted
<1>2. ASSUME NEW u \in Tasks, Failing(u, r)'
      PROVE  Failing(u, r)
  <2>1. Fails(u) /\ task'[u].attempt = task[u].attempt
    BY <1>2 DEF Plays, Failing, Fails
  <2>2. Inserted(task[u].attempt)
    BY <2>1 DEF TransferInv, RoleHasRows, Fails
  <2> QED
    BY <1>1, <1>2, <2>1, <2>2 DEF Failing, Inserted
<1>3. ASSUME NEW u \in Tasks, Grabber(u, r)'
      PROVE  /\ Grabber(u, r)
             /\ task[u].pc \in Adding =>
                  \/ task'[u].pc \in Adding /\ task'[u].attempt = task[u].attempt
                  \/ \A a \in Attempts : Running(a, r)' => task[u].attempt # a
  <2>1. CASE u = t
    BY <1>3, <2>1 DEF Plays, Grabber, Running
  <2>2. CASE u # t
    BY <1>3, <2>2 DEF Plays, Grabber, Grabs
  <2> QED
    BY <2>1, <2>2
<1>4. \A a \in Attempts : Running(a, r)' => Running(a, r)
  BY DEF NothingRuns, Running
<1> QED
  BY <1>2, <1>3, <1>4 DEF Fewer

\* So a step that gives nobody a request, and shows what is still held, is safe.
LEMMA PlaysSafely ==
  ASSUME Inv, TransferInv, RowsGo, NothingRuns, NEW t \in Tasks, Plays(t),
         \A r \in Requests : Shown(r) /\ Held(r)' => Shown(r)'
  PROVE  TransferInv'
<1>1. ASSUME NEW r \in Requests PROVE Safe(r)'
  BY PlaysFewer, FewerHold DEF TransferInv
<1>2. ASSUME NEW u \in Tasks PROVE TransfersOnly(u)' /\ RoleHasRows(u)'
  <2>1. CASE u # t
    BY <2>1, OthersKeepRoles DEF Inv, TransferInv, Plays
  <2>2. CASE u = t
    <3>1. \A a \in Attempts :
            Inserted(a) => /\ Inserted(a)'
                           /\ attempt'[a].request = attempt[a].request
                           /\ attempt'[a].release = attempt[a].release
      BY DEF RowsGo, Inserted
    <3>2. RoleHasRows(t) /\ TransfersOnly(t)'
      BY DEF TransferInv, Plays
    <3>3. task'[t].pc \in Seeking => task'[t].request \in Requests
      BY DEF Plays
    <3>4. task'[t].pc \in Adding =>
            /\ task[t].pc \in Adding /\ task'[t].attempt = task[t].attempt
            /\ task'[t].request = task[t].request
      BY DEF Plays, Grabs
    <3>5. task'[t].pc \in Adding =>
            /\ Inserted(task[t].attempt)'
            /\ attempt'[task'[t].attempt].request = task'[t].request
            /\ attempt'[task'[t].attempt].release \in Releases
      BY <3>1, <3>2, <3>4 DEF RoleHasRows, Inserted, Created
    <3>6. task'[t].pc \in {"fail_attempt", "fail_request"} => Inserted(task'[t].attempt)
      BY <3>2 DEF Plays, Fails, RoleHasRows
    <3>7. task'[t].pc \in {"fail_attempt", "fail_request"} => Inserted(task[t].attempt)'
      BY <3>1, <3>6 DEF Inserted, Created
    <3> QED
      BY <2>2, <3>2, <3>3, <3>5, <3>7 DEF RoleHasRows
  <2> QED
    BY <2>1, <2>2
<1>3. ASSUME NEW u \in Tasks PROVE AddIsSpared(u)'
  <2> SUFFICES ASSUME NEW v \in Tasks, task'[u].pc \in Adding, task'[v].pc = "fail_attempt"
               PROVE  task'[u].attempt # task'[v].attempt
    BY DEF AddIsSpared
  <2>1. task[u].pc \in Adding /\ task'[u].attempt = task[u].attempt
    BY DEF Plays, Grabs
  <2>2. CASE v = t
    BY <2>1, <2>2 DEF Plays
  <2>3. CASE v # t
    BY <2>1, <2>3 DEF Plays, TransferInv, AddIsSpared
  <2> QED
    BY <2>2, <2>3
<1> QED
  BY <1>1, <1>2, <1>3 DEF TransferInv, RowsGo

StillShown == \A r \in Requests : Shown(r) => Shown(r)'

\* Where an activation has no part in a transfer.
Bystanding ==
  Searching \cup
  {"idle", "grab_claim", "adopt", "abandon", "poll_apply", "poll_request", "resume",
   "fulfil_attempts"}

\* An activation that goes to such a place plays no part,
LEMMA StandsBy ==
  ASSUME TransferInv, NEW t \in Handlers, task'[t].pc \in Bystanding,
         task'[t].pc \in Seeking => task'[t].request \in Requests,
         \A u \in Tasks \ {t} : task'[u] = task[u]
  PROVE  Plays(t)
<1>1. t \notin ImportWorkers /\ t \in Tasks
  BY TasksAssumption DEF Tasks
<1>2. TransfersOnly(t)'
  BY <1>1 DEF Bystanding, TransfersOnly, TransferPcs, Removing, Grabbing, Searching
<1>3. task'[t].pc \notin {"fail_attempt", "fail_request", "grab_resolve", "grab_create",
                          "grab_rollback"} \cup Adding
  BY DEF Bystanding, Searching, Adding
<1> QED
  BY <1>2, <1>3 DEF Plays, Grabs, Fails

\* Activations of the pipeline's own are handlers, as no import begins.
LEMMA AwakeIsHandler ==
  ASSUME TransferInv, NEW t \in Tasks, task[t].pc # "idle"
  PROVE  t \in Handlers /\ t \notin ImportWorkers
  BY DEF TransferInv, TransfersOnly, Tasks

\* goes on from wherever it was to one of those,
LEMMA GoesBy ==
  ASSUME Inv, TransferInv, NEW t \in Tasks, task[t].pc # "idle", NEW pc \in Bystanding, Go(t, pc),
         pc \in Seeking => task[t].pc \in Seeking
  PROVE  Plays(t)
<1>1. /\ task'[t].pc = pc /\ task'[t].request = task[t].request
      /\ \A u \in Tasks \ {t} : task'[u] = task[u]
  BY DEF Inv, TasksOK, TaskState, Go
<1>2. pc \in Seeking => task[t].request \in Requests
  BY DEF TransferInv, RoleHasRows
<1> QED
  BY <1>1, <1>2, AwakeIsHandler, StandsBy

\* or returns.
LEMMA ReturnsBy ==
  ASSUME Inv, TransferInv, NEW t \in Tasks, task[t].pc # "idle", Return(t)
  PROVE  Plays(t)
<1>1. task'[t].pc = "idle" /\ \A u \in Tasks \ {t} : task'[u] = task[u]
  BY AwakeIsHandler DEF Inv, TasksOK, TaskState, Return, Idle
<1> QED
  BY <1>1, AwakeIsHandler, StandsBy DEF Bystanding, Seeking, Grabbing, Searching

\* The rows that are left alone,
LEMMA SameRows ==
  ASSUME Inv, TransferInv, UNCHANGED attempt, \A h \in Releases : client'[h] # "errored"
  PROVE  RowsGo /\ NothingRuns
  BY DEF TransferInv, RowsGo, NothingRuns, Created, Runs, AttemptRuns

\* an attempt that fails or is told what the client says of it,
LEMMA AttemptGoes ==
  ASSUME Inv, TransferInv, UNCHANGED client, NEW a, NEW s, a \in Attempts => Created(a),
         SetAttempt(a, s), s = "failed" \/ (Runs(a) /\ s \in ActiveAttempt \cup {"completed"})
  PROVE  RowsGo /\ NothingRuns
<1>1. \A b \in Attempts :
        /\ attempt'[b].request = attempt[b].request
        /\ attempt'[b].release = attempt[b].release
        /\ attempt'[b].status = IF b = a THEN s ELSE attempt[b].status
  BY DEF Inv, RowsOK, AttemptRow, SetAttempt
<1> QED
  BY <1>1 DEF TransferInv, RowsGo, NothingRuns, Created, Runs, AttemptRuns, ActiveAttempt

\* and the request that is left alone, moves on from where no transfer shows, or is decided.
LEMMA RequestGoes ==
  ASSUME Inv, NEW r, NEW s,
         r \in Requests => ~Shown(r) \/ s \in ActiveTransfer \cup Decided,
         request' = [request EXCEPT ![r].status = s]
  PROVE  StillShown
  BY DEF Inv, RowsOK, RequestRow, StillShown, Shown

\* What leaves the requests alone leaves them shown.
LEMMA RequestStays ==
  ASSUME UNCHANGED request
  PROVE  StillShown
  BY DEF StillShown, Shown

\* What a grab does once it has claimed its request.
LEMMA GrabIsSafe ==
  ASSUME Inv, TransferInv, NEW t \in Tasks,
         \/ GrabResolve(t) \/ GrabRefused(t) \/ GrabAdd(t) \/ GrabAddLost(t)
         \/ GrabAddRefused(t) \/ GrabFailed(t) \/ GrabRollback(t) \/ GrabConfirm(t)
  PROVE  TransferInv'
<1>1. task \in [Tasks -> TaskState] /\ RowsOK
  BY DEF Inv, TasksOK
<1>2. t \in Handlers /\ t \notin ImportWorkers
  BY AwakeIsHandler
  DEF GrabResolve, GrabRefused, GrabAdd, GrabAddLost, GrabAddRefused, GrabFailed, GrabRollback,
      GrabConfirm, At
<1>3. Grabs(t) => task[t].request \in Requests
  BY DEF TransferInv, RoleHasRows, Grabs, Seeking, Grabbing, Adding
<1>4. ASSUME NEW pc, Go(t, pc), Grabs(t), pc \in {"grab_create", "grab_rollback"} \cup Adding,
             pc \in Adding => task[t].pc \in Adding,
             task[t].pc \in Adding =>
               pc \in Adding \/ \A a \in Attempts : Runs(a)' => task[t].attempt # a
      PROVE  Plays(t)
  <2>1. /\ task'[t] = [task[t] EXCEPT !.pc = pc]
        /\ \A u \in Tasks \ {t} : task'[u] = task[u]
    BY <1>1, <1>4 DEF Go
  <2>2. /\ task'[t].pc = pc /\ task'[t].request = task[t].request
        /\ task'[t].attempt = task[t].attempt
    BY <1>1, <2>1 DEF TaskState
  <2>3. TransfersOnly(t)'
    BY <1>2, <1>4, <2>2 DEF TransfersOnly, TransferPcs, Grabbing, Adding, Removing
  <2>4. task'[t].pc \notin {"fail_attempt", "fail_request"}
    BY <1>4, <2>2 DEF Adding
  <2> QED
    BY <1>3, <1>2, <1>4, <2>1, <2>2, <2>3, <2>4 DEF Plays, Fails
<1>5. ASSUME RowsGo, NothingRuns, Plays(t), StillShown
      PROVE  TransferInv'
  BY <1>5, PlaysSafely DEF StillShown
<1>6. CASE GrabResolve(t)
  <2>1. Plays(t)
    BY <1>4, <1>6 DEF GrabResolve, At, Grabs, Adding
  <2> QED
    BY <1>5, <1>6, <2>1, SameRows, RequestStays DEF GrabResolve, rows, TransferInv
<1>7. CASE GrabRefused(t)
  <2>1. Plays(t)
    BY <1>4, <1>7 DEF GrabRefused, At, Grabs, Adding
  <2>2. task[t].request \in Requests
    BY <1>3, <1>7 DEF GrabRefused, At, Grabs
  <2>3. ASSUME NEW a \in Attempts, IsNextAttempt(a),
               Insert(a, [AbsentAttempt EXCEPT !.status = "failed", !.request = task[t].request,
                                               !.automated = Unattended(t)])
        PROVE  RowsGo /\ NothingRuns
    <3>1. /\ attempt'[a].status = "failed" /\ attempt'[a].request = task[t].request
          /\ \A b \in Attempts \ {a} : attempt'[b] = attempt[b]
      BY <1>1, <2>3 DEF Insert, RowsOK, AbsentAttempt
    <3>2. ~Created(a)
      BY <2>3 DEF IsNextAttempt
    <3> QED
      BY <1>7, <2>2, <3>1, <3>2
      DEF GrabRefused, TransferInv, RowsGo, NothingRuns, AttemptRuns, Created, Runs, ActiveAttempt
  <2> QED
    BY <1>5, <1>7, <2>1, <2>3, SameRows, RequestStays DEF GrabRefused, TransferInv
<1>8. CASE GrabAdd(t) \/ GrabAddLost(t) \/ GrabAddRefused(t)
  <2>1. task[t].pc = "grab_add" /\ Grabs(t)
    BY <1>8 DEF GrabAdd, GrabAddLost, GrabAddRefused, At, Grabs, Adding
  <2>2. Plays(t)
    <3>1. CASE UNCHANGED task
      <4>1. TransfersOnly(t)'
        BY <3>1 DEF TransferInv, TransfersOnly
      <4> QED
        BY <1>3, <1>2, <2>1, <3>1, <4>1 DEF Plays, Grabs, Fails, Adding
    <3>2. CASE Go(t, "grab_confirm") \/ Go(t, "grab_failed")
      BY <1>4, <2>1, <3>2 DEF Adding
    <3> QED
      BY <1>8, <3>1, <3>2 DEF GrabAdd, GrabAddLost, GrabAddRefused
  <2>3. \A h \in Releases : client'[h] # "errored"
    <3>1. CASE ClientTakes(t)
      BY <1>1, <3>1 DEF ClientTakes, RowsOK, TransferInv
    <3> QED
      BY <1>8, <3>1 DEF GrabAdd, GrabAddLost, GrabAddRefused, TransferInv
  <2> QED
    BY <1>5, <1>8, <2>2, <2>3, SameRows, RequestStays DEF GrabAdd, GrabAddLost, GrabAddRefused, rows
<1>9. CASE GrabFailed(t)
  <2>1. /\ task[t].pc \in Adding /\ Grabs(t) /\ Go(t, "grab_rollback")
        /\ SetAttempt(task[t].attempt, "failed") /\ UNCHANGED <<request, client>>
    BY <1>9 DEF GrabFailed, At, Grabs, Adding
  <2>2. Inserted(task[t].attempt)
    BY <2>1 DEF TransferInv, RoleHasRows
  <2>3. attempt'[task[t].attempt].status = "failed"
    BY <1>1, <2>1, <2>2 DEF SetAttempt, RowsOK, AttemptRow, Inserted
  <2>4. \A a \in Attempts : Runs(a)' => task[t].attempt # a
    BY <2>3 DEF Runs, ActiveAttempt
  <2>5. Plays(t)
    BY <1>4, <2>1, <2>4
  <2>6. RowsGo /\ NothingRuns
    BY <2>1, <2>2, AttemptGoes DEF Inserted
  <2> QED
    BY <1>5, <2>1, <2>5, <2>6, RequestStays
<1>10. CASE GrabConfirm(t)
  <2>1. Plays(t)
    BY <1>10, ReturnsBy DEF GrabConfirm, At
  <2>2. StillShown
    BY <1>10, RequestGoes, RequestStays DEF GrabConfirm, UpdateRequestIf, ActiveTransfer
  <2> QED
    BY <1>5, <1>10, <2>1, <2>2, SameRows DEF GrabConfirm, TransferInv
<1>11. CASE GrabRollback(t)
  <2>1. Plays(t)
    BY <1>11, ReturnsBy, GoesBy DEF GrabRollback, At, Bystanding, Seeking, Grabbing, Searching
  <2>2. RowsGo /\ NothingRuns
    BY <1>11, SameRows DEF GrabRollback, TransferInv
  <2>3. ASSUME NEW r \in Requests, Shown(r), Held(r)' PROVE Shown(r)'
    <3>1. CASE r # task[t].request
      <4>1. request'[r].status = request[r].status
        BY <1>1, <1>11, <3>1 DEF GrabRollback, UpdateRequestIf, RowsOK, RequestRow
      <4> QED
        BY <2>3, <4>1 DEF Shown
    <3>2. CASE r = task[t].request
      <4>1. Fewer(r)
        BY <2>1, <2>2, PlaysFewer
      <4>2. Grabber(t, r) /\ task[t].pc \notin Adding
        BY <1>11, <3>2 DEF GrabRollback, At, Grabber, Grabs, Adding
      <4>3. ~Grabber(t, r)'
        <5>1. task'[t].pc \in {"idle", "auto_grab", "auto_failed"}
          BY <1>1, <1>2, <1>11 DEF GrabRollback, Go, Return, Idle, TaskState
        <5> QED
          BY <5>1 DEF Grabber, Grabs, Adding
      <4>4. ~Held(r)'
        BY <4>1, <4>2, <4>3 DEF Held, Fewer, TransferInv, Safe, HeldOnce
      <4> QED
        BY <2>3, <4>4
    <3> QED
      BY <3>1, <3>2
  <2> QED
    BY <2>1, <2>2, <2>3, PlaysSafely
<1> QED
  BY <1>6, <1>7, <1>8, <1>9, <1>10, <1>11

\* The steps that give a request to somebody: a claim, the row of a grab, an adoption, and
\* the failure of an attempt.  Nobody else gets one.
LEMMA HandsOver ==
  ASSUME Inv, TransferInv, RowsGo, StillShown, NEW t \in Handlers,
         \A u \in Tasks \ {t} : task'[u] = task[u],
         TransfersOnly(t)', RoleHasRows(t)', task'[t].pc # "fail_attempt",
         \A u \in Tasks :
           task'[t].pc \in Adding /\ task[u].pc = "fail_attempt" =>
             task[u].attempt # task'[t].attempt,
         NEW r \in Requests, Safe(r)', \A q \in Requests \ {r} : Fewer(q)
  PROVE  TransferInv'
<1>1. ASSUME NEW q \in Requests PROVE Safe(q)'
  BY FewerHold DEF TransferInv, StillShown
<1>2. ASSUME NEW u \in Tasks PROVE TransfersOnly(u)' /\ RoleHasRows(u)'
  BY OthersKeepRoles DEF Inv, TransferInv
<1>3. ASSUME NEW u \in Tasks PROVE AddIsSpared(u)'
  BY DEF TransferInv, AddIsSpared
<1> QED
  BY <1>1, <1>2, <1>3 DEF TransferInv, RowsGo

\* What holds a request other than r is what did.
LEMMA OthersFewer ==
  ASSUME Inv, TransferInv, RowsGo, NEW t \in Tasks, NEW r \in Requests,
         \A u \in Tasks \ {t} : task'[u] = task[u],
         Grabs(t)' => task'[t].request = r,
         Fails(t)' => Inserted(task'[t].attempt) /\ attempt[task'[t].attempt].request = r,
         \A a \in Attempts :
           Runs(a)' => \/ attempt'[a].request = r
                       \/ Runs(a) /\ attempt'[a].request = attempt[a].request
  PROVE  \A q \in Requests \ {r} : Fewer(q)
<1> SUFFICES ASSUME NEW q \in Requests, q # r PROVE Fewer(q)
  OBVIOUS
<1>1. \A a \in Attempts :
        Inserted(a) => Inserted(a)' /\ attempt'[a].request = attempt[a].request
  BY DEF RowsGo, Inserted
<1>2. ASSUME NEW u \in Tasks, Failing(u, q)'
      PROVE  Failing(u, q)
  <2>1. CASE u = t
    BY <1>1, <1>2, <2>1 DEF Failing, Inserted
  <2>2. CASE u # t
    <3>1. Fails(u) /\ task'[u].attempt = task[u].attempt
      BY <1>2, <2>2 DEF Failing, Fails
    <3>2. Inserted(task[u].attempt)
      BY <3>1 DEF TransferInv, RoleHasRows, Fails
    <3> QED
      BY <1>1, <1>2, <3>1, <3>2 DEF Failing, Inserted
  <2> QED
    BY <2>1, <2>2
<1>3. ASSUME NEW u \in Tasks, Grabber(u, q)'
      PROVE  /\ Grabber(u, q)
             /\ task[u].pc \in Adding =>
                  task'[u].pc \in Adding /\ task'[u].attempt = task[u].attempt
  <2>1. u # t
    BY <1>3 DEF Grabber
  <2> QED
    BY <1>3, <2>1 DEF Grabber, Grabs
<1>4. \A a \in Attempts : Running(a, q)' => Running(a, q)
  BY DEF Running
<1> QED
  BY <1>2, <1>3, <1>4 DEF Fewer

\* What nobody holds, and one then holds, one holds.
LEMMA NobodyHolds ==
  ASSUME TransferInv, NEW r \in Requests, ~Shown(r)
  PROVE  /\ \A u \in Tasks : ~Grabber(u, r) /\ ~Failing(u, r)
         /\ \A a \in Attempts : ~Running(a, r)
  BY DEF TransferInv, Safe, Held

\* A claim takes a request that nobody holds.
LEMMA ClaimIsSafe ==
  ASSUME Inv, TransferInv, NEW t \in Tasks, GrabClaim(t)
  PROVE  TransferInv'
<1>1. task \in [Tasks -> TaskState] /\ RowsOK
  BY DEF Inv, TasksOK
<1>2. t \in Handlers /\ t \notin ImportWorkers
  BY AwakeIsHandler DEF GrabClaim, At
<1>3. RowsGo /\ NothingRuns
  BY SameRows DEF GrabClaim, TransferInv
<1>4. CASE UNCHANGED request /\ (Go(t, "auto_failed") \/ Return(t))
  <2>1. Plays(t)
    BY <1>4, GoesBy, ReturnsBy DEF GrabClaim, At, Bystanding, Seeking, Grabbing, Searching
  <2> QED
    BY <1>3, <1>4, <2>1, RequestStays, PlaysSafely DEF StillShown
<1>5. ASSUME NEW r, r = task[t].request, request[r].status \in Grabbable,
             request' = [request EXCEPT ![r].status = "grabbed"], Go(t, "grab_resolve")
      PROVE  TransferInv'
  <2>1. /\ task'[t].pc = "grab_resolve" /\ task'[t].request = r
        /\ \A u \in Tasks \ {t} : task'[u] = task[u]
    BY <1>1, <1>5 DEF Go, TaskState
  <2>2. r \in Requests
    BY <1>5 DEF GrabClaim, At, TransferInv, RoleHasRows, Seeking, Grabbing
  <2>3. ~Shown(r)
    BY <1>5 DEF Shown, Grabbable, ActiveTransfer, Decided
  <2>4. StillShown
    BY <1>5, RequestGoes DEF ActiveTransfer
  <2>5. TransfersOnly(t)'
    BY <1>2, <2>1 DEF TransfersOnly, TransferPcs, Grabbing, Removing
  <2>6. RoleHasRows(t)'
    BY <2>1, <2>2 DEF RoleHasRows, Adding
  <2>7. \A q \in Requests \ {r} : Fewer(q)
    BY <1>3, <2>1, <2>2, OthersFewer DEF Fails, NothingRuns
  <2>8. /\ \A u \in Tasks : (Grabber(u, r)' => u = t) /\ ~Failing(u, r)'
        /\ \A a \in Attempts : ~Running(a, r)'
    <3>1. ASSUME NEW u \in Tasks PROVE (Grabber(u, r)' => u = t) /\ ~Failing(u, r)'
      <4>1. CASE u = t
        BY <2>1, <4>1 DEF Failing, Fails
      <4>2. CASE u # t
        <5>1. UNCHANGED attempt
          BY DEF GrabClaim
        <5> QED
          BY <2>1, <2>2, <2>3, <4>2, <5>1, NobodyHolds DEF Grabber, Grabs, Failing, Fails
      <4> QED
        BY <4>1, <4>2
    <3>2. ASSUME NEW a \in Attempts PROVE ~Running(a, r)'
      BY <2>2, <2>3, NobodyHolds DEF GrabClaim, Running, Runs
    <3> QED
      BY <3>1, <3>2
  <2>9. Shown(r)'
    BY <1>1, <1>5, <2>2 DEF Shown, RowsOK, RequestRow, ActiveTransfer
  <2>10. Safe(r)'
    BY <2>8, <2>9 DEF Safe, HeldOnce
  <2> QED
    BY <1>2, <1>3, <2>1, <2>2, <2>4, <2>5, <2>6, <2>7, <2>10, HandsOver DEF Adding
<1> QED
  BY <1>4, <1>5 DEF GrabClaim

\* The row of a grab is held by the grab that holds its request.
LEMMA CreateIsSafe ==
  ASSUME Inv, TransferInv, NEW t \in Tasks, NEW h \in Releases, GrabCreate(t, h)
  PROVE  TransferInv'
<1> DEFINE r == task[t].request
<1>1. task \in [Tasks -> TaskState] /\ RowsOK
  BY DEF Inv, TasksOK
<1>2. /\ task[t].pc = "grab_create" /\ Grabs(t)
      /\ UNCHANGED <<request, client>>
      /\ t \in Handlers /\ t \notin ImportWorkers
  BY AwakeIsHandler DEF GrabCreate, At, Grabs
<1>3. r \in Requests /\ Grabber(t, r)
  BY <1>2 DEF TransferInv, RoleHasRows, Seeking, Grabbing, Grabber
<1>4. StillShown
  BY <1>2, RequestStays
<1>5. CASE Go(t, "grab_rollback") /\ UNCHANGED attempt
  <2>1. /\ task'[t].pc = "grab_rollback" /\ task'[t].request = task[t].request
        /\ \A u \in Tasks \ {t} : task'[u] = task[u]
    BY <1>1, <1>5 DEF Go, TaskState
  <2>2. TransfersOnly(t)'
    BY <1>2, <2>1 DEF TransfersOnly, TransferPcs, Grabbing, Removing
  <2>3. Plays(t)
    BY <1>2, <1>3, <2>1, <2>2 DEF Plays, Fails, Adding
  <2> QED
    BY <1>2, <1>4, <1>5, <2>3, SameRows, PlaysSafely DEF StillShown, TransferInv
<1>6. ASSUME NEW a \in Attempts, IsNextAttempt(a),
             Insert(a, [AbsentAttempt EXCEPT !.status = "queued", !.release = h, !.request = r,
                                             !.automated = Unattended(t)]),
             task' = [task EXCEPT ![t].pc = "grab_add", ![t].attempt = a]
      PROVE  TransferInv'
  <2>1. /\ task'[t].pc = "grab_add" /\ task'[t].request = r /\ task'[t].attempt = a
        /\ \A u \in Tasks \ {t} : task'[u] = task[u]
    BY <1>1, <1>6 DEF TaskState
  <2>2. /\ attempt'[a].status = "queued" /\ attempt'[a].request = r /\ attempt'[a].release = h
        /\ \A b \in Attempts \ {a} : attempt'[b] = attempt[b]
    BY <1>1, <1>6 DEF Insert, RowsOK, AbsentAttempt
  <2>3. ~Created(a)
    BY <1>6 DEF IsNextAttempt
  <2>4. RowsGo
    BY <1>2, <1>3, <2>2, <2>3
    DEF TransferInv, RowsGo, AttemptRuns, Created, Runs, ActiveAttempt
  <2>5. TransfersOnly(t)'
    BY <1>2, <2>1 DEF TransfersOnly, TransferPcs, Grabbing, Removing
  <2>6. RoleHasRows(t)'
    BY <1>3, <2>1, <2>2 DEF RoleHasRows, Inserted, Created
  <2>7. \A q \in Requests \ {r} : Fewer(q)
    <3>1. \A b \in Attempts : Runs(b)' =>
            attempt'[b].request = r \/ (Runs(b) /\ attempt'[b].request = attempt[b].request)
      BY <2>2 DEF Runs
    <3> HIDE DEF r
    <3> QED
      BY <1>3, <2>1, <2>4, <3>1, OthersFewer DEF Fails
  <2>8. /\ \A u \in Tasks : ~Failing(u, r) /\ (Grabber(u, r) => u = t)
        /\ \A b \in Attempts : ~Running(b, r)
    <3>1. task[t].pc \notin Adding
      BY <1>2 DEF Adding
    <3> QED
      BY <1>3, <3>1 DEF TransferInv, Safe, HeldOnce
  <2>9. /\ \A u \in Tasks : (Grabber(u, r)' => u = t) /\ ~Failing(u, r)'
        /\ \A b \in Attempts : Running(b, r)' => b = a
    <3>1. ASSUME NEW u \in Tasks PROVE (Grabber(u, r)' => u = t) /\ ~Failing(u, r)'
      <4>1. CASE u = t
        BY <2>1, <4>1 DEF Failing, Fails
      <4>2. CASE u # t
        <5>1. Fails(u) => Inserted(task[u].attempt)
          BY DEF TransferInv, RoleHasRows, Fails
        <5>2. Fails(u) => attempt'[task[u].attempt] = attempt[task[u].attempt]
          BY <2>2, <2>3, <5>1 DEF Inserted
        <5> QED
          BY <2>1, <2>8, <4>2, <5>2 DEF Grabber, Grabs, Failing, Fails
      <4> QED
        BY <4>1, <4>2
    <3>2. ASSUME NEW b \in Attempts, Running(b, r)' PROVE b = a
      BY <2>1, <2>2, <2>8, <3>2 DEF Running, Runs
    <3> QED
      BY <3>1, <3>2
  <2>10. Shown(r)'
    <3>1. Shown(r)
      BY <1>3 DEF TransferInv, Safe, Held
    <3> QED
      BY <1>2, <2>1, <3>1 DEF Shown
  <2>11. Safe(r)'
    BY <2>1, <2>9, <2>10 DEF Safe, HeldOnce, Adding
  <2>12. \A u \in Tasks : task[u].pc = "fail_attempt" => task[u].attempt # a
    BY <2>3 DEF TransferInv, RoleHasRows, Inserted
  <2> QED
    BY <1>2, <1>3, <1>4, <2>1, <2>4, <2>5, <2>6, <2>7, <2>11, <2>12, HandsOver
<1> QED
  BY <1>5, <1>6 DEF GrabCreate

\* An adoption takes back a transfer of a request that nobody holds.
LEMMA AdoptIsSafe ==
  ASSUME Inv, TransferInv, NEW t \in Tasks, Adopt(t)
  PROVE  TransferInv'
<1>1. task \in [Tasks -> TaskState] /\ RowsOK
  BY DEF Inv, TasksOK
<1>2. /\ task[t].pc = "adopt" /\ task[t].attempt \in Attempts
      /\ task[t].says \in {"queued", "downloading", "completed"}
      /\ UNCHANGED client /\ t \in Handlers
  BY AwakeIsHandler DEF Adopt, At, Inv, TasksOK, Remembers
<1>3. Plays(t)
  BY <1>2, ReturnsBy DEF Adopt
<1>4. CASE UNCHANGED <<request, attempt>>
  BY <1>2, <1>3, <1>4, SameRows, RequestStays, PlaysSafely DEF StillShown, TransferInv
<1>5. ASSUME NEW a, NEW r, a = task[t].attempt, r = attempt[a].request,
             attempt[a].status = "failed", request[r].status \in Grabbable,
             attempt' = [attempt EXCEPT ![a].status = task[t].says],
             request' = [request EXCEPT
               ![r].status = IF task[t].says = "queued" THEN "grabbed" ELSE "downloading"]
      PROVE  TransferInv'
  <2>1. r \in Requests /\ a \in Attempts /\ ~Shown(r)
    BY <1>2, <1>5
    DEF TransferInv, AttemptRuns, Created, Shown, Grabbable, ActiveTransfer, Decided
  <2>2. /\ task'[t].pc = "idle"
        /\ \A u \in Tasks \ {t} : task'[u] = task[u]
    BY <1>1, <1>2, AwakeIsHandler DEF Adopt, Return, Idle
  <2>3. /\ attempt'[a].status = task[t].says /\ attempt'[a].request = r
        /\ attempt'[a].release = attempt[a].release
        /\ \A b \in Attempts \ {a} : attempt'[b] = attempt[b]
    BY <1>1, <1>5, <2>1 DEF RowsOK, AttemptRow
  <2>4. RowsGo
    BY <1>2, <1>5, <2>1, <2>3
    DEF TransferInv, RowsGo, AttemptRuns, Created, Runs, ActiveAttempt
  <2>5. TransfersOnly(t)' /\ RoleHasRows(t)'
    BY <1>3, <2>2 DEF Plays, RoleHasRows, Adding, Seeking, Grabbing, Searching
  <2>6. \A q \in Requests \ {r} : Fewer(q)
    <3>1. \A b \in Attempts : Runs(b)' =>
            attempt'[b].request = r \/ (Runs(b) /\ attempt'[b].request = attempt[b].request)
      BY <2>3 DEF Runs
    <3> QED
      BY <2>1, <2>2, <2>4, <3>1, OthersFewer DEF Fails, Grabs, Adding
  <2>7. StillShown
    <3>1. \A s \in {"grabbed", "downloading"} : s \in ActiveTransfer \cup Decided
      BY DEF ActiveTransfer
    <3>2. PICK s \in {"grabbed", "downloading"} : request' = [request EXCEPT ![r].status = s]
      BY <1>5
    <3> QED
      BY <2>1, <3>1, <3>2, RequestGoes
  <2>8. Shown(r)'
    BY <1>1, <1>5, <2>1 DEF Shown, RowsOK, RequestRow, ActiveTransfer
  <2>9. /\ \A u \in Tasks : ~Grabber(u, r)' /\ ~Failing(u, r)'
        /\ \A b \in Attempts : Running(b, r)' => b = a
    <3>1. ASSUME NEW u \in Tasks PROVE ~Grabber(u, r)' /\ ~Failing(u, r)'
      <4>1. CASE u = t
        BY <2>2, <4>1 DEF Grabber, Grabs, Failing, Fails, Adding
      <4>2. CASE u # t
        <5>1. Fails(u) => Inserted(task[u].attempt)
          BY DEF TransferInv, RoleHasRows, Fails
        <5>2. Fails(u) => attempt'[task[u].attempt].request = attempt[task[u].attempt].request
          BY <1>5, <2>3, <5>1 DEF Inserted
        <5> QED
          BY <2>1, <2>2, <4>2, <5>2, NobodyHolds DEF Grabber, Grabs, Failing, Fails
      <4> QED
        BY <4>1, <4>2
    <3>2. ASSUME NEW b \in Attempts, Running(b, r)' PROVE b = a
      BY <2>1, <2>3, <3>2, NobodyHolds DEF Running, Runs
    <3> QED
      BY <3>1, <3>2
  <2>10. Safe(r)'
    BY <2>8, <2>9 DEF Safe, HeldOnce
  <2> QED
    BY <1>2, <2>1, <2>2, <2>4, <2>5, <2>6, <2>7, <2>10, HandsOver DEF Adding
<1> QED
  BY <1>4, <1>5 DEF Adopt

\* A failure has the request that its attempt had, as no grab is adding it.
LEMMA FailAttemptIsSafe ==
  ASSUME Inv, TransferInv, NEW t \in Tasks, FailAttempt(t)
  PROVE  TransferInv'
<1>1. task \in [Tasks -> TaskState] /\ RowsOK
  BY DEF Inv, TasksOK
<1>2. /\ task[t].pc = "fail_attempt" /\ Inserted(task[t].attempt)
      /\ UNCHANGED <<request, client>> /\ t \in Handlers /\ t \notin ImportWorkers
  BY AwakeIsHandler DEF FailAttempt, At, TransferInv, RoleHasRows
<1>3. StillShown
  BY <1>2, RequestStays
<1>4. CASE Return(t) /\ UNCHANGED attempt
  <2>1. Plays(t)
    BY <1>2, <1>4, ReturnsBy
  <2> QED
    BY <1>2, <1>3, <1>4, <2>1, SameRows, PlaysSafely DEF StillShown, TransferInv
<1>5. ASSUME NEW a, NEW r, a = task[t].attempt, r = attempt[a].request,
             attempt[a].status \in Unsettled, SetAttempt(a, "failed"), Go(t, "fail_request")
      PROVE  TransferInv'
  <2>1. a \in Attempts /\ r \in Requests /\ Created(a) /\ Running(a, r)
    BY <1>2, <1>5
    DEF TransferInv, AttemptRuns, Inserted, Running, Unsettled, InFlight, ActiveAttempt
  <2>2. /\ task'[t].pc = "fail_request" /\ task'[t].attempt = a
        /\ \A u \in Tasks \ {t} : task'[u] = task[u]
    BY <1>1, <1>5 DEF Go, TaskState
  <2>3. \A b \in Attempts :
          /\ attempt'[b].request = attempt[b].request
          /\ attempt'[b].status = IF b = a THEN "failed" ELSE attempt[b].status
    BY <1>1, <1>5 DEF RowsOK, AttemptRow, SetAttempt
  <2>4. RowsGo /\ NothingRuns
    BY <1>2, <1>5, <2>1, AttemptGoes
  <2>5. TransfersOnly(t)'
    BY <1>2, <2>2 DEF TransfersOnly, TransferPcs, Removing
  <2>6. RoleHasRows(t)'
    BY <2>1, <2>2, <2>4 DEF RoleHasRows, RowsGo, Inserted, Adding, Seeking, Grabbing, Searching
  <2>7. \A q \in Requests \ {r} : Fewer(q)
    <3>1. Inserted(a) /\ attempt'[a].request = r /\ ~Grabs(t)'
      BY <1>5, <2>1, <2>2, <2>3 DEF Inserted, Grabs, Adding
    <3>2. \A b \in Attempts : Runs(b)' =>
            attempt'[b].request = r \/ (Runs(b) /\ attempt'[b].request = attempt[b].request)
      BY <2>4 DEF NothingRuns
    <3>3. Fails(t)' => Inserted(task'[t].attempt) /\ attempt[task'[t].attempt].request = r
      BY <1>5, <2>2, <3>1
    <3> QED
      BY <2>1, <2>2, <2>4, <3>1, <3>2, <3>3, OthersFewer
  <2>8. /\ \A u \in Tasks : ~Grabber(u, r)' /\ (Failing(u, r)' => u = t)
        /\ \A b \in Attempts : ~Running(b, r)'
    <3>1. ASSUME NEW u \in Tasks PROVE ~Grabber(u, r)' /\ (Failing(u, r)' => u = t)
      <4>1. CASE u = t
        BY <2>2, <4>1 DEF Grabber, Grabs, Adding
      <4>2. CASE u # t
        <5>1. ~Grabber(u, r)
          <6>1. Grabber(u, r) => task[u].pc \in Adding /\ task[u].attempt = a
            BY <2>1 DEF TransferInv, Safe, HeldOnce
          <6> QED
            BY <1>2, <1>5, <6>1 DEF TransferInv, AddIsSpared
        <5>2. ~Failing(u, r)
          BY <2>1 DEF TransferInv, Safe, HeldOnce
        <5>3. Fails(u) => Inserted(task[u].attempt)
          BY DEF TransferInv, RoleHasRows, Fails
        <5> QED
          BY <2>2, <2>3, <4>2, <5>1, <5>2, <5>3 DEF Grabber, Grabs, Failing, Fails, Inserted
      <4> QED
        BY <4>1, <4>2
    <3>2. ASSUME NEW b \in Attempts, Running(b, r)' PROVE FALSE
      <4>1. Running(b, r) /\ b # a
        BY <2>3, <3>2 DEF Running, Runs, ActiveAttempt
      <4> QED
        BY <2>1, <4>1 DEF TransferInv, Safe, HeldOnce
    <3> QED
      BY <3>1, <3>2
  <2>9. Shown(r)'
    <3>1. Shown(r)
      BY <2>1 DEF TransferInv, Safe, Held
    <3> QED
      BY <1>2, <3>1 DEF Shown
  <2>10. Safe(r)'
    BY <2>8, <2>9 DEF Safe, HeldOnce
  <2> QED
    BY <1>2, <1>3, <2>1, <2>2, <2>4, <2>5, <2>6, <2>7, <2>10, HandsOver DEF Adding
<1> QED
  BY <1>4, <1>5 DEF FailAttempt

\* The failure reaches the request of its attempt, which nothing holds any longer.
LEMMA FailRequestIsSafe ==
  ASSUME Inv, TransferInv, NEW t \in Tasks, FailRequest(t)
  PROVE  TransferInv'
<1> DEFINE r == attempt[task[t].attempt].request
<1>1. task \in [Tasks -> TaskState] /\ RowsOK
  BY DEF Inv, TasksOK
<1>2. /\ task[t].pc = "fail_request" /\ Inserted(task[t].attempt)
      /\ UNCHANGED <<attempt, client>> /\ Failing(t, r)
  BY DEF FailRequest, At, TransferInv, RoleHasRows, Failing, Fails
<1>3. Plays(t) /\ RowsGo /\ NothingRuns
  BY <1>2, ReturnsBy, SameRows DEF FailRequest, TransferInv
<1>4. task'[t].pc = "idle"
  BY <1>1, <1>2, AwakeIsHandler DEF FailRequest, Return, Idle
<1> HIDE DEF r
<1>5. ASSUME NEW q \in Requests, Shown(q), Held(q)' PROVE Shown(q)'
  <2>1. CASE q # r
    <3>1. request'[q].status = request[q].status
      BY <1>1, <2>1 DEF FailRequest, UpdateRequestIf, RowsOK, RequestRow, r
    <3> QED
      BY <1>5, <3>1 DEF Shown
  <2>2. CASE q = r
    <3>1. Fewer(q)
      BY <1>3, PlaysFewer
    <3>2. ~Failing(t, q)' /\ Failing(t, q)
      BY <1>2, <1>4, <2>2 DEF Failing, Fails
    <3>3. ~Held(q)'
      BY <3>1, <3>2 DEF Held, Fewer, TransferInv, Safe, HeldOnce
    <3> QED
      BY <1>5, <3>3
  <2> QED
    BY <2>1, <2>2
<1> QED
  BY <1>3, <1>5, PlaysSafely

\* A pass, and the sweep for requests nobody picked a release for, write only over statuses
\* that no transfer shows.
LEMMA AutomationIsSafe ==
  ASSUME Inv, TransferInv, NEW t \in Tasks, AutomationStep(t)
  PROVE  TransferInv'
<1> DEFINE r == task[t].request
<1>1. task \in [Tasks -> TaskState] /\ RowsOK
  BY DEF Inv, TasksOK
<1>2. RowsGo /\ NothingRuns
  BY SameRows
  DEF AutomationStep, PassClaim, PassDeclines, SearchFindsNothing, SearchFinds, PassGrabs,
      PassFails,
      Abandon, TransferInv, rows
<1>3. \A s \in Grabbable : s \notin ActiveTransfer \cup Decided
  BY DEF Grabbable, ActiveTransfer, Decided
<1>4. ASSUME NEW from, HandBack(t, from), from \subseteq Grabbable
      PROVE  StillShown
  <2>1. CASE UNCHANGED request
    BY <2>1, RequestStays
  <2>2. CASE \E s : UpdateRequestIf(r, from, s)
    BY <1>3, <1>4, <2>2, RequestGoes, RequestStays DEF UpdateRequestIf, Shown
  <2> QED
    BY <1>4, <2>1, <2>2 DEF HandBack
<1>5. CASE PassClaim(t)
  <2>1. task[t].was \in Grabbable
    BY <1>5 DEF Inv, TasksOK, Remembers, PassClaim, At
  <2>2. StillShown
    BY <1>3, <1>5, <2>1, RequestGoes, RequestStays DEF PassClaim, Shown
  <2>3. Plays(t)
    BY <1>5, GoesBy, ReturnsBy DEF PassClaim, At, Bystanding, Seeking, Grabbing, Searching
  <2> QED
    BY <1>2, <2>2, <2>3, PlaysSafely DEF StillShown
<1>6. CASE PassDeclines(t)
  <2>1. task[t].was \in Grabbable
    BY <1>6 DEF Inv, TasksOK, Remembers, PassDeclines, At
  <2>2. StillShown
    BY <1>4, <1>6, <2>1, RequestStays DEF PassDeclines
  <2>3. Plays(t)
    BY <1>6, ReturnsBy DEF PassDeclines, At, HandBack
  <2> QED
    BY <1>2, <2>2, <2>3, PlaysSafely DEF StillShown
<1>7. CASE SearchFindsNothing(t)
  <2>1. StillShown
    BY <1>4, <1>7 DEF SearchFindsNothing, Grabbable
  <2>2. Plays(t)
    BY <1>7, ReturnsBy DEF SearchFindsNothing, At, HandBack
  <2> QED
    BY <1>2, <2>1, <2>2, PlaysSafely DEF StillShown
<1>8. CASE SearchFinds(t)
  <2>1. Plays(t)
    BY <1>8, GoesBy DEF SearchFinds, At, Bystanding, Seeking, Searching
  <2> QED
    BY <1>2, <1>8, <2>1, RequestStays, PlaysSafely DEF StillShown, SearchFinds, rows
<1>9. CASE PassGrabs(t)
  <2>1. Plays(t)
    <3>1. CASE Go(t, "auto_failed")
      BY <1>9, <3>1, GoesBy DEF PassGrabs, At, Bystanding, Seeking, Searching
    <3>2. CASE task' = [task EXCEPT ![t].pc = "grab_claim", ![t].was = request[r].status]
      <4>1. /\ task'[t].pc = "grab_claim" /\ task'[t].request = r
            /\ \A u \in Tasks \ {t} : task'[u] = task[u]
        BY <1>1, <3>2 DEF TaskState
      <4>2. r \in Requests /\ t \in Handlers
        BY <1>9, AwakeIsHandler DEF PassGrabs, At, TransferInv, RoleHasRows, Seeking, Searching
      <4> QED
        BY <4>1, <4>2, StandsBy DEF Bystanding
    <3> QED
      BY <1>9, <3>1, <3>2 DEF PassGrabs
  <2> QED
    BY <1>2, <1>9, <2>1, RequestStays, PlaysSafely DEF StillShown, PassGrabs, rows
<1>10. CASE PassFails(t)
  <2>1. StillShown
    BY <1>3, <1>10, RequestGoes, RequestStays DEF PassFails, UpdateRequestIf, Shown, Grabbable
  <2>2. Plays(t)
    BY <1>10, ReturnsBy DEF PassFails, At
  <2> QED
    BY <1>2, <2>1, <2>2, PlaysSafely DEF StillShown
<1>11. CASE Abandon(t)
  <2>1. StillShown
    BY <1>11, RequestGoes, RequestStays DEF Abandon, UpdateRequestIf, Decided
  <2>2. Plays(t)
    BY <1>11, ReturnsBy DEF Abandon, At
  <2> QED
    BY <1>2, <2>1, <2>2, PlaysSafely DEF StillShown
<1> QED
  BY <1>5, <1>6, <1>7, <1>8, <1>9, <1>10, <1>11 DEF AutomationStep

\* A poll says what the client said, of an attempt that is on its way still.
LEMMA MonitorIsSafe ==
  ASSUME Inv, TransferInv, NEW t \in Tasks, MonitorStep(t)
  PROVE  TransferInv'
<1> DEFINE a == task[t].attempt
<1>1. UNCHANGED client
  BY DEF MonitorStep, PollApply, PollRequest, ResumeEnqueue
<1>2. task[t].pc # "idle"
  BY DEF MonitorStep, PollApply, PollRequest, ResumeEnqueue, At
<1>3. CASE PollApply(t)
  <2>1. Plays(t)
    BY <1>2, <1>3, GoesBy, ReturnsBy
    DEF PollApply, HandOff, Bystanding, Seeking, Grabbing, Searching
  <2>2. a \in Attempts /\ task[t].says \in {"queued", "downloading", "completed"}
    BY <1>3 DEF Inv, TasksOK, Remembers, PollApply, At
  <2>3. RowsGo /\ NothingRuns
    <3>1. CASE attempt[a].status \in ActiveAttempt /\ SetAttempt(a, task[t].says)
      <4>1. Created(a) /\ Runs(a)
        BY <3>1 DEF Created, Runs, ActiveAttempt
      <4>2. task[t].says \in ActiveAttempt \cup {"completed"}
        BY <2>2 DEF ActiveAttempt
      <4> QED
        BY <1>1, <3>1, <4>1, <4>2, AttemptGoes
    <3>2. CASE UNCHANGED attempt
      BY <1>1, <3>2, SameRows DEF TransferInv
    <3> QED
      BY <1>3, <3>1, <3>2 DEF PollApply
  <2> QED
    BY <1>3, <2>1, <2>3, RequestStays, PlaysSafely DEF StillShown, PollApply
<1>4. CASE PollRequest(t)
  <2>1. Plays(t)
    BY <1>2, <1>4, ReturnsBy DEF PollRequest, HandOff
  <2>2. RowsGo /\ NothingRuns
    BY <1>1, <1>4, SameRows DEF PollRequest, TransferInv
  <2>3. StillShown
    BY <1>4, RequestGoes, RequestStays DEF PollRequest, UpdateRequestIf, ActiveTransfer
  <2> QED
    BY <2>1, <2>2, <2>3, PlaysSafely DEF StillShown
<1>5. CASE ResumeEnqueue(t)
  <2>1. Plays(t)
    BY <1>2, <1>5, ReturnsBy DEF ResumeEnqueue
  <2>2. RowsGo /\ NothingRuns
    BY <1>1, <1>5, SameRows DEF ResumeEnqueue, TransferInv, rows
  <2> QED
    BY <1>5, <2>1, <2>2, RequestStays, PlaysSafely DEF StillShown, ResumeEnqueue, rows
<1> QED
  BY <1>3, <1>4, <1>5 DEF MonitorStep

\* A person who settles a request fails what is on its way for it.
LEMMA RemovalIsSafe ==
  ASSUME Inv, TransferInv, NEW t \in Tasks, RemovalStep(t) \/ SettleRefused(t)
  PROVE  TransferInv'
<1>1. task \in [Tasks -> TaskState] /\ RowsOK
  BY DEF Inv, TasksOK
<1>2. /\ task[t].pc \in {"latest", "detach", "fail_in_flight", "after_removal", "fulfil_attempts"}
      /\ task[t].pc \in Removing => task[t].says \in {"cancel", "fulfil"}
      /\ t \in Handlers /\ t \notin ImportWorkers
  BY AwakeIsHandler
  DEF RemovalStep, Latest, Detach, DetachRefused, FailInFlight, SettleStopped, SettleRemoved,
      Settle,
      SettleFulfilled, SettleRefused, FailInFlightForRequest, At, TransferInv, TransfersOnly
<1>3. ASSUME NEW pc \in Removing, task'[t].pc = pc, task'[t].says = task[t].says,
             task[t].pc \in Removing, \A u \in Tasks \ {t} : task'[u] = task[u]
      PROVE  Plays(t)
  <2>1. TransfersOnly(t)'
    BY <1>2, <1>3 DEF TransfersOnly, TransferPcs, Removing
  <2>2. pc \notin Seeking \cup Adding \cup
                   {"grab_resolve", "grab_create", "grab_rollback", "fail_attempt", "fail_request"}
    BY DEF Removing, Seeking, Grabbing, Searching, Adding
  <2> QED
    BY <1>2, <1>3, <2>1, <2>2 DEF Plays, Grabs, Fails
<1>4. ASSUME task[t].pc \in Removing, NEW pc \in Removing, Go(t, pc)
      PROVE  Plays(t)
  <2>1. /\ task'[t].pc = pc /\ task'[t].says = task[t].says
        /\ \A u \in Tasks \ {t} : task'[u] = task[u]
    BY <1>1, <1>4 DEF Go, TaskState
  <2> QED
    BY <1>3, <1>4, <2>1
<1>5. ASSUME Return(t) PROVE Plays(t)
  BY <1>2, <1>5, ReturnsBy
<1>6. ASSUME RowsGo, NothingRuns, Plays(t), StillShown
      PROVE  TransferInv'
  BY <1>6, PlaysSafely DEF StillShown
<1>7. CASE Latest(t) \/ Detach(t) \/ DetachRefused(t)
  <2>1. /\ task[t].pc \in Removing
        /\ UNCHANGED <<attempt, request>>
    BY <1>7 DEF Latest, Detach, DetachRefused, At, Removing, rows
  <2>2. Plays(t)
    <3>1. ASSUME NEW a \in Attempts, task' = [task EXCEPT ![t].pc = "detach", ![t].attempt = a]
          PROVE  Plays(t)
      <4>1. /\ task'[t].pc = "detach" /\ task'[t].says = task[t].says
            /\ \A u \in Tasks \ {t} : task'[u] = task[u]
        BY <1>1, <3>1 DEF TaskState
      <4> QED
        BY <1>3, <2>1, <4>1 DEF Removing
    <3>2. CASE \E pc \in Removing : Go(t, pc)
      BY <1>4, <2>1, <3>2
    <3> QED
      BY <1>5, <1>7, <3>1, <3>2 DEF Latest, Detach, DetachRefused, AfterRemoval, Removing
  <2>3. \A h \in Releases : client'[h] # "errored"
    BY <1>1, <1>7 DEF Latest, Detach, DetachRefused, TransferInv, RowsOK
  <2> QED
    BY <1>6, <2>1, <2>2, <2>3, SameRows, RequestStays
<1>8. CASE FailInFlight(t)
  <2> DEFINE a == task[t].attempt
  <2>1. task[t].pc \in Removing /\ UNCHANGED <<request, client>>
    BY <1>8 DEF FailInFlight, At, Removing
  <2>2. Plays(t)
    BY <1>4, <1>5, <1>8, <2>1 DEF FailInFlight, AfterRemoval, Removing
  <2>3. RowsGo /\ NothingRuns
    <3>1. CASE attempt[a].status \in InFlight /\ SetAttempt(a, "failed")
      <4>1. Created(a)
        BY <3>1 DEF Created, InFlight, ActiveAttempt
      <4> QED
        BY <2>1, <3>1, <4>1, AttemptGoes
    <3>2. CASE UNCHANGED attempt
      BY <2>1, <3>2, SameRows DEF TransferInv
    <3> QED
      BY <1>8, <3>1, <3>2 DEF FailInFlight, SetAttempt
  <2> QED
    BY <1>6, <2>1, <2>2, <2>3, RequestStays
<1>9. CASE SettleStopped(t) \/ SettleRemoved(t)
  BY <1>2, <1>9 DEF SettleStopped, SettleRemoved, Settle, At, Removing
<1>10. CASE SettleFulfilled(t)
  <2>1. UNCHANGED <<attempt, client>>
    BY <1>10 DEF SettleFulfilled
  <2>2. Plays(t)
    BY <1>2, <1>5, <1>10, GoesBy DEF SettleFulfilled, Bystanding, Seeking, Grabbing, Searching
  <2>3. StillShown
    BY <1>1, <1>10, RequestStays
    DEF SettleFulfilled, RowsOK, RequestRow, StillShown, Shown, Decided
  <2> QED
    BY <1>6, <2>1, <2>2, <2>3, SameRows DEF TransferInv
<1>11. CASE FailInFlightForRequest(t)
  <2>1. \A b \in Attempts :
          /\ attempt'[b].request = attempt[b].request
          /\ attempt'[b].release = attempt[b].release
          /\ attempt'[b].status = attempt[b].status
             \/ (attempt[b].status \in InFlight /\ attempt'[b].status = "failed")
    BY <1>1, <1>11 DEF FailInFlightForRequest, RowsOK, AttemptRow
  <2>2. RowsGo /\ NothingRuns
    BY <1>11, <2>1
    DEF FailInFlightForRequest, TransferInv, RowsGo, NothingRuns, AttemptRuns, Created, Runs,
        InFlight, ActiveAttempt
  <2> QED
    BY <1>5, <1>6, <1>11, <2>2, RequestStays DEF FailInFlightForRequest
<1>12. CASE SettleRefused(t)
  <2>1. UNCHANGED <<request, attempt, client>> /\ Return(t)
    BY <1>12 DEF SettleRefused, rows
  <2>2. Plays(t)
    BY <1>5, <2>1
  <2> QED
    BY <1>6, <2>1, <2>2, SameRows, RequestStays DEF TransferInv
<1> QED
  BY <1>7, <1>8, <1>9, <1>10, <1>11, <1>12 DEF RemovalStep

Imported == {"import", "choose", "verify", "refetch", "force_file", "discard"}
TakenAway == {"client_fails", "watchdog", "stop", "remove"}

\* A transfer is neither taken away behind the back of its grab nor imported.
TransfersAlone == Operations \cap (Imported \cup TakenAway) = {}

\* A beginning that takes no part in a transfer leaves the rows, and does so.
LEMMA BeginsBy ==
  ASSUME Inv, TransferInv, NEW t \in Handlers, task[t] = Idle, UNCHANGED <<attempt, client>>,
         StillShown,
         task'[t].pc \in Bystanding \/ Plays(t),
         task'[t].pc \in Seeking => task'[t].request \in Requests,
         \A u \in Tasks \ {t} : task'[u] = task[u]
  PROVE  TransferInv'
<1>1. RowsGo /\ NothingRuns
  BY SameRows DEF TransferInv
<1>2. Plays(t) /\ t \in Tasks
  BY StandsBy DEF Tasks
<1> QED
  BY <1>1, <1>2, PlaysSafely DEF StillShown

\* A poll that does not find a transfer in the client fails it once nobody is adding it.
LEMMA PollReadIsSafe ==
  ASSUME Inv, TransferInv, NEW t \in Tasks, NEW a \in Attempts, PollRead(t, a)
  PROVE  TransferInv'
<1>1. task \in [Tasks -> TaskState] /\ RowsOK
  BY DEF Inv, TasksOK
<1>2. /\ t \in Handlers /\ task[t] = Idle /\ UNCHANGED <<request, attempt, client>>
      /\ attempt[a].status \in ActiveAttempt
  BY DEF PollRead, Free, rows
<1>3. PICK says \in Answers(attempt[a].release) :
        task' = [task EXCEPT ![t].pc = IF says = "failing" THEN "fail_attempt" ELSE "poll_apply",
                             ![t].attempt = a,
                             ![t].was = attempt[a].status,
                             ![t].says = says]
  BY DEF PollRead
<1>4. /\ task'[t].pc = IF says = "failing" THEN "fail_attempt" ELSE "poll_apply"
      /\ task'[t].attempt = a
      /\ \A u \in Tasks \ {t} : task'[u] = task[u]
  BY <1>1, <1>3 DEF TaskState
<1>5. CASE says # "failing"
  BY <1>2, <1>4, <1>5, RequestStays, BeginsBy
  DEF Bystanding, Seeking, Grabbing, Searching
<1>6. CASE says = "failing"
  <2>1. Inserted(a)
    BY <1>2 DEF Inserted, Created, ActiveAttempt
  <2>2. ASSUME NEW u \in Tasks, task[u].pc \in Adding, task[u].attempt = a
        PROVE  FALSE
    <3>1. attempt[a].release \in Releases
      BY <2>2 DEF TransferInv, RoleHasRows
    <3>2. u \in Handlers
      BY <2>2, AwakeIsHandler DEF Adding
    <3>3. client[attempt[a].release] = "absent"
      <4>1. client[attempt[a].release] \in {"absent", "running", "done"}
        BY <1>1, <3>1 DEF RowsOK, TransferInv
      <4> QED
        BY <1>3, <1>6, <4>1 DEF Answers
    <3> QED
      BY <2>2, <3>2, <3>3 DEF PollRead, BeingAdded, Adding
  <2>3. TransfersOnly(t)'
    <3>1. t \notin ImportWorkers
      BY <1>2, TasksAssumption
    <3> QED
      BY <1>4, <1>6, <3>1 DEF TransfersOnly, TransferPcs, Removing
  <2>4. Plays(t)
    BY <1>2, <1>4, <1>6, <2>1, <2>2, <2>3
    DEF Plays, Grabs, Fails, Adding, Seeking, Grabbing, Searching
  <2> QED
    BY <1>2, <1>4, <1>6, <2>4, RequestStays, BeginsBy DEF Seeking, Grabbing, Searching
<1> QED
  BY <1>5, <1>6

\* What begins holds no request yet; a cancellation decides one as it begins.
LEMMA StartIsSafe ==
  ASSUME TransfersAlone, Inv, TransferInv, NEW t \in Tasks, Start(t)
  PROVE  TransferInv'
<1>1. task \in [Tasks -> TaskState] /\ RowsOK
  BY DEF Inv, TasksOK
<1>2. ASSUME NEW r \in Requests,
             \/ GrabRead(t, r) \/ AbandonRead(t, r)
             \/ \E trigger \in {"unattended", "retry"} : PassRead(t, r, trigger)
      PROVE  TransferInv'
  <2>1. /\ task'[t].pc \in {"grab_claim", "abandon", "auto_claim"} /\ task'[t].request = r
        /\ \A u \in Tasks \ {t} : task'[u] = task[u]
    <3>1. CASE GrabRead(t, r)
      BY <1>1, <3>1 DEF GrabRead, TaskState
    <3>2. CASE AbandonRead(t, r)
      BY <1>1, <3>2 DEF AbandonRead, TaskState
    <3>3. CASE \E trigger \in {"unattended", "retry"} : PassRead(t, r, trigger)
      BY <1>1, <3>3 DEF PassRead, TaskState
    <3> QED
      BY <1>2, <3>1, <3>2, <3>3
  <2>2. /\ t \in Handlers /\ task[t] = Idle /\ UNCHANGED <<request, attempt, client>>
    BY <1>2 DEF GrabRead, AbandonRead, PassRead, Free, rows
  <2> QED
    BY <2>1, <2>2, RequestStays, BeginsBy DEF Bystanding, Searching
<1>3. ASSUME NEW a \in Attempts, AdoptRead(t, a) \/ ResumeRead(t, a)
      PROVE  TransferInv'
  <2>1. /\ task'[t].pc \in {"adopt", "resume"}
        /\ \A u \in Tasks \ {t} : task'[u] = task[u]
    <3>1. CASE AdoptRead(t, a)
      BY <1>1, <3>1 DEF AdoptRead, TaskState
    <3>2. CASE ResumeRead(t, a)
      BY <1>1, <3>2 DEF ResumeRead, TaskState
    <3> QED
      BY <1>3, <3>1, <3>2
  <2>2. /\ t \in Handlers /\ task[t] = Idle /\ UNCHANGED <<request, attempt, client>>
    BY <1>3 DEF AdoptRead, ResumeRead, Free, rows
  <2> QED
    BY <2>1, <2>2, RequestStays, BeginsBy DEF Bystanding, Seeking, Grabbing, Searching
<1>4. ASSUME NEW says \in {"cancel", "fulfil"}, Free(t), UNCHANGED <<attempt, client>>, StillShown,
             task'[t].pc = "latest", task'[t].says = says,
             \A u \in Tasks \ {t} : task'[u] = task[u]
      PROVE  TransferInv'
  <2>1. /\ task'[t].pc = "latest" /\ task'[t].says = says
        /\ \A u \in Tasks \ {t} : task'[u] = task[u]
    BY <1>4
  <2>2. t \in Handlers /\ t \notin ImportWorkers /\ task[t] = Idle
    BY <1>4, TasksAssumption DEF Free
  <2>3. TransfersOnly(t)'
    BY <2>1, <2>2 DEF TransfersOnly, TransferPcs
  <2>4. Plays(t)
    BY <2>1, <2>2, <2>3 DEF Plays, Grabs, Fails, Adding, Seeking, Grabbing, Searching
  <2> QED
    BY <1>4, <2>1, <2>2, <2>4, BeginsBy DEF Seeking, Grabbing, Searching
<1>5. ASSUME NEW r \in Requests, Cancel(t, r)
      PROVE  TransferInv'
  <2>1. StillShown
    BY <1>5, RequestGoes DEF Cancel, Decided
  <2>2. /\ task'[t].pc = "latest" /\ task'[t].says = "cancel"
        /\ \A u \in Tasks \ {t} : task'[u] = task[u]
    BY <1>1, <1>5 DEF Cancel, Begin, TaskState
  <2> QED
    BY <1>4, <1>5, <2>1, <2>2 DEF Cancel
<1>6. ASSUME NEW r \in Requests, MarkFulfilled(t, r)
      PROVE  TransferInv'
  <2>1. /\ task'[t].pc = "latest" /\ task'[t].says = "fulfil"
        /\ \A u \in Tasks \ {t} : task'[u] = task[u]
    BY <1>1, <1>6, FulfilBegins
  <2>2. Free(t) /\ UNCHANGED <<attempt, client>> /\ StillShown
    BY <1>6, RequestStays DEF MarkFulfilled, rows
  <2> QED
    BY <1>4, <2>1, <2>2
<1> QED
  BY <1>2, <1>3, <1>5, <1>6, PollReadIsSafe
  DEF TransfersAlone, Imported, TakenAway, Start, On, GrabStart, PassStart, AdoptStart, MonitorStart

\* A process that dies forgets its activations, and with them what they held.
LEMMA RestartIsSafe ==
  ASSUME Inv, TransferInv, Restart
  PROVE  TransferInv'
<1>1. \A u \in Tasks : task'[u] = Idle
  BY DEF Restart
<1>2. UNCHANGED <<request, attempt, client>>
  BY DEF Restart, rows
<1>3. ASSUME NEW u \in Tasks PROVE TransfersOnly(u)' /\ RoleHasRows(u)' /\ AddIsSpared(u)'
  BY <1>1 DEF Idle, TransfersOnly, TransferPcs, RoleHasRows, AddIsSpared, Removing, Adding, Seeking,
              Grabbing, Searching
<1>4. ASSUME NEW r \in Requests PROVE Safe(r)'
  <2>1. Fewer(r)
    BY <1>1, <1>2 DEF Fewer, Grabber, Grabs, Failing, Fails, Running, Runs, Idle, Adding
  <2> QED
    BY <1>2, <2>1, FewerHold DEF TransferInv, Shown
<1> QED
  BY <1>2, <1>3, <1>4 DEF TransferInv, AttemptRuns, Created, Runs

\* What is written without an activation moves no request out of a transfer.
LEMMA RowsAreSafe ==
  ASSUME Inv, TransferInv, RowsGo, NothingRuns, StillShown, UNCHANGED task
  PROVE  TransferInv'
<1>1. ASSUME NEW u \in Tasks PROVE TransfersOnly(u)' /\ RoleHasRows(u)' /\ AddIsSpared(u)'
  BY OthersKeepRoles DEF Inv, TransferInv, AddIsSpared
<1>2. ASSUME NEW r \in Requests PROVE Safe(r)'
  <2>1. ASSUME NEW u \in Tasks, Failing(u, r)' PROVE Failing(u, r)
    <3>1. Fails(u) /\ Inserted(task[u].attempt)
      BY <2>1 DEF TransferInv, RoleHasRows, Failing, Fails
    <3>2. attempt'[task[u].attempt].request = attempt[task[u].attempt].request
      BY <3>1 DEF RowsGo, Inserted
    <3> QED
      BY <2>1, <3>1, <3>2 DEF Failing
  <2>2. \A u \in Tasks : Grabber(u, r)' => Grabber(u, r)
    BY DEF Grabber, Grabs
  <2>3. \A a \in Attempts : Running(a, r)' => Running(a, r)
    BY DEF NothingRuns, Running
  <2>4. Fewer(r)
    BY <2>1, <2>2, <2>3 DEF Fewer
  <2> QED
    BY <2>4, FewerHold DEF TransferInv, StillShown
<1> QED
  BY <1>1, <1>2 DEF TransferInv, RowsGo

\* Approvals, sweeps, the client and a restart take part in no transfer.
LEMMA EnvironmentIsSafe ==
  ASSUME TransfersAlone, Inv, TransferInv, Environment
  PROVE  TransferInv'
<1>1. task \in [Tasks -> TaskState] /\ RowsOK
  BY DEF Inv, TasksOK
<1>2. ASSUME NEW r \in Requests, ReleaseSearch(r) \/ Approve(r) \/ Reject(r)
      PROVE  TransferInv'
  <2>1. StillShown
    <3>1. PICK s : request' = [request EXCEPT ![r].status = s]
      BY <1>2 DEF ReleaseSearch, Approve, Reject, Decide
    <3>2. ~Shown(r)
      BY <1>2 DEF ReleaseSearch, Approve, Reject, Decide, Shown, ActiveTransfer, Decided
    <3> QED
      BY <3>1, <3>2, RequestGoes
  <2>2. RowsGo /\ NothingRuns
    BY <1>2, SameRows DEF ReleaseSearch, Approve, Reject, Decide, TransferInv
  <2> QED
    BY <1>2, <2>1, <2>2, RowsAreSafe DEF ReleaseSearch, Approve, Reject, Decide
<1>3. ASSUME NEW f \in DockFiles, DiscardDockFile(f)
      PROVE  TransferInv'
  <2>1. \A a \in Attempts :
          /\ attempt'[a].request = attempt[a].request
          /\ attempt'[a].release = attempt[a].release
          /\ attempt'[a].status = attempt[a].status
    BY <1>1, <1>3 DEF DiscardDockFile, DeleteDockRow, Unlink, RowsOK, AttemptRow
  <2>2. \A r \in Requests : request'[r].status = request[r].status
    BY <1>1, <1>3 DEF DiscardDockFile, DeleteDockRow, Unlink, RowsOK, RequestRow
  <2>3. RowsGo /\ NothingRuns
    BY <1>3, <2>1
    DEF DiscardDockFile, TransferInv, RowsGo, NothingRuns, AttemptRuns, Created, Runs
  <2>4. StillShown
    BY <2>2 DEF StillShown, Shown
  <2> QED
    BY <1>3, <2>3, <2>4, RowsAreSafe DEF DiscardDockFile
<1>4. CASE ClientProgress
  <2>1. UNCHANGED <<request, attempt, task>>
    BY <1>4 DEF ClientProgress, ClientCompletes, Advance, rows
  <2>2. \A h \in Releases : client'[h] # "errored"
    BY <1>1, <1>4 DEF ClientProgress, ClientCompletes, Advance, RowsOK, TransferInv
  <2> QED
    BY <2>1, <2>2, SameRows, RequestStays, RowsAreSafe
<1>5. CASE Shutdown
  BY <1>5, SameRows, RequestStays, RowsAreSafe DEF Shutdown, rows, TransferInv
<1> QED
  BY <1>2, <1>3, <1>4, <1>5, RestartIsSafe
  DEF TransfersAlone, TakenAway, Environment, On

\* No import, verification or hold is under way.
LEMMA NobodyImports ==
  ASSUME TransferInv, NEW t \in Tasks
  PROVE  /\ ~ImportStep(t) /\ ~ImportPlaceCollides(t) /\ ~VerificationStep(t)
         /\ ~HoldAttempt(t) /\ ~HoldRequest(t)
<1>1. task[t].pc \in TransferPcs
  BY DEF TransferInv, TransfersOnly
<1>2. ~ImportStep(t) /\ ~ImportPlaceCollides(t)
  BY <1>1
  DEF TransferPcs, Grabbing, Searching, ImportStep, ImportPlaceCollides, ImportDone, ChooseClaim,
      ImportError, ImportHold, ImportClaimDock, ImportClaim, ImportUndo, ImportRefused,
      ImportRecord,
      ImportPlace, ImportPlaceThrows, ImportPlaceFails, ImportReclaimDock, ImportReclaim,
      ImportRerecord, ClaimDestination, At
<1>3. ~VerificationStep(t)
  BY <1>1
  DEF TransferPcs, Grabbing, Searching, VerificationStep, VerifyPasses, VerifyHolds,
      VerifyFindsNoRow, FileRead, FileMove, FileMoveFails, FileRequest, FileAttempt, DiscardRequest,
      DiscardAttempt, DiscardDock, DiscardDockFails, DiscardUndoAttempt, DiscardUndoRequest, At
<1>4. ~HoldAttempt(t) /\ ~HoldRequest(t)
  BY <1>1 DEF TransferPcs, Grabbing, Searching, HoldAttempt, HoldRequest, At
<1> QED
  BY <1>2, <1>3, <1>4

\* Each step keeps the invariant,
LEMMA NextIsSafe ==
  ASSUME TransfersAlone, Inv, TransferInv, [Next]_vars
  PROVE  TransferInv'
<1>1. ASSUME NEW t \in Tasks, Step(t)
      PROVE  TransferInv'
  <2>1. CASE GrabStep(t) \/ GrabAddLost(t)
    BY <2>1, GrabIsSafe, ClaimIsSafe, CreateIsSafe DEF GrabStep
  <2> QED
    BY <1>1, <2>1, NobodyImports, AutomationIsSafe, AdoptIsSafe, MonitorIsSafe, RemovalIsSafe,
       FailAttemptIsSafe, FailRequestIsSafe
    DEF Step
<1>2. CASE UNCHANGED vars
  BY <1>2, SameRows, RequestStays, RowsAreSafe DEF vars, rows, TransferInv
<1> QED
  BY <1>1, <1>2, StartIsSafe, EnvironmentIsSafe DEF Next

\* which holds at first, when there is neither an activation nor an attempt,
LEMMA InitIsSafe == Init => TransferInv
<1> SUFFICES ASSUME Init PROVE TransferInv
  OBVIOUS
<1>1. \A t \in Tasks : task[t] = Idle
  BY DEF Init
<1>2. \A a \in Attempts : attempt[a].status = "absent"
  BY DEF Init, AbsentAttempt
<1>3. ASSUME NEW t \in Tasks PROVE TransfersOnly(t) /\ RoleHasRows(t) /\ AddIsSpared(t)
  BY <1>1 DEF Idle, TransfersOnly, TransferPcs, RoleHasRows, AddIsSpared, Removing, Adding, Seeking,
              Grabbing, Searching
<1>4. ASSUME NEW r \in Requests PROVE Safe(r)
  BY <1>1, <1>2
  DEF Safe, HeldOnce, Held, Grabber, Grabs, Failing, Fails, Running, Runs, Idle, Adding,
                    ActiveAttempt
<1>5. \A a \in Attempts : AttemptRuns(a)
  BY <1>2 DEF AttemptRuns, Created
<1> QED
  BY <1>3, <1>4, <1>5 DEF Init, TransferInv

\* and so for ever.
LEMMA TransfersAreSafe ==
  ASSUME TransfersAlone
  PROVE  Spec => []TransferInv
<1>1. Inv /\ TransferInv /\ [Next]_vars => TransferInv'
  BY NextIsSafe
<1> QED
  BY <1>1, InitIsSafe, InvHolds, PTL DEF Spec

\* claimForGrab is taken before anything external happens, and given back once: whoever
\* grabs, polls, adopts, cancels or restarts, a request never has two transfers.
THEOREM OneTransferAtATime ==
  ASSUME TransfersAlone
  PROVE  Spec => []OneTransferPerRequest
<1>1. ASSUME TransferInv PROVE OneTransferPerRequest
  <2> SUFFICES ASSUME NEW a \in Attempts, NEW b \in Attempts, a # b,
                      attempt[a].status \in ActiveAttempt, attempt[b].status \in ActiveAttempt,
                      attempt[a].request = attempt[b].request
               PROVE  FALSE
    BY DEF OneTransferPerRequest
  <2> DEFINE r == attempt[a].request
  <2>1. r \in Requests
    BY <1>1 DEF TransferInv, AttemptRuns, Created, ActiveAttempt
  <2>2. Running(a, r) /\ Running(b, r)
    BY DEF Running, Runs
  <2> QED
    BY <1>1, <2>1, <2>2 DEF TransferInv, Safe, HeldOnce
<1> QED
  BY <1>1, TransfersAreSafe, PTL

\* No pass, sweep, refused add, answer or adoption writes a request that has a transfer
\* back to a status that does not say so.
THEOREM TransfersAreShown ==
  ASSUME TransfersAlone
  PROVE  Spec => []LiveTransferIsShown
<1>1. ASSUME TransferInv PROVE LiveTransferIsShown
  <2> SUFFICES ASSUME NEW a \in Attempts, attempt[a].status \in ActiveAttempt
               PROVE  Shown(attempt[a].request)
    BY DEF LiveTransferIsShown, Shown
  <2>1. attempt[a].request \in Requests
    BY <1>1 DEF TransferInv, AttemptRuns, Created, ActiveAttempt
  <2>2. Running(a, attempt[a].request)
    BY DEF Running, Runs
  <2> QED
    BY <1>1, <2>1, <2>2 DEF TransferInv, Safe, Held
<1> QED
  BY <1>1, TransfersAreSafe, PTL

\* A step is of one activation: what begins leaves the others where they are,
LEMMA StartsAlone ==
  ASSUME TasksOK, NEW t \in Tasks, Start(t), NEW u \in Tasks \ {t}
  PROVE  task'[u] = task[u]
  BY DEF TasksOK, Start, GrabStart, PassStart, MonitorStart, WatchdogStart, AdoptStart,
         ImportStart, ChoiceStart, VerificationStart, RefetchStart, ForceFileStart, DiscardStart,
         GrabRead, PassRead, AbandonRead, AdoptRead, PollRead, ResumeRead, WatchdogRead,
         ImportBegin,
         ChooseUnit, VerifyRead, FileHeld, Discard, Cancel, MarkFulfilled, StopDownload,
         RemoveFromClient, Begin

\* and so does what goes on.
LEMMA StepsAlone ==
  ASSUME TasksOK, NEW t \in Tasks, Step(t), NEW u \in Tasks \ {t}
  PROVE  task'[u] = task[u]
<1>1. task \in [Tasks -> TaskState]
  BY DEF TasksOK
<1>2. CASE GrabStep(t) \/ GrabAddLost(t) \/ AutomationStep(t)
  BY <1>1, <1>2
  DEF GrabStep, GrabClaim, GrabResolve, GrabRefused, GrabCreate, GrabAdd, GrabAddLost,
      GrabAddRefused, GrabFailed, GrabRollback, GrabConfirm, AutomationStep, PassClaim,
      PassDeclines, SearchFindsNothing, SearchFinds, PassGrabs, PassFails, Abandon, HandBack, Go,
      Return
<1>3. CASE Adopt(t) \/ MonitorStep(t) \/ RemovalStep(t) \/ SettleRefused(t)
  BY <1>1, <1>3
  DEF Adopt, MonitorStep, PollApply, PollRequest, ResumeEnqueue, HandOff, RemovalStep, Latest,
      Detach, DetachRefused, FailInFlight, SettleStopped, SettleRemoved, Settle, SettleFulfilled,
      SettleRefused, FailInFlightForRequest, AfterRemoval, Go, Return
<1>4. CASE ImportStep(t) \/ ImportPlaceCollides(t)
  BY <1>1, <1>4
  DEF ImportStep, ImportPlaceCollides, ImportDone, ChooseClaim, ImportError, ImportHold,
      ImportClaimDock, ImportClaim, ImportUndo, ImportRefused, ImportRecord, ImportPlace,
      ImportPlaceThrows, ImportPlaceFails, ImportReclaimDock, ImportReclaim, ImportRerecord,
      ClaimDestination, Go, Return
<1>5. CASE VerificationStep(t) \/ FailAttempt(t) \/ FailRequest(t) \/ HoldAttempt(t)
           \/ HoldRequest(t)
  BY <1>1, <1>5
  DEF VerificationStep, VerifyPasses, VerifyHolds, VerifyFindsNoRow, FileRead, FileMove,
      FileMoveFails, FileRequest, FileAttempt, DiscardRequest, DiscardAttempt, DiscardDock,
      DiscardDockFails, DiscardUndoAttempt, DiscardUndoRequest, NotFiled, FailAttempt,
      FailRequest, HoldAttempt, HoldRequest, Go, Return
<1> QED
  BY <1>2, <1>3, <1>4, <1>5 DEF Step

\* The sweep leaves alone a request whose owner has picked a release since it was listed.
LEMMA NextSparesTransfers ==
  ASSUME Inv, TransferInv, [Next]_vars, NEW t \in Handlers, At(t, "abandon"), ~At(t, "abandon")',
         NEW a \in Attempts, Carries(a, task[t].request)
  PROVE  UNCHANGED request
<1> DEFINE r == task[t].request
<1>1. TasksOK /\ t \in Tasks
  BY DEF Inv, Tasks
<1>2. Runs(a)
  BY DEF TransferInv, AttemptRuns, Carries, InFlight, ActiveAttempt, Runs
<1>3. Shown(r)
  <2>1. r \in Requests /\ Running(a, r)
    BY <1>2 DEF TransferInv, AttemptRuns, Created, Carries, InFlight, ActiveAttempt, Running
  <2> QED
    BY <2>1 DEF TransferInv, Safe, Held
<1>4. CASE Abandon(t)
  BY <1>3, <1>4
  DEF Abandon, UpdateRequestIf, Shown, Abandonable, ActiveTransfer, Decided
<1>5. ASSUME NEW u \in Tasks, Start(u) \/ Step(u) PROVE UNCHANGED request
  <2>1. u = t
    BY <1>1, <1>5, StartsAlone, StepsAlone DEF At
  <2>2. task[t] # Idle
    BY DEF At, Idle
  <2>3. ~Start(t)
    BY <1>1, <2>2
    DEF Start, GrabStart, PassStart, MonitorStart, WatchdogStart, AdoptStart, ImportStart,
        ChoiceStart, VerificationStart, RefetchStart, ForceFileStart, DiscardStart, GrabRead,
        PassRead, AbandonRead, AdoptRead, PollRead, ResumeRead, WatchdogRead, ImportBegin,
        ChooseUnit, VerifyRead, FileHeld, Discard, Cancel, MarkFulfilled, StopDownload,
        RemoveFromClient, Free
  <2>4. task[t].pc = "abandon"
    BY DEF At
  <2>5. /\ ~GrabStep(t) /\ ~GrabAddLost(t) /\ ~Adopt(t) /\ ~MonitorStep(t) /\ ~RemovalStep(t)
        /\ ~SettleRefused(t) /\ ~FailAttempt(t) /\ ~FailRequest(t)
    BY <2>4
    DEF GrabStep, GrabClaim, GrabResolve, GrabRefused, GrabCreate, GrabAdd, GrabAddLost,
        GrabAddRefused, GrabFailed, GrabRollback, GrabConfirm, Adopt, MonitorStep, PollApply,
        PollRequest, ResumeEnqueue, RemovalStep, Latest, Detach, DetachRefused, FailInFlight,
        SettleStopped, SettleRemoved, Settle, SettleFulfilled, SettleRefused,
        FailInFlightForRequest, FailAttempt, FailRequest, At
  <2>6. AutomationStep(t) => Abandon(t)
    BY <2>4
    DEF AutomationStep, PassClaim, PassDeclines, SearchFindsNothing, SearchFinds, PassGrabs,
        PassFails, At
  <2> QED
    BY <1>1, <1>4, <1>5, <2>1, <2>3, <2>5, <2>6, NobodyImports DEF Step
<1>6. CASE Environment
  <2>1. CASE Restart
    BY <2>1 DEF Restart, rows
  <2>2. CASE ~Restart
    <3>1. UNCHANGED task
      BY <1>6, <2>2
      DEF Environment, ReleaseSearch, Approve, Reject, Decide, DiscardDockFile, ClientProgress,
          ClientFailure, ClientCompletes, ClientErrors, ClientForgets, Advance, Shutdown
    <3> QED
      BY <3>1 DEF At
  <2> QED
    BY <2>1, <2>2
<1> QED
  BY <1>5, <1>6 DEF Next, vars, rows

\* The sweep for requests nobody picked a release for cancels none that has a transfer by
\* the time it writes.
THEOREM SweepsSpareTransfers ==
  ASSUME TransfersAlone
  PROVE  Spec => AbandonmentSparesTransfers
<1>1. Inv /\ TransferInv /\ [Next]_vars =>
        \A t \in Handlers :
          At(t, "abandon") /\ ~At(t, "abandon")'
          /\ (\E a \in Attempts : Carries(a, task[t].request)) =>
            UNCHANGED request
  BY NextSparesTransfers
<1> QED
  BY <1>1, InvHolds, TransfersAreSafe, PTL DEF Spec, AbandonmentSparesTransfers
===============================================================================
