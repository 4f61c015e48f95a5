--------------------------- MODULE RequestFulfilment ---------------------------
(***************************************************************************)
(* The fulfilment pipeline of a book request: grabs, the monitor, imports, *)
(* verification and people, over the same rows.  "Operations" names the    *)
(* kinds of activity an instance has, so that a run can look at some of    *)
(* them with more rows or more activations at once; with all of them it is *)
(* the whole pipeline.                                                     *)
(***************************************************************************)
EXTENDS RequestAutomation, DownloadMonitor, DownloadReconciliation, RequestImport,
        RequestVerification, RequestDecisions

CONSTANT Operations

OperationNames ==
  {"grab", "automate", "abandon", "adopt", "lost_add", "monitor", "watchdog", "client",
   "client_fails", "import", "collide", "choose",
   "verify", "refetch", "force_file", "discard", "decide", "cancel", "fulfil", "fulfil_gone",
   "stop", "remove", "dock", "restart", "shutdown"}

ASSUME OperationsAssumption == Operations \subseteq OperationNames

\* A request is submitted as pending or approved; one that failed earlier may
\* share its work with it.
Init ==
  /\ request \in [Requests -> [status : {"pending", "approved", "failed"}, dock : {NoRow}]]
  /\ \A r \in Requests : request[r].status # "failed" => KeyFree(r)
  /\ attempt = [a \in Attempts |-> AbsentAttempt]
  /\ dock = [f \in DockFiles |-> FreeDockFile]
  /\ client = [h \in Releases |-> "absent"]
  /\ task = [t \in Tasks |-> Idle]
  /\ Queue!Init

(***************************************************************************)
(* The process dies and starts again: every activation and the import      *)
(* queue are gone, the rows and the client are not.                        *)
(***************************************************************************)
Restart ==
  /\ task' = [t \in Tasks |-> Idle]
  /\ Queue!Reset
  /\ UNCHANGED <<rows, client>>

\* onModuleDestroy: the queue drops what has not started, and running imports go
\* on until the process is gone.
Shutdown ==
  /\ Queue!Stop
  /\ UNCHANGED <<rows, client, task>>

On(operation) == operation \in Operations

Start(t) ==
  \/ On("grab") /\ GrabStart(t)
  \/ On("automate") /\ PassStart(t)
  \/ On("abandon") /\ \E r \in Requests : AbandonRead(t, r)
  \/ On("adopt") /\ AdoptStart(t)
  \/ On("monitor") /\ MonitorStart(t)
  \/ On("watchdog") /\ WatchdogStart(t)
  \/ On("import") /\ ImportStart(t)
  \/ On("choose") /\ ChoiceStart(t)
  \/ On("verify") /\ VerificationStart(t)
  \/ On("refetch") /\ RefetchStart(t)
  \/ On("force_file") /\ ForceFileStart(t)
  \/ On("discard") /\ DiscardStart(t)
  \/ On("cancel") /\ \E r \in Requests : Cancel(t, r)
  \/ On("fulfil") /\ \E r \in Requests : MarkFulfilled(t, r)
  \/ On("stop") /\ \E a \in Attempts : StopDownload(t, a)
  \/ On("remove") /\ \E a \in Attempts : RemoveFromClient(t, a)

Step(t) ==
  \/ GrabStep(t)
  \/ AutomationStep(t)
  \/ Adopt(t)
  \/ On("lost_add") /\ GrabAddLost(t)
  \/ MonitorStep(t)
  \/ ImportStep(t)
  \/ On("collide") /\ ImportPlaceCollides(t)
  \/ VerificationStep(t)
  \/ RemovalStep(t)
  \/ On("fulfil_gone") /\ SettleRefused(t)
  \/ FailAttempt(t)
  \/ FailRequest(t)
  \/ HoldAttempt(t)
  \/ HoldRequest(t)

Environment ==
  \/ On("automate") /\ \E r \in Requests : ReleaseSearch(r)
  \/ On("decide") /\ \E r \in Requests : Approve(r) \/ Reject(r)
  \/ On("dock") /\ \E f \in DockFiles : DiscardDockFile(f)
  \/ On("client") /\ ClientProgress
  \/ On("client_fails") /\ ClientFailure
  \/ On("restart") /\ Restart
  \/ On("shutdown") /\ Shutdown

Next ==
  \/ \E t \in Tasks : Start(t) \/ Step(t)
  \/ Environment

Spec == Init /\ [][Next]_vars

-------------------------------------------------------------------------------
RequestRow == [status : RequestStatuses, dock : DockFiles \cup {NoRow}]

AttemptRow ==
  [status : AttemptStatuses \cup {"absent"}, request : Requests \cup {NoRow},
   release : Releases \cup {NoRelease}, dock : DockFiles \cup {NoRow}, units : BOOLEAN,
   automated : BOOLEAN]

DockRows ==
  [state : {"free", "claimed", "placed", "filed", "dropped"}, attempt : Attempts \cup {NoRow}]

Says ==
  {"none", "queued", "downloading", "completed", "failing", "choice", "truncated",
   "unattended", "retry", "auto", "held", "cancel", "fulfil", "stop", "remove"}

TaskState ==
  [pc : Pcs, request : Requests \cup {NoRow}, attempt : Attempts \cup {NoRow},
   dock : DockFiles \cup {NoRow}, was : RequestStatuses \cup AttemptStatuses \cup {"none"},
   says : Says]

RowsOK ==
  /\ request \in [Requests -> RequestRow]
  /\ attempt \in [Attempts -> AttemptRow]
  /\ dock \in [DockFiles -> DockRows]
  /\ client \in [Releases -> {"absent", "running", "done", "errored"}]

\* Every row and every activation has the shape the code gives it: no step writes
\* a status it did not first read or name.
TypeOK ==
  /\ RowsOK
  /\ task \in [Tasks -> TaskState]
  /\ Queue!TypeOK
===============================================================================
