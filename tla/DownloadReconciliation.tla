------------------------- MODULE DownloadReconciliation -------------------------
(***************************************************************************)
(* DownloadClientReconciliationService.adopt: an administrator finds a     *)
(* transfer in the download client whose attempt was failed here, and      *)
(* takes it back.                                                          *)
(***************************************************************************)
EXTENDS FulfilmentStore

Owned(h) ==
  CASE client[h] = "running" -> {"queued", "downloading"}
    [] client[h] = "done"    -> {"completed"}
    [] OTHER                 -> {}

\* The client is asked what it holds, and the attempt looked up by its hash.
AdoptRead(t, a) ==
  /\ Free(t)
  /\ attempt[a].status = "failed"
  /\ attempt[a].release # NoRelease
  /\ request[attempt[a].request].status \in Grabbable
  /\ \E says \in Owned(attempt[a].release) :
       task' = [task EXCEPT ![t].pc = "adopt", ![t].attempt = a, ![t].says = says]
  /\ UNCHANGED <<rows, client, queueVars>>

\* adoptFailedAttempt: both rows in one transaction, or neither.  The unique indexes
\* refuse a hash, and a work, that are live elsewhere.
Adopt(t) ==
  LET a == task[t].attempt
      r == attempt[a].request
      adopted ==
        /\ attempt[a].status = "failed"
        /\ request[r].status \in Grabbable
        /\ HashFree(attempt[a].release, a)
        /\ KeyFree(r)
  IN
  /\ At(t, "adopt")
  /\ \/ /\ adopted
        /\ attempt' = [attempt EXCEPT ![a].status = task[t].says]
        /\ request' = [request EXCEPT
             ![r].status = IF task[t].says = "queued" THEN "grabbed" ELSE "downloading"]
     \/ ~adopted /\ UNCHANGED <<request, attempt>>
  /\ Return(t)
  /\ UNCHANGED <<dock, client, queueVars>>

AdoptStart(t) == \E a \in Attempts : AdoptRead(t, a)
===============================================================================
