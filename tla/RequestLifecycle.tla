---------------------------- MODULE RequestLifecycle ----------------------------
(***************************************************************************)
(* What a book request promises to whoever looks at its status, with none  *)
(* of the machinery that moves it: the moves it may make, that a decision  *)
(* is the end, and that one work has one live request.                     *)
(***************************************************************************)
EXTENDS BookRequestStatus, TLAPS

CONSTANTS
  Requests,    \* the requests
  Work         \* Work[r]: what r asks for

VARIABLE status   \* status[r]

KeyFree(r) ==
  \A q \in Requests \ {r} :
     Work[q] = Work[r] => status[q] \notin ActiveRequest

Init ==
  /\ status \in [Requests -> {"pending", "approved", "failed"}]
  /\ \A r \in Requests : status[r] # "failed" => KeyFree(r)

\* A request that had failed gave up its claim on the work, and needs it back to
\* become live again.
Move(r, from, to) ==
  /\ status[r] \in from
  /\ status[r] = "failed" /\ to \in ActiveRequest => KeyFree(r)
  /\ status' = [status EXCEPT ![r] = to]

Approve(r) == Move(r, {"pending"}, "approved")
Reject(r) == Move(r, {"pending"}, "rejected")
Cancel(r) == Move(r, WorkerWritable, "cancelled")

\* Somebody, or nobody in particular, looks for a release; it is left to a person again.
Search(r) == Move(r, Grabbable, "searching")
HandBack(r) == Move(r, Grabbable, "approved")

\* A release is claimed, and the claim is given back.
Claim(r) == Move(r, Grabbable, "grabbed")
GiveBack(r) == \E s \in Grabbable : Move(r, {"grabbed"}, s)

\* The transfer begins, or is stopped for another one to be chosen.
Begin(r) == Move(r, ActiveTransfer, "downloading")
Adopt(r) == Move(r, Grabbable, "downloading")
StopTransfer(r) == Move(r, ActiveTransfer, "approved")

Import(r) == Move(r, WorkerWritable, "importing")
Hold(r) == Move(r, WorkerWritable, "needs_review")
Fail(r) == Move(r, WorkerWritable, "failed")
Fulfil(r) == Move(r, WorkerWritable, "available")

Next ==
  \E r \in Requests :
    \/ Approve(r) \/ Reject(r) \/ Cancel(r)
    \/ Search(r) \/ HandBack(r)
    \/ Claim(r) \/ GiveBack(r)
    \/ Begin(r) \/ Adopt(r) \/ StopTransfer(r)
    \/ Import(r) \/ Hold(r) \/ Fail(r) \/ Fulfil(r)

Spec == Init /\ [][Next]_status

-------------------------------------------------------------------------------
StatusOK == status \in [Requests -> RequestStatuses]

\* At most one request for a work is live: the others wait on it, or are over.
OneClaim ==
  \A q, r \in Requests :
    q # r /\ Work[q] = Work[r] =>
      ~(status[q] \in ActiveRequest /\ status[r] \in ActiveRequest)

\* Nothing moves a request that a person, or the library, has settled.
DecisionsAreFinal ==
  [][\A r \in Requests : status[r] \in Decided => status'[r] = status[r]]_status

-------------------------------------------------------------------------------
(***************************************************************************)
(* It keeps both promises, for any requests and any works.                 *)
(***************************************************************************)
USE DEF RequestStatuses, ActiveRequest, Grabbable, WorkerWritable, Decided, ActiveTransfer

\* Every move keeps the types and the claims.
LEMMA MoveKeepsClaims ==
  ASSUME StatusOK, OneClaim, NEW r \in Requests, NEW from, NEW to \in RequestStatuses,
         Move(r, from, to), status[r] # "failed" /\ to \in ActiveRequest
                              => status[r] \in ActiveRequest
  PROVE  StatusOK' /\ OneClaim'
<1>1. StatusOK'
  BY DEF StatusOK, Move
<1>2. ASSUME NEW p \in Requests, NEW q \in Requests, p # q, Work[p] = Work[q],
             status'[p] \in ActiveRequest, status'[q] \in ActiveRequest
      PROVE  FALSE
  <2>1. CASE p # r /\ q # r
    BY <1>2, <2>1 DEF StatusOK, Move, OneClaim
  <2>2. CASE p = r
    BY <1>2, <2>2 DEF StatusOK, Move, OneClaim, KeyFree
  <2>3. CASE q = r
    BY <1>2, <2>3 DEF StatusOK, Move, OneClaim, KeyFree
  <2> QED
    BY <2>1, <2>2, <2>3
<1> QED
  BY <1>1, <1>2 DEF OneClaim

\* The moves the lifecycle has, with what they have in common.
LEMMA MovesAreLegal ==
  ASSUME StatusOK, NEW r \in Requests,
         \/ Approve(r) \/ Reject(r) \/ Cancel(r)
         \/ Search(r) \/ HandBack(r)
         \/ Claim(r) \/ GiveBack(r)
         \/ Begin(r) \/ Adopt(r) \/ StopTransfer(r)
         \/ Import(r) \/ Hold(r) \/ Fail(r) \/ Fulfil(r)
  PROVE  \E from, to :
           /\ Move(r, from, to)
           /\ to \in RequestStatuses
           /\ from \subseteq ActiveRequest \cup {"failed"}
<1>1. CASE Approve(r)
  BY <1>1 DEF Approve
<1>2. CASE Reject(r)
  BY <1>2 DEF Reject
<1>3. CASE Cancel(r)
  BY <1>3 DEF Cancel
<1>4. CASE Claim(r)
  BY <1>4 DEF Claim
<1>5. CASE GiveBack(r)
  BY <1>5 DEF GiveBack
<1>6. CASE Begin(r)
  BY <1>6 DEF Begin
<1>7. CASE StopTransfer(r)
  BY <1>7 DEF StopTransfer
<1>8. CASE Import(r)
  BY <1>8 DEF Import
<1>9. CASE Hold(r)
  BY <1>9 DEF Hold
<1>10. CASE Fail(r)
  BY <1>10 DEF Fail
<1>11. CASE Fulfil(r)
  BY <1>11 DEF Fulfil
<1>12. CASE Search(r)
  BY <1>12 DEF Search
<1>13. CASE HandBack(r)
  BY <1>13 DEF HandBack
<1>14. CASE Adopt(r)
  BY <1>14 DEF Adopt
<1> QED
  BY <1>1, <1>2, <1>3, <1>4, <1>5, <1>6, <1>7, <1>8, <1>9, <1>10, <1>11, <1>12, <1>13, <1>14

\* Only failed requests share a work with another at the start.
LEMMA InitClaims == Init => StatusOK /\ OneClaim
  BY DEF Init, StatusOK, OneClaim, KeyFree

\* Types and claims are inductive together.
LEMMA NextKeepsClaims == StatusOK /\ OneClaim /\ [Next]_status => StatusOK' /\ OneClaim'
<1> SUFFICES ASSUME StatusOK, OneClaim, [Next]_status PROVE StatusOK' /\ OneClaim'
  OBVIOUS
<1>1. CASE Next
  <2>1. PICK r \in Requests : \E from, to :
          /\ Move(r, from, to)
          /\ to \in RequestStatuses
          /\ from \subseteq ActiveRequest \cup {"failed"}
    BY <1>1, MovesAreLegal DEF Next
  <2>2. PICK from, to :
          /\ Move(r, from, to)
          /\ to \in RequestStatuses
          /\ from \subseteq ActiveRequest \cup {"failed"}
    BY <2>1
  <2>3. status[r] # "failed" /\ to \in ActiveRequest => status[r] \in ActiveRequest
    BY <2>2 DEF Move
  <2> QED
    BY <2>2, <2>3, MoveKeepsClaims
<1>2. CASE UNCHANGED status
  BY <1>2 DEF StatusOK, OneClaim
<1> QED
  BY <1>1, <1>2

\* Types, and one live request for a work.
THEOREM OneClaimHolds == Spec => [](StatusOK /\ OneClaim)
<1> QED
  BY InitClaims, NextKeepsClaims, PTL DEF Spec

\* No move leaves cancelled, rejected or available.
THEOREM DecisionsAreFinalHolds == Spec => DecisionsAreFinal
<1>1. StatusOK /\ [Next]_status =>
        [\A r \in Requests : status[r] \in Decided => status'[r] = status[r]]_status
  <2> SUFFICES ASSUME StatusOK, Next, NEW q \in Requests, status[q] \in Decided
               PROVE  status'[q] = status[q]
    OBVIOUS
  <2>1. PICK r \in Requests : \E from, to :
          /\ Move(r, from, to)
          /\ to \in RequestStatuses
          /\ from \subseteq ActiveRequest \cup {"failed"}
    BY MovesAreLegal DEF Next
  <2>2. r # q
    BY <2>1 DEF Move
  <2> QED
    BY <2>1, <2>2 DEF Move, StatusOK
<1> QED
  BY <1>1, OneClaimHolds, PTL DEF Spec, DecisionsAreFinal
===============================================================================
