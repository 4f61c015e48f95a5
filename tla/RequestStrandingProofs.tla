------------------------- MODULE RequestStrandingProofs -------------------------
(***************************************************************************)
(* No request is left behind.  The services write a request and its        *)
(* download one after the other, so that between two awaits either may be  *)
(* out of date, and nothing says so but the place where an activation is.  *)
(* What is shown first is that one activation at most tends a download;    *)
(* then that a request whose status needs a worker has a download in       *)
(* flight, or an activation that will tell it that it has none.            *)
(*                                                                         *)
(* This holds of a request that a release is grabbed for once: section 6   *)
(* of the README has what a late poll does to the second.                  *)
(***************************************************************************)
EXTENDS RequestFilingProofs

\* The operations that fail or revive a download under the activation that tends it.
Disturbing ==
  {"adopt", "lost_add", "watchdog", "choose", "refetch", "force_file", "stop", "fulfil_gone",
   "dock", "restart"}

Undisturbed == Operations \cap Disturbing = {}

\* Each request is tried once, and each release: no claim is held of a request that has
\* a download already.
FirstTries ==
  /\ \A a, b \in Attempts :
       a # b /\ Created(a) /\ Created(b) =>
         /\ attempt[a].request # attempt[b].request
         /\ attempt[a].release = attempt[b].release => attempt[a].release = NoRelease
  /\ \A t \in Tasks :
       task[t].pc \in {"grab_resolve", "grab_create"} => NoAttemptOf(task[t].request)

-------------------------------------------------------------------------------
(***************************************************************************)
(* Who tends a download: adds it to the client, imports it, verifies and   *)
(* files it, rejects it, or settles it one way or the other.  Polls and    *)
(* removals go on beside that.                                             *)
(***************************************************************************)
Submitting == {"grab_add", "grab_failed"}
Settling == {"fail_attempt", "fail_request", "hold_attempt", "hold_request"}
Rejecting ==
  {"discard_attempt", "discard_dock", "discard_undo_attempt", "discard_undo_request"}
Tending == Submitting \cup Importing \cup Settling \cup Filing \cup Rejecting

Tends(t, a) == task[t].pc \in Tending /\ task[t].attempt = a
Untended(a) == \A t \in Tasks : ~Tends(t, a)

PollWords == {"queued", "downloading", "completed", "failing"}
Polls(t, a) == task[t].says \in PollWords /\ task[t].attempt = a
Unpolled(a) == \A t \in Tasks : ~Polls(t, a)

Status(t) == attempt[task[t].attempt].status
RequestOf(t) == attempt[task[t].attempt].request

OneTends ==
  \A t, u \in Tasks :
    task[t].pc \in Tending /\ task[u].pc \in Tending /\ task[t].attempt = task[u].attempt => t = u

OnePolls ==
  \A t, u \in Tasks :
    task[t].says \in PollWords /\ task[u].says \in PollWords /\ task[t].attempt = task[u].attempt
      => t = u

\* What an activation says goes with where it is.
Role(t) ==
  /\ task[t].pc # "adopt" /\ task[t].says \notin {"held", "stop"}
  /\ task[t].says \in PollWords =>
       /\ t \in Handlers
       /\ task[t].pc \in {"poll_apply", "poll_request", "fail_attempt", "fail_request"}
  /\ task[t].pc \in {"poll_apply", "poll_request"} => task[t].says \in PollWords \ {"failing"}
  /\ task[t].says = "failing" => task[t].pc \in {"fail_attempt", "fail_request"}
  /\ t \in Handlers /\ task[t].pc \in Settling => task[t].says \in {"failing", "auto"}
  /\ task[t].pc \in Filing => task[t].says = "auto"
  /\ task[t].says = "auto" => t \in Handlers /\ task[t].pc \in Filing \cup Settling
  /\ task[t].pc \in Removing => task[t].says \in {"cancel", "fulfil", "remove"}
  /\ task[t].pc = "after_removal" => task[t].says # "cancel"

\* What it remembers is there, and belongs together.
Knows(t) ==
  /\ task[t].pc \in Tending \cup {"discard_request", "detach", "fail_in_flight"} =>
       Inserted(task[t].attempt)
  /\ task[t].says \in PollWords => Inserted(task[t].attempt)
  /\ task[t].pc \in Submitting \cup Rejecting \cup {"discard_request", "detach", "fail_in_flight"}
       => RequestOf(t) = task[t].request
  /\ task[t].pc \in Rejecting \cup {"discard_request"} =>
       \/ task[t].dock = NoRow
       \/ Made(task[t].dock) /\ Owner(task[t].dock) = task[t].request
  /\ task[t].pc = "after_removal" /\ task[t].says = "remove" => ~NoAttemptOf(task[t].request)

\* How far the attempt has come that an activation tends.
FitsStatus(t) ==
  /\ task[t].pc \in Submitting => Status(t) \in {"queued", "failed"}
  /\ task[t].says = "failing" => Status(t) \in ActiveAttempt \cup {"failed"}
  /\ task[t].pc \in Tending \ Submitting /\ task[t].says # "failing" =>
       Status(t) \notin ActiveAttempt
  /\ task[t].pc \in Tending /\ t \in Handlers => Status(t) # "completed"
  /\ task[t].pc \in {"fail_request", "discard_dock", "discard_undo_attempt"} =>
       Status(t) = "failed"
  /\ task[t].pc \in {"hold_request", "discard_attempt", "discard_undo_request"} =>
       Status(t) = "needs_review"

\* Where its files are: nobody verifies what is still imported, and nobody deletes or fills
\* the row of an import.
Placed(a) == attempt[a].dock # NoRow /\ dock[attempt[a].dock].state = "placed"

FitsFile(t) ==
  /\ task[t].pc \in Tending /\ t \in ImportWorkers => ~Placed(task[t].attempt)
  /\ task[t].pc \in Tending /\ task[t].says = "auto" /\ Status(t) = "importing" =>
       attempt[task[t].attempt].dock \in {NoRow, task[t].dock}
  /\ task[t].pc \in InHand => dock[task[t].dock].state = "claimed"

\* The client has nothing to tell of what it was not given.
FitsClient(t) ==
  task[t].pc \in Submitting =>
    /\ attempt[task[t].attempt].release \in Releases
    /\ client[attempt[task[t].attempt].release] = "absent"
    /\ Unpolled(task[t].attempt)

\* A request that is held has the download a person can decide about, and nobody tends it.
HeldIsUntended ==
  \A r \in Requests :
    request[r].status = "needs_review" =>
      \E a \in Attempts :
        attempt[a].request = r /\ attempt[a].status = "needs_review" /\ Untended(a)

\* The client has no transfer that was not handed to it.
TransfersAreKnown ==
  \A h \in Releases :
    client[h] # "absent" => \E a \in Attempts : Created(a) /\ attempt[a].release = h

\* What failed is over when nobody tends it and nobody asks; a refusal is from the start.
Over(a) == attempt[a].status = "failed" /\ Untended(a) /\ Unpolled(a)

RefusedAreOver ==
  \A a \in Attempts : Created(a) /\ attempt[a].release = NoRelease => Over(a)

Fits(t) == Role(t) /\ Knows(t) /\ FitsStatus(t) /\ FitsFile(t) /\ FitsClient(t)

TendInv ==
  /\ OneTends /\ OnePolls
  /\ HeldIsUntended /\ TransfersAreKnown /\ RefusedAreOver
  /\ \A t \in Tasks : Fits(t)

Base == Inv /\ FilesInv /\ WorkersImport /\ KnownRequests

-------------------------------------------------------------------------------
(***************************************************************************)
(* What one activation may do to the others.                               *)
(***************************************************************************)
Only(t) == \A u \in Tasks \ {t} : task'[u] = task[u]

\* It fails what is in flight; a poll moves a transfer on; everything else is done to what
\* one tends.
Touches(t, a) ==
  Created(a) =>
    /\ Created(a)'
    /\ attempt'[a].request = attempt[a].request
    /\ attempt'[a].release = attempt[a].release
    /\ \/ attempt'[a].status = attempt[a].status
       \/ attempt[a].status \in InFlight /\ attempt'[a].status = "failed"
       \/ Tends(t, a)
       \/ /\ task[t].pc = "poll_apply" /\ task[t].attempt = a
          /\ attempt[a].status \in ActiveAttempt
          /\ attempt'[a].status \in ActiveAttempt \cup {"completed"}
    /\ attempt'[a].dock \in {attempt[a].dock, NoRow} \/ Tends(t, a)

\* What it inserts is refused already, or the first thing it adds.
Inserts(t, a) ==
  ~Created(a) /\ Created(a)' =>
    /\ attempt'[a].request = task[t].request /\ task'[t].request = task[t].request
    /\ \/ /\ task[t].pc = "grab_resolve" /\ task'[t].pc = "grab_rollback"
          /\ attempt'[a].status = "failed" /\ attempt'[a].release = NoRelease
       \/ /\ task[t].pc = "grab_create" /\ task'[t].pc = "grab_add" /\ task'[t].attempt = a
          /\ attempt'[a].status = "queued" /\ attempt'[a].release \in Releases

\* A row that is claimed and not filled is its import's, or rejected.
Handles(t, f) ==
  /\ Made(f) => Made(f)' /\ dock'[f].attempt = dock[f].attempt
  /\ dock[f].state = "claimed" =>
       \/ dock'[f].state = "claimed"
       \/ task[t].dock = f /\ task[t].pc \in InHand \cup {"discard_dock"}
  /\ dock'[f].state = "placed" =>
       \/ dock[f].state = "placed"
       \/ task[t].dock = f /\ task[t].pc = "import_place"

\* The client has what an add gave it.
Gives(t) ==
  \A h \in Releases :
    \/ client'[h] = "absent" \/ client[h] # "absent"
    \/ task[t].pc = "grab_add" /\ attempt[task[t].attempt].release = h

\* It takes up what nobody tends and no person looks at,
TakesUp(t) ==
  LET a == task'[t].attempt IN
  task'[t].pc \in Tending /\ ~Tends(t, a) =>
    /\ Untended(a)
    /\ attempt[a].status \in InFlight \cup {"absent", "needs_review"}
    /\ attempt[a].status = "needs_review" =>
         request'[attempt[a].request].status # "needs_review"

\* asks about a transfer that nobody asks about or is still adding,
Asks(t) ==
  LET a == task'[t].attempt IN
  task'[t].says \in PollWords /\ ~Polls(t, a) =>
    /\ Unpolled(a)
    /\ attempt[a].status \in ActiveAttempt
    /\ \A u \in Tasks : Tends(u, a) => task[u].pc \notin Submitting

\* and shows that a person has to look when it lets go of what that is about.
HoldsUp(t) ==
  \A r \in Requests :
    request'[r].status = "needs_review" =>
      \/ request[r].status = "needs_review"
      \/ /\ task[t].pc \in {"hold_request", "discard_undo_request"}
         /\ RequestOf(t) = r
         /\ UNCHANGED attempt
         /\ task'[t].pc \notin Tending

Effects(t) ==
  /\ Gives(t) /\ HoldsUp(t)
  /\ \A a \in Attempts : Touches(t, a) /\ Inserts(t, a)
  /\ \A f \in DockFiles : Handles(t, f)

Turns(t) == Only(t) /\ TakesUp(t) /\ Asks(t)

Behaves(t) == Turns(t) /\ Effects(t)

\* Of a request there is one download.
LEMMA OneDownload ==
  ASSUME FirstTries, NEW a, NEW b, Inserted(a), Inserted(b),
         attempt[a].request = attempt[b].request
  PROVE  a = b
  BY DEF FirstTries, Inserted

\* What others tend stays where it was, or fails.
LEMMA OthersTend ==
  ASSUME TendInv, NEW t \in Tasks, Behaves(t), NEW u \in Tasks \ {t}, task[u].pc \in Tending
  PROVE  /\ task'[u] = task[u]
         /\ Inserted(task[u].attempt) /\ Inserted(task[u].attempt)'
         /\ ~Tends(t, task[u].attempt)
         /\ attempt'[task[u].attempt].request = RequestOf(u)
         /\ attempt'[task[u].attempt].release = attempt[task[u].attempt].release
         /\ attempt'[task[u].attempt].dock \in {attempt[task[u].attempt].dock, NoRow}
         /\ \/ attempt'[task[u].attempt].status = Status(u)
            \/ /\ Status(u) \in InFlight
               /\ attempt'[task[u].attempt].status = "failed"
<1>1. task'[u] = task[u] /\ Fits(u) /\ Fits(t)
  BY DEF Behaves, Turns, Effects, Only, TendInv
<1> DEFINE a == task[u].attempt
<1>2. Inserted(a)
  BY <1>1 DEF Fits, Knows
<1>3. Touches(t, a) /\ a \in Attempts /\ Created(a)
  BY <1>2 DEF Behaves, Turns, Effects, Inserted
<1>4. ~Tends(t, a)
  BY DEF TendInv, OneTends, Tends
<1>5. ASSUME task[t].pc = "poll_apply", task[t].attempt = a
      PROVE  attempt[a].status \notin ActiveAttempt
  <2>1. task[t].says \in PollWords
    BY <1>1, <1>5 DEF Fits, Role
  <2>2. task[u].says \notin PollWords
    BY <1>5, <2>1 DEF TendInv, OnePolls
  <2>3. task[u].pc \notin Submitting
    BY <1>1, <1>5, <2>1 DEF Fits, FitsClient, Unpolled, Polls
  <2> QED
    BY <1>1, <2>2, <2>3 DEF Fits, FitsStatus, Status, PollWords
<1> HIDE DEF a
<1>6. Inserted(task[u].attempt)' /\ attempt'[a].request = attempt[a].request
  BY <1>1, <1>3 DEF a, Touches, Inserted, Created
<1>7. /\ attempt'[a].release = attempt[a].release
      /\ attempt'[a].dock \in {attempt[a].dock, NoRow}
      /\ \/ attempt'[a].status = attempt[a].status
         \/ attempt[a].status \in InFlight /\ attempt'[a].status = "failed"
  BY <1>3, <1>4, <1>5 DEF Touches
<1> QED
  BY <1>1, <1>2, <1>4, <1>6, <1>7 DEF a, RequestOf, Status

\* What others remember stays right,
LEMMA OthersKnowOn ==
  ASSUME Base, TendInv, NEW t \in Tasks, Behaves(t), NEW u \in Tasks \ {t}
  PROVE  Knows(u)'
<1>1. task'[u] = task[u] /\ Knows(u)
  BY DEF Behaves, Turns, Effects, Only, TendInv, Fits
<1>2. \A a : Inserted(a) => Inserted(a)' /\ attempt'[a].request = attempt[a].request
  BY DEF Behaves, Turns, Effects, Touches, Inserted
<1>3. \A f : Made(f) => Made(f)' /\ Owner(f)' = Owner(f)
  <2> SUFFICES ASSUME NEW f, Made(f) PROVE Made(f)' /\ Owner(f)' = Owner(f)
    OBVIOUS
  <2>1. f \in DockFiles /\ Inserted(dock[f].attempt)
    BY DEF Base, FilesInv, Linked, FilesComeFromAttempts, Made
  <2>2. Made(f)' /\ dock'[f].attempt = dock[f].attempt
    BY <2>1 DEF Behaves, Turns, Effects, Handles
  <2> QED
    BY <1>2, <2>1, <2>2 DEF Owner
<1>4. \A r : ~NoAttemptOf(r) => ~NoAttemptOf(r)'
  BY <1>2 DEF NoAttemptOf, Inserted
<1>5. Inserted(task[u].attempt) => Inserted(task[u].attempt)' /\ RequestOf(u)' = RequestOf(u)
  BY <1>1, <1>2 DEF RequestOf, Inserted, Created
<1>6. Submitting \cup Rejecting \subseteq Tending
  BY DEF Tending
<1>7. task[u].pc \in Submitting \cup Rejecting \cup {"discard_request", "detach", "fail_in_flight"}
        => Inserted(task[u].attempt) /\ RequestOf(u) = task[u].request
  BY <1>1, <1>6 DEF Knows
<1>8. task[u].pc \in Rejecting \cup {"discard_request"} =>
       \/ task[u].dock = NoRow
       \/ Made(task[u].dock)' /\ Owner(task[u].dock)' = task[u].request
  <2> SUFFICES ASSUME task[u].pc \in Rejecting \cup {"discard_request"}, task[u].dock # NoRow
               PROVE  Made(task[u].dock)' /\ Owner(task[u].dock)' = task[u].request
    OBVIOUS
  <2>1. Made(task[u].dock) /\ Owner(task[u].dock) = task[u].request
    BY <1>1 DEF Knows
  <2> QED
    BY <1>1, <1>3, <2>1 DEF Made, Owner
<1> QED
  BY <1>1, <1>4, <1>5, <1>7, <1>8 DEF Knows

\* and so do how far what they tend had come,
LEMMA OthersFitStatus ==
  ASSUME TendInv, NEW t \in Tasks, Behaves(t), NEW u \in Tasks \ {t}
  PROVE  FitsStatus(u)'
<1>1. task'[u] = task[u] /\ Role(u) /\ FitsStatus(u)
  BY DEF Behaves, Turns, Effects, Only, TendInv, Fits
<1>2. CASE task[u].pc \in Tending
  <2>1. Status(u)' = Status(u) \/ (Status(u) \in InFlight /\ Status(u)' = "failed")
    BY <1>2, OthersTend DEF Status
  <2> QED
    BY <1>1, <1>2, <2>1 DEF FitsStatus, InFlight, ActiveAttempt
<1>3. CASE task[u].pc \notin Tending
  <2>1. task[u].says # "failing"
    BY <1>1, <1>3 DEF Role, Tending, Settling
  <2> QED
    BY <1>1, <1>3, <2>1 DEF FitsStatus, Tending, Settling, Rejecting
<1> QED
  BY <1>2, <1>3

\* where its files are,
LEMMA OthersFitFile ==
  ASSUME Base, TendInv, FirstTries, NEW t \in Tasks, Behaves(t), NEW u \in Tasks \ {t}
  PROVE  FitsFile(u)'
<1>1. task'[u] = task[u] /\ FitsFile(u)
  BY DEF Behaves, Turns, Effects, Only, TendInv, Fits
<1> DEFINE a == task[u].attempt
<1>2. ASSUME task[u].pc \in Tending, u \in ImportWorkers PROVE ~Placed(task[u].attempt)'
  <2> SUFFICES ASSUME attempt'[a].dock # NoRow, dock'[attempt'[a].dock].state = "placed"
               PROVE  FALSE
    BY <1>1 DEF Placed
  <2>1. /\ attempt'[a].dock = attempt[a].dock
        /\ ~Tends(t, a)
        /\ a \in Attempts
    BY <1>2, OthersTend DEF Inserted
  <2> DEFINE g == attempt[a].dock
  <2>2. g \in DockFiles /\ dock[g].attempt = a
    BY <2>1 DEF Base, FilesInv, Linked, AttemptsLinkTheirOwn, Made
  <2>3. dock[g].state # "placed"
    BY <1>1, <1>2, <2>1 DEF FitsFile, Placed
  <2>4. task[t].dock = g /\ task[t].pc = "import_place"
    BY <2>1, <2>2, <2>3 DEF Behaves, Turns, Effects, Handles
  <2>5. task[t].attempt = a
    BY <2>2, <2>4 DEF Base, FilesInv, Brings, InHand
  <2> QED
    BY <2>1, <2>4, <2>5 DEF Tends, Tending, Importing
<1>3. ASSUME task[u].pc \in Tending, task[u].says = "auto", attempt'[a].status = "importing"
      PROVE  attempt'[a].dock \in {NoRow, task[u].dock}
  <2>1. Status(u) = "importing" /\ attempt'[a].dock \in {attempt[a].dock, NoRow}
    BY <1>3, OthersTend
  <2> QED
    BY <1>1, <1>3, <2>1 DEF FitsFile
<1>4. ASSUME task[u].pc \in InHand PROVE dock'[task[u].dock].state = "claimed"
  <2> DEFINE f == task[u].dock
  <2>1. task[u].pc \in Tending
    BY <1>4 DEF InHand, Tending, Importing
  <2>2. ~Tends(t, a) /\ Inserted(a)
    BY <2>1, OthersTend
  <2>3. Made(f) /\ dock[f].attempt = a
    BY <1>4 DEF Base, FilesInv, Brings
  <2>4. dock[f].state = "claimed"
    BY <1>1, <1>4 DEF FitsFile
  <2> SUFFICES ASSUME task[t].dock = f, task[t].pc \in InHand \cup {"discard_dock"}
               PROVE  FALSE
    BY <2>3, <2>4 DEF Behaves, Turns, Effects, Handles, Made
  <2>5. task[t].pc \in Tending
    BY DEF InHand, Tending, Importing, Rejecting
  <2>6. CASE task[t].pc \in InHand
    <3>1. task[t].attempt = a
      BY <2>3, <2>6 DEF Base, FilesInv, Brings
    <3> QED
      BY <2>2, <2>5, <3>1 DEF Tends
  <2>7. CASE task[t].pc = "discard_dock"
    <3>1. Knows(t)
      BY DEF TendInv, Fits
    <3>2. task[t].pc \in Rejecting
      BY <2>7 DEF Rejecting
    <3>3. /\ Inserted(task[t].attempt)
          /\ RequestOf(t) = task[t].request
          /\ f = NoRow \/ Owner(f) = task[t].request
      BY <2>5, <3>1, <3>2 DEF Knows
    <3>4. f # NoRow
      BY <2>3 DEF Made, DockFiles, NoRow
    <3>5. task[t].attempt = a
      BY <2>2, <2>3, <3>3, <3>4, OneDownload DEF Owner, RequestOf
    <3> QED
      BY <2>2, <2>5, <3>5 DEF Tends
  <2> QED
    BY <2>6, <2>7
<1> QED
  BY <1>1, <1>2, <1>3, <1>4 DEF FitsFile, Status

\* and that the client has nothing to tell of it;
LEMMA OthersFitClient ==
  ASSUME Base, TendInv, FirstTries, NEW t \in Tasks, Behaves(t), NEW u \in Tasks \ {t}
  PROVE  FitsClient(u)'
<1>1. task'[u] = task[u] /\ FitsClient(u)
  BY DEF Behaves, Turns, Effects, Only, TendInv, Fits
<1> SUFFICES ASSUME task[u].pc \in Submitting
             PROVE  /\ attempt'[task[u].attempt].release \in Releases
                    /\ client'[attempt'[task[u].attempt].release] = "absent"
                    /\ Unpolled(task[u].attempt)'
  BY <1>1 DEF FitsClient, Unpolled, Polls
<1> DEFINE a == task[u].attempt
           h == attempt[a].release
<1>2. task[u].pc \in Tending
  BY DEF Tending
<1>3. ~Tends(t, a) /\ Inserted(a) /\ attempt'[a].release = h
  BY <1>2, OthersTend
<1>4. h \in Releases /\ client[h] = "absent" /\ Unpolled(a)
  BY <1>1 DEF FitsClient
<1>5. client'[h] = "absent"
  <2> SUFFICES ASSUME task[t].pc = "grab_add", attempt[task[t].attempt].release = h
               PROVE  FALSE
    BY <1>4 DEF Behaves, Turns, Effects, Gives
  <2>1. task[t].pc \in Tending
    BY DEF Tending, Submitting
  <2>2. Knows(t) => Inserted(task[t].attempt)
    BY <2>1 DEF Knows
  <2>3. Inserted(task[t].attempt)
    BY <2>2 DEF TendInv, Fits
  <2>4. task[t].attempt # a
    BY <1>3, <2>1 DEF Tends
  <2> QED
    BY <1>3, <1>4, <2>3, <2>4, ReleasesAssumption DEF FirstTries, Inserted
<1>6. ASSUME NEW v \in Tasks PROVE ~(task'[v].says \in PollWords /\ task'[v].attempt = a)
  <2>1. CASE v = t
    <3> SUFFICES ASSUME task'[t].says \in PollWords, task'[t].attempt = a PROVE FALSE
      BY <2>1
    <3>1. ~Polls(t, a)
      BY <1>4 DEF Unpolled
    <3>2. Tends(u, a)
      BY <1>2 DEF Tends
    <3> QED
      BY <3>1, <3>2 DEF Behaves, Turns, Effects, Asks
  <2>2. CASE v # t
    BY <1>4, <2>2 DEF Unpolled, Polls, Behaves, Turns, Only
  <2> QED
    BY <2>1, <2>2
<1> QED
  BY <1>1, <1>3, <1>4, <1>5, <1>6 DEF Unpolled, Polls

\* so that nobody comes to tend what another tends, or to ask what another asks,
LEMMA OneStays ==
  ASSUME TendInv, NEW t \in Tasks, Behaves(t)
  PROVE  OneTends' /\ OnePolls'
<1>1. \A u \in Tasks \ {t} : task'[u] = task[u]
  BY DEF Behaves, Turns, Effects, Only
<1>2. ASSUME NEW u \in Tasks \ {t}, task'[t].pc \in Tending, task[u].pc \in Tending
      PROVE  task'[t].attempt # task[u].attempt
  BY <1>2 DEF TendInv, OneTends, Behaves, Turns, TakesUp, Tends, Untended
<1>3. ASSUME NEW u \in Tasks \ {t}, task'[t].says \in PollWords, task[u].says \in PollWords
      PROVE  task'[t].attempt # task[u].attempt
  BY <1>3 DEF TendInv, OnePolls, Behaves, Turns, Asks, Polls, Unpolled
<1>4. OneTends'
  <2> SUFFICES ASSUME NEW u \in Tasks, NEW v \in Tasks, task'[u].pc \in Tending,
                      task'[v].pc \in Tending, task'[u].attempt = task'[v].attempt
               PROVE  u = v
    BY DEF OneTends
  <2> QED
    BY <1>1, <1>2 DEF TendInv, OneTends
<1>5. OnePolls'
  <2> SUFFICES ASSUME NEW u \in Tasks, NEW v \in Tasks, task'[u].says \in PollWords,
                      task'[v].says \in PollWords, task'[u].attempt = task'[v].attempt
               PROVE  u = v
    BY DEF OnePolls
  <2> QED
    BY <1>1, <1>3 DEF TendInv, OnePolls
<1> QED
  BY <1>4, <1>5

\* and what is held stays held, and untended.
LEMMA HeldStays ==
  ASSUME TendInv, NEW t \in Tasks, Behaves(t)
  PROVE  HeldIsUntended'
<1> SUFFICES ASSUME NEW r \in Requests, request'[r].status = "needs_review"
             PROVE  \E a \in Attempts :
                      /\ attempt'[a].request = r /\ attempt'[a].status = "needs_review"
                      /\ Untended(a)'
  BY DEF HeldIsUntended
<1>1. \A u \in Tasks \ {t} : task'[u] = task[u]
  BY DEF Behaves, Turns, Effects, Only
<1>2. CASE request[r].status = "needs_review"
  <2>1. PICK a \in Attempts : /\ attempt[a].request = r /\ attempt[a].status = "needs_review"
                              /\ Untended(a)
    BY <1>2 DEF TendInv, HeldIsUntended
  <2>2. Touches(t, a) /\ Created(a) /\ ~Tends(t, a)
    BY <2>1 DEF Behaves, Turns, Effects, Created, Untended
  <2>3. attempt'[a].request = r /\ attempt'[a].status = "needs_review"
    BY <2>1, <2>2 DEF Touches, InFlight, ActiveAttempt
  <2>4. ~Tends(t, a)'
    <3> SUFFICES ASSUME task'[t].pc \in Tending, task'[t].attempt = a PROVE FALSE
      BY DEF Tends
    <3> QED
      BY <2>1, <2>2 DEF Behaves, Turns, Effects, TakesUp
  <2> QED
    BY <1>1, <2>1, <2>3, <2>4 DEF Untended, Tends
<1>3. CASE request[r].status # "needs_review"
  <2> DEFINE a == task[t].attempt
  <2>1. /\ task[t].pc \in {"hold_request", "discard_undo_request"}
        /\ attempt[a].request = r
        /\ UNCHANGED attempt
        /\ task'[t].pc \notin Tending
    BY <1>3 DEF Behaves, Turns, Effects, HoldsUp, RequestOf
  <2>2. task[t].pc \in Tending
    BY <2>1 DEF Tending, Settling, Rejecting
  <2>3. Knows(t) /\ FitsStatus(t)
    BY DEF TendInv, Fits
  <2>4. a \in Attempts
    BY <2>2, <2>3 DEF Knows, Inserted
  <2>5. attempt[a].status = "needs_review"
    BY <2>1, <2>3 DEF FitsStatus, Status
  <2>6. a \in Attempts /\ attempt[a].status = "needs_review"
    BY <2>4, <2>5
  <2>7. \A u \in Tasks \ {t} : ~Tends(u, a)
    BY <2>2 DEF TendInv, OneTends, Tends
  <2> QED
    BY <1>1, <2>1, <2>6, <2>7 DEF Untended, Tends
<1> QED
  BY <1>2, <1>3

\* What the client has is known here, whoever adds it.
LEMMA TransfersStayKnown ==
  ASSUME TendInv, NEW t \in Tasks, Behaves(t)
  PROVE  TransfersAreKnown'
<1> SUFFICES ASSUME NEW h \in Releases, client'[h] # "absent"
             PROVE  \E a \in Attempts : Created(a)' /\ attempt'[a].release = h
  BY DEF TransfersAreKnown
<1>1. \E a \in Attempts : Created(a) /\ attempt[a].release = h
  <2>1. CASE client[h] # "absent"
    BY <2>1 DEF TendInv, TransfersAreKnown
  <2>2. CASE task[t].pc = "grab_add" /\ attempt[task[t].attempt].release = h
    <3>1. Knows(t) => Inserted(task[t].attempt)
      BY <2>2 DEF Knows, Tending, Submitting
    <3> QED
      BY <2>2, <3>1 DEF TendInv, Fits, Inserted
  <2> QED
    BY <2>1, <2>2 DEF Behaves, Turns, Effects, Gives
<1> QED
  BY <1>1 DEF Behaves, Turns, Effects, Touches

\* What is over stays so,
LEMMA OverStays ==
  ASSUME NEW t \in Tasks, Behaves(t), NEW a \in Attempts, Over(a)
  PROVE  Over(a)'
<1>1. Created(a) /\ ~Tends(t, a) /\ ~Polls(t, a) /\ Touches(t, a)
  BY DEF Over, Created, Untended, Unpolled, Behaves, Effects
<1>2. attempt'[a].status = "failed"
  BY <1>1 DEF Touches, Over, ActiveAttempt
<1>3. ~(task'[t].pc \in Tending /\ task'[t].attempt = a)
  BY <1>1 DEF Behaves, Turns, TakesUp, Over, InFlight, ActiveAttempt
<1>4. ~(task'[t].says \in PollWords /\ task'[t].attempt = a)
  BY <1>1 DEF Behaves, Turns, Asks, Over, ActiveAttempt
<1> QED
  BY <1>2, <1>3, <1>4 DEF Behaves, Turns, Only, Over, Untended, Unpolled, Tends, Polls

\* as is what was refused.
LEMMA RefusedStayOver ==
  ASSUME TendInv, NEW t \in Tasks, Behaves(t), Fits(t)'
  PROVE  RefusedAreOver'
<1> SUFFICES ASSUME NEW a \in Attempts, Created(a)', attempt'[a].release = NoRelease
             PROVE  Over(a)'
  BY DEF RefusedAreOver
<1>1. CASE Created(a)
  <2>1. attempt[a].release = NoRelease
    BY <1>1 DEF Behaves, Effects, Touches
  <2> QED
    BY <1>1, <2>1, OverStays DEF TendInv, RefusedAreOver
<1>2. CASE ~Created(a)
  <2>1. task'[t].pc = "grab_rollback" /\ attempt'[a].status = "failed"
    BY <1>2, ReleasesAssumption DEF Behaves, Effects, Inserts
  <2>2. ~(task'[t].pc \in Tending) /\ ~(task'[t].says \in PollWords)
    BY <2>1 DEF Tending, Submitting, Importing, Settling, Filing, Moved, Rejecting, Fits, Role
  <2>3. ASSUME NEW u \in Tasks \ {t}
        PROVE  ~(task'[u].pc \in Tending /\ task'[u].attempt = a)
               /\ ~(task'[u].says \in PollWords /\ task'[u].attempt = a)
    <3>1. Knows(u) /\ task'[u] = task[u]
      BY DEF TendInv, Fits, Behaves, Turns, Only
    <3> QED
      BY <1>2, <3>1 DEF Knows, Inserted
  <2> QED
    BY <2>1, <2>2, <2>3 DEF Over, Untended, Unpolled, Tends, Polls
<1> QED
  BY <1>1, <1>2

\* So a step keeps all of it that does this to others, and is right about itself.
LEMMA Tended ==
  ASSUME Base, TendInv, FirstTries, NEW t \in Tasks, Behaves(t), Fits(t)'
  PROVE  TendInv'
<1>1. ASSUME NEW u \in Tasks PROVE Fits(u)'
  <2>1. CASE u = t
    BY <2>1
  <2>2. CASE u # t
    <3>1. Role(u)'
      BY <2>2 DEF TendInv, Fits, Role, Behaves, Turns, Only
    <3> QED
      BY <2>2, <3>1, OthersKnowOn, OthersFitStatus, OthersFitFile, OthersFitClient DEF Fits
  <2> QED
    BY <2>1, <2>2
<1> QED
  BY <1>1, OneStays, HeldStays, TransfersStayKnown, RefusedStayOver DEF TendInv

-------------------------------------------------------------------------------
(***************************************************************************)
(* Where an activation goes.                                               *)
(***************************************************************************)
\* Places where nothing is tended or asked.
Elsewhere ==
  {"idle", "import_done", "resume", "abandon", "auto_claim", "auto_search", "auto_grab",
   "auto_failed", "grab_claim", "grab_resolve", "grab_create", "grab_rollback",
   "grab_confirm", "fulfil_attempts"}

\* An activation that goes on keeps what it remembers,
LEMMA Goes ==
  ASSUME Base, NEW t \in Tasks, NEW pc, Go(t, pc)
  PROVE  /\ Only(t) /\ task'[t].pc = pc
         /\ task'[t].attempt = task[t].attempt /\ task'[t].dock = task[t].dock
         /\ task'[t].request = task[t].request /\ task'[t].says = task[t].says
  BY DEF Base, Inv, TasksOK, TaskState, Go, Only

\* one that returns nothing but, to the queue, what it said.
LEMMA GoesBack ==
  ASSUME Base, NEW t \in Tasks, Return(t)
  PROVE  /\ Only(t) /\ task'[t].pc \in {"idle", "import_done"}
         /\ \/ t \in ImportWorkers /\ task'[t].says = task[t].says
            \/ task'[t].says = "none"
  BY DEF Base, Inv, TasksOK, TaskState, Return, Idle, Only

\* Who is elsewhere is right about everything,
LEMMA FitsElsewhere ==
  ASSUME NEW t \in Tasks, Only(t), task'[t].pc \in Elsewhere,
         task'[t].says \notin PollWords \cup {"auto", "held", "stop"}
  PROVE  Turns(t) /\ Fits(t)'
<1>1. task'[t].pc \notin Tending \cup Removing \cup
        {"adopt", "poll_apply", "poll_request", "discard_request"}
  BY DEF Elsewhere, Tending, Removing, Submitting, Importing, Settling, Filing, Moved, Rejecting
<1>2. Turns(t)
  BY <1>1 DEF Turns, TakesUp, Asks
<1>3. Role(t)'
  BY <1>1 DEF Role, Tending, Removing, PollWords
<1>4. Knows(t)'
  BY <1>1 DEF Knows, Tending, Removing
<1>5. FitsStatus(t)' /\ FitsFile(t)' /\ FitsClient(t)'
  BY <1>1 DEF FitsStatus, FitsFile, FitsClient, Tending, Settling, Rejecting, Importing, InHand,
              PollWords
<1> QED
  BY <1>2, <1>3, <1>4, <1>5 DEF Fits

\* and so is one that goes there,
LEMMA GoesElsewhereFits ==
  ASSUME Base, TendInv, NEW t \in Tasks, NEW pc \in Elsewhere, Go(t, pc),
         task[t].pc \notin Settling \cup Filing \cup {"poll_apply", "poll_request"}
  PROVE  Turns(t) /\ Fits(t)'
<1>1. task[t].says \notin PollWords \cup {"auto", "held", "stop"}
  BY DEF TendInv, Fits, Role, Settling
<1> QED
  BY <1>1, Goes, FitsElsewhere

\* and one that returns.
LEMMA ReturnsFits ==
  ASSUME Base, TendInv, NEW t \in Tasks, Return(t)
  PROVE  Turns(t) /\ Fits(t)'
<1>1. t \in ImportWorkers => task[t].says \notin PollWords \cup {"auto", "held", "stop"}
  BY TasksAssumption DEF TendInv, Fits, Role
<1> QED
  BY <1>1, GoesBack, FitsElsewhere DEF Elsewhere, PollWords

\* One that goes on with what it tends takes up nothing.
LEMMA TendsOn ==
  ASSUME NEW t \in Tasks, Only(t), task[t].pc \in Tending,
         task'[t].attempt = task[t].attempt,
         task'[t].says = task[t].says \/ task'[t].says \notin PollWords
  PROVE  Turns(t)
  BY DEF Turns, TakesUp, Asks, Tends, Polls

(***************************************************************************)
(* What is written.                                                        *)
(***************************************************************************)
NobodyHeld ==
  \A r \in Requests : request'[r].status = "needs_review" => request[r].status = "needs_review"

\* The request alone, or what the client has no more;
LEMMA RequestEffects ==
  ASSUME Base, NEW t \in Tasks, UNCHANGED <<attempt, dock>>, NobodyHeld,
         UNCHANGED client \/ \E h : client' = [client EXCEPT ![h] = "absent"]
  PROVE  Effects(t)
<1>1. \A a \in Attempts : Touches(t, a) /\ Inserts(t, a)
  BY DEF Touches, Inserts, Created
<1>2. \A f \in DockFiles : Handles(t, f)
  BY DEF Handles, Made
<1>3. Gives(t)
  BY DEF Gives, Base, Inv, RowsOK
<1> QED
  BY <1>1, <1>2, <1>3 DEF Effects, HoldsUp, NobodyHeld

\* nothing at all;
LEMMA NoEffects ==
  ASSUME Base, NEW t \in Tasks, UNCHANGED <<rows, client>>
  PROVE  Effects(t)
  BY RequestEffects DEF rows, NobodyHeld

\* a status that is no hold, if the request is in one that is expected;
LEMMA UpdateEffects ==
  ASSUME Base, NEW t \in Tasks, NEW r, NEW from, NEW s, s # "needs_review",
         UpdateRequestIf(r, from, s), UNCHANGED <<attempt, dock, client>>
  PROVE  Effects(t)
<1>1. NobodyHeld
  BY DEF NobodyHeld, UpdateRequestIf, Base, Inv, RowsOK, RequestRow
<1> QED
  BY <1>1, RequestEffects

\* the row of the attempt that is tended.
LEMMA AttemptEffects ==
  ASSUME Base, TendInv, NEW t \in Tasks, NEW a, Tends(t, a), NEW row,
         attempt' = [attempt EXCEPT ![a] = row], row.status # "absent",
         row.request = attempt[a].request, row.release = attempt[a].release,
         UNCHANGED <<request, dock, client>>
  PROVE  Effects(t)
<1>1. \A b \in Attempts : Touches(t, b) /\ (Created(b)' => Created(b))
  <2>1. Created(a)
    BY DEF TendInv, Fits, Knows, Tends, Inserted
  <2> QED
    BY <2>1 DEF Touches, Created, Base, Inv, RowsOK
<1>2. \A f \in DockFiles : Handles(t, f)
  BY DEF Handles, Made
<1>3. Gives(t) /\ HoldsUp(t)
  BY DEF Gives, HoldsUp
<1> QED
  BY <1>1, <1>2, <1>3 DEF Effects, Inserts

\* its status,
LEMMA StatusEffects ==
  ASSUME Base, TendInv, NEW t \in Tasks, NEW a, Tends(t, a), NEW s, s # "absent", SetAttempt(a, s),
         UNCHANGED <<request, dock, client>>
  PROVE  Effects(t)
<1>1. attempt' = [attempt EXCEPT ![a] = [attempt[a] EXCEPT !.status = s]]
  BY DEF SetAttempt, Base, Inv, RowsOK
<1> DEFINE row == [attempt[a] EXCEPT !.status = s]
<1>2. CASE a \in Attempts
  <2>1. row.status = s /\ row.request = attempt[a].request /\ row.release = attempt[a].release
    BY <1>2 DEF Base, Inv, RowsOK, AttemptRow
  <2> HIDE DEF row
  <2> QED
    BY <1>1, <2>1, AttemptEffects DEF row
<1>3. CASE a \notin Attempts
  <2>1. attempt' = attempt
    BY <1>3 DEF SetAttempt, Base, Inv, RowsOK
  <2> QED
    BY <2>1, NoEffects DEF rows
<1> QED
  BY <1>2, <1>3

\* or a dock row that goes, with the links to it.
LEMMA DeleteEffects ==
  ASSUME Base, NEW t \in Tasks, NEW f, NEW state \in {"dropped", "filed"},
         DeleteDockRow(f, state), UNCHANGED client,
         DockRow(f) => \/ dock[f].state = "placed"
                       \/ task[t].dock = f /\ task[t].pc \in InHand \cup {"discard_dock"}
  PROVE  Effects(t)
<1>1. \A a \in Attempts : Touches(t, a) /\ Inserts(t, a)
  BY DEF Touches, Inserts, Created, DeleteDockRow, Unlink, Base, Inv, RowsOK, AttemptRow
<1>2. \A g \in DockFiles : Handles(t, g)
  BY DEF Handles, Made, DeleteDockRow, DockRow, Base, Inv, RowsOK, DockRows
<1>3. HoldsUp(t)
  BY DEF HoldsUp, DeleteDockRow, Unlink, Base, Inv, RowsOK, RequestRow
<1> QED
  BY <1>1, <1>2, <1>3 DEF Effects, Gives

-------------------------------------------------------------------------------
(***************************************************************************)
(* The services, one after the other.                                      *)
(***************************************************************************)
\* A grab that inserts its attempt is the first to tend it, and the client has never had
\* the release.
LEMMA CreateBehaves ==
  ASSUME Base, TendInv, FirstTries', NEW t \in Tasks, NEW h \in Releases, GrabCreate(t, h)
  PROVE  Behaves(t) /\ Fits(t)'
<1>1. CASE Go(t, "grab_rollback") /\ UNCHANGED attempt
  BY <1>1, GoesElsewhereFits, NoEffects
  DEF GrabCreate, At, Behaves, Elsewhere, rows, Settling, Filing, Moved
<1>2. ASSUME NEW a \in Attempts, IsNextAttempt(a),
             Insert(a, [AbsentAttempt EXCEPT !.status = "queued", !.release = h,
                                             !.request = task[t].request,
                                             !.automated = Unattended(t)]),
             task' = [task EXCEPT ![t].pc = "grab_add", ![t].attempt = a]
      PROVE  Behaves(t) /\ Fits(t)'
  <2>1. /\ Only(t) /\ task'[t].pc = "grab_add" /\ task'[t].attempt = a
        /\ task'[t].request = task[t].request /\ task'[t].says = task[t].says
    BY <1>2 DEF Base, Inv, TasksOK, TaskState, Only
  <2>2. /\ ~Created(a)
        /\ attempt'[a].status = "queued" /\ attempt'[a].release = h
        /\ attempt'[a].request = task[t].request
        /\ \A b \in Attempts \ {a} : attempt'[b] = attempt[b]
    BY <1>2 DEF IsNextAttempt, Insert, AbsentAttempt, Base, Inv, RowsOK
  <2>3. UNCHANGED <<request, dock, client>>
    BY DEF GrabCreate
  <2>4. \A b \in Attempts : Touches(t, b) /\ Inserts(t, b)
    BY <2>1, <2>2 DEF Touches, Inserts, Created, GrabCreate, At
  <2>5. Effects(t)
    BY <2>3, <2>4 DEF Effects, Gives, HoldsUp, Handles, Made
  <2>6. task[t].says \notin PollWords \cup {"auto", "held", "stop"}
    BY DEF GrabCreate, At, TendInv, Fits, Role, Filing, Moved, Settling
  <2>7. Untended(a) /\ Unpolled(a)
    BY <2>2 DEF TendInv, Fits, Knows, Inserted, Untended, Unpolled, Tends, Polls
  <2>8. Turns(t)
    BY <2>1, <2>2, <2>6, <2>7 DEF Turns, TakesUp, Asks, Created
  <2>9. client'[h] = "absent"
    <3> SUFFICES ASSUME client[h] # "absent" PROVE FALSE
      BY <2>3
    <3>1. PICK b \in Attempts : Created(b) /\ attempt[b].release = h
      BY DEF TendInv, TransfersAreKnown
    <3>2. b # a /\ Created(b)' /\ attempt'[b].release = h /\ Created(a)'
      BY <2>2, <3>1 DEF Created
    <3> QED
      BY <2>2, <3>2, ReleasesAssumption DEF FirstTries
  <2>10. Unpolled(a)'
    BY <2>1, <2>6, <2>7 DEF Unpolled, Polls, Only
  <2>11. Role(t)' /\ Knows(t)'
    BY <2>1, <2>2, <2>6
    DEF Role, Knows, Settling, Filing, Moved, Removing, Rejecting, Inserted, Created, RequestOf,
        PollWords
  <2>12. t \in Handlers
    BY DEF Base, WorkersImport, WorkersApart, WorkerAt, Importing, Tasks, GrabCreate, At
  <2>13. FitsStatus(t)' /\ FitsFile(t)' /\ FitsClient(t)'
    BY <2>1, <2>2, <2>6, <2>9, <2>10, <2>12, TasksAssumption
    DEF FitsStatus, FitsFile, FitsClient, Submitting, Status, InHand, PollWords
  <2> QED
    BY <2>5, <2>8, <2>11, <2>13 DEF Behaves, Fits
<1> QED
  BY <1>1, <1>2 DEF GrabCreate

\* The rest of a grab gives its attempt up, and fails it when the client refused.
LEMMA GrabBehaves ==
  ASSUME Base, TendInv, FirstTries', NEW t \in Tasks, GrabStep(t)
  PROVE  Behaves(t) /\ Fits(t)'
<1>1. Remembers(t) /\ RowsOK
  BY DEF Base, Inv, TasksOK
<1>2. CASE GrabClaim(t)
  <2>1. NobodyHeld
    BY <1>1, <1>2 DEF GrabClaim, NobodyHeld, RowsOK, RequestRow
  <2> QED
    BY <1>2, <2>1, RequestEffects, GoesElsewhereFits, ReturnsFits
    DEF GrabClaim, At, Behaves, Elsewhere, Settling, Filing, Moved
<1>3. CASE GrabResolve(t)
  BY <1>3, NoEffects, GoesElsewhereFits
  DEF GrabResolve, At, Behaves, Elsewhere, Settling, Filing, Moved
<1>4. CASE GrabRefused(t)
  <2>1. Turns(t) /\ Fits(t)'
    BY <1>4, GoesElsewhereFits DEF GrabRefused, At, Elsewhere, Settling, Filing, Moved
  <2>2. ASSUME NEW a \in Attempts
        PROVE  \/ attempt'[a] = attempt[a]
               \/ /\ ~Created(a)
                  /\ attempt'[a].status = "failed" /\ attempt'[a].release = NoRelease
                  /\ attempt'[a].request = task[t].request
    BY <1>1, <1>4 DEF GrabRefused, Insert, IsNextAttempt, AbsentAttempt, RowsOK
  <2>3. task'[t].pc = "grab_rollback" /\ task'[t].request = task[t].request
    BY <1>4, Goes DEF GrabRefused
  <2>4. \A a \in Attempts : Touches(t, a) /\ Inserts(t, a)
    BY <1>4, <2>2, <2>3 DEF Touches, Inserts, Created, GrabRefused, At
  <2>5. Effects(t)
    BY <1>4, <2>4 DEF GrabRefused, Effects, Gives, HoldsUp, Handles, Made
  <2> QED
    BY <2>1, <2>5 DEF Behaves
<1>5. CASE GrabAdd(t)
  <2>1. Turns(t) /\ Fits(t)'
    BY <1>5, GoesElsewhereFits DEF GrabAdd, At, Elsewhere, Settling, Filing, Moved
  <2>2. UNCHANGED <<request, attempt, dock>>
    BY <1>5 DEF GrabAdd, rows
  <2>3. Gives(t)
    BY <1>1, <1>5 DEF GrabAdd, At, Gives, ClientTakes, RowsOK
  <2>4. \A a \in Attempts : Touches(t, a) /\ Inserts(t, a)
    BY <2>2 DEF Touches, Inserts, Created
  <2>5. Effects(t)
    BY <2>2, <2>3, <2>4 DEF Effects, HoldsUp, Handles, Made
  <2> QED
    BY <2>1, <2>5 DEF Behaves
<1>6. CASE GrabAddRefused(t)
  <2>1. Effects(t)
    BY <1>6, NoEffects DEF GrabAddRefused
  <2>2. /\ Only(t) /\ task'[t].pc = "grab_failed" /\ task[t].pc = "grab_add"
        /\ task'[t].attempt = task[t].attempt /\ task'[t].request = task[t].request
        /\ task'[t].says = task[t].says
        /\ UNCHANGED <<attempt, client>>
    BY <1>6, Goes DEF GrabAddRefused, At, rows
  <2>3. Turns(t)
    BY <2>2, TendsOn DEF Tending, Submitting
  <2>4. Role(t) /\ Knows(t) /\ FitsStatus(t) /\ FitsFile(t) /\ FitsClient(t)
    BY DEF TendInv, Fits
  <2>5. Role(t)' /\ Knows(t)'
    BY <2>2, <2>4
    DEF Role, Knows, Tending, Submitting, Settling, Filing, Moved, Removing, Rejecting, Inserted,
        Created, RequestOf, PollWords
  <2>6. t \in Handlers
    BY <1>6 DEF Base, WorkersImport, WorkersApart, WorkerAt, Importing, Tasks, GrabAddRefused, At
  <2>7. Unpolled(task[t].attempt)'
    BY <2>2, <2>4 DEF FitsClient, Submitting, Unpolled, Polls, Only
  <2>8. FitsStatus(t)' /\ FitsFile(t)' /\ FitsClient(t)'
    BY <2>2, <2>4, <2>5, <2>6, <2>7, TasksAssumption
    DEF Role, FitsStatus, FitsFile, FitsClient, Tending, Submitting, Status, InHand, Filing, Moved,
        Settling, PollWords
  <2> QED
    BY <2>1, <2>3, <2>5, <2>8 DEF Behaves, Fits
<1>7. CASE GrabFailed(t)
  <2>1. Turns(t) /\ Fits(t)'
    BY <1>7, GoesElsewhereFits DEF GrabFailed, At, Elsewhere, Settling, Filing, Moved
  <2>2. Effects(t)
    BY <1>7, StatusEffects DEF GrabFailed, At, Tends, Tending, Submitting
  <2> QED
    BY <2>1, <2>2 DEF Behaves
<1>8. CASE GrabRollback(t)
  <2>1. task[t].was # "needs_review"
    BY <1>1, <1>8 DEF GrabRollback, At, Remembers, Grabbing, Grabbable
  <2>2. Effects(t)
    BY <1>8, <2>1, UpdateEffects DEF GrabRollback
  <2> QED
    BY <1>8, <2>2, GoesElsewhereFits, ReturnsFits
    DEF GrabRollback, At, Behaves, Elsewhere, Settling, Filing, Moved
<1>9. CASE GrabConfirm(t)
  BY <1>9, UpdateEffects, ReturnsFits DEF GrabConfirm, Behaves
<1> QED
  BY <1>2, <1>3, <1>4, <1>5, <1>6, <1>7, <1>8, <1>9, CreateBehaves DEF GrabStep

\* A pass tends nothing outside its grabs.
LEMMA AutomationBehaves ==
  ASSUME Base, TendInv, NEW t \in Tasks, AutomationStep(t)
  PROVE  Behaves(t) /\ Fits(t)'
<1>1. RowsOK
  BY DEF Base, Inv
<1>2. ASSUME NEW from, HandBack(t, from), UNCHANGED <<attempt, dock, client>>
      PROVE  Behaves(t) /\ Fits(t)'
  <2>1. NobodyHeld
    BY <1>1, <1>2 DEF HandBack, UpdateRequestIf, NobodyHeld, RowsOK, RequestRow
  <2> QED
    BY <1>2, <2>1, RequestEffects, ReturnsFits DEF HandBack, Behaves
<1>3. CASE PassClaim(t)
  <2>1. NobodyHeld
    BY <1>1, <1>3 DEF PassClaim, NobodyHeld, RowsOK, RequestRow
  <2> QED
    BY <1>3, <2>1, RequestEffects, GoesElsewhereFits, ReturnsFits
    DEF PassClaim, At, Behaves, Elsewhere, Settling, Filing, Moved
<1>4. CASE PassDeclines(t)
  BY <1>2, <1>4, NoEffects, ReturnsFits DEF PassDeclines, Behaves, rows
<1>5. CASE SearchFindsNothing(t)
  BY <1>2, <1>5 DEF SearchFindsNothing
<1>6. CASE SearchFinds(t)
  BY <1>6, NoEffects, GoesElsewhereFits
  DEF SearchFinds, At, Behaves, Elsewhere, Settling, Filing, Moved
<1>7. CASE PassGrabs(t)
  <2>1. CASE Go(t, "auto_failed")
    BY <1>7, <2>1, NoEffects, GoesElsewhereFits
    DEF PassGrabs, At, Behaves, Elsewhere, Settling, Filing, Moved
  <2>2. CASE task' = [task EXCEPT ![t].pc = "grab_claim",
                                  ![t].was = request[task[t].request].status]
    <3>1. Only(t) /\ task'[t].pc = "grab_claim" /\ task'[t].says = task[t].says
      BY <2>2 DEF Base, Inv, TasksOK, TaskState, Only
    <3>2. task[t].says \notin PollWords \cup {"auto", "held", "stop"}
      BY <1>7 DEF PassGrabs, At, TendInv, Fits, Role, Filing, Moved, Settling
    <3> QED
      BY <1>7, <3>1, <3>2, NoEffects, FitsElsewhere DEF PassGrabs, Behaves, Elsewhere
  <2> QED
    BY <1>7, <2>1, <2>2 DEF PassGrabs
<1>8. CASE PassFails(t)
  BY <1>8, UpdateEffects, ReturnsFits DEF PassFails, Behaves
<1>9. CASE Abandon(t)
  BY <1>9, UpdateEffects, ReturnsFits DEF Abandon, Behaves
<1> QED
  BY <1>3, <1>4, <1>5, <1>6, <1>7, <1>8, <1>9 DEF AutomationStep

\* A poll moves the transfer it asks about.
LEMMA MonitorBehaves ==
  ASSUME Base, TendInv, NEW t \in Tasks, MonitorStep(t)
  PROVE  Behaves(t) /\ Fits(t)'
<1>1. Remembers(t) /\ RowsOK /\ Fits(t)
  BY DEF Base, Inv, TasksOK, TendInv
<1> DEFINE a == task[t].attempt
<1>2. CASE PollApply(t)
  <2>1. task[t].pc = "poll_apply" /\ task[t].says \in {"queued", "downloading", "completed"}
    BY <1>1, <1>2 DEF PollApply, At, Remembers
  <2>2. task[t].says \in PollWords /\ Inserted(a)
    BY <1>1, <2>1 DEF PollWords, Fits, Knows
  <2>3. CASE Return(t) /\ UNCHANGED attempt
    BY <1>2, <2>3, NoEffects, ReturnsFits DEF PollApply, Behaves, rows
  <2>4. ASSUME attempt[a].status \in ActiveAttempt, SetAttempt(a, task[t].says)
        PROVE  Effects(t) /\ \A b : Inserted(b) => Inserted(b)'
    <3>1. \A b \in Attempts : Touches(t, b) /\ Inserts(t, b)
      BY <1>1, <2>1, <2>2, <2>4
      DEF Touches, Inserts, Created, Inserted, SetAttempt, RowsOK, AttemptRow, ActiveAttempt
    <3>2. Effects(t)
      BY <1>2, <3>1 DEF PollApply, Effects, Gives, HoldsUp, Handles, Made
    <3> QED
      BY <2>2, <3>1, <3>2 DEF Touches, Inserted
  <2>5. ASSUME Go(t, "poll_request"), \A b : Inserted(b) => Inserted(b)'
        PROVE  Turns(t) /\ Fits(t)'
    <3>1. /\ Only(t) /\ task'[t].pc = "poll_request" /\ task'[t].attempt = a
          /\ task'[t].says = task[t].says
      BY <2>5, Goes
    <3>2. Turns(t)
      BY <2>2, <3>1
      DEF Turns, TakesUp, Asks, Polls, Tending, Submitting, Importing, Settling, Filing, Moved,
          Rejecting
    <3>3. Role(t)' /\ Knows(t)'
      BY <1>1, <2>1, <2>2, <2>5, <3>1
      DEF Fits, Role, Knows, Tending, Submitting, Importing, Settling, Filing, Moved, Rejecting,
          Removing, PollWords, Inserted, Created
    <3>4. FitsStatus(t)' /\ FitsFile(t)' /\ FitsClient(t)'
      BY <2>1, <3>1
      DEF FitsStatus, FitsFile, FitsClient, Tending, Submitting, Importing, Settling, Filing, Moved,
          Rejecting, InHand
    <3> QED
      BY <3>2, <3>3, <3>4 DEF Fits
  <2> QED
    BY <1>2, <2>3, <2>4, <2>5, ReturnsFits DEF PollApply, HandOff, Behaves
<1>3. CASE PollRequest(t)
  BY <1>3, UpdateEffects, ReturnsFits DEF PollRequest, HandOff, Behaves
<1>4. CASE ResumeEnqueue(t)
  BY <1>4, NoEffects, ReturnsFits DEF ResumeEnqueue, Behaves
<1> QED
  BY <1>2, <1>3, <1>4 DEF MonitorStep

\* A handler of the queue that goes on with its import, or to how it ends,
LEMMA WorkerGoesOn ==
  ASSUME Base, TendInv, NEW t \in ImportWorkers, NEW a, a = task[t].attempt, Only(t),
         task[t].pc \in Tending, task'[t].pc \in Importing \cup Settling,
         task'[t].attempt = a, task'[t].says \in {task[t].says, "choice", "truncated"},
         Created(a)', attempt'[a].status \notin ActiveAttempt, ~Placed(a)',
         task'[t].pc \in InHand => dock'[task'[t].dock].state = "claimed",
         task'[t].pc = "fail_request" => attempt'[a].status = "failed",
         task'[t].pc = "hold_request" => attempt'[a].status = "needs_review"
  PROVE  Turns(t) /\ Fits(t)'
<1>1. t \in Tasks /\ t \notin Handlers /\ Role(t) /\ Inserted(a)
  BY TasksAssumption DEF Tasks, TendInv, Fits, Knows
<1>2. task'[t].says \notin PollWords \cup {"auto", "held", "stop"}
  BY <1>1 DEF Role, PollWords
<1>3. Turns(t)
  BY <1>1, <1>2, TendsOn
<1>4. Role(t)' /\ Knows(t)'
  BY <1>1, <1>2
  DEF Role, Knows, Submitting, Importing, Settling, Filing, Moved, Rejecting, Removing, PollWords,
      Inserted
<1>5. FitsStatus(t)' /\ FitsFile(t)' /\ FitsClient(t)'
  BY <1>1, <1>2
  DEF FitsStatus, FitsFile, FitsClient, Status, Placed, Submitting, Importing, Settling, Rejecting,
      PollWords
<1> QED
  BY <1>3, <1>4, <1>5 DEF Fits

\* and a verification, or a poll that fails its transfer.
LEMMA HandlerGoesOn ==
  ASSUME Base, TendInv, NEW t \in Handlers, NEW a, a = task[t].attempt, Only(t),
         task[t].pc \in Filing \cup Settling, task'[t].pc \in Filing \cup Settling,
         task'[t].attempt = a, task'[t].says = task[t].says, task'[t].dock = task[t].dock,
         task[t].says = "failing" => task'[t].pc = "fail_request",
         Created(a)',
         task[t].says = "auto" => attempt'[a].status \notin ActiveAttempt \cup {"completed"},
         task[t].says = "auto" /\ attempt'[a].status = "importing" =>
           attempt'[a].dock \in {NoRow, task[t].dock},
         task'[t].pc = "fail_request" => attempt'[a].status = "failed",
         task'[t].pc = "hold_request" => attempt'[a].status = "needs_review"
  PROVE  Turns(t) /\ Fits(t)'
<1>1. t \in Tasks /\ t \notin ImportWorkers /\ Role(t) /\ task[t].pc \in Tending
  BY TasksAssumption DEF Tasks, TendInv, Fits, Tending
<1>2. Inserted(a)
  BY <1>1 DEF TendInv, Fits, Knows
<1>3. task[t].says \in {"auto", "failing"}
  BY <1>1 DEF Role
<1>4. Turns(t)
  BY <1>1, TendsOn
<1>5. task[t].says = "failing" => task[t].pc \in Settling
  BY <1>1 DEF Role, Settling
<1>6. Role(t)' /\ Knows(t)'
  BY <1>1, <1>2, <1>3, <1>5
  DEF Role, Knows, Submitting, Settling, Filing, Moved, Rejecting, Removing, PollWords, Inserted
<1>7. FitsStatus(t)' /\ FitsFile(t)' /\ FitsClient(t)'
  BY <1>1, <1>2, <1>3
  DEF FitsStatus, FitsFile, FitsClient, Status, Submitting, Settling, Filing, Moved, Rejecting,
      InHand, ActiveAttempt
<1> QED
  BY <1>4, <1>6, <1>7 DEF Fits

\* How a download ends is written on it and then on its request.
LEMMA OutcomeBehaves ==
  ASSUME Base, TendInv, NEW t \in Tasks,
         FailAttempt(t) \/ FailRequest(t) \/ HoldAttempt(t) \/ HoldRequest(t)
  PROVE  Behaves(t) /\ Fits(t)'
<1>1. RowsOK /\ Fits(t)
  BY DEF Base, Inv, TendInv
<1> DEFINE a == task[t].attempt
<1>2. task[t].pc \in Settling /\ task[t].pc \in Tending
  BY DEF FailAttempt, FailRequest, HoldAttempt, HoldRequest, At, Settling, Tending
<1>3. Inserted(a) /\ Tends(t, a)
  BY <1>1, <1>2 DEF Fits, Knows, Tends
<1>4. t \in ImportWorkers => ~Placed(a) /\ Status(t) \notin ActiveAttempt
  <2>1. task[t].says = "failing" => t \in Handlers
    BY <1>1 DEF Fits, Role, PollWords
  <2> QED
    BY <1>1, <1>2, <2>1, TasksAssumption DEF Fits, FitsFile, FitsStatus, Settling, Submitting
<1>5. ASSUME NEW pc \in Settling, Go(t, pc), pc \in {"hold_request", "fail_request"},
             task[t].says = "failing" => pc = "fail_request",
             attempt'[a].status = (IF pc = "fail_request" THEN "failed" ELSE "needs_review"),
             attempt'[a].dock = attempt[a].dock, UNCHANGED dock
      PROVE  Turns(t) /\ Fits(t)'
  <2>1. /\ Only(t) /\ task'[t].pc = pc /\ task'[t].attempt = a
        /\ task'[t].dock = task[t].dock /\ task'[t].says = task[t].says
    BY <1>5, Goes
  <2>2. CASE t \in ImportWorkers
    BY <1>2, <1>4, <1>5, <2>1, <2>2, WorkerGoesOn DEF Placed, Created, ActiveAttempt, InHand
  <2>3. CASE t \in Handlers
    BY <1>2, <1>5, <2>1, <2>3, HandlerGoesOn DEF Created, ActiveAttempt
  <2> QED
    BY <2>2, <2>3 DEF Tasks
<1>6. CASE FailAttempt(t)
  <2>1. CASE Return(t) /\ UNCHANGED attempt
    BY <1>6, <2>1, NoEffects, ReturnsFits DEF FailAttempt, Behaves, rows
  <2>2. CASE SetAttempt(a, "failed") /\ Go(t, "fail_request")
    <3>1. attempt'[a].status = "failed" /\ attempt'[a].dock = attempt[a].dock
      BY <1>1, <1>3, <2>2 DEF SetAttempt, RowsOK, AttemptRow, Inserted
    <3>2. Effects(t)
      BY <1>3, <1>6, <2>2, StatusEffects DEF FailAttempt
    <3> QED
      BY <1>5, <1>6, <2>2, <3>1, <3>2 DEF FailAttempt, Settling, Behaves
  <2> QED
    BY <1>6, <2>1, <2>2 DEF FailAttempt
<1>7. CASE FailRequest(t)
  BY <1>7, UpdateEffects, ReturnsFits DEF FailRequest, Behaves
<1>8. CASE HoldAttempt(t)
  <2>1. CASE Return(t) /\ UNCHANGED attempt
    BY <1>8, <2>1, NoEffects, ReturnsFits DEF HoldAttempt, Behaves, rows
  <2>2. CASE /\ attempt' = [attempt EXCEPT ![a].status = "needs_review",
                                           ![a].units = (task[t].says = "choice")]
             /\ Go(t, "hold_request")
    <3> DEFINE row == [attempt[a] EXCEPT !.status = "needs_review",
                                         !.units = (task[t].says = "choice")]
    <3>1. attempt' = [attempt EXCEPT ![a] = row]
      BY <1>1, <2>2 DEF RowsOK
    <3>2. /\ row.status = "needs_review" /\ row.dock = attempt[a].dock
          /\ row.request = attempt[a].request /\ row.release = attempt[a].release
      BY <1>1, <1>3 DEF RowsOK, AttemptRow, Inserted
    <3> HIDE DEF row
    <3>3. attempt'[a].status = "needs_review" /\ attempt'[a].dock = attempt[a].dock
      BY <1>1, <1>3, <3>1, <3>2 DEF RowsOK, Inserted
    <3>4. Effects(t)
      BY <1>3, <1>8, <3>1, <3>2, AttemptEffects DEF HoldAttempt
    <3>5. task[t].says # "failing"
      BY <1>1, <1>8 DEF HoldAttempt, At, Fits, Role
    <3> QED
      BY <1>5, <1>8, <2>2, <3>3, <3>4, <3>5 DEF HoldAttempt, Settling, Behaves
  <2> QED
    BY <1>8, <2>1, <2>2 DEF HoldAttempt
<1>9. CASE HoldRequest(t)
  <2>1. ASSUME Return(t), UpdateRequestIf(attempt[a].request, WorkerWritable, "needs_review"),
               UNCHANGED <<attempt, dock, client>>
        PROVE  Behaves(t) /\ Fits(t)'
    <3>1. task'[t].pc \notin Tending
      BY <2>1, GoesBack
      DEF Tending, Submitting, Importing, Settling, Filing, Moved, Rejecting
    <3>2. HoldsUp(t)
      BY <1>1, <1>9, <2>1, <3>1
      DEF HoldsUp, HoldRequest, At, UpdateRequestIf, RowsOK, RequestRow, RequestOf
    <3>3. Effects(t)
      BY <2>1, <3>2 DEF Effects, Gives, Touches, Inserts, Created, Handles, Made
    <3> QED
      BY <2>1, <3>3, ReturnsFits DEF Behaves
  <2>2. ASSUME Go(t, "fail_attempt"), task[t].says \in {"choice", "truncated"},
               UNCHANGED <<request, attempt, dock, client>>
        PROVE  Behaves(t) /\ Fits(t)'
    <3>1. t \in ImportWorkers
      BY <1>1, <1>2, <2>2 DEF Tasks, Fits, Role
    <3>2. /\ Only(t) /\ task'[t].pc = "fail_attempt" /\ task'[t].attempt = a
          /\ task'[t].says = task[t].says
      BY <2>2, Goes
    <3>3. Turns(t) /\ Fits(t)'
      BY <1>2, <1>3, <1>4, <2>2, <3>1, <3>2, WorkerGoesOn
      DEF Placed, Created, Inserted, Status, InHand, Settling
    <3> QED
      BY <2>2, <3>3, NoEffects DEF Behaves, rows
  <2>3. CASE Return(t) /\ UNCHANGED <<request, attempt, dock, client>>
    BY <2>3, NoEffects, ReturnsFits DEF Behaves, rows
  <2> QED
    BY <1>9, <2>1, <2>2, <2>3 DEF HoldRequest
<1> QED
  BY <1>6, <1>7, <1>8, <1>9

\* An import keeps its download out of everybody's way, and its row.
LEMMA ImportBehaves ==
  ASSUME Base, TendInv, FirstTries, NEW t \in Tasks, ImportStep(t) \/ ImportPlaceCollides(t)
  PROVE  Behaves(t) /\ Fits(t)'
<1>1. RowsOK /\ Fits(t) /\ task \in [Tasks -> TaskState]
  BY DEF Base, Inv, TasksOK, TendInv
<1>2. CASE ImportDone(t)
  <2>1. Only(t) /\ task'[t] = Idle
    BY <1>1, <1>2 DEF ImportDone, Only
  <2> QED
    BY <1>2, <2>1, NoEffects, FitsElsewhere DEF ImportDone, Behaves, Idle, Elsewhere, PollWords
<1>3. ~ChooseClaim(t)
  BY DEF Base, WorkersImport, NobodyChooses, ChooseClaim, At
<1> SUFFICES ASSUME ~ImportDone(t) PROVE Behaves(t) /\ Fits(t)'
  BY <1>2
<1>4. task[t].pc \in Importing
  BY <1>3
  DEF ImportStep, ImportError, ImportHold, ImportClaimDock, ImportClaim, ImportUndo,
      ImportRefused, ImportRecord, ImportPlace, ImportPlaceThrows, ImportPlaceCollides,
      ImportPlaceFails, ImportReclaimDock, ImportReclaim, ImportRerecord, ClaimDestination, At,
      Importing
<1>5. t \in ImportWorkers /\ task[t].pc \in Tending
  BY <1>4 DEF Base, WorkersImport, Tasks, Tending
<1> DEFINE a == task[t].attempt
           f == task[t].dock
<1>6. Inserted(a) /\ Tends(t, a) /\ ~Placed(a) /\ attempt[a].status \notin ActiveAttempt
  <2>1. task[t].says # "failing"
    BY <1>1, <1>5, TasksAssumption DEF Fits, Role, PollWords
  <2> QED
    BY <1>1, <1>4, <1>5, <2>1
    DEF Fits, Knows, FitsFile, FitsStatus, Status, Tends, Submitting, Importing
<1>7. task[t].pc \in InHand => DockRow(f) /\ f \in DockFiles /\ dock[f].state = "claimed"
  BY <1>1 DEF Base, FilesInv, Brings, Made, DockRow, Fits, FitsFile, DockFiles, NoRow
\* It leaves the rows alone,
<1>8. ASSUME NEW pc, Go(t, pc), UNCHANGED <<attempt, dock>>,
             pc \in Importing \cup {"fail_attempt"}, pc \in InHand => task[t].pc \in InHand
      PROVE  Turns(t) /\ Fits(t)'
  <2>1. /\ Only(t) /\ task'[t].pc = pc /\ task'[t].attempt = a
        /\ task'[t].dock = f /\ task'[t].says = task[t].says
    BY <1>8, Goes
  <2>2. Importing \cap {"fail_request", "hold_request"} = {}
    BY DEF Importing
  <2> QED
    BY <1>5, <1>6, <1>7, <1>8, <2>1, <2>2, WorkerGoesOn
    DEF Placed, Created, Inserted, Settling
\* takes a row,
<1>9. ASSUME NEW to \in {"import_claim", "import_reclaim"}, NEW from, ClaimDestination(t, from, to)
      PROVE  Behaves(t) /\ Fits(t)'
  <2>1. PICK g \in DockFiles :
          /\ IsNextDockFile(g)
          /\ dock' = [dock EXCEPT ![g] = [state |-> "claimed", attempt |-> a]]
          /\ task' = [task EXCEPT ![t].pc = to, ![t].dock = g]
    BY <1>9 DEF ClaimDestination
  <2>2. /\ Only(t) /\ task'[t].pc = to /\ task'[t].attempt = a /\ task'[t].dock = g
        /\ task'[t].says = task[t].says
    BY <1>1, <2>1 DEF TaskState, Only
  <2>3. dock[g].state = "free" /\ dock'[g].state = "claimed"
        /\ \A e \in DockFiles \ {g} : dock'[e] = dock[e]
    BY <1>1, <2>1 DEF IsNextDockFile, RowsOK
  <2>4. UNCHANGED <<request, attempt, client>>
    BY <1>9 DEF ClaimDestination
  <2>5. \A e \in DockFiles : Handles(t, e)
    BY <2>3 DEF Handles, Made
  <2>6. Effects(t)
    BY <2>4, <2>5 DEF Effects, Gives, HoldsUp, Touches, Inserts, Created
  <2>7. attempt[a].dock # NoRow => attempt[a].dock \in DockFiles /\ attempt[a].dock # g
    BY <1>6, <2>3 DEF Base, FilesInv, Linked, AttemptsLinkTheirOwn, Made, Inserted
  <2>8. attempt'[a].dock # NoRow => dock'[attempt'[a].dock].state # "placed"
    BY <1>6, <2>3, <2>4, <2>7 DEF Placed
  <2>9. Turns(t) /\ Fits(t)'
    <3>1. \A b : b = a => ~Placed(b)' /\ Created(b)' /\ attempt'[b].status = attempt[b].status
      BY <1>6, <2>4, <2>8 DEF Placed, Created, Inserted
    <3> QED
      BY <1>5, <1>6, <2>2, <2>3, <3>1, WorkerGoesOn DEF Importing
  <2> QED
    BY <2>6, <2>9 DEF Behaves
\* gives it up again,
<1>10. ASSUME DeleteDockRow(f, "dropped"), UNCHANGED client, task[t].pc \in InHand,
              NEW pc \in {"import_refused", "fail_attempt", "import_reclaim_dock"}, Go(t, pc)
       PROVE  Behaves(t) /\ Fits(t)'
  <2>1. Effects(t)
    BY <1>10, DeleteEffects
  <2>2. /\ Only(t) /\ task'[t].pc = pc /\ task'[t].attempt = a
        /\ task'[t].dock = f /\ task'[t].says = task[t].says
    BY <1>10, Goes
  <2>3. \A b : b = a => /\ attempt'[b].status = attempt[b].status
                        /\ attempt'[b].dock \in {attempt[b].dock, NoRow}
    BY <1>1, <1>6, <1>10 DEF DeleteDockRow, Unlink, RowsOK, AttemptRow, Inserted
  <2>4. \A e : e \in DockFiles /\ dock'[e].state = "placed" => dock[e].state = "placed"
    BY <1>1, <1>10 DEF DeleteDockRow, RowsOK, DockRows
  <2>5. attempt[a].dock # NoRow => attempt[a].dock \in DockFiles
    BY <1>6 DEF Base, FilesInv, Linked, AttemptsLinkTheirOwn, Made, Inserted
  <2>6. \A b : b = a => ~Placed(b)' /\ Created(b)'
    BY <1>6, <2>3, <2>4, <2>5 DEF Placed, Created, Inserted
  <2>7. pc \in Importing \cup Settling /\ pc \notin InHand
    BY DEF Importing, Settling, InHand
  <2> QED
    BY <1>5, <1>6, <2>1, <2>2, <2>3, <2>6, <2>7, WorkerGoesOn DEF Behaves
\* or links it to the attempt.
<1>11. ASSUME NEW row, attempt' = [attempt EXCEPT ![a] = row], row.dock = f,
              row.status \notin ActiveAttempt \cup {"absent"},
              row.request = attempt[a].request, row.release = attempt[a].release,
              UNCHANGED <<request, dock, client>>, task[t].pc \in InHand, Go(t, "import_place")
       PROVE  Behaves(t) /\ Fits(t)'
  <2>1. Effects(t)
    BY <1>6, <1>11, AttemptEffects
  <2>2. /\ Only(t) /\ task'[t].pc = "import_place" /\ task'[t].attempt = a
        /\ task'[t].dock = f /\ task'[t].says = task[t].says
    BY <1>11, Goes
  <2>3. \A b : b = a => attempt'[b] = row
    BY <1>1, <1>6, <1>11 DEF RowsOK, Inserted
  <2>4. \A b : b = a => ~Placed(b)' /\ Created(b)'
    BY <1>7, <1>11, <2>3 DEF Placed, Created
  <2> QED
    BY <1>5, <1>7, <1>11, <2>1, <2>2, <2>3, <2>4, WorkerGoesOn DEF Behaves, Importing
<1>12. CASE ImportError(t)
  BY <1>8, <1>12, NoEffects DEF ImportError, InHand, Behaves, rows
<1>13. ASSUME NEW why \in {"choice", "truncated"}, ImportHold(t, why)
       PROVE  Behaves(t) /\ Fits(t)'
  <2>1. /\ Only(t) /\ task'[t].pc = "hold_attempt" /\ task'[t].attempt = a
        /\ task'[t].says = why
    BY <1>1, <1>13 DEF ImportHold, TaskState, Only
  <2>2. UNCHANGED <<rows, client>>
    BY <1>13 DEF ImportHold
  <2>3. \A b : b = a => ~Placed(b)' /\ Created(b)' /\ attempt'[b].status = attempt[b].status
    BY <1>6, <2>2 DEF Placed, Created, Inserted, rows
  <2>4. Turns(t) /\ Fits(t)'
    BY <1>5, <1>6, <2>1, <2>3, WorkerGoesOn DEF Settling, InHand
  <2> QED
    BY <2>2, <2>4, NoEffects DEF Behaves
<1>14. CASE ImportClaimDock(t) \/ ImportReclaimDock(t)
  BY <1>9, <1>14 DEF ImportClaimDock, ImportReclaimDock
<1>15. CASE ImportClaim(t)
  <2>1. NobodyHeld
    BY <1>1, <1>15 DEF ImportClaim, NobodyHeld, RowsOK, RequestRow
  <2>2. Effects(t)
    BY <1>15, <2>1, RequestEffects DEF ImportClaim
  <2> QED
    BY <1>8, <1>15, <2>2 DEF ImportClaim, At, Behaves, InHand, Importing
<1>16. CASE ImportReclaim(t)
  <2>1. NobodyHeld
    BY <1>1, <1>16 DEF ImportReclaim, NobodyHeld, RowsOK, RequestRow
  <2>2. Effects(t)
    BY <1>16, <2>1, RequestEffects DEF ImportReclaim
  <2> QED
    BY <1>8, <1>16, <2>2 DEF ImportReclaim, At, Behaves, InHand, Importing
<1>17. CASE ImportUndo(t) \/ ImportPlaceThrows(t) \/ ImportPlaceCollides(t)
  BY <1>10, <1>17
  DEF ImportUndo, ImportPlaceThrows, ImportPlaceCollides, ImportPlaceFails, At, InHand
<1>18. CASE ImportRefused(t)
  <2>1. Effects(t)
    BY <1>1, <1>6, <1>18, StatusEffects, NoEffects DEF ImportRefused, SetAttempt, rows
  <2> QED
    BY <1>18, <2>1, ReturnsFits DEF ImportRefused, Behaves
<1>19. CASE ImportRecord(t)
  <2>1. ASSUME attempt' = [attempt EXCEPT ![a].status = "importing", ![a].dock = f],
               Go(t, "import_place")
        PROVE  Behaves(t) /\ Fits(t)'
    <3> DEFINE row == [attempt[a] EXCEPT !.status = "importing", !.dock = f]
    <3>1. attempt' = [attempt EXCEPT ![a] = row]
      BY <1>1, <2>1 DEF RowsOK
    <3>2. /\ row.status = "importing" /\ row.dock = f
          /\ row.request = attempt[a].request /\ row.release = attempt[a].release
      BY <1>1, <1>6 DEF RowsOK, AttemptRow, Inserted
    <3> HIDE DEF row
    <3> QED
      BY <1>11, <1>19, <2>1, <3>1, <3>2 DEF ImportRecord, At, InHand, ActiveAttempt
  <2>2. CASE Go(t, "fail_attempt") /\ UNCHANGED attempt
    BY <1>8, <1>19, <2>2, NoEffects DEF ImportRecord, InHand, Behaves, rows
  <2> QED
    BY <1>19, <2>1, <2>2 DEF ImportRecord
<1>20. CASE ImportRerecord(t)
  <2>1. ASSUME attempt' = [attempt EXCEPT ![a].dock = f], Go(t, "import_place")
        PROVE  Behaves(t) /\ Fits(t)'
    <3> DEFINE row == [attempt[a] EXCEPT !.dock = f]
    <3>1. attempt' = [attempt EXCEPT ![a] = row]
      BY <1>1, <2>1 DEF RowsOK
    <3>2. /\ row.status = attempt[a].status /\ row.dock = f
          /\ row.request = attempt[a].request /\ row.release = attempt[a].release
      BY <1>1, <1>6 DEF RowsOK, AttemptRow, Inserted
    <3> HIDE DEF row
    <3> QED
      BY <1>6, <1>11, <1>20, <2>1, <3>1, <3>2
      DEF ImportRerecord, At, InHand, Inserted, Created
  <2>2. CASE Go(t, "fail_attempt") /\ UNCHANGED attempt
    BY <1>8, <1>20, <2>2, NoEffects DEF ImportRerecord, InHand, Behaves, rows
  <2> QED
    BY <1>20, <2>1, <2>2 DEF ImportRerecord
<1>21. CASE ImportPlace(t)
  <2>1. task[t].pc = "import_place" /\ f \in DockFiles
        /\ dock' = [dock EXCEPT ![f].state = "placed"]
        /\ UNCHANGED <<request, attempt, client>>
    BY <1>7, <1>21 DEF ImportPlace, At, InHand
  <2>2. \A g \in DockFiles : Handles(t, g)
    BY <1>1, <2>1 DEF Handles, Made, RowsOK, DockRows, InHand
  <2>3. Effects(t)
    BY <2>1, <2>2 DEF Effects, Gives, HoldsUp, Touches, Inserts, Created
  <2> QED
    BY <1>21, <2>3, ReturnsFits DEF ImportPlace, Behaves
<1> QED
  BY <1>3, <1>12, <1>13, <1>14, <1>15, <1>16, <1>17, <1>18, <1>19, <1>20, <1>21 DEF ImportStep

\* A verification has its download to itself until the file is moved and both rows say so,
\* or the download is held.
LEMMA FilingBehaves ==
  ASSUME Base, TendInv, NEW t \in Tasks,
         \/ VerifyPasses(t) \/ VerifyHolds(t) \/ VerifyFindsNoRow(t)
         \/ FileRead(t) \/ FileMove(t) \/ FileMoveFails(t) \/ FileRequest(t) \/ FileAttempt(t)
  PROVE  Behaves(t) /\ Fits(t)'
<1>1. RowsOK /\ Fits(t)
  BY DEF Base, Inv, TendInv
<1>2. task[t].pc \in Filing
  BY DEF VerifyPasses, VerifyHolds, VerifyFindsNoRow, FileRead, FileMove, FileMoveFails,
         FileRequest, FileAttempt, At, Filing, Moved
<1> DEFINE a == task[t].attempt
           f == task[t].dock
<1>3. t \in Handlers /\ t \notin ImportWorkers /\ task[t].says = "auto" /\ task[t].pc \in Tending
  BY <1>1, <1>2, TasksAssumption DEF Fits, Role, Tending
<1>4. /\ Inserted(a) /\ Tends(t, a)
      /\ attempt[a].status \notin ActiveAttempt \cup {"completed"}
      /\ attempt[a].status = "importing" => attempt[a].dock \in {NoRow, f}
  BY <1>1, <1>2, <1>3
  DEF Fits, Knows, FitsFile, FitsStatus, Status, Tends, Submitting, Filing, Moved
<1>5. ASSUME NEW pc \in Filing \cup {"hold_attempt", "fail_attempt"}, Go(t, pc),
             attempt'[a].status \notin ActiveAttempt \cup {"completed", "absent"},
             attempt'[a].status = "importing" => attempt'[a].dock \in {NoRow, f}
      PROVE  Turns(t) /\ Fits(t)'
  <2>1. /\ Only(t) /\ task'[t].pc = pc /\ task'[t].attempt = a
        /\ task'[t].dock = f /\ task'[t].says = task[t].says
    BY <1>5, Goes
  <2>2. pc \in Filing \cup Settling /\ pc \notin {"hold_request", "fail_request"}
    BY DEF Filing, Moved, Settling
  <2> QED
    BY <1>2, <1>3, <1>5, <2>1, <2>2, HandlerGoesOn DEF Created
<1>6. ASSUME NEW pc \in Filing \cup {"hold_attempt", "fail_attempt"}, Go(t, pc),
             UNCHANGED attempt
      PROVE  Turns(t) /\ Fits(t)'
  BY <1>4, <1>5, <1>6 DEF Inserted, Created
<1>7. NotFiled(t) => Go(t, "hold_attempt")
  BY <1>3 DEF NotFiled
<1>8. CASE \/ VerifyPasses(t) \/ VerifyHolds(t) \/ VerifyFindsNoRow(t)
           \/ FileRead(t) \/ FileMoveFails(t)
  <2>1. UNCHANGED <<rows, client>>
    BY <1>8 DEF VerifyPasses, VerifyHolds, VerifyFindsNoRow, FileRead, FileMoveFails
  <2>2. \E pc \in Filing \cup {"hold_attempt", "fail_attempt"} : Go(t, pc)
    BY <1>7, <1>8
    DEF VerifyPasses, VerifyHolds, VerifyFindsNoRow, FileRead, FileMoveFails, Filing
  <2> QED
    BY <1>6, <2>1, <2>2, NoEffects DEF Behaves, rows
<1>9. CASE FileMove(t)
  <2>1. Effects(t)
    BY <1>9, DeleteEffects DEF FileMove
  <2>2. attempt'[a].status = attempt[a].status /\ attempt'[a].dock \in {attempt[a].dock, NoRow}
    BY <1>1, <1>4, <1>9 DEF FileMove, DeleteDockRow, Unlink, RowsOK, AttemptRow, Inserted
  <2>3. Turns(t) /\ Fits(t)'
    BY <1>4, <1>5, <1>9, <2>2 DEF FileMove, Filing, Moved, Inserted, Created
  <2> QED
    BY <2>1, <2>3 DEF Behaves
<1>10. CASE FileRequest(t)
  <2>1. NobodyHeld
    BY <1>1, <1>10 DEF FileRequest, NobodyHeld, RowsOK, RequestRow
  <2>2. Effects(t)
    BY <1>10, <2>1, RequestEffects DEF FileRequest
  <2> QED
    BY <1>6, <1>10, <2>2 DEF FileRequest, Behaves, Filing, Moved
<1>11. CASE FileAttempt(t)
  <2>1. Effects(t)
    BY <1>1, <1>4, <1>11, StatusEffects, NoEffects DEF FileAttempt, SetAttempt, rows
  <2>2. /\ attempt'[a].status \in {attempt[a].status, "imported"}
        /\ attempt'[a].dock = attempt[a].dock
    BY <1>1, <1>4, <1>11 DEF FileAttempt, RowsOK, AttemptRow, Inserted
  <2>3. Return(t) \/ Go(t, "hold_attempt")
    BY <1>7, <1>11 DEF FileAttempt
  <2>4. CASE Go(t, "hold_attempt")
    BY <1>4, <1>5, <2>1, <2>2, <2>4 DEF Behaves, ActiveAttempt, Inserted, Created
  <2> QED
    BY <2>1, <2>3, <2>4, ReturnsFits DEF Behaves
<1> QED
  BY <1>8, <1>9, <1>10, <1>11

\* No index refuses the hash of a download that is tended: it is the only one that has it.
LEMMA HashesAreFree ==
  ASSUME FirstTries, TendInv, NEW a, Inserted(a)
  PROVE  HashFree(attempt[a].release, a)
<1> SUFFICES ASSUME NEW b \in Attempts \ {a}, attempt[b].release = attempt[a].release,
                    Created(b)
             PROVE  attempt[b].status \notin Unsettled
  BY DEF HashFree, Created, Unsettled, InFlight, ActiveAttempt
<1>1. attempt[b].release = NoRelease
  BY DEF FirstTries, Inserted
<1> QED
  BY <1>1 DEF TendInv, RefusedAreOver, Over, Unsettled, InFlight, ActiveAttempt

\* A handler that goes on discarding.
LEMMA DiscardGoesOn ==
  ASSUME Base, TendInv, NEW t \in Handlers, NEW a, a = task[t].attempt, NEW pc \in Rejecting,
         Go(t, pc), task[t].pc \in Rejecting \cup {"discard_request"}, Turns(t),
         \A b : Inserted(b) => Inserted(b)' /\ attempt'[b].request = attempt[b].request,
         \A f : Made(f) => Made(f)' /\ dock'[f].attempt = dock[f].attempt,
         attempt'[a].status =
           (IF pc \in {"discard_attempt", "discard_undo_request"} THEN "needs_review"
            ELSE "failed")
  PROVE  Fits(t)'
<1>1. t \in Tasks /\ t \notin ImportWorkers /\ Role(t) /\ Knows(t)
  BY TasksAssumption DEF Tasks, TendInv, Fits
<1>2. /\ task'[t].pc = pc /\ task'[t].attempt = a /\ task'[t].request = task[t].request
      /\ task'[t].dock = task[t].dock /\ task'[t].says = task[t].says
  BY <1>1, Goes
<1>3. task[t].says \notin PollWords \cup {"auto", "held", "stop"}
  BY <1>1 DEF Role, Rejecting, Settling, Filing, Moved
<1>4. Inserted(a) /\ attempt[a].request = task[t].request
  BY <1>1 DEF Knows, Tending, RequestOf
<1>5. Inserted(a)' /\ attempt'[a].request = task[t].request
  BY <1>4
<1>6. \/ task[t].dock = NoRow
      \/ Made(task[t].dock) /\ Owner(task[t].dock) = task[t].request
  BY <1>1 DEF Knows
<1>7. ASSUME NEW f, Made(f) PROVE Owner(f)' = Owner(f)
  <2>1. Inserted(dock[f].attempt) /\ dock'[f].attempt = dock[f].attempt
    BY <1>7 DEF Base, FilesInv, Linked, FilesComeFromAttempts, Made
  <2> QED
    BY <2>1 DEF Owner
<1>8. \/ task[t].dock = NoRow
      \/ Made(task[t].dock)' /\ Owner(task[t].dock)' = task[t].request
  BY <1>2, <1>6, <1>7 DEF Made, Owner
<1>9. Role(t)'
  BY <1>1, <1>2, <1>3 DEF Role, Rejecting, Settling, Filing, Moved, Removing, PollWords
<1>10. Knows(t)'
  BY <1>2, <1>3, <1>5, <1>8
  DEF Knows, Rejecting, Inserted, Created, RequestOf, Made, Owner
<1>11. FitsStatus(t)' /\ FitsFile(t)' /\ FitsClient(t)'
  BY <1>1, <1>2, <1>3
  DEF FitsStatus, FitsFile, FitsClient, Status, Rejecting, Submitting, InHand, ActiveAttempt,
      PollWords
<1> QED
  BY <1>9, <1>10, <1>11 DEF Fits

\* A discard takes up what a person was to look at.
LEMMA DiscardBehaves ==
  ASSUME Base, TendInv, FirstTries, NEW t \in Tasks,
         \/ DiscardRequest(t) \/ DiscardAttempt(t) \/ DiscardDock(t)
         \/ DiscardDockFails(t) \/ DiscardUndoAttempt(t) \/ DiscardUndoRequest(t)
  PROVE  Behaves(t) /\ Fits(t)'
<1>1. RowsOK /\ Fits(t) /\ KnownRequests
  BY DEF Base, Inv, TendInv
<1>2. task[t].pc \in Rejecting \cup {"discard_request"}
  BY DEF DiscardRequest, DiscardAttempt, DiscardDock, DiscardDockFails, DiscardUndoAttempt,
         DiscardUndoRequest, At, Rejecting
<1>3. t \in Handlers
  BY <1>2 DEF Base, WorkersImport, WorkersApart, WorkerAt, Importing, Rejecting, Tasks
<1> DEFINE a == task[t].attempt
           f == task[t].dock
<1>4. Inserted(a) /\ attempt[a].request = task[t].request
  BY <1>1, <1>2 DEF Fits, Knows, RequestOf, Tending
<1>5. ASSUME NEW pc \in Rejecting, Go(t, pc), task[t].pc \in Rejecting PROVE Turns(t)
  <2>1. Only(t) /\ task'[t].attempt = a /\ task'[t].says = task[t].says
    BY <1>5, Goes
  <2> QED
    BY <1>5, <2>1, TendsOn DEF Tending
<1>6. UNCHANGED <<attempt, dock>> =>
        /\ \A b : Inserted(b) => Inserted(b)' /\ attempt'[b].request = attempt[b].request
        /\ \A g : Made(g) => Made(g)' /\ dock'[g].attempt = dock[g].attempt
  BY DEF Inserted, Created, Made
<1>7. CASE DiscardRequest(t)
  <2>1. CASE Return(t) /\ UNCHANGED request
    BY <1>7, <2>1, NoEffects, ReturnsFits DEF DiscardRequest, Behaves, rows
  <2>2. ASSUME request[task[t].request].status = "needs_review",
               request' = [request EXCEPT ![task[t].request].status = "failed"],
               Go(t, "discard_attempt")
        PROVE  Behaves(t) /\ Fits(t)'
    <3>1. UNCHANGED <<attempt, dock, client>>
      BY <1>7 DEF DiscardRequest
    <3>2. task[t].request \in Requests
      BY <1>1, <1>4 DEF KnownRequests, Inserted
    <3>3. PICK b \in Attempts : /\ attempt[b].request = task[t].request
                                /\ attempt[b].status = "needs_review" /\ Untended(b)
      BY <2>2, <3>2 DEF TendInv, HeldIsUntended
    <3>4. a = b
      BY <1>4, <3>3, OneDownload DEF Inserted, Created
    <3>5. request'[task[t].request].status = "failed" /\ NobodyHeld
      BY <1>1, <2>2, <3>2 DEF NobodyHeld, RowsOK, RequestRow
    <3>6. Effects(t)
      BY <3>1, <3>5, RequestEffects
    <3>7. /\ Only(t) /\ task'[t].pc = "discard_attempt" /\ task'[t].attempt = a
          /\ task'[t].says = task[t].says
      BY <2>2, Goes
    <3>8. task[t].says \notin PollWords
      BY <1>1, <1>7 DEF DiscardRequest, At, Fits, Role
    <3>9. Turns(t)
      BY <1>4, <3>3, <3>4, <3>5, <3>7, <3>8 DEF Turns, TakesUp, Asks
    <3> QED
      BY <1>2, <1>3, <1>6, <2>2, <3>1, <3>3, <3>4, <3>6, <3>9, DiscardGoesOn
      DEF Behaves, Rejecting
  <2> QED
    BY <1>7, <2>1, <2>2 DEF DiscardRequest
<1> SUFFICES ASSUME ~DiscardRequest(t) PROVE Behaves(t) /\ Fits(t)'
  BY <1>7
<1>8. task[t].pc \in Rejecting /\ Tends(t, a)
  BY DEF DiscardAttempt, DiscardDock, DiscardDockFails, DiscardUndoAttempt, DiscardUndoRequest,
         At, Rejecting, Tends, Tending
<1>9. ASSUME NEW s \in {"failed", "needs_review"},
             SetAttempt(a, s), UNCHANGED <<request, dock, client>>
      PROVE  /\ Effects(t) /\ attempt'[a].status = s
             /\ \A b : Inserted(b) => Inserted(b)' /\ attempt'[b].request = attempt[b].request
             /\ \A g : Made(g) => Made(g)' /\ dock'[g].attempt = dock[g].attempt
  BY <1>1, <1>4, <1>8, <1>9, StatusEffects
  DEF SetAttempt, RowsOK, AttemptRow, Inserted, Created, Made
<1>10. CASE DiscardAttempt(t)
  <2>1. attempt[a].status = "needs_review"
    BY <1>1, <1>10 DEF DiscardAttempt, At, Fits, FitsStatus, Status
  <2>2. SetAttempt(a, "failed") /\ Go(t, "discard_dock") /\ UNCHANGED <<request, dock, client>>
    BY <1>10, <2>1 DEF DiscardAttempt
  <2> QED
    BY <1>2, <1>3, <1>5, <1>8, <1>9, <2>2, DiscardGoesOn DEF Behaves, Rejecting
<1>11. CASE DiscardDock(t)
  <2>1. Effects(t)
    BY <1>11, DeleteEffects DEF DiscardDock, At
  <2> QED
    BY <1>11, <2>1, ReturnsFits DEF DiscardDock, Behaves
<1>12. CASE DiscardDockFails(t)
  <2>1. attempt[a].status = "failed" /\ Go(t, "discard_undo_attempt") /\ UNCHANGED <<rows, client>>
    BY <1>1, <1>12 DEF DiscardDockFails, At, Fits, FitsStatus, Status
  <2> QED
    BY <1>2, <1>3, <1>5, <1>6, <1>8, <2>1, NoEffects, DiscardGoesOn DEF Behaves, Rejecting, rows
<1>13. CASE DiscardUndoAttempt(t)
  <2>1. attempt[a].status = "failed"
    BY <1>1, <1>13 DEF DiscardUndoAttempt, At, Fits, FitsStatus, Status
  <2>2. /\ SetAttempt(a, "needs_review") /\ Go(t, "discard_undo_request")
        /\ UNCHANGED <<request, dock, client>>
    BY <1>4, <1>13, <2>1, HashesAreFree DEF DiscardUndoAttempt, SetAttempt
  <2> QED
    BY <1>2, <1>3, <1>5, <1>8, <1>9, <2>2, DiscardGoesOn DEF Behaves, Rejecting
<1>14. CASE DiscardUndoRequest(t)
  <2>1. task'[t].pc \notin Tending
    BY <1>14, GoesBack
    DEF DiscardUndoRequest, Tending, Submitting, Importing, Settling, Filing, Moved, Rejecting
  <2>2. HoldsUp(t)
    BY <1>1, <1>4, <1>14, <2>1
    DEF HoldsUp, DiscardUndoRequest, At, RowsOK, RequestRow, RequestOf
  <2>3. Effects(t)
    BY <1>14, <2>2
    DEF DiscardUndoRequest, Effects, Gives, Touches, Inserts, Created, Handles, Made
  <2> QED
    BY <1>14, <2>3, ReturnsFits DEF DiscardUndoRequest, Behaves
<1> QED
  BY <1>10, <1>11, <1>12, <1>13, <1>14

\* All of a verification and of a discard.
LEMMA VerificationBehaves ==
  ASSUME Base, TendInv, FirstTries, NEW t \in Tasks, VerificationStep(t)
  PROVE  Behaves(t) /\ Fits(t)'
  BY FilingBehaves, DiscardBehaves DEF VerificationStep

\* An activation on its way through a removal tends nothing.
LEMMA FitsRemoving ==
  ASSUME NEW t \in Tasks, Only(t), task'[t].pc \in Removing,
         task'[t].says \in {"cancel", "fulfil", "remove"},
         task'[t].pc \in {"detach", "fail_in_flight"} =>
           Inserted(task[t].attempt)' /\ RequestOf(t)' = task'[t].request,
         task'[t].pc = "after_removal" => task'[t].says # "cancel",
         task'[t].pc = "after_removal" /\ task'[t].says = "remove" =>
           ~NoAttemptOf(task[t].request)'
  PROVE  Turns(t) /\ Fits(t)'
<1>1. task'[t].pc \notin Tending \cup {"adopt", "poll_apply", "poll_request", "discard_request"}
  BY DEF Removing, Tending, Submitting, Importing, Settling, Filing, Moved, Rejecting
<1>2. Turns(t)
  BY <1>1 DEF Turns, TakesUp, Asks, PollWords
<1>3. Role(t)'
  BY <1>1 DEF Role, Tending, PollWords
<1>4. Knows(t)'
  BY <1>1 DEF Knows, Tending, Removing, RequestOf, PollWords
<1>5. FitsStatus(t)' /\ FitsFile(t)' /\ FitsClient(t)'
  BY <1>1 DEF FitsStatus, FitsFile, FitsClient, Tending, Settling, Rejecting, Importing, InHand
<1> QED
  BY <1>2, <1>3, <1>4, <1>5 DEF Fits

\* A removal fails what is in flight, whoever tends it, and takes it out of the client.
LEMMA RemovalBehaves ==
  ASSUME Base, TendInv, NEW t \in Tasks, RemovalStep(t)
  PROVE  Behaves(t) /\ Fits(t)'
<1>1. RowsOK /\ Role(t) /\ Knows(t) /\ task \in [Tasks -> TaskState]
  BY DEF Base, Inv, TasksOK, TendInv, Fits
<1> DEFINE a == task[t].attempt
           r == task[t].request
<1>2. task[t].pc \in Removing => task[t].says \in {"cancel", "fulfil", "remove"}
  BY <1>1 DEF Role
<1>3. ASSUME task[t].pc \in {"latest", "fail_in_flight"}, NEW wasInFlight \in BOOLEAN,
             AfterRemoval(t, wasInFlight),
             wasInFlight => \E b \in Attempts : Created(b)' /\ attempt'[b].request = r
      PROVE  Turns(t) /\ Fits(t)'
  <2>1. CASE Return(t)
    BY <2>1, ReturnsFits
  <2>2. CASE /\ Go(t, "after_removal") /\ task[t].says # "cancel"
             /\ task[t].says = "fulfil" \/ wasInFlight
    <3>1. /\ Only(t) /\ task'[t].pc = "after_removal" /\ task'[t].attempt = a
          /\ task'[t].request = r /\ task'[t].says = task[t].says
      BY <2>2, Goes
    <3>2. task[t].says = "remove" => ~NoAttemptOf(task[t].request)'
      BY <1>3, <2>2, <3>1 DEF NoAttemptOf
    <3> QED
      BY <1>2, <1>3, <2>2, <3>1, <3>2, FitsRemoving DEF Removing
  <2> QED
    BY <1>2, <1>3, <2>1, <2>2 DEF AfterRemoval, Removing
<1>4. ASSUME task[t].pc = "detach", Go(t, "fail_in_flight"), UNCHANGED attempt
      PROVE  Turns(t) /\ Fits(t)'
  <2>1. /\ Only(t) /\ task'[t].pc = "fail_in_flight" /\ task'[t].attempt = a
        /\ task'[t].request = r /\ task'[t].says = task[t].says
    BY <1>4, Goes
  <2>2. Inserted(a) /\ attempt[a].request = r
    BY <1>1, <1>4 DEF Knows, RequestOf
  <2>3. Inserted(task[t].attempt)' /\ RequestOf(t)' = task'[t].request
    BY <1>4, <2>1, <2>2 DEF Inserted, Created, RequestOf
  <2> QED
    BY <1>2, <1>4, <2>1, <2>3, FitsRemoving DEF Removing
<1>5. CASE Latest(t)
  <2>1. UNCHANGED <<rows, client>> /\ task[t].pc = "latest"
    BY <1>5 DEF Latest, At
  <2>2. ASSUME NEW b \in Attempts, IsLatest(b, r),
               task' = [task EXCEPT ![t].pc = "detach", ![t].attempt = b]
        PROVE  Turns(t) /\ Fits(t)'
    <3>1. /\ Only(t) /\ task'[t].pc = "detach" /\ task'[t].attempt = b
          /\ task'[t].request = r /\ task'[t].says = task[t].says
      BY <1>1, <2>2 DEF TaskState, Only
    <3>2. Inserted(task[t].attempt)' /\ RequestOf(t)' = task'[t].request
      BY <2>1, <2>2, <3>1 DEF IsLatest, Inserted, Created, RequestOf, rows
    <3> QED
      BY <1>2, <2>1, <3>1, <3>2, FitsRemoving DEF Removing
  <2>3. AfterRemoval(t, FALSE) => Turns(t) /\ Fits(t)'
    BY <1>3, <2>1
  <2> QED
    BY <1>5, <2>1, <2>2, <2>3, NoEffects DEF Latest, Behaves
<1>6. CASE Detach(t)
  <2>1. NobodyHeld /\ UNCHANGED <<attempt, dock>>
        /\ \E h : client' = [client EXCEPT ![h] = "absent"]
    BY <1>6 DEF Detach, NobodyHeld, rows
  <2>2. Effects(t)
    BY <2>1, RequestEffects
  <2> QED
    BY <1>4, <1>6, <2>1, <2>2 DEF Detach, At, Behaves
<1>7. CASE DetachRefused(t)
  BY <1>4, <1>7, NoEffects, ReturnsFits DEF DetachRefused, At, Behaves, rows
<1>8. CASE FailInFlight(t)
  <2>1. task[t].pc = "fail_in_flight" /\ UNCHANGED <<request, dock, client>>
    BY <1>8 DEF FailInFlight, At
  <2>2. Inserted(a) /\ attempt[a].request = r
    BY <1>1, <2>1 DEF Knows, RequestOf
  <2>3. \A b \in Attempts :
          /\ attempt'[b].request = attempt[b].request /\ attempt'[b].release = attempt[b].release
          /\ attempt'[b].dock = attempt[b].dock
          /\ \/ attempt'[b].status = attempt[b].status
             \/ attempt[b].status \in InFlight /\ attempt'[b].status = "failed"
    BY <1>1, <1>8 DEF FailInFlight, RowsOK, AttemptRow
  <2>4. \A b \in Attempts : Touches(t, b) /\ Inserts(t, b)
    BY <2>3 DEF Touches, Inserts, Created, InFlight, ActiveAttempt
  <2>5. Effects(t)
    BY <2>1, <2>4 DEF Effects, Gives, HoldsUp, Handles, Made
  <2>6. \E b \in Attempts : Created(b)' /\ attempt'[b].request = r
    BY <2>2, <2>4 DEF Touches, Inserted
  <2>7. AfterRemoval(t, TRUE) \/ AfterRemoval(t, FALSE)
    BY <1>8 DEF FailInFlight, AfterRemoval
  <2>8. Turns(t) /\ Fits(t)'
    BY <1>3, <2>1, <2>6, <2>7
  <2> QED
    BY <2>5, <2>8 DEF Behaves
<1>9. CASE SettleStopped(t) \/ SettleRemoved(t)
  BY <1>9, UpdateEffects, ReturnsFits DEF SettleStopped, SettleRemoved, Settle, Behaves
<1>10. CASE SettleFulfilled(t)
  <2>1. NobodyHeld
    BY <1>1, <1>10 DEF SettleFulfilled, NobodyHeld, RowsOK, RequestRow
  <2>2. Effects(t)
    BY <1>10, <2>1, RequestEffects DEF SettleFulfilled
  <2> QED
    BY <1>10, <2>2, ReturnsFits, GoesElsewhereFits
    DEF SettleFulfilled, At, Behaves, Elsewhere, Settling, Filing, Moved
<1>11. CASE FailInFlightForRequest(t)
  <2>1. \A b \in Attempts :
          /\ attempt'[b].request = attempt[b].request /\ attempt'[b].release = attempt[b].release
          /\ attempt'[b].dock = attempt[b].dock
          /\ \/ attempt'[b].status = attempt[b].status
             \/ attempt[b].status \in InFlight /\ attempt'[b].status = "failed"
    BY <1>1, <1>11 DEF FailInFlightForRequest, RowsOK, AttemptRow
  <2>2. \A b \in Attempts : Touches(t, b) /\ Inserts(t, b)
    BY <2>1 DEF Touches, Inserts, Created, InFlight, ActiveAttempt
  <2>3. Effects(t)
    BY <1>11, <2>2 DEF FailInFlightForRequest, Effects, Gives, HoldsUp, Handles, Made
  <2> QED
    BY <1>11, <2>3, ReturnsFits DEF FailInFlightForRequest, Behaves
<1> QED
  BY <1>5, <1>6, <1>7, <1>8, <1>9, <1>10, <1>11 DEF RemovalStep

-------------------------------------------------------------------------------
(***************************************************************************)
(* What begins.                                                            *)
(***************************************************************************)
\* Most of it tends nothing yet,
LEMMA StartsElsewhere ==
  ASSUME Base, NEW t \in Tasks,
         \/ \E r \in Requests : GrabRead(t, r) \/ AbandonRead(t, r)
         \/ \E r \in Requests, trigger \in {"unattended", "retry"} : PassRead(t, r, trigger)
         \/ \E a \in Attempts : ResumeRead(t, a)
  PROVE  Behaves(t) /\ Fits(t)'
<1>1. Free(t)
  BY DEF GrabRead, AbandonRead, PassRead, ResumeRead
<1>2. task \in [Tasks -> TaskState] /\ task[t].says = "none"
  BY <1>1 DEF Base, Inv, TasksOK, Free, Idle
<1>3. ASSUME NEW r, GrabRead(t, r)
      PROVE  Only(t) /\ task'[t].pc = "grab_claim" /\ task'[t].says = "none"
  BY <1>2, <1>3 DEF GrabRead, Only, TaskState
<1>4. ASSUME NEW r, AbandonRead(t, r)
      PROVE  Only(t) /\ task'[t].pc = "abandon" /\ task'[t].says = "none"
  BY <1>2, <1>4 DEF AbandonRead, Only, TaskState
<1>5. ASSUME NEW r, NEW trigger, PassRead(t, r, trigger)
      PROVE  Only(t) /\ task'[t].pc = "auto_claim" /\ task'[t].says = trigger
  BY <1>2, <1>5 DEF PassRead, Only, TaskState
<1>6. ASSUME NEW a, ResumeRead(t, a)
      PROVE  Only(t) /\ task'[t].pc = "resume" /\ task'[t].says = "none"
  <2>1. task' = [task EXCEPT ![t].pc = "resume", ![t].attempt = a]
    BY <1>6 DEF ResumeRead
  <2> QED
    BY <1>2, <2>1 DEF Only, TaskState
<1>7. /\ Only(t) /\ task'[t].pc \in Elsewhere
      /\ task'[t].says \notin PollWords \cup {"auto", "held", "stop"}
  BY <1>3, <1>4, <1>5, <1>6 DEF Elsewhere, PollWords
<1>8. UNCHANGED <<rows, client>>
  BY DEF GrabRead, AbandonRead, PassRead, ResumeRead
<1> QED
  BY <1>7, <1>8, FitsElsewhere, NoEffects DEF Behaves

\* a poll asks only what nobody asks, and about nothing that is still being added,
LEMMA PollStarts ==
  ASSUME Base, TendInv, NEW t \in Tasks, NEW a \in Attempts, PollRead(t, a)
  PROVE  Behaves(t) /\ Fits(t)'
<1>1. /\ task \in [Tasks -> TaskState]
      /\ t \in Handlers /\ task[t] = Idle /\ attempt[a].status \in ActiveAttempt
      /\ ~BeingPolled(a) /\ UNCHANGED <<rows, client>>
  BY DEF Base, Inv, TasksOK, PollRead, Free
<1>2. PICK says \in Answers(attempt[a].release) :
        task' = [task EXCEPT ![t].pc = IF says = "failing" THEN "fail_attempt" ELSE "poll_apply",
                             ![t].attempt = a,
                             ![t].was = attempt[a].status,
                             ![t].says = says]
  BY DEF PollRead
<1>3. /\ says \in PollWords
      /\ client[attempt[a].release] = "absent" => says = "failing" /\ ~BeingAdded(a)
  BY DEF PollRead, Answers, PollWords
<1>4. /\ Only(t) /\ task'[t].attempt = a /\ task'[t].says = says
      /\ task'[t].pc = IF says = "failing" THEN "fail_attempt" ELSE "poll_apply"
  BY <1>1, <1>2 DEF Only, TaskState
<1>5. Unpolled(a)
  BY <1>1 DEF Unpolled, Polls, BeingPolled, PollWords, TendInv, Fits, Role
<1>6. ASSUME NEW u \in Tasks, Tends(u, a) PROVE FALSE
  <2>1. Fits(u) /\ (u \in Handlers \/ task[u].pc \in WorkerAt)
    BY DEF TendInv, Base, WorkersImport, WorkersApart, Tasks
  <2>2. CASE task[u].pc \in Submitting
    <3>1. client[attempt[a].release] = "absent"
      BY <1>6, <2>1, <2>2 DEF Fits, FitsClient, Tends
    <3>2. u \in Handlers
      BY <2>1, <2>2 DEF WorkerAt, Importing, Submitting
    <3> QED
      BY <1>3, <1>6, <2>2, <3>1, <3>2 DEF BeingAdded, Submitting, Tends
  <2>3. CASE task[u].pc \notin Submitting
    <3>1. task[u].says = "failing"
      BY <1>1, <1>6, <2>1, <2>3 DEF Fits, FitsStatus, Status, Tends
    <3> QED
      BY <1>5, <1>6, <3>1 DEF Unpolled, Polls, PollWords, Tends
  <2> QED
    BY <2>2, <2>3
<1>7. Turns(t)
  BY <1>1, <1>4, <1>5, <1>6 DEF Turns, TakesUp, Asks, Untended, InFlight, ActiveAttempt
<1>8. /\ Inserted(a)' /\ attempt'[a].status \in ActiveAttempt /\ t \notin ImportWorkers
  BY <1>1, TasksAssumption DEF Inserted, Created, ActiveAttempt, rows
<1>9. Role(t)' /\ Knows(t)'
  BY <1>1, <1>3, <1>4, <1>8
  DEF Role, Knows, Tending, Submitting, Settling, Importing, Filing, Moved, Rejecting, Removing,
      PollWords
<1>10. FitsStatus(t)' /\ FitsFile(t)' /\ FitsClient(t)'
  BY <1>3, <1>4, <1>8
  DEF FitsStatus, FitsFile, FitsClient, Status, Tending, Submitting, Settling, Importing, Filing,
      Moved, Rejecting, InHand, PollWords, ActiveAttempt
<1> QED
  BY <1>1, <1>7, <1>9, <1>10, NoEffects DEF Behaves, Fits

\* an import is of what nobody tends,
LEMMA ImportStarts ==
  ASSUME Base, TendInv, NEW t \in Tasks, NEW a \in Attempts, ImportBegin(t, a)
  PROVE  Behaves(t) /\ Fits(t)'
<1>1. /\ task \in [Tasks -> TaskState]
      /\ t \in ImportWorkers /\ t \notin Handlers
      /\ task[t] = Idle /\ UNCHANGED <<rows, client>>
      /\ \A v \in ImportWorkers : task[v].attempt # a
  BY TasksAssumption DEF Base, Inv, TasksOK, ImportBegin
<1>2. /\ Only(t) /\ task'[t].attempt = a /\ task'[t].says = "none"
      /\ task'[t].pc = IF attempt[a].status = "completed" /\ attempt[a].dock = NoRow
                         THEN "import_extract" ELSE "import_done"
  BY <1>1 DEF ImportBegin, Idle, Only, TaskState
<1>3. CASE task'[t].pc = "import_done"
  BY <1>1, <1>2, <1>3, FitsElsewhere, NoEffects DEF Behaves, Elsewhere, PollWords
<1>4. CASE task'[t].pc = "import_extract"
  <2>1. attempt[a].status = "completed" /\ attempt[a].dock = NoRow
    BY <1>2, <1>4
  <2>2. Untended(a)
    BY <1>1, <2>1 DEF Untended, Tends, Tasks, TendInv, Fits, FitsStatus, Status
  <2>3. Turns(t)
    BY <1>2, <2>1, <2>2 DEF Turns, TakesUp, Asks, PollWords, InFlight
  <2>4. Inserted(a)' /\ attempt'[a].status = "completed" /\ attempt'[a].dock = NoRow
    BY <1>1, <2>1 DEF Inserted, Created, rows
  <2>5. Role(t)' /\ Knows(t)'
    BY <1>1, <1>2, <1>4, <2>4
    DEF Role, Knows, Submitting, Settling, Filing, Moved, Rejecting, Removing, PollWords
  <2>6. FitsStatus(t)' /\ FitsFile(t)' /\ FitsClient(t)'
    BY <1>1, <1>2, <1>4, <2>4
    DEF FitsStatus, FitsFile, FitsClient, Status, Placed, Submitting, InHand, ActiveAttempt
  <2> QED
    BY <1>1, <2>3, <2>5, <2>6, NoEffects DEF Behaves, Fits
<1> QED
  BY <1>2, <1>3, <1>4

\* as is a verification, which is told of a row once;
LEMMA VerificationStarts ==
  ASSUME Base, TendInv, NEW t \in Tasks, NEW f \in DockFiles, NEW a \in Attempts,
         ~Verifying(f), VerifyRead(t, f, a)
  PROVE  Behaves(t) /\ Fits(t)'
<1>1. /\ task \in [Tasks -> TaskState]
      /\ t \in Handlers /\ t \notin ImportWorkers /\ task[t] = Idle
      /\ attempt[a].dock = f /\ attempt[a].status = "importing" /\ dock[f].state = "placed"
      /\ UNCHANGED <<rows, client>>
  BY TasksAssumption DEF Base, Inv, TasksOK, VerifyRead, Free
<1>2. /\ Only(t) /\ task'[t].pc = "verify" /\ task'[t].attempt = a /\ task'[t].dock = f
      /\ task'[t].says = "auto"
  BY <1>1 DEF VerifyRead, Only, TaskState
<1>3. ASSUME NEW u \in Tasks, Tends(u, a) PROVE FALSE
  <2>1. Fits(u) /\ task[u].attempt = a /\ task[u].pc \in Tending
    BY <1>3 DEF TendInv, Tends
  <2>2. u \in Handlers /\ task[u].pc \notin Importing
    <3>1. Placed(a)
      BY <1>1 DEF Placed, DockFiles, NoRow
    <3> QED
      BY <2>1, <3>1 DEF Tasks, Fits, FitsFile, Base, WorkersImport
  <2>3. task[u].says # "auto"
    BY <1>1, <2>1, <2>2 DEF Fits, FitsFile, Status, Verifying, DockFiles, NoRow
  <2>4. task[u].pc \in Submitting \cup Settling \cup Rejecting
    BY <2>1, <2>2, <2>3 DEF Tending, Fits, Role
  <2>5. task[u].pc \notin Settling
    BY <1>1, <2>1, <2>2, <2>3 DEF Fits, Role, FitsStatus, Status, ActiveAttempt
  <2> QED
    BY <1>1, <2>1, <2>4, <2>5 DEF Fits, FitsStatus, Status, Rejecting
<1>4. Turns(t)
  BY <1>1, <1>2, <1>3 DEF Turns, TakesUp, Asks, Untended, PollWords, InFlight
<1>5. Inserted(a)' /\ attempt'[a].status = "importing" /\ attempt'[a].dock = f
  BY <1>1 DEF Inserted, Created, rows
<1>6. Role(t)' /\ Knows(t)'
  BY <1>1, <1>2, <1>5
  DEF Role, Knows, Submitting, Settling, Filing, Rejecting, Removing, PollWords
<1>7. FitsStatus(t)' /\ FitsFile(t)' /\ FitsClient(t)'
  BY <1>1, <1>2, <1>5
  DEF FitsStatus, FitsFile, FitsClient, Status, Submitting, InHand, ActiveAttempt
<1> QED
  BY <1>1, <1>4, <1>6, <1>7, NoEffects DEF Behaves, Fits

\* a discard has yet to claim what it discards;
LEMMA DiscardStarts ==
  ASSUME Base, NEW t \in Tasks, NEW r \in Requests, NEW a \in Attempts, Discard(t, r, a)
  PROVE  Behaves(t) /\ Fits(t)'
<1>1. /\ task \in [Tasks -> TaskState]
      /\ t \in Handlers /\ task[t] = Idle
      /\ Created(a) /\ attempt[a].request = r
      /\ UNCHANGED <<rows, client>>
  BY DEF Base, Inv, TasksOK, Discard, Free, IsLatest
<1>2. /\ Only(t) /\ task'[t].pc = "discard_request" /\ task'[t].attempt = a
      /\ task'[t].request = r /\ task'[t].dock = HeldFile(r, a) /\ task'[t].says = "none"
  BY <1>1 DEF Discard, Idle, Only, TaskState
<1>3. Turns(t)
  BY <1>2
  DEF Turns, TakesUp, Asks, Tending, Submitting, Importing, Settling, Filing, Moved, Rejecting,
      PollWords
<1>4. Role(t)'
  BY <1>2 DEF Role, Settling, Filing, Moved, Removing, PollWords
<1>5. Inserted(a)' /\ attempt'[a].request = r
  BY <1>1 DEF Inserted, Created, rows
<1>6. \A f : f = HeldFile(r, a) => f = NoRow \/ (Made(f) /\ Owner(f) = r)'
  <2> SUFFICES ASSUME NEW f, f = HeldFile(r, a), f # NoRow
               PROVE  Made(f)' /\ Owner(f)' = r
    OBVIOUS
  <2>1. Made(f) /\ Owner(f) = r
    BY <1>1
    DEF Discard, HeldFile, Base, FilesInv, Linked, RequestsLinkTheirOwn, AttemptsLinkTheirOwn,
        Owner
  <2> QED
    BY <1>1, <2>1 DEF Made, Owner, rows
<1>7. Knows(t)'
  BY <1>2, <1>5, <1>6
  DEF Knows, Tending, Submitting, Importing, Settling, Filing, Moved, Rejecting, PollWords,
      RequestOf, Made, Owner
<1>8. FitsStatus(t)' /\ FitsFile(t)' /\ FitsClient(t)'
  BY <1>2
  DEF FitsStatus, FitsFile, FitsClient, Tending, Submitting, Importing, Settling, Filing, Moved,
      Rejecting, InHand
<1> QED
  BY <1>1, <1>3, <1>4, <1>7, <1>8, NoEffects DEF Behaves, Fits

\* and so has a person who wants the download gone.
LEMMA RemovalStarts ==
  ASSUME Base, NEW t \in Tasks,
         \/ \E r \in Requests : Cancel(t, r) \/ MarkFulfilled(t, r)
         \/ \E a \in Attempts : RemoveFromClient(t, a)
  PROVE  Behaves(t) /\ Fits(t)'
<1>1. task \in [Tasks -> TaskState] /\ RowsOK
  BY DEF Base, Inv, TasksOK
<1>2. ASSUME NEW pc, NEW r, NEW a, NEW says, Begin(t, pc, r, a, says)
      PROVE  /\ Only(t) /\ task'[t].pc = pc /\ task'[t].attempt = a
             /\ task'[t].request = r /\ task'[t].says = says
  BY <1>1, <1>2 DEF Begin, TaskState, Only
<1>3. ASSUME NEW r \in Requests, Cancel(t, r) PROVE Behaves(t) /\ Fits(t)'
  <2>1. NobodyHeld /\ UNCHANGED <<attempt, dock, client>>
    BY <1>1, <1>3 DEF Cancel, NobodyHeld, RowsOK, RequestRow
  <2>2. Only(t) /\ task'[t].pc = "latest" /\ task'[t].says = "cancel"
    BY <1>2, <1>3 DEF Cancel
  <2> QED
    BY <2>1, <2>2, RequestEffects, FitsRemoving DEF Behaves, Removing
<1>4. ASSUME NEW r \in Requests, MarkFulfilled(t, r) PROVE Behaves(t) /\ Fits(t)'
  <2>1. Only(t) /\ task'[t].pc = "latest" /\ task'[t].says = "fulfil"
    BY <1>1, <1>4, FulfilBegins DEF Only
  <2> QED
    BY <1>4, <2>1, NoEffects, FitsRemoving DEF MarkFulfilled, Behaves, Removing
<1>5. ASSUME NEW a \in Attempts, RemoveFromClient(t, a) PROVE Behaves(t) /\ Fits(t)'
  <2>1. /\ Only(t) /\ task'[t].pc = "detach" /\ task'[t].says = "remove"
        /\ task'[t].attempt = a /\ task'[t].request = attempt[a].request
    BY <1>2, <1>5 DEF RemoveFromClient
  <2>2. Inserted(task[t].attempt)' /\ RequestOf(t)' = task'[t].request
    BY <1>5, <2>1 DEF RemoveFromClient, Inserted, Created, RequestOf, rows
  <2> QED
    BY <1>5, <2>1, <2>2, NoEffects, FitsRemoving DEF RemoveFromClient, Behaves, Removing
<1> QED
  BY <1>3, <1>4, <1>5

\* Nothing else begins.
LEMMA StartBehaves ==
  ASSUME Undisturbed, Base, TendInv, NEW t \in Tasks, Start(t)
  PROVE  Behaves(t) /\ Fits(t)'
  BY StartsElsewhere, PollStarts, ImportStarts, VerificationStarts, DiscardStarts, RemovalStarts
  DEF Start, On, Undisturbed, Disturbing, GrabStart, PassStart, MonitorStart, ImportStart,
      VerificationStart, DiscardStart

\* What people, the client and the process do besides is no business of any activation.
LEMMA EnvironmentBehaves ==
  ASSUME Undisturbed, Base, TendInv, NEW t \in ImportWorkers, Environment \/ UNCHANGED vars
  PROVE  t \in Tasks /\ Behaves(t) /\ Fits(t)'
<1>1. t \in Tasks /\ Fits(t) /\ task[t].pc \in WorkerAt /\ RowsOK
  BY DEF Tasks, TendInv, Base, Inv, WorkersImport, WorkersApart
<1>2. UNCHANGED <<attempt, dock, task>>
  BY DEF Undisturbed, Disturbing, Environment, On, ReleaseSearch, Approve, Reject, Decide,
         ClientProgress, ClientFailure, ClientCompletes, ClientErrors, ClientForgets, Advance,
         Shutdown, rows, vars
<1>3. NobodyHeld
  BY <1>1
  DEF Undisturbed, Disturbing, Environment, On, ReleaseSearch, Approve, Reject, Decide,
      ClientProgress, ClientFailure, ClientCompletes, ClientErrors, ClientForgets, Advance,
      Shutdown, rows, vars, NobodyHeld, RowsOK, RequestRow
<1>4. Gives(t)
  BY <1>1
  DEF Undisturbed, Disturbing, Environment, On, ReleaseSearch, Approve, Reject, Decide,
      ClientProgress, ClientFailure, ClientCompletes, ClientErrors, ClientForgets, Advance,
      Shutdown, rows, vars, Gives, RowsOK
<1>5. Effects(t)
  BY <1>2, <1>3, <1>4 DEF Effects, HoldsUp, NobodyHeld, Touches, Inserts, Created, Handles, Made
<1>6. Turns(t)
  BY <1>2 DEF Turns, Only, TakesUp, Asks, Tends, Polls
<1>7. Role(t)' /\ FitsStatus(t)' /\ FitsFile(t)'
  BY <1>1, <1>2 DEF Fits, Role, FitsStatus, FitsFile, Status, Placed
<1>8. Knows(t)'
  BY <1>1, <1>2 DEF Fits, Knows, Inserted, Created, RequestOf, Made, Owner, NoAttemptOf
<1>9. FitsClient(t)'
  BY <1>1, <1>2 DEF FitsClient, WorkerAt, Importing, Submitting
<1> QED
  BY <1>1, <1>5, <1>6, <1>7, <1>8, <1>9 DEF Behaves, Fits

\* Every step of an activation is one that behaves.
LEMMA StepBehaves ==
  ASSUME Undisturbed, Base, TendInv, FirstTries, FirstTries', NEW t \in Tasks, Step(t)
  PROVE  Behaves(t) /\ Fits(t)'
<1>1. ~Adopt(t)
  BY DEF Adopt, At, TendInv, Fits, Role
<1> QED
  BY <1>1, GrabBehaves, AutomationBehaves, MonitorBehaves, ImportBehaves, VerificationBehaves,
     RemovalBehaves, OutcomeBehaves
  DEF Step, On, Undisturbed, Disturbing

\* At first nobody tends anything.
LEMMA InitTends == Init => TendInv
<1> SUFFICES ASSUME Init PROVE TendInv
  OBVIOUS
<1>1. /\ \A t \in Tasks : task[t] = Idle
      /\ \A a \in Attempts : ~Created(a)
      /\ \A r \in Requests : request[r].status \in {"pending", "approved", "failed"}
      /\ \A h \in Releases : client[h] = "absent"
  BY DEF Init, Created, AbsentAttempt
<1>2. \A t \in Tasks : task[t].pc = "idle" /\ task[t].says = "none"
  BY <1>1 DEF Idle
<1>3. OneTends /\ OnePolls
  BY <1>2
  DEF OneTends, OnePolls, Tending, Submitting, Importing, Settling, Filing, Moved, Rejecting,
      PollWords
<1>4. HeldIsUntended /\ TransfersAreKnown /\ RefusedAreOver
  BY <1>1 DEF HeldIsUntended, TransfersAreKnown, RefusedAreOver
<1>5. ASSUME NEW t \in Tasks PROVE Fits(t)
  BY <1>2
  DEF Fits, Role, Knows, FitsStatus, FitsFile, FitsClient, Tending, Submitting, Importing,
      Settling, Filing, Moved, Rejecting, Removing, InHand, PollWords
<1> QED
  BY <1>3, <1>4, <1>5 DEF TendInv

-------------------------------------------------------------------------------
(***************************************************************************)
(* The requests.  A status that needs a worker is backed by a download in  *)
(* flight, by a grab that has claimed the request and not added anything   *)
(* yet, or by an activation that is about to write what has become of it.  *)
(***************************************************************************)
Live == ActiveTransfer \cup {"importing"}

Trying == {"grab_resolve", "grab_create", "grab_rollback"}
Tries(t, r) == task[t].pc \in Trying /\ task[t].request = r

Tells(t, r) ==
  \/ task[t].pc \in {"fail_request", "hold_request", "import_record"} /\ RequestOf(t) = r
  \/ task[t].pc = "after_removal" /\ task[t].request = r

Supports(t, r) == (request[r].status = "grabbed" /\ Tries(t, r)) \/ Tells(t, r)

Supported(r) == (\E a \in Attempts : Carries(a, r)) \/ \E t \in Tasks : Supports(t, r)

LiveIsSupported == \A r \in Requests : request[r].status \in Live => Supported(r)

OneTries ==
  \A t, u \in Tasks :
    task[t].pc \in Trying /\ task[u].pc \in Trying /\ task[t].request = task[u].request => t = u

\* A claim stands until it has a download.
TryingIsShown ==
  \A t \in Tasks :
    task[t].pc \in Trying /\ NoAttemptOf(task[t].request) =>
      request[task[t].request].status \in {"grabbed"} \cup Decided

ImportsAreNoTransfers ==
  \A a \in Attempts :
    attempt[a].status = "importing" => request[attempt[a].request].status \notin ActiveTransfer

\* Where an import or a filing gives its download up without telling the request, and
\* where it has the request from.
Away == {"import_undo", "import_refused", "file_refused", "file_attempt"}
Later == (Importing \ {"import_extract", "import_claim"}) \cup Filing

Settled(r) == r \in Requests /\ request[r].status \in Decided

\* What an activation has made of the request, or knows nobody makes of it.
FitsRequest(t) ==
  /\ task[t].pc \in Submitting => request[RequestOf(t)].status \notin {"downloading", "importing"}
  /\ task[t].pc \in Away => request[RequestOf(t)].status \notin Live
  /\ task[t].pc \in Later => request[RequestOf(t)].status \notin ActiveTransfer
  /\ task[t].pc = "grab_rollback" =>
       \A a \in Attempts : Created(a) /\ attempt[a].request = task[t].request => Over(a)
  /\ task[t].pc \in Removing =>
       /\ task[t].request \in Requests
       /\ task[t].says = "cancel" => Settled(task[t].request)
  /\ task[t].pc = "fulfil_attempts" => Settled(task[t].request)

Promised ==
  /\ LiveIsSupported
  /\ OneTries /\ TryingIsShown /\ ImportsAreNoTransfers
  /\ \A t \in Tasks : FitsRequest(t)

-------------------------------------------------------------------------------
(***************************************************************************)
(* What one activation may write, as far as requests go.                   *)
(***************************************************************************)
Stands ==
  \A r \in Requests :
    request[r].status \in Decided => request'[r].status = request[r].status

\* A request begins to need a worker when a grab claims it, a poll finds its transfer
\* begun, or an import claims it.
Asserts(t) ==
  \A r \in Requests :
    request'[r].status \in Live =>
      \/ request'[r].status = request[r].status
      \/ /\ request'[r].status = "grabbed" /\ request[r].status \in Grabbable
         /\ Tries(t, r)' /\ task'[t].pc = "grab_resolve"
         /\ UNCHANGED attempt
      \/ /\ request'[r].status = "downloading" /\ request[r].status = "grabbed"
         /\ task[t].pc = "poll_request" /\ RequestOf(t) = r
         /\ UNCHANGED attempt
      \/ /\ request'[r].status = "importing"
         /\ task[t].pc = "import_claim" /\ RequestOf(t) = r
         /\ Tells(t, r)'

\* Its download is said to be imported after the request is.
Records(t) ==
  \A a \in Attempts :
    attempt'[a].status = "importing" =>
      \/ attempt[a].status = "importing"
      \/ task[t].pc = "import_record" /\ task[t].attempt = a /\ UNCHANGED request

\* Who gives a download up tells the request, or gives its claim back, or the request has
\* gone on already.
Drops(t) ==
  \A a \in Attempts, r \in Requests :
    Carries(a, r) /\ attempt'[a].status \notin InFlight =>
      /\ UNCHANGED request
      /\ \/ Tells(t, r)'
         \/ task[t].pc = "grab_failed" /\ task[t].attempt = a /\ Tries(t, r)'
         \/ task[t].pc \in Away /\ task[t].attempt = a
         \/ Settled(r)

\* A claim is taken away by who made it, unless it has a download.
Unclaims(t) ==
  \A r \in Requests :
    request[r].status = "grabbed" =>
      \/ request'[r].status \in {"grabbed"} \cup Decided
      \/ ~NoAttemptOf(r)
      \/ task[t].pc = "grab_rollback" /\ task[t].request = r /\ task'[t].pc \notin Trying

Writing(t) == Stands /\ Asserts(t) /\ Records(t) /\ Drops(t) /\ Unclaims(t)

\* A claim is made of what anybody may claim.
Reaches(t) ==
  task'[t].pc \in Trying =>
    \/ task[t].pc \in {"grab_resolve", "grab_create"} /\ task'[t].request = task[t].request
    \/ /\ request[task'[t].request].status \in Grabbable
       /\ request'[task'[t].request].status = "grabbed"
       /\ task'[t].pc = "grab_resolve" /\ UNCHANGED attempt
    \/ task[t].pc = "grab_failed" /\ task'[t].request = task[t].request

\* It leaves no request without support that it supported.
Ends(t) ==
  \A r \in Requests : Supports(t, r) /\ request'[r].status \in Live => Supported(r)'

Keeping(t) == Writing(t) /\ Reaches(t) /\ Ends(t)

\* What is decided stays so, as in RequestLifecycle.
LEMMA DecidedStays ==
  ASSUME Inv, [Next]_vars
  PROVE  Stands
<1> SUFFICES ASSUME NEW q \in Requests, request[q].status \in Decided
             PROVE  request'[q].status = request[q].status
  BY DEF Stands
<1>1. Statuses[q] = request[q].status /\ Statuses'[q] = request'[q].status
  BY DEF Statuses
<1>2. LifecycleStep
  BY NextMoves
<1>3. Lifecycle!StatusOK
  BY DEF Inv, RowsOK, RequestRow, Statuses, Lifecycle!StatusOK, Lifecycle!RequestStatuses,
         RequestStatuses
<1>4. CASE Lifecycle!Next
  <2>1. PICK r \in Requests : \E from, to :
          /\ Lifecycle!Move(r, from, to)
          /\ to \in Lifecycle!RequestStatuses
          /\ from \subseteq Lifecycle!ActiveRequest \cup {"failed"}
    BY <1>3, <1>4, Lifecycle!MovesAreLegal DEF Lifecycle!Next
  <2>2. PICK from, to :
          /\ Lifecycle!Move(r, from, to)
          /\ from \subseteq Lifecycle!ActiveRequest \cup {"failed"}
    BY <2>1
  <2>3. /\ Statuses[r] \in Lifecycle!ActiveRequest \cup {"failed"}
        /\ Statuses' = [Statuses EXCEPT ![r] = to]
    BY <2>2 DEF Lifecycle!Move, Statuses
  <2>4. q # r
    BY <1>1, <2>3 DEF Lifecycle!ActiveRequest, Decided
  <2> QED
    BY <1>1, <1>3, <2>3, <2>4 DEF Lifecycle!StatusOK
<1>5. CASE UNCHANGED Statuses
  BY <1>1, <1>5
<1> QED
  BY <1>2, <1>4, <1>5 DEF LifecycleStep

\* The request of an attempt changes little while somebody else has the attempt.
LEMMA OthersRequest ==
  ASSUME Base, TendInv, FirstTries, FirstTries', NEW t \in Tasks, Behaves(t), Asserts(t),
         NEW u \in Tasks \ {t}, task[u].pc \in Tending, NEW q, q = RequestOf(u)
  PROVE  /\ q \in Requests /\ RequestOf(u)' = q
         /\ request'[q].status \in Live =>
              \/ request'[q].status = request[q].status
              \/ /\ request'[q].status = "downloading" /\ request[q].status = "grabbed"
                 /\ Polls(t, task[u].attempt)
<1> DEFINE a == task[u].attempt
<1>1. /\ task'[u] = task[u] /\ Inserted(a) /\ Inserted(task[u].attempt)'
      /\ ~Tends(t, a) /\ attempt'[a].request = q
  BY OthersTend DEF RequestOf
<1>2. q \in Requests /\ RequestOf(u)' = q
  BY <1>1 DEF Base, KnownRequests, Inserted, RequestOf
<1> SUFFICES ASSUME request'[q].status \in Live, request'[q].status # request[q].status
             PROVE  /\ request'[q].status = "downloading" /\ request[q].status = "grabbed"
                    /\ Polls(t, a)
  BY <1>2
<1>3. ~(Tries(t, q)' /\ task'[t].pc = "grab_resolve")
  BY <1>1 DEF Tries, FirstTries, NoAttemptOf, Inserted
<1>4. ASSUME task[t].pc = "import_claim", RequestOf(t) = q PROVE FALSE
  <2>1. task[t].pc \in Tending
    BY <1>4 DEF Tending, Importing
  <2>2. Inserted(task[t].attempt)
    BY <2>1 DEF TendInv, Fits, Knows
  <2>3. task[t].attempt = a
    BY <1>1, <1>4, <2>2, OneDownload DEF RequestOf
  <2> QED
    BY <1>1, <2>1, <2>3 DEF Tends
<1>5. ASSUME task[t].pc = "poll_request", RequestOf(t) = q PROVE Polls(t, a)
  <2>1. task[t].says \in PollWords /\ Inserted(task[t].attempt)
    BY <1>5 DEF TendInv, Fits, Role, Knows
  <2>2. task[t].attempt = a
    BY <1>1, <1>5, <2>1, OneDownload DEF RequestOf
  <2> QED
    BY <2>1, <2>2 DEF Polls
<1> QED
  BY <1>2, <1>3, <1>4, <1>5 DEF Asserts

\* What others have made of their requests stands.
LEMMA OthersFitRequest ==
  ASSUME Base, TendInv, TendInv', Promised, FirstTries, FirstTries',
         NEW t \in Tasks, Behaves(t), Writing(t), NEW u \in Tasks \ {t}
  PROVE  FitsRequest(u)'
<1>1. task'[u] = task[u] /\ FitsRequest(u) /\ Fits(u)
  BY DEF Behaves, Turns, Only, Promised, TendInv
<1>2. ASSUME task[u].pc \in Submitting
      PROVE  request'[RequestOf(u)'].status \notin {"downloading", "importing"}
  <2>1. ~Polls(t, task[u].attempt)
    BY <1>1, <1>2 DEF Fits, FitsClient, Unpolled
  <2> QED
    BY <1>1, <1>2, <2>1, OthersRequest DEF Writing, FitsRequest, Tending, Live, ActiveTransfer
<1>3. ASSUME task[u].pc \in Away PROVE request'[RequestOf(u)'].status \notin Live
  BY <1>1, <1>3, OthersRequest
  DEF Writing, FitsRequest, Away, Tending, Importing, Filing, Moved, Live, ActiveTransfer
<1>4. ASSUME task[u].pc \in Later PROVE request'[RequestOf(u)'].status \notin ActiveTransfer
  BY <1>1, <1>4, OthersRequest
  DEF Writing, FitsRequest, Later, Tending, Live, ActiveTransfer
<1>5. ASSUME task[u].pc = "grab_rollback",
             NEW a \in Attempts, Created(a)', attempt'[a].request = task[u].request
      PROVE  Over(a)'
  <2>1. CASE Created(a)
    BY <1>1, <1>5, <2>1, OverStays DEF FitsRequest, Behaves, Effects, Touches
  <2>2. CASE ~Created(a)
    <3>1. task[t].pc # "grab_create"
      BY <1>5, <2>2 DEF Behaves, Effects, Inserts, Promised, OneTries, Trying
    <3>2. attempt'[a].release = NoRelease
      BY <1>5, <2>2, <3>1 DEF Behaves, Effects, Inserts
    <3> QED
      BY <1>5, <3>2 DEF TendInv, RefusedAreOver
  <2> QED
    BY <2>1, <2>2
<1>6. ASSUME Settled(task[u].request) PROVE Settled(task[u].request)'
  BY <1>1, <1>6 DEF Settled, Writing, Stands
<1>7. RequestOf(u)' = attempt'[task[u].attempt].request
  BY <1>1 DEF RequestOf
<1> QED
  BY <1>1, <1>2, <1>3, <1>4, <1>5, <1>6, <1>7 DEF FitsRequest, RequestOf, Settled

\* What is imported is no transfer.
LEMMA ImportsStayNone ==
  ASSUME Base, TendInv, Promised, FirstTries', NEW t \in Tasks, Behaves(t), Writing(t)
  PROVE  ImportsAreNoTransfers'
<1> SUFFICES ASSUME NEW a \in Attempts, attempt'[a].status = "importing",
                    request'[attempt'[a].request].status \in ActiveTransfer
             PROVE  FALSE
  BY DEF ImportsAreNoTransfers
<1>1. CASE attempt[a].status = "importing"
  <2> DEFINE r == attempt[a].request
  <2>1. Created(a) /\ attempt'[a].request = r
    BY <1>1 DEF Created, Behaves, Effects, Touches
  <2>2. r \in Requests /\ request[r].status \notin ActiveTransfer
    BY <1>1, <2>1 DEF Base, KnownRequests, Promised, ImportsAreNoTransfers
  <2>3. request'[r].status \in ActiveTransfer
    BY <2>1
  <2>4. Tries(t, r)' /\ task'[t].pc = "grab_resolve"
    BY <2>2, <2>3 DEF Writing, Asserts, Live, ActiveTransfer
  <2>5. Created(a)'
    BY DEF Created
  <2> QED
    BY <2>1, <2>4, <2>5 DEF Tries, FirstTries, NoAttemptOf
<1>2. CASE attempt[a].status # "importing"
  <2>1. task[t].pc = "import_record" /\ task[t].attempt = a /\ UNCHANGED request
    BY <1>2 DEF Writing, Records
  <2>2. task[t].pc \in Tending /\ task[t].pc \in Later
    BY <2>1 DEF Tending, Importing, Later
  <2>3. Inserted(a)
    BY <2>1, <2>2 DEF TendInv, Fits, Knows
  <2>4. attempt'[a].request = attempt[a].request
    BY <2>3 DEF Inserted, Behaves, Effects, Touches
  <2> QED
    BY <2>1, <2>2, <2>4 DEF Promised, FitsRequest, RequestOf
<1> QED
  BY <1>1, <1>2

\* There are no two claims on a request,
LEMMA OneStillTries ==
  ASSUME Base, TendInv, Promised, FirstTries, FirstTries', NEW t \in Tasks, Behaves(t), Reaches(t)
  PROVE  OneTries'
<1>1. \A u \in Tasks \ {t} : task'[u] = task[u]
  BY DEF Behaves, Turns, Only
<1>2. ASSUME NEW u \in Tasks \ {t}, task'[t].pc \in Trying, task[u].pc \in Trying,
             task'[t].request = task[u].request
      PROVE  FALSE
  <2> DEFINE r == task[u].request
  <2>1. CASE task[t].pc \in {"grab_resolve", "grab_create"} /\ task'[t].request = task[t].request
    BY <1>2, <2>1 DEF Promised, OneTries, Trying
  <2>2. CASE /\ request[task'[t].request].status \in Grabbable
             /\ task'[t].pc = "grab_resolve" /\ UNCHANGED attempt
    <3>1. NoAttemptOf(r)
      BY <1>2, <2>2 DEF FirstTries, NoAttemptOf, Created
    <3>2. request[r].status \in {"grabbed"} \cup Decided
      BY <1>2, <3>1 DEF Promised, TryingIsShown
    <3> QED
      BY <1>2, <2>2, <3>2 DEF Grabbable, Decided
  <2>3. CASE task[t].pc = "grab_failed" /\ task'[t].request = task[t].request
    <3>1. task[t].pc \in Submitting /\ task[t].pc \in Tending
      BY <2>3 DEF Submitting, Tending
    <3>2. Inserted(task[t].attempt) /\ RequestOf(t) = r
      BY <1>2, <2>3, <3>1 DEF TendInv, Fits, Knows
    <3>3. ~NoAttemptOf(r)
      BY <3>2 DEF NoAttemptOf, Inserted, RequestOf
    <3>4. task[u].pc = "grab_rollback"
      BY <1>2, <3>3 DEF FirstTries, Trying
    <3>5. Over(task[t].attempt)
      BY <3>2, <3>4 DEF Promised, FitsRequest, RequestOf, Inserted
    <3> QED
      BY <3>1, <3>5 DEF Over, Untended, Tends
  <2> QED
    BY <1>2, <2>1, <2>2, <2>3 DEF Reaches
<1> SUFFICES ASSUME NEW u \in Tasks, NEW v \in Tasks, task'[u].pc \in Trying,
                    task'[v].pc \in Trying, task'[u].request = task'[v].request
             PROVE  u = v
  BY DEF OneTries
<1> QED
  BY <1>1, <1>2 DEF Promised, OneTries

\* and a claim that has no download is still there.
LEMMA TryingStaysShown ==
  ASSUME Base, TendInv, Promised, NEW t \in Tasks, Behaves(t), Writing(t), Reaches(t)
  PROVE  TryingIsShown'
<1> SUFFICES ASSUME NEW u \in Tasks, task'[u].pc \in Trying,
                    \A a \in Attempts : Created(a)' => attempt'[a].request # task'[u].request
             PROVE  request'[task'[u].request].status \in {"grabbed"} \cup Decided
  BY DEF TryingIsShown, NoAttemptOf
<1> DEFINE r == task'[u].request
<1>1. NoAttemptOf(r)
  BY DEF NoAttemptOf, Behaves, Effects, Touches
<1>2. \A v \in Tasks \ {t} : task'[v] = task[v]
  BY DEF Behaves, Turns, Only
<1>3. CASE task[u].pc \in Trying /\ task[u].request = r
  <2>1. r \in Requests
    BY <1>3 DEF Base, KnownRequests, Trying, Seeking, Grabbing
  <2>2. request[r].status \in {"grabbed"} \cup Decided
    BY <1>1, <1>3 DEF Promised, TryingIsShown
  <2>3. ~(task[t].pc = "grab_rollback" /\ task[t].request = r /\ task'[t].pc \notin Trying)
    BY <1>3 DEF Promised, OneTries, Trying
  <2> QED
    BY <1>1, <2>1, <2>2, <2>3 DEF Writing, Stands, Unclaims
<1>4. CASE u = t /\ ~(task[t].pc \in Trying /\ task[t].request = r)
  <2>1. task[t].pc # "grab_failed" \/ task[t].request # r
    <3> SUFFICES ASSUME task[t].pc = "grab_failed", task[t].request = r PROVE FALSE
      OBVIOUS
    <3>1. Inserted(task[t].attempt) /\ RequestOf(t) = r
      BY DEF TendInv, Fits, Knows, Tending, Submitting
    <3> QED
      BY <1>1, <3>1 DEF NoAttemptOf, Inserted, RequestOf
  <2> QED
    BY <1>4, <2>1 DEF Reaches, Trying
<1> QED
  BY <1>2, <1>3, <1>4

\* A request that goes on needing a worker has one, or a download.
LEMMA LiveStaysSupported ==
  ASSUME Base, TendInv, Promised, FirstTries, NEW t \in Tasks, Behaves(t), Keeping(t)
  PROVE  LiveIsSupported'
<1> SUFFICES ASSUME NEW r \in Requests, request'[r].status \in Live PROVE Supported(r)'
  BY DEF LiveIsSupported
<1>1. Writing(t) /\ Ends(t) /\ \A u \in Tasks \ {t} : task'[u] = task[u]
  BY DEF Keeping, Behaves, Turns, Only
<1> DEFINE same == request'[r].status = request[r].status
           begun == /\ request'[r].status = "downloading" /\ request[r].status = "grabbed"
                    /\ task[t].pc = "poll_request" /\ RequestOf(t) = r
                    /\ UNCHANGED attempt
<1>2. CASE ~same /\ ~begun
  <2>1. \/ request'[r].status = "grabbed" /\ Tries(t, r)'
        \/ Tells(t, r)'
    BY <1>1, <1>2 DEF Writing, Asserts
  <2> QED
    BY <2>1 DEF Supported, Supports
<1>3. ASSUME same \/ begun PROVE Supported(r)'
  <2>1. Supported(r)
    BY <1>3 DEF Promised, LiveIsSupported, Live, ActiveTransfer
  <2>2. ASSUME NEW a \in Attempts, Carries(a, r) PROVE Supported(r)'
    <3>1. Created(a) /\ attempt'[a].request = r
      BY <2>2 DEF Carries, Created, InFlight, ActiveAttempt, Behaves, Effects, Touches
    <3>2. CASE attempt'[a].status \in InFlight
      BY <3>1, <3>2 DEF Supported, Carries
    <3>3. CASE attempt'[a].status \notin InFlight
      <4>1. /\ UNCHANGED request
            /\ \/ Tells(t, r)'
               \/ task[t].pc = "grab_failed" /\ task[t].attempt = a /\ Tries(t, r)'
               \/ task[t].pc \in Away /\ task[t].attempt = a
               \/ Settled(r)
        BY <1>1, <2>2, <3>3 DEF Writing, Drops
      <4>2. request[r].status \in Live
        BY <4>1
      <4>3. CASE task[t].pc = "grab_failed" /\ task[t].attempt = a /\ Tries(t, r)'
        <5>1. request[r].status \notin {"downloading", "importing"}
          BY <2>2, <4>3 DEF Promised, FitsRequest, Submitting, RequestOf, Carries
        <5>2. request'[r].status = "grabbed"
          BY <4>1, <4>2, <5>1 DEF Live, ActiveTransfer
        <5> QED
          BY <4>3, <5>2 DEF Supported, Supports
      <4>4. ~(task[t].pc \in Away /\ task[t].attempt = a)
        BY <2>2, <4>2 DEF Promised, FitsRequest, RequestOf, Carries
      <4>5. ~Settled(r)
        BY <4>2 DEF Settled, Live, ActiveTransfer, Decided
      <4> QED
        BY <4>1, <4>3, <4>4, <4>5 DEF Supported, Supports
    <3> QED
      BY <3>2, <3>3
  <2>3. ASSUME NEW u \in Tasks, Supports(u, r) PROVE Supported(r)'
    <3>1. CASE u = t
      BY <1>1, <2>3, <3>1 DEF Ends
    <3>2. CASE u # t
      <4>1. task'[u] = task[u]
        BY <1>1, <3>2
      <4>2. CASE Tells(u, r)
        <5>1. CASE task[u].pc \in {"fail_request", "hold_request", "import_record"}
          <6>1. task[u].pc \in Tending
            BY <5>1 DEF Tending, Settling, Importing
          <6>2. RequestOf(u)' = RequestOf(u)
            BY <3>2, <4>1, <6>1, OthersTend DEF RequestOf
          <6>3. RequestOf(u) = r
            BY <4>2, <5>1 DEF Tells
          <6> QED
            BY <4>1, <5>1, <6>2, <6>3 DEF Supported, Supports, Tells
        <5>2. CASE task[u].pc = "after_removal"
          BY <4>1, <4>2, <5>2 DEF Supported, Supports, Tells
        <5> QED
          BY <4>2, <5>1, <5>2 DEF Tells
      <4>3. CASE request[r].status = "grabbed" /\ Tries(u, r)
        <5>1. CASE same
          BY <4>1, <4>3, <5>1 DEF Supported, Supports, Tries
        <5>2. CASE begun
          <6>1. Inserted(task[t].attempt) /\ attempt[task[t].attempt].request = r
                /\ Polls(t, task[t].attempt)
            BY <5>2 DEF TendInv, Fits, Role, Knows, Polls, RequestOf
          <6>2. ~NoAttemptOf(r)
            BY <6>1 DEF NoAttemptOf, Inserted
          <6>3. task[u].pc = "grab_rollback"
            BY <4>3, <6>2 DEF Tries, Trying, FirstTries
          <6>4. Over(task[t].attempt)
            BY <4>3, <6>1, <6>3 DEF Promised, FitsRequest, Tries, Inserted
          <6> QED
            BY <6>1, <6>4 DEF Over, Unpolled
        <5> QED
          BY <1>3, <5>1, <5>2
      <4> QED
        BY <2>3, <4>2, <4>3 DEF Supports
    <3> QED
      BY <3>1, <3>2
  <2> QED
    BY <2>1, <2>2, <2>3 DEF Supported
<1> QED
  BY <1>2, <1>3

\* So a step keeps all of it that does no more than that.
LEMMA Promises ==
  ASSUME Base, TendInv, TendInv', Promised, FirstTries, FirstTries',
         NEW t \in Tasks, Behaves(t), Keeping(t), FitsRequest(t)'
  PROVE  Promised'
<1>1. Writing(t) /\ Reaches(t)
  BY DEF Keeping
<1>2. \A u \in Tasks : FitsRequest(u)'
  BY <1>1, OthersFitRequest
<1> QED
  BY <1>1, <1>2, ImportsStayNone, OneStillTries, TryingStaysShown, LiveStaysSupported DEF Promised

-------------------------------------------------------------------------------
(***************************************************************************)
(* What is written of requests.                                            *)
(***************************************************************************)
\* The status of r alone.
Sets(r, s) ==
  \A q \in Requests :
    request'[q].status = request[q].status \/ (q = r /\ request'[q].status = s)

\* No request, and no import;
LEMMA LeavesRequests ==
  ASSUME NEW t \in Tasks,
         \A r \in Requests : request'[r].status = request[r].status,
         \A a \in Attempts :
           \/ attempt'[a].status = attempt[a].status
           \/ attempt[a].status \notin InFlight /\ attempt'[a].status # "importing"
           \/ attempt'[a].status \in InFlight \ {"importing"}
  PROVE  Writing(t)
<1>1. Stands /\ Asserts(t) /\ Unclaims(t)
  BY DEF Stands, Asserts, Unclaims
<1>2. Records(t) /\ Drops(t)
  BY DEF Records, Drops, Carries
<1> QED
  BY <1>1, <1>2 DEF Writing

\* nothing at all;
LEMMA WritesNothing ==
  ASSUME NEW t \in Tasks, UNCHANGED <<request, attempt>>
  PROVE  Writing(t)
  BY LeavesRequests

\* a dock row that goes, with the links to it;
LEMMA DeletionWrites ==
  ASSUME Base, NEW t \in Tasks, NEW f, NEW state, DeleteDockRow(f, state)
  PROVE  /\ Writing(t)
         /\ \A r \in Requests : request'[r].status = request[r].status
         /\ \A a \in Attempts : attempt'[a].request = attempt[a].request
<1>1. RowsOK
  BY DEF Base, Inv
<1>2. \A r \in Requests : request'[r].status = request[r].status
  BY <1>1 DEF DeleteDockRow, Unlink, RowsOK, RequestRow
<1>3. \A a \in Attempts : /\ attempt'[a].status = attempt[a].status
                          /\ attempt'[a].request = attempt[a].request
  BY <1>1 DEF DeleteDockRow, Unlink, RowsOK, AttemptRow
<1> QED
  BY <1>2, <1>3, LeavesRequests

\* one request, which needs no worker then, and lost no claim that has no download.
LEMMA SetsWrites ==
  ASSUME Stands, NEW t \in Tasks, NEW r, NEW s, s \notin Live, Sets(r, s), UNCHANGED attempt,
         r \in Requests /\ request[r].status = "grabbed" =>
           \/ request'[r].status = "grabbed"
           \/ s \in Decided
           \/ ~NoAttemptOf(r)
           \/ task[t].pc = "grab_rollback" /\ task[t].request = r /\ task'[t].pc \notin Trying
  PROVE  Writing(t)
<1>1. Asserts(t) /\ Unclaims(t)
  BY DEF Sets, Asserts, Unclaims
<1>2. Records(t) /\ Drops(t)
  BY DEF Records, Drops, Carries
<1> QED
  BY <1>1, <1>2 DEF Writing

\* A conditional write sets one.
LEMMA UpdateSets ==
  ASSUME Base, NEW r, NEW from, NEW s, UpdateRequestIf(r, from, s)
  PROVE  /\ Sets(r, s)
         /\ r \in Requests /\ request[r].status \in from => request'[r].status = s
         /\ r \in Requests /\ request[r].status \notin from =>
              /\ request'[r].status = request[r].status
              /\ \A q \in Requests : request'[q].status = request[q].status
  BY DEF UpdateRequestIf, Sets, Base, Inv, RowsOK, RequestRow

\* One that takes no claim away and makes none.
LEMMA UpdateWrites ==
  ASSUME Base, Stands, NEW t \in Tasks, NEW r, NEW from, NEW s, s \notin Live,
         "grabbed" \notin from, UpdateRequestIf(r, from, s), UNCHANGED attempt
  PROVE  Writing(t)
<1>1. /\ Sets(r, s)
      /\ r \in Requests /\ request[r].status = "grabbed" => request'[r].status = "grabbed"
  BY UpdateSets
<1> QED
  BY <1>1, SetsWrites

\* Who is elsewhere has nothing to do with a request that needs a worker,
LEMMA FitsRequestElsewhere ==
  ASSUME NEW t \in Tasks,
         task'[t].pc \notin Submitting \cup Away \cup Later \cup Removing \cup
                            {"grab_rollback", "fulfil_attempts"}
  PROVE  FitsRequest(t)'
  BY DEF FitsRequest

Telling == {"fail_request", "hold_request", "import_record", "after_removal"}

\* and who goes elsewhere from there claims nothing and supports nothing.
LEMMA KeepsElsewhere ==
  ASSUME NEW t \in Tasks, task'[t].pc \notin Trying, task[t].pc \notin Trying \cup Telling
  PROVE  Reaches(t) /\ Ends(t)
  BY DEF Reaches, Ends, Supports, Tries, Tells, Telling

Aside ==
  {"idle", "import_done", "resume", "abandon", "poll_apply", "poll_request", "auto_claim",
   "auto_search", "auto_grab", "auto_failed", "grab_claim", "grab_confirm", "fail_attempt",
   "hold_attempt", "import_extract", "import_claim", "discard_request"} \cup Rejecting

\* One that returns or goes aside is right about its request.
LEMMA AsideFits ==
  ASSUME NEW t \in Tasks, task'[t].pc \in Aside
  PROVE  task'[t].pc \notin Trying /\ FitsRequest(t)'
<1>1. task'[t].pc \notin Submitting \cup Away \cup Later \cup Removing \cup Trying \cup
                         {"grab_rollback", "fulfil_attempts"}
  BY DEF Aside, Rejecting, Submitting, Away, Later, Importing, Filing, Moved, Removing, Trying
<1> QED
  BY <1>1, FitsRequestElsewhere

\* Where a return or a step on leads.
LEMMA ReturnsAside ==
  ASSUME Base, NEW t \in Tasks, Return(t)
  PROVE  task'[t].pc \in Aside /\ task'[t].pc \notin Trying /\ FitsRequest(t)'
<1>1. task'[t].pc \in Aside
  BY GoesBack DEF Aside
<1> QED
  BY <1>1, AsideFits

LEMMA GoesAside ==
  ASSUME Base, NEW t \in Tasks, NEW pc \in Aside, Go(t, pc)
  PROVE  task'[t].pc \in Aside /\ task'[t].pc \notin Trying /\ FitsRequest(t)'
<1>1. task'[t].pc \in Aside
  BY Goes
<1> QED
  BY <1>1, AsideFits

\* An import or a filing that goes on leaves its request as it found it.
LEMMA LaterFits ==
  ASSUME Promised, NEW t \in Tasks, NEW r, r = RequestOf(t),
         task[t].pc \in Later, task'[t].pc \in Later,
         task'[t].pc \in Away => task[t].pc \in Away,
         RequestOf(t)' = r, request'[r].status = request[r].status
  PROVE  FitsRequest(t)'
<1>1. task'[t].pc \notin Submitting \cup Removing \cup {"grab_rollback", "fulfil_attempts"}
  BY DEF Later, Submitting, Importing, Filing, Moved, Removing
<1>2. FitsRequest(t)
  BY DEF Promised
<1> QED
  BY <1>1, <1>2 DEF FitsRequest

\* What is tended or asked about has a request, and that a download.
LEMMA TendedRequests ==
  ASSUME Base, TendInv, NEW t \in Tasks,
         task[t].pc \in Tending \cup {"detach", "fail_in_flight"} \/ task[t].says \in PollWords
  PROVE  /\ Inserted(task[t].attempt)
         /\ RequestOf(t) \in Requests
         /\ ~NoAttemptOf(RequestOf(t))
<1>1. Inserted(task[t].attempt)
  BY DEF TendInv, Fits, Knows
<1> QED
  BY <1>1 DEF Base, KnownRequests, Inserted, RequestOf, NoAttemptOf

\* One that was elsewhere and goes aside has only to write what it may.
LEMMA KeepsAside ==
  ASSUME NEW t \in Tasks, Writing(t), task[t].pc \notin Trying \cup Telling, task'[t].pc \in Aside
  PROVE  Keeping(t) /\ FitsRequest(t)'
  BY AsideFits, KeepsElsewhere DEF Keeping

-------------------------------------------------------------------------------
(***************************************************************************)
(* The services again.                                                     *)
(***************************************************************************)
\* A grab has the claim until its attempt is there or the claim is given back.
LEMMA GrabKeeps ==
  ASSUME Base, TendInv, TendInv', Promised, Stands, FirstTries, NEW t \in Tasks, GrabStep(t)
  PROVE  Keeping(t) /\ FitsRequest(t)'
<1>1. Remembers(t) /\ RowsOK /\ Fits(t) /\ FitsRequest(t) /\ task \in [Tasks -> TaskState]
  BY DEF Base, Inv, TasksOK, TendInv, Promised
<1> DEFINE r == task[t].request
           a == task[t].attempt
<1>2. task[t].pc \in Grabbing => r \in Requests
  BY DEF Base, KnownRequests, Seeking
<1>3. task[t].pc \in {"grab_resolve", "grab_create"} => NoAttemptOf(r)
  BY DEF FirstTries
<1>4. CASE GrabClaim(t)
  <2>1. r \in Requests /\ task[t].pc \notin Trying \cup Telling
    BY <1>2, <1>4 DEF GrabClaim, At, Grabbing, Trying, Telling
  <2>2. CASE UNCHANGED request /\ (Go(t, "auto_failed") \/ Return(t))
    BY <1>4, <2>1, <2>2, WritesNothing, KeepsElsewhere, GoesAside, ReturnsAside
    DEF GrabClaim, Keeping, Aside
  <2>3. ASSUME request[r].status \in Grabbable,
               request' = [request EXCEPT ![r].status = "grabbed"], Go(t, "grab_resolve")
        PROVE  Keeping(t) /\ FitsRequest(t)'
    <3>1. task'[t].pc = "grab_resolve" /\ task'[t].request = r
      BY <2>3, Goes
    <3>2. /\ request'[r].status = "grabbed"
          /\ \A q \in Requests \ {r} : request'[q].status = request[q].status
          /\ UNCHANGED attempt
      BY <1>1, <1>4, <2>1, <2>3 DEF GrabClaim, RowsOK, RequestRow
    <3>3. Tries(t, r)'
      BY <3>1 DEF Tries, Trying
    <3>4. Asserts(t) /\ Unclaims(t)
      BY <2>3, <3>1, <3>2, <3>3 DEF Asserts, Unclaims, Grabbable
    <3>5. Records(t) /\ Drops(t)
      BY <3>2 DEF Records, Drops, Carries
    <3>6. Reaches(t)
      BY <2>3, <3>1, <3>2 DEF Reaches
    <3>7. Ends(t)
      BY <2>1 DEF Ends, Supports, Tries, Tells, Telling
    <3>8. FitsRequest(t)'
      BY <3>1, FitsRequestElsewhere
      DEF Submitting, Away, Later, Importing, Filing, Moved, Removing
    <3> QED
      BY <3>4, <3>5, <3>6, <3>7, <3>8 DEF Keeping, Writing
  <2> QED
    BY <1>4, <2>2, <2>3 DEF GrabClaim
\* While it keeps the claim its request stays supported.
<1>5. ASSUME task[t].pc \in {"grab_resolve", "grab_create"}, UNCHANGED request,
             NEW pc \in Trying, Go(t, pc)
      PROVE  Reaches(t) /\ Ends(t) /\ task'[t].pc = pc /\ task'[t].request = r
  <2>1. task'[t].pc = pc /\ task'[t].request = r
    BY <1>5, Goes
  <2> QED
    BY <1>5, <2>1 DEF Reaches, Ends, Supports, Supported, Tries, Tells
<1>6. CASE GrabResolve(t)
  <2>1. Reaches(t) /\ Ends(t) /\ task'[t].pc = "grab_create"
    BY <1>5, <1>6 DEF GrabResolve, At, rows, Trying
  <2>2. FitsRequest(t)'
    BY <2>1, FitsRequestElsewhere
    DEF Submitting, Away, Later, Importing, Filing, Moved, Removing
  <2> QED
    BY <1>6, <2>1, <2>2, WritesNothing DEF GrabResolve, Keeping, rows
<1>7. CASE GrabRefused(t)
  <2>1. Reaches(t) /\ Ends(t) /\ task'[t].pc = "grab_rollback" /\ task'[t].request = r
    BY <1>5, <1>7 DEF GrabRefused, At, Trying
  <2>2. \A b \in Attempts :
          \/ attempt'[b] = attempt[b]
          \/ /\ attempt[b].status = "absent"
             /\ attempt'[b].status = "failed" /\ attempt'[b].release = NoRelease
    BY <1>1, <1>7 DEF GrabRefused, Insert, IsNextAttempt, Created, AbsentAttempt, RowsOK
  <2>3. Writing(t)
    BY <1>7, <2>2, LeavesRequests DEF GrabRefused, InFlight, ActiveAttempt
  <2>4. ASSUME NEW b \in Attempts, Created(b)', attempt'[b].request = r PROVE Over(b)'
    <3>1. attempt'[b].release = NoRelease
      BY <1>3, <1>7, <2>2, <2>4 DEF GrabRefused, At, NoAttemptOf, Created
    <3> QED
      BY <2>4, <3>1 DEF TendInv, RefusedAreOver
  <2>5. FitsRequest(t)'
    BY <2>1, <2>4
    DEF FitsRequest, Submitting, Away, Later, Importing, Filing, Moved, Removing
  <2> QED
    BY <2>1, <2>3, <2>5 DEF Keeping
<1>8. ASSUME NEW h \in Releases, GrabCreate(t, h) PROVE Keeping(t) /\ FitsRequest(t)'
  <2>1. task[t].pc = "grab_create" /\ UNCHANGED request /\ r \in Requests
    BY <1>2, <1>8 DEF GrabCreate, At, Grabbing
  <2>2. CASE Go(t, "grab_rollback") /\ UNCHANGED attempt
    <3>1. Reaches(t) /\ Ends(t) /\ task'[t].pc = "grab_rollback" /\ task'[t].request = r
      BY <1>5, <2>1, <2>2 DEF Trying
    <3>2. \A b \in Attempts : Created(b)' => attempt'[b].request # r
      BY <1>3, <2>1, <2>2 DEF NoAttemptOf, Created
    <3>3. FitsRequest(t)'
      BY <3>1, <3>2
      DEF FitsRequest, Submitting, Away, Later, Importing, Filing, Moved, Removing
    <3> QED
      BY <2>1, <2>2, <3>1, <3>3, WritesNothing DEF Keeping
  <2>3. ASSUME NEW b \in Attempts, IsNextAttempt(b),
               Insert(b, [AbsentAttempt EXCEPT !.status = "queued", !.release = h,
                                               !.request = task[t].request,
                                               !.automated = Unattended(t)]),
               task' = [task EXCEPT ![t].pc = "grab_add", ![t].attempt = b]
        PROVE  Keeping(t) /\ FitsRequest(t)'
    <3>1. task'[t].pc = "grab_add" /\ task'[t].attempt = b
      BY <1>1, <2>3 DEF TaskState
    <3>2. /\ attempt[b].status = "absent"
          /\ attempt'[b].status = "queued" /\ attempt'[b].request = r
          /\ \A c \in Attempts \ {b} : attempt'[c] = attempt[c]
      BY <1>1, <2>3 DEF IsNextAttempt, Insert, Created, AbsentAttempt, RowsOK
    <3>3. Writing(t)
      BY <2>1, <3>2, LeavesRequests DEF InFlight, ActiveAttempt
    <3>4. Reaches(t)
      BY <3>1 DEF Reaches, Trying
    <3>5. Ends(t)
      <4>1. attempt'[b].request = r /\ attempt'[b].status \in InFlight
        BY <3>2 DEF InFlight, ActiveAttempt
      <4> QED
        BY <2>1, <4>1 DEF Ends, Supports, Tries, Tells, Supported, Carries
    <3>6. request'[RequestOf(t)'].status \notin {"downloading", "importing"}
      <4>1. request[r].status \in {"grabbed"} \cup Decided
        BY <1>3, <2>1 DEF Promised, TryingIsShown, Trying
      <4>2. RequestOf(t)' = r
        BY <3>1, <3>2 DEF RequestOf
      <4> QED
        BY <2>1, <4>1, <4>2 DEF Decided
    <3>7. FitsRequest(t)'
      BY <3>1, <3>6
      DEF FitsRequest, Away, Later, Importing, Filing, Moved, Removing
    <3> QED
      BY <3>3, <3>4, <3>5, <3>7 DEF Keeping
  <2> QED
    BY <1>8, <2>2, <2>3 DEF GrabCreate
<1>9. CASE GrabAdd(t)
  BY <1>9, WritesNothing, KeepsElsewhere, GoesAside
  DEF GrabAdd, At, rows, Keeping, Aside, Trying, Telling
<1>10. CASE GrabAddRefused(t)
  <2>1. task'[t].pc = "grab_failed" /\ task'[t].attempt = a /\ UNCHANGED <<request, attempt>>
    BY <1>10, Goes DEF GrabAddRefused, rows
  <2>2. Reaches(t) /\ Ends(t)
    BY <1>10, <2>1, KeepsElsewhere DEF GrabAddRefused, At, Trying, Telling
  <2>3. FitsRequest(t)'
    BY <1>1, <1>10, <2>1
    DEF FitsRequest, GrabAddRefused, At, RequestOf, Submitting, Away, Later, Importing, Filing,
        Moved, Removing
  <2> QED
    BY <2>1, <2>2, <2>3, WritesNothing DEF Keeping
<1>11. CASE GrabFailed(t)
  <2>1. task[t].pc = "grab_failed" /\ task[t].pc \in Submitting /\ task[t].pc \in Tending
    BY <1>11 DEF GrabFailed, At, Submitting, Tending
  <2>2. Inserted(a) /\ attempt[a].request = r /\ r \in Requests
    BY <1>1, <2>1, TendedRequests DEF Fits, Knows, RequestOf
  <2>3. task'[t].pc = "grab_rollback" /\ task'[t].request = r /\ task'[t].attempt = a
        /\ task'[t].says = task[t].says /\ Only(t) /\ UNCHANGED request
    BY <1>11, Goes DEF GrabFailed
  <2>4. /\ attempt'[a].status = "failed" /\ attempt'[a].request = r
        /\ \A b \in Attempts \ {a} : attempt'[b] = attempt[b]
    BY <1>1, <1>11, <2>2 DEF GrabFailed, SetAttempt, RowsOK, AttemptRow, Inserted
  <2>5. Tries(t, r)'
    BY <2>3 DEF Tries, Trying
  <2>6. Drops(t) /\ Records(t)
    BY <2>1, <2>2, <2>3, <2>4, <2>5 DEF Drops, Records, Carries
  <2>7. Asserts(t) /\ Unclaims(t)
    BY <2>3 DEF Asserts, Unclaims
  <2>8. Reaches(t) /\ Ends(t)
    BY <2>1, <2>3 DEF Reaches, Ends, Supports, Tries, Tells, Trying
  <2>9. ASSUME NEW b \in Attempts, Created(b)', attempt'[b].request = r PROVE Over(b)'
    <3>1. b = a
      BY <2>2, <2>4, <2>9, OneDownload DEF Inserted, Created
    <3>2. Unpolled(a)
      BY <1>1, <2>1 DEF Fits, FitsClient
    <3>3. \A u \in Tasks : task'[u].pc \in Tending => task'[u].attempt # a
      BY <2>1, <2>3
      DEF Only, TendInv, OneTends, Tending, Submitting, Importing, Settling, Filing, Moved,
          Rejecting
    <3> QED
      BY <2>3, <2>4, <3>1, <3>2, <3>3 DEF Over, Untended, Unpolled, Tends, Polls, Only
  <2>10. FitsRequest(t)'
    BY <2>3, <2>9
    DEF FitsRequest, Submitting, Away, Later, Importing, Filing, Moved, Removing
  <2> QED
    BY <2>6, <2>7, <2>8, <2>10 DEF Keeping, Writing
<1>12. CASE GrabRollback(t)
  <2>1. task[t].pc = "grab_rollback" /\ r \in Requests /\ task[t].was \in Grabbable
    BY <1>1, <1>2, <1>12 DEF GrabRollback, At, Grabbing, Remembers
  <2>2. /\ Sets(r, task[t].was)
        /\ request[r].status = "grabbed" => request'[r].status = task[t].was
    BY <1>12, <2>1, UpdateSets DEF GrabRollback
  <2>3. task[t].was \notin Live
    BY <2>1 DEF Grabbable, Live, ActiveTransfer
  <2>4. task'[t].pc \notin Trying /\ FitsRequest(t)'
    BY <1>12, GoesAside, ReturnsAside DEF GrabRollback, Aside
  <2>5. Writing(t)
    BY <1>12, <2>1, <2>2, <2>3, <2>4, SetsWrites DEF GrabRollback
  <2>6. Reaches(t) /\ Ends(t)
    BY <2>1, <2>2, <2>3, <2>4 DEF Reaches, Ends, Supports, Tries, Tells
  <2> QED
    BY <2>4, <2>5, <2>6 DEF Keeping
<1>13. CASE GrabConfirm(t)
  <2>1. \A q \in Requests : request'[q].status = request[q].status
    BY <1>13, UpdateSets DEF GrabConfirm, Sets
  <2>2. Writing(t)
    BY <1>13, <2>1, LeavesRequests DEF GrabConfirm
  <2> QED
    BY <1>13, <2>2, KeepsElsewhere, ReturnsAside DEF GrabConfirm, At, Keeping, Trying, Telling
<1> QED
  BY <1>4, <1>6, <1>7, <1>8, <1>9, <1>10, <1>11, <1>12, <1>13 DEF GrabStep

\* A pass writes over nothing but its own claim and what it read, neither of which is a grab's.
LEMMA AutomationKeeps ==
  ASSUME Base, TendInv, Promised, Stands, NEW t \in Tasks, AutomationStep(t)
  PROVE  Keeping(t) /\ FitsRequest(t)'
<1>1. Remembers(t)
  BY DEF Base, Inv, TasksOK
<1>2. task[t].pc \in {"auto_claim", "auto_search", "auto_grab", "auto_failed", "abandon"}
  BY DEF AutomationStep, PassClaim, PassDeclines, SearchFindsNothing, SearchFinds, PassGrabs,
         PassFails, Abandon, At
<1>3. task[t].pc \notin Trying \cup Telling
  BY <1>2 DEF Trying, Telling
<1>4. ASSUME NEW from, "grabbed" \notin from, HandBack(t, from), UNCHANGED attempt
      PROVE  Writing(t) /\ task'[t].pc \in Aside
  <2>1. task'[t].pc \in Aside
    BY <1>4, ReturnsAside DEF HandBack
  <2> DEFINE to == IF task[t].says = "retry" THEN "failed" ELSE "approved"
  <2>2. CASE UNCHANGED request
    BY <1>4, <2>1, <2>2, WritesNothing
  <2>3. CASE UpdateRequestIf(task[t].request, from, to)
    BY <1>4, <2>1, <2>3, UpdateWrites DEF Live, ActiveTransfer
  <2> QED
    BY <1>4, <2>2, <2>3 DEF HandBack
<1>5. CASE PassClaim(t)
  <2>1. task[t].was \in Grabbable
    BY <1>1, <1>5 DEF PassClaim, At, Remembers
  <2>2. CASE UNCHANGED request /\ Return(t)
    BY <1>3, <1>5, <2>2, WritesNothing, ReturnsAside, KeepsAside DEF PassClaim
  <2>3. CASE /\ request[task[t].request].status \in Grabbable
             /\ request' = [request EXCEPT ![task[t].request].status = "searching"]
             /\ Go(t, "auto_search")
    <3>1. UpdateRequestIf(task[t].request, Grabbable, "searching")
      BY <2>3 DEF UpdateRequestIf
    <3>2. Writing(t)
      BY <1>5, <3>1, UpdateWrites DEF PassClaim, Grabbable, Live, ActiveTransfer
    <3> QED
      BY <1>3, <2>3, <3>2, Goes, KeepsAside DEF Aside
  <2> QED
    BY <1>5, <2>1, <2>2, <2>3 DEF PassClaim
<1>6. CASE PassDeclines(t)
  <2>1. task[t].was \in Grabbable
    BY <1>1, <1>6 DEF PassDeclines, At, Remembers
  <2>2. "grabbed" \notin {task[t].was}
    BY <2>1 DEF Grabbable
  <2> QED
    BY <1>3, <1>4, <1>6, <2>2, WritesNothing, ReturnsAside, KeepsAside DEF PassDeclines
<1>7. CASE SearchFindsNothing(t)
  BY <1>3, <1>4, <1>7, KeepsAside DEF SearchFindsNothing
<1>8. CASE SearchFinds(t)
  BY <1>3, <1>8, WritesNothing, GoesAside, KeepsAside DEF SearchFinds, rows, Aside
<1>9. CASE PassGrabs(t)
  <2>1. task'[t].pc \in {"grab_claim", "auto_failed"}
    BY <1>9 DEF PassGrabs, Go, Base, Inv, TasksOK, TaskState
  <2> QED
    BY <1>3, <1>9, <2>1, WritesNothing, KeepsAside DEF PassGrabs, rows, Aside
<1>10. CASE PassFails(t)
  BY <1>3, <1>10, UpdateWrites, ReturnsAside, KeepsAside DEF PassFails, Live, ActiveTransfer
<1>11. CASE Abandon(t)
  BY <1>3, <1>11, UpdateWrites, ReturnsAside, KeepsAside
  DEF Abandon, Abandonable, Live, ActiveTransfer
<1> QED
  BY <1>5, <1>6, <1>7, <1>8, <1>9, <1>10, <1>11 DEF AutomationStep

\* A poll moves its transfer on, and tells the request that it has begun.
LEMMA MonitorKeeps ==
  ASSUME Base, TendInv, Promised, Stands, NEW t \in Tasks, MonitorStep(t)
  PROVE  Keeping(t) /\ FitsRequest(t)'
<1>1. Remembers(t) /\ Role(t) /\ RowsOK
  BY DEF Base, Inv, TasksOK, TendInv, Fits
<1>2. task[t].pc \in {"poll_apply", "poll_request", "resume"}
  BY DEF MonitorStep, PollApply, PollRequest, ResumeEnqueue, At
<1>3. task[t].pc \notin Trying \cup Telling
  BY <1>2 DEF Trying, Telling
<1>4. task'[t].pc \in Aside
  BY ReturnsAside, GoesAside
  DEF MonitorStep, PollApply, PollRequest, ResumeEnqueue, HandOff, Aside
<1>5. CASE PollApply(t)
  <2> DEFINE a == task[t].attempt
  <2>1. task[t].says \in {"queued", "downloading", "completed"} /\ a \in Attempts
    BY <1>1, <1>5 DEF PollApply, At, Remembers
  <2>2. \A b \in Attempts :
          attempt'[b].status = attempt[b].status \/ attempt'[b].status = task[t].says
    BY <1>1, <1>5 DEF PollApply, SetAttempt, RowsOK, AttemptRow
  <2>3. UNCHANGED request
    BY <1>5 DEF PollApply
  <2>4. Writing(t)
    BY <2>1, <2>2, <2>3, LeavesRequests DEF InFlight, ActiveAttempt
  <2> QED
    BY <1>3, <1>4, <2>4, KeepsAside
<1>6. CASE PollRequest(t)
  <2> DEFINE r == RequestOf(t)
  <2>1. task[t].pc = "poll_request" /\ UNCHANGED attempt
    BY <1>6 DEF PollRequest, At
  <2>2. r \in Requests /\ ~NoAttemptOf(r)
    BY <1>1, <2>1, TendedRequests DEF Role
  <2>3. /\ Sets(r, "downloading")
        /\ request[r].status \notin ActiveTransfer => request'[r].status = request[r].status
    BY <1>6, <2>2, UpdateSets DEF PollRequest, RequestOf
  <2>4. Asserts(t) /\ Unclaims(t)
    BY <2>1, <2>2, <2>3 DEF Asserts, Unclaims, Sets, ActiveTransfer
  <2>5. Records(t) /\ Drops(t)
    BY <2>1 DEF Records, Drops, Carries
  <2> QED
    BY <1>3, <1>4, <2>4, <2>5, KeepsAside DEF Writing
<1>7. CASE ResumeEnqueue(t)
  BY <1>3, <1>4, <1>7, WritesNothing, KeepsAside DEF ResumeEnqueue, rows
<1> QED
  BY <1>5, <1>6, <1>7 DEF MonitorStep

\* A failure and a hold are told to the request once the download is out of the way.
LEMMA OutcomeKeeps ==
  ASSUME Base, TendInv, Promised, Stands, NEW t \in Tasks,
         FailAttempt(t) \/ FailRequest(t) \/ HoldAttempt(t) \/ HoldRequest(t)
  PROVE  Keeping(t) /\ FitsRequest(t)'
<1> DEFINE a == task[t].attempt
           r == attempt[a].request
<1>1. RowsOK /\ r = RequestOf(t)
  BY DEF Base, Inv, RequestOf
<1>2. Inserted(a) /\ r \in Requests /\ ~NoAttemptOf(r)
  BY <1>1, TendedRequests
  DEF FailAttempt, FailRequest, HoldAttempt, HoldRequest, At, Tending, Settling
<1>3. ASSUME FailAttempt(t) \/ HoldAttempt(t) PROVE Keeping(t) /\ FitsRequest(t)'
  <2>1. task[t].pc \notin Trying \cup Telling /\ UNCHANGED request
    BY <1>3 DEF FailAttempt, HoldAttempt, At, Trying, Telling
  <2>2. CASE Return(t) /\ UNCHANGED attempt
    BY <2>1, <2>2, WritesNothing, ReturnsAside, KeepsAside
  <2>3. ASSUME NEW pc \in {"fail_request", "hold_request"}, Go(t, pc),
               /\ attempt'[a].status \in {"failed", "needs_review"} /\ attempt'[a].request = r
               /\ \A b \in Attempts \ {a} : attempt'[b] = attempt[b]
        PROVE  Keeping(t) /\ FitsRequest(t)'
    <3>1. task'[t].pc = pc /\ task'[t].attempt = a
      BY <2>3, Goes
    <3>2. \A q \in Requests : q = r => Tells(t, q)'
      BY <2>3, <3>1 DEF Tells, RequestOf
    <3>3. Asserts(t) /\ Unclaims(t)
      BY <2>1 DEF Asserts, Unclaims
    <3>4. Drops(t) /\ Records(t)
      BY <2>1, <2>3, <3>2 DEF Drops, Records, Carries
    <3>5. FitsRequest(t)'
      BY <2>3, <3>1, FitsRequestElsewhere
      DEF Submitting, Away, Later, Importing, Filing, Moved, Removing
    <3> QED
      BY <2>1, <2>3, <3>1, <3>3, <3>4, <3>5, KeepsElsewhere DEF Keeping, Writing, Trying
  <2>4. CASE SetAttempt(a, "failed") /\ Go(t, "fail_request")
    BY <1>1, <1>2, <2>3, <2>4 DEF SetAttempt, RowsOK, AttemptRow, Inserted
  <2>5. CASE /\ attempt' = [attempt EXCEPT ![a].status = "needs_review",
                                           ![a].units = (task[t].says = "choice")]
             /\ Go(t, "hold_request")
    BY <1>1, <1>2, <2>3, <2>5 DEF RowsOK, AttemptRow, Inserted
  <2> QED
    BY <1>3, <2>2, <2>4, <2>5 DEF FailAttempt, HoldAttempt
<1>4. ASSUME FailRequest(t) \/ HoldRequest(t) PROVE Keeping(t) /\ FitsRequest(t)'
  <2>1. /\ task[t].pc \in {"fail_request", "hold_request"}
        /\ UNCHANGED attempt /\ task'[t].pc \in Aside
    BY <1>4, ReturnsAside, GoesAside DEF FailRequest, HoldRequest, At, Aside
  <2>2. Writing(t) /\ request'[r].status \notin Live
    <3>1. CASE UNCHANGED request /\ request[r].status = "failed"
      BY <2>1, <3>1, WritesNothing DEF Live, ActiveTransfer
    <3>2. ASSUME NEW s \in {"failed", "needs_review"}, UpdateRequestIf(r, WorkerWritable, s)
          PROVE  Writing(t) /\ request'[r].status \notin Live
      <4>1. /\ Sets(r, s)
            /\ request[r].status \notin WorkerWritable => request'[r].status = request[r].status
            /\ request[r].status \in WorkerWritable => request'[r].status = s
        BY <1>2, <3>2, UpdateSets
      <4>2. s \notin Live
        BY DEF Live, ActiveTransfer
      <4> QED
        BY <1>2, <2>1, <4>1, <4>2, SetsWrites
        DEF WorkerWritable, ActiveRequest, Live, ActiveTransfer
    <3> QED
      BY <1>4, <3>1, <3>2 DEF FailRequest, HoldRequest
  <2>3. Reaches(t) /\ FitsRequest(t)'
    BY <2>1, AsideFits DEF Reaches
  <2>4. Ends(t)
    BY <1>1, <2>1, <2>2 DEF Ends, Supports, Tries, Tells, Trying
  <2> QED
    BY <2>2, <2>3, <2>4 DEF Keeping
<1> QED
  BY <1>3, <1>4

\* An import or a filing that goes on has only to write what it may.
LEMMA LaterKeeps ==
  ASSUME Promised, NEW t \in Tasks, NEW r, r = RequestOf(t), Writing(t),
         task[t].pc \in Later \ {"import_record"}, task'[t].pc \in Later,
         task'[t].pc \in Away => task[t].pc \in Away,
         RequestOf(t)' = r, request'[r].status = request[r].status
  PROVE  Keeping(t) /\ FitsRequest(t)'
<1>1. /\ task[t].pc \notin Trying \cup Telling
      /\ task'[t].pc \notin Trying
  BY DEF Later, Importing, Filing, Moved, Trying, Telling
<1> QED
  BY <1>1, LaterFits, KeepsElsewhere DEF Keeping

\* What is given up where the request has gone on already.
LEMMA AwayWrites ==
  ASSUME Base, NEW t \in Tasks, NEW a, a = task[t].attempt, task[t].pc \in Away,
         UNCHANGED request, NEW s \in {"failed", "imported"}, NEW row,
         attempt' = attempt \/ (attempt' = [attempt EXCEPT ![a] = row] /\ row.status = s)
  PROVE  Writing(t)
<1>1. \A b \in Attempts :
        attempt'[b].status = attempt[b].status \/ (b = a /\ attempt'[b].status = s)
  BY DEF Base, Inv, RowsOK
<1>2. Stands /\ Asserts(t) /\ Unclaims(t)
  BY DEF Stands, Asserts, Unclaims
<1>3. Records(t) /\ Drops(t)
  BY <1>1 DEF Records, Drops, Carries
<1> QED
  BY <1>2, <1>3 DEF Writing

\* An import claims the request and then says so of its download, and gives both up together.
LEMMA ImportKeeps ==
  ASSUME Base, TendInv, Promised, Stands, FirstTries, NEW t \in Tasks,
         ImportStep(t) \/ ImportPlaceCollides(t)
  PROVE  Keeping(t) /\ FitsRequest(t)'
<1>1. RowsOK /\ Fits(t) /\ FitsRequest(t) /\ task \in [Tasks -> TaskState]
  BY DEF Base, Inv, TasksOK, TendInv, Promised
<1>2. CASE ImportDone(t)
  <2>1. task[t].pc = "import_done" /\ task'[t].pc = "idle"
    BY <1>1, <1>2 DEF ImportDone, At, Idle
  <2> QED
    BY <1>2, <2>1, WritesNothing, KeepsAside DEF ImportDone, rows, Trying, Telling, Aside
<1>3. ~ChooseClaim(t)
  BY DEF Base, WorkersImport, NobodyChooses, ChooseClaim, At
<1> SUFFICES ASSUME ~ImportDone(t) PROVE Keeping(t) /\ FitsRequest(t)'
  BY <1>2
<1>4. task[t].pc \in Importing /\ task[t].pc \notin Trying
  BY <1>3
  DEF ImportStep, ImportError, ImportHold, ImportClaimDock, ImportClaim, ImportUndo,
      ImportRefused, ImportRecord, ImportPlace, ImportPlaceThrows, ImportPlaceCollides,
      ImportPlaceFails, ImportReclaimDock, ImportReclaim, ImportRerecord, ClaimDestination, At,
      Importing, Trying
<1> DEFINE a == task[t].attempt
           r == RequestOf(t)
<1>5. Inserted(a) /\ r \in Requests /\ ~NoAttemptOf(r)
  BY <1>4, TendedRequests DEF Tending
<1>6. task[t].pc \in InHand => DockRow(task[t].dock)
  BY <1>1 DEF Base, FilesInv, Brings, Made, DockRow, Fits, FitsFile, DockFiles, NoRow
\* It gives up or returns,
<1>7. ASSUME task[t].pc # "import_record", Writing(t),
             Return(t) \/ Go(t, "fail_attempt") \/ Go(t, "hold_attempt")
      PROVE  Keeping(t) /\ FitsRequest(t)'
  <2>1. task'[t].pc \in Aside
    BY <1>7, ReturnsAside, GoesAside DEF Aside
  <2> QED
    BY <1>4, <1>7, <2>1, KeepsAside DEF Importing, Telling
\* or goes on.
<1>8. ASSUME NEW pc \in Later, Go(t, pc), task[t].pc \in Later \ {"import_record"}, Writing(t),
             pc \in Away => task[t].pc \in Away,
             attempt'[a].request = attempt[a].request,
             request'[r].status = request[r].status
      PROVE  Keeping(t) /\ FitsRequest(t)'
  <2>1. task'[t].pc = pc /\ task'[t].attempt = a
    BY <1>8, Goes
  <2>2. RequestOf(t)' = r
    BY <1>8, <2>1 DEF RequestOf
  <2> QED
    BY <1>8, <2>1, <2>2, LaterKeeps
<1>9. ASSUME NEW from, NEW to \in {"import_claim", "import_reclaim"},
             ClaimDestination(t, from, to)
      PROVE  Writing(t) /\ task[t].pc = from /\ task'[t].pc = to /\ task'[t].attempt = a
             /\ UNCHANGED <<request, attempt>>
  BY <1>1, <1>9, WritesNothing DEF ClaimDestination, At, TaskState
<1>10. CASE ImportError(t)
  BY <1>7, <1>10, WritesNothing DEF ImportError, At, rows
<1>11. ASSUME NEW why, ImportHold(t, why) PROVE Keeping(t) /\ FitsRequest(t)'
  <2>1. task[t].pc = "import_extract" /\ task'[t].pc = "hold_attempt"
    BY <1>1, <1>11 DEF ImportHold, At, TaskState
  <2> QED
    BY <1>11, <2>1, WritesNothing, KeepsAside DEF ImportHold, rows, Trying, Telling, Aside
<1>12. CASE ImportClaimDock(t)
  <2>1. Writing(t) /\ task[t].pc = "import_extract" /\ task'[t].pc = "import_claim"
    BY <1>9, <1>12 DEF ImportClaimDock
  <2> QED
    BY <2>1, KeepsAside DEF Trying, Telling, Aside
<1>13. CASE ImportClaim(t)
  <2>1. /\ task[t].pc = "import_claim" /\ UNCHANGED attempt
        /\ task[t].pc \notin Trying \cup Telling
    BY <1>13 DEF ImportClaim, At, Trying, Telling
  <2>2. CASE Go(t, "fail_attempt") /\ UNCHANGED request
    BY <1>7, <2>1, <2>2, WritesNothing
  <2>3. CASE /\ request[r].status \notin WorkerWritable
             /\ Go(t, "import_undo") /\ UNCHANGED request
    <3>1. task'[t].pc = "import_undo" /\ task'[t].attempt = a
      BY <2>3, Goes
    <3>2. RequestOf(t)' = r /\ request'[r].status \notin Live
      BY <2>1, <2>3, <3>1 DEF RequestOf, WorkerWritable, ActiveRequest, Live, ActiveTransfer
    <3>3. FitsRequest(t)'
      BY <3>1, <3>2 DEF FitsRequest, Submitting, Removing, Live
    <3> QED
      BY <2>1, <2>3, <3>1, <3>3, WritesNothing, KeepsElsewhere DEF Keeping, Trying
  <2>4. CASE /\ request' = [request EXCEPT ![r].status = "importing", ![r].dock = task[t].dock]
             /\ Go(t, "import_record")
    <3>1. task'[t].pc = "import_record" /\ task'[t].attempt = a
      BY <2>4, Goes
    <3>2. RequestOf(t)' = r /\ request'[r].status = "importing"
          /\ \A q \in Requests \ {r} : request'[q].status = request[q].status
      BY <1>1, <1>5, <2>1, <2>4, <3>1 DEF RequestOf, RowsOK, RequestRow
    <3>3. Tells(t, r)'
      BY <3>1, <3>2 DEF Tells
    <3>4. Asserts(t)
      BY <2>1, <3>1, <3>2 DEF Asserts, Tells
    <3>5. Unclaims(t) /\ Records(t) /\ Drops(t)
      BY <1>5, <2>1, <3>2 DEF Unclaims, Records, Drops, Carries
    <3>6. FitsRequest(t)'
      BY <3>1, <3>2 DEF FitsRequest, Submitting, Removing, Away, ActiveTransfer
    <3> QED
      BY <2>1, <3>1, <3>4, <3>5, <3>6, KeepsElsewhere DEF Keeping, Writing, Trying
  <2> QED
    BY <1>13, <2>2, <2>3, <2>4 DEF ImportClaim, RequestOf
\* A dock row that goes leaves the statuses alone.
<1>14. ASSUME DeleteDockRow(task[t].dock, "dropped")
       PROVE  /\ Writing(t)
              /\ attempt'[a].request = attempt[a].request
              /\ request'[r].status = request[r].status
  BY <1>5, <1>14, DeletionWrites DEF Inserted
<1>15. CASE ImportUndo(t)
  BY <1>8, <1>14, <1>15 DEF ImportUndo, At, Later, Importing, Away
<1>16. CASE ImportRefused(t)
  <2> DEFINE row == [attempt[a] EXCEPT !.status = "failed"]
  <2>1. task[t].pc = "import_refused" /\ UNCHANGED request /\ Return(t)
    BY <1>16 DEF ImportRefused, At
  <2>2. attempt' = attempt \/ attempt' = [attempt EXCEPT ![a] = row]
    BY <1>16 DEF ImportRefused
  <2>3. row.status = "failed"
    BY <1>1, <1>5 DEF RowsOK, AttemptRow, Inserted
  <2>4. Writing(t)
    BY <2>1, <2>2, <2>3, AwayWrites DEF Away
  <2> QED
    BY <1>7, <2>1, <2>4
<1>17. CASE ImportRecord(t)
  <2>1. task[t].pc = "import_record" /\ UNCHANGED request
    BY <1>17 DEF ImportRecord, At
  <2>2. DockRow(task[t].dock) /\ HashFree(attempt[a].release, a)
    BY <1>5, <1>6, <2>1, HashesAreFree DEF InHand
  <2>3. /\ attempt' = [attempt EXCEPT ![a].status = "importing", ![a].dock = task[t].dock]
        /\ Go(t, "import_place")
    BY <1>17, <2>2 DEF ImportRecord
  <2>4. /\ attempt'[a].status = "importing" /\ attempt'[a].request = r
        /\ \A b \in Attempts \ {a} : attempt'[b] = attempt[b]
    BY <1>1, <1>5, <2>3 DEF RowsOK, AttemptRow, Inserted, RequestOf
  <2>5. task'[t].pc = "import_place" /\ task'[t].attempt = a
    BY <2>3, Goes
  <2>6. Writing(t)
    <3>1. Asserts(t) /\ Unclaims(t)
      BY <2>1 DEF Asserts, Unclaims
    <3>2. Records(t) /\ Drops(t)
      BY <2>1, <2>4 DEF Records, Drops, Carries, InFlight
    <3> QED
      BY <3>1, <3>2 DEF Writing
  <2>7. Reaches(t)
    BY <2>5 DEF Reaches, Trying
  <2>8. Ends(t)
    <3> SUFFICES ASSUME NEW q \in Requests, Supports(t, q) PROVE Supported(q)'
      BY DEF Ends
    <3>1. q = r
      BY <2>1 DEF Supports, Tries, Tells, Trying
    <3> QED
      BY <1>5, <2>4, <3>1 DEF Supported, Carries, InFlight, Inserted
  <2>9. FitsRequest(t)'
    <3>1. RequestOf(t)' = r /\ request'[r].status \notin ActiveTransfer
      BY <1>1, <2>1, <2>4, <2>5 DEF FitsRequest, RequestOf, Later, Importing
    <3> QED
      BY <2>5, <3>1 DEF FitsRequest, Submitting, Removing, Away
  <2> QED
    BY <2>6, <2>7, <2>8, <2>9 DEF Keeping
<1>18. CASE ImportPlace(t)
  BY <1>7, <1>18, WritesNothing DEF ImportPlace, At
<1>19. CASE ImportPlaceThrows(t)
  BY <1>7, <1>14, <1>19 DEF ImportPlaceThrows, ImportPlaceFails, At
<1>20. CASE ImportPlaceCollides(t)
  BY <1>8, <1>14, <1>20 DEF ImportPlaceCollides, ImportPlaceFails, At, Later, Importing, Away
<1>21. CASE ImportReclaimDock(t)
  <2>1. /\ Writing(t) /\ task[t].pc = "import_reclaim_dock" /\ task'[t].pc = "import_reclaim"
        /\ task'[t].attempt = a /\ UNCHANGED <<request, attempt>>
    BY <1>9, <1>21 DEF ImportReclaimDock
  <2>2. RequestOf(t)' = r
    BY <2>1 DEF RequestOf
  <2> QED
    BY <2>1, <2>2, LaterKeeps DEF Later, Importing, Away
<1>22. CASE ImportReclaim(t)
  <2>1. task[t].pc = "import_reclaim" /\ UNCHANGED attempt
    BY <1>22 DEF ImportReclaim, At
  <2>2. CASE Go(t, "fail_attempt") /\ UNCHANGED request
    BY <1>7, <2>1, <2>2, WritesNothing
  <2>3. CASE request' = [request EXCEPT ![r].dock = task[t].dock] /\ Go(t, "import_rerecord")
    <3>1. \A q \in Requests : request'[q].status = request[q].status
      BY <1>1, <1>5, <2>3 DEF RowsOK, RequestRow
    <3>2. Writing(t)
      BY <2>1, <3>1, LeavesRequests
    <3> QED
      BY <1>5, <1>8, <2>1, <2>3, <3>1, <3>2 DEF Later, Importing, Away
  <2>4. CASE /\ request[r].status # "importing"
             /\ Go(t, "import_undo") /\ UNCHANGED request
    <3>1. task'[t].pc = "import_undo" /\ task'[t].attempt = a
      BY <2>4, Goes
    <3>2. RequestOf(t)' = r /\ request'[r].status \notin Live
      BY <1>1, <2>1, <2>4, <3>1 DEF RequestOf, FitsRequest, Later, Importing, Live
    <3>3. FitsRequest(t)'
      BY <3>1, <3>2 DEF FitsRequest, Submitting, Removing, Live
    <3> QED
      BY <2>1, <2>4, <3>1, <3>3, WritesNothing, KeepsElsewhere DEF Keeping, Trying, Telling
  <2> QED
    BY <1>22, <2>2, <2>3, <2>4 DEF ImportReclaim, RequestOf
<1>23. CASE ImportRerecord(t)
  <2>1. task[t].pc = "import_rerecord" /\ UNCHANGED request
    BY <1>23 DEF ImportRerecord, At
  <2>2. CASE Go(t, "fail_attempt") /\ UNCHANGED attempt
    BY <1>7, <2>1, <2>2, WritesNothing
  <2>3. CASE attempt' = [attempt EXCEPT ![a].dock = task[t].dock] /\ Go(t, "import_place")
    <3>1. \A b \in Attempts : attempt'[b].status = attempt[b].status
                              /\ attempt'[b].request = attempt[b].request
      BY <1>1, <1>5, <2>3 DEF RowsOK, AttemptRow, Inserted
    <3>2. Writing(t)
      BY <2>1, <3>1, LeavesRequests
    <3> QED
      BY <1>5, <1>8, <2>1, <2>3, <3>1, <3>2 DEF Later, Importing, Away, Inserted
  <2> QED
    BY <1>23, <2>2, <2>3 DEF ImportRerecord
<1> QED
  BY <1>3, <1>10, <1>11, <1>12, <1>13, <1>15, <1>16, <1>17, <1>18, <1>19, <1>20, <1>21, <1>22,
     <1>23
  DEF ImportStep

\* A filing settles the request and then its download, or leaves the request to who has it.
LEMMA FilingKeeps ==
  ASSUME Base, TendInv, Promised, Stands, NEW t \in Tasks,
         \/ VerifyPasses(t) \/ VerifyHolds(t) \/ VerifyFindsNoRow(t)
         \/ FileRead(t) \/ FileMove(t) \/ FileMoveFails(t) \/ FileRequest(t) \/ FileAttempt(t)
  PROVE  Keeping(t) /\ FitsRequest(t)'
<1>1. RowsOK /\ Fits(t) /\ FitsRequest(t)
  BY DEF Base, Inv, TendInv, Promised
<1>2. task[t].pc \in Filing
  BY DEF VerifyPasses, VerifyHolds, VerifyFindsNoRow, FileRead, FileMove, FileMoveFails,
         FileRequest, FileAttempt, At, Filing, Moved
<1>3. task[t].pc \in Later \ {"import_record"} /\ task[t].pc \notin Trying \cup Telling
  BY <1>2 DEF Later, Filing, Moved, Trying, Telling
<1> DEFINE a == task[t].attempt
           r == RequestOf(t)
<1>4. /\ Inserted(a) /\ r \in Requests
      /\ task[t].request = r /\ task[t].says = "auto"
  BY <1>1, <1>2, TendedRequests
  DEF Tending, Base, FilesInv, Brings, CarriesFile, RequestOf, Fits, Role
<1>5. NotFiled(t) => Go(t, "hold_attempt")
  BY <1>4 DEF NotFiled
<1>6. ASSUME Writing(t), Return(t) \/ Go(t, "hold_attempt") \/ Go(t, "fail_attempt")
      PROVE  Keeping(t) /\ FitsRequest(t)'
  <2>1. task'[t].pc \in Aside
    BY <1>6, ReturnsAside, GoesAside DEF Aside
  <2> QED
    BY <1>3, <1>6, <2>1, KeepsAside
<1>7. ASSUME NEW pc \in Filing \ Away, Go(t, pc), Writing(t),
             attempt'[a].request = attempt[a].request,
             request'[r].status = request[r].status
      PROVE  Keeping(t) /\ FitsRequest(t)'
  <2>1. task'[t].pc = pc /\ task'[t].attempt = a
    BY <1>7, Goes
  <2>2. RequestOf(t)' = r
    BY <1>7, <2>1 DEF RequestOf
  <2> QED
    BY <1>3, <1>7, <2>1, <2>2, LaterKeeps DEF Later
<1>8. CASE \/ VerifyPasses(t) \/ VerifyHolds(t) \/ VerifyFindsNoRow(t)
           \/ FileRead(t) \/ FileMoveFails(t)
  <2>1. UNCHANGED <<request, attempt>>
    BY <1>8 DEF VerifyPasses, VerifyHolds, VerifyFindsNoRow, FileRead, FileMoveFails, rows
  <2>2. \/ \E pc \in {"file_read", "file_move"} : Go(t, pc)
        \/ Go(t, "hold_attempt") \/ Go(t, "fail_attempt")
    BY <1>5, <1>8
    DEF VerifyPasses, VerifyHolds, VerifyFindsNoRow, FileRead, FileMoveFails
  <2>3. {"file_read", "file_move"} \subseteq Filing \ Away
    BY DEF Filing, Away
  <2> QED
    BY <1>6, <1>7, <2>1, <2>2, <2>3, WritesNothing
<1>9. CASE FileMove(t)
  <2>1. DeleteDockRow(task[t].dock, "filed") /\ Go(t, "file_request")
    BY <1>9 DEF FileMove
  <2>2. /\ Writing(t)
        /\ attempt'[a].request = attempt[a].request
        /\ request'[r].status = request[r].status
    BY <1>4, <2>1, DeletionWrites DEF Inserted
  <2> QED
    BY <1>7, <2>1, <2>2 DEF Filing, Moved, Away
<1>10. CASE FileRequest(t)
  <2>1. task[t].pc = "file_request" /\ UNCHANGED attempt
    BY <1>10 DEF FileRequest, At
  <2>2. CASE request' = [request EXCEPT ![r].status = "available", ![r].dock = NoRow]
             /\ Go(t, "file_attempt")
    <3>1. task'[t].pc = "file_attempt" /\ task'[t].attempt = a
      BY <2>2, Goes
    <3>2. Sets(r, "available") /\ request'[r].status = "available"
      BY <1>1, <1>4, <2>2 DEF Sets, RowsOK, RequestRow
    <3>3. Writing(t)
      BY <2>1, <3>2, SetsWrites DEF Live, ActiveTransfer, Decided
    <3>4. RequestOf(t)' = r
      BY <2>1, <3>1 DEF RequestOf
    <3>5. FitsRequest(t)'
      BY <3>1, <3>2, <3>4 DEF FitsRequest, Submitting, Removing, Live, ActiveTransfer
    <3> QED
      BY <1>3, <3>1, <3>3, <3>5, KeepsElsewhere DEF Keeping, Trying
  <2>3. CASE request[r].status \notin FileableFrom /\ Go(t, "file_refused") /\ UNCHANGED request
    <3>1. task'[t].pc = "file_refused" /\ task'[t].attempt = a
      BY <2>3, Goes
    <3>2. RequestOf(t)' = r /\ request'[r].status \notin Live
      BY <1>1, <1>3, <2>1, <2>3, <3>1 DEF RequestOf, FitsRequest, Live, FileableFrom
    <3>3. FitsRequest(t)'
      BY <3>1, <3>2 DEF FitsRequest, Submitting, Removing, Live
    <3> QED
      BY <1>3, <2>1, <2>3, <3>1, <3>3, WritesNothing, KeepsElsewhere DEF Keeping, Trying
  <2> QED
    BY <1>4, <1>10, <2>2, <2>3 DEF FileRequest
<1>11. CASE FileAttempt(t)
  <2> DEFINE row == [attempt[a] EXCEPT !.status = "imported"]
  <2>1. task[t].pc \in Away /\ UNCHANGED request
    BY <1>11 DEF FileAttempt, At, Away
  <2>2. attempt' = attempt \/ attempt' = [attempt EXCEPT ![a] = row]
    BY <1>11 DEF FileAttempt
  <2>3. row.status = "imported"
    BY <1>1, <1>4 DEF RowsOK, AttemptRow, Inserted
  <2>4. Writing(t)
    BY <2>1, <2>2, <2>3, AwayWrites
  <2>5. Return(t) \/ Go(t, "hold_attempt")
    BY <1>5, <1>11 DEF FileAttempt
  <2> QED
    BY <1>6, <2>4, <2>5
<1> QED
  BY <1>8, <1>9, <1>10, <1>11

\* A discard is about a request that is held, or was until it began.
LEMMA DiscardKeeps ==
  ASSUME Base, TendInv, Promised, Stands, NEW t \in Tasks,
         \/ DiscardRequest(t) \/ DiscardAttempt(t) \/ DiscardDock(t)
         \/ DiscardDockFails(t) \/ DiscardUndoAttempt(t) \/ DiscardUndoRequest(t)
  PROVE  Keeping(t) /\ FitsRequest(t)'
<1>1. RowsOK /\ Fits(t)
  BY DEF Base, Inv, TendInv
<1>2. task[t].pc \in Rejecting \cup {"discard_request"}
  BY DEF DiscardRequest, DiscardAttempt, DiscardDock, DiscardDockFails, DiscardUndoAttempt,
         DiscardUndoRequest, At, Rejecting
<1>3. task[t].pc \notin Trying \cup Telling
  BY <1>2 DEF Rejecting, Trying, Telling
<1>4. task'[t].pc \in Aside
  BY ReturnsAside, GoesAside
  DEF DiscardRequest, DiscardAttempt, DiscardDock, DiscardDockFails, DiscardUndoAttempt,
      DiscardUndoRequest, Aside, Rejecting
<1> SUFFICES Writing(t)
  BY <1>3, <1>4, KeepsAside
<1>5. ASSUME NEW s \in {"failed", "needs_review"}, NEW from \in {"failed", "needs_review"},
             UNCHANGED attempt,
             \/ UNCHANGED request
             \/ /\ request[task[t].request].status = from
                /\ request' = [request EXCEPT ![task[t].request].status = s]
      PROVE  Writing(t)
  <2>1. CASE UNCHANGED request
    BY <1>5, <2>1, WritesNothing
  <2>2. CASE /\ request[task[t].request].status = from
             /\ request' = [request EXCEPT ![task[t].request].status = s]
    <3>1. UpdateRequestIf(task[t].request, {from}, s)
      BY <2>2 DEF UpdateRequestIf
    <3> QED
      BY <1>5, <3>1, UpdateWrites DEF Live, ActiveTransfer
  <2> QED
    BY <1>5, <2>1, <2>2
<1>6. ASSUME NEW a, UNCHANGED request, NEW s \in {"failed", "needs_review"},
             UNCHANGED attempt \/ SetAttempt(a, s),
             attempt[a].status \in {"failed", "needs_review"}
      PROVE  Writing(t)
  <2>1. \A b \in Attempts :
          \/ attempt'[b].status = attempt[b].status
          \/ attempt[b].status \notin InFlight /\ attempt'[b].status = s
    BY <1>1, <1>6 DEF SetAttempt, RowsOK, AttemptRow, InFlight, ActiveAttempt
  <2> QED
    BY <1>6, <2>1, LeavesRequests
<1>7. CASE DiscardRequest(t)
  BY <1>5, <1>7 DEF DiscardRequest
<1>8. CASE DiscardAttempt(t)
  BY <1>6, <1>8, WritesNothing DEF DiscardAttempt
<1>9. CASE DiscardDock(t)
  BY <1>9, DeletionWrites DEF DiscardDock
<1>10. CASE DiscardDockFails(t)
  BY <1>10, WritesNothing DEF DiscardDockFails, rows
<1>11. CASE DiscardUndoAttempt(t)
  <2>1. attempt[task[t].attempt].status = "failed"
    BY <1>1, <1>11 DEF DiscardUndoAttempt, At, Fits, FitsStatus, Status
  <2> QED
    BY <1>6, <1>11, <2>1 DEF DiscardUndoAttempt, SetAttempt
<1>12. CASE DiscardUndoRequest(t)
  BY <1>5, <1>12 DEF DiscardUndoRequest
<1> QED
  BY <1>7, <1>8, <1>9, <1>10, <1>11, <1>12

\* All the steps of a verification.
LEMMA VerificationKeeps ==
  ASSUME Base, TendInv, Promised, Stands, NEW t \in Tasks, VerificationStep(t)
  PROVE  Keeping(t) /\ FitsRequest(t)'
  BY FilingKeeps, DiscardKeeps DEF VerificationStep

\* A removal fails a download whose request it settles next, or has settled.
LEMMA RemovalKeeps ==
  ASSUME Base, TendInv, Promised, Stands, NEW t \in Tasks, RemovalStep(t)
  PROVE  Keeping(t) /\ FitsRequest(t)'
<1>1. RowsOK /\ Role(t) /\ Knows(t) /\ FitsRequest(t) /\ task \in [Tasks -> TaskState]
  BY DEF Base, Inv, TasksOK, TendInv, Fits, Promised
<1> DEFINE a == task[t].attempt
           r == task[t].request
<1>2. task[t].pc \in Removing \cup {"fulfil_attempts"}
  BY DEF RemovalStep, Latest, Detach, DetachRefused, FailInFlight, SettleStopped, SettleRemoved,
         SettleFulfilled, Settle, FailInFlightForRequest, At, Removing
<1>3. r \in Requests /\ task[t].pc \notin Trying \cup (Telling \ {"after_removal"})
  BY <1>1, <1>2 DEF FitsRequest, Settled, Removing, Trying, Telling
\* It goes on with the request it has,
<1>4. ASSUME task'[t].pc \in Removing, task'[t].request = r, task'[t].says = task[t].says,
             Writing(t), task[t].pc \in Removing \ {"after_removal"}
      PROVE  Keeping(t) /\ FitsRequest(t)'
  <2>1. Settled(r) => Settled(r)'
    BY <1>4 DEF Settled, Writing, Stands
  <2>2. task[t].says = "cancel" => Settled(r)
    BY <1>1, <1>4 DEF FitsRequest
  <2>3. FitsRequest(t)'
    <3>1. task'[t].says = "cancel" =>
            task'[t].request \in Requests /\ request'[task'[t].request].status \in Decided
      BY <1>4, <2>1, <2>2 DEF Settled
    <3>2. task'[t].request \in Requests
      BY <1>3, <1>4
    <3> QED
      BY <1>4, <3>1, <3>2
      DEF FitsRequest, Settled, Submitting, Away, Later, Importing, Filing, Moved, Removing
  <2> QED
    BY <1>3, <1>4, <2>3, KeepsElsewhere DEF Keeping, Removing, Trying, Telling
\* or returns, with nothing left to tell.
<1>5. ASSUME Return(t), Writing(t), task[t].pc # "after_removal" \/ request'[r].status \notin Live
      PROVE  Keeping(t) /\ FitsRequest(t)'
  <2>1. task'[t].pc \in Aside /\ task'[t].pc \notin Trying /\ FitsRequest(t)'
    BY <1>5, ReturnsAside
  <2>2. Reaches(t)
    BY <2>1 DEF Reaches
  <2>3. Ends(t)
    BY <1>2, <1>5
    DEF Ends, Supports, Tries, Tells, Trying, Removing
  <2> QED
    BY <1>5, <2>1, <2>2, <2>3 DEF Keeping
<1>6. ASSUME NEW pc, Go(t, pc), pc \in Removing, Writing(t),
             task[t].pc \in Removing \ {"after_removal"}
      PROVE  Keeping(t) /\ FitsRequest(t)'
  <2>1. task'[t].pc = pc /\ task'[t].request = r /\ task'[t].says = task[t].says
    BY <1>6, Goes
  <2> QED
    BY <1>4, <1>6, <2>1
<1>7. CASE Latest(t)
  <2>1. task[t].pc = "latest" /\ Writing(t)
    BY <1>7, WritesNothing DEF Latest, At, rows
  <2>2. ASSUME NEW b, task' = [task EXCEPT ![t].pc = "detach", ![t].attempt = b]
        PROVE  Keeping(t) /\ FitsRequest(t)'
    <3>1. task'[t].pc = "detach" /\ task'[t].request = r /\ task'[t].says = task[t].says
      BY <1>1, <2>2 DEF TaskState
    <3> QED
      BY <1>4, <2>1, <3>1 DEF Removing
  <2>3. CASE AfterRemoval(t, FALSE)
    BY <1>5, <1>6, <2>1, <2>3 DEF AfterRemoval, Removing
  <2> QED
    BY <1>7, <2>2, <2>3 DEF Latest
<1>8. CASE Detach(t)
  BY <1>6, <1>8, WritesNothing DEF Detach, At, rows, Removing
<1>9. CASE DetachRefused(t)
  BY <1>5, <1>6, <1>9, WritesNothing DEF DetachRefused, At, rows, Removing
<1>10. CASE FailInFlight(t)
  <2>1. task[t].pc = "fail_in_flight" /\ UNCHANGED request
    BY <1>10 DEF FailInFlight, At
  <2>2. Inserted(a) /\ RequestOf(t) = r
    BY <1>1, <2>1 DEF Knows
  <2>3. \A b \in Attempts :
          \/ attempt'[b].status = attempt[b].status
          \/ b = a /\ attempt[a].status \in InFlight /\ attempt'[b].status = "failed"
    BY <1>1, <1>10 DEF FailInFlight, RowsOK, AttemptRow
  <2>4. \A b \in Attempts, q \in Requests :
          Carries(b, q) /\ attempt'[b].status \notin InFlight =>
            q = r /\ attempt[a].status \in InFlight
    BY <2>2, <2>3 DEF Carries, RequestOf
  <2>5. Stands /\ Asserts(t) /\ Unclaims(t) /\ Records(t)
    BY <2>1, <2>3 DEF Stands, Asserts, Unclaims, Records
  <2>6. task[t].says \in {"cancel", "fulfil", "remove"}
    BY <1>1, <2>1 DEF Role, Removing
  <2>7. CASE Go(t, "after_removal")
    <3>1. task'[t].pc = "after_removal" /\ task'[t].request = r
      BY <2>7, Goes
    <3>2. \A q \in Requests : q = r => Tells(t, q)'
      BY <3>1 DEF Tells
    <3>3. Drops(t)
      BY <2>1, <2>4, <3>2 DEF Drops
    <3> QED
      BY <1>6, <2>1, <2>5, <2>7, <3>3 DEF Writing, Removing
  <2>8. CASE Return(t) /\ (task[t].says = "cancel" \/ attempt[a].status \notin InFlight)
    <3>1. task[t].says = "cancel" => Settled(r)
      BY <1>1, <2>1 DEF FitsRequest, Removing
    <3>2. Drops(t)
      BY <2>1, <2>4, <2>8, <3>1 DEF Drops
    <3> QED
      BY <1>5, <2>1, <2>5, <2>8, <3>2 DEF Writing
  <2> QED
    BY <1>10, <2>6, <2>7, <2>8 DEF FailInFlight, AfterRemoval
<1>11. ~SettleStopped(t)
  BY <1>1 DEF SettleStopped, Settle, At, Role, Removing
<1>12. CASE SettleRemoved(t)
  <2>1. /\ task[t].pc = "after_removal" /\ task[t].says = "remove"
        /\ UpdateRequestIf(r, WorkerWritable, "failed") /\ UNCHANGED attempt /\ Return(t)
    BY <1>12 DEF SettleRemoved, Settle, At
  <2>2. ~NoAttemptOf(r)
    BY <1>1, <2>1 DEF Knows
  <2>3. /\ Sets(r, "failed")
        /\ request[r].status \notin WorkerWritable => request'[r].status = request[r].status
        /\ request[r].status \in WorkerWritable => request'[r].status = "failed"
    BY <1>3, <2>1, UpdateSets
  <2>4. Writing(t)
    BY <2>1, <2>2, <2>3, SetsWrites DEF Live, ActiveTransfer
  <2>5. request'[r].status \notin Live
    BY <2>3 DEF WorkerWritable, ActiveRequest, Live, ActiveTransfer
  <2> QED
    BY <1>5, <2>1, <2>4, <2>5
<1>13. CASE SettleFulfilled(t)
  <2>1. task[t].pc = "after_removal" /\ UNCHANGED attempt
    BY <1>13 DEF SettleFulfilled, At
  <2>2. CASE UNCHANGED request /\ Return(t) /\ request[r].status \notin Fulfillable
    <3>1. request'[r].status \notin Live
      BY <2>2 DEF Fulfillable, WorkerWritable, ActiveRequest, Live, ActiveTransfer
    <3> QED
      BY <1>5, <2>1, <2>2, <3>1, WritesNothing
  <2>3. CASE /\ request' = [request EXCEPT ![r].status = "available", ![r].dock = task[t].dock]
             /\ Go(t, "fulfil_attempts")
    <3>1. task'[t].pc = "fulfil_attempts" /\ task'[t].request = r
      BY <2>3, Goes
    <3>2. Sets(r, "available") /\ request'[r].status = "available"
      BY <1>1, <1>3, <2>3 DEF Sets, RowsOK, RequestRow
    <3>3. Writing(t)
      BY <2>1, <3>2, SetsWrites DEF Live, ActiveTransfer, Decided
    <3>4. FitsRequest(t)'
      BY <1>3, <3>1, <3>2
      DEF FitsRequest, Settled, Decided, Submitting, Away, Later, Importing, Filing, Moved,
          Removing
    <3>5. Reaches(t) /\ Ends(t)
      BY <2>1, <3>1, <3>2
      DEF Reaches, Ends, Supports, Tries, Tells, Trying, Live, ActiveTransfer
    <3> QED
      BY <3>3, <3>4, <3>5 DEF Keeping
  <2> QED
    BY <1>13, <2>2, <2>3 DEF SettleFulfilled
<1>14. CASE FailInFlightForRequest(t)
  <2>1. task[t].pc = "fulfil_attempts" /\ UNCHANGED request /\ Return(t)
    BY <1>14 DEF FailInFlightForRequest, At
  <2>2. Settled(r)
    BY <1>1, <2>1 DEF FitsRequest
  <2>3. \A b \in Attempts :
          \/ attempt'[b] = attempt[b]
          \/ attempt[b].request = r /\ attempt'[b].status = "failed"
    BY <1>1, <1>14 DEF FailInFlightForRequest, RowsOK, AttemptRow
  <2>4. Stands /\ Asserts(t) /\ Unclaims(t) /\ Records(t) /\ Drops(t)
    BY <2>1, <2>2, <2>3 DEF Stands, Asserts, Unclaims, Records, Drops, Carries
  <2> QED
    BY <1>5, <2>1, <2>4 DEF Writing
<1> QED
  BY <1>7, <1>8, <1>9, <1>10, <1>11, <1>12, <1>13, <1>14 DEF RemovalStep

\* Who begins something has written nothing, except who cancels.
LEMMA StartKeeps ==
  ASSUME Undisturbed, Base, TendInv, Promised, Stands, NEW t \in Tasks, Start(t)
  PROVE  Keeping(t) /\ FitsRequest(t)'
<1>1. RowsOK /\ task \in [Tasks -> TaskState]
  BY DEF Base, Inv, TasksOK
<1>2. task[t].pc \notin Trying \cup Telling
  <2>1. task[t] = Idle
    BY DEF Free, Start, GrabStart, GrabRead, PassStart, PassRead, AbandonRead, AdoptStart,
           AdoptRead, MonitorStart, PollRead, ResumeRead, WatchdogStart, WatchdogRead,
           ImportStart, ImportBegin, ChoiceStart, ChooseUnit, VerificationStart, RefetchStart,
           VerifyRead, ForceFileStart, FileHeld, DiscardStart, Discard, Cancel, MarkFulfilled,
           StopDownload, RemoveFromClient
  <2> QED
    BY <2>1 DEF Idle, Trying, Telling
<1>3. ASSUME task'[t].pc \in Aside, UNCHANGED rows PROVE Keeping(t) /\ FitsRequest(t)'
  BY <1>2, <1>3, WritesNothing, KeepsAside DEF rows
<1>4. ASSUME NEW r \in Requests, GrabRead(t, r) \/ AbandonRead(t, r)
      PROVE  Keeping(t) /\ FitsRequest(t)'
  <2>1. GrabRead(t, r) => task'[t].pc = "grab_claim"
    BY <1>1 DEF GrabRead, TaskState
  <2>2. AbandonRead(t, r) => task'[t].pc = "abandon"
    BY <1>1 DEF AbandonRead, TaskState
  <2>3. UNCHANGED rows
    BY <1>4 DEF GrabRead, AbandonRead
  <2> QED
    BY <1>3, <1>4, <2>1, <2>2, <2>3 DEF Aside
<1>5. CASE \E a \in Attempts : ImportBegin(t, a)
  <2>1. task'[t].pc \in {"import_extract", "import_done"} /\ UNCHANGED rows
    BY <1>1, <1>5 DEF ImportBegin, TaskState
  <2> QED
    BY <1>3, <2>1 DEF Aside
<1>6. CASE DiscardStart(t)
  <2>1. task'[t].pc = "discard_request" /\ UNCHANGED rows
    BY <1>1, <1>6 DEF DiscardStart, Discard, TaskState
  <2> QED
    BY <1>3, <2>1 DEF Aside
<1>7. ASSUME NEW f \in DockFiles, NEW a \in Attempts, VerifyRead(t, f, a)
      PROVE  Keeping(t) /\ FitsRequest(t)'
  <2>1. /\ attempt[a].status = "importing" /\ UNCHANGED <<request, attempt>>
        /\ task'[t].pc = "verify" /\ task'[t].attempt = a
    BY <1>1, <1>7 DEF VerifyRead, TaskState, rows
  <2>2. request'[RequestOf(t)'].status \notin ActiveTransfer
    BY <2>1 DEF Promised, ImportsAreNoTransfers, RequestOf
  <2>3. FitsRequest(t)'
    BY <2>1, <2>2 DEF FitsRequest, Submitting, Away, Removing
  <2> QED
    BY <1>2, <2>1, <2>3, WritesNothing, KeepsElsewhere DEF Keeping, Trying
\* A person who wants the download gone knows the request.
<1>8. ASSUME NEW pc \in {"latest", "detach"}, NEW r \in Requests,
             NEW says \in {"cancel", "fulfil", "remove"}, Writing(t),
             task'[t].pc = pc, task'[t].request = r, task'[t].says = says,
             says = "cancel" => request'[r].status \in Decided
      PROVE  Keeping(t) /\ FitsRequest(t)'
  <2>1. task'[t].pc = pc /\ task'[t].request = r /\ task'[t].says = says
    BY <1>8
  <2>2. task'[t].pc \notin Submitting \cup Away \cup Later \cup Trying \cup
                           {"grab_rollback", "fulfil_attempts"}
    BY <2>1 DEF Submitting, Away, Later, Importing, Filing, Moved, Trying
  <2>3. FitsRequest(t)'
    BY <1>8, <2>1, <2>2 DEF FitsRequest, Settled
  <2> QED
    BY <1>2, <1>8, <2>2, <2>3, KeepsElsewhere DEF Keeping
<1>9. ASSUME NEW r \in Requests, Cancel(t, r) PROVE Keeping(t) /\ FitsRequest(t)'
  <2>1. Sets(r, "cancelled") /\ request'[r].status = "cancelled" /\ UNCHANGED attempt
    BY <1>1, <1>9 DEF Cancel, Sets, RowsOK, RequestRow
  <2>2. Writing(t)
    BY <2>1, SetsWrites DEF Live, ActiveTransfer, Decided
  <2>3. task'[t].pc = "latest" /\ task'[t].request = r /\ task'[t].says = "cancel"
    BY <1>1, <1>9 DEF Cancel, Begin, TaskState
  <2> QED
    BY <1>8, <2>1, <2>2, <2>3 DEF Decided
<1>10. ASSUME NEW r \in Requests, MarkFulfilled(t, r) PROVE Keeping(t) /\ FitsRequest(t)'
  <2>1. task'[t].pc = "latest" /\ task'[t].request = r /\ task'[t].says = "fulfil"
    BY <1>1, <1>10, FulfilBegins
  <2>2. Writing(t)
    BY <1>2, <1>10, WritesNothing DEF MarkFulfilled, rows
  <2> QED
    BY <1>8, <2>1, <2>2
<1>11. ASSUME NEW a \in Attempts, RemoveFromClient(t, a) PROVE Keeping(t) /\ FitsRequest(t)'
  <2>1. attempt[a].request \in Requests
    BY <1>11 DEF RemoveFromClient, Base, KnownRequests
  <2>2. /\ task'[t].pc = "detach" /\ task'[t].request = attempt[a].request
        /\ task'[t].says = "remove"
    BY <1>1, <1>11 DEF RemoveFromClient, Begin, TaskState
  <2>3. Writing(t)
    BY <1>2, <1>11, WritesNothing DEF RemoveFromClient, rows
  <2> QED
    BY <1>8, <2>1, <2>2, <2>3
<1>12. ASSUME NEW a \in Attempts, ResumeRead(t, a) PROVE Keeping(t) /\ FitsRequest(t)'
  <2>1. task'[t].pc = "resume" /\ UNCHANGED rows
    BY <1>1, <1>12 DEF ResumeRead, TaskState
  <2> QED
    BY <1>3, <2>1 DEF Aside
<1>13. ASSUME NEW a \in Attempts, PollRead(t, a) PROVE Keeping(t) /\ FitsRequest(t)'
  <2>1. PICK says \in Answers(attempt[a].release) :
          task' = [task EXCEPT ![t].pc = IF says = "failing" THEN "fail_attempt" ELSE "poll_apply",
                               ![t].attempt = a,
                               ![t].was = attempt[a].status,
                               ![t].says = says]
    BY <1>13 DEF PollRead
  <2>2. task'[t].pc \in {"fail_attempt", "poll_apply"} /\ UNCHANGED rows
    BY <1>1, <1>13, <2>1 DEF PollRead, TaskState
  <2> QED
    BY <1>3, <2>2 DEF Aside
<1>14. ASSUME NEW r \in Requests, NEW trigger, PassRead(t, r, trigger)
       PROVE  Keeping(t) /\ FitsRequest(t)'
  <2>1. task'[t].pc = "auto_claim" /\ UNCHANGED rows
    BY <1>1, <1>14 DEF PassRead, TaskState
  <2> QED
    BY <1>3, <2>1 DEF Aside
<1> QED
  BY <1>4, <1>5, <1>6, <1>7, <1>9, <1>10, <1>11, <1>12, <1>13, <1>14
  DEF Start, On, Undisturbed, Disturbing, GrabStart, PassStart, MonitorStart, ImportStart,
      VerificationStart

\* What happens besides decides about requests nobody has grabbed for.
LEMMA EnvironmentKeeps ==
  ASSUME Undisturbed, Base, TendInv, Promised, Stands, NEW t \in ImportWorkers, t \in Tasks,
         Environment \/ UNCHANGED vars
  PROVE  Keeping(t) /\ FitsRequest(t)'
<1>1. RowsOK /\ FitsRequest(t) /\ task[t].pc \in WorkerAt
  BY DEF Base, Inv, Promised, WorkersImport, WorkersApart
<1>2. UNCHANGED <<attempt, task>>
  BY DEF Undisturbed, Disturbing, Environment, On, ReleaseSearch, Approve, Reject, Decide,
         ClientProgress, ClientFailure, ClientCompletes, ClientErrors, ClientForgets, Advance,
         Shutdown, rows, vars
<1>3. \/ UNCHANGED request
      \/ \E r \in Requests, s \in {"approved", "rejected"} :
           UpdateRequestIf(r, {"pending", "searching"}, s)
  BY DEF Undisturbed, Disturbing, Environment, On, ReleaseSearch, Approve, Reject, Decide,
         ClientProgress, ClientFailure, ClientCompletes, ClientErrors, ClientForgets, Advance,
         Shutdown, rows, vars, UpdateRequestIf
<1>4. /\ Writing(t)
      /\ \A q \in Requests :
           request'[q].status = request[q].status \/ request'[q].status \notin Live
  <2>1. CASE UNCHANGED request
    BY <1>2, <2>1, WritesNothing
  <2>2. ASSUME NEW r \in Requests, NEW s \in {"approved", "rejected"},
               UpdateRequestIf(r, {"pending", "searching"}, s)
        PROVE  /\ Writing(t)
               /\ \A q \in Requests :
                    request'[q].status = request[q].status \/ request'[q].status \notin Live
    <3>1. s \notin Live
      BY DEF Live, ActiveTransfer
    <3> QED
      BY <1>2, <2>2, <3>1, UpdateWrites, UpdateSets DEF Sets
  <2> QED
    BY <1>3, <2>1, <2>2
<1>5. task[t].pc \notin Trying \cup Submitting \cup Removing \cup
                        {"grab_rollback", "fulfil_attempts", "after_removal"}
  BY <1>1 DEF WorkerAt, Importing, Trying, Submitting, Removing
<1>6. Reaches(t) /\ Ends(t)
  <2>1. Reaches(t)
    BY <1>2, <1>5 DEF Reaches
  <2>2. \A q : Tells(t, q) => Tells(t, q)'
    BY <1>2 DEF Tells, RequestOf
  <2> QED
    BY <1>5, <2>1, <2>2 DEF Ends, Supports, Supported, Tries
<1>7. RequestOf(t)' = RequestOf(t)
  BY <1>2 DEF RequestOf
<1>8. task[t].pc \in Away \cup Later => RequestOf(t) \in Requests
  <2>1. Away \cup Later \subseteq Tending
    BY DEF Away, Later, Importing, Filing, Moved, Tending
  <2> QED
    BY <2>1, TendedRequests
<1>9. FitsRequest(t)'
  BY <1>1, <1>2, <1>4, <1>5, <1>7, <1>8 DEF FitsRequest, Live
<1> QED
  BY <1>4, <1>6, <1>9 DEF Keeping

\* Every step of an activation keeps the requests supported.
LEMMA StepKeeps ==
  ASSUME Undisturbed, Base, TendInv, TendInv', Promised, Stands, FirstTries, NEW t \in Tasks,
         Step(t)
  PROVE  Keeping(t) /\ FitsRequest(t)'
<1>1. ~Adopt(t)
  BY DEF Adopt, At, TendInv, Fits, Role
<1> QED
  BY <1>1, GrabKeeps, AutomationKeeps, MonitorKeeps, ImportKeeps, VerificationKeeps, RemovalKeeps,
     OutcomeKeeps
  DEF Step, On, Undisturbed, Disturbing

-------------------------------------------------------------------------------
(***************************************************************************)
(* No request is left behind.                                              *)
(***************************************************************************)
Kept == Base /\ TendInv /\ Promised

LEMMA NextIsKept ==
  ASSUME Undisturbed, Kept, FirstTries, FirstTries', Inv', [Next]_vars
  PROVE  Kept'
<1>1. Base /\ TendInv /\ Promised /\ Stands
  BY DecidedStays DEF Kept, Base
<1>2. Base'
  <2>1. "choose" \notin Operations
    BY DEF Undisturbed, Disturbing
  <2> QED
    BY <1>1, <2>1, NextKeepsFiles, NextKeepsWorkersImport, NextKnows DEF Base
<1>3. ASSUME NEW t \in Tasks, Behaves(t), Fits(t)',
             TendInv' => Keeping(t) /\ FitsRequest(t)'
      PROVE  TendInv' /\ Promised'
  BY <1>1, <1>3, Tended, Promises
<1>4. ASSUME NEW t \in Tasks, Start(t) \/ Step(t) PROVE TendInv' /\ Promised'
  BY <1>1, <1>3, <1>4, StartBehaves, StepBehaves, StartKeeps, StepKeeps
<1>5. ASSUME Environment \/ UNCHANGED vars PROVE TendInv' /\ Promised'
  <2>1. PICK t \in ImportWorkers : TRUE
    BY TasksAssumption
  <2>2. t \in Tasks /\ Behaves(t) /\ Fits(t)'
    BY <1>1, <1>5, EnvironmentBehaves
  <2>3. Keeping(t) /\ FitsRequest(t)'
    BY <1>1, <1>5, <2>2, EnvironmentKeeps
  <2> QED
    BY <1>3, <2>2, <2>3
<1>6. TendInv' /\ Promised'
  BY <1>4, <1>5 DEF Next
<1> QED
  BY <1>2, <1>6 DEF Kept

\* At first no request needs a worker, and nobody is anywhere.
LEMMA InitIsKept ==
  ASSUME Init, Inv
  PROVE  Kept
<1>1. Base /\ TendInv
  BY InitFiles, InitWorkersImport, InitKnows, InitTends DEF Base
<1>2. /\ \A t \in Tasks : task[t].pc = "idle"
      /\ \A r \in Requests : request[r].status \notin Live
      /\ \A a \in Attempts : attempt[a].status = "absent"
  BY DEF Init, Idle, AbsentAttempt, Live, ActiveTransfer
<1>3. LiveIsSupported /\ OneTries /\ TryingIsShown /\ ImportsAreNoTransfers
  BY <1>2 DEF LiveIsSupported, OneTries, TryingIsShown, ImportsAreNoTransfers, Trying
<1>4. \A t \in Tasks : FitsRequest(t)
  BY <1>2 DEF FitsRequest, Submitting, Away, Later, Importing, Filing, Moved, Removing
<1> QED
  BY <1>1, <1>3, <1>4 DEF Kept, Promised

\* When nobody is about to tell a request anything, its download is there.
LEMMA KeptIsNotStranded ==
  ASSUME Kept, FirstTries
  PROVE  NoRequestIsStranded
<1> SUFFICES ASSUME Quiet, NEW r \in Requests
             PROVE  /\ request[r].status \in Live => \E a \in Attempts : Carries(a, r)
                    /\ request[r].status = "needs_review" =>
                         \E a \in Attempts : IsLatest(a, r) /\ attempt[a].status = "needs_review"
  BY DEF NoRequestIsStranded, Live
<1>1. ASSUME request[r].status \in Live PROVE \E a \in Attempts : Carries(a, r)
  <2>1. Supported(r)
    BY <1>1 DEF Kept, Promised, LiveIsSupported
  <2>2. \A t \in Tasks : task[t].pc = "idle"
    BY DEF Quiet, Idle
  <2> QED
    BY <2>1, <2>2 DEF Supported, Supports, Tries, Tells, Trying
<1>2. ASSUME request[r].status = "needs_review"
      PROVE  \E a \in Attempts : IsLatest(a, r) /\ attempt[a].status = "needs_review"
  <2>1. PICK a \in Attempts : attempt[a].request = r /\ attempt[a].status = "needs_review"
    BY <1>2 DEF Kept, TendInv, HeldIsUntended
  <2>2. \A b \in Attempts : Created(b) /\ attempt[b].request = r => b = a
    BY <2>1, OneDownload DEF Inserted, Created
  <2>3. a <= a
    BY BoundsAssumption DEF Attempts
  <2> QED
    BY <2>1, <2>2, <2>3 DEF IsLatest, Created
<1> QED
  BY <1>1, <1>2

\* Where no release and no request is tried twice, no download is failed or revived under
\* the activation that tends it, and the process stays up, a request that needs a worker has
\* a download in flight once every activation has returned, and one that is held has the
\* download a person decides about.
THEOREM RequestsAreNotStranded ==
  ASSUME Undisturbed
  PROVE  Spec /\ []FirstTries => []NoRequestIsStranded
<1>1. Kept /\ FirstTries => NoRequestIsStranded
  BY KeptIsNotStranded
<1>2. Kept /\ FirstTries /\ FirstTries' /\ Inv' /\ [Next]_vars => Kept'
  BY NextIsKept
<1>3. Init /\ Inv => Kept
  BY InitIsKept
<1> QED
  BY <1>1, <1>2, <1>3, InvHolds, PTL DEF Spec

-------------------------------------------------------------------------------
(***************************************************************************)
(* With one attempt ever nothing is tried twice.                           *)
(***************************************************************************)
\* Who may still insert an attempt, as in Reserved.
Holding == {"auto_grab", "grab_claim", "grab_resolve", "grab_create"}

Lone ==
  /\ \A t, u \in Tasks : task[t].pc \in Holding /\ task[u].pc \in Holding => t = u
  /\ \A t \in Tasks : task[t].pc \in Holding => \A a \in Attempts : ~Created(a)

\* Room for the attempt is room for it alone.
LEMMA RoomForOne ==
  ASSUME MaxAttempts = 1, Lone, WorkersApart, RoomForAttempt
  PROVE  /\ \A a \in Attempts : ~Created(a)
         /\ \A t \in Tasks : task[t].pc \notin Holding
<1> DEFINE rowsMade == {a \in Attempts : Created(a)}
           holders == {t \in Handlers : task[t].pc \in Holding}
<1>1. IsFiniteSet(rowsMade)
  <2>1. IsFiniteSet({1})
    BY FS_Singleton
  <2>2. rowsMade \subseteq {1}
    BY DEF Attempts
  <2> QED
    BY <2>1, <2>2, FS_Subset
<1>2. IsFiniteSet(holders)
  <2>1. CASE holders = {}
    BY <2>1, FS_EmptySet
  <2>2. ASSUME NEW t \in holders PROVE IsFiniteSet(holders)
    <3>1. holders = {t}
      BY <2>2 DEF Lone, Tasks
    <3> QED
      BY <3>1, FS_Singleton
  <2> QED
    BY <2>1, <2>2
<1>3. Cardinality(rowsMade) + Cardinality(holders) < 1
  BY DEF RoomForAttempt, Reserved, Holding
<1>4. Cardinality(rowsMade) \in Nat /\ Cardinality(holders) \in Nat
  BY <1>1, <1>2, FS_CardinalityType
<1>5. Cardinality(rowsMade) = 0 /\ Cardinality(holders) = 0
  BY <1>3, <1>4
<1>6. rowsMade = {} /\ holders = {}
  BY <1>1, <1>2, <1>5, FS_EmptySet
<1>7. \A w \in ImportWorkers : task[w].pc \notin Holding
  BY DEF WorkersApart, WorkerAt, Importing, Holding
<1> QED
  BY <1>6, <1>7 DEF Tasks

\* One that reserves a row did so before, or found room for it; one that inserts a row is
\* no longer to insert any.
Reserves(t) ==
  /\ task'[t].pc \in Holding => NoneComes /\ (task[t].pc \in Holding \/ RoomForAttempt)
  /\ NoneComes \/ task[t].pc \in Holding

\* Such a step leaves it at one.
LEMMA ReservesOne ==
  ASSUME MaxAttempts = 1, Lone, WorkersApart, NEW t \in Tasks,
         \A u \in Tasks \ {t} : task'[u] = task[u], Reserves(t)
  PROVE  Lone'
<1>1. NoneComes /\ (\A a \in Attempts : ~Created(a)) => \A a \in Attempts : ~Created(a)'
  BY DEF NoneComes
<1>2. CASE task'[t].pc \in Holding
  <2>1. /\ \A a \in Attempts : ~Created(a)
        /\ \A u \in Tasks \ {t} : task[u].pc \notin Holding
    BY <1>2, RoomForOne DEF Lone, Reserves
  <2> QED
    BY <1>1, <1>2, <2>1 DEF Lone, Reserves
<1>3. CASE task'[t].pc \notin Holding
  <2>1. \A u \in Tasks : task'[u].pc \in Holding => u # t /\ task[u].pc \in Holding
    BY <1>3
  <2>2. \A u \in Tasks : task'[u].pc \in Holding => NoneComes
    BY <2>1 DEF Lone, Reserves
  <2> QED
    BY <1>1, <2>1, <2>2 DEF Lone
<1> QED
  BY <1>2, <1>3

\* A grab is such,
LEMMA GrabReserves ==
  ASSUME Inv, FilesInv, NEW t \in Tasks, GrabStep(t) \/ GrabAddLost(t)
  PROVE  Reserves(t)
<1>1. RowsOK /\ task \in [Tasks -> TaskState]
  BY DEF Inv, TasksOK
<1>2. \A pc : Go(t, pc) => task'[t].pc = pc
  BY <1>1 DEF Go, TaskState
<1>3. Return(t) => task'[t].pc \notin Holding
  BY <1>1 DEF Return, Idle, TaskState, Holding
<1>4. UNCHANGED attempt => NoneComes
  BY <1>1, LeavesBringNone
<1>5. CASE GrabClaim(t) \/ GrabResolve(t)
  BY <1>4, <1>5 DEF GrabClaim, GrabResolve, At, Reserves, Holding, rows
<1>6. CASE GrabRefused(t)
  BY <1>2, <1>6 DEF GrabRefused, At, Reserves, Holding
<1>7. ASSUME NEW h \in Releases, GrabCreate(t, h) PROVE Reserves(t)
  <2>1. ASSUME NEW a \in Attempts, task' = [task EXCEPT ![t].pc = "grab_add", ![t].attempt = a]
        PROVE  task'[t].pc = "grab_add"
    BY <1>1, <2>1 DEF TaskState
  <2> QED
    BY <1>2, <1>7, <2>1 DEF GrabCreate, At, Reserves, Holding
<1>8. CASE GrabAdd(t) \/ GrabAddRefused(t) \/ GrabConfirm(t) \/ GrabAddLost(t)
  BY <1>2, <1>3, <1>4, <1>8
  DEF GrabAdd, GrabAddRefused, GrabConfirm, GrabAddLost, At, Reserves, Holding, rows
<1>9. CASE GrabFailed(t)
  <2>1. Created(task[t].attempt)
    BY <1>9 DEF GrabFailed, At, FilesInv, Brings, Carrying, Adding, Inserted
  <2>2. NoneComes
    BY <1>1, <1>9, <2>1, WritesBringNone DEF GrabFailed
  <2> QED
    BY <1>2, <1>9, <2>2 DEF GrabFailed, Reserves, Holding
<1>10. CASE GrabRollback(t)
  BY <1>2, <1>3, <1>4, <1>10 DEF GrabRollback, Reserves, Holding
<1> QED
  BY <1>5, <1>6, <1>7, <1>8, <1>9, <1>10 DEF GrabStep

\* and so is a pass;
LEMMA AutomationReserves ==
  ASSUME Inv, NEW t \in Tasks, AutomationStep(t)
  PROVE  Reserves(t)
<1>1. RowsOK /\ task \in [Tasks -> TaskState]
  BY DEF Inv, TasksOK
<1>2. NoneComes
  BY <1>1, LeavesBringNone
  DEF AutomationStep, PassClaim, PassDeclines, SearchFindsNothing, SearchFinds, PassGrabs,
      PassFails, Abandon, rows
<1>3. Return(t) \/ Go(t, "auto_search") => task'[t].pc \notin Holding
  BY <1>1 DEF Go, Return, Idle, TaskState, Holding
<1> QED
  BY <1>2, <1>3
  DEF AutomationStep, PassClaim, PassDeclines, SearchFindsNothing, SearchFinds, PassGrabs,
      PassFails, Abandon, HandBack, At, Reserves, Holding

\* nobody else is where a row is reserved.
LEMMA OthersReserve ==
  ASSUME Inv, FilesInv, NEW t \in Tasks, Step(t), ~GrabStep(t), ~GrabAddLost(t),
         ~AutomationStep(t)
  PROVE  Reserves(t)
<1>1. NoneComes /\ SeeksOn(t)
  BY OthersKnow
<1>2. task[t].pc \notin Seeking
  <2>1. CASE Adopt(t) \/ MonitorStep(t)
    BY <2>1
    DEF Adopt, MonitorStep, PollApply, PollRequest, ResumeEnqueue, At, Seeking, Grabbing, Searching
  <2>2. CASE FailAttempt(t) \/ FailRequest(t) \/ HoldAttempt(t) \/ HoldRequest(t)
    BY <2>2
    DEF FailAttempt, FailRequest, HoldAttempt, HoldRequest, At, Seeking, Grabbing, Searching
  <2>3. CASE ImportStep(t) \/ ImportPlaceCollides(t)
    BY <2>3
    DEF ImportStep, ImportDone, ChooseClaim, ImportError, ImportHold, ImportClaimDock,
        ImportClaim, ImportUndo, ImportRefused, ImportRecord, ImportPlace, ImportPlaceThrows,
        ImportPlaceCollides, ImportPlaceFails, ImportReclaimDock, ImportReclaim, ImportRerecord,
        ClaimDestination, At, Seeking, Grabbing, Searching
  <2>4. CASE VerificationStep(t)
    BY <2>4
    DEF VerificationStep, VerifyPasses, VerifyHolds, VerifyFindsNoRow, FileRead, FileMove,
        FileMoveFails, FileRequest, FileAttempt, DiscardRequest, DiscardAttempt, DiscardDock,
        DiscardDockFails, DiscardUndoAttempt, DiscardUndoRequest, At, Seeking, Grabbing, Searching
  <2>5. CASE RemovalStep(t) \/ SettleRefused(t)
    BY <2>5
    DEF RemovalStep, Latest, Detach, DetachRefused, FailInFlight, SettleStopped, SettleRemoved,
        SettleFulfilled, SettleRefused, Settle, FailInFlightForRequest, At, Seeking, Grabbing,
        Searching
  <2> QED
    BY <2>1, <2>2, <2>3, <2>4, <2>5 DEF Step
<1>3. Holding \subseteq Seeking
  BY DEF Holding, Seeking, Grabbing, Searching
<1> QED
  BY <1>1, <1>2, <1>3 DEF SeeksOn, Reserves

\* So there is one, and it is reserved once.
LEMMA NextIsLone ==
  ASSUME MaxAttempts = 1, Inv, FilesInv, WorkersApart, Lone, [Next]_vars
  PROVE  Lone'
<1>1. ASSUME NEW t \in Tasks, Step(t) PROVE Lone'
  <2>1. \A u \in Tasks \ {t} : task'[u] = task[u]
    BY <1>1, StepMoves DEF Moves, Acquires
  <2> QED
    BY <1>1, <2>1, GrabReserves, AutomationReserves, OthersReserve, ReservesOne
<1>2. ASSUME NEW t \in Tasks, Start(t) PROVE Lone'
  <2>1. Alone(t) /\ NoneComes
    BY <1>2, StartTakes, LeavesBringNone DEF Alone, Inv
  <2>2. task'[t].pc \in Holding => RoomForAttempt
    <3> SUFFICES ASSUME task'[t].pc \in Holding PROVE RoomForAttempt
      OBVIOUS
    <3>1. PICK r \in Requests :
            GrabRead(t, r) \/ \E trigger \in {"unattended", "retry"} : PassRead(t, r, trigger)
      BY <1>2, StartSeeks DEF Inv, Holding, Seeking, Grabbing, Searching
    <3>2. ASSUME NEW trigger, PassRead(t, r, trigger) PROVE FALSE
      BY <3>2 DEF PassRead, Inv, TasksOK, TaskState, Holding
    <3> QED
      BY <3>1, <3>2 DEF GrabRead
  <2> QED
    BY <2>1, <2>2, ReservesOne DEF Alone, Reserves
<1>3. ASSUME Environment \/ UNCHANGED vars PROVE Lone'
  <2>1. UNCHANGED attempt \/ \E f, state : DeleteDockRow(f, state)
    BY <1>3
    DEF Environment, ReleaseSearch, Approve, Reject, Decide, DiscardDockFile, ClientProgress,
        ClientFailure, ClientCompletes, ClientErrors, ClientForgets, Advance, Restart, Shutdown,
        vars, rows
  <2>2. NoneComes
    BY <2>1, LeavesBringNone DEF Inv
  <2>3. \A t \in Tasks : task'[t] = task[t] \/ task'[t].pc = "idle"
    BY <1>3, EnvironmentMovesNobody DEF Idle
  <2> QED
    BY <2>2, <2>3 DEF Lone, NoneComes, Holding
<1> QED
  BY <1>1, <1>2, <1>3 DEF Next

\* Where there is one attempt it is the first for its request and for its release.
LEMMA OneAttemptIsFirst ==
  ASSUME MaxAttempts = 1
  PROVE  Spec => []FirstTries
<1>1. Init => Lone
  BY DEF Init, Lone, Holding, Idle
<1>2. Inv /\ FilesInv /\ WorkersApart /\ Lone /\ [Next]_vars => WorkersApart' /\ Lone'
  BY NextIsLone, NextKeepsWorkers
<1>3. Lone => FirstTries
  <2>1. \A a, b \in Attempts : a = b
    BY DEF Attempts
  <2> QED
    BY <2>1 DEF Lone, FirstTries, NoAttemptOf, Holding
<1> QED
  BY <1>1, <1>2, <1>3, InitWorkers, InvHolds, FilesStayLinked, PTL DEF Spec

\* So with one attempt nothing has to be assumed of what is tried.
THEOREM LoneRequestsAreNotStranded ==
  ASSUME Undisturbed, MaxAttempts = 1
  PROVE  Spec => []NoRequestIsStranded
  BY OneAttemptIsFirst, RequestsAreNotStranded, PTL
===============================================================================
