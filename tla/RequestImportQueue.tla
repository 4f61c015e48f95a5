-------------------------- MODULE RequestImportQueue --------------------------
(***************************************************************************)
(* The in-process queue that runs imports off whatever noticed a download  *)
(* had finished: class RequestImportQueue.  A handler activation begins    *)
(* the moment its download enters "running" and ends with Finish, which    *)
(* stands for the promise settling, with or without an error.             *)
(***************************************************************************)
EXTENDS Integers, FiniteSets, Sequences, SequencesExt

CONSTANTS
  Downloads,     \* the download ids that may be offered
  Concurrency    \* IMPORT_CONCURRENCY, one in the program

ASSUME ConcurrencyAssumption == Concurrency \in Nat \ {0}

VARIABLES
  pending,       \* ids waiting, oldest first
  queued,        \* the ids in pending, kept apart for the duplicate test
  running,       \* ids whose handler has begun and not settled
  stopped        \* stop() has been called

vars == <<pending, queued, running, stopped>>

Init ==
  /\ pending = <<>>
  /\ queued = {}
  /\ running = {}
  /\ stopped = FALSE

Waiting == ToSet(pending)

\* Everything the heartbeat touches: members().
Members == Waiting \cup running

(***************************************************************************)
(* drain(): moves the oldest waiting ids to running while there is room.   *)
(* n is how many it moves out of "waiting" when "started" already run.     *)
(***************************************************************************)
Room(started) == IF started < Concurrency THEN Concurrency - started ELSE 0

\* Mutant: one slot too many.
MovedOneMore(waiting, started) ==
  IF Len(waiting) <= Room(started) THEN Len(waiting) ELSE Room(started) + 1

Moved(waiting, started) ==
  IF Len(waiting) < Room(started) THEN Len(waiting) ELSE Room(started)

\* Mutant: nobody asks whether the list is empty, and shift() gives undefined.
DrainUnchecked(waiting, started) ==
  LET n == IF stopped THEN 0 ELSE Room(Cardinality(started))
  IN  /\ pending' = SubSeq(waiting, n + 1, Len(waiting))
      /\ running' = started \cup
           {IF i \in DOMAIN waiting THEN waiting[i] ELSE "undefined" : i \in 1 .. n}

\* Mutant: pop() in the place of shift().
DrainNewest(waiting, started) ==
  LET n == IF stopped THEN 0 ELSE Moved(waiting, Cardinality(started))
      left == Len(waiting) - n
  IN  /\ pending' = SubSeq(waiting, 1, left)
      /\ running' = started \cup {waiting[i] : i \in left + 1 .. Len(waiting)}

Drain(waiting, started) ==
  LET n == IF stopped THEN 0 ELSE Moved(waiting, Cardinality(started))
  IN  /\ pending' = SubSeq(waiting, n + 1, Len(waiting))
      /\ running' = started \cup {waiting[i] : i \in 1 .. n}

\* Mutant: only what runs counts as a duplicate.
HeldRunning(d) == d \in running

Held(d) == d \in queued \/ d \in running

\* enqueue() that took the id, and drained.
Accept(d) ==
  /\ ~stopped
  /\ ~Held(d)
  /\ Drain(Append(pending, d), running)
  /\ queued' = (queued \cup {d}) \ (running' \ running)
  /\ UNCHANGED stopped

\* enqueue() that returned false.
Refuse(d) ==
  /\ stopped \/ Held(d)
  /\ UNCHANGED vars

Enqueue(d) == Accept(d) \/ Refuse(d)

\* Mutant: the settled handler does not drain.
FinishWithoutDrain(d) ==
  /\ d \in running
  /\ running' = running \ {d}
  /\ UNCHANGED <<pending, queued, stopped>>

\* The handler of d settled: the finally block, and the drain it calls.
Finish(d) ==
  /\ d \in running
  /\ Drain(pending, running \ {d})
  /\ queued' = queued \ (running' \ (running \ {d}))
  /\ UNCHANGED stopped

Stop ==
  /\ ~stopped
  /\ stopped' = TRUE
  /\ pending' = <<>>
  /\ queued' = {}
  /\ UNCHANGED running

\* The process died and came back: a fresh queue, and no handler left.
Reset ==
  /\ pending' = <<>>
  /\ queued' = {}
  /\ running' = {}
  /\ stopped' = FALSE

Next ==
  \/ \E d \in Downloads : Accept(d)
  \/ \E d \in Downloads : Refuse(d)
  \/ \E d \in running : Finish(d)
  \/ Stop
  \/ Reset

Spec == Init /\ [][Next]_vars

\* A handler is a promise of an import, which settles.
FairSpec == Spec /\ \A d \in Downloads : WF_vars(Finish(d))

-------------------------------------------------------------------------------
\* Every variable has its shape.
TypeOK ==
  /\ pending \in Seq(Downloads)
  /\ queued \subseteq Downloads
  /\ running \subseteq Downloads
  /\ stopped \in BOOLEAN

\* "queued" holds exactly the ids in "pending", each of which waits once and none
\* of which is running: the duplicate test of enqueue(), which looks at the two
\* sets and never at the list, can be believed.
Consistent ==
  /\ queued = Waiting
  /\ IsInjective(pending)
  /\ queued \cap running = {}

\* A slot is never left empty while a download waits, and no more than
\* Concurrency imports run: drain() is called at every point that could free a
\* slot or fill the list.
SlotsUsed ==
  /\ Cardinality(running) <= Concurrency
  /\ pending # <<>> => Cardinality(running) = Concurrency

\* A download that is still waiting was not overtaken: whatever starts in a step
\* had waited longer than everything the step leaves waiting.
OldestFirst ==
  [][\A i, j \in 1 .. Len(pending) :
       pending[i] \in running' \ running /\ j < i => pending[j] \notin Waiting']_vars

\* Every accepted download leaves the list: it starts, or the process gives the
\* list up.  With no bound on the arrivals this needs the order to be fair.
NoneWaitsForever == \A d \in Downloads : d \in queued ~> d \notin queued
===============================================================================
