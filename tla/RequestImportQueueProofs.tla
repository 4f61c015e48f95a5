------------------------ MODULE RequestImportQueueProofs ------------------------
(***************************************************************************)
(* The import queue keeps its two books consistent and its slots in use,   *)
(* for any number of downloads and any concurrency.                        *)
(***************************************************************************)
EXTENDS RequestImportQueue, FiniteSetTheorems, SequenceTheorems, TLAPS

\* SlotsUsed needs to know that a stopped queue has nothing waiting: drain()
\* does nothing once it is stopped.
QueueInv ==
  /\ TypeOK
  /\ Consistent
  /\ IsFiniteSet(running)
  /\ SlotsUsed
  /\ stopped => pending = <<>>

\* The first n of a list without repetitions are n elements.
LEMMA PrefixCardinality ==
  ASSUME NEW s \in Seq(Downloads), IsInjective(s), NEW n \in 0 .. Len(s)
  PROVE  /\ IsFiniteSet({s[i] : i \in 1 .. n})
         /\ Cardinality({s[i] : i \in 1 .. n}) = n
<1> DEFINE T == {s[i] : i \in 1 .. n}
           f == [i \in 1 .. n |-> s[i]]
<1>1. f \in Bijection(1 .. n, T)
  <2>1. f \in [1 .. n -> T]
    OBVIOUS
  <2>2. \A i, j \in 1 .. n : f[i] = f[j] => i = j
    BY DEF IsInjective
  <2>3. IsInjective(f)
    BY <2>1, <2>2 DEF IsInjective
  <2>4. \A x \in T : \E i \in 1 .. n : f[i] = x
    OBVIOUS
  <2> QED
    BY <2>1, <2>3, <2>4 DEF Bijection, Injection, Surjection
<1>2. IsFiniteSet(1 .. n) /\ Cardinality(1 .. n) = n
  BY FS_Interval
<1>3. ExistsBijection(1 .. n, T)
  BY <1>1 DEF ExistsBijection
<1> QED
  BY <1>2, <1>3, FS_Bijection

\* What drain() does to a list and the set of what runs, whoever calls it.
LEMMA DrainEffect ==
  ASSUME NEW waiting \in Seq(Downloads), IsInjective(waiting),
         NEW started \in SUBSET Downloads, IsFiniteSet(started),
         Cardinality(started) <= Concurrency,
         ToSet(waiting) \cap started = {},
         stopped => waiting = <<>>,
         stopped \in BOOLEAN,
         Drain(waiting, started)
  PROVE  /\ pending' \in Seq(Downloads)
         /\ IsInjective(pending')
         /\ running' \subseteq Downloads
         /\ started \subseteq running'
         /\ ToSet(pending') = ToSet(waiting) \ (running' \ started)
         /\ ToSet(pending') \cap running' = {}
         /\ IsFiniteSet(running')
         /\ Cardinality(running') <= Concurrency
         /\ pending' # <<>> => Cardinality(running') = Concurrency
         /\ waiting = <<>> => pending' = <<>>
<1> DEFINE c == Cardinality(started)
           n == IF stopped THEN 0 ELSE Moved(waiting, c)
           taken == {waiting[i] : i \in 1 .. n}
<1>1. c \in Nat /\ c <= Concurrency /\ Concurrency \in Nat
  BY FS_CardinalityType, ConcurrencyAssumption
<1>2. n \in 0 .. Len(waiting) /\ n <= Concurrency - c
  BY <1>1 DEF Moved, Room
<1>3. pending' = SubSeq(waiting, n + 1, Len(waiting)) /\ running' = started \cup taken
  BY DEF Drain
<1>4. /\ pending' \in Seq(Downloads)
      /\ Len(pending') = Len(waiting) - n
      /\ \A i \in 1 .. Len(waiting) - n : pending'[i] = waiting[n + i]
  <2>1. \A i \in n + 1 .. Len(waiting) : waiting[i] \in Downloads
    BY <1>2
  <2> HIDE DEF n
  <2>2. /\ SubSeq(waiting, n + 1, Len(waiting)) \in Seq(Downloads)
        /\ Len(SubSeq(waiting, n + 1, Len(waiting))) =
             IF n + 1 <= Len(waiting) THEN Len(waiting) - (n + 1) + 1 ELSE 0
        /\ \A i \in 1 .. Len(waiting) - (n + 1) + 1 :
             SubSeq(waiting, n + 1, Len(waiting))[i] = waiting[(n + 1) + i - 1]
    BY <1>2, <2>1, SubSeqProperties
  <2> QED
    BY <1>2, <1>3, <2>2
<1>5. IsInjective(pending')
  <2>1. \A i, j \in 1 .. Len(waiting) - n : pending'[i] = pending'[j] => i = j
    <3> HIDE DEF n
    <3> SUFFICES ASSUME NEW i \in 1 .. Len(waiting) - n, NEW j \in 1 .. Len(waiting) - n,
                        pending'[i] = pending'[j]
                 PROVE  i = j
      OBVIOUS
    <3>1. waiting[n + i] = waiting[n + j]
      BY <1>4
    <3>2. n + i \in DOMAIN waiting /\ n + j \in DOMAIN waiting
      BY <1>2
    <3>3. n + i = n + j
      BY <3>1, <3>2 DEF IsInjective
    <3> QED
      BY <1>2, <3>3
  <2> HIDE DEF n
  <2>2. DOMAIN pending' = 1 .. Len(waiting) - n
    BY <1>2, <1>4
  <2> QED
    BY <2>1, <2>2 DEF IsInjective
<1>6. IsFiniteSet(taken) /\ Cardinality(taken) = n /\ taken \subseteq Downloads
  <2> HIDE DEF n
  <2>1. taken \subseteq Downloads
    BY <1>2
  <2> QED
    BY <1>2, <2>1, PrefixCardinality
<1>7. ToSet(pending') = ToSet(waiting) \ taken
  <2> HIDE DEF n
  <2>1. ASSUME NEW x \in ToSet(pending') PROVE x \in ToSet(waiting) /\ x \notin taken
    <3>1. PICK i \in 1 .. Len(waiting) - n : x = waiting[n + i]
      BY <1>2, <1>4 DEF ToSet
    <3>2. n + i \in 1 .. Len(waiting) /\ n + i > n
      BY <1>2
    <3>3. \A j \in 1 .. n : waiting[j] # waiting[n + i]
      BY <1>2, <3>2 DEF IsInjective
    <3> QED
      BY <3>1, <3>2, <3>3 DEF ToSet
  <2>2. ASSUME NEW x \in ToSet(waiting), x \notin taken PROVE x \in ToSet(pending')
    <3>1. PICK k \in 1 .. Len(waiting) : x = waiting[k]
      BY DEF ToSet
    <3>2. k > n
      BY <1>2, <2>2, <3>1
    <3>3. k - n \in 1 .. Len(waiting) - n /\ pending'[k - n] = x
      BY <1>2, <1>4, <3>1, <3>2
    <3> QED
      BY <1>2, <1>4, <3>3 DEF ToSet
  <2> QED
    BY <2>1, <2>2
<1>8. taken \subseteq ToSet(waiting)
  <2> HIDE DEF n
  <2> QED BY <1>2 DEF ToSet
<1>9. IsFiniteSet(running') /\ Cardinality(running') = c + n
  <2>1. started \cap taken = {}
    BY <1>8
  <2> HIDE DEF taken, n
  <2>2. IsFiniteSet(started \cup taken)
        /\ Cardinality(started \cup taken) = c + n - Cardinality(started \cap taken)
    BY <1>6, FS_Union
  <2>3. Cardinality(started \cap taken) = 0
    BY <2>1, FS_EmptySet
  <2> QED
    BY <1>1, <1>2, <1>3, <2>2, <2>3
<1>10. pending' # <<>> => n = Concurrency - c
  <2>1. CASE stopped
    BY <2>1, <1>2, <1>4
  <2>2. CASE ~stopped
    <3>1. pending' # <<>> => n < Len(waiting)
      BY <1>2, <1>4
    <3> QED
      BY <2>2, <3>1, <1>1 DEF Moved, Room
  <2> QED
    BY <2>1, <2>2
<1>11. running' \ started = taken /\ ToSet(pending') \cap running' = {}
  <2> HIDE DEF taken
  <2> QED BY <1>3, <1>7, <1>8
<1>12. waiting = <<>> => pending' = <<>>
  <2> HIDE DEF n
  <2> QED BY <1>2, <1>4
<1> HIDE DEF taken, n
<1> QED
  BY <1>1, <1>2, <1>3, <1>4, <1>5, <1>6, <1>7, <1>9, <1>10, <1>11, <1>12

\* The empty queue.
LEMMA InitQueueInv == Init => QueueInv
<1>1. IsFiniteSet({}) /\ Cardinality({}) = 0
  BY FS_EmptySet
<1>2. ToSet(<<>>) = {} /\ IsInjective(<<>>) /\ <<>> \in Seq(Downloads)
  BY DEF ToSet, IsInjective
<1> SUFFICES ASSUME Init PROVE QueueInv
  OBVIOUS
<1>3. TypeOK /\ Consistent
  BY <1>2 DEF Init, TypeOK, Consistent, Waiting
<1>4. IsFiniteSet(running) /\ SlotsUsed
  BY <1>1, ConcurrencyAssumption DEF Init, SlotsUsed
<1> QED
  BY <1>3, <1>4 DEF Init, QueueInv

\* A download that is taken was neither waiting nor running, and drain() takes from the front.
LEMMA AcceptKeepsQueueInv ==
  ASSUME QueueInv, NEW d \in Downloads, Accept(d)
  PROVE  QueueInv'
<1> DEFINE waiting == Append(pending, d)
<1>1. pending \in Seq(Downloads) /\ d \notin ToSet(pending) /\ d \notin running
  BY DEF QueueInv, TypeOK, Consistent, Waiting, Accept, Held
<1>2. /\ waiting \in Seq(Downloads)
      /\ ToSet(waiting) = ToSet(pending) \cup {d}
  BY <1>1 DEF ToSet
<1>3. IsInjective(waiting)
  <2>1. DOMAIN waiting = 1 .. Len(pending) + 1
    BY <1>1
  <2>2. \A i \in 1 .. Len(pending) : waiting[i] = pending[i] /\ pending[i] # d
    BY <1>1 DEF ToSet
  <2>3. waiting[Len(pending) + 1] = d
    BY <1>1
  <2>4. \A i, j \in 1 .. Len(pending) : pending[i] = pending[j] => i = j
    BY <1>1 DEF QueueInv, Consistent, IsInjective
  <2> HIDE DEF waiting
  <2> QED
    BY <1>1, <2>1, <2>2, <2>3, <2>4 DEF IsInjective
<1> HIDE DEF waiting
<1>4. /\ running \in SUBSET Downloads /\ IsFiniteSet(running)
      /\ Cardinality(running) <= Concurrency
      /\ ToSet(waiting) \cap running = {}
      /\ ~stopped /\ stopped \in BOOLEAN
      /\ Drain(waiting, running)
  BY <1>1, <1>2 DEF QueueInv, TypeOK, Consistent, SlotsUsed, Waiting, Accept, waiting
<1>5. /\ pending' \in Seq(Downloads) /\ IsInjective(pending')
      /\ running' \subseteq Downloads
      /\ running \subseteq running'
      /\ ToSet(pending') = ToSet(waiting) \ (running' \ running)
      /\ ToSet(pending') \cap running' = {}
      /\ IsFiniteSet(running')
      /\ Cardinality(running') <= Concurrency
      /\ pending' # <<>> => Cardinality(running') = Concurrency
  BY <1>2, <1>3, <1>4, DrainEffect
<1>6. queued' = ToSet(pending')
  BY <1>2, <1>5 DEF Accept, QueueInv, Consistent, Waiting
<1>7. queued' \subseteq Downloads
  BY <1>1, <1>2, <1>5, <1>6 DEF QueueInv, TypeOK, Consistent, Waiting
<1>8. stopped' = FALSE
  BY <1>4 DEF Accept
<1> QED
  BY <1>5, <1>6, <1>7, <1>8 DEF QueueInv, TypeOK, Consistent, SlotsUsed, Waiting

\* A settled handler frees one slot, which drain() fills if it can.
LEMMA FinishKeepsQueueInv ==
  ASSUME QueueInv, NEW d \in Downloads, Finish(d)
  PROVE  QueueInv'
<1> DEFINE left == running \ {d}
<1>1. d \in running /\ IsFiniteSet(running)
  BY DEF Finish, QueueInv
<1>2. /\ IsFiniteSet(left)
      /\ Cardinality(left) = Cardinality(running) - 1
      /\ Cardinality(running) \in Nat
  BY <1>1, FS_RemoveElement, FS_CardinalityType
<1>3. /\ pending \in Seq(Downloads) /\ IsInjective(pending)
      /\ left \in SUBSET Downloads
      /\ ToSet(pending) \cap left = {}
      /\ stopped => pending = <<>>
      /\ stopped \in BOOLEAN
      /\ Drain(pending, left)
  BY DEF QueueInv, TypeOK, Consistent, Waiting, Finish
<1>4. Cardinality(left) <= Concurrency
  BY <1>2, ConcurrencyAssumption DEF QueueInv, SlotsUsed
<1>5. /\ pending' \in Seq(Downloads) /\ IsInjective(pending')
      /\ running' \subseteq Downloads
      /\ left \subseteq running'
      /\ ToSet(pending') = ToSet(pending) \ (running' \ left)
      /\ ToSet(pending') \cap running' = {}
      /\ IsFiniteSet(running')
      /\ Cardinality(running') <= Concurrency
      /\ pending' # <<>> => Cardinality(running') = Concurrency
      /\ pending = <<>> => pending' = <<>>
  <2> HIDE DEF left
  <2> QED BY <1>2, <1>3, <1>4, DrainEffect
<1>6. queued' = ToSet(pending')
  BY <1>5 DEF Finish, QueueInv, Consistent, Waiting
<1>7. queued' \subseteq Downloads /\ stopped' = stopped
  BY <1>5 DEF Finish, QueueInv, TypeOK, Consistent, Waiting
<1> QED
  BY <1>3, <1>5, <1>6, <1>7 DEF QueueInv, TypeOK, Consistent, SlotsUsed, Waiting

\* The invariant is inductive.
LEMMA StepKeepsQueueInv == QueueInv /\ [Next]_vars => QueueInv'
<1> SUFFICES ASSUME QueueInv, [Next]_vars PROVE QueueInv'
  OBVIOUS
<1>1. CASE \E d \in Downloads : Accept(d)
  BY <1>1, AcceptKeepsQueueInv
<1>2. CASE UNCHANGED vars
  BY <1>2 DEF vars, QueueInv, TypeOK, Consistent, SlotsUsed, Waiting
<1>3. CASE \E d \in Downloads : Refuse(d)
  BY <1>2, <1>3 DEF Refuse
<1>4. CASE \E d \in running : Finish(d)
  BY <1>4, FinishKeepsQueueInv DEF QueueInv, TypeOK
<1>5. CASE Stop
  <2>1. ToSet(<<>>) = {} /\ IsInjective(<<>>) /\ <<>> \in Seq(Downloads)
    BY DEF ToSet, IsInjective
  <2> QED
    BY <1>5, <2>1 DEF Stop, QueueInv, TypeOK, Consistent, SlotsUsed, Waiting
<1>6. CASE Reset
  <2>1. Init'
    BY <1>6 DEF Reset, Init
  <2>2. Init' => QueueInv'
    BY InitQueueInv, PTL
  <2> QED
    BY <2>1, <2>2
<1> QED
  BY <1>1, <1>2, <1>3, <1>4, <1>5, <1>6 DEF Next

\* Types, agreement of the list with its sets, and use of the slots, together.
THEOREM QueueInvariant == Spec => []QueueInv
<1> QED
  BY InitQueueInv, StepKeepsQueueInv, PTL DEF Spec

\* pending, queued and running are what the class says they are, in every state.
THEOREM QueueTypesHold == Spec => []TypeOK
<1>1. QueueInv => TypeOK
  BY DEF QueueInv
<1> QED
  BY <1>1, QueueInvariant, PTL

\* The duplicate test of enqueue() can be believed, in every state.
THEOREM QueueIsConsistent == Spec => []Consistent
<1>1. QueueInv => Consistent
  BY DEF QueueInv
<1> QED
  BY <1>1, QueueInvariant, PTL

\* Every slot is in use while a download waits, and never one too many.
THEOREM QueueUsesItsSlots == Spec => []SlotsUsed
<1>1. QueueInv => SlotsUsed
  BY DEF QueueInv
<1> QED
  BY <1>1, QueueInvariant, PTL

\* drain() takes from the front: with an entry it takes every entry before it.
LEMMA DrainTakesTheFront ==
  ASSUME NEW waiting \in Seq(Downloads), IsInjective(waiting),
         NEW started \in SUBSET Downloads, Drain(waiting, started),
         ToSet(pending') \cap running' = {},
         IsFiniteSet(started), Cardinality(started) <= Concurrency,
         NEW i \in 1 .. Len(waiting), NEW j \in 1 .. Len(waiting),
         waiting[i] \in running' \ started, j < i
  PROVE  waiting[j] \notin Waiting'
<1> DEFINE n == IF stopped THEN 0 ELSE Moved(waiting, Cardinality(started))
<1>1. n \in 0 .. Len(waiting)
  BY FS_CardinalityType, ConcurrencyAssumption DEF Moved, Room
<1>2. running' = started \cup {waiting[k] : k \in 1 .. n}
  BY DEF Drain
<1> HIDE DEF n
<1>3. PICK k \in 1 .. n : waiting[k] = waiting[i]
  BY <1>2
<1>4. i = k
  <2>1. k \in DOMAIN waiting /\ i \in DOMAIN waiting
    BY <1>1
  <2> QED
    BY <1>3, <2>1 DEF IsInjective
<1>5. j \in 1 .. n
  BY <1>1, <1>4
<1>6. waiting[j] \in running'
  BY <1>2, <1>5
<1> QED
  BY <1>6 DEF Waiting

\* Nobody is overtaken in the list.
THEOREM OldestGoFirst == Spec => OldestFirst
<1> DEFINE Overtakes(i, j) ==
             /\ pending[i] \in running' \ running
             /\ j < i
             /\ pending[j] \in Waiting'
<1>1. ASSUME QueueInv, QueueInv', [Next]_vars,
             NEW i \in 1 .. Len(pending), NEW j \in 1 .. Len(pending), Overtakes(i, j)
      PROVE  FALSE
  <2>1. /\ pending \in Seq(Downloads) /\ IsInjective(pending) /\ running \in SUBSET Downloads
        /\ IsFiniteSet(running) /\ Cardinality(running) <= Concurrency
    BY <1>1 DEF QueueInv, TypeOK, Consistent, SlotsUsed
  <2>2. ToSet(pending') \cap running' = {}
    BY <1>1 DEF QueueInv, Consistent, Waiting
  <2>3. ASSUME NEW d \in Downloads, Accept(d) PROVE FALSE
    <3> DEFINE waiting == Append(pending, d)
    <3>1. /\ waiting \in Seq(Downloads)
          /\ Len(waiting) = Len(pending) + 1
          /\ \A k \in 1 .. Len(pending) : waiting[k] = pending[k]
          /\ waiting[Len(pending) + 1] = d
      BY <2>1
    <3>2. \A k \in 1 .. Len(pending) : pending[k] # d
      BY <1>1, <2>1, <2>3 DEF Accept, Held, QueueInv, Consistent, Waiting, ToSet
    <3>3. \A k, l \in 1 .. Len(pending) : pending[k] = pending[l] => k = l
      BY <2>1 DEF IsInjective
    <3> HIDE DEF waiting
    <3>4. DOMAIN waiting = 1 .. Len(pending) + 1
      BY <3>1
    <3>5. IsInjective(waiting)
      BY <2>1, <3>1, <3>2, <3>3, <3>4 DEF IsInjective
    <3>6. Drain(waiting, running)
      BY <2>3 DEF Accept, waiting
    <3>7. /\ i \in 1 .. Len(waiting) /\ j \in 1 .. Len(waiting)
          /\ waiting[i] \in running' \ running /\ j < i
      BY <1>1, <2>1, <3>1
    <3> QED
      BY <1>1, <2>1, <2>2, <3>1, <3>5, <3>6, <3>7, DrainTakesTheFront
  <2>4. ASSUME NEW d \in running, Finish(d) PROVE FALSE
    <3> DEFINE left == running \ {d}
    <3>1. IsFiniteSet(left) /\ Cardinality(left) <= Concurrency
      <4>1. d \in running /\ IsFiniteSet(running) /\ Cardinality(running) \in Nat
        BY <2>1, FS_CardinalityType
      <4>2. IsFiniteSet(left) /\ Cardinality(left) = Cardinality(running) - 1
        BY <4>1, FS_RemoveElement
      <4> QED
        BY <2>1, <4>1, <4>2, ConcurrencyAssumption
    <3>2. Drain(pending, left) /\ left \in SUBSET Downloads
      BY <2>1, <2>4 DEF Finish
    <3>3. pending[i] \in running' \ left
      BY <1>1
    <3> HIDE DEF left
    <3> QED
      BY <1>1, <2>1, <2>2, <3>1, <3>2, <3>3, DrainTakesTheFront
  <2>5. CASE UNCHANGED vars
    BY <1>1, <2>5 DEF vars
  <2>6. CASE \E d \in Downloads : Refuse(d)
    BY <2>5, <2>6 DEF Refuse
  <2>7. CASE Stop \/ Reset
    BY <1>1, <2>7 DEF Stop, Reset
  <2> QED
    BY <1>1, <2>3, <2>4, <2>5, <2>6, <2>7 DEF Next
<1>2. ASSUME QueueInv, QueueInv', [Next]_vars
      PROVE  [\A i, j \in 1 .. Len(pending) :
                pending[i] \in running' \ running /\ j < i => pending[j] \notin Waiting']_vars
  BY <1>1, <1>2
<1> QED
  BY <1>2, QueueInvariant, PTL DEF Spec, OldestFirst
===============================================================================
