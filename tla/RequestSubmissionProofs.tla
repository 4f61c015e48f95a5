------------------------ MODULE RequestSubmissionProofs ------------------------
(***************************************************************************)
(* What a submission and a deletion of a request promise, for any number   *)
(* of people, requests, descriptions of books and handlers in flight.      *)
(***************************************************************************)
EXTENDS RequestSubmission, FiniteSetTheorems, TLAPS

Counted == {"insert_counted", "claim_counted"}
Inserting == {"count", "insert", "insert_counted", "lost_race"}
Joining == {"claim_count", "claim_counted", "attach", "subscribe"}
Submitting == Inserting \cup Joining \cup {"conflict"}
Removing == {"reserve", "detach", "delete"}

\* Every insert but the last one lost to a request that was live and is so no longer.
Explained(t) ==
  /\ task[t].pc \in Submitting => task[t].inserts <= task[t].losses + 1
  /\ task[t].pc = "lost_race" =>
       task[t].inserts <= task[t].losses \/ Matches(task[t].work) # {}
  /\ task[t].pc \in Joining =>
       task[t].inserts <= task[t].losses \/ Live(task[t].request)
  /\ task[t].pc = "conflict" => task[t].losses = InsertAttempts

\* Who an activation acts for, and what it knows of the request it acts on.
Remembers(t) ==
  /\ Free(t) => task[t] = Idle
  /\ task[t].pc \in Submitting => task[t].user \in Users
  /\ task[t].pc \in Removing => task[t].user = NoUser
  /\ task[t].selfServe => task[t].user \in SelfFulfillers
  /\ task[t].pc \in {"count", "claim_count"} \cup Counted => task[t].selfServe
  /\ task[t].pc = "insert" /\ task[t].selfServe => task[t].owned
  /\ task[t].pc \in Inserting => task[t].request = NoRow
  /\ task[t].pc \in Joining \cup Removing =>
       task[t].request # NoRow /\ row[task[t].request].status # "absent"
  /\ task[t].pc \in {"claim_count", "claim_counted"} =>
       row[task[t].request].user # task[t].user
  /\ task[t].pc = "conflict" /\ task[t].request # NoRow =>
       row[task[t].request].status = "deleted"
  /\ Explained(t)

\* A row that is not there yet, or no longer, is driven by nobody; nobody takes on his own.
RowOK(r) ==
  /\ row[r].status \in {"absent", "deleted"} =>
       row[r].user = NoUser /\ row[r].fulfiller = NoUser /\ ~row[r].selfServe
  /\ row[r].fulfiller # NoUser => row[r].fulfiller # row[r].user

\* A place under the cap is kept for whoever has counted.
CapKept ==
  /\ \A u \in Users :
       /\ Cardinality(CountedSelfServe(u)) <= MaxLive
       /\ CapLock(u) => Cardinality(CountedSelfServe(u)) < MaxLive
  /\ \A s, t \in Handlers :
       task[s].pc \in Counted /\ task[t].pc \in Counted /\ task[s].user = task[t].user => s = t

Follows(r) ==
  row[r].fulfiller # NoUser =>
    \/ row[r].fulfiller \in subscribers[r]
    \/ \E t \in Handlers :
         task[t].pc \in Joining /\ task[t].user = row[r].fulfiller /\ task[t].request = r

\* One activation deletes a request, and what it reserved is out of everybody's reach.
Reserved ==
  /\ \A s, t \in Handlers :
       task[s].pc \in Removing /\ task[t].pc \in Removing /\ task[s].request = task[t].request
         => s = t
  /\ \A t \in Handlers :
       At(t, "detach") => row[task[t].request].status \notin ActiveRequest \cup {"failed", "absent"}

SubmissionInv ==
  /\ TypeOK
  /\ \A r \in Requests : RowOK(r) /\ Follows(r)
  /\ \A t \in Handlers : Remembers(t)
  /\ CapKept
  /\ "remove_twice" \notin Operations => Reserved

-------------------------------------------------------------------------------
(***************************************************************************)
(* The keys of a book.                                                     *)
(***************************************************************************)

\* primaryDedupeKey is one of dedupeKeyCandidates.
LEMMA PrimaryIsAKey == ASSUME NEW d \in Descriptions PROVE Primary(d) \in Keys(d)
<1>1. CASE Cardinality(IsbnKeys(d)) = 1
  <2>1. IsbnKeys(d) # {}
    BY <1>1, FS_EmptySet
  <2> QED
    BY <1>1, <2>1 DEF Primary, Keys
<1>2. CASE Cardinality(IsbnKeys(d)) # 1 /\ IsbnKeys(d) = {} /\ d.providers # <<>>
  <2> DEFINE S == {d.providers[i] : i \in DOMAIN d.providers}
  <2>1. d.providers \in Seq(S)
    BY DescriptionsAssumption
  <2> HIDE DEF S
  <2>2. 1 \in DOMAIN d.providers /\ Head(d.providers) = d.providers[1]
    BY <1>2, <2>1
  <2> QED
    BY <1>2, <2>2 DEF Primary, Keys, ProviderKeys
<1>3. CASE Cardinality(IsbnKeys(d)) # 1 /\ ~(IsbnKeys(d) = {} /\ d.providers # <<>>)
  BY <1>3 DEF Primary, Keys
<1> QED
  BY <1>1, <1>2, <1>3

\* So whoever is refused by the index finds a request to join.
LEMMA LostRaceMatches ==
  ASSUME TypeOK, NEW d \in Descriptions, ~KeyFree(d, NoRow)
  PROVE  Matches(d) # {}
<1>1. PICK q \in Requests : Live(q) /\ Primary(row[q].work) = Primary(d)
  BY DEF KeyFree
<1>2. row[q].work \in Descriptions
  BY DEF TypeOK, Row
<1>3. Primary(d) \in Keys(row[q].work) \cap Keys(d)
  BY <1>1, <1>2, PrimaryIsAKey
<1> QED
  BY <1>1, <1>3 DEF Matches

\* An activation that has not begun has the shape of one.
LEMMA IdleIsATask == Idle \in TaskState /\ AnyDescription \in Descriptions
  BY DescriptionsAssumption, BoundsAssumption
     DEF Idle, TaskState, Pcs, AnyDescription, Settled

-------------------------------------------------------------------------------
(***************************************************************************)
(* What a step of one activation leaves to the others.                     *)
(***************************************************************************)

\* A step that moves no live request out of the way.
Aged ==
  \A r \in Requests :
    /\ row[r].status # "absent" => row'[r].status # "absent"
    /\ row[r].status = "deleted" => row'[r].status = "deleted"
    /\ row[r].status # "absent" => row'[r].user \in {row[r].user, NoUser}
    /\ Live(r) => row'[r].status \in ActiveRequest /\ row'[r].work = row[r].work

\* Nothing written moves nobody,
LEMMA SameRowsAged == TypeOK /\ UNCHANGED row => Aged
BY DEF Aged, Live, TypeOK, Row

\* and where no live request goes, what was found is there to be found.
LEMMA AgedKeepsMatches ==
  ASSUME TypeOK, Aged, NEW d, Matches(d) # {}
  PROVE  Matches(d)' # {}
<1>1. PICK q \in Requests : Live(q) /\ Keys(row[q].work) \cap Keys(d) # {}
  BY DEF Matches
<1>2. row'[q].status \in ActiveRequest /\ row'[q].work = row[q].work
  BY <1>1 DEF Aged
<1> QED
  BY <1>1, <1>2 DEF Matches, Live

\* So the activations that do not move remember enough still.
LEMMA OthersRemember ==
  ASSUME TypeOK, Aged, NEW u \in Handlers, Remembers(u), task'[u] = task[u]
  PROVE  Remembers(u)'
<1> DEFINE r == task[u].request
<1>1. task[u] \in TaskState /\ (r # NoRow => r \in Requests)
  BY DEF TypeOK, TaskState
<1>2. Free(u)' => task'[u] = Idle
  BY DEF Remembers, Free
<1>3. task[u].pc \in Submitting => task[u].user # NoUser
  BY UsersAssumption DEF Remembers
<1>4. task[u].pc \in Joining \cup Removing =>
        row'[r].status # "absent" /\ row'[r].user \in {row[r].user, NoUser}
  BY <1>1 DEF Remembers, Aged
<1>5. task[u].pc \in {"claim_count", "claim_counted"} => row'[r].user # task[u].user
  BY <1>3, <1>4 DEF Remembers, Joining, Submitting
<1>6. task[u].pc = "conflict" /\ r # NoRow => row'[r].status = "deleted"
  BY <1>1 DEF Remembers, Aged
<1>7. Explained(u)'
  <2>1. Matches(task[u].work) # {} => Matches(task[u].work)' # {}
    BY AgedKeepsMatches
  <2>2. task[u].pc \in Joining /\ Live(r) => Live(r)'
    BY <1>1 DEF Remembers, Aged, Live
  <2> QED
    BY <2>1, <2>2 DEF Remembers, Explained, Matches, Live
<1> QED
  BY <1>2, <1>4, <1>5, <1>6, <1>7 DEF Remembers

\* One activation moves, and remembers enough where it goes.
LEMMA AllRemember ==
  ASSUME SubmissionInv, Aged, NEW t \in Handlers, Remembers(t)',
         \A u \in Handlers \ {t} : task'[u] = task[u]
  PROVE  \A u \in Handlers : Remembers(u)'
BY OthersRemember DEF SubmissionInv

\* The live self-serve requests of a person can be counted, and those that never failed are
\* no more than all of them.
LEMMA LiveFinite ==
  ASSUME NEW u
  PROVE  /\ IsFiniteSet(CountedSelfServe(u)) /\ Cardinality(CountedSelfServe(u)) \in Nat
         /\ IsFiniteSet(LiveSelfServe(u)) /\ Cardinality(LiveSelfServe(u)) \in Nat
         /\ Cardinality(CountedSelfServe(u)) <= Cardinality(LiveSelfServe(u))
<1>1. IsFiniteSet(Requests)
  BY FS_Interval, BoundsAssumption DEF Requests
<1>2. LiveSelfServe(u) \in SUBSET Requests /\ CountedSelfServe(u) \in SUBSET LiveSelfServe(u)
  BY DEF LiveSelfServe, CountedSelfServe
<1> QED
  BY <1>1, <1>2, FS_Subset, FS_CardinalityType

\* Nobody gets one more, and nobody counts.
LEMMA FewerKeepCap ==
  ASSUME CapKept, \A u \in Users : CountedSelfServe(u)' \subseteq CountedSelfServe(u),
         \A s \in Handlers : task'[s].pc \in Counted =>
           task[s].pc \in Counted /\ task'[s].user = task[s].user
  PROVE  CapKept'
<1>1. ASSUME NEW u \in Users
      PROVE  Cardinality(CountedSelfServe(u))' <= MaxLive
             /\ (CapLock(u)' => Cardinality(CountedSelfServe(u))' < MaxLive)
  <2> DEFINE old == CountedSelfServe(u)
             new == CountedSelfServe(u)'
  <2>1. IsFiniteSet(old) /\ Cardinality(old) \in Nat
    BY LiveFinite
  <2>2. new \in SUBSET old
    OBVIOUS
  <2>3. Cardinality(new) <= Cardinality(old) /\ Cardinality(new) \in Nat
    BY <2>1, <2>2, FS_Subset, FS_CardinalityType
  <2>4. CapLock(u)' => CapLock(u)
    BY DEF CapLock, Counted
  <2> HIDE DEF old, new
  <2>5. Cardinality(old) <= MaxLive /\ (CapLock(u) => Cardinality(old) < MaxLive)
    BY DEF CapKept, old
  <2>6. Cardinality(CountedSelfServe(u))' = Cardinality(new)
    BY DEF new
  <2> QED
    BY <2>1, <2>3, <2>4, <2>5, <2>6, BoundsAssumption
<1>2. \A s, t \in Handlers :
        task'[s].pc \in Counted /\ task'[t].pc \in Counted /\ task'[s].user = task'[t].user
          => s = t
  BY DEF CapKept
<1> QED
  BY <1>1, <1>2 DEF CapKept

\* One more element is at most one more.
LEMMA OneMore ==
  ASSUME NEW S, IsFiniteSet(S), NEW x, NEW T, T \subseteq S \cup {x}
  PROVE  Cardinality(T) \in Nat /\ Cardinality(T) <= Cardinality(S) + 1
<1>1. /\ IsFiniteSet(S \cup {x})
      /\ Cardinality(S \cup {x}) = IF x \in S THEN Cardinality(S) ELSE Cardinality(S) + 1
  BY FS_AddElement
<1>2. Cardinality(S) \in Nat
  BY FS_CardinalityType
<1>3. Cardinality(T) \in Nat /\ Cardinality(T) <= Cardinality(S \cup {x})
  <2>1. T \in SUBSET (S \cup {x})
    OBVIOUS
  <2> QED
    BY <1>1, <2>1, FS_Subset, FS_CardinalityType
<1> QED
  BY <1>1, <1>2, <1>3

\* Whoever counted gets his one more, and gives the lock back.
LEMMA OneMoreKeepsCap ==
  ASSUME CapKept, NEW t \in Handlers, task[t].pc \in Counted, task'[t].pc \notin Counted,
         NEW v \in Users, v = task[t].user, \A s \in Handlers \ {t} : task'[s] = task[s], NEW r,
         CountedSelfServe(v)' \subseteq CountedSelfServe(v) \cup {r},
         \A u \in Users \ {v} : CountedSelfServe(u)' \subseteq CountedSelfServe(u)
  PROVE  CapKept'
<1>1. \A s, q \in Handlers :
        task'[s].pc \in Counted /\ task'[q].pc \in Counted /\ task'[s].user = task'[q].user
          => s = q
  BY DEF CapKept
<1>2. ASSUME NEW u \in Users
      PROVE  Cardinality(CountedSelfServe(u))' <= MaxLive
             /\ (CapLock(u)' => Cardinality(CountedSelfServe(u))' < MaxLive)
  <2> DEFINE old == CountedSelfServe(u)
             new == CountedSelfServe(u)'
  <2>1. IsFiniteSet(old) /\ Cardinality(old) \in Nat
    BY LiveFinite
  <2>2. Cardinality(old) <= MaxLive /\ (CapLock(u) => Cardinality(old) < MaxLive)
    BY DEF CapKept
  <2>3. CASE u = v
    <3>1. CapLock(u)
      BY <2>3 DEF CapLock, Counted
    <3>2. ~CapLock(u)'
      BY <2>3 DEF CapLock, Counted, CapKept
    <3>3. Cardinality(new) \in Nat /\ Cardinality(new) <= Cardinality(old) + 1
      BY <2>1, <2>3, OneMore
    <3> HIDE DEF old, new
    <3>4. Cardinality(CountedSelfServe(u))' = Cardinality(new)
      BY DEF new
    <3> QED
      BY <2>1, <2>2, <3>1, <3>2, <3>3, <3>4, BoundsAssumption
  <2>4. CASE u # v
    <3>1. CapLock(u)' => CapLock(u)
      BY <2>4 DEF CapLock, Counted
    <3>2. new \in SUBSET old
      BY <2>4
    <3>3. Cardinality(new) <= Cardinality(old) /\ Cardinality(new) \in Nat
      BY <2>1, <3>2, FS_Subset, FS_CardinalityType
    <3> HIDE DEF old, new
    <3>4. Cardinality(CountedSelfServe(u))' = Cardinality(new)
      BY DEF new
    <3> QED
      BY <2>1, <2>2, <3>1, <3>3, <3>4, BoundsAssumption
  <2> QED
    BY <2>3, <2>4
<1> QED
  BY <1>1, <1>2 DEF CapKept

-------------------------------------------------------------------------------
(***************************************************************************)
(* Steps of one activation that leave the rows alone.                      *)
(***************************************************************************)

\* A place under the cap is kept for one who counts under the lock.
LEMMA CountingKeepsCap ==
  ASSUME CapKept, NEW t \in Handlers, NEW new, task' = [task EXCEPT ![t] = new],
         task \in [Handlers -> TaskState], UNCHANGED row,
         new.pc \in Counted => ~CapLock(new.user)
           /\ Cardinality(LiveSelfServe(new.user)) < MaxLive
  PROVE  CapKept'
<1>1. \A u : CountedSelfServe(u)' = CountedSelfServe(u)
  BY DEF CountedSelfServe, LiveSelfServe, Live, Drives
<1>2. \A s \in Handlers \ {t} : task'[s] = task[s]
  OBVIOUS
<1>3. task'[t] = new
  OBVIOUS
<1>4. CASE new.pc \notin Counted
  BY <1>1, <1>2, <1>3, <1>4, FewerKeepCap
<1>5. CASE new.pc \in Counted
  <2>1. \A s \in Handlers : task[s].pc \in Counted => task[s].user # new.user
    BY <1>5 DEF CapLock, Counted
  <2>2. \A s, q \in Handlers :
          task'[s].pc \in Counted /\ task'[q].pc \in Counted /\ task'[s].user = task'[q].user
            => s = q
    BY <1>2, <1>3, <2>1 DEF CapKept
  <2>3. ASSUME NEW u \in Users
        PROVE  Cardinality(CountedSelfServe(u))' <= MaxLive
               /\ (CapLock(u)' => Cardinality(CountedSelfServe(u))' < MaxLive)
    <3>1. Cardinality(CountedSelfServe(u))' = Cardinality(CountedSelfServe(u))
      BY <1>1
    <3>2. CapLock(u)' => CapLock(u) \/ u = new.user
      BY <1>2, <1>3 DEF CapLock
    <3>3. u = new.user => Cardinality(CountedSelfServe(u)) < MaxLive
      <4>1. /\ Cardinality(LiveSelfServe(u)) \in Nat /\ Cardinality(CountedSelfServe(u)) \in Nat
            /\ Cardinality(CountedSelfServe(u)) <= Cardinality(LiveSelfServe(u))
        BY LiveFinite
      <4> QED
        BY <1>5, <4>1, BoundsAssumption
    <3> QED
      BY <1>5, <3>1, <3>2, <3>3 DEF CapKept
  <2> QED
    BY <2>2, <2>3 DEF CapKept
<1> QED
  BY <1>4, <1>5

\* A deletion is begun by one activation, on a request that is settled.
LEMMA MovingKeepsReserved ==
  ASSUME Reserved, NEW t \in Handlers, NEW new, task' = [task EXCEPT ![t] = new],
         task \in [Handlers -> TaskState], UNCHANGED row,
         new.pc \in Removing => \A s \in Handlers \ {t} :
           task[s].pc \in Removing => task[s].request # new.request,
         new.pc = "detach" =>
           row[new.request].status \notin ActiveRequest \cup {"failed", "absent"}
  PROVE  Reserved'
<1>1. \A s \in Handlers \ {t} : task'[s] = task[s]
  OBVIOUS
<1>2. task'[t] = new
  OBVIOUS
<1> QED
  BY <1>1, <1>2 DEF Reserved, At

\* An activation moves, and keeps what the invariant says of it.
LEMMA TaskStepKeeps ==
  ASSUME SubmissionInv, NEW t \in Handlers, NEW new \in TaskState,
         task' = [task EXCEPT ![t] = new], UNCHANGED row,
         subscribers' \in [Requests -> SUBSET Users],
         \A r \in Requests : subscribers[r] \subseteq subscribers'[r],
         submitted' \in 0 .. MaxSubmissions,
         Remembers(t)',
         task[t].pc \in Joining /\ row[task[t].request].fulfiller = task[t].user =>
           \/ new.pc \in Joining /\ new.user = task[t].user /\ new.request = task[t].request
           \/ task[t].user \in subscribers'[task[t].request],
         new.pc \in Counted => ~CapLock(new.user)
           /\ Cardinality(LiveSelfServe(new.user)) < MaxLive,
         "remove_twice" \notin Operations =>
           /\ new.pc \in Removing => \A s \in Handlers \ {t} :
                task[s].pc \in Removing => task[s].request # new.request
           /\ new.pc = "detach" =>
                row[new.request].status \notin ActiveRequest \cup {"failed", "absent"}
  PROVE  SubmissionInv'
<1>1. TypeOK'
  BY DEF SubmissionInv, TypeOK
<1>2. task'[t] = new /\ \A u \in Handlers \ {t} : task'[u] = task[u]
  BY DEF SubmissionInv, TypeOK
<1>3. Aged
  BY SameRowsAged DEF SubmissionInv
<1>4. \A u \in Handlers : Remembers(u)'
  BY <1>2, <1>3, AllRemember
<1>5. ASSUME NEW r \in Requests
      PROVE  RowOK(r)' /\ Follows(r)'
  <2>1. RowOK(r)'
    BY DEF SubmissionInv, RowOK
  <2>2. ASSUME row[r].fulfiller # NoUser
        PROVE  \/ row[r].fulfiller \in subscribers'[r]
               \/ \E u \in Handlers : task'[u].pc \in Joining
                    /\ task'[u].user = row[r].fulfiller /\ task'[u].request = r
    <3>1. CASE row[r].fulfiller \in subscribers[r]
      BY <3>1
    <3>2. CASE row[r].fulfiller \notin subscribers[r]
      <4>1. PICK u \in Handlers : task[u].pc \in Joining
              /\ task[u].user = row[r].fulfiller /\ task[u].request = r
        BY <2>2, <3>2 DEF SubmissionInv, Follows
      <4> QED
        BY <1>2, <4>1
    <3> QED
      BY <3>1, <3>2
  <2> QED
    BY <2>1, <2>2 DEF Follows
<1>6. CapKept'
  BY CountingKeepsCap DEF SubmissionInv, TypeOK
<1>7. "remove_twice" \notin Operations => Reserved'
  BY MovingKeepsReserved DEF SubmissionInv, TypeOK
<1> QED
  BY <1>1, <1>4, <1>5, <1>6, <1>7 DEF SubmissionInv

\* An activation that neither joins nor counts nor deletes afterwards.
LEMMA PlainStepKeeps ==
  ASSUME SubmissionInv, NEW t \in Handlers, NEW new \in TaskState,
         task' = [task EXCEPT ![t] = new], UNCHANGED <<row, subscribers>>,
         submitted' \in 0 .. MaxSubmissions, Remembers(t)', task[t].pc \notin Joining,
         new.pc \notin Counted \cup Removing
  PROVE  SubmissionInv'
<1>1. subscribers' \in [Requests -> SUBSET Users]
  BY DEF SubmissionInv, TypeOK
<1> QED
  BY <1>1, TaskStepKeeps DEF Removing

-------------------------------------------------------------------------------
(***************************************************************************)
(* A submission looks for a request and joins it or inserts its own.       *)
(***************************************************************************)

\* What a submission carries from its beginning.
Carries(state) ==
  /\ state \in TaskState
  /\ state.user \in Users
  /\ state.selfServe => state.user \in SelfFulfillers
  /\ state.inserts <= state.losses + 1

\* It goes on to join a request that it found,
LEMMA JoinRemembers ==
  ASSUME SubmissionInv, NEW t \in Handlers, NEW state, Carries(state), NEW r \in Requests,
         Live(r), Join(t, state, r), UNCHANGED row
  PROVE  \E new \in TaskState :
           /\ task' = [task EXCEPT ![t] = new]
           /\ Remembers(t)'
           /\ new.pc \notin Counted \cup Removing
<1>1. PICK pc \in {"attach", "claim_count"} :
        /\ pc = "claim_count" => MayTakeOn(r, state.user, state.selfServe)
        /\ task' = [task EXCEPT ![t] = [state EXCEPT !.pc = pc, !.request = r]]
  BY DEF Join
<1> DEFINE new == [state EXCEPT !.pc = pc, !.request = r]
<1>2. new \in TaskState /\ new.pc = pc /\ new.request = r /\ new.user = state.user
      /\ new.selfServe = state.selfServe /\ new.inserts = state.inserts
      /\ new.losses = state.losses
  BY DEF Carries, TaskState, Pcs
<1>3. task'[t] = new
  BY <1>1 DEF SubmissionInv, TypeOK
<1> HIDE DEF new
<1>4. r # NoRow /\ row[r].status # "absent"
  BY DEF Live, ActiveRequest, Requests, NoRow
<1>5. Explained(t)'
  BY <1>1, <1>2, <1>3
     DEF Explained, Carries, Live, Submitting, Inserting, Joining
<1>6. Remembers(t)'
  BY <1>1, <1>2, <1>3, <1>4, <1>5
     DEF Remembers, Carries, MayTakeOn, Free, Submitting, Inserting, Joining, Removing, Counted
<1>7. task' = [task EXCEPT ![t] = new] /\ new.pc \notin Counted \cup Removing
  BY <1>1, <1>2 DEF new, Counted, Removing
<1> QED
  BY <1>2, <1>6, <1>7

\* or to insert one of its own, having counted if it is to count.
LEMMA ToInsertRemembers ==
  ASSUME SubmissionInv, NEW t \in Handlers, NEW state, Carries(state), NEW owned \in BOOLEAN,
         state.inserts < InsertAttempts, state.inserts <= state.losses,
         ToInsert(t, state, owned), UNCHANGED row
  PROVE  \E new \in TaskState :
           /\ task' = [task EXCEPT ![t] = new]
           /\ Remembers(t)'
           /\ new.pc \notin Counted \cup Removing
<1> DEFINE pc == IF state.selfServe /\ ~owned THEN "count" ELSE "insert"
           new == [state EXCEPT !.pc = pc, !.owned = owned, !.inserts = @ + 1,
                                !.request = NoRow]
<1>1. /\ state \in TaskState /\ pc \in Pcs /\ state.inserts \in Nat /\ state.losses \in Nat
      /\ state.inserts + 1 \in 0 .. InsertAttempts
  BY BoundsAssumption DEF Carries, TaskState, Pcs
<1>2. new \in TaskState /\ new.pc = pc /\ new.request = NoRow /\ new.user = state.user
      /\ new.selfServe = state.selfServe /\ new.inserts = state.inserts + 1
      /\ new.losses = state.losses /\ new.owned = owned
  BY <1>1 DEF TaskState
<1>3. task' = [task EXCEPT ![t] = new]
  BY DEF ToInsert
<1> HIDE DEF new
<1>4. task'[t] = new
  BY <1>3 DEF SubmissionInv, TypeOK
<1>5. Explained(t)'
  <2>1. task'[t].pc \in {"count", "insert"} /\ task'[t].inserts <= task'[t].losses + 1
    BY <1>1, <1>2, <1>4
  <2> QED
    BY <2>1 DEF Explained, Joining
<1>6. Remembers(t)'
  BY <1>2, <1>4, <1>5
     DEF Remembers, Carries, Free, Submitting, Inserting, Joining, Removing, Counted
<1>7. new.pc \notin Counted \cup Removing
  BY <1>2 DEF Counted, Removing
<1> QED
  BY <1>2, <1>3, <1>6, <1>7

\* The beginning of a submission.
LEMMA SubmitKeeps ==
  ASSUME SubmissionInv, NEW t \in Handlers, NEW u \in Users, NEW d \in Descriptions,
         NEW selfServe \in BOOLEAN, Submit(t, u, d, selfServe)
  PROVE  SubmissionInv'
<1> DEFINE state == [Idle EXCEPT !.user = u, !.work = d, !.selfServe = selfServe]
<1>1. Carries(state) /\ state.inserts = 0 /\ state.losses = 0 /\ state.work = d
  <2>1. state \in TaskState /\ state.user = u /\ state.selfServe = selfServe
        /\ state.work = d
    BY IdleIsATask DEF TaskState
  <2>2. state.inserts = 0 /\ state.losses = 0
    BY DEF Idle
  <2> QED
    BY <2>1, <2>2 DEF Submit, Carries
<1>2. task[t].pc \notin Joining
  BY DEF Submit, Free, Joining
<1>3. submitted' \in 0 .. MaxSubmissions
  BY BoundsAssumption DEF Submit, SubmissionInv, TypeOK
<1>4. UNCHANGED <<row, subscribers>>
  BY DEF Submit
<1> HIDE DEF state
<1>5. CASE \E r \in Matches(d) : Join(t, state, r)
  <2>1. PICK r \in Requests : Live(r) /\ Join(t, state, r)
    BY <1>5 DEF Matches
  <2> QED
    BY <1>1, <1>2, <1>3, <1>4, <2>1, JoinRemembers, PlainStepKeeps
<1>6. CASE \E owned \in BOOLEAN : ToInsert(t, state, owned)
  <2>1. PICK owned \in BOOLEAN : ToInsert(t, state, owned)
    BY <1>6
  <2>2. state.inserts < InsertAttempts
    BY <1>1, BoundsAssumption
  <2>3. state.inserts <= state.losses
    BY <1>1
  <2> QED
    BY <1>1, <1>2, <1>3, <1>4, <2>1, <2>2, <2>3, ToInsertRemembers, PlainStepKeeps
<1> QED
  BY <1>5, <1>6 DEF Submit, state

\* An activation of a submission carries what it should.
LEMMA SubmittingCarries ==
  ASSUME SubmissionInv, NEW t \in Handlers, task[t].pc \in Submitting
  PROVE  Carries(task[t]) /\ task[t].user \in Users
BY DEF SubmissionInv, TypeOK, Carries, Remembers, Explained

\* Go changes the place and nothing else.
LEMMA GoMoves ==
  ASSUME SubmissionInv, NEW t \in Handlers, NEW pc \in Pcs, Go(t, pc)
  PROVE  \E new \in TaskState :
           /\ task' = [task EXCEPT ![t] = new]
           /\ task'[t] = new
           /\ new.pc = pc
           /\ new.user = task[t].user /\ new.work = task[t].work
           /\ new.selfServe = task[t].selfServe /\ new.request = task[t].request
           /\ new.inserts = task[t].inserts /\ new.losses = task[t].losses
           /\ new.owned = task[t].owned /\ new.was = task[t].was
<1> DEFINE new == [task[t] EXCEPT !.pc = pc]
<1>1. task[t] \in TaskState /\ task \in [Handlers -> TaskState]
  BY DEF SubmissionInv, TypeOK
<1>2. task' = [task EXCEPT ![t] = new]
  BY <1>1 DEF Go
<1>3. new \in TaskState
  BY <1>1 DEF TaskState
<1> QED
  BY <1>1, <1>2, <1>3 DEF TaskState

\* The end of an activation.
LEMMA ReturnMoves ==
  ASSUME SubmissionInv, NEW t \in Handlers, Return(t)
  PROVE  /\ task' = [task EXCEPT ![t] = Idle]
         /\ task'[t] = Idle
         /\ Remembers(t)'
         /\ Idle.pc = "idle"
<1>1. task' = [task EXCEPT ![t] = Idle] /\ task'[t] = Idle
  BY DEF Return, SubmissionInv, TypeOK
<1>2. Idle.pc = "idle" /\ Idle.selfServe = FALSE
  BY DEF Idle
<1> QED
  BY <1>1, <1>2
     DEF Remembers, Explained, Submitting, Inserting, Joining, Removing, Counted

\* The end of an activation that was not about to be shown the request it took on.
LEMMA ReturnKeeps ==
  ASSUME SubmissionInv, NEW t \in Handlers, Return(t), UNCHANGED <<row, submitted>>,
         subscribers' \in [Requests -> SUBSET Users],
         \A r \in Requests : subscribers[r] \subseteq subscribers'[r],
         task[t].pc \in Joining /\ row[task[t].request].fulfiller = task[t].user =>
           task[t].user \in subscribers'[task[t].request]
  PROVE  SubmissionInv'
<1>1. submitted' \in 0 .. MaxSubmissions
  BY DEF SubmissionInv, TypeOK
<1> QED
  BY <1>1, ReturnMoves, IdleIsATask, TaskStepKeeps DEF Counted, Removing

\* The count before an insert, under the lock.
LEMMA CountForInsertKeeps ==
  ASSUME SubmissionInv, NEW t \in Handlers, CountForInsert(t)
  PROVE  SubmissionInv'
<1>1. /\ At(t, "count") /\ ~CapLock(task[t].user)
      /\ \/ Cardinality(LiveSelfServe(task[t].user)) < MaxLive /\ Go(t, "insert_counted")
         \/ Return(t)
      /\ UNCHANGED <<row, subscribers, submitted>>
  BY DEF CountForInsert, Count
<1>2. CASE Return(t)
  BY <1>1, <1>2, ReturnKeeps DEF At, Joining, SubmissionInv, TypeOK
<1>3. CASE Cardinality(LiveSelfServe(task[t].user)) < MaxLive /\ Go(t, "insert_counted")
  <2>1. PICK new \in TaskState :
           /\ task' = [task EXCEPT ![t] = new]
           /\ task'[t] = new
           /\ new.pc = "insert_counted"
           /\ new.user = task[t].user /\ new.work = task[t].work
           /\ new.selfServe = task[t].selfServe /\ new.request = task[t].request
           /\ new.inserts = task[t].inserts /\ new.losses = task[t].losses
    BY <1>3, GoMoves DEF Pcs
  <2>2. Remembers(t)'
    BY <1>1, <2>1
       DEF SubmissionInv, Remembers, Explained, At, Free, Submitting, Inserting, Joining,
           Removing, Counted
  <2>3. subscribers' \in [Requests -> SUBSET Users] /\ submitted' \in 0 .. MaxSubmissions
    BY <1>1 DEF SubmissionInv, TypeOK
  <2> QED
    BY <1>1, <1>3, <2>1, <2>2, <2>3, TaskStepKeeps DEF At, Joining, Removing
<1> QED
  BY <1>1, <1>2, <1>3

\* The insert is given up for good: every try lost to a request that went.
LEMMA ConflictKeeps ==
  ASSUME SubmissionInv, NEW t \in Handlers, Go(t, "conflict"),
         task[t].pc \in Submitting, task[t].inserts = InsertAttempts,
         task[t].inserts <= task[t].losses, UNCHANGED <<row, subscribers, submitted>>,
         task[t].request # NoRow => row[task[t].request].status = "deleted"
  PROVE  SubmissionInv'
<1>1. PICK new \in TaskState :
         /\ task' = [task EXCEPT ![t] = new]
         /\ task'[t] = new
         /\ new.pc = "conflict"
         /\ new.user = task[t].user /\ new.work = task[t].work
         /\ new.selfServe = task[t].selfServe /\ new.request = task[t].request
         /\ new.inserts = task[t].inserts /\ new.losses = task[t].losses
  BY GoMoves DEF Pcs
<1>2. new.losses = InsertAttempts /\ new.inserts <= new.losses + 1
  BY <1>1, BoundsAssumption DEF TaskState
<1>3. Remembers(t)'
  BY <1>1, <1>2
     DEF SubmissionInv, Remembers, Explained, Free, Submitting, Inserting, Joining,
         Removing, Counted
<1>4. subscribers' \in [Requests -> SUBSET Users] /\ submitted' \in 0 .. MaxSubmissions
  BY DEF SubmissionInv, TypeOK
<1>5. task[t].pc \in Joining => row[task[t].request].fulfiller # task[t].user
  <2> SUFFICES ASSUME task[t].pc \in Joining
               PROVE  row[task[t].request].fulfiller # task[t].user
    OBVIOUS
  <2>1. task[t].request \in Requests
    BY DEF SubmissionInv, TypeOK, TaskState, Remembers
  <2>2. row[task[t].request].fulfiller = NoUser
    BY <2>1 DEF SubmissionInv, RowOK, Remembers
  <2> QED
    BY <2>2, SubmittingCarries, UsersAssumption
<1> QED
  BY <1>1, <1>3, <1>4, <1>5, TaskStepKeeps DEF Counted, Removing

\* The insert is tried again after one more loss,
LEMMA RetryInsertKeeps ==
  ASSUME SubmissionInv, NEW t \in Handlers, RetryInsert(t),
         task[t].pc \in Submitting, task[t].inserts <= task[t].losses,
         UNCHANGED <<row, subscribers, submitted>>,
         task[t].request # NoRow => row[task[t].request].status = "deleted"
  PROVE  SubmissionInv'
<1>1. Carries(task[t]) /\ task[t].user \in Users
  BY SubmittingCarries
<1>2. CASE task[t].inserts < InsertAttempts
  <2>1. ToInsert(t, task[t], task[t].owned) /\ task[t].owned \in BOOLEAN
    BY <1>1, <1>2 DEF RetryInsert, Carries, TaskState
  <2>2. PICK new \in TaskState :
           /\ task' = [task EXCEPT ![t] = new]
           /\ Remembers(t)'
           /\ new.pc \notin Counted \cup Removing
    BY <1>1, <1>2, <2>1, ToInsertRemembers
  <2>3. subscribers' \in [Requests -> SUBSET Users] /\ submitted' \in 0 .. MaxSubmissions
    BY DEF SubmissionInv, TypeOK
  <2>4. task[t].pc \in Joining => row[task[t].request].fulfiller # task[t].user
    <3> SUFFICES ASSUME task[t].pc \in Joining
                 PROVE  row[task[t].request].fulfiller # task[t].user
      OBVIOUS
    <3>1. task[t].request \in Requests
      BY DEF SubmissionInv, TypeOK, TaskState, Remembers
    <3>2. row[task[t].request].fulfiller = NoUser
      BY <3>1 DEF SubmissionInv, RowOK, Remembers
    <3> QED
      BY <1>1, <3>2, UsersAssumption
  <2> QED
    BY <2>2, <2>3, <2>4, TaskStepKeeps DEF Removing
<1>3. CASE ~(task[t].inserts < InsertAttempts)
  <2>1. Go(t, "conflict") /\ task[t].inserts = InsertAttempts
    BY <1>1, <1>3, BoundsAssumption DEF RetryInsert, Carries, TaskState
  <2> QED
    BY <2>1, ConflictKeeps
<1> QED
  BY <1>2, <1>3

\* when the request that won the race is gone already,
LEMMA FindWinnerKeeps ==
  ASSUME SubmissionInv, NEW t \in Handlers, FindWinner(t)
  PROVE  SubmissionInv'
<1>1. /\ task[t].pc = "lost_race" /\ UNCHANGED <<row, subscribers, submitted>>
      /\ task[t].pc \in Submitting /\ task[t].pc \notin Joining
  BY DEF FindWinner, At, Submitting, Inserting, Joining
<1>2. CASE \E r \in Matches(task[t].work) : Join(t, task[t], r)
  <2>1. PICK r \in Requests : Live(r) /\ Join(t, task[t], r)
    BY <1>2 DEF Matches
  <2>2. submitted' \in 0 .. MaxSubmissions
    BY <1>1 DEF SubmissionInv, TypeOK
  <2> QED
    BY <1>1, <2>1, <2>2, SubmittingCarries, JoinRemembers, PlainStepKeeps
<1>3. CASE Matches(task[t].work) = {} /\ RetryInsert(t)
  <2>1. task[t].inserts <= task[t].losses /\ task[t].request = NoRow
    BY <1>1, <1>3 DEF SubmissionInv, Remembers, Explained, Inserting
  <2> QED
    BY <1>1, <1>3, <2>1, RetryInsertKeeps
<1> QED
  BY <1>2, <1>3 DEF FindWinner

\* or the submission is refused.
LEMMA ConflictEnds ==
  ASSUME SubmissionInv, NEW t \in Handlers, Conflict(t)
  PROVE  SubmissionInv'
BY ReturnKeeps DEF Conflict, At, Joining, SubmissionInv, TypeOK

-------------------------------------------------------------------------------
(***************************************************************************)
(* Joining the request that was found.                                     *)
(***************************************************************************)

\* The next place of an activation that goes on joining.
LEMMA JoiningGoes ==
  ASSUME SubmissionInv, NEW t \in Handlers, NEW pc \in Joining, Go(t, pc),
         task[t].pc \in Joining, pc # "claim_count",
         pc = "claim_counted" => task[t].pc = "claim_count" /\ ~CapLock(task[t].user)
           /\ Cardinality(LiveSelfServe(task[t].user)) < MaxLive,
         UNCHANGED <<row, subscribers, submitted>>
  PROVE  SubmissionInv'
<1>1. PICK new \in TaskState :
         /\ task' = [task EXCEPT ![t] = new]
         /\ task'[t] = new
         /\ new.pc = pc
         /\ new.user = task[t].user /\ new.work = task[t].work
         /\ new.selfServe = task[t].selfServe /\ new.request = task[t].request
         /\ new.inserts = task[t].inserts /\ new.losses = task[t].losses
  BY GoMoves DEF Pcs, Joining
<1>2. Remembers(t)
  BY DEF SubmissionInv
<1>3. Explained(t)'
  BY <1>1, <1>2 DEF Remembers, Explained, Submitting, Inserting, Joining, Live
<1>4. Remembers(t)'
  BY <1>1, <1>2, <1>3
     DEF Remembers, Free, Submitting, Inserting, Joining, Removing, Counted
<1>5. subscribers' \in [Requests -> SUBSET Users] /\ submitted' \in 0 .. MaxSubmissions
  BY DEF SubmissionInv, TypeOK
<1>6. new.pc \in Joining /\ new.pc \notin Removing
      /\ (new.pc \in Counted => new.pc = "claim_counted")
  BY <1>1 DEF Joining, Removing, Counted
<1> QED
  BY <1>1, <1>4, <1>5, <1>6, TaskStepKeeps DEF Removing

\* The count before a request is taken on, under the lock.
LEMMA CountForClaimKeeps ==
  ASSUME SubmissionInv, NEW t \in Handlers, CountForClaim(t)
  PROVE  SubmissionInv'
<1>1. /\ task[t].pc = "claim_count" /\ ~CapLock(task[t].user)
      /\ \/ Cardinality(LiveSelfServe(task[t].user)) < MaxLive /\ Go(t, "claim_counted")
         \/ Go(t, "attach")
      /\ UNCHANGED <<row, subscribers, submitted>>
  BY DEF CountForClaim, Count, At
<1> QED
  BY <1>1, JoiningGoes DEF Joining

\* The request that was found is read again, and may be gone.
LEMMA AttachKeeps ==
  ASSUME SubmissionInv, NEW t \in Handlers, Attach(t)
  PROVE  SubmissionInv'
<1> DEFINE r == task[t].request
<1>1. /\ task[t].pc = "attach" /\ UNCHANGED <<row, subscribers, submitted>>
      /\ task[t].pc \in Submitting /\ task[t].pc \in Joining
  BY DEF Attach, At, Submitting, Inserting, Joining
<1>2. r \in Requests /\ r # NoRow /\ row[r].status # "absent" /\ row[r] \in Row
  BY <1>1 DEF SubmissionInv, TypeOK, TaskState, Remembers
<1>3. RowOK(r)
  BY <1>2 DEF SubmissionInv
<1>4. subscribers' \in [Requests -> SUBSET Users]
  BY <1>1 DEF SubmissionInv, TypeOK
<1>5. CASE Exists(r) /\ row[r].user = task[t].user /\ Return(t)
  <2>1. row[r].fulfiller # task[t].user
    BY <1>1, <1>3, <1>5, SubmittingCarries, UsersAssumption DEF RowOK
  <2> QED
    BY <1>1, <1>4, <1>5, <2>1, ReturnKeeps
<1>6. CASE Exists(r) /\ row[r].user # task[t].user /\ Go(t, "subscribe")
  BY <1>1, <1>6, JoiningGoes DEF Joining
<1>7. CASE ~Exists(r)
  <2>1. row[r].status = "deleted"
    BY <1>2, <1>7 DEF Exists, Row
  <2>2. row[r].fulfiller # task[t].user
    BY <1>1, <1>3, <2>1, SubmittingCarries, UsersAssumption DEF RowOK
  <2>3. task[t].inserts <= task[t].losses
    BY <1>1, <2>1 DEF SubmissionInv, Remembers, Explained, Live, ActiveRequest
  <2>4. CASE RetryInsert(t)
    BY <1>1, <2>1, <2>3, <2>4, RetryInsertKeeps
  <2>5. CASE Return(t)
    BY <1>1, <1>4, <2>2, <2>5, ReturnKeeps
  <2> QED
    BY <1>7, <2>4, <2>5 DEF Attach
<1> QED
  BY <1>5, <1>6, <1>7 DEF Attach

\* The submission subscribes to it, or finds it gone.
LEMMA SubscribeKeeps ==
  ASSUME SubmissionInv, NEW t \in Handlers, Subscribe(t)
  PROVE  SubmissionInv'
<1> DEFINE r == task[t].request
<1>1. task[t].pc = "subscribe" /\ UNCHANGED <<row, submitted>> /\ Return(t)
      /\ task[t].pc \in Submitting /\ task[t].pc \in Joining
  BY DEF Subscribe, At, Submitting, Inserting, Joining
<1>2. task[t].user \in Users /\ task[t].user # NoUser
  BY <1>1, SubmittingCarries, UsersAssumption
<1>3. r \in Requests /\ row[r].status # "absent" /\ row[r] \in Row /\ RowOK(r) /\ r # NoRow
  BY <1>1 DEF SubmissionInv, TypeOK, TaskState, Remembers
<1>4. subscribers \in [Requests -> SUBSET Users]
  BY DEF SubmissionInv, TypeOK
<1>5. CASE Exists(r)
  <2>1. subscribers' = [subscribers EXCEPT ![r] = @ \cup {task[t].user}]
    BY <1>5 DEF Subscribe
  <2>2. /\ subscribers' \in [Requests -> SUBSET Users]
        /\ \A q \in Requests : subscribers[q] \subseteq subscribers'[q]
        /\ task[t].user \in subscribers'[r]
    BY <1>2, <1>3, <1>4, <2>1
  <2> QED
    BY <1>1, <2>2, ReturnKeeps
<1>6. CASE ~Exists(r)
  <2>1. row[r].status = "deleted"
    BY <1>3, <1>6 DEF Exists, Row
  <2>2. row[r].fulfiller # task[t].user
    BY <1>2, <1>3, <2>1 DEF RowOK
  <2>3. subscribers' = subscribers
    BY <1>6 DEF Subscribe
  <2> QED
    BY <1>1, <1>4, <2>2, <2>3, ReturnKeeps
<1> QED
  BY <1>5, <1>6

-------------------------------------------------------------------------------
(***************************************************************************)
(* Steps that write one row.                                               *)
(***************************************************************************)

\* An activation writes the row of one request.
LEMMA RowStepKeeps ==
  ASSUME SubmissionInv, NEW t \in Handlers, NEW new \in TaskState,
         task' = [task EXCEPT ![t] = new],
         NEW r \in Requests, NEW v \in Row, row' = [row EXCEPT ![r] = v],
         UNCHANGED submitted, subscribers' \in [Requests -> SUBSET Users],
         \A q \in Requests \ {r} : subscribers'[q] = subscribers[q],
         task[t].pc \in Joining => task[t].request = r,
         Aged, Remembers(t)', RowOK(r)', Follows(r)',
         CapKept',
         "remove_twice" \notin Operations => Reserved'
  PROVE  SubmissionInv'
<1>1. TypeOK'
  BY DEF SubmissionInv, TypeOK
<1>2. task'[t] = new /\ \A u \in Handlers \ {t} : task'[u] = task[u]
  BY DEF SubmissionInv, TypeOK
<1>3. \A u \in Handlers : Remembers(u)'
  BY <1>2, AllRemember
<1>4. ASSUME NEW q \in Requests \ {r}
      PROVE  RowOK(q)' /\ Follows(q)'
  <2>1. row'[q] = row[q] /\ RowOK(q) /\ Follows(q)
    BY DEF SubmissionInv, TypeOK
  <2>2. \A u \in Handlers : task[u].pc \in Joining /\ task[u].request = q => u # t
    OBVIOUS
  <2> QED
    BY <1>2, <2>1, <2>2 DEF RowOK, Follows
<1> QED
  BY <1>1, <1>3, <1>4 DEF SubmissionInv

\* What one row's new value does to who is counted.
LEMMA ChangedLive ==
  ASSUME row \in [Requests -> Row], NEW r \in Requests, NEW v \in Row,
         row' = [row EXCEPT ![r] = v], NEW u
  PROVE  /\ CountedSelfServe(u)' \subseteq CountedSelfServe(u) \cup {r}
         /\ (v.status \in ActiveRequest /\ v.selfServe /\ ~v.revived =>
               IF v.fulfiller = NoUser THEN v.user # u ELSE v.fulfiller # u)
              => CountedSelfServe(u)' \subseteq CountedSelfServe(u)
<1>1. row'[r] = v /\ \A q \in Requests \ {r} : row'[q] = row[q]
  OBVIOUS
<1> QED
  BY <1>1 DEF CountedSelfServe, LiveSelfServe, Live, Drives

\* The insert is refused by the index,
LEMMA InsertLoses ==
  ASSUME SubmissionInv, NEW t \in Handlers, task[t].pc \in {"insert", "insert_counted"},
         ~KeyFree(task[t].work, NoRow), Go(t, "lost_race"),
         UNCHANGED <<row, subscribers, submitted>>
  PROVE  SubmissionInv'
<1>1. PICK new \in TaskState :
         /\ task' = [task EXCEPT ![t] = new]
         /\ task'[t] = new
         /\ new.pc = "lost_race"
         /\ new.user = task[t].user /\ new.work = task[t].work
         /\ new.selfServe = task[t].selfServe /\ new.request = task[t].request
         /\ new.inserts = task[t].inserts /\ new.losses = task[t].losses
  BY GoMoves DEF Pcs
<1>2. Matches(task[t].work) # {}
  BY LostRaceMatches DEF SubmissionInv, TypeOK, TaskState
<1>3. Matches(task[t].work)' # {}
  <2>1. PICK q \in Requests : Live(q) /\ Keys(row[q].work) \cap Keys(task[t].work) # {}
    BY <1>2 DEF Matches
  <2> QED
    BY <1>1, <2>1 DEF Matches, Live
<1>4. Remembers(t)'
  BY <1>1, <1>3
     DEF SubmissionInv, Remembers, Explained, Free, Submitting, Inserting, Joining,
         Removing, Counted
<1>5. submitted' \in 0 .. MaxSubmissions
  BY DEF SubmissionInv, TypeOK
<1> QED
  BY <1>1, <1>4, <1>5, PlainStepKeeps DEF Joining, Counted, Removing

\* or takes place.
LEMMA InsertSucceeds ==
  ASSUME SubmissionInv, NEW t \in Handlers, task[t].pc \in {"insert", "insert_counted"},
         NEW r \in Requests, IsNextRequest(r), Return(t), UNCHANGED <<subscribers, submitted>>,
         row' = [row EXCEPT ![r] = [AbsentRow EXCEPT
                   !.status = CreatedStatus(t), !.work = task[t].work, !.user = task[t].user,
                   !.selfServe = task[t].selfServe]]
  PROVE  SubmissionInv'
<1> DEFINE v == [AbsentRow EXCEPT
                   !.status = CreatedStatus(t), !.work = task[t].work, !.user = task[t].user,
                   !.selfServe = task[t].selfServe]
<1>1. Carries(task[t]) /\ task[t].user \in Users /\ Remembers(t)
      /\ row \in [Requests -> Row] /\ task \in [Handlers -> TaskState]
  BY SubmittingCarries DEF Submitting, Inserting, SubmissionInv, TypeOK
<1>2. /\ v.status = CreatedStatus(t) /\ v.work = task[t].work /\ v.user = task[t].user
      /\ v.selfServe = task[t].selfServe /\ v.fulfiller = NoUser
      /\ v.status \in {"available", "approved", "pending"}
      /\ v \in Row
  BY <1>1 DEF AbsentRow, CreatedStatus, Carries, TaskState, Row, RequestStatuses
<1>3. row' = [row EXCEPT ![r] = v]
  OBVIOUS
<1> HIDE DEF v
<1>4. row'[r] = v /\ (\A q \in Requests \ {r} : row'[q] = row[q]) /\ row[r].status = "absent"
  BY <1>1, <1>3 DEF IsNextRequest
<1>5. Aged
  BY <1>1, <1>4 DEF Aged, Live, ActiveRequest
<1>6. RowOK(r)' /\ Follows(r)'
  BY <1>2, <1>4 DEF RowOK, Follows
<1>7. task' = [task EXCEPT ![t] = Idle] /\ task'[t] = Idle /\ Remembers(t)' /\ Idle.pc = "idle"
      /\ \A s \in Handlers \ {t} : task'[s] = task[s]
  BY <1>1, ReturnMoves
<1>8. CapKept'
  <2>1. CASE task[t].pc = "insert"
    <3>1. v.status \in ActiveRequest => ~v.selfServe
      BY <1>1, <1>2, <2>1 DEF Remembers, CreatedStatus, ActiveRequest
    <3>2. \A u \in Users : CountedSelfServe(u)' \subseteq CountedSelfServe(u)
      BY <1>1, <1>2, <1>3, <3>1, ChangedLive
    <3> QED
      BY <1>7, <3>2, FewerKeepCap DEF SubmissionInv, Counted
  <2>2. CASE task[t].pc = "insert_counted"
    <3>1. PICK u \in Users : u = task[t].user
      BY <1>1
    <3>2. CountedSelfServe(u)' \subseteq CountedSelfServe(u) \cup {r}
      BY <1>1, <1>2, <1>3, ChangedLive
    <3>3. \A w \in Users \ {u} : CountedSelfServe(w)' \subseteq CountedSelfServe(w)
      BY <1>1, <1>2, <1>3, <3>1, ChangedLive
    <3> QED
      BY <1>7, <2>2, <3>1, <3>2, <3>3, OneMoreKeepsCap DEF SubmissionInv, Counted
  <2> QED
    BY <2>1, <2>2
<1>9. ASSUME "remove_twice" \notin Operations
      PROVE  Reserved'
  <2>1. Reserved /\ \A s \in Handlers : task'[s].pc \in Removing => s # t
    BY <1>7, <1>9 DEF SubmissionInv, Removing
  <2>2. \A s \in Handlers : task[s].pc \in Removing => task[s].request \in Requests \ {r}
    BY <1>4 DEF SubmissionInv, Remembers, TypeOK, TaskState
  <2> QED
    BY <1>4, <1>7, <2>1, <2>2 DEF Reserved, At, Removing
<1>10. subscribers' \in [Requests -> SUBSET Users] /\ task[t].pc \notin Joining
  BY DEF SubmissionInv, TypeOK, Joining
<1> QED
  BY <1>2, <1>3, <1>5, <1>6, <1>7, <1>8, <1>9, <1>10, IdleIsATask, RowStepKeeps

\* Either way.
LEMMA InsertKeeps ==
  ASSUME SubmissionInv, NEW t \in Handlers, Insert(t)
  PROVE  SubmissionInv'
<1>1. task[t].pc \in {"insert", "insert_counted"} /\ UNCHANGED <<subscribers, submitted>>
  BY DEF Insert, At
<1> DEFINE v == [AbsentRow EXCEPT
                   !.status = CreatedStatus(t), !.work = task[t].work, !.user = task[t].user,
                   !.selfServe = task[t].selfServe]
<1>2. CASE \E r \in Requests : IsNextRequest(r) /\ row' = [row EXCEPT ![r] = v] /\ Return(t)
  BY <1>1, <1>2, InsertSucceeds
<1>3. CASE ~KeyFree(task[t].work, NoRow) /\ Go(t, "lost_race") /\ UNCHANGED row
  BY <1>1, <1>3, InsertLoses
<1> QED
  BY <1>2, <1>3 DEF Insert

\* A request is taken on under the cap, if nobody drives it.
LEMMA ClaimKeeps ==
  ASSUME SubmissionInv, NEW t \in Handlers, Claim(t)
  PROVE  SubmissionInv'
<1>1. PICK r \in Requests : r = task[t].request
  BY DEF Claim, At, Joining, SubmissionInv, TypeOK, TaskState, Remembers
<1> DEFINE claimable == /\ row[r].status \in {"pending", "approved"}
                        /\ ~row[r].selfServe /\ row[r].fulfiller = NoUser
           v == [row[r] EXCEPT !.selfServe = TRUE, !.fulfiller = task[t].user,
                               !.status = "approved"]
<1>2. /\ task[t].pc = "claim_counted" /\ task[t].pc \in Joining /\ task[t].pc \in Submitting
      /\ Go(t, "attach") /\ UNCHANGED <<subscribers, submitted>>
      /\ row' = IF claimable THEN [row EXCEPT ![r] = v] ELSE row
  BY <1>1 DEF Claim, At, Joining, Submitting, Inserting
<1>3. CASE ~claimable
  BY <1>2, <1>3, JoiningGoes DEF Joining
<1>4. CASE claimable
  <2>1. /\ row \in [Requests -> Row] /\ task \in [Handlers -> TaskState]
        /\ Remembers(t) /\ r \in Requests /\ task[t].user \in Users
        /\ task[t].selfServe /\ task[t].user \in SelfFulfillers /\ row[r].user # task[t].user
        /\ r # NoRow /\ task[t].inserts <= task[t].losses + 1
    BY <1>1, <1>2, SubmittingCarries
       DEF Carries, SubmissionInv, TypeOK, TaskState, Remembers, Counted
  <2>2. /\ v \in Row /\ v.status = "approved" /\ v.selfServe = TRUE /\ v.user = row[r].user
        /\ v.fulfiller = task[t].user /\ v.work = row[r].work
    <3>1. row[r] \in Row /\ "approved" \in RequestStatuses
      BY <2>1 DEF RequestStatuses
    <3> QED
      BY <2>1, <3>1 DEF Row
  <2>3. row' = [row EXCEPT ![r] = v]
    BY <1>2, <1>4
  <2> HIDE DEF v
  <2>4. row'[r] = v /\ \A q \in Requests \ {r} : row'[q] = row[q]
    BY <2>1, <2>3
  <2>5. Aged
    BY <1>4, <2>1, <2>2, <2>4 DEF Aged, Live, ActiveRequest
  <2>6. PICK new \in TaskState :
           /\ task' = [task EXCEPT ![t] = new]
           /\ task'[t] = new
           /\ new.pc = "attach"
           /\ new.user = task[t].user /\ new.work = task[t].work
           /\ new.selfServe = task[t].selfServe /\ new.request = task[t].request
           /\ new.inserts = task[t].inserts /\ new.losses = task[t].losses
    BY <1>2, GoMoves DEF Pcs
  <2>7. \A s \in Handlers \ {t} : task'[s] = task[s]
    BY <2>1, <2>6
  <2>8. Live(r)'
    BY <2>2, <2>4 DEF Live, ActiveRequest
  <2>9. Remembers(t)'
    BY <1>1, <2>1, <2>2, <2>4, <2>6, <2>8
       DEF Remembers, Explained, Free, Submitting, Inserting, Joining, Removing, Counted, Live
  <2>10. RowOK(r)' /\ Follows(r)'
    BY <1>1, <2>1, <2>2, <2>4, <2>6 DEF RowOK, Follows, Joining
  <2>11. CapKept'
    <3>1. PICK u \in Users : u = task[t].user
      BY <2>1
    <3>2. CountedSelfServe(u)' \subseteq CountedSelfServe(u) \cup {r}
      BY <2>1, <2>2, <2>3, ChangedLive
    <3>3. \A w \in Users \ {u} : CountedSelfServe(w)' \subseteq CountedSelfServe(w)
      <4>1. v.fulfiller # NoUser
        BY <2>1, <2>2, UsersAssumption
      <4>2. \A w \in Users \ {u} : v.fulfiller # w
        BY <2>2, <3>1
      <4> QED
        BY <2>1, <2>2, <2>3, <4>1, <4>2, ChangedLive
    <3> QED
      BY <1>2, <2>6, <2>7, <3>1, <3>2, <3>3, OneMoreKeepsCap
         DEF SubmissionInv, Counted
  <2>12. ASSUME "remove_twice" \notin Operations
         PROVE  Reserved'
    <3>1. Reserved /\ \A s \in Handlers : task'[s].pc \in Removing => s # t
      BY <2>6, <2>12 DEF SubmissionInv, Removing
    <3>2. \A s \in Handlers : At(s, "detach") => task[s].request \in Requests \ {r}
      BY <1>4, <3>1
         DEF SubmissionInv, Remembers, TypeOK, TaskState, Reserved, ActiveRequest, At, Removing
    <3> QED
      BY <2>4, <2>7, <3>1, <3>2 DEF Reserved, At, Removing
  <2>13. subscribers' \in [Requests -> SUBSET Users]
    BY <1>2 DEF SubmissionInv, TypeOK
  <2> QED
    BY <1>1, <1>2, <2>1, <2>2, <2>3, <2>5, <2>6, <2>9, <2>10, <2>11, <2>12, <2>13, RowStepKeeps
<1> QED
  BY <1>3, <1>4

-------------------------------------------------------------------------------
(***************************************************************************)
(* remove.                                                                 *)
(***************************************************************************)
LEMMA RemoveKeeps ==
  ASSUME SubmissionInv, NEW t \in Handlers, NEW r \in Requests, Remove(t, r)
  PROVE  SubmissionInv'
<1> DEFINE pc == IF row[r].status = "failed" THEN "reserve" ELSE "detach"
           new == [task[t] EXCEPT !.pc = pc, !.request = r, !.was = row[r].status]
<1>1. task[t] = Idle /\ task[t] \in TaskState /\ row[r].status \in Settled
      /\ UNCHANGED <<row, subscribers, submitted>> /\ task \in [Handlers -> TaskState]
  BY DEF Remove, SubmissionInv, Remembers, TypeOK
<1>2. task' = [task EXCEPT ![t] = new] /\ task'[t] = new
  BY <1>1 DEF Remove
<1>3. /\ new \in TaskState /\ new.pc = pc /\ new.request = r /\ new.user = NoUser
      /\ new.selfServe = FALSE
  <2>1. task[t].user = NoUser /\ task[t].selfServe = FALSE
    BY <1>1 DEF Idle
  <2>2. pc \in Pcs
    BY DEF Pcs
  <2> QED
    BY <1>1, <2>1, <2>2 DEF TaskState
<1> HIDE DEF new
<1>4. Remembers(t)'
  BY <1>1, <1>2, <1>3
     DEF Remembers, Explained, Free, Submitting, Inserting, Joining, Removing, Counted,
         Settled, RequestStatuses, Requests, NoRow
<1>5. "remove_twice" \notin Operations =>
        \A s \in Handlers \ {t} : task[s].pc \in Removing => task[s].request # new.request
  BY <1>3 DEF Remove, BeingRemoved, On, Removing
<1>6. new.pc = "detach" =>
        row[new.request].status \notin ActiveRequest \cup {"failed", "absent"}
  BY <1>1, <1>3 DEF Settled, RequestStatuses
<1>7. subscribers' \in [Requests -> SUBSET Users] /\ submitted' \in 0 .. MaxSubmissions
  BY <1>1 DEF SubmissionInv, TypeOK
<1>8. task[t].pc \notin Joining /\ new.pc \notin Counted
  BY <1>1, <1>3 DEF Idle, Joining, Counted
<1> QED
  BY <1>1, <1>2, <1>3, <1>4, <1>5, <1>6, <1>7, <1>8, TaskStepKeeps

\* The transfer is taken out of its client.
LEMMA DetachKeeps ==
  ASSUME SubmissionInv, NEW t \in Handlers, Detach(t)
  PROVE  SubmissionInv'
<1>1. task[t].pc = "detach" /\ Go(t, "delete") /\ UNCHANGED <<row, subscribers, submitted>>
  BY DEF Detach, At
<1>2. PICK new \in TaskState :
         /\ task' = [task EXCEPT ![t] = new]
         /\ task'[t] = new
         /\ new.pc = "delete"
         /\ new.user = task[t].user /\ new.work = task[t].work
         /\ new.selfServe = task[t].selfServe /\ new.request = task[t].request
  BY <1>1, GoMoves DEF Pcs
<1>3. Remembers(t)'
  BY <1>1, <1>2
     DEF SubmissionInv, Remembers, Explained, Free, Submitting, Inserting, Joining, Removing,
         Counted
<1>4. subscribers' \in [Requests -> SUBSET Users] /\ submitted' \in 0 .. MaxSubmissions
  BY <1>1 DEF SubmissionInv, TypeOK
<1>5. "remove_twice" \notin Operations => \A s \in Handlers \ {t} :
        task[s].pc \in Removing => task[s].request # new.request
  BY <1>1, <1>2 DEF SubmissionInv, Reserved, Removing
<1> QED
  BY <1>1, <1>2, <1>3, <1>4, <1>5, TaskStepKeeps DEF Joining, Counted

\* A deletion changes the row it is about from one settled status to another, or away.
LEMMA RemovalWriteKeeps ==
  ASSUME SubmissionInv, NEW t \in Handlers, task[t].pc \in Removing,
         NEW r \in Requests, r = task[t].request, NEW v \in Row, NEW new \in TaskState,
         row' = [row EXCEPT ![r] = v], task' = [task EXCEPT ![t] = new],
         row[r].status \in Settled, v.status \in Settled \cup {"deleted"},
         \/ v = [row[r] EXCEPT !.status = v.status] /\ v.status \in Settled
            /\ UNCHANGED subscribers
         \/ v = [AbsentRow EXCEPT !.status = "deleted"]
            /\ subscribers' = [subscribers EXCEPT ![r] = {}],
         UNCHANGED submitted,
         \/ new = Idle
         \/ new.pc = "detach" /\ new.request = r /\ v.status # "failed" /\ v.status # "deleted"
            /\ new.user = task[t].user /\ new.selfServe = task[t].selfServe
  PROVE  SubmissionInv'
<1>1. /\ row \in [Requests -> Row] /\ task \in [Handlers -> TaskState]
      /\ Remembers(t) /\ RowOK(r) /\ subscribers \in [Requests -> SUBSET Users]
      /\ r # NoRow /\ task[t].user = NoUser /\ row[r] \in Row
  BY DEF SubmissionInv, TypeOK, Remembers, Removing, Requests, NoRow
<1>2. row'[r] = v /\ \A q \in Requests \ {r} : row'[q] = row[q]
  BY <1>1
<1>3. task'[t] = new /\ \A s \in Handlers \ {t} : task'[s] = task[s]
  BY <1>1
<1>4. /\ v.user \in {row[r].user, NoUser} /\ v.status \notin ActiveRequest
      /\ v.status # "absent" /\ row[r].status \notin ActiveRequest \cup {"absent", "deleted"}
  <2>1. CASE v = [row[r] EXCEPT !.status = v.status]
    <3>1. v.user = row[r].user /\ v.fulfiller = row[r].fulfiller
      BY <1>1, <2>1 DEF Row
    <3> QED
      BY <3>1 DEF Settled, RequestStatuses, ActiveRequest
  <2>2. CASE v = [AbsentRow EXCEPT !.status = "deleted"]
    BY <2>2 DEF Settled, RequestStatuses, ActiveRequest, AbsentRow
  <2> QED
    BY <2>1, <2>2
<1>5. Aged
  BY <1>1, <1>2, <1>4 DEF Aged, Live
<1>6. Remembers(t)'
  <2>1. Idle.pc = "idle" /\ Idle.selfServe = FALSE
    BY DEF Idle
  <2> QED
    BY <1>1, <1>2, <1>3, <1>4, <2>1
       DEF Remembers, Explained, Free, Submitting, Inserting, Joining, Removing, Counted
<1>7. RowOK(r)' /\ Follows(r)'
  <2>1. CASE v = [row[r] EXCEPT !.status = v.status] /\ v.status \in Settled
             /\ UNCHANGED subscribers
    <3>1. /\ v.user = row[r].user /\ v.fulfiller = row[r].fulfiller
          /\ v.selfServe = row[r].selfServe /\ v.status \notin {"absent", "deleted"}
      BY <1>1, <2>1 DEF Row, Settled, RequestStatuses
    <3>2. RowOK(r)'
      BY <1>1, <1>2, <3>1 DEF RowOK
    <3>3. Follows(r)'
      <4>1. Follows(r)
        BY DEF SubmissionInv
      <4>2. \A u \in Handlers : task[u].pc \in Joining => u # t
        BY DEF Joining, Removing
      <4> QED
        BY <1>2, <1>3, <2>1, <3>1, <4>1, <4>2 DEF Follows
    <3> QED
      BY <3>2, <3>3
  <2>2. CASE v = [AbsentRow EXCEPT !.status = "deleted"]
    BY <1>2, <2>2 DEF RowOK, Follows, AbsentRow
  <2> QED
    BY <2>1, <2>2
<1>8. CapKept'
  <2>1. ASSUME NEW u \in Users PROVE CountedSelfServe(u)' \subseteq CountedSelfServe(u)
    <3>1. ~(v.status \in ActiveRequest)
      BY <1>4
    <3> QED
      BY <1>1, <3>1, ChangedLive
  <2>2. new.pc \notin Counted
    BY DEF Idle, Counted
  <2> QED
    BY <1>3, <2>1, <2>2, FewerKeepCap DEF SubmissionInv
<1>9. ASSUME "remove_twice" \notin Operations
      PROVE  Reserved'
  <2>1. Reserved /\ \A s \in Handlers \ {t} : task[s].pc \in Removing => task[s].request # r
    BY <1>9 DEF SubmissionInv, Reserved
  <2>2. new.pc \in Removing => new.request = r
    BY DEF Idle, Removing
  <2>3. new.pc = "detach" => v.status \notin ActiveRequest \cup {"failed", "absent"}
    BY <1>4 DEF Idle
  <2>4. \A s, q \in Handlers : task'[s].pc \in Removing /\ task'[q].pc \in Removing
          /\ task'[s].request = task'[q].request => s = q
    BY <1>3, <2>1, <2>2 DEF Reserved
  <2>5. \A s \in Handlers : At(s, "detach")' =>
          row'[task'[s].request].status \notin ActiveRequest \cup {"failed", "absent"}
    <3> SUFFICES ASSUME NEW s \in Handlers, task'[s].pc = "detach"
                 PROVE  row'[task'[s].request].status
                          \notin ActiveRequest \cup {"failed", "absent"}
      BY DEF At
    <3>1. CASE s = t
      BY <1>2, <1>3, <2>2, <2>3, <3>1 DEF Removing
    <3>2. CASE s # t
      <4>1. task[s].pc = "detach" /\ task'[s] = task[s] /\ task[s].request # r
        BY <1>3, <2>1, <3>2 DEF Removing
      <4>2. task[s].request \in Requests
        BY <4>1 DEF SubmissionInv, TypeOK, TaskState, Remembers, Removing
      <4> QED
        BY <1>2, <2>1, <4>1, <4>2 DEF Reserved, At
    <3> QED
      BY <3>1, <3>2
  <2> QED
    BY <2>4, <2>5 DEF Reserved, At
<1>10. /\ subscribers' \in [Requests -> SUBSET Users]
       /\ \A q \in Requests \ {r} : subscribers'[q] = subscribers[q]
       /\ task[t].pc \notin Joining
  BY <1>1 DEF Joining, Removing
<1> QED
  BY <1>5, <1>6, <1>7, <1>8, <1>9, <1>10, RowStepKeeps

\* The request is cancelled for the time of a deletion.
LEMMA ReserveKeeps ==
  ASSUME SubmissionInv, NEW t \in Handlers, Reserve(t)
  PROVE  SubmissionInv'
<1>1. task[t].pc = "reserve" /\ task[t].pc \in Removing /\ task[t].pc \notin Joining
      /\ UNCHANGED <<subscribers, submitted>>
  BY DEF Reserve, At, Removing, Joining
<1>2. PICK r \in Requests : r = task[t].request
  BY <1>1 DEF SubmissionInv, TypeOK, TaskState, Remembers
<1>3. CASE row[r].status = "failed"
  <2> DEFINE v == [row[r] EXCEPT !.status = "cancelled"]
  <2>1. row[r] \in Row
    BY DEF SubmissionInv, TypeOK
  <2>2. /\ v \in Row /\ v.status = "cancelled" /\ v = [row[r] EXCEPT !.status = v.status]
        /\ "failed" \in Settled /\ "cancelled" \in Settled
    BY <2>1 DEF Row, Settled, RequestStatuses, ActiveRequest
  <2>3. Go(t, "detach") /\ row' = [row EXCEPT ![r] = v]
    BY <1>2, <1>3 DEF Reserve
  <2> HIDE DEF v
  <2>4. PICK new \in TaskState :
           /\ task' = [task EXCEPT ![t] = new]
           /\ new.pc = "detach" /\ new.user = task[t].user
           /\ new.selfServe = task[t].selfServe /\ new.request = task[t].request
    BY <2>3, GoMoves DEF Pcs
  <2>5. /\ row[r].status \in Settled
        /\ v.status \in Settled /\ v.status \in Settled \cup {"deleted"}
        /\ v.status # "failed" /\ v.status # "deleted"
        /\ new.request = r
    BY <1>2, <1>3, <2>2, <2>4
  <2>6. task[t].pc \in Removing /\ UNCHANGED submitted /\ UNCHANGED subscribers
    BY <1>1
  <2> QED
    BY <1>2, <2>2, <2>3, <2>4, <2>5, <2>6, RemovalWriteKeeps
<1>4. CASE row[r].status # "failed"
  <2>1. Return(t) /\ UNCHANGED row
    BY <1>2, <1>4 DEF Reserve
  <2> QED
    BY <1>1, <2>1, ReturnKeeps DEF SubmissionInv, TypeOK
<1> QED
  BY <1>3, <1>4

\* The client refuses, and the reservation is given back.
LEMMA DetachRefusedKeeps ==
  ASSUME SubmissionInv, NEW t \in Handlers, DetachRefused(t)
  PROVE  SubmissionInv'
<1>1. task[t].pc = "detach" /\ task[t].pc \in Removing /\ task[t].pc \notin Joining
      /\ Return(t) /\ UNCHANGED <<subscribers, submitted>>
  BY DEF DetachRefused, At, Removing, Joining
<1>2. PICK r \in Requests : r = task[t].request
  BY <1>1 DEF SubmissionInv, TypeOK, TaskState, Remembers
<1>3. CASE task[t].was = "failed" /\ row[r].status = "cancelled"
  <2> DEFINE v == [row[r] EXCEPT !.status = "failed"]
  <2>1. row[r] \in Row
    BY DEF SubmissionInv, TypeOK
  <2>2. /\ v \in Row /\ v.status = "failed" /\ v = [row[r] EXCEPT !.status = v.status]
        /\ "failed" \in Settled /\ "cancelled" \in Settled
    BY <2>1 DEF Row, Settled, RequestStatuses, ActiveRequest
  <2>3. row' = [row EXCEPT ![r] = v]
    BY <1>2, <1>3 DEF DetachRefused
  <2> HIDE DEF v
  <2>4. task' = [task EXCEPT ![t] = Idle]
    BY <1>1 DEF Return
  <2>5. Idle \in TaskState /\ row[r].status \in Settled /\ v.status \in Settled \cup {"deleted"}
    BY <1>3, <2>2, IdleIsATask
  <2> QED
    <3>1. v = [row[r] EXCEPT !.status = v.status] /\ v.status \in Settled
          /\ UNCHANGED subscribers
      BY <1>1, <2>2
    <3>2. task[t].pc \in Removing /\ UNCHANGED submitted /\ r = task[t].request /\ v \in Row
      BY <1>1, <1>2, <2>2
    <3> HIDE <1>1
    <3> QED
      BY <2>3, <2>4, <2>5, <3>1, <3>2, RemovalWriteKeeps
<1>4. CASE ~(task[t].was = "failed" /\ row[r].status = "cancelled")
  <2>1. UNCHANGED row
    BY <1>2, <1>4 DEF DetachRefused
  <2> QED
    BY <1>1, <2>1, ReturnKeeps DEF SubmissionInv, TypeOK
<1> QED
  BY <1>3, <1>4

\* The row is deleted.
LEMMA DeleteKeeps ==
  ASSUME SubmissionInv, NEW t \in Handlers, Delete(t)
  PROVE  SubmissionInv'
<1>1. task[t].pc = "delete" /\ task[t].pc \in Removing /\ task[t].pc \notin Joining
      /\ Return(t) /\ UNCHANGED submitted
  BY DEF Delete, At, Removing, Joining
<1>2. PICK r \in Requests : r = task[t].request
  BY <1>1 DEF SubmissionInv, TypeOK, TaskState, Remembers
<1>3. CASE row[r].status \in Settled
  <2> DEFINE v == [AbsentRow EXCEPT !.status = "deleted"]
  <2>1. v \in Row /\ v.status = "deleted"
    BY IdleIsATask DEF AbsentRow, Row
  <2>2. row' = [row EXCEPT ![r] = v] /\ subscribers' = [subscribers EXCEPT ![r] = {}]
    BY <1>2, <1>3 DEF Delete
  <2>3. v = [AbsentRow EXCEPT !.status = "deleted"]
    OBVIOUS
  <2> HIDE DEF v
  <2>4. task' = [task EXCEPT ![t] = Idle]
    BY <1>1 DEF Return
  <2>5. Idle \in TaskState /\ v.status \in Settled \cup {"deleted"}
    BY <2>1, IdleIsATask
  <2> QED
    BY <1>1, <1>2, <1>3, <2>1, <2>2, <2>3, <2>4, <2>5, RemovalWriteKeeps
<1>4. CASE row[r].status \notin Settled
  <2>1. UNCHANGED <<row, subscribers>>
    BY <1>2, <1>4 DEF Delete
  <2> QED
    BY <1>1, <2>1, ReturnKeeps DEF SubmissionInv, TypeOK
<1> QED
  BY <1>3, <1>4

-------------------------------------------------------------------------------
(***************************************************************************)
(* The others.                                                             *)
(***************************************************************************)

\* An activation that has not begun acts for nobody.
LEMMA IdleHasNoUser ==
  ASSUME SubmissionInv, NEW u \in Handlers, Free(u)
  PROVE  task[u].user = NoUser
BY DEF SubmissionInv, Remembers, Idle

\* A loss is counted, and changes nothing else of an activation.
LEMMA LossCounted ==
  ASSUME SubmissionInv, NEW u \in Handlers,
         task' = CountLoss \/ UNCHANGED task
  PROVE  /\ task'[u] \in TaskState
         /\ task'[u].pc = task[u].pc /\ task'[u].user = task[u].user
         /\ task'[u].selfServe = task[u].selfServe /\ task'[u].request = task[u].request
         /\ task'[u].owned = task[u].owned /\ task'[u].work = task[u].work
         /\ task'[u].inserts = task[u].inserts
         /\ task'[u].losses >= task[u].losses
         /\ Free(u) => task'[u] = task[u]
         /\ task' = CountLoss /\ task[u].user # NoUser =>
              task'[u].losses = task[u].losses + 1 \/ task'[u].losses = InsertAttempts
<1>1. task[u] \in TaskState /\ task[u].losses \in 0 .. InsertAttempts
  BY DEF SubmissionInv, TypeOK, TaskState
<1>2. CASE task' = CountLoss /\ task[u].user # NoUser /\ task[u].losses < InsertAttempts
  <2>1. task'[u] = [task[u] EXCEPT !.losses = @ + 1]
    BY <1>2 DEF CountLoss
  <2>2. task[u].losses + 1 \in 0 .. InsertAttempts
    BY <1>1, <1>2, BoundsAssumption
  <2> QED
    BY <1>1, <1>2, <2>1, <2>2, IdleHasNoUser DEF TaskState
<1>3. CASE ~(task' = CountLoss /\ task[u].user # NoUser /\ task[u].losses < InsertAttempts)
  <2>1. task'[u] = task[u]
    BY <1>3 DEF CountLoss
  <2>2. task' = CountLoss /\ task[u].user # NoUser => task[u].losses = InsertAttempts
    BY <1>1, <1>3, BoundsAssumption
  <2> QED
    BY <1>1, <2>1, <2>2
<1> QED
  BY <1>2, <1>3

\* The pipeline moves the status of a request.
LEMMA MoveKeeps ==
  ASSUME SubmissionInv, NEW r \in Requests, NEW from \in SUBSET WorkerWritable,
         NEW s \in WorkerWritable \cup {"cancelled"}, Move(r, from, s)
  PROVE  SubmissionInv'
<1> DEFINE back == s \in ActiveRequest
                     /\ (row[r].revived \/ (row[r].selfServe /\ ~Live(r)))
           v == [row[r] EXCEPT !.status = s, !.revived = back]
<1>1. /\ row[r].status \in WorkerWritable /\ row' = [row EXCEPT ![r] = v]
      /\ UNCHANGED <<subscribers, submitted>>
      /\ task' = CountLoss \/ UNCHANGED task
      /\ Live(r) /\ s \notin ActiveRequest => task' = CountLoss
  BY DEF Move
<1>2. row \in [Requests -> Row] /\ task \in [Handlers -> TaskState]
  BY DEF SubmissionInv, TypeOK
<1>3. /\ v \in Row /\ v.status = s /\ v.user = row[r].user /\ v.fulfiller = row[r].fulfiller
      /\ v.selfServe = row[r].selfServe /\ v.work = row[r].work
      /\ s \in ActiveRequest /\ row[r].selfServe /\ ~v.revived => Live(r) /\ ~row[r].revived
  BY <1>2 DEF Row, WorkerWritable, ActiveRequest, RequestStatuses
<1>4. row'[r] = v /\ \A q \in Requests \ {r} : row'[q] = row[q]
  BY <1>1, <1>2
<1> HIDE DEF v
<1>5. row[r].status \notin {"absent", "deleted"} /\ s \notin {"absent", "deleted"}
  BY <1>1 DEF WorkerWritable, ActiveRequest
<1>6. TypeOK'
  <2>1. task' \in [Handlers -> TaskState]
    BY <1>1, <1>2, LossCounted DEF CountLoss
  <2> QED
    BY <1>1, <1>2, <1>3, <2>1 DEF SubmissionInv, TypeOK
<1>7. ASSUME NEW u \in Handlers
      PROVE  Remembers(u)'
  <2> DEFINE q == task[u].request
  <2>1. Remembers(u) /\ task[u] \in TaskState
    BY <1>2 DEF SubmissionInv
  <2>2. /\ task'[u].pc = task[u].pc /\ task'[u].user = task[u].user
        /\ task'[u].selfServe = task[u].selfServe /\ task'[u].request = q
        /\ task'[u].owned = task[u].owned /\ task'[u].work = task[u].work
        /\ task'[u].inserts = task[u].inserts
        /\ task'[u].losses >= task[u].losses
        /\ Free(u) => task'[u] = task[u]
        /\ task' = CountLoss /\ task[u].user # NoUser =>
             task'[u].losses = task[u].losses + 1 \/ task'[u].losses = InsertAttempts
    BY <1>1, LossCounted
  <2>3. /\ task[u].losses \in Nat /\ task'[u].losses \in Nat /\ task[u].inserts \in Nat
        /\ task[u].inserts <= InsertAttempts /\ task'[u].losses <= InsertAttempts
        /\ q = NoRow \/ q \in Requests
    BY <1>1, <1>2, <1>6, BoundsAssumption DEF TypeOK, TaskState
  <2>4. q \in Requests => /\ row[q].status # "absent" => row'[q].status # "absent"
                          /\ row[q].status = "deleted" => row'[q].status = "deleted"
                          /\ row'[q].user = row[q].user
    BY <1>3, <1>4, <1>5
  <2>5. task' = CountLoss /\ task[u].pc \in Submitting => task[u].inserts <= task'[u].losses
    <3>1. task[u].pc \in Submitting =>
            task[u].user # NoUser /\ task[u].inserts <= task[u].losses + 1
      BY <2>1, UsersAssumption DEF Remembers, Explained
    <3> QED
      BY <2>2, <2>3, <3>1, BoundsAssumption
  <2>6. CASE task' = CountLoss
    <3>1. /\ task'[u].pc \in Submitting => task'[u].inserts <= task'[u].losses
          /\ task'[u].pc = "conflict" => task'[u].losses = InsertAttempts
      BY <2>1, <2>2, <2>3, <2>5, <2>6, BoundsAssumption DEF Remembers, Explained
    <3>2. Explained(u)'
      BY <1>6, <3>1, <2>3, <2>2 DEF Explained, Submitting, Inserting, Joining
    <3> QED
      BY <2>1, <2>2, <2>3, <2>4, <3>2
         DEF Remembers, Free, Submitting, Inserting, Joining, Removing, Counted
  <2>7. CASE task' # CountLoss
    <3>1. task' = task /\ (Live(r) => s \in ActiveRequest)
      BY <1>1, <2>7
    <3>2. \A p \in Requests : Live(p) =>
            row'[p].status \in ActiveRequest /\ row'[p].work = row[p].work
      BY <1>3, <1>4, <3>1 DEF Live
    <3>3. Aged
      BY <1>3, <1>4, <1>5, <3>2 DEF Aged
    <3> QED
      BY <2>1, <3>1, <3>3, OthersRemember DEF SubmissionInv
  <2> QED
    BY <2>6, <2>7
<1>8. \A u \in Handlers :
        /\ task'[u].pc = task[u].pc /\ task'[u].user = task[u].user
        /\ task'[u].request = task[u].request
  BY <1>1, LossCounted
<1>9. ASSUME NEW q \in Requests
      PROVE  RowOK(q)' /\ Follows(q)'
  <2>1. /\ row'[q].user = row[q].user /\ row'[q].fulfiller = row[q].fulfiller
        /\ row'[q].status \in {"absent", "deleted"} =>
             row[q].status = row'[q].status /\ row'[q].selfServe = row[q].selfServe
    BY <1>3, <1>4, <1>5
  <2>2. RowOK(q) /\ Follows(q)
    BY DEF SubmissionInv
  <2>3. RowOK(q)'
    BY <2>1, <2>2 DEF RowOK
  <2>4. Follows(q)'
    BY <1>1, <1>8, <2>1, <2>2 DEF Follows
  <2> QED
    BY <2>3, <2>4
<1>10. CapKept'
  <2>1. ASSUME NEW u \in Users
        PROVE  CountedSelfServe(u)' \subseteq CountedSelfServe(u)
    <3> SUFFICES ASSUME NEW q \in Requests, row'[q].status \in ActiveRequest,
                        row'[q].selfServe, ~row'[q].revived,
                        IF row'[q].fulfiller = NoUser THEN row'[q].user = u
                                                      ELSE row'[q].fulfiller = u
                 PROVE  q \in CountedSelfServe(u)
      BY DEF CountedSelfServe, LiveSelfServe, Live, Drives
    <3> QED
      BY <1>3, <1>4 DEF CountedSelfServe, LiveSelfServe, Live, Drives
  <2> QED
    BY <1>8, <2>1, FewerKeepCap DEF SubmissionInv
<1>11. ASSUME "remove_twice" \notin Operations
       PROVE  Reserved'
  <2>1. Reserved
    BY <1>11 DEF SubmissionInv
  <2>2. \A u \in Handlers : At(u, "detach") => task[u].request \in Requests \ {r}
    <3> SUFFICES ASSUME NEW u \in Handlers, At(u, "detach")
                 PROVE  task[u].request \in Requests \ {r}
      OBVIOUS
    <3>1. task[u].request \in Requests
      BY <1>2 DEF SubmissionInv, Remembers, TaskState, At, Removing
    <3>2. row[task[u].request].status \notin WorkerWritable
      BY <2>1 DEF Reserved, WorkerWritable
    <3> QED
      BY <1>1, <3>1, <3>2
  <2> QED
    BY <1>4, <1>8, <2>1, <2>2 DEF Reserved, At
<1> QED
  BY <1>6, <1>7, <1>9, <1>10, <1>11 DEF SubmissionInv

\* Everything the others do to a request.
LEMMA OthersKeep ==
  ASSUME SubmissionInv, NEW r \in Requests, Others(r)
  PROVE  SubmissionInv'
<1> DEFINE Moves(from, s) ==
      /\ from \in SUBSET WorkerWritable /\ s \in WorkerWritable \cup {"cancelled"}
      /\ Move(r, from, s)
<1>1. {"pending"} \in SUBSET WorkerWritable /\ {"approved"} \in SUBSET WorkerWritable
      /\ {"grabbed"} \in SUBSET WorkerWritable /\ {"failed"} \in SUBSET WorkerWritable
      /\ WorkerWritable \in SUBSET WorkerWritable
      /\ {"approved", "grabbed", "failed"} \subseteq WorkerWritable
  BY DEF WorkerWritable, ActiveRequest
<1>2. \/ Moves({"pending"}, "approved") \/ Moves(WorkerWritable, "cancelled")
      \/ Moves({"approved"}, "grabbed") \/ Moves({"grabbed"}, "approved")
      \/ Moves(WorkerWritable, "failed")
      \/ \E s \in {"approved", "grabbed"} : Moves({"failed"}, s)
  BY <1>1 DEF Others, Decide, Work, Revive
<1> HIDE DEF Moves
<1>3. \E from, s : Moves(from, s)
  BY <1>2
<1> QED
  BY <1>3, MoveKeeps DEF Moves

-------------------------------------------------------------------------------
(***************************************************************************)
(* The theorems.                                                           *)
(***************************************************************************)
\* There are no requests to begin with.
LEMMA SubmissionInvInitially == Init => SubmissionInv
<1> SUFFICES ASSUME Init PROVE SubmissionInv
  OBVIOUS
<1>1. AbsentRow \in Row /\ AbsentRow.status = "absent" /\ AbsentRow.fulfiller = NoUser
      /\ AbsentRow.user = NoUser /\ AbsentRow.selfServe = FALSE
  BY IdleIsATask DEF AbsentRow, Row
<1>2. TypeOK
  BY <1>1, IdleIsATask, BoundsAssumption DEF Init, TypeOK
<1>3. Idle.pc = "idle" /\ Idle.selfServe = FALSE
  BY DEF Idle
<1>4. \A r \in Requests : RowOK(r) /\ Follows(r) /\ ~Live(r)
  BY <1>1 DEF Init, RowOK, Follows, Live, ActiveRequest
<1>5. \A t \in Handlers : Remembers(t)
  BY <1>3
     DEF Init, Remembers, Explained, Submitting, Inserting, Joining, Removing, Counted
<1>6. CapKept
  <2>1. \A u \in Users : CountedSelfServe(u) = {} /\ ~CapLock(u)
    BY <1>3, <1>4 DEF CountedSelfServe, LiveSelfServe, CapLock, Init
  <2>2. \A u \in Users : Cardinality(CountedSelfServe(u)) = 0
    BY <2>1, FS_EmptySet
  <2>3. \A u \in Users : Cardinality(CountedSelfServe(u)) <= MaxLive
    BY <2>2, BoundsAssumption
  <2> QED
    BY <1>3, <2>1, <2>3 DEF CapKept, Init, Counted
<1>7. Reserved
  BY <1>3 DEF Init, Reserved, Removing, At
<1> QED
  BY <1>2, <1>4, <1>5, <1>6, <1>7 DEF SubmissionInv

\* The invariant is inductive.
LEMMA SubmissionInvStep == SubmissionInv /\ [Next]_vars => SubmissionInv'
<1> SUFFICES ASSUME SubmissionInv, [Next]_vars PROVE SubmissionInv'
  OBVIOUS
<1>1. CASE \E t \in Handlers, u \in Users, d \in Descriptions, selfServe \in BOOLEAN :
             Submit(t, u, d, selfServe)
  BY <1>1, SubmitKeeps
<1>2. ASSUME NEW t \in Handlers, SubmissionStep(t)
      PROVE  SubmissionInv'
  BY <1>2, CountForInsertKeeps, InsertKeeps, FindWinnerKeeps, ConflictEnds, CountForClaimKeeps,
     ClaimKeeps, AttachKeeps, SubscribeKeeps DEF SubmissionStep
<1>3. ASSUME NEW t \in Handlers, RemovalStep(t)
      PROVE  SubmissionInv'
  BY <1>3, ReserveKeeps, DetachKeeps, DetachRefusedKeeps, DeleteKeeps DEF RemovalStep
<1>4. CASE \E t \in Handlers, r \in Requests : Remove(t, r)
  BY <1>4, RemoveKeeps
<1>5. CASE \E r \in Requests : Others(r)
  BY <1>5, OthersKeep
<1>6. CASE UNCHANGED vars
  <2>1. UNCHANGED row /\ UNCHANGED subscribers /\ UNCHANGED task /\ UNCHANGED submitted
    BY <1>6 DEF vars
  <2>2. TypeOK' /\ Aged
    BY <2>1, SameRowsAged DEF SubmissionInv, TypeOK
  <2>3. \A t \in Handlers : Remembers(t)'
    BY <2>1, <2>2, OthersRemember DEF SubmissionInv
  <2>4. \A r \in Requests : RowOK(r)' /\ Follows(r)'
    BY <2>1 DEF SubmissionInv, RowOK, Follows
  <2>5. CapKept'
    BY <2>1 DEF SubmissionInv, CapKept, CapLock, CountedSelfServe, LiveSelfServe, Live, Drives
  <2>6. "remove_twice" \notin Operations => Reserved'
    BY <2>1 DEF SubmissionInv, Reserved, At
  <2> QED
    BY <2>2, <2>3, <2>4, <2>5, <2>6 DEF SubmissionInv
<1> QED
  BY <1>1, <1>2, <1>3, <1>4, <1>5, <1>6 DEF Next

\* The one write of a fulfiller is conditional on there being none.
LEMMA FulfillersStay ==
  ASSUME SubmissionInv, Next, NEW r \in Requests, row[r].fulfiller # NoUser
  PROVE  row'[r].fulfiller = row[r].fulfiller \/ row'[r].status = "deleted"
<1>1. row \in [Requests -> Row] /\ row[r] \in Row
  BY DEF SubmissionInv, TypeOK
<1>2. row[r].status # "absent"
  BY DEF SubmissionInv, RowOK
<1>3. CASE UNCHANGED row
  BY <1>3
<1>4. ASSUME NEW t \in Handlers, Insert(t), row' # row
      PROVE  row'[r].fulfiller = row[r].fulfiller
  <2>1. PICK q \in Requests : IsNextRequest(q) /\ \E v : row' = [row EXCEPT ![q] = v]
    BY <1>4 DEF Insert
  <2> QED
    BY <1>1, <1>2, <2>1 DEF IsNextRequest
<1>5. ASSUME NEW t \in Handlers, Claim(t)
      PROVE  row'[r].fulfiller = row[r].fulfiller
  BY <1>1, <1>5 DEF Claim
<1>6. ASSUME NEW t \in Handlers, Reserve(t) \/ DetachRefused(t)
      PROVE  row'[r].fulfiller = row[r].fulfiller
  BY <1>1, <1>6 DEF Reserve, DetachRefused, Row
<1>7. ASSUME NEW t \in Handlers, Delete(t)
      PROVE  row'[r].fulfiller = row[r].fulfiller \/ row'[r].status = "deleted"
  <2>1. [AbsentRow EXCEPT !.status = "deleted"].status = "deleted"
    BY DEF AbsentRow
  <2> QED
    BY <1>1, <1>7, <2>1 DEF Delete
<1>8. ASSUME NEW q \in Requests, NEW from, NEW s, Move(q, from, s)
      PROVE  row'[r].fulfiller = row[r].fulfiller
  BY <1>1, <1>8 DEF Move, Row
<1>9. ASSUME NEW q \in Requests, Others(q)
      PROVE  row'[r].fulfiller = row[r].fulfiller
  BY <1>8, <1>9 DEF Others, Decide, Work, Revive
<1>10. \/ UNCHANGED row
       \/ \E t \in Handlers : Insert(t) \/ Claim(t) \/ Reserve(t) \/ DetachRefused(t) \/ Delete(t)
       \/ \E q \in Requests : Others(q)
  BY DEF Next, Submit, SubmissionStep, RemovalStep, CountForInsert, CountForClaim, Count,
         FindWinner, Conflict, Attach, Subscribe, Remove, Detach
<1> QED
  BY <1>3, <1>4, <1>5, <1>6, <1>7, <1>9, <1>10

\* Types, and what every activation may rely on, in every state.
THEOREM SubmissionInvariant == Spec => []SubmissionInv
<1> QED
  BY SubmissionInvInitially, SubmissionInvStep, PTL DEF Spec

\* Every row and every activation keeps its shape, and only somebody who may fulfil his own
\* requests is recorded as a fulfiller.
THEOREM SubmissionTypesHold == Spec => []TypeOK
<1>1. SubmissionInv => TypeOK
  BY DEF SubmissionInv
<1> QED
  BY <1>1, SubmissionInvariant, PTL

\* createSelfServe and claimForSelfServe: the count under the advisory lock is a cap on the
\* live self-serve requests that never failed, however many submissions of one person are in
\* flight and whatever brings failed requests back meanwhile.
THEOREM SelfServeCapHolds == Spec => []SelfServeCap
<1>1. SubmissionInv => SelfServeCap
  BY DEF SubmissionInv, CapKept, SelfServeCap
<1> QED
  BY <1>1, SubmissionInvariant, PTL

\* submit tries its insert again for each request it collided with and no longer finds: a
\* requester is refused only when that happened as often as it tries.
THEOREM ConflictsAreExplainedHolds == Spec => []ConflictsAreExplained
<1>1. SubmissionInv => ConflictsAreExplained
  BY DEF SubmissionInv, Remembers, Explained, ConflictsAreExplained, At
<1> QED
  BY <1>1, SubmissionInvariant, PTL

\* takeOnOrAttach: whoever took a request on follows it once he is answered.
THEOREM FulfillersFollowHolds == Spec => []FulfillersFollow
<1>1. SubmissionInv => FulfillersFollow
  BY DEF SubmissionInv, Follows, FulfillersFollow
<1> QED
  BY <1>1, SubmissionInvariant, PTL

\* remove: while a request's transfer is taken out of its client no retry can have it, where
\* one person at a time deletes a request.
THEOREM RemovalStopsNothingLiveHolds ==
  ASSUME "remove_twice" \notin Operations
  PROVE  Spec => []RemovalStopsNothingLive
<1>1. SubmissionInv => RemovalStopsNothingLive
  BY DEF SubmissionInv, Reserved, RemovalStopsNothingLive, Live
<1> QED
  BY <1>1, SubmissionInvariant, PTL

\* claimForSelfServe: of two self-fulfillers who found a request undriven one takes it on, and
\* nothing anybody does takes it from him.
THEOREM TakenOnOnceHolds == Spec => TakenOnOnce
<1>1. SubmissionInv /\ [Next]_vars =>
        [\A r \in Requests :
           row[r].fulfiller # NoUser /\ row'[r].status # "deleted" =>
             row'[r].fulfiller = row[r].fulfiller]_vars
  BY FulfillersStay
<1> QED
  BY <1>1, SubmissionInvariant, PTL DEF Spec, TakenOnOnce
===============================================================================
