--------------------------- MODULE BathroomProofs ---------------------------
(***************************************************************************)
(* Proofs about the monitor of module Bathroom, for any finite set of      *)
(* threads and any number of visits.                                       *)
(*                                                                         *)
(* The inductive invariant is the conjunction of the safety invariants: no *)
(* one of them is inductive alone.  That quers stays in range and that no  *)
(* waiter is stranded both rest on FlagAgrees, which rests on the count of *)
(* users, which rests on the mutex.                                        *)
(***************************************************************************)
EXTENDS Bathroom, FiniteSetTheorems, TLAPS

IInv ==
  /\ TypeOK
  /\ LockDiscipline
  /\ CountersAgree
  /\ FlagAgrees
  /\ NoStrandedWaiter
  /\ QueueIndexInBounds

USE DEF Outside, Deciding, Blocked, Woken, Resuming, Using, Leaving, Points,
        Gender, VACANT, MALE, FEMALE

-----------------------------------------------------------------------------
(* Counting threads.                                                        *)

\* A set of threads is finite and no larger than NumUsers.
LEMMA SetsOfThreads ==
  ASSUME NEW S \in SUBSET Threads
  PROVE  /\ IsFiniteSet(S)
         /\ Cardinality(S) \in Nat
         /\ NumUsers \in Nat
         /\ Cardinality(S) <= NumUsers
         /\ Cardinality(S) = 0 <=> S = {}
<1>1. IsFiniteSet(S) /\ Cardinality(S) <= NumUsers
  BY FS_Subset, ThreadsAssumption DEF NumUsers
<1>2. Cardinality(S) \in Nat /\ NumUsers \in Nat
  BY <1>1, FS_CardinalityType, ThreadsAssumption DEF NumUsers
<1> QED BY <1>1, <1>2, FS_EmptySet

\* A thread that joins a set of threads, or leaves it, changes its size by one.
LEMMA OneMoreOneLess ==
  ASSUME NEW S \in SUBSET Threads, NEW t \in Threads
  PROVE  /\ t \notin S => Cardinality(S \cup {t}) = Cardinality(S) + 1
         /\ t \in S => Cardinality(S \ {t}) = Cardinality(S) - 1
BY SetsOfThreads, FS_AddElement, FS_RemoveElement

\* Two sets of threads without a common member have room for NumUsers together.
LEMMA DisjointSets ==
  ASSUME NEW S \in SUBSET Threads, NEW T \in SUBSET Threads, S \cap T = {}
  PROVE  Cardinality(S) + Cardinality(T) <= NumUsers
<1>1. Cardinality(S \cup T) = Cardinality(S) + Cardinality(T)
  <2>1. Cardinality(S \cap T) = 0
    BY FS_EmptySet
  <2>2. Cardinality(S \cup T) = Cardinality(S) + Cardinality(T) - Cardinality(S \cap T)
    BY SetsOfThreads, FS_Union
  <2> QED BY <2>1, <2>2, SetsOfThreads
<1>2. Cardinality(S \cup T) <= NumUsers
  BY SetsOfThreads
<1> QED BY <1>1, <1>2

\* When thread t alone goes to the control point "to", the threads in a set of
\* control points change by t at most.
LEMMA OneMoves ==
  ASSUME NEW t \in Threads, NEW to,
         pc \in [Threads -> Points], pc' = [pc EXCEPT ![t] = to]
  PROVE  \A points : At(points)' = IF to \in points THEN At(points) \cup {t}
                                                    ELSE At(points) \ {t}
BY DEF At

-----------------------------------------------------------------------------
(* Initialisation.                                                          *)

\* At the start the invariant holds.
LEMMA InitIInv == Init => IInv
<1> SUFFICES ASSUME Init PROVE IInv
  OBVIOUS
<1> USE DEF Init
<1>1. NumUsers \in Nat /\ NumUsers > 0
  <2>1. Threads \in SUBSET Threads /\ Threads # {}
    BY ThreadsAssumption
  <2> QED BY <2>1, SetsOfThreads DEF NumUsers
<1>2. Inside = {} /\ Queued = {} /\ Waiting = {} /\ Holders = {}
  BY DEF Inside, Queued, Waiting, Holders, At
<1>3. TypeOK
  BY DEF TypeOK
<1>4. LockDiscipline
  BY <1>2, ThreadsAssumption DEF LockDiscipline
<1>5. CountersAgree
  BY <1>2, FS_EmptySet DEF CountersAgree
<1>6. FlagAgrees /\ NoStrandedWaiter
  BY <1>2 DEF FlagAgrees, NoStrandedWaiter
<1>7. QueueIndexInBounds
  BY <1>1 DEF QueueIndexInBounds
<1> QED BY <1>3, <1>4, <1>5, <1>6, <1>7 DEF IInv

-----------------------------------------------------------------------------
(* One step.                                                                *)

\* The effect of an action that takes the mutex: the inside and the queue keep
\* their members as long as t stays on its side.
LEMMA AcquireKeepsIInv ==
  ASSUME IInv, NEW t \in Threads, NEW from, NEW to,
         Acquire(t, from, to),
         <<from, to>> \in {<<Outside, Deciding>>, <<Woken, Resuming>>, <<Using, Leaving>>},
         wait' \in [Threads -> BOOLEAN],
         UNCHANGED <<gender, flag, users, quers, statVars>>
  PROVE  IInv'
<1> USE DEF IInv
<1>1. /\ Inside' = Inside
      /\ Queued' = Queued
      /\ Waiting' = Waiting
      /\ Holders' = Holders \cup {t}
  BY DEF TypeOK, Inside, Queued, Waiting, Holders, At, Acquire
<1>2. TypeOK'
  BY DEF TypeOK, Acquire, statVars
<1>3. LockDiscipline'
  BY <1>1, ThreadsAssumption DEF LockDiscipline, Acquire, Holders, At
<1>4. CountersAgree' /\ FlagAgrees' /\ NoStrandedWaiter' /\ QueueIndexInBounds'
  BY <1>1 DEF CountersAgree, FlagAgrees, NoStrandedWaiter, QueueIndexInBounds, statVars
<1> QED BY <1>2, <1>3, <1>4

\* The effect on the mutex of an action that drops it.
LEMMA ReleaseFreesLock ==
  ASSUME IInv, NEW t \in Threads, t \in Holders, lock' = Unlocked,
         pc'[t] \in {Outside, Using, Blocked},
         \A u \in Threads \ {t} :
           pc'[u] = pc[u] \/ (pc[u] = Blocked /\ pc'[u] = Woken)
  PROVE  LockDiscipline'
<1>1. \A u \in Threads : u \in Holders => u = t
  BY DEF IInv, LockDiscipline
<1>2. Holders' = {}
  BY <1>1 DEF Holders, At
<1> QED BY <1>2, ThreadsAssumption DEF LockDiscipline

\* Counting an entry keeps the histograms' type.
LEMMA CountEntryType ==
  ASSUME TypeOK, NEW i, CountEntry(i)
  PROVE  /\ uses' \in Nat
         /\ barray' \in [0 .. NumUsers - 1 -> Nat \cup {-1}]
         /\ missedB' \in Nat
BY DEF TypeOK, CountEntry, Bump, Missed

\* A thread goes in from the critical section of Enter without having queued.
LEMMA EntryKeepsIInv ==
  ASSUME IInv, NEW t \in Threads,
         EnterVacant(t) \/ EnterSame(t)
  PROVE  IInv'
<1> USE DEF IInv
<1>0. /\ pc[t] = Deciding /\ lock' = Unlocked
      /\ pc' = [pc EXCEPT ![t] = Using]
      /\ flag' = gender[t] /\ gender' = gender
      /\ users' = users + 1 /\ quers' = quers
      /\ CountEntry(users + 1)
      /\ wait' = [wait EXCEPT ![t] = FALSE]
      /\ UNCHANGED <<ques, qarray, missedQ>>
  BY DEF EnterVacant, EnterSame, Release
<1>1. /\ Inside' = Inside \cup {t} /\ t \notin Inside
      /\ Queued' = Queued
      /\ Waiting' = Waiting
  BY <1>0 DEF TypeOK, Inside, Queued, Waiting, At
<1>2. TypeOK'
  BY <1>0, CountEntryType DEF TypeOK
<1>3. LockDiscipline'
  BY <1>0, ReleaseFreesLock DEF TypeOK, Holders, At
<1>4. CountersAgree'
  BY <1>0, <1>1, OneMoreOneLess DEF CountersAgree, Inside, At
<1>5. FlagAgrees' /\ NoStrandedWaiter'
  BY <1>0, <1>1 DEF TypeOK, FlagAgrees, NoStrandedWaiter
<1>6. QueueIndexInBounds'
  BY <1>0, CountEntryType DEF QueueIndexInBounds
<1> QED BY <1>2, <1>3, <1>4, <1>5, <1>6

\* A thread joins the queue: somebody is inside, so there is a cell for it.
LEMMA QueueKeepsIInv ==
  ASSUME IInv, NEW t \in Threads, Queue(t)
  PROVE  IInv'
<1> USE DEF IInv
<1>0. /\ pc[t] = Deciding /\ lock' = Unlocked
      /\ pc' = [pc EXCEPT ![t] = Blocked]
  BY DEF Queue, Release
<1>1. /\ Inside' = Inside
      /\ Queued' = Queued \cup {t} /\ t \notin Queued
      /\ Queued' \in SUBSET Threads /\ Inside \in SUBSET Threads
      /\ Queued' \cap Inside = {}
  BY <1>0 DEF TypeOK, Inside, Queued, At
<1>2. Inside # {}
  BY DEF Queue, FlagAgrees
<1>3. CountersAgree'
  BY <1>1, OneMoreOneLess DEF CountersAgree, Queue, Queued, At
<1>4. quers' < NumUsers
  <2>1. Cardinality(Queued') + Cardinality(Inside) <= NumUsers
    BY <1>1, DisjointSets
  <2>2. Cardinality(Inside) \in Nat /\ Cardinality(Inside) # 0
    BY <1>1, <1>2, SetsOfThreads
  <2>3. Cardinality(Queued') \in Nat /\ NumUsers \in Nat
    BY <1>1, SetsOfThreads
  <2> QED BY <1>3, <2>1, <2>2, <2>3 DEF CountersAgree
<1>5. quers + 1 \in 0 .. NumUsers - 1
  <2>1. NumUsers \in Nat
    BY <1>1, SetsOfThreads
  <2>2. quers \in Nat /\ quers + 1 < NumUsers
    BY <1>4 DEF TypeOK, Queue
  <2> QED BY <2>1, <2>2
<1>6. Missed(qarray, quers + 1) = 0
  BY <1>5 DEF TypeOK, Missed
<1>7. TypeOK'
  BY <1>0, <1>6 DEF TypeOK, Queue, Bump
<1>8. LockDiscipline'
  BY <1>0, ReleaseFreesLock DEF TypeOK, Holders, At
<1>9. FlagAgrees' /\ NoStrandedWaiter'
  BY <1>1, <1>2 DEF Queue, FlagAgrees, NoStrandedWaiter
<1>10. QueueIndexInBounds'
  BY <1>4, <1>6 DEF QueueIndexInBounds, Queue, TypeOK
<1> QED BY <1>3, <1>7, <1>8, <1>9, <1>10

\* A woken thread goes in, whatever it finds there.
LEMMA ResumeKeepsIInv ==
  ASSUME IInv, NEW t \in Threads, Resume(t)
  PROVE  IInv'
<1> USE DEF IInv
<1>0. /\ pc[t] = Resuming /\ lock' = Unlocked
      /\ pc' = [pc EXCEPT ![t] = Using]
      /\ CountEntry(NumUsers)
      /\ missedQ' = missedQ
  BY DEF Resume, Release
<1>1. /\ Inside' = Inside \cup {t} /\ t \notin Inside
      /\ Queued' = Queued \ {t} /\ t \in Queued
      /\ Waiting' = Waiting
      /\ Queued \in SUBSET Threads /\ Queued' \in SUBSET Threads
      /\ Inside \in SUBSET Threads
  BY <1>0 DEF TypeOK, Inside, Queued, Waiting, At
<1>2. CountersAgree'
  BY <1>1, OneMoreOneLess DEF CountersAgree, Resume
<1>3. quers' \in Nat /\ quers' < NumUsers
  <2>1. Cardinality(Queued') \in Nat /\ NumUsers \in Nat
    BY <1>1, SetsOfThreads
  <2> QED BY <1>2, <2>1 DEF CountersAgree, Resume, QueueIndexInBounds, TypeOK
<1>4. TypeOK'
  BY <1>0, <1>3, CountEntryType DEF TypeOK, Resume
<1>5. LockDiscipline'
  BY <1>0, ReleaseFreesLock DEF TypeOK, Holders, At
<1>6. FlagAgrees' /\ NoStrandedWaiter'
  BY <1>1 DEF TypeOK, Resume, FlagAgrees, NoStrandedWaiter
<1>7. QueueIndexInBounds'
  BY <1>0, <1>3, CountEntryType DEF QueueIndexInBounds
<1> QED BY <1>2, <1>4, <1>5, <1>6, <1>7

\* One of several leaves.
LEMMA LeaveOccupiedKeepsIInv ==
  ASSUME IInv, NEW t \in Threads, LeaveOccupied(t)
  PROVE  IInv'
<1> USE DEF IInv
<1>0. /\ pc[t] = Leaving /\ lock' = Unlocked
      /\ pc' = [pc EXCEPT ![t] = Outside]
  BY DEF LeaveOccupied, Release
<1>1. /\ Inside' = Inside \ {t} /\ t \in Inside
      /\ Queued' = Queued
      /\ Inside \in SUBSET Threads /\ Inside' \in SUBSET Threads
  BY <1>0 DEF TypeOK, Inside, Queued, At
<1>2. CountersAgree'
  BY <1>1, OneMoreOneLess DEF CountersAgree, LeaveOccupied
<1>3. users' \in Nat /\ users' # 0
  BY DEF LeaveOccupied, TypeOK
<1>4. Inside' # {} /\ Inside # {}
  BY <1>1, <1>2, <1>3, SetsOfThreads DEF CountersAgree
<1>5. TypeOK'
  BY <1>0, <1>3 DEF TypeOK, LeaveOccupied, statVars
<1>6. LockDiscipline'
  BY <1>0, ReleaseFreesLock DEF TypeOK, Holders, At
<1>7. FlagAgrees' /\ NoStrandedWaiter' /\ QueueIndexInBounds'
  BY <1>4 DEF LeaveOccupied, FlagAgrees, NoStrandedWaiter, QueueIndexInBounds, statVars
<1> QED BY <1>2, <1>5, <1>6, <1>7

\* The last one leaves: nobody is inside, and nobody is blocked any more.
LEMMA LeaveEmptyKeepsIInv ==
  ASSUME IInv, NEW t \in Threads, LeaveEmpty(t)
  PROVE  IInv'
<1> USE DEF IInv
<1>0. /\ pc[t] = Leaving /\ lock' = Unlocked
      /\ pc'[t] = Outside
      /\ \A u \in Threads \ {t} :
           pc'[u] = IF pc[u] = Blocked THEN Woken ELSE pc[u]
      /\ pc' \in [Threads -> Points]
  BY DEF LeaveEmpty, TypeOK
<1>1. /\ Inside' = Inside \ {t} /\ t \in Inside
      /\ Queued' = Queued
      /\ Waiting' = {}
      /\ Inside \in SUBSET Threads /\ Inside' \in SUBSET Threads
  BY <1>0 DEF Inside, Queued, Waiting, At
<1>2. CountersAgree'
  BY <1>1, OneMoreOneLess DEF CountersAgree, LeaveEmpty
<1>3. users' = 0
  <2>1. users' \in Nat
    BY <1>1, <1>2, SetsOfThreads DEF CountersAgree
  <2> QED BY <2>1 DEF LeaveEmpty, TypeOK
<1>4. Inside' = {}
  BY <1>1, <1>2, <1>3, SetsOfThreads DEF CountersAgree
<1>5. TypeOK'
  BY <1>0, <1>3 DEF TypeOK, LeaveEmpty, statVars
<1>6. LockDiscipline'
  BY <1>0, ReleaseFreesLock DEF TypeOK, Holders, At
<1>7. FlagAgrees' /\ NoStrandedWaiter' /\ QueueIndexInBounds'
  BY <1>1, <1>4 DEF LeaveEmpty, FlagAgrees, NoStrandedWaiter, QueueIndexInBounds, statVars
<1> QED BY <1>2, <1>5, <1>6, <1>7

\* A wakeup nobody caused takes a thread out of the waiting, not out of the queue.
LEMMA SpuriousKeepsIInv ==
  ASSUME IInv, NEW t \in Threads, Spurious(t)
  PROVE  IInv'
<1> USE DEF IInv
<1>1. /\ Inside' = Inside
      /\ Queued' = Queued
      /\ Waiting' \subseteq Waiting
      /\ Holders' = Holders
  BY DEF Spurious, TypeOK, Inside, Queued, Waiting, Holders, At
<1>2. TypeOK'
  BY DEF Spurious, TypeOK, statVars
<1> QED BY <1>1, <1>2 DEF Spurious, LockDiscipline, CountersAgree, FlagAgrees,
                         NoStrandedWaiter, QueueIndexInBounds, statVars

\* IInv is inductive.
LEMMA StepIInv == IInv /\ [Next]_monitorVars => IInv'
<1> SUFFICES ASSUME IInv, [Next]_monitorVars PROVE IInv'
  OBVIOUS
<1>1. CASE UNCHANGED monitorVars
  BY <1>1 DEF IInv, monitorVars, statVars, TypeOK, LockDiscipline, CountersAgree, FlagAgrees,
              NoStrandedWaiter, QueueIndexInBounds, Inside, Queued, Waiting, Holders, At
<1>2. CASE Next
  <2>1. PICK t \in Threads : Step(t)
    BY <1>2 DEF Next
  <2>2. CASE LockEnter(t)
    <3>1. wait' \in [Threads -> BOOLEAN]
      BY <2>2 DEF LockEnter, IInv, TypeOK
    <3> QED BY <2>2, <3>1, AcquireKeepsIInv DEF LockEnter
  <2>3. CASE EnterVacant(t) \/ EnterSame(t)
    BY <2>3, EntryKeepsIInv
  <2>4. CASE Queue(t)
    BY <2>4, QueueKeepsIInv
  <2>5. CASE Relock(t)
    BY <2>5, AcquireKeepsIInv DEF Relock, IInv, TypeOK
  <2>6. CASE Resume(t)
    BY <2>6, ResumeKeepsIInv
  <2>7. CASE Spurious(t)
    BY <2>7, SpuriousKeepsIInv
  <2>8. CASE LockLeave(t)
    BY <2>8, AcquireKeepsIInv DEF LockLeave, IInv, TypeOK
  <2>9. CASE LeaveOccupied(t)
    BY <2>9, LeaveOccupiedKeepsIInv
  <2>10. CASE LeaveEmpty(t)
    BY <2>10, LeaveEmptyKeepsIInv
  <2> QED BY <2>1, <2>2, <2>3, <2>4, <2>5, <2>6, <2>7, <2>8, <2>9, <2>10
          DEF Step, EnterStep, LeaveStep
<1> QED BY <1>1, <1>2

-----------------------------------------------------------------------------
(* Theorems.                                                                *)

\* The inductive invariant holds throughout.
LEMMA AlwaysIInv == Spec => []IInv
BY InitIInv, StepIInv, PTL DEF Spec

\* Every variable of the monitor keeps its type; in particular users and quers
\* never go below zero, though both are decremented without a test.
THEOREM TypeCorrect == Spec => []TypeOK
<1>1. IInv => TypeOK
  BY DEF IInv
<1> QED BY <1>1, AlwaysIInv, PTL

\* The mutex of Enter and Leave is held by exactly the thread in a critical
\* section: no two threads update the counters at once.
THEOREM MutexHeld == Spec => []LockDiscipline
<1>1. IInv => LockDiscipline
  BY DEF IInv
<1> QED BY <1>1, AlwaysIInv, PTL

\* users and quers count the threads inside and in the queue.
THEOREM CountersExact == Spec => []CountersAgree
<1>1. IInv => CountersAgree
  BY DEF IInv
<1> QED BY <1>1, AlwaysIInv, PTL

\* The flag says VACANT exactly while nobody is inside.
THEOREM FlagExact == Spec => []FlagAgrees
<1>1. IInv => FlagAgrees
  BY DEF IInv
<1> QED BY <1>1, AlwaysIInv, PTL

\* No thread blocks on "change" in an empty room, and none is left blocked there
\* by the last Leave: no wakeup is lost.
THEOREM NoLostWakeup == Spec => []NoStrandedWaiter
<1>1. IInv => NoStrandedWaiter
  BY DEF IInv
<1> QED BY <1>1, AlwaysIInv, PTL

\* Enter's qarray[quers]++ stays inside the array for any number of threads.
THEOREM QueueIndexSafe == Spec => []QueueIndexInBounds
<1>1. IInv => QueueIndexInBounds
  BY DEF IInv
<1> QED BY <1>1, AlwaysIInv, PTL

\* Arrivals and departures never put the flag at odds with the occupants; the
\* unconditional "flag = g" after the wait is the only step that can.
THEOREM OnlyWaitersMisflag == Spec => OnlyResumptionMisflags
<1>1. ASSUME IInv, IInv', [Next]_monitorVars,
             FlagShowsOccupants, ~FlagShowsOccupants'
      PROVE  \E t \in Threads : pc[t] = Resuming /\ pc'[t] = Using
  <2> USE <1>1 DEF IInv
  <2>1. CASE UNCHANGED monitorVars
    BY <2>1 DEF monitorVars, FlagShowsOccupants, Inside, At
  <2>2. CASE Next
    <3>1. PICK t \in Threads : Step(t)
      BY <2>2 DEF Next
    <3>2. CASE LockEnter(t) \/ Relock(t) \/ LockLeave(t) \/ Spurious(t) \/ Queue(t)
      <4>1. Inside' = Inside /\ flag' = flag /\ gender' = gender
        BY <3>2 DEF LockEnter, Relock, LockLeave, Spurious, Queue, Acquire, Release,
                    TypeOK, Inside, At
      <4> QED BY <4>1 DEF FlagShowsOccupants
    <3>3. CASE EnterVacant(t) \/ EnterSame(t)
      <4>1. Inside' = Inside \cup {t}
        BY <3>3 DEF EnterVacant, EnterSame, Release, TypeOK, Inside, At
      <4>2. flag' = gender[t] /\ gender' = gender
        BY <3>3 DEF EnterVacant, EnterSame
      <4>3. flag = gender[t] \/ Inside = {}
        BY <3>3 DEF EnterVacant, EnterSame, FlagAgrees
      <4> QED BY <4>1, <4>2, <4>3 DEF FlagShowsOccupants
    <3>4. CASE Resume(t)
      BY <3>4 DEF Resume, Release, TypeOK
    <3>5. CASE LeaveOccupied(t)
      <4>1. Inside' \subseteq Inside /\ flag' = flag /\ gender' = gender
        BY <3>5 DEF LeaveOccupied, Release, TypeOK, Inside, At
      <4> QED BY <4>1 DEF FlagShowsOccupants
    <3>6. CASE LeaveEmpty(t)
      <4>1. Inside' = {}
        BY <3>6 DEF LeaveEmpty, FlagAgrees
      <4> QED BY <4>1 DEF FlagShowsOccupants
    <3> QED BY <3>1, <3>2, <3>3, <3>4, <3>5, <3>6 DEF Step, EnterStep, LeaveStep
  <2> QED BY <2>1, <2>2
<1>2. IInv /\ IInv' /\ [Next]_monitorVars
        => [FlagShowsOccupants /\ ~FlagShowsOccupants'
              => \E t \in Threads : pc[t] = Resuming /\ pc'[t] = Using]_monitorVars
  BY <1>1
<1> QED BY <1>2, AlwaysIInv, PTL DEF Spec, OnlyResumptionMisflags

-----------------------------------------------------------------------------
(* The monitor implements Room.                                             *)

Hall == INSTANCE Room WITH
          People     <- Threads,
          EarlyCalls <- SpuriousWakeups,
          inside     <- Inside,
          line       <- Waiting,
          called     <- At({Woken, Resuming}),
          shut       <- FALSE

\* Every step of the monitor is a step of Room or leaves Room unchanged: people
\* line up only while somebody is inside, and the last one out calls the whole
\* line.
THEOREM MonitorImplementsRoom ==
  Spec => Hall!RoomInit /\ [][Hall!RoomNext]_(Hall!roomVars)
<1> USE DEF Inside, Waiting, At
<1>1. Init => Hall!RoomInit
  BY DEF Init, Hall!RoomInit
<1>2. ASSUME IInv, IInv', [Next]_monitorVars
      PROVE  [Hall!RoomNext]_(Hall!roomVars)
  <2> USE <1>2 DEF IInv
  <2> DEFINE Called == At({Woken, Resuming})
  <2> USE DEF TypeOK
  <2>1. CASE UNCHANGED monitorVars
    BY <2>1 DEF monitorVars, Hall!roomVars
  <2>2. CASE Next
    <3>1. PICK t \in Threads : Step(t)
      BY <2>2 DEF Next
    <3>2. SUFFICES \/ Hall!Move(t)
                   \/ UNCHANGED <<Inside, Waiting, Called>>
      BY DEF Hall!RoomNext, Hall!Open, Hall!roomVars
    <3>3. CASE LockEnter(t) \/ Relock(t) \/ LockLeave(t)
      BY <3>3 DEF LockEnter, Relock, LockLeave, Acquire
    <3>4. CASE EnterVacant(t) \/ EnterSame(t)
      <4>1. pc[t] = Deciding /\ pc' = [pc EXCEPT ![t] = Using]
        BY <3>4 DEF EnterVacant, EnterSame, Release
      <4>2. Hall!Walk(t)
        BY <4>1 DEF Hall!Walk, Hall!Away
      <4> QED BY <4>2 DEF Hall!Move
    <3>5. CASE Queue(t)
      <4>1. pc[t] = Deciding /\ pc' = [pc EXCEPT ![t] = Blocked]
        BY <3>5 DEF Queue, Release
      <4>2. Inside # {}
        BY <3>5 DEF Queue, FlagAgrees
      <4>3. Hall!Line(t)
        BY <4>1, <4>2 DEF Hall!Line, Hall!Away
      <4> QED BY <4>3 DEF Hall!Move
    <3>6. CASE Resume(t)
      <4>1. pc[t] = Resuming /\ pc' = [pc EXCEPT ![t] = Using]
        BY <3>6 DEF Resume, Release
      <4>2. Hall!Admit(t)
        BY <4>1 DEF Hall!Admit
      <4> QED BY <4>2 DEF Hall!Move
    <3>7. CASE Spurious(t)
      <4>1. SpuriousWakeups /\ pc[t] = Blocked /\ pc' = [pc EXCEPT ![t] = Woken]
        BY <3>7 DEF Spurious
      <4>2. Hall!EarlyCall(t)
        BY <4>1 DEF Hall!EarlyCall
      <4> QED BY <4>2 DEF Hall!Move
    <3>8. CASE LeaveOccupied(t)
      <4>1. pc[t] = Leaving /\ pc' = [pc EXCEPT ![t] = Outside]
        BY <3>8 DEF LeaveOccupied, Release
      <4>2. Inside' # {}
        BY <3>8, <4>1 DEF LeaveOccupied, FlagAgrees
      <4>3. Hall!Depart(t)
        BY <4>1, <4>2 DEF Hall!Depart
      <4> QED BY <4>3 DEF Hall!Move
    <3>9. CASE LeaveEmpty(t)
      <4>1. /\ pc[t] = Leaving
            /\ pc' = [u \in Threads |->
                        IF u = t THEN Outside
                        ELSE IF pc[u] = Blocked THEN Woken ELSE pc[u]]
        BY <3>9 DEF LeaveEmpty
      <4>2. Inside' = {}
        BY <3>9 DEF LeaveEmpty, FlagAgrees
      <4>3. Waiting' = {} /\ Called' = Called \cup Waiting /\ Inside' = Inside \ {t}
        BY <4>1
      <4>4. t \in Inside
        BY <4>1
      <4>5. Hall!Depart(t)
        BY <4>2, <4>3, <4>4 DEF Hall!Depart
      <4> QED BY <4>5 DEF Hall!Move
    <3> QED BY <3>1, <3>3, <3>4, <3>5, <3>6, <3>7, <3>8, <3>9
            DEF Step, EnterStep, LeaveStep
  <2> QED BY <2>1, <2>2
<1> QED BY <1>1, <1>2, AlwaysIInv, PTL DEF Spec
=============================================================================
