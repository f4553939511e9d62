------------------------------ MODULE Bathroom ------------------------------
(***************************************************************************)
(* The unisex-bathroom monitor of project3/bathroom.c: the mutex "lock",   *)
(* the condition variable "change", the gender "flag", the counters of the *)
(* struct bathroom and the two histograms "barray" and "qarray".           *)
(*                                                                         *)
(* A step is what one thread does between two points at which another      *)
(* thread can run: taking the mutex is one step, the code that runs under  *)
(* the mutex up to its release (pthread_mutex_unlock, or the release       *)
(* inside pthread_cond_wait) is the next.                                  *)
(*                                                                         *)
(* Left out: the timers behind vacanttime and occtime, which no branch of  *)
(* Enter or Leave reads.                                                   *)
(***************************************************************************)
EXTENDS Integers, FiniteSets

CONSTANTS
  Threads,          \* the threads main creates, one per bathroom user
  Unlocked,         \* the value of a mutex that nobody holds
  SpuriousWakeups   \* may pthread_cond_wait return without a broadcast?

ASSUME ThreadsAssumption ==
  /\ IsFiniteSet(Threads)
  /\ Threads # {}
  /\ Unlocked \notin Threads
  /\ SpuriousWakeups \in BOOLEAN

\* The macros of bathroom.h.
VACANT == -1
MALE   == 0
FEMALE == 1

Gender == {MALE, FEMALE}

\* The global "users" of bathroom.c, argv[1]: how many threads there are.  The
\* struct field of the same name is the variable users below.
NumUsers == Cardinality(Threads)

VARIABLES
  gender,     \* g, the argument thread t passes to every Enter
  pc,         \* where thread t is in Enter or Leave
  lock,       \* the mutex: its holder, or Unlocked
  flag,       \* VACANT, or the gender of the last thread to set it
  users,      \* abathroom.users: threads in the bathroom
  quers,      \* abathroom.quers: threads in the queue
  uses,       \* abathroom.uses: entries so far
  ques,       \* abathroom.ques: entries so far that went through the queue
  barray,     \* barray[n]: one less than the entries counted at occupancy n
  qarray,     \* qarray[n]: one less than the arrivals counted at length n
  missedB,    \* increments that fell outside barray
  missedQ,    \* increments that fell outside qarray
  wait        \* *wait: did thread t's current visit go through the queue?

statVars    == <<uses, ques, barray, qarray, missedB, missedQ>>
monitorVars == <<gender, pc, lock, flag, users, quers, uses, ques,
                 barray, qarray, missedB, missedQ, wait>>

-----------------------------------------------------------------------------
(* The control points of a thread.                                          *)

Outside  == "outside"    \* not in Enter, not in the bathroom
Deciding == "deciding"   \* holds the mutex in Enter, about to test the flag
Blocked  == "blocked"    \* waiting on the condition variable
Woken    == "woken"      \* the wait is over, the mutex not yet reacquired
Resuming == "resuming"   \* holds the mutex again, about to return from the wait
Using    == "using"      \* returned from Enter, has not called Leave
Leaving  == "leaving"    \* holds the mutex in Leave

Points == {Outside, Deciding, Blocked, Woken, Resuming, Using, Leaving}

At(points) == {t \in Threads : pc[t] \in points}

Inside  == At({Using, Leaving})
Waiting == At({Blocked})
Queued  == At({Blocked, Woken, Resuming})
Holders == At({Deciding, Resuming, Leaving})

\* t takes the free mutex on its way from one control point to another.
Acquire(t, from, to) ==
  /\ pc[t] = from
  /\ lock = Unlocked
  /\ lock' = t
  /\ pc' = [pc EXCEPT ![t] = to]

\* t drops the mutex on its way from one control point to another.
Release(t, from, to) ==
  /\ pc[t] = from
  /\ lock' = Unlocked
  /\ pc' = [pc EXCEPT ![t] = to]

\* array[i]++ on an array of NumUsers cells.  An index outside it changes memory
\* that is no variable here: only the fact is recorded.
Bump(array, i) == IF i \in DOMAIN array THEN [array EXCEPT ![i] = @ + 1] ELSE array
Missed(array, i) == IF i \in DOMAIN array THEN 0 ELSE 1

\* The bookkeeping of an entry: abathroom.uses++ and barray[i]++.
CountEntry(i) ==
  /\ uses' = uses + 1
  /\ barray' = Bump(barray, i)
  /\ missedB' = missedB + Missed(barray, i)

-----------------------------------------------------------------------------
(* Initialize(), and gender g = rand() % 2 of every thread.                 *)

Init ==
  /\ gender \in [Threads -> Gender]
  /\ pc = [t \in Threads |-> Outside]
  /\ lock = Unlocked
  /\ flag = VACANT
  /\ users = 0
  /\ quers = 0
  /\ uses = 0
  /\ ques = 0
  /\ barray = [i \in 0 .. NumUsers - 1 |-> -1]
  /\ qarray = [i \in 0 .. NumUsers - 1 |-> -1]
  /\ missedB = 0
  /\ missedQ = 0
  /\ wait = [t \in Threads |-> FALSE]

-----------------------------------------------------------------------------
(* Enter(g, wait).                                                          *)

\* *wait = 1; pthread_mutex_lock(&lock)
LockEnter(t) ==
  /\ Acquire(t, Outside, Deciding)
  /\ wait' = [wait EXCEPT ![t] = TRUE]
  /\ UNCHANGED <<gender, flag, users, quers, statVars>>

\* Nobody is inside: t takes the room for its gender.
EnterVacant(t) ==
  /\ flag = VACANT
  /\ Release(t, Deciding, Using)
  /\ flag' = gender[t]
  /\ users' = users + 1
  /\ CountEntry(users + 1)
  /\ wait' = [wait EXCEPT ![t] = FALSE]
  /\ UNCHANGED <<gender, quers, ques, qarray, missedQ>>

\* Mutant: the test "flag==g" is missing, every arrival walks in.
EnterSame_NoFlagTest(t) ==
  /\ Release(t, Deciding, Using)
  /\ users' = users + 1
  /\ CountEntry(users + 1)
  /\ wait' = [wait EXCEPT ![t] = FALSE]
  /\ UNCHANGED <<gender, flag, quers, ques, qarray, missedQ>>

\* The flag already shows t's gender.
EnterSame(t) ==
  /\ flag = gender[t]
  /\ Release(t, Deciding, Using)
  /\ users' = users + 1
  /\ CountEntry(users + 1)
  /\ wait' = [wait EXCEPT ![t] = FALSE]
  /\ UNCHANGED <<gender, flag, quers, ques, qarray, missedQ>>

\* Mutant: quers++ is missing.
Queue_Uncounted(t) ==
  /\ flag \notin {VACANT, gender[t]}
  /\ Release(t, Deciding, Blocked)
  /\ ques' = ques + 1
  /\ qarray' = Bump(qarray, quers + 1)
  /\ missedQ' = missedQ + Missed(qarray, quers + 1)
  /\ UNCHANGED <<gender, flag, users, quers, uses, barray, missedB, wait>>

\* Mutant: a thread queues whatever the flag says, also when the room is empty.
Queue_Always(t) ==
  /\ Release(t, Deciding, Blocked)
  /\ quers' = quers + 1
  /\ ques' = ques + 1
  /\ qarray' = Bump(qarray, quers + 1)
  /\ missedQ' = missedQ + Missed(qarray, quers + 1)
  /\ UNCHANGED <<gender, flag, users, uses, barray, missedB, wait>>

\* Mutant: the wait keeps the mutex.
Queue_HoldsLock(t) ==
  /\ flag \notin {VACANT, gender[t]}
  /\ pc[t] = Deciding
  /\ pc' = [pc EXCEPT ![t] = Blocked]
  /\ quers' = quers + 1
  /\ ques' = ques + 1
  /\ qarray' = Bump(qarray, quers + 1)
  /\ missedQ' = missedQ + Missed(qarray, quers + 1)
  /\ UNCHANGED <<gender, lock, flag, users, uses, barray, missedB, wait>>

\* The flag shows the other gender: t is counted in the queue and waits, which
\* releases the mutex.
Queue(t) ==
  /\ flag \notin {VACANT, gender[t]}
  /\ Release(t, Deciding, Blocked)
  /\ quers' = quers + 1
  /\ ques' = ques + 1
  /\ qarray' = Bump(qarray, quers + 1)
  /\ missedQ' = missedQ + Missed(qarray, quers + 1)
  /\ UNCHANGED <<gender, flag, users, uses, barray, missedB, wait>>

\* pthread_cond_wait may return although nobody called pthread_cond_broadcast.
Spurious(t) ==
  /\ SpuriousWakeups
  /\ pc[t] = Blocked
  /\ pc' = [pc EXCEPT ![t] = Woken]
  /\ UNCHANGED <<gender, lock, flag, users, quers, statVars, wait>>

\* Mutant: a woken thread runs on without the mutex.
Relock_NoMutex(t) ==
  /\ pc[t] = Woken
  /\ pc' = [pc EXCEPT ![t] = Resuming]
  /\ UNCHANGED <<gender, lock, flag, users, quers, statVars, wait>>

\* The last act of pthread_cond_wait: a woken thread competes for the mutex with
\* every thread at the start of Enter or Leave.
Relock(t) ==
  /\ Acquire(t, Woken, Resuming)
  /\ UNCHANGED <<gender, flag, users, quers, statVars, wait>>

\* Mutant: quers-- is missing.
Resume_StillQueued(t) ==
  /\ Release(t, Resuming, Using)
  /\ flag' = gender[t]
  /\ users' = users + 1
  /\ CountEntry(NumUsers)
  /\ UNCHANGED <<gender, quers, ques, qarray, missedQ, wait>>

\* After the wait: no second look at the flag.  The histogram index is the global
\* "users", the number of threads, not the occupancy.
Resume(t) ==
  /\ Release(t, Resuming, Using)
  /\ flag' = gender[t]
  /\ users' = users + 1
  /\ quers' = quers - 1
  /\ CountEntry(NumUsers)
  /\ UNCHANGED <<gender, ques, qarray, missedQ, wait>>

-----------------------------------------------------------------------------
(* Leave().                                                                 *)

LockLeave(t) ==
  /\ Acquire(t, Using, Leaving)
  /\ UNCHANGED <<gender, flag, users, quers, statVars, wait>>

\* Mutant: "users < 0" for "users <= 0": the last one out behaves as the others.
LeaveOccupied_OffByOne(t) ==
  /\ users - 1 >= 0
  /\ Release(t, Leaving, Outside)
  /\ users' = users - 1
  /\ UNCHANGED <<gender, flag, quers, statVars, wait>>

\* Others stay inside.
LeaveOccupied(t) ==
  /\ users - 1 > 0
  /\ Release(t, Leaving, Outside)
  /\ users' = users - 1
  /\ UNCHANGED <<gender, flag, quers, statVars, wait>>

\* Mutant: pthread_cond_signal for pthread_cond_broadcast.
LeaveEmpty_Signal(t) ==
  /\ users - 1 <= 0
  /\ lock' = Unlocked
  /\ pc[t] = Leaving
  /\ \E w \in IF Waiting = {} THEN {t} ELSE Waiting :
       pc' = [[pc EXCEPT ![w] = Woken] EXCEPT ![t] = Outside]
  /\ users' = users - 1
  /\ flag' = VACANT
  /\ UNCHANGED <<gender, quers, statVars, wait>>

\* Mutant: flag = VACANT is missing.
LeaveEmpty_FlagKept(t) ==
  /\ users - 1 <= 0
  /\ pc[t] = Leaving
  /\ lock' = Unlocked
  /\ pc' = [u \in Threads |->
              IF u = t THEN Outside
              ELSE IF pc[u] = Blocked THEN Woken ELSE pc[u]]
  /\ users' = users - 1
  /\ UNCHANGED <<gender, flag, quers, statVars, wait>>

\* The counter says the room is empty: clear the flag and wake every waiter.
LeaveEmpty(t) ==
  /\ users - 1 <= 0
  /\ pc[t] = Leaving
  /\ lock' = Unlocked
  /\ pc' = [u \in Threads |->
              IF u = t THEN Outside
              ELSE IF pc[u] = Blocked THEN Woken ELSE pc[u]]
  /\ users' = users - 1
  /\ flag' = VACANT
  /\ UNCHANGED <<gender, quers, statVars, wait>>

-----------------------------------------------------------------------------

EnterStep(t) == EnterVacant(t) \/ EnterSame(t) \/ Queue(t) \/ Relock(t) \/ Resume(t)
LeaveStep(t) == LeaveOccupied(t) \/ LeaveEmpty(t)

Step(t) ==
  \/ LockEnter(t)
  \/ EnterStep(t)
  \/ Spurious(t)
  \/ LockLeave(t)
  \/ LeaveStep(t)

Next == \E t \in Threads : Step(t)

\* The monitor used by threads that may come back any number of times.
Spec == Init /\ [][Next]_monitorVars

-----------------------------------------------------------------------------
(* Invariants.                                                              *)

TypeOK ==
  /\ gender \in [Threads -> Gender]
  /\ pc \in [Threads -> Points]
  /\ lock \in Threads \cup {Unlocked}
  /\ flag \in Gender \cup {VACANT}
  /\ users \in Nat
  /\ quers \in Nat
  /\ uses \in Nat
  /\ ques \in Nat
  /\ barray \in [0 .. NumUsers - 1 -> Nat \cup {-1}]
  /\ qarray \in [0 .. NumUsers - 1 -> Nat \cup {-1}]
  /\ missedB \in Nat
  /\ missedQ \in Nat
  /\ wait \in [Threads -> BOOLEAN]

\* The mutex is held by exactly the thread that runs a critical section.
LockDiscipline == \A t \in Threads : t \in Holders <=> lock = t

\* users and quers, kept by increments and decrements far apart, agree with where
\* the threads are.
CountersAgree ==
  /\ users = Cardinality(Inside)
  /\ quers = Cardinality(Queued)

\* The flag is cleared exactly while the room is empty.
FlagAgrees == flag = VACANT <=> Inside = {}

\* No lost wakeup: while a thread is blocked on "change" there is a thread inside,
\* whose Leave will reach the broadcast.  A thread that blocked after the last
\* broadcast, with the room empty, would never run again.
NoStrandedWaiter == Waiting # {} => Inside # {}

\* quers never reaches the number of threads, so qarray[quers] (bathroom.c:117),
\* indexed without a check, stays inside the array.
QueueIndexInBounds == quers < NumUsers /\ missedQ = 0

\* The writeup's claim, which the comments at bathroom.c:114 and :119 rely on:
\* two genders are never inside together.  The code breaks it.
GenderExclusion == \A t, u \in Inside : gender[t] = gender[u]

\* The readme's claim about the histograms: an entry increments "that position in
\* the array", an array of one cell per user.  The code breaks it.
OccupancyIndexInBounds == missedB = 0

\* Everybody inside has the gender the flag shows.
FlagShowsOccupants == \A t \in Inside : gender[t] = flag

\* The only step that can put the flag at odds with the occupants is the return
\* from pthread_cond_wait: arrivals and departures keep them in agreement.
OnlyResumptionMisflags ==
  [][FlagShowsOccupants /\ ~FlagShowsOccupants'
       => \E t \in Threads : pc[t] = Resuming /\ pc'[t] = Using]_monitorVars

=============================================================================
