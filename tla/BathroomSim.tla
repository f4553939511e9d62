---------------------------- MODULE BathroomSim ----------------------------
(***************************************************************************)
(* The simulation of project3/bathroomsim.c around the monitor of module   *)
(* Bathroom: main creates one thread per user and joins them, every thread *)
(* runs Individual, which visits the bathroom loopcount times, and main    *)
(* then runs Finalize.  Of the numbers Finalize prints only the totals of  *)
(* the two histograms are here; the averages and the times are not.        *)
(*                                                                         *)
(* The times a thread sleeps are left out: usleep only lets the others run *)
(* for any number of steps, which the interleaving does anyway.            *)
(***************************************************************************)
EXTENDS Bathroom, FiniteSetsExt, Functions

CONSTANTS
  MaxLoops,      \* bound: the largest loopcount generateStandardRand returns
  MaxVisits,     \* bound: the sum of all loopcounts
  MaxFailures    \* bound: how many pthread_create calls may fail

ASSUME LoopsAssumption ==
  /\ MaxLoops \in Nat \ {0}
  /\ MaxVisits \in Nat /\ MaxVisits >= NumUsers
  /\ MaxFailures \in Nat

VARIABLES
  main,        \* where main is
  stage,       \* where thread t is in Individual
  loopcount,   \* Individual's loopcount
  visits,      \* i: completed rounds of Individual's loop
  numwaits,    \* Individual's numwaits
  print,       \* the mutex around the printing: its holder, or Unlocked
  bper, qper   \* Finalize's totals of barray and qarray; 0 before

totals  == <<bper, qper>>
simVars == <<main, stage, loopcount, visits, numwaits, print, totals>>
vars    == <<monitorVars, simVars>>

-----------------------------------------------------------------------------

\* Stages of a thread.
Unborn   == "unborn"     \* pthread_create not yet called
Failed   == "failed"     \* pthread_create failed: no such thread
Skipped  == "skipped"    \* failed, and pthread_join of it returned an error
Visiting == "visiting"   \* in the loop, up to the return of Leave
Tallying == "tallying"   \* in the loop, after Leave
Report   == "report"     \* after the loop
Printing == "printing"   \* holds print
Ended    == "ended"      \* pthread_exit

Stages == {Unborn, Failed, Skipped, Visiting, Tallying, Report, Printing, Ended}
In(stages) == {t \in Threads : stage[t] \in stages}

\* Stages of main.
Running == {"creating", "joining"}
Over    == {"done", "aborted", "crashed"}

SimInit ==
  /\ Init
  /\ main = "creating"
  /\ stage = [t \in Threads |-> Unborn]
  /\ loopcount = [t \in Threads |-> 0]
  /\ visits = [t \in Threads |-> 0]
  /\ numwaits = [t \in Threads |-> 0]
  /\ print = Unlocked
  /\ bper = 0 /\ qper = 0

-----------------------------------------------------------------------------
(* main.                                                                    *)

\* pthread_create succeeds; the thread draws its loopcount, at least 1.
Create(t) ==
  /\ main = "creating"
  /\ stage[t] = Unborn
  /\ stage' = [stage EXCEPT ![t] = Visiting]
  /\ \E n \in 1 .. MaxLoops :
       /\ SumFunction(loopcount) + n + Cardinality(In({Unborn}) \ {t}) <= MaxVisits
       /\ loopcount' = [loopcount EXCEPT ![t] = n]
  /\ UNCHANGED <<monitorVars, main, visits, numwaits, print, totals>>

\* pthread_create fails; main does not look at its result.
CreateFails(t) ==
  /\ main = "creating"
  /\ stage[t] = Unborn
  /\ Cardinality(In({Failed})) < MaxFailures
  /\ stage' = [stage EXCEPT ![t] = Failed]
  /\ UNCHANGED <<monitorVars, main, loopcount, visits, numwaits, print, totals>>

StartJoining ==
  /\ main = "creating"
  /\ In({Unborn}) = {}
  /\ main' = "joining"
  /\ UNCHANGED <<monitorVars, stage, loopcount, visits, numwaits, print, totals>>

\* pthread_join of a pthread_t that was never written: an error that main
\* ignores, or a crash.
JoinGarbage(t) ==
  /\ main = "joining"
  /\ stage[t] = Failed
  /\ \/ stage' = [stage EXCEPT ![t] = Skipped] /\ main' = main
     \/ stage' = stage /\ main' = "crashed"
  /\ UNCHANGED <<monitorVars, loopcount, visits, numwaits, print, totals>>

\* The sum Finalize takes over an array: the cells as they are, -1 left out.
Frequency(array) ==
  SumFunction([i \in DOMAIN array |-> IF array[i] = -1 THEN 0 ELSE array[i]])

\* The totals, and the arrays are freed: a write past the end of barray may have
\* hit the allocator's own data, and free then aborts the program.
PrintAndFree ==
  /\ bper' = Frequency(barray)
  /\ qper' = Frequency(qarray)
  /\ \/ main' = "done"
     \/ missedB > 0 /\ main' = "aborted"
  /\ UNCHANGED <<monitorVars, stage, loopcount, visits, numwaits, print>>

\* Mutant: main joins one thread only.
Finalize_OneJoin ==
  /\ main = "joining"
  /\ In({Ended, Skipped}) # {}
  /\ PrintAndFree

\* Every join has returned.
Finalize ==
  /\ main = "joining"
  /\ In({Ended, Skipped}) = Threads
  /\ PrintAndFree

MainStep ==
  \/ \E t \in Threads : Create(t) \/ CreateFails(t) \/ JoinGarbage(t)
  \/ StartJoining
  \/ Finalize

-----------------------------------------------------------------------------
(* Individual.                                                              *)

\* In Enter, in the bathroom, or taking the mutex to leave it.
Visit(t) ==
  /\ stage[t] = Visiting
  /\ LockEnter(t) \/ EnterStep(t) \/ LockLeave(t)
  /\ UNCHANGED simVars

\* Leave returns.
FinishVisit(t) ==
  /\ stage[t] = Visiting
  /\ LeaveStep(t)
  /\ stage' = [stage EXCEPT ![t] = Tallying]
  /\ UNCHANGED <<main, loopcount, visits, numwaits, print, totals>>

\* Mutant: the numbers of visits and of waits are updated together.
Tally_EveryVisit(t) ==
  /\ stage[t] = Tallying
  /\ wait[t] => print = Unlocked
  /\ numwaits' = [numwaits EXCEPT ![t] = @ + 1]
  /\ visits' = [visits EXCEPT ![t] = @ + 1]
  /\ stage' = [stage EXCEPT ![t] =
                 IF visits[t] + 1 < loopcount[t] THEN Visiting ELSE Report]
  /\ UNCHANGED <<monitorVars, main, loopcount, print, totals>>

\* Mutant: "i<=loopcount".
Tally_OneMore(t) ==
  /\ stage[t] = Tallying
  /\ wait[t] => print = Unlocked
  /\ numwaits' = [numwaits EXCEPT ![t] = IF wait[t] THEN @ + 1 ELSE @]
  /\ visits' = [visits EXCEPT ![t] = @ + 1]
  /\ stage' = [stage EXCEPT ![t] =
                 IF visits[t] + 1 <= loopcount[t] THEN Visiting ELSE Report]
  /\ UNCHANGED <<monitorVars, main, loopcount, print, totals>>

\* The rest of the loop body.  A visit that waited takes and drops print, with
\* nothing in between, so it only has to find print free once.
Tally(t) ==
  /\ stage[t] = Tallying
  /\ wait[t] => print = Unlocked
  /\ numwaits' = [numwaits EXCEPT ![t] = IF wait[t] THEN @ + 1 ELSE @]
  /\ visits' = [visits EXCEPT ![t] = @ + 1]
  /\ stage' = [stage EXCEPT ![t] =
                 IF visits[t] + 1 < loopcount[t] THEN Visiting ELSE Report]
  /\ UNCHANGED <<monitorVars, main, loopcount, print, totals>>

LockPrint(t) ==
  /\ stage[t] = Report
  /\ print = Unlocked
  /\ print' = t
  /\ stage' = [stage EXCEPT ![t] = Printing]
  /\ UNCHANGED <<monitorVars, main, loopcount, visits, numwaits, totals>>

\* Mutant: pthread_exit without the unlock of print.
Terminate_KeepsPrint(t) ==
  /\ stage[t] = Printing
  /\ stage' = [stage EXCEPT ![t] = Ended]
  /\ UNCHANGED <<monitorVars, main, loopcount, visits, numwaits, print, totals>>

\* The thread has printed its statistics.
Terminate(t) ==
  /\ stage[t] = Printing
  /\ print' = Unlocked
  /\ stage' = [stage EXCEPT ![t] = Ended]
  /\ UNCHANGED <<monitorVars, main, loopcount, visits, numwaits, totals>>

\* What thread t does of its own accord.
ThreadStep(t) ==
  /\ main \in Running
  /\ Visit(t) \/ FinishVisit(t) \/ Tally(t) \/ LockPrint(t) \/ Terminate(t)

\* A return from pthread_cond_wait that nobody caused.
SpuriousWakeup(t) ==
  /\ main \in Running
  /\ Spurious(t)
  /\ UNCHANGED simVars

\* The process has ended.
Stopped == main \in Over /\ UNCHANGED vars

SimNext ==
  \/ MainStep
  \/ \E t \in Threads : ThreadStep(t) \/ SpuriousWakeup(t)
  \/ Stopped

\* Every thread that can run is run again and again: the scheduler's only duty.
\* Nothing is assumed of the mutexes beyond that; the loops are finite, so a
\* thread that keeps losing lock to the others eventually competes alone.
Fairness ==
  /\ WF_vars(MainStep)
  /\ \A t \in Threads : WF_vars(ThreadStep(t))

SimSpec     == SimInit /\ [][SimNext]_vars
FairSimSpec == SimSpec /\ Fairness

-----------------------------------------------------------------------------
(* Properties.                                                              *)

\* Control of main, threads, their locals and print fit together.
SimTypeOK ==
  /\ main \in Running \cup Over
  /\ stage \in [Threads -> Stages]
  /\ loopcount \in [Threads -> 0 .. MaxLoops]
  /\ \A t \in Threads : visits[t] \in 0 .. loopcount[t] /\ numwaits[t] \in 0 .. visits[t]
  /\ print \in Threads \cup {Unlocked}
  /\ bper \in Int /\ qper \in Int

\* How many cells of a histogram have been counted in: the first count takes a cell
\* from -1 to 0.
Nonempty(array) == Cardinality({i \in DOMAIN array : array[i] # -1})

\* The statistics balance: every entry is a finished, a present or an unrecorded
\* visit of some thread, every wait is one of those that went through the queue.
\* What Finalize adds up falls short of both by one for each cell in use and by the
\* counts that fell outside the array, at any moment and in the totals printed.
StatisticsBalance ==
  LET present(S) == Cardinality({t \in S : stage[t] = Tallying \/ t \in Inside})
  IN /\ uses = SumFunction(visits) + present(Threads)
     /\ ques = SumFunction(numwaits) + quers + present({t \in Threads : wait[t]})
     /\ uses = Frequency(barray) + Nonempty(barray) + missedB
     /\ ques = Frequency(qarray) + Nonempty(qarray) + missedQ
     /\ main \in {"done", "aborted"} =>
          /\ uses = bper + Nonempty(barray) + missedB
          /\ ques = qper + Nonempty(qarray) + missedQ

\* "at the end we loop through the entire array and calculate the total frequency"
\* (readme, 29): the totals are the numbers of entries and of waits, but for the
\* entries counted outside barray.
TotalFrequency == main = "done" => bper + missedB = uses /\ qper + missedQ = ques

\* Finalize destroys the mutexes and the condition variable and frees the arrays
\* (bathroom.c:86 to 90) only when no thread can use them again.
QuietAtFinalize ==
  main \in {"done", "aborted"} =>
    /\ \A t \in Threads : pc[t] = Outside
    /\ lock = Unlocked /\ print = Unlocked
    /\ flag = VACANT /\ users = 0 /\ quers = 0
    /\ uses = SumFunction(loopcount)

\* Every thread ends and so does the program, by its last line or by one of the
\* two faults of main.
SimulationEnds == <>(main \in Over)

\* Nobody stays in the queue: a blocked thread is let in, unless main's join of
\* a thread that was not created brings the process down first.
WaiterGetsIn ==
  \A t \in Threads : pc[t] = Blocked ~> pc[t] = Using \/ main = "crashed"
=============================================================================
