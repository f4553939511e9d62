----------------------------- MODULE MCBathroom -----------------------------
(***************************************************************************)
(* The instances of BathroomSim that TLC checks, and the refinement of     *)
(* Room by BathroomSim.                                                    *)
(***************************************************************************)
EXTENDS BathroomSim, TLC

\* Threads are interchangeable; used only where no liveness is checked.
ThreadSymmetry == Permutations(Threads)

\* Of the genders only who differs from whom matters, so with three threads these
\* two assignments stand for all eight.
Odd == CHOOSE t \in Threads : TRUE
OneOddAtMost ==
  /\ SimInit
  /\ gender \in {[t \in Threads |-> IF t = Odd THEN g ELSE MALE] : g \in Gender}

FairSimSpecUpToRenaming == OneOddAtMost /\ [][SimNext]_vars /\ Fairness

Hall == INSTANCE Room WITH
          People     <- Threads,
          EarlyCalls <- SpuriousWakeups,
          inside     <- Inside,
          line       <- Waiting,
          called     <- At({Woken, Resuming}),
          shut       <- main = "crashed"

\* The monitor keeps the promises of Room: nobody lines up for an empty room, the
\* last one out calls the whole line, and who is called gets in.
ImplementsRoom == Hall!RoomSpec
=============================================================================
