---------------------------- MODULE MCCommander ----------------------------
(***************************************************************************)
(* The three versions of Mid-Day Commander for TLC: the version is chosen  *)
(* in the initial state.                                                   *)
(***************************************************************************)
EXTENDS EarlyCommander

MCInit ==
  \/ EarlyInit
  \/ version = 2 /\ Init /\ depth = [p \in Pids |-> 0]

MCNext ==
  \/ version # 2 /\ EarlyNext
  \/ version = 2 /\ Next /\ UNCHANGED <<version, depth>>

(* Processes run, programs end, and once eof is set prompts are answered.  *)
Goes(p) ==
  \/ /\ version = 2
     /\ Step(p) \/ (eof /\ LogOut(p))
     /\ UNCHANGED <<version, depth>>
  \/ /\ version # 2
     /\ EarlyStep(p) \/ (eof /\ EarlyChoice(p))
     /\ UNCHANGED version

MCSpec == MCInit /\ [][MCNext]_allVars /\ \A p \in Pids : WF_allVars(Goes(p))
=============================================================================
