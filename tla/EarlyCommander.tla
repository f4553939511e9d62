--------------------------- MODULE EarlyCommander ---------------------------
(***************************************************************************)
(* Mid-Day Commander v0 and v1 (project1/mc0.c, mc1.c), over the processes *)
(* of Commander.  They have no background processes: every command runs    *)
(* while its commander waits.  A round of the menu is a call of main, and  *)
(* the next round a call of main by main; MaxDepth of them fit the stack.  *)
(* The version is chosen at the start and never changes; version 2 is left *)
(* to Commander.                                                           *)
(***************************************************************************)
EXTENDS Commander

CONSTANT MaxDepth

ASSUME DepthAssumption == MaxDepth \in Nat \ {0}

VARIABLES version,    \* 0 for mc0.c, 1 for mc1.c
          depth       \* the calls of main on the stack of each commander

allVars == <<vars, version, depth>>

(* A fork copies the stack, and who is no commander has none of main. *)
Frames ==
  depth' = [p \in Pids |->
              CASE state'[p] \notin Commanders \union {"exec"} -> 0
                [] p > last                                    -> depth[parent'[p]]
                [] OTHER                                       -> depth[p]]

(* The next round, or the end of the stack. *)
Recur(c) ==
  /\ state[c] = "loop"
  /\ \/ /\ depth[c] < MaxDepth
        /\ state' = [state EXCEPT ![c] = "menu"]
        /\ depth' = [depth EXCEPT ![c] = @ + 1]
        /\ UNCHANGED <<parent, running, commands, unset, last, eof>>
     \/ /\ depth[c] = MaxDepth
        /\ End(c)
        /\ Frames

(* Whatever is not 0, 1 or 2, the end of the input included. *)
InvalidInput(c) ==
  /\ state[c] = "menu"
  /\ state' = [state EXCEPT ![c] = "loop"]
  /\ UNCHANGED <<parent, running, commands, unset, last, eof>>

Choice0(c) == ChooseCommand(c) \/ InvalidInput(c)

ChooseAdd1(c) ==
  /\ Chooses(c)
  /\ Len(commands[c]) < MaxCommands
  /\ addcommand(c, FALSE)
  /\ state' = [state EXCEPT ![c] = "loop"]
  /\ UNCHANGED <<parent, running, unset, last, eof>>

(* e, or the end of the input. All the calls of main return. *)
Exit1(c) == state[c] = "menu" /\ End(c)

Choice1(c) ==
  \/ ChooseCommand(c) \/ ChooseAdd1(c) \/ AddWithoutArgument(c)
  \/ ChooseOther(c) \/ Exit1(c)

\* Mutant: a wait that does not wait (WNOHANG).
Execute_NoHang(p) ==
  \/ Exec(p) \/ ExecFails(p) \/ ProgramEnds(p)
  \/ WaitReturns(p)
  \/ /\ state[p] = "wait" /\ Ended(p) = {}
     /\ state' = [state EXCEPT ![p] = "loop"]
     /\ UNCHANGED <<parent, running, commands, unset, last, eof>>

(* The two sides of run after the fork. *)
Execute(p) == Exec(p) \/ ExecFails(p) \/ ProgramEnds(p) \/ WaitReturns(p)

EarlyInit ==
  /\ version \in {0, 1}
  /\ Start("menu")
  /\ depth = [p \in Pids |-> IF p = 1 THEN 1 ELSE 0]

(* What a process does by itself. *)
EarlyStep(p) == \/ Execute(p) /\ Frames
                \/ Recur(p)

(* What the user makes it do. *)
EarlyChoice(p) == /\ \/ version = 0 /\ Choice0(p)
                     \/ version = 1 /\ Choice1(p)
                  /\ Frames

EarlyNext ==
  /\ \/ CloseInput /\ UNCHANGED depth
     \/ \E p \in Pids : EarlyStep(p) \/ EarlyChoice(p)
  /\ UNCHANGED version

EarlySpec == EarlyInit /\ [][EarlyNext]_allVars

-----------------------------------------------------------------------------
(* Who neither waits nor is over: in its menu, about to execute a command, *)
(* executing it, or ended and not yet waited for.                          *)
Active == {p \in Pids : state[p] \notin {"wait", "unused", "gone"}}

(* One process at a time has the terminal: a command whose exec fails adds *)
(* a second menu, but only while the first waits, however deep this goes.  *)
(* With background processes it is otherwise. (mc0.c, line 41; mc1.c, line *)
(* 99)                                                                     *)
OneAtATime ==
  version # 2 => \A p, q \in Active : p = q

(* The wait for any child is a wait for the command that was just started: *)
(* nobody has two children, or one while it does not wait. (mc0.c, lines   *)
(* 28 to 41; mc1.c, lines 86 to 99)                                        *)
WaitIsForTheCommand ==
  version # 2 => \A c \in Pids : /\ Cardinality(Children(c)) <= 1
                                 /\ Children(c) # {} => state[c] = "wait"

(* In the versions that have an exit, once every prompt of every process   *)
(* is answered with e or the end of the input, all processes come to their *)
(* end: the first commander, its second menus, background copies and those *)
(* that wait. One answer is not enough, since a leaving commander waits    *)
(* for one child only and its other copies show prompts of their own       *)
(* (readme, 4); v0 goes on asking (readme, 8). Commands end by themselves. *)
(* (mc1.c, lines 207 and 259; mc2.c, lines 157, 187, 269 and 384)          *)
ExitEverywhereEnds ==
  version # 0 /\ eof ~> \A p \in Pids : state[p] \in {"unused", "gone"}
=============================================================================
