----------------------------- MODULE Commander -----------------------------
(***************************************************************************)
(* Mid-Day Commander v2 (project1/mc2.c): the menu loop, the commands the  *)
(* user adds, and the array running of background processes, over a table  *)
(* of processes with fork, exec, exit and wait.                            *)
(*                                                                         *)
(* Every commander is a process of its own, with its own copy of running   *)
(* and commands: the first one, each background child (it runs its command *)
(* and then comes back into the menu loop) and each child whose exec       *)
(* failed (it comes back into the menu loop as well).  All of them read    *)
(* the same input.  What processes do is in state:                         *)
(*                                                                         *)
(*   poll     at the start of mainprocess                                  *)
(*   menu     at the prompt                                                *)
(*   wait     in run, blocked in wait(NULL)                                *)
(*   loop     back in main after mainprocess returned 1                    *)
(*   leave    after mainprocess returned 0                                 *)
(*   start    a background child that has not yet called run               *)
(*   exec     a child of run that has not yet called execvp                *)
(*   program  a child that executes its command                            *)
(*   zombie   ended, but nobody has waited for it                          *)
(*                                                                         *)
(* Pids are given out in ascending order and MaxPid ends the exploration;  *)
(* a fork may fail at any time, and does when no pid is left.              *)
(* MaxCommands bounds the commands the user adds.  The global leave is     *)
(* set after the menu loop only, so the tests of it inside never succeed   *)
(* and it is not a variable here.                                          *)
(***************************************************************************)
EXTENDS Integers, Sequences, FiniteSets, FiniteSetsExt

CONSTANTS MaxBack,      \* the places of running
          MaxPid,       \* the last pid
          MaxCommands   \* how many commands the user adds

ASSUME CommanderAssumption ==
  /\ MaxBack \in Nat \ {0, 1}
  /\ MaxPid \in Nat \ {0}
  /\ MaxCommands \in Nat

VARIABLES state,      \* what each process does
          parent,     \* who waits for it: a commander, or Nobody
          running,    \* the background array of each commander
          commands,   \* added commands: is it a background command?
          unset,      \* has it used an index that was never assigned?
          last,       \* the last pid given out
          eof         \* is every answer from now on e, or the end of the input?

vars == <<state, parent, running, commands, unset, last, eof>>

Pids == 1 .. MaxPid
Slots == 0 .. MaxBack - 1
Nobody == 0         \* the parent of those who have none here
Failed == -1        \* what fork returns when it fails

Looping == {"poll", "menu", "loop"}
Commanders == Looping \union {"wait", "leave"}
States == Commanders \union {"unused", "start", "exec", "program", "zombie", "gone"}

Empty == [i \in Slots |-> 0]

Children(c) == {p \in Pids : parent[p] = c}
Ended(c) == {p \in Children(c) : state[p] = "zombie"}

-----------------------------------------------------------------------------
(* The array. *)

Zeros(a) == {i \in Slots : a[i] = 0}

Listed(a) == {a[i] : i \in Slots} \ {0, Failed}

\* Mutant: the loop starts at the second place.
emptybackground_FromOne(a) == \A i \in Slots \ {0} : a[i] \in {0, Failed}

emptybackground(a) == Listed(a) = {}

(* An array without a free place stays as it is. *)
addrunning(a, pid) ==
  IF Zeros(a) = {} THEN a ELSE [a EXCEPT ![Min(Zeros(a))] = pid]

Cleared(a, pid) == [i \in Slots |-> IF a[i] = pid THEN 0 ELSE a[i]]

\* Mutant: the zero is looked for by the pid, which has just been cleared, and the
\* index stays 0.
Indices_NeverFound(a) == {0}

(* The last zero; without a zero the variable keeps what it happened to    *)
(* hold. Every number from the last place on has the effect of MaxBack:    *)
(* nothing. A negative one would move memory outside the array, which is   *)
(* not followed.                                                           *)
Indices(a) == IF Zeros(a) = {} THEN 0 .. MaxBack ELSE {Max(Zeros(a))}

Shifted(a, index) ==
  [i \in Slots |-> IF i >= index /\ i < MaxBack - 1 THEN a[i + 1] ELSE a[i]]

removebackground(c, pid) ==
  LET a == Cleared(running[c], pid)
  IN  /\ \E index \in Indices(a) : running' = [running EXCEPT ![c] = Shifted(a, index)]
      /\ unset' = [unset EXCEPT ![c] = @ \/ Zeros(a) = {}]

-----------------------------------------------------------------------------
(* Processes. *)

(* The child is a copy of its parent, with the array as it is now. *)
Fork(c, next, born) ==
  LET child == last + 1
  IN  /\ last < MaxPid
      /\ last' = child
      /\ state' = [state EXCEPT ![c] = next, ![child] = born]
      /\ parent' = [parent EXCEPT ![child] = c]
      /\ commands' = [commands EXCEPT ![child] = commands[c]]
      /\ unset' = [unset EXCEPT ![child] = unset[c]]

ForkFails(c, next) ==
  /\ state' = [state EXCEPT ![c] = next]
  /\ UNCHANGED <<parent, commands, unset, last>>

(* z has been waited for and c goes on. *)
Reap(c, z, next) ==
  /\ state' = [state EXCEPT ![c] = next, ![z] = "gone"]
  /\ parent' = [parent EXCEPT ![z] = Nobody]

(* The memory of p is given back or replaced by that of another program. *)
Forget(p) ==
  /\ running' = [running EXCEPT ![p] = Empty]
  /\ commands' = [commands EXCEPT ![p] = <<>>]
  /\ unset' = [unset EXCEPT ![p] = FALSE]

(* The end of p: its children go to init, which waits for the ended ones. *)
End(p) ==
  /\ state' = [q \in Pids |->
                 CASE q = p          -> IF parent[p] = Nobody THEN "gone" ELSE "zombie"
                   [] q \in Ended(p) -> "gone"
                   [] OTHER          -> state[q]]
  /\ parent' = [q \in Pids |-> IF q \in Children(p) THEN Nobody ELSE parent[q]]
  /\ Forget(p)
  /\ UNCHANGED <<last, eof>>

Exec(p) ==
  /\ state[p] = "exec"
  /\ state' = [state EXCEPT ![p] = "program"]
  /\ Forget(p)
  /\ UNCHANGED <<parent, last, eof>>

ExecFails(p) ==
  /\ state[p] = "exec"
  /\ state' = [state EXCEPT ![p] = "loop"]
  /\ UNCHANGED <<parent, running, commands, unset, last, eof>>

ProgramEnds(p) ==
  /\ state[p] = "program"
  /\ End(p)

-----------------------------------------------------------------------------
(* run *)

\* Mutant: parent and child are confused.
run_Swapped(c) ==
  /\ \/ /\ Fork(c, "exec", "wait")
        /\ running' = [running EXCEPT ![last + 1] = running[c]]
     \/ /\ ForkFails(c, "wait")
        /\ UNCHANGED running
  /\ UNCHANGED eof

run(c) ==
  /\ \/ /\ Fork(c, "wait", "exec")
        /\ running' = [running EXCEPT ![last + 1] = running[c]]
     \/ /\ ForkFails(c, "wait")
        /\ UNCHANGED running
  /\ UNCHANGED eof

(* wait takes any child that has ended, and fails when there is none at all. *)
WaitReturns(c) ==
  /\ state[c] = "wait"
  /\ \/ \E z \in Ended(c) : Reap(c, z, "loop")
     \/ /\ Children(c) = {}
        /\ state' = [state EXCEPT ![c] = "loop"]
        /\ UNCHANGED parent
  /\ UNCHANGED <<running, commands, unset, last, eof>>

-----------------------------------------------------------------------------
(* mainprocess *)

\* Mutant: only processes the array lists are looked at.
Poll_ListedOnly(c) ==
  /\ state[c] = "poll"
  /\ LET ended == Ended(c) \intersect Listed(running[c])
     IN  \/ \E z \in ended : Reap(c, z, "menu") /\ removebackground(c, z)
         \/ /\ ended = {}
            /\ state' = [state EXCEPT ![c] = "menu"]
            /\ UNCHANGED <<parent, running, unset>>
  /\ UNCHANGED <<commands, last, eof>>

Poll(c) ==
  /\ state[c] = "poll"
  /\ \/ \E z \in Ended(c) : Reap(c, z, "menu") /\ removebackground(c, z)
     \/ /\ Ended(c) = {}
        /\ state' = [state EXCEPT ![c] = "menu"]
        /\ UNCHANGED <<parent, running, unset>>
  /\ UNCHANGED <<commands, last, eof>>

Chooses(c) == state[c] = "menu" /\ ~eof

(* 0, 1, 2, p, an added command without &, and /, which is the number of   *)
(* the entries of commands nobody has added.                               *)
ChooseCommand(c) == Chooses(c) /\ run(c)

\* Mutant: addrunning is not called.
ChooseTask_Unlisted(c) ==
  /\ Chooses(c)
  /\ \E i \in 1 .. Len(commands[c]) : commands[c][i]
  /\ \/ /\ Fork(c, "loop", "start")
        /\ running' = [running EXCEPT ![last + 1] = running[c]]
     \/ ForkFails(c, "loop") /\ UNCHANGED running
  /\ UNCHANGED eof

(* An added command with &. The child has not been listed when it is born. *)
ChooseTask(c) ==
  /\ Chooses(c)
  /\ \E i \in 1 .. Len(commands[c]) : commands[c][i]
  /\ \/ /\ Fork(c, "loop", "start")
        /\ running' = [running EXCEPT ![last + 1] = running[c],
                                      ![c] = addrunning(running[c], last + 1)]
     \/ /\ ForkFails(c, "loop")
        /\ running' = [running EXCEPT ![c] = addrunning(running[c], Failed)]
  /\ UNCHANGED eof

RunTask(c) == state[c] = "start" /\ run(c)

addcommand(c, background) ==
  commands' = [commands EXCEPT ![c] = Append(@, background)]

(* With or without &. *)
ChooseAdd(c) ==
  /\ Chooses(c)
  /\ Len(commands[c]) < MaxCommands
  /\ \E background \in BOOLEAN : addcommand(c, background)
  /\ state' = [state EXCEPT ![c] = "loop"]
  /\ UNCHANGED <<parent, running, unset, last, eof>>

(* A command of a single word: strcpy from the token that is not there. *)
AddWithoutArgument(c) == Chooses(c) /\ End(c)

(* c, r and invalid input. *)
ChooseOther(c) ==
  /\ Chooses(c)
  /\ state' = [state EXCEPT ![c] = "loop"]
  /\ UNCHANGED <<parent, running, commands, unset, last, eof>>

(* e, or the end of the input. *)
LogOut(c) ==
  /\ state[c] = "menu"
  /\ state' = [state EXCEPT ![c] = "leave"]
  /\ UNCHANGED <<parent, running, commands, unset, last, eof>>

-----------------------------------------------------------------------------
(* main *)

Loop(c) ==
  /\ state[c] = "loop"
  /\ removebackground(c, 0)
  /\ state' = [state EXCEPT ![c] = "poll"]
  /\ UNCHANGED <<parent, commands, last, eof>>

\* Mutant: waits until a listed process has ended, also when there is no child.
Leave_WaitsForListed(c) ==
  /\ state[c] = "leave"
  /\ emptybackground(running[c]) \/ Ended(c) # {}
  /\ End(c)

(* One child is waited for, if the array lists a process and there is one. *)
Leave(c) ==
  /\ state[c] = "leave"
  /\ \/ emptybackground(running[c])
     \/ Children(c) = {}
     \/ Ended(c) # {}
  /\ End(c)

(* From now on every prompt, whichever process shows it, is answered with e *)
(* or the end of the input, as the readme (4) tells the user to do.        *)
CloseInput ==
  /\ ~eof
  /\ eof' = TRUE
  /\ UNCHANGED <<state, parent, running, commands, unset, last>>

-----------------------------------------------------------------------------
Start(at) ==
  /\ state = [p \in Pids |-> IF p = 1 THEN at ELSE "unused"]
  /\ parent = [p \in Pids |-> Nobody]
  /\ running = [p \in Pids |-> Empty]
  /\ commands = [p \in Pids |-> <<>>]
  /\ unset = [p \in Pids |-> FALSE]
  /\ last = 1
  /\ eof = FALSE

Init == Start("poll")

(* What a process does by itself. *)
Step(p) ==
  \/ Exec(p) \/ ExecFails(p) \/ ProgramEnds(p)
  \/ RunTask(p) \/ WaitReturns(p)
  \/ Poll(p) \/ Loop(p) \/ Leave(p)

(* What the user makes it do. *)
Choice(p) ==
  \/ ChooseCommand(p) \/ ChooseTask(p) \/ ChooseOther(p)
  \/ ChooseAdd(p) \/ AddWithoutArgument(p) \/ LogOut(p)

Next == CloseInput \/ \E p \in Pids : Step(p) \/ Choice(p)

Fairness == \A p \in Pids : WF_vars(Step(p) \/ (eof /\ LogOut(p)))

Spec == Init /\ [][Next]_vars /\ Fairness
-----------------------------------------------------------------------------
(* The values of the variables; whoever has a parent has one that is still *)
(* a commander, so that somebody can wait for it; and pids that have not   *)
(* been given out belong to nobody. (mc2.c, lines 142 to 171 and 316)      *)
TypeOK ==
  /\ state \in [Pids -> States]
  /\ parent \in [Pids -> Pids \union {Nobody}]
  /\ \A p \in Pids : running[p] \in [Slots -> Pids \union {0, Failed}]
  /\ \A p \in Pids : /\ commands[p] \in Seq(BOOLEAN)
                     /\ Len(commands[p]) <= MaxCommands
  /\ unset \in [Pids -> BOOLEAN]
  /\ last \in Pids
  /\ eof \in BOOLEAN
  /\ \A p \in Pids : parent[p] # Nobody => state[parent[p]] \in Commanders
  /\ \A p \in Pids : p > last <=> state[p] = "unused"

(* The entries that name a process c can no longer wait for: one that run  *)
(* has waited for, or one inherited from the commander c is a copy of.     *)
Stale(c) == {i \in Slots : running[c][i] \in Pids \ Children(c)}

Unlisted(c) == Children(c) \ Listed(running[c])

(* As long as the array has not been full, a commander has at most as many *)
(* children it does not list as its array has entries for processes that   *)
(* are not there, and one more while it waits in run. So a command that    *)
(* runs on unnoticed was always exchanged, by wait(NULL), for a background *)
(* process that ended. (mc2.c, lines 157, 177 and 323)                     *)
UnlistedAccounted ==
  \A c \in Pids : state[c] \in Commanders /\ ~unset[c] =>
    Cardinality(Unlisted(c)) <=
      Cardinality(Stale(c)) + (IF state[c] = "wait" THEN 1 ELSE 0)

(* As long as the array has not been full, what it lists stays listed, at  *)
(* whatever place, until its commander has waited for it: every removal,   *)
(* and every round of the loop, runs the code that shifts, and loses       *)
(* nobody. A process that is gone, or another commander's, stays for good. *)
(* (mc2.c, lines 58 to 76 and 365)                                         *)
ListedUntilReaped ==
  [][\A c \in Pids : \A p \in Listed(running[c]) \ Listed(running'[c]) :
       \/ state[c] \notin Looping
       \/ state'[c] \notin Commanders
       \/ unset'[c]
       \/ p \in Ended(c) /\ state'[p] = "gone"]_vars

(* As long as the array has not been full, a commander that leaves and has *)
(* children has waited for one of them: no stale entry, and no command it  *)
(* has lost track of, makes it forget the rest altogether.                 *)
(* (mc2.c, lines 382 to 385)                                               *)
LeavingWaitsForOne ==
  [][\A c \in Pids :
       /\ state[c] = "leave" /\ state'[c] # "leave"
       /\ ~unset[c] /\ Children(c) # {}
       => Ended(c) # {}]_vars

(* A background process that ends is waited for sooner or later by a       *)
(* commander that is used again and again, although a round waits for one  *)
(* process only and run may wait for others. A child has the higher pid.   *)
(* (mc2.c, lines 157 and 177)                                              *)
ReapedInTheEnd ==
  \A c \in Pids : \A p \in c + 1 .. MaxPid :
    [](state[p] = "zombie" /\ parent[p] = c
         => <>(state[p] = "gone") \/ <>[](state[c] # "poll"))

(* What the comment on line 157 and the readme say together: run waits for *)
(* the child to terminate, so that what runs beside a commander that goes  *)
(* on is what its array lists. (mc2.c, line 157)                           *)
OnlyTasksInBackground ==
  \A c \in Pids : state[c] \in Looping /\ ~unset[c] =>
    \A p \in Children(c) : state[p] # "zombie" => p \in Listed(running[c])
=============================================================================
