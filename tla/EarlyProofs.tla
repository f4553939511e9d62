---------------------------- MODULE EarlyProofs ----------------------------
(***************************************************************************)
(* Mid-Day Commander v0 and v1 never have two processes at the terminal,   *)
(* for any numbers of processes, commands and calls of main.               *)
(***************************************************************************)
EXTENDS EarlyCommander, FiniteSetTheorems, TLAPS

(* Those who are there and wait for nobody that exists. *)
Tops == {p \in Pids : state[p] \notin {"unused", "gone"} /\ Children(p) = {}}

Types ==
  /\ version \in {0, 1}
  /\ last \in Nat
  /\ state \in [Pids -> States]
  /\ parent \in [Pids -> Pids \union {Nobody}]

(* The processes form a line: there is one at most at the end of it, nobody *)
(* has two children, and who has one waits. Pids above last are free.       *)
Line ==
  /\ \A p, q \in Tops : p = q
  /\ \A p, q \in Pids : parent[p] = parent[q] /\ parent[p] # Nobody => p = q
  /\ \A p \in Pids : parent[p] # Nobody => state[parent[p]] = "wait"
  /\ \A p \in Pids : p > last => state[p] = "unused" /\ parent[p] = Nobody

IInv == Types /\ Line

tree == <<version, last, state, parent>>

-----------------------------------------------------------------------------
\* Nobody stands for no process.
LEMMA NobodyIsNoPid == Nobody \notin Pids
BY DEF Nobody, Pids

\* At the start the invariant holds.
LEMMA Start1 == EarlyInit => IInv
<1> SUFFICES ASSUME EarlyInit PROVE IInv
  OBVIOUS
<1> USE CommanderAssumption
<1>1. Types
  BY DEF EarlyInit, Start, Types, States, Commanders, Looping
<1>2. Tops \subseteq {1}
  BY DEF EarlyInit, Start, Tops
<1>3. Line
  BY <1>2 DEF EarlyInit, Start, Line, Pids
<1> QED
  BY <1>1, <1>3 DEF IInv

(* What c does alone, without being waited for. *)
LEMMA Alone ==
  ASSUME IInv, NEW c \in Pids, NEW s \in States,
         state[c] # "wait" \/ Children(c) = {},
         state[c] \notin {"unused", "gone"}, s # "unused",
         UNCHANGED <<version, last, parent>>,
         state' = [state EXCEPT ![c] = s]
  PROVE  IInv'
<1> USE DEF IInv
<1>1. Children(c) = {}
  BY NobodyIsNoPid DEF Line, Children
<1>2. c \in Tops
  BY <1>1 DEF Tops
<1>3. \A p \in Pids : Children(p)' = Children(p)
  BY DEF Children
<1>4. Tops' \subseteq Tops
  BY <1>2, <1>3 DEF Tops, Types
<1>5. Types'
  BY DEF Types
<1>6. Line'
  BY <1>1, <1>4, NobodyIsNoPid DEF Line, Types, Children
<1> QED
  BY <1>5, <1>6

(* The end of a process that waits for nobody. *)
LEMMA Ends ==
  ASSUME IInv, NEW c \in Pids, state[c] \notin {"wait", "unused", "gone"},
         End(c), UNCHANGED version
  PROVE  IInv'
<1>1. Children(c) = {}
  BY NobodyIsNoPid DEF IInv, Line, Children
<1>2. PICK s \in {"gone", "zombie"} : state' = [state EXCEPT ![c] = s]
  <2> DEFINE s == IF parent[c] = Nobody THEN "gone" ELSE "zombie"
  <2>1. Ended(c) = {}
    BY <1>1 DEF Ended
  <2>2. state' = [q \in Pids |-> IF q = c THEN s ELSE state[q]]
    BY <2>1 DEF End
  <2> QED
    BY <2>2 DEF IInv, Types
<1>3. UNCHANGED <<version, last, parent>>
  BY <1>1 DEF End, IInv, Types
<1> QED
  BY <1>2, <1>3, Alone DEF States

(* A command starts. *)
LEMMA Runs ==
  ASSUME IInv, NEW c \in Pids, state[c] = "menu", run(c), UNCHANGED version
  PROVE  IInv'
<1> USE DEF IInv
<1>1. CASE ForkFails(c, "wait")
  BY <1>1, Alone DEF ForkFails, States, Commanders
<1>2. CASE Fork(c, "wait", "exec")
  <2> DEFINE child == last + 1
  <2>1. child \in Pids /\ child > last
    BY <1>2, CommanderAssumption DEF Fork, Types, Pids
  <2>2. state[child] = "unused" /\ parent[child] = Nobody /\ child # c
    BY <2>1 DEF Line
  <2>3. /\ state' = [state EXCEPT ![c] = "wait", ![child] = "exec"]
        /\ parent' = [parent EXCEPT ![child] = c]
        /\ last' = child
    BY <1>2 DEF Fork
  <2>4. Children(c) = {} /\ Children(child) = {}
    BY <2>2, <2>1, NobodyIsNoPid DEF Children, Line
  <2>5. c \in Tops
    BY <2>4 DEF Tops
  <2>6. Types'
    BY <2>1, <2>3 DEF Types, States, Commanders
  <2>7. \A p \in Pids \ {c} : Children(p)' = Children(p)
    BY <2>1, <2>2, <2>3, NobodyIsNoPid DEF Children, Types
  <2>8. child \in Children(c)'
    BY <2>1, <2>3 DEF Children, Types
  <2>9. Tops' \subseteq {child}
    <3> SUFFICES ASSUME NEW p \in Tops', p # child PROVE FALSE
      OBVIOUS
    <3>1. p # c
      BY <2>8 DEF Tops
    <3>2. p \in Tops
      BY <2>3, <2>7, <3>1 DEF Tops, Types
    <3> QED
      BY <2>5, <3>1, <3>2 DEF Line
  <2>10. \A p, q \in Pids : parent'[p] = parent'[q] /\ parent'[p] # Nobody => p = q
    BY <2>1, <2>3, <2>4 DEF Line, Types, Children
  <2>11. \A p \in Pids : parent'[p] # Nobody => state'[parent'[p]] = "wait"
    BY <2>1, <2>2, <2>3 DEF Line, Types
  <2>12. \A p \in Pids : p > last' => state'[p] = "unused" /\ parent'[p] = Nobody
    BY <2>1, <2>2, <2>3 DEF Line, Types, Pids
  <2> QED
    BY <2>6, <2>9, <2>10, <2>11, <2>12 DEF Line
<1> QED
  BY <1>1, <1>2 DEF run

(* The wait is over. *)
LEMMA Returns ==
  ASSUME IInv, NEW c \in Pids, WaitReturns(c), UNCHANGED version
  PROVE  IInv'
<1> USE DEF IInv
<1>1. CASE Children(c) = {}
  BY <1>1, Alone DEF WaitReturns, Ended, States, Commanders, Looping
<1>2. CASE \E z \in Ended(c) : Reap(c, z, "loop")
  <2>1. PICK z \in Ended(c) : Reap(c, z, "loop")
    BY <1>2
  <2>2. z \in Pids /\ parent[z] = c /\ state[z] = "zombie" /\ state[c] = "wait" /\ z # c
    BY <2>1 DEF Ended, Children, WaitReturns
  <2>3. /\ state' = [state EXCEPT ![c] = "loop", ![z] = "gone"]
        /\ parent' = [parent EXCEPT ![z] = Nobody]
        /\ UNCHANGED last
    BY <2>1 DEF Reap, WaitReturns
  <2>4. Children(z) = {} /\ Children(c) = {z}
    BY <2>2, NobodyIsNoPid DEF Children, Line
  <2>5. z \in Tops
    BY <2>2, <2>4 DEF Tops
  <2>6. Types'
    BY <2>2, <2>3 DEF Types, States, Commanders, Looping
  <2>7. \A p \in Pids \ {c} : Children(p)' = Children(p)
    BY <2>2, <2>3, NobodyIsNoPid DEF Children, Types
  <2>8. Tops' \subseteq {c}
    <3> SUFFICES ASSUME NEW p \in Tops', p # c PROVE FALSE
      OBVIOUS
    <3>1. p # z
      BY <2>2, <2>3 DEF Tops, Types
    <3>2. p \in Tops
      BY <2>3, <2>7, <3>1 DEF Tops, Types
    <3> QED
      BY <2>5, <3>1, <3>2 DEF Line
  <2>9. \A p, q \in Pids : parent'[p] = parent'[q] /\ parent'[p] # Nobody => p = q
    BY <2>2, <2>3 DEF Line, Types
  <2>10. \A p \in Pids : parent'[p] # Nobody => state'[parent'[p]] = "wait"
    BY <2>2, <2>3, <2>4, NobodyIsNoPid DEF Line, Types, Children
  <2>11. \A p \in Pids : p > last' => state'[p] = "unused" /\ parent'[p] = Nobody
    BY <2>2, <2>3 DEF Line, Types
  <2> QED
    BY <2>6, <2>8, <2>9, <2>10, <2>11 DEF Line
<1> QED
  BY <1>1, <1>2 DEF WaitReturns

\* Every step of the shell and of its child keeps it.
LEMMA EarlySteps == IInv /\ [EarlyNext]_allVars => IInv'
<1> SUFFICES ASSUME IInv, [EarlyNext]_allVars PROVE IInv'
  OBVIOUS
<1>1. CASE UNCHANGED tree
  BY <1>1 DEF IInv, Types, Line, Tops, Children, tree
<1>2. ASSUME NEW c \in Pids, EarlyStep(c), UNCHANGED version PROVE IInv'
  <2> USE DEF States, Commanders, Looping
  <2>1. CASE Exec(c)
    BY <1>2, <2>1, Alone DEF Exec
  <2>2. CASE ExecFails(c)
    BY <1>2, <2>2, Alone DEF ExecFails
  <2>3. CASE ProgramEnds(c)
    BY <1>2, <2>3, Ends DEF ProgramEnds
  <2>4. CASE WaitReturns(c)
    BY <1>2, <2>4, Returns
  <2>5. CASE Recur(c)
    <3>1. CASE End(c)
      BY <1>2, <2>5, <3>1, Ends DEF Recur
    <3>2. CASE state' = [state EXCEPT ![c] = "menu"] /\ UNCHANGED <<parent, last>>
      BY <1>2, <2>5, <3>2, Alone DEF Recur
    <3> QED
      BY <2>5, <3>1, <3>2 DEF Recur
  <2> QED
    BY <1>2, <2>1, <2>2, <2>3, <2>4, <2>5 DEF EarlyStep, Execute
<1>3. ASSUME NEW c \in Pids, EarlyChoice(c), UNCHANGED version PROVE IInv'
  <2> USE DEF States, Commanders, Looping
  <2>1. CASE ChooseCommand(c)
    BY <1>3, <2>1, Runs DEF ChooseCommand, Chooses
  <2>2. CASE InvalidInput(c)
    BY <1>3, <2>2, Alone DEF InvalidInput
  <2>3. CASE ChooseAdd1(c)
    BY <1>3, <2>3, Alone DEF ChooseAdd1, Chooses
  <2>4. CASE ChooseOther(c)
    BY <1>3, <2>4, Alone DEF ChooseOther, Chooses
  <2>5. CASE AddWithoutArgument(c) \/ Exit1(c)
    BY <1>3, <2>5, Ends DEF AddWithoutArgument, Exit1, Chooses
  <2> QED
    BY <1>3, <2>1, <2>2, <2>3, <2>4, <2>5 DEF EarlyChoice, Choice0, Choice1
<1> QED
  BY <1>1, <1>2, <1>3 DEF EarlyNext, CloseInput, allVars, vars, tree

-----------------------------------------------------------------------------
(* One process at a time has the terminal, however deep second menus nest. *)
(* (mc0.c, line 41; mc1.c, line 99)                                        *)
THEOREM OneTerminal == EarlySpec => []OneAtATime
<1>1. IInv => OneAtATime
  <2> SUFFICES ASSUME IInv, NEW p \in Active, NEW q \in Active PROVE p = q
    BY DEF OneAtATime
  <2>1. Active \subseteq Tops
    BY NobodyIsNoPid DEF IInv, Line, Active, Tops, Children
  <2> QED
    BY <2>1 DEF IInv, Line
<1> QED
  BY <1>1, Start1, EarlySteps, PTL DEF EarlySpec

(* A wait is for the command just started: there is no other child.        *)
(* (mc0.c, lines 28 to 41; mc1.c, lines 86 to 99)                          *)
THEOREM OneChild == EarlySpec => []WaitIsForTheCommand
<1>1. IInv => WaitIsForTheCommand
  <2> SUFFICES ASSUME IInv, NEW c \in Pids
               PROVE  /\ Cardinality(Children(c)) <= 1
                      /\ Children(c) # {} => state[c] = "wait"
    BY DEF WaitIsForTheCommand
  <2>1. Children(c) # {} => state[c] = "wait"
    BY NobodyIsNoPid DEF IInv, Line, Children
  <2>2. Children(c) = {} \/ \E z \in Pids : Children(c) = {z}
    BY NobodyIsNoPid DEF IInv, Line, Children
  <2>3. Cardinality(Children(c)) \in {0, 1}
    BY <2>2, FS_EmptySet, FS_Singleton
  <2> QED
    BY <2>1, <2>3
<1> QED
  BY <1>1, Start1, EarlySteps, PTL DEF EarlySpec
=============================================================================
