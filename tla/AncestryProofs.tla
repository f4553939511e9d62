--------------------------- MODULE AncestryProofs ---------------------------
(***************************************************************************)
(* The ancestors the system call returns, for any number of tasks, any     *)
(* sizes of the arrays and whatever happens to the tasks during the call.  *)
(***************************************************************************)
EXTENDS Ancestry, TLAPS

Types ==
  /\ status \in [Pids -> {"unused", "running", "exiting", "zombie", "reaped"}]
  /\ parent \in [Pids -> Pids]
  /\ target \in Pids
  /\ ancestors \in Seq(Pids)

(* Who has been born has a parent that has been born. *)
Family ==
  /\ status[init] # "unused"
  /\ \A p \in Pids : status[p] # "unused" => status[parent[p]] # "unused"

(* The generations noted so far, each linked to the next. *)
Descent ==
  /\ \A i \in 0 .. Len(ancestors) : Generation(i) \in Pids /\ status[Generation(i)] # "unused"
  /\ \A i \in 1 .. Len(ancestors) : Linked(Generation(i - 1), Generation(i))

Complete ==
  target # init => /\ Descent /\ ancestors # <<>>
                   /\ Generation(Len(ancestors)) = init

Early == {"task", "children", "siblings", "next", "test"}

(* How far the call has come. *)
Progress ==
  /\ pc # "user" => result = "none"
  /\ pc \in {"find"} \union Early => ancestors = <<>>
  /\ pc \in Early => status[target] # "unused"
  /\ pc = "ancestors" => Descent /\ temp = Generation(Len(ancestors)) /\ target # init
  /\ pc = "copy" => Complete
  /\ pc = "user" /\ result = "0" => Complete

(* init leaves before its siblings. *)
NotInit == pc \in {"siblings", "next", "test"} => target # init

IInv == Types /\ Family /\ Progress /\ NotInit

-----------------------------------------------------------------------------
\* init, the ancestor of all, is a process.
LEMMA InitIsPid == init \in Pids
BY AncestryAssumption DEF init, Pids

\* At the start the invariant holds.
LEMMA Start == Init => IInv
<1> SUFFICES ASSUME Init PROVE IInv
  OBVIOUS
<1>1. Types
  BY InitIsPid DEF Init, Types
<1>2. Family
  BY InitIsPid DEF Init, Family
<1>3. Progress /\ NotInit
  BY DEF Init, Progress, NotInit, Early
<1> QED
  BY <1>1, <1>2, <1>3 DEF IInv

(* What a step of the tree does to two tasks that have been born. *)
LEMMA TreeKeepsLinks ==
  ASSUME IInv, TreeStep,
         NEW x \in Pids, NEW y \in Pids, status[x] # "unused", status[y] # "unused"
  PROVE  /\ status'[x] # "unused"
         /\ Linked(x, y) => Linked(x, y)'
<1> USE InitIsPid DEF IInv, Types, Linked
<1>1. PICK p \in Pids :
        fork(p) \/ exit(p) \/ forget_original_parent(p) \/ release_task(p)
  BY DEF TreeStep
<1>2. CASE fork(p)
  BY <1>2 DEF fork, Unused
<1>3. CASE exit(p)
  BY <1>3 DEF exit
<1>4. CASE release_task(p)
  BY <1>4 DEF release_task
<1>5. CASE forget_original_parent(p)
  <2>1. CASE UNCHANGED parent
    BY <1>5, <2>1 DEF forget_original_parent
  <2>2. ASSUME NEW child, parent[child] = p, parent' = [parent EXCEPT ![child] = init],
               UNCHANGED status
        PROVE  Linked(x, y) => Linked(x, y)'
    BY <1>5, <2>2 DEF forget_original_parent
  <2> QED
    BY <1>5, <2>1, <2>2 DEF forget_original_parent
<1> QED
  BY <1>1, <1>2, <1>3, <1>4, <1>5

\* The steps of other processes (fork, exit, adoption and the like) keep it.
LEMMA TreeSteps ==
  ASSUME IInv, TreeStep
  PROVE  IInv'
<1> USE InitIsPid DEF IInv
<1>0. UNCHANGED <<pc, target, temp, arrays, result>>
  BY DEF TreeStep
<1>1. Types' /\ Family'
  <2>1. PICK p \in Pids :
          fork(p) \/ exit(p) \/ forget_original_parent(p) \/ release_task(p)
    BY DEF TreeStep
  <2>2. CASE fork(p)
    BY <1>0, <2>2 DEF fork, Unused, Types, Family, arrays
  <2>3. CASE exit(p)
    BY <1>0, <2>3 DEF exit, Types, Family, arrays
  <2>4. CASE release_task(p)
    BY <1>0, <2>4 DEF release_task, Types, Family, arrays
  <2>5. CASE forget_original_parent(p)
    BY <1>0, <2>5 DEF forget_original_parent, Types, Family, arrays
  <2> QED
    BY <2>1, <2>2, <2>3, <2>4, <2>5
<1>2. \A i \in Nat : Generation(i)' = Generation(i)
  BY <1>0 DEF Generation, arrays
<1>3. Descent => Descent'
  <2> SUFFICES ASSUME Descent PROVE Descent'
    OBVIOUS
  <2>1. Len(ancestors) \in Nat /\ ancestors' = ancestors
    BY <1>0 DEF Types, arrays
  <2>2. \A i \in 0 .. Len(ancestors) : status'[Generation(i)] # "unused"
    BY TreeKeepsLinks DEF Descent
  <2>3. ASSUME NEW i \in 1 .. Len(ancestors)
        PROVE  Linked(Generation(i - 1), Generation(i))'
    <3>1. i - 1 \in 0 .. Len(ancestors) /\ i \in 0 .. Len(ancestors)
      BY <2>1
    <3> DEFINE x == Generation(i - 1)
               y == Generation(i)
    <3>2. x \in Pids /\ y \in Pids /\ status[x] # "unused" /\ status[y] # "unused"
      BY <3>1 DEF Descent
    <3>3. Linked(x, y)
      BY DEF Descent
    <3>4. x' = x /\ y' = y
      BY <1>2, <2>1
    <3> HIDE DEF x, y
    <3>5. Linked(x, y)'
      BY <3>2, <3>3, <3>4, TreeKeepsLinks DEF Linked
    <3> QED
      BY <3>5 DEF x, y
  <2> QED
    BY <1>2, <2>1, <2>2, <2>3 DEF Descent
<1>4. Complete => Complete'
  BY <1>0, <1>2, <1>3 DEF Complete, Types, arrays
<1>5. Progress'
  <2>1. status[target] # "unused" => status'[target] # "unused"
    BY TreeKeepsLinks DEF Types
  <2> QED
    BY <1>0, <1>2, <1>3, <1>4, <2>1 DEF Progress, Types, arrays
<1>6. NotInit'
  BY <1>0 DEF NotInit
<1> QED
  BY <1>1, <1>5, <1>6

(* The call leaves the tree alone. *)
LEMMA CallSteps ==
  ASSUME IInv, new_cs3013_syscall2 \/ \E p \in Pids : procAncestry(p)
  PROVE  IInv'
<1> USE DEF IInv
<1>0. UNCHANGED treeVars
  BY DEF new_cs3013_syscall2, procAncestry, find_vpid, pid_task, Children,
         FirstSibling, NextSibling, TestSibling, Ancestors, copy_to_user
<1>f. ASSUME NEW value \in {"1", "EFAULT", "oops"}, Fail(value), target' \in Pids
      PROVE  IInv'
  BY <1>0, <1>f DEF Fail, Return, NoArrays, Types, Family, Progress, NotInit, Early, treeVars
<1>1. CASE \E p \in Pids : procAncestry(p)
  <2>1. PICK p \in Pids : procAncestry(p)
    BY <1>1
  <2>2. CASE Fail("EFAULT")
    BY <1>f, <2>1, <2>2 DEF procAncestry
  <2>3. CASE ~Fail("EFAULT")
    <3>1. pc' = "find" /\ result' = "none" /\ ancestors' = <<>> /\ target' \in Pids
      BY <2>1, <2>3 DEF procAncestry, NoArrays
    <3> QED
      BY <1>0, <3>1 DEF Types, Family, Progress, NotInit, Early, treeVars
  <2> QED
    BY <2>2, <2>3
<1>2. CASE find_vpid
  <2>1. CASE Fail("1")
    BY <1>f, <1>2, <2>1 DEF find_vpid, Types
  <2>2. CASE ~Fail("1")
    BY <1>0, <1>2, <2>2
    DEF find_vpid, Types, Family, Progress, NotInit, Early, treeVars, arrays
  <2> QED
    BY <2>1, <2>2
<1>3. CASE pid_task
  <2>1. CASE Fail("oops")
    BY <1>f, <1>3, <2>1 DEF pid_task, Types
  <2>2. CASE ~Fail("oops")
    BY <1>0, <1>3, <2>2
    DEF pid_task, Types, Family, Progress, NotInit, Early, treeVars, arrays
  <2> QED
    BY <2>1, <2>2
<1>4. CASE Children
  <2>1. CASE Fail("1")
    BY <1>f, <1>4, <2>1 DEF Children, Types
  <2>2. CASE ~Fail("1")
    BY <1>0, <1>4, <2>2
    DEF Children, ChildrenEnd, NoteChild, Types, Family, Progress, NotInit, Early,
        Complete, treeVars, arrays
  <2> QED
    BY <2>1, <2>2
<1>5. CASE FirstSibling \/ NextSibling
  BY <1>0, <1>5 DEF FirstSibling, NextSibling, Types, Family, Progress, NotInit, Early,
                    treeVars, arrays
<1>6. CASE TestSibling
  <2>1. CASE temp = -parent[target]
    <3>1. ancestors = <<>> /\ Generation(0)' = target /\ target # init /\ status[target] # "unused"
      BY <1>6, <2>1 DEF TestSibling, Progress, NotInit, Early, Generation
    <3>2. Descent'
      BY <1>0, <1>6, <2>1, <3>1 DEF TestSibling, Descent, Types, treeVars, arrays
    <3> QED
      BY <1>0, <1>6, <2>1, <3>1, <3>2
      DEF TestSibling, Types, Family, Progress, NotInit, Early, treeVars, arrays
  <2>2. CASE Fail("1")
    BY <1>f, <1>6, <2>2 DEF TestSibling, Types
  <2>3. CASE temp # -parent[target] /\ ~Fail("1")
    BY <1>0, <1>6, <2>3
    DEF TestSibling, Types, Family, Progress, NotInit, Early, treeVars
  <2> QED
    BY <2>1, <2>2, <2>3
<1>7. CASE Ancestors
  <2>1. Descent /\ temp = Generation(Len(ancestors)) /\ target # init
    BY <1>7 DEF Ancestors, Progress
  <2>2. PICK n \in Nat : n = Len(ancestors)
    BY DEF Types
  <2>3. temp \in Pids /\ status[temp] # "unused"
    BY <2>1, <2>2 DEF Descent
  <2>4. CASE temp = init
    <3>1. Complete
      BY <2>1, <2>3, <2>4, <1>7 DEF Complete, Generation, Types
    <3> QED
      BY <1>0, <1>7, <2>4, <3>1
      DEF Ancestors, AncestorsEnd, Types, Family, Progress, NotInit, Early, treeVars, arrays,
          Complete, Descent, Generation, Linked
  <2>6. CASE Fail("1")
    BY <1>f, <1>7, <2>6 DEF Ancestors, Types
  <2>7. CASE temp # init /\ ~Fail("1")
    <3>1. /\ temp' = parent[temp] /\ ancestors' = Append(ancestors, parent[temp])
          /\ UNCHANGED <<target, status, parent>>
          /\ pc' = "ancestors" /\ result' = "none"
      BY <1>0, <1>7, <2>7 DEF Ancestors, NoteAncestor, Progress, treeVars
    <3>2. parent[temp] \in Pids /\ status[parent[temp]] # "unused"
      BY <2>3 DEF Types, Family
    <3>3. /\ ancestors' \in Seq(Pids) /\ Len(ancestors') = n + 1
          /\ \A i \in 1 .. n : ancestors'[i] = ancestors[i]
          /\ ancestors'[n + 1] = parent[temp]
      BY <2>2, <3>1, <3>2 DEF Types
    <3>4. /\ \A i \in 0 .. n : Generation(i)' = Generation(i)
          /\ Generation(n + 1)' = parent[temp]
      BY <2>2, <3>1, <3>3 DEF Generation
    <3>5. Descent'
      <4>1. \A i \in 0 .. n + 1 :
              Generation(i)' \in Pids /\ status[Generation(i)'] # "unused"
        BY <2>1, <2>2, <3>2, <3>4 DEF Descent
      <4>2. ASSUME NEW i \in 1 .. n + 1
            PROVE  Linked(Generation(i - 1)', Generation(i)')
        <5>1. CASE i = n + 1
          BY <2>1, <2>2, <3>4, <5>1 DEF Linked
        <5>2. CASE i # n + 1
          <6>1. i \in 1 .. n /\ i - 1 \in 0 .. n
            BY <2>2, <5>2
          <6>2. Generation(i)' = Generation(i) /\ Generation(i - 1)' = Generation(i - 1)
            BY <2>2, <3>4, <6>1
          <6>3. Linked(Generation(i - 1), Generation(i))
            BY <2>1, <2>2, <6>1 DEF Descent
          <6> QED
            BY <6>2, <6>3
        <5> QED
          BY <5>1, <5>2
      <4> QED
        BY <3>1, <3>3, <4>1, <4>2 DEF Descent, Linked
    <3>6. temp' = Generation(n + 1)'
      BY <3>1, <3>4
    <3> QED
      BY <1>0, <2>1, <3>1, <3>3, <3>5, <3>6
      DEF Types, Family, Progress, NotInit, Early, treeVars
  <2> QED
    BY <2>4, <2>6, <2>7
<1>8. CASE copy_to_user
  <2>1. Complete /\ UNCHANGED <<target, ancestors, status, parent>>
    BY <1>0, <1>8 DEF copy_to_user, Progress, treeVars, arrays
  <2>2. Complete'
    BY <2>1 DEF Complete, Descent, Generation, Linked
  <2> QED
    BY <1>0, <1>8, <2>1, <2>2
    DEF copy_to_user, Return, Types, Family, Progress, NotInit, Early, treeVars
<1> QED
  BY <1>1, <1>2, <1>3, <1>4, <1>5, <1>6, <1>7, <1>8 DEF new_cs3013_syscall2

\* So does every step of the calls.
LEMMA Steps == IInv /\ [Next]_vars => IInv'
<1> SUFFICES ASSUME IInv, [Next]_vars PROVE IInv'
  OBVIOUS
<1>1. CASE Next
  BY <1>1, TreeSteps, CallSteps DEF Next
<1>2. CASE UNCHANGED vars
  BY <1>2 DEF IInv, Types, Family, Progress, NotInit, Early, Complete, Descent, Generation,
              Linked, vars, treeVars, arrays
<1> QED
  BY <1>1, <1>2

-----------------------------------------------------------------------------
(* Whatever forks, exits and is waited for during the call: the ancestors  *)
(* it returns lead to init and leave no generation out. (kernsysinfo.c,    *)
(* lines 98 to 107)                                                        *)
THEOREM NoGenerationMissing == Spec => []AncestorsLinked
<1>1. IInv => AncestorsLinked
  BY DEF IInv, Progress, Complete, Descent, AncestorsLinked
<1> QED
  BY <1>1, Start, Steps, PTL DEF Spec

-----------------------------------------------------------------------------
(* The places the call leaves alone. *)

IsSeq(s) == s \in Seq(Range(s))

HasPlace(array, places) == IsSeq(array) /\ Len(array) < places

PlaceLeft ==
  /\ HasPlace(children, MaxRelatives)
  /\ HasPlace(siblings, MaxRelatives)
  /\ HasPlace(ancestors, MaxAncestors)

\* The empty list is a sequence,
LEMMA EmptyIsSeq == IsSeq(<<>>) /\ Len(<<>>) = 0
BY DEF IsSeq

\* and one that grows by an element stays one.
LEMMA AppendIsSeq ==
  ASSUME NEW s, NEW e, IsSeq(s)
  PROVE  IsSeq(Append(s, e)) /\ Len(Append(s, e)) = Len(s) + 1
<1> DEFINE S == Range(s) \union {e}
<1>1. s \in Seq(S)
  <2>1. \A i \in 1 .. Len(s) : s[i] \in S
    BY DEF IsSeq, Range
  <2> QED
    BY <2>1 DEF IsSeq
<1>2. Append(s, e) \in Seq(S) /\ Len(Append(s, e)) = Len(s) + 1
  BY <1>1
<1>3. \A i \in 1 .. Len(s) + 1 : Append(s, e)[i] \in Range(Append(s, e))
  BY <1>2 DEF Range
<1>4. Append(s, e) \in Seq(Range(Append(s, e)))
  BY <1>2, <1>3
<1> QED
  BY <1>2, <1>4 DEF IsSeq

(* An array that is not full with one more still has a place. *)
LEMMA OneMore ==
  ASSUME NEW array, NEW e, NEW places \in Nat,
         HasPlace(array, places), ~Full(Append(array, e), places)
  PROVE  HasPlace(Append(array, e), places)
<1>1. IsSeq(Append(array, e)) /\ Len(Append(array, e)) = Len(array) + 1
  BY AppendIsSeq DEF HasPlace
<1>2. Len(array) \in Nat /\ Len(array) < places
  BY DEF HasPlace, IsSeq
<1> QED
  BY <1>1, <1>2 DEF Full, HasPlace

\* No step of a call fills an array: it gives up first.
LEMMA PlaceSteps == PlaceLeft /\ [Next]_vars => PlaceLeft'
<1> SUFFICES ASSUME PlaceLeft, [Next]_vars PROVE PlaceLeft'
  OBVIOUS
<1>0. MaxRelatives \in Nat /\ MaxAncestors \in Nat
  BY AncestryAssumption
<1>1. CASE NoArrays
  BY <1>1, EmptyIsSeq, AncestryAssumption DEF NoArrays, PlaceLeft, HasPlace
<1>2. CASE UNCHANGED arrays
  BY <1>2 DEF arrays, PlaceLeft, HasPlace
<1>3. CASE Children
  <2>1. CASE \E child : ~Full(Append(children, child), MaxRelatives)
                       /\ children' = Append(children, child)
                       /\ UNCHANGED <<siblings, ancestors>>
    BY <1>0, <2>1, OneMore DEF PlaceLeft, HasPlace
  <2> QED
    BY <1>1, <1>2, <1>3, <2>1 DEF Children, ChildrenEnd, NoteChild, Fail
<1>4. CASE TestSibling
  <2>1. CASE ~Full(Append(siblings, temp), MaxRelatives)
             /\ siblings' = Append(siblings, temp) /\ UNCHANGED <<children, ancestors>>
    BY <1>0, <2>1, OneMore DEF PlaceLeft, HasPlace
  <2> QED
    BY <1>1, <1>2, <1>4, <2>1 DEF TestSibling, Fail
<1>5. CASE Ancestors
  <2>1. CASE ~Full(Append(ancestors, parent[temp]), MaxAncestors)
             /\ ancestors' = Append(ancestors, parent[temp]) /\ UNCHANGED <<children, siblings>>
    BY <1>0, <2>1, OneMore DEF PlaceLeft, HasPlace
  <2> QED
    BY <1>1, <1>2, <1>5, <2>1 DEF Ancestors, AncestorsEnd, NoteAncestor, Fail
<1> QED
  BY <1>1, <1>2, <1>3, <1>4, <1>5
  DEF Next, TreeStep, new_cs3013_syscall2, procAncestry, find_vpid, pid_task, FirstSibling,
      NextSibling, copy_to_user, Fail, vars

(* A call that succeeds has left a place of each array alone, so that a    *)
(* reader finds a zero there if malloc has put one: the loops of the       *)
(* program stay in the arrays. Of memory malloc has not cleared nothing is *)
(* said. (procAncestry.c, lines 25 and 32 to 61; kernsysinfo.c, lines 67,  *)
(* 89 and 103)                                                             *)
THEOREM PlacesLeft == Spec => []ZeroInEveryArray
<1>1. Init => PlaceLeft
  BY EmptyIsSeq, AncestryAssumption DEF Init, PlaceLeft, HasPlace
<1>2. PlaceLeft => ZeroInEveryArray
  <2>1. PlaceLeft =>
          /\ Len(children) \in Nat /\ Len(children) < MaxRelatives
          /\ Len(siblings) \in Nat /\ Len(siblings) < MaxRelatives
          /\ Len(ancestors) \in Nat /\ Len(ancestors) < MaxAncestors
    BY DEF PlaceLeft, HasPlace, IsSeq
  <2> QED
    BY <2>1, AncestryAssumption DEF ZeroInEveryArray, PlacesRead
<1> QED
  BY <1>1, <1>2, PlaceSteps, PTL DEF Spec
=============================================================================
