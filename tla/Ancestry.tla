------------------------------ MODULE Ancestry ------------------------------
(***************************************************************************)
(* The ancestry system call (project2/part2/kernMod/kernsysinfo.c) and its *)
(* caller (project2/part2/procAncestry/procAncestry.c), over a tree of     *)
(* tasks that changes while the call walks through it: the call takes no   *)
(* lock.                                                                   *)
(*                                                                         *)
(* The children of a task form a ring: the head, in the task itself, and   *)
(* then the children in order.  The head in p is -p, so that -p in an      *)
(* array is what the call reads from the memory around a head it takes for *)
(* a task.  A task that has been waited for is in no ring and follows      *)
(* itself, and its memory is not reused during the call, which does not    *)
(* sleep (a kernel without preemption).                                    *)
(*                                                                         *)
(* Who changes the tree holds the lock of the task list.  An exit takes    *)
(* several writes, which the call sees one by one.                         *)
(*                                                                         *)
(* The caller is in user mode, or has found the target (find: not yet; its *)
(* pid but not its task: task), or is in one of the loops (siblings: about *)
(* to start; next and test: before the step and before the end test), or   *)
(* about to copy the arrays out.                                           *)
(***************************************************************************)
EXTENDS Integers, Sequences, Functions

CONSTANTS MaxPid,         \* tasks end the exploration here
          MaxAncestors,   \* the places of ancestors
          MaxRelatives    \* the places of siblings, and of children

ASSUME AncestryAssumption ==
  /\ MaxPid \in Nat \ {0}
  /\ MaxAncestors \in Nat \ {0}
  /\ MaxRelatives \in Nat \ {0}

VARIABLES status, parent, kids,             \* the tree
          pc, target, temp,                 \* the call
          children, siblings, ancestors,    \* what it has written to its arrays
          result                            \* what it has returned

treeVars == <<status, parent, kids>>
arrays == <<children, siblings, ancestors>>
vars == <<treeVars, pc, target, temp, arrays, result>>

Pids == 1 .. MaxPid
init == 1

-----------------------------------------------------------------------------
(* The tree. *)

Unlocked == \A p \in Pids : status[p] # "exiting"
Unused == {p \in Pids : status[p] = "unused"}

fork(p) ==
  /\ Unlocked /\ status[p] = "running"
  /\ \E child \in Unused :
       /\ \A q \in Unused : child <= q
       /\ status' = [status EXCEPT ![child] = "running"]
       /\ parent' = [parent EXCEPT ![child] = p]
       /\ kids' = [kids EXCEPT ![p] = Append(@, child)]

exit(p) ==
  /\ Unlocked /\ status[p] = "running" /\ p # init
  /\ status' = [status EXCEPT ![p] = "exiting"]
  /\ UNCHANGED <<parent, kids>>

(* Child after child gets its new parent and moves to its ring; then p is  *)
(* a zombie.                                                               *)
forget_original_parent(p) ==
  /\ status[p] = "exiting"
  /\ IF kids[p] = <<>>
       THEN /\ status' = [status EXCEPT ![p] = "zombie"]
            /\ UNCHANGED <<parent, kids>>
       ELSE LET child == Head(kids[p])
            IN  /\ \/ /\ parent[child] = p
                      /\ parent' = [parent EXCEPT ![child] = init]
                      /\ UNCHANGED kids
                   \/ /\ parent[child] = init
                      /\ kids' = [kids EXCEPT ![p] = Tail(@), ![init] = Append(@, child)]
                      /\ UNCHANGED parent
                /\ UNCHANGED status

(* The parent has waited for p. *)
release_task(p) ==
  /\ Unlocked /\ status[p] = "zombie"
  /\ status' = [status EXCEPT ![p] = "reaped"]
  /\ kids' = [q \in Pids |-> SelectSeq(kids[q], LAMBDA child : child # p)]
  /\ UNCHANGED parent

TreeStep ==
  /\ \E p \in Pids : fork(p) \/ exit(p) \/ forget_original_parent(p) \/ release_task(p)
  /\ UNCHANGED <<pc, target, temp, arrays, result>>

-----------------------------------------------------------------------------
(* The call. *)

Ring(p) == <<-p>> \o kids[p]

(* Where the next pointer of a task or head leads. *)
Following(node) ==
  LET home == {p \in Pids : node \in Range(Ring(p))}
  IN  IF home = {} THEN node
      ELSE LET ring == Ring(CHOOSE p \in home : TRUE)
               i == CHOOSE j \in DOMAIN ring : ring[j] = node
           IN  ring[(i % Len(ring)) + 1]

Return(value) == pc' = "user" /\ result' = value

NoArrays == children' = <<>> /\ siblings' = <<>> /\ ancestors' = <<>>

(* Nothing is copied out: what the call has noted is lost with its locals. *)
Fail(value) == Return(value) /\ temp' = init /\ NoArrays

(* A call for any pid, whose arguments may not be readable. The arrays of  *)
(* the caller come from malloc and nobody clears them.                     *)
procAncestry(p) ==
  /\ pc = "user"
  /\ target' = p
  /\ \/ Fail("EFAULT")
     \/ pc' = "find" /\ result' = "none" /\ temp' = init /\ NoArrays
  /\ UNCHANGED treeVars

find_vpid ==
  /\ pc = "find"
  /\ IF status[target] \in {"unused", "reaped"}
       THEN Fail("1")
       ELSE pc' = "task" /\ UNCHANGED <<temp, arrays, result>>
  /\ UNCHANGED <<treeVars, target>>

(* Line 60 reads from the task; the caller dies if there is none. *)
pid_task ==
  /\ pc = "task"
  /\ IF status[target] = "reaped"
       THEN Fail("oops")
       ELSE pc' = "children" /\ temp' = -target /\ UNCHANGED <<arrays, result>>
  /\ UNCHANGED <<treeVars, target>>

\* Mutant: one more fits.
Full_Late(array, places) == Len(array) > places

Full(array, places) == Len(array) = places

(* Where the loop over the children is left at the head: init has no       *)
(* siblings.                                                               *)
ChildrenEnd(head) ==
  /\ pc' = IF target = init THEN "copy" ELSE "siblings"
  /\ temp' = head
  /\ UNCHANGED <<arrays, result>>

(* A child is noted, and the call gives up when the array is full. *)
NoteChild(child) ==
  LET noted == Append(children, child)
  IN  IF Full(noted, MaxRelatives)
        THEN Fail("1")
        ELSE /\ children' = noted /\ temp' = child
             /\ UNCHANGED <<pc, siblings, ancestors, result>>

\* Mutant: the first child is left out.
Children_FromSecond ==
  /\ pc = "children"
  /\ LET next == Following(IF temp = -target THEN Following(temp) ELSE temp)
     IN  IF next = -target THEN ChildrenEnd(next) ELSE NoteChild(next)
  /\ UNCHANGED <<treeVars, target>>

\* Mutant: what does not fit is left out.
Children_WhatFits ==
  /\ pc = "children"
  /\ LET next == Following(temp)
     IN  IF next = -target THEN ChildrenEnd(next)
         ELSE /\ children' = IF Len(children) = MaxRelatives - 1 THEN children
                                                                 ELSE Append(children, next)
              /\ temp' = next
              /\ UNCHANGED <<pc, siblings, ancestors, result>>
  /\ UNCHANGED <<treeVars, target>>

(* To the next child. *)
Children ==
  /\ pc = "children"
  /\ LET next == Following(temp)
     IN  IF next = -target THEN ChildrenEnd(next) ELSE NoteChild(next)
  /\ UNCHANGED <<treeVars, target>>

(* The ring of the parent is looked up, *)
FirstSibling ==
  /\ pc = "siblings"
  /\ temp' = -parent[target]
  /\ pc' = "next"
  /\ UNCHANGED <<treeVars, target, arrays, result>>

(* one step taken in the ring temp is in by now, *)
NextSibling ==
  /\ pc = "next"
  /\ temp' = Following(temp)
  /\ pc' = "test"
  /\ UNCHANGED <<treeVars, target, arrays, result>>

(* and the end is the head in whoever is the parent by now; the walk to    *)
(* the ancestors starts at the target again.                               *)
TestSibling ==
  /\ pc = "test"
  /\ LET noted == Append(siblings, temp)
     IN  \/ /\ temp = -parent[target]
            /\ pc' = "ancestors" /\ temp' = target
            /\ UNCHANGED <<arrays, result>>
         \/ /\ temp # -parent[target] /\ Full(noted, MaxRelatives)
            /\ Fail("1")
         \/ /\ temp # -parent[target] /\ ~Full(noted, MaxRelatives)
            /\ pc' = "next" /\ siblings' = noted
            /\ UNCHANGED <<temp, children, ancestors, result>>
  /\ UNCHANGED <<treeVars, target>>

AncestorsEnd == pc' = "copy" /\ UNCHANGED <<temp, arrays, result>>

(* One more generation, and the way to it. *)
NoteAncestor(noted) ==
  IF Full(noted, MaxAncestors)
    THEN Fail("1")
    ELSE /\ ancestors' = noted /\ temp' = parent[temp]
         /\ UNCHANGED <<pc, children, siblings, result>>

\* Mutant: a task is noted before the step to its parent.
Ancestors_NoteFirst ==
  /\ pc = "ancestors"
  /\ IF temp = init THEN AncestorsEnd ELSE NoteAncestor(Append(ancestors, temp))
  /\ UNCHANGED <<treeVars, target>>

Ancestors ==
  /\ pc = "ancestors"
  /\ IF temp = init THEN AncestorsEnd ELSE NoteAncestor(Append(ancestors, parent[temp]))
  /\ UNCHANGED <<treeVars, target>>

copy_to_user ==
  /\ pc = "copy"
  /\ \E value \in {"0", "EFAULT"} : Return(value)
  /\ UNCHANGED <<treeVars, target, temp, arrays>>

new_cs3013_syscall2 ==
  \/ find_vpid \/ pid_task \/ Children \/ FirstSibling \/ NextSibling
  \/ TestSibling \/ Ancestors \/ copy_to_user

(* The places a printing loop may look at: up to the first zero, and no    *)
(* further than the place behind the array. What the call has not written  *)
(* is as malloc left it: cleared, or anything.                             *)
PlacesRead(array, places, cleared) ==
  0 .. IF cleared /\ Len(array) < places THEN Len(array) ELSE places

-----------------------------------------------------------------------------
Init ==
  /\ status = [p \in Pids |-> IF p = init THEN "running" ELSE "unused"]
  /\ parent = [p \in Pids |-> init]
  /\ kids = [p \in Pids |-> <<>>]
  /\ pc = "user" /\ target = init /\ temp = init /\ result = "none"
  /\ children = <<>> /\ siblings = <<>> /\ ancestors = <<>>

Next == TreeStep \/ new_cs3013_syscall2 \/ \E p \in Pids : procAncestry(p)

Spec == Init /\ [][Next]_vars /\ WF_vars(new_cs3013_syscall2)

-----------------------------------------------------------------------------
(* None of the children p has now is missing from the tasks noted, and     *)
(* none is there twice; what is noted beside them was a child during the   *)
(* walk and has been waited for since, or p is about to end.               *)
NoneMissing(p, noted) ==
  /\ Range(kids[p]) \subseteq Range(noted)
  /\ \A i, j \in DOMAIN noted : noted[i] = noted[j] => i = j
  /\ \A q \in Range(noted) \ Range(kids[p]) :
       q \in Pids /\ (status[q] = "reaped" \/ status[p] # "running")

(* When a walk comes back to the head it has missed no child there is now, *)
(* of the target and, as its siblings, of its parent, and noted none twice *)
(* or from elsewhere. Those that have gone may be noted beside others that *)
(* came after them: it need not be a list of any one moment. A child that  *)
(* leaves while the walk is at it leads the walk astray, and never back.   *)
(* Only the siblings of a target that init may have adopted during the     *)
(* walk are not safe. (kernsysinfo.c, lines 64 to 93)                      *)
NoRelativeMissed ==
  [][/\ pc = "children" /\ pc' \in {"siblings", "copy"}
       => NoneMissing(target, children)
     /\ pc = "next" /\ pc' = "test"
        /\ temp' = -parent[target] /\ parent[target] # init
       => NoneMissing(parent[target], siblings)]_vars

Generation(i) == IF i = 0 THEN target ELSE ancestors[i]

(* y is the parent of x, or was until y ended. *)
Linked(x, y) == parent[x] = y \/ (parent[x] = init /\ status[y] # "running")

(* The ancestors reach from the target to init, and from one to the next   *)
(* is a step to the parent it has, or had until that one ended: a call may *)
(* mix two moments, but it never leaves a generation out.                  *)
(* (kernsysinfo.c, lines 98 to 107)                                        *)
AncestorsLinked ==
  result = "0" /\ target # init =>
    /\ ancestors # <<>> /\ Generation(Len(ancestors)) = init
    /\ \A i \in 1 .. Len(ancestors) : Linked(Generation(i - 1), Generation(i))

(* A call that succeeds leaves a place of each array alone, and one that   *)
(* gives up all of them. So procAncestry finds a zero in every array it    *)
(* prints, whatever the call returned, if malloc has put it there: without *)
(* that nothing but their own limit ends its loops, at the place behind.   *)
(* (procAncestry.c, lines 25 and 32 to 61; kernsysinfo.c, 67, 89 and 103)  *)
ZeroInEveryArray ==
  pc = "user" =>
    /\ PlacesRead(children, MaxRelatives, TRUE) \subseteq 0 .. MaxRelatives - 1
    /\ PlacesRead(siblings, MaxRelatives, TRUE) \subseteq 0 .. MaxRelatives - 1
    /\ PlacesRead(ancestors, MaxAncestors, TRUE) \subseteq 0 .. MaxAncestors - 1

(* The call returns, though the ring it walks in may no longer lead back   *)
(* to where the walk would end: the arrays get full. (kernsysinfo.c, lines *)
(* 64 to 93)                                                               *)
CallReturns == pc # "user" ~> pc = "user"
=============================================================================
