---------------------------- MODULE Interceptor ----------------------------
(***************************************************************************)
(* The two kernel modules that put their own functions into the system     *)
(* call table: part1 (project2/part1/part1.c) and kernsysinfo              *)
(* (project2/part2/kernMod/kernsysinfo.c).  They are loaded and unloaded   *)
(* while threads make system calls on other processors, so every write to  *)
(* the table is a step.  The writes of a module may come in any order, so  *)
(* left is the set of entries that are still to be written; but all come   *)
(* after the entries were stored, since the page protection is switched in *)
(* between.                                                                *)
(*                                                                         *)
(* A module is out, saving (it has found the table and not yet stored the  *)
(* entries), replacing, in, reverting, restored (but not yet freed), or    *)
(* lost: its search has met another word equal to sys_close, or memory     *)
(* that cannot be read.  What a lost module writes is not followed.        *)
(*                                                                         *)
(* A thread is in user mode, in a function of the kernel or of a module,   *)
(* in the code of a module that is gone, or has ended in a fault.  back    *)
(* says who called the kernel's function: the thread itself, or a module,  *)
(* into which it will return.                                              *)
(*                                                                         *)
(* What the functions log is left out, and so is what new_sys_read copies  *)
(* past the end of its buffer.                                             *)
(***************************************************************************)
CONSTANT Threads

VARIABLES table,      \* the system call table: whose function serves a call
          ref,        \* the entries each module has stored
          phase, left,
          at, call, back

tableVars == <<table, ref, phase, left>>
threadVars == <<at, call, back>>
vars == <<tableVars, threadVars>>

Calls == {"open", "close", "read", "syscall1", "syscall2"}
Modules == {"part1", "kernsysinfo"}
Functions == Modules \union {"kernel"}
NoFunction == "null"

(* The entries a module writes, when it comes and when it goes. *)
Replaced(m) == IF m = "part1" THEN {"open", "close", "read", "syscall1"}
                              ELSE {"syscall2"}

\* Mutant: the copy of one entry is forgotten.
Saved_NotRead(m) == IF m = "part1" THEN {"open", "close"} ELSE {"syscall2"}

(* The entries it stores before; not the one of syscall1. *)
Saved(m) == IF m = "part1" THEN {"open", "close", "read"} ELSE {"syscall2"}

(* The calls its functions hand on to what is stored. *)
HandedOn == {"open", "close", "read"}

-----------------------------------------------------------------------------
(* Loading and unloading. *)

(* The table is recognised by the kernel's function at __NR_close.  Other  *)
(* words may hold it too, and a search that finds nothing at all cancels   *)
(* the load.                                                               *)
find_sys_call_table(m) ==
  /\ phase[m] = "out"
  /\ \/ table["close"] = "kernel" /\ phase' = [phase EXCEPT ![m] = "saving"]
     \/ table["close"] # "kernel" /\ phase' = phase
     \/ phase' = [phase EXCEPT ![m] = "lost"]
  /\ ref' = [ref EXCEPT ![m] = [k \in Calls |-> NoFunction]]
  /\ UNCHANGED <<table, left, threadVars>>

\* Mutant: what is stored is what was put there already.
Save_Replaced(m) ==
  /\ phase[m] = "saving"
  /\ ref' = [ref EXCEPT ![m] = [k \in Calls |-> IF k \in Saved(m) THEN m ELSE NoFunction]]
  /\ phase' = [phase EXCEPT ![m] = "replacing"]
  /\ left' = [left EXCEPT ![m] = Replaced(m)]
  /\ UNCHANGED <<table, threadVars>>

Save(m) ==
  /\ phase[m] = "saving"
  /\ ref' = [ref EXCEPT ![m] =
               [k \in Calls |-> IF k \in Saved(m) THEN table[k] ELSE NoFunction]]
  /\ phase' = [phase EXCEPT ![m] = "replacing"]
  /\ left' = [left EXCEPT ![m] = Replaced(m)]
  /\ UNCHANGED <<table, threadVars>>

(* The last write leads to the next phase. *)
Write(m, k, function, next) ==
  /\ k \in left[m]
  /\ table' = [table EXCEPT ![k] = function]
  /\ left' = [left EXCEPT ![m] = @ \ {k}]
  /\ phase' = [phase EXCEPT ![m] = IF left[m] = {k} THEN next ELSE @]
  /\ UNCHANGED <<ref, threadVars>>

Replace(m) == phase[m] = "replacing" /\ \E k \in Calls : Write(m, k, m, "in")

\* Mutant: what is restored is what is stored, syscall1 is forgotten.
rmmod_SavedOnly(m) ==
  /\ phase[m] = "in"
  /\ phase' = [phase EXCEPT ![m] = "reverting"]
  /\ left' = [left EXCEPT ![m] = Saved(m)]
  /\ UNCHANGED <<table, ref, threadVars>>

rmmod(m) ==
  /\ phase[m] = "in"
  /\ phase' = [phase EXCEPT ![m] = "reverting"]
  /\ left' = [left EXCEPT ![m] = Replaced(m)]
  /\ UNCHANGED <<table, ref, threadVars>>

(* A lost module puts back what it wrote, elsewhere; its functions have    *)
(* never been in the table.                                                *)
rmmod_Lost(m) ==
  /\ phase[m] = "lost"
  /\ phase' = [phase EXCEPT ![m] = "out"]
  /\ UNCHANGED <<table, ref, left, threadVars>>

Revert(m) ==
  phase[m] = "reverting" /\ \E k \in Calls : Write(m, k, ref[m][k], "restored")

(* The code of the module is gone, also for the threads that are in it or  *)
(* that will return to it: nobody has counted them.                        *)
Free(m) ==
  /\ phase[m] = "restored"
  /\ phase' = [phase EXCEPT ![m] = "out"]
  /\ at' = [t \in Threads |-> IF at[t] = m THEN "gone" ELSE at[t]]
  /\ back' = [t \in Threads |-> IF back[t] = m THEN "gone" ELSE back[t]]
  /\ UNCHANGED <<table, ref, left, call>>

-----------------------------------------------------------------------------
(* System calls. *)

Goto(t, place) == at' = [at EXCEPT ![t] = place]

(* A jump to an entry that holds no function ends in a fault. *)
Jump(t, function) == Goto(t, IF function = NoFunction THEN "fault" ELSE function)

(* The processor takes the function from the table. *)
Enter(t, k) ==
  /\ at[t] = "user"
  /\ Jump(t, table[k])
  /\ call' = [call EXCEPT ![t] = k]
  /\ back' = [back EXCEPT ![t] = "user"]
  /\ UNCHANGED tableVars

(* new_sys_open, new_sys_close and new_sys_read call what is stored, at    *)
(* the time they get there.                                                *)
HandOn(t) ==
  /\ at[t] \in Modules /\ call[t] \in HandedOn
  /\ Jump(t, ref[at[t]][call[t]])
  /\ back' = [back EXCEPT ![t] = at[t]]
  /\ UNCHANGED <<tableVars, call>>

(* For a user with a uid from 1000 on, new_sys_open prints the name and    *)
(* new_sys_read copies the buffer, through the user's pointer and into     *)
(* memory kmalloc may not have had: a fault, before the call is handed on. *)
Misread(t) ==
  /\ at[t] \in Modules /\ call[t] \in {"open", "read"}
  /\ Goto(t, "fault")
  /\ UNCHANGED <<tableVars, call, back>>

(* new_sys_cs3013_syscall1 and new_cs3013_syscall2 answer themselves; the  *)
(* second faults when the task it has looked up is gone.                   *)
Answer(t) ==
  /\ at[t] \in Modules /\ call[t] \notin HandedOn
  /\ \/ Goto(t, "user")
     \/ call[t] = "syscall2" /\ Goto(t, "fault")
  /\ UNCHANGED <<tableVars, call, back>>

(* The kernel has done what was asked and returns to its caller, which has *)
(* nothing more to do.                                                     *)
KernelReturns(t) ==
  /\ at[t] = "kernel"
  /\ Goto(t, IF back[t] = "gone" THEN "fault" ELSE "user")
  /\ UNCHANGED <<tableVars, call, back>>

(* Code that is gone cannot be executed. *)
Crash(t) ==
  /\ at[t] = "gone"
  /\ Goto(t, "fault")
  /\ UNCHANGED <<tableVars, call, back>>

-----------------------------------------------------------------------------
Init ==
  /\ table = [k \in Calls |-> "kernel"]
  /\ ref = [m \in Modules |-> [k \in Calls |-> NoFunction]]
  /\ phase = [m \in Modules |-> "out"]
  /\ left = [m \in Modules |-> {}]
  /\ at = [t \in Threads |-> "user"]
  /\ call = [t \in Threads |-> "open"]
  /\ back = [t \in Threads |-> "user"]

interceptor_start(m) == find_sys_call_table(m) \/ Save(m) \/ Replace(m)

interceptor_end(m) == rmmod(m) \/ rmmod_Lost(m) \/ Revert(m) \/ Free(m)

(* What a thread does in the code of a module. *)
Wrapper(t) == HandOn(t) \/ Misread(t) \/ Answer(t) \/ Crash(t)

Next ==
  \/ \E m \in Modules : interceptor_start(m) \/ interceptor_end(m)
  \/ \E t \in Threads : Wrapper(t) \/ KernelReturns(t) \/ \E k \in Calls : Enter(t, k)

Spec == Init /\ [][Next]_vars /\ \A t \in Threads : WF_vars(Wrapper(t))

-----------------------------------------------------------------------------
(* The table leads to no module that is out, going or not yet ready, even  *)
(* for the entry of syscall1, which part1 overwrites with the null pointer *)
(* it never filled; and the entries a module has stored are the kernel's   *)
(* again when it is not at work, whatever the other one did in between and *)
(* whatever is being called. (part1.c, lines 103 to 114 and 130 to 135;    *)
(* kernsysinfo.c, lines 170 to 193)                                        *)
NoDanglingEntry ==
  \A m \in Modules : phase[m] \notin {"replacing", "in", "reverting"} =>
    /\ \A k \in Calls : table[k] # m
    /\ \A k \in Saved(m) : table[k] = "kernel"

(* Whoever is in a function that hands its call on finds the kernel's own  *)
(* function stored there: as soon as the entry is written, while the       *)
(* module is still loading, and until its code is gone. It is never empty, *)
(* nor the other module's, nor its own. (part1.c, lines 24, 32, 46, 103 to *)
(* 113 and 131 to 133)                                                     *)
HandOnReady ==
  \A t \in Threads : at[t] \in Modules /\ call[t] \in HandedOn =>
    ref[at[t]][call[t]] = "kernel"

(* A call that is in the function of a module gets out of it: no module    *)
(* calls itself for the function it has replaced. (part1.c, lines 24, 32   *)
(* and 46)                                                                 *)
WrappersEnd ==
  \A t \in Threads : at[t] \in Modules ~> at[t] \in {"kernel", "user", "fault"}
=============================================================================
