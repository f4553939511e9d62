------------------------- MODULE InterceptorProofs -------------------------
(***************************************************************************)
(* Safety of the system call table, for any set of threads and any number  *)
(* of loadings and unloadings.                                             *)
(***************************************************************************)
EXTENDS Interceptor, TLAPS

Phases == {"out", "saving", "replacing", "in", "reverting", "restored", "lost"}

(* The phases in which the code of a module is there and knows the table,  *)
(* and those in which it may stand in the table.                           *)
Present == {"replacing", "in", "reverting", "restored"}
Standing == {"replacing", "in", "reverting"}

TypeOK ==
  /\ table \in [Calls -> Functions \union {NoFunction}]
  /\ ref \in [Modules -> [Calls -> Functions \union {NoFunction}]]
  /\ phase \in [Modules -> Phases]
  /\ left \in [Modules -> SUBSET Calls]
  /\ at \in [Threads -> Functions \union {"user", "gone", "fault"}]
  /\ call \in [Threads -> Calls]
  /\ back \in [Threads -> Modules \union {"user", "gone"}]

Original(k) == table[k] = "kernel" \/ (k = "syscall1" /\ table[k] = NoFunction)

(* An entry is its module's or the original; and the original where the    *)
(* module is not at work, or has reverted it already.                      *)
Entries ==
  \A m \in Modules :
    /\ left[m] \subseteq Replaced(m)
    /\ \A k \in Replaced(m) :
         /\ Original(k) \/ table[k] = m
         /\ phase[m] \notin Standing => Original(k)
         /\ phase[m] = "reverting" /\ k \notin left[m] => Original(k)

(* What a module that is present has stored. *)
Stored ==
  \A m \in Modules : phase[m] \in Present =>
    \A k \in Calls : ref[m][k] = IF k \in Saved(m) THEN "kernel" ELSE NoFunction

(* A thread in a function of a module made a call the module serves. *)
Callers ==
  \A t \in Threads, m \in Modules :
    at[t] = m => phase[m] \in Present /\ call[t] \in Replaced(m)

IInv == TypeOK /\ Entries /\ Stored /\ Callers

-----------------------------------------------------------------------------
(* Every entry belongs to one module, which saves all but syscall1. *)
LEMMA Names ==
  /\ \A m \in Modules : /\ Replaced(m) \subseteq Calls
                        /\ Saved(m) = Replaced(m) \ {"syscall1"}
                        /\ m \notin {"kernel", "user", "gone", "fault", NoFunction}
  /\ \A k \in Calls : \E m \in Modules : k \in Replaced(m)
  /\ \A m, n \in Modules : m # n => Replaced(m) \intersect Replaced(n) = {}
  /\ NoFunction \notin Functions \union {"user", "gone", "fault"}
  /\ "syscall1" \notin HandedOn
BY DEF Modules, Calls, Replaced, Saved, HandedOn, NoFunction, Functions

(* Everything holds at the start. *)
LEMMA Start == Init => IInv
<1> SUFFICES ASSUME Init PROVE IInv
  OBVIOUS
<1>1. TypeOK
  BY DEF Init, TypeOK, Functions, Modules, Calls, Phases
<1>2. Entries
  BY Names DEF Init, Entries, Original, Standing
<1>3. Stored
  BY DEF Init, Stored, Present
<1>4. Callers
  BY Names DEF Init, Callers
<1> QED
  BY <1>1, <1>2, <1>3, <1>4 DEF IInv

(* A call that runs changes neither the table nor the modules. *)
LEMMA CallSteps ==
  ASSUME IInv, NEW t \in Threads,
         Wrapper(t) \/ KernelReturns(t) \/ \E k \in Calls : Enter(t, k)
  PROVE  IInv'
<1> USE DEF IInv
<1>1. UNCHANGED tableVars
  BY DEF Wrapper, HandOn, Misread, Answer, Crash, KernelReturns, Enter
<1>2. Entries' /\ Stored'
  BY <1>1 DEF Entries, Stored, Original, tableVars
<1>3. CASE \E k \in Calls : Enter(t, k)
  <2>1. PICK k \in Calls : Enter(t, k)
    BY <1>3
  <2>2. PICK m \in Modules : k \in Replaced(m)
    BY Names
  <2>3. table[k] \in {"kernel", NoFunction, m}
    BY <2>2 DEF Entries, Original
  <2>4. table[k] = m => phase[m] \in Present
    BY <2>2, Names DEF Entries, Original, Standing, Present
  <2>5. at' = [at EXCEPT ![t] = IF table[k] = NoFunction THEN "fault" ELSE table[k]]
    BY <2>1 DEF Enter, Jump, Goto
  <2>6. TypeOK'
    BY <1>1, <2>1, <2>3, <2>5 DEF TypeOK, Enter, tableVars, Functions
  <2>7. Callers'
    <3> SUFFICES ASSUME NEW u \in Threads, NEW n \in Modules, at'[u] = n
                 PROVE  phase'[n] \in Present /\ call'[u] \in Replaced(n)
      BY DEF Callers
    <3>1. CASE u = t
      BY <1>1, <2>1, <2>2, <2>3, <2>4, <2>5, <3>1, Names DEF Enter, TypeOK, tableVars
    <3>2. CASE u # t
      BY <1>1, <2>1, <2>5, <3>2 DEF Enter, TypeOK, tableVars, Callers
    <3> QED
      BY <3>1, <3>2
  <2> QED
    BY <1>2, <2>6, <2>7
<1>4. CASE HandOn(t)
  <2>1. PICK m \in Modules : at[t] = m
    BY <1>4 DEF HandOn
  <2>2. ref[m][call[t]] = "kernel"
    BY <1>4, <2>1, Names DEF HandOn, Callers, Stored, TypeOK
  <2>3. at' = [at EXCEPT ![t] = "kernel"]
    BY <1>4, <2>1, <2>2 DEF HandOn, Jump, Goto, NoFunction
  <2> QED
    BY <1>1, <1>2, <1>4, <2>1, <2>3, Names DEF HandOn, TypeOK, Callers, tableVars, Functions
<1>5. CASE Misread(t) \/ Answer(t) \/ Crash(t) \/ KernelReturns(t)
  <2>1. PICK place \in {"user", "fault"} : at' = [at EXCEPT ![t] = place]
    BY <1>5 DEF Misread, Answer, Crash, KernelReturns, Goto
  <2>2. UNCHANGED <<call, back>>
    BY <1>5 DEF Misread, Answer, Crash, KernelReturns
  <2> QED
    BY <1>1, <1>2, <2>1, <2>2, Names DEF TypeOK, Callers, tableVars
<1> QED
  BY <1>3, <1>4, <1>5 DEF Wrapper

(* Loading and unloading. *)
LEMMA ModuleSteps ==
  ASSUME IInv, NEW m \in Modules, interceptor_start(m) \/ interceptor_end(m)
  PROVE  IInv'
<1> USE DEF IInv
<1>0. m \notin {"kernel", "user", "gone", "fault", NoFunction} /\ Replaced(m) \subseteq Calls
  BY Names
<1>1. CASE find_sys_call_table(m)
  <2>1. TypeOK'
    BY <1>1 DEF find_sys_call_table, TypeOK, threadVars, Phases
  <2>2. phase[m] \notin Standing \union Present /\ phase'[m] \notin Standing \union Present
    BY <1>1 DEF find_sys_call_table, TypeOK, Standing, Present
  <2>3. \A n \in Modules \ {m} : phase'[n] = phase[n] /\ ref'[n] = ref[n]
    BY <1>1 DEF find_sys_call_table, TypeOK
  <2>4. Entries' /\ Stored' /\ Callers'
    BY <1>1, <2>2, <2>3 DEF find_sys_call_table, threadVars, Entries, Original,
                            Stored, Callers, Standing, Present
  <2> QED
    BY <2>1, <2>4
<1>2. CASE Save(m)
  <2>1. \A k \in Saved(m) : table[k] = "kernel"
    BY <1>2, Names DEF Save, Entries, Original, Standing
  <2>2. TypeOK'
    BY <1>0, <1>2 DEF Save, TypeOK, threadVars, Phases
  <2>3. phase' = [phase EXCEPT ![m] = "replacing"] /\ phase[m] = "saving"
    BY <1>2 DEF Save
  <2>4. Entries'
    BY <1>2, <2>3 DEF Save, Entries, Original, Standing, TypeOK
  <2>5. Stored'
    BY <1>2, <2>1, <2>3 DEF Save, Stored, TypeOK
  <2>6. Callers'
    BY <1>2, <2>3 DEF Save, Callers, threadVars, Present, TypeOK
  <2> QED
    BY <2>2, <2>4, <2>5, <2>6
<1>3. CASE Replace(m)
  <2>1. PICK k \in Calls : Write(m, k, m, "in")
    BY <1>3 DEF Replace
  <2>2. phase[m] = "replacing" /\ phase'[m] \in {"replacing", "in"}
    BY <1>3, <2>1 DEF Replace, Write, TypeOK
  <2>3. k \in Replaced(m)
    BY <2>1 DEF Write, Entries
  <2>4. TypeOK'
    BY <2>1 DEF Write, TypeOK, Functions, Phases, threadVars
  <2>5. Entries'
    <3> SUFFICES ASSUME NEW n \in Modules
                 PROVE  /\ left'[n] \subseteq Replaced(n)
                        /\ \A j \in Replaced(n) :
                             /\ Original(j)' \/ table'[j] = n
                             /\ phase'[n] \notin Standing => Original(j)'
                             /\ phase'[n] = "reverting" /\ j \notin left'[n] => Original(j)'
      BY DEF Entries
    <3>1. CASE n = m
      BY <2>1, <2>2, <3>1, Names DEF Write, Entries, Original, Standing, TypeOK
    <3>2. CASE n # m
      BY <2>1, <2>3, <3>2, Names DEF Write, Entries, Original, Standing, TypeOK
    <3> QED
      BY <3>1, <3>2
  <2>6. Stored' /\ Callers'
    BY <2>1, <2>2 DEF Write, Stored, Callers, threadVars, Present, TypeOK
  <2> QED
    BY <2>4, <2>5, <2>6
<1>4. CASE rmmod(m)
  <2>1. phase' = [phase EXCEPT ![m] = "reverting"] /\ phase[m] = "in"
    BY <1>4 DEF rmmod
  <2>2. TypeOK'
    BY <1>0, <1>4 DEF rmmod, TypeOK, threadVars, Phases
  <2>3. Entries'
    BY <1>4, <2>1 DEF rmmod, Entries, Original, Standing, TypeOK
  <2>4. Stored' /\ Callers'
    BY <1>4, <2>1 DEF rmmod, Stored, Callers, threadVars, Present, TypeOK
  <2> QED
    BY <2>2, <2>3, <2>4
<1>5. CASE Revert(m)
  <2>1. PICK k \in Calls : Write(m, k, ref[m][k], "restored")
    BY <1>5 DEF Revert
  <2>2. phase[m] = "reverting" /\ phase'[m] \in {"reverting", "restored"}
    BY <1>5, <2>1 DEF Revert, Write, TypeOK
  <2>3. k \in Replaced(m)
    BY <2>1 DEF Write, Entries
  <2>4. Original(k)'
    BY <2>1, <2>2, <2>3, Names DEF Write, Stored, Present, Original, TypeOK
  <2>5. TypeOK'
    BY <2>1 DEF Write, TypeOK, Phases, threadVars
  <2>6. Entries'
    <3> SUFFICES ASSUME NEW n \in Modules
                 PROVE  /\ left'[n] \subseteq Replaced(n)
                        /\ \A j \in Replaced(n) :
                             /\ Original(j)' \/ table'[j] = n
                             /\ phase'[n] \notin Standing => Original(j)'
                             /\ phase'[n] = "reverting" /\ j \notin left'[n] => Original(j)'
      BY DEF Entries
    <3>1. CASE n = m
      <4> SUFFICES ASSUME NEW j \in Replaced(m)
                   PROVE  /\ Original(j)' \/ table'[j] = m
                          /\ phase'[m] \notin Standing => Original(j)'
                          /\ j \notin left'[m] => Original(j)'
        BY <2>1, <3>1 DEF Write, Entries, TypeOK
      <4>1. CASE j = k
        BY <2>4, <4>1
      <4>2. CASE j # k
        BY <1>0, <2>1, <2>2, <4>2 DEF Write, Entries, Original, Standing, TypeOK
      <4> QED
        BY <4>1, <4>2
    <3>2. CASE n # m
      BY <2>1, <2>3, <3>2, Names DEF Write, Entries, Original, Standing, TypeOK
    <3> QED
      BY <3>1, <3>2
  <2>7. Stored' /\ Callers'
    BY <2>1, <2>2 DEF Write, Stored, Callers, threadVars, Present, TypeOK
  <2> QED
    BY <2>5, <2>6, <2>7
<1>6. CASE Free(m)
  <2>1. phase' = [phase EXCEPT ![m] = "out"] /\ phase[m] = "restored"
    BY <1>6 DEF Free
  <2>2. TypeOK'
    BY <1>6 DEF Free, TypeOK, Phases
  <2>3. Entries'
    BY <1>6, <2>1 DEF Free, Entries, Original, Standing, TypeOK
  <2>4. Stored'
    BY <1>6, <2>1 DEF Free, Stored, Present, TypeOK
  <2>5. Callers'
    BY <1>0, <1>6, <2>1, Names DEF Free, Callers, Present, TypeOK
  <2> QED
    BY <2>2, <2>3, <2>4, <2>5
<1>7. CASE rmmod_Lost(m)
  <2>1. phase' = [phase EXCEPT ![m] = "out"] /\ phase[m] = "lost"
    BY <1>7 DEF rmmod_Lost
  <2>2. TypeOK'
    BY <1>7 DEF rmmod_Lost, TypeOK, threadVars, Phases
  <2>3. Entries'
    BY <1>7, <2>1 DEF rmmod_Lost, Entries, Original, Standing, TypeOK
  <2>4. Stored'
    BY <1>7, <2>1 DEF rmmod_Lost, Stored, Present, TypeOK
  <2>5. Callers'
    BY <1>7, <2>1 DEF rmmod_Lost, Callers, threadVars, Present, TypeOK
  <2> QED
    BY <2>2, <2>3, <2>4, <2>5
<1> QED
  BY <1>1, <1>2, <1>3, <1>4, <1>5, <1>6, <1>7 DEF interceptor_start, interceptor_end

(* IInv is an invariant. *)
LEMMA Invariance == Spec => []IInv
<1>1. IInv /\ [Next]_vars => IInv'
  <2> SUFFICES ASSUME IInv, [Next]_vars PROVE IInv'
    OBVIOUS
  <2>1. CASE Next
    BY <2>1, CallSteps, ModuleSteps DEF Next
  <2>2. CASE UNCHANGED vars
    BY <2>2 DEF IInv, TypeOK, Entries, Stored, Callers, Original, vars, tableVars, threadVars
  <2> QED
    BY <2>1, <2>2
<1> QED
  BY <1>1, Start, PTL DEF Spec

-----------------------------------------------------------------------------
(* Whatever the other module does in between, and whoever is calling, no   *)
(* entry leads to a module that is not at work, and what it had stored is  *)
(* the kernel's again. (part1.c, lines 103 to 114 and 130 to 135)          *)
THEOREM NothingDangles == Spec => []NoDanglingEntry
<1>1. IInv => NoDanglingEntry
  <2> SUFFICES ASSUME IInv, NEW m \in Modules, phase[m] \notin Standing
               PROVE  /\ \A k \in Calls : table[k] # m
                      /\ \A k \in Saved(m) : table[k] = "kernel"
    BY DEF NoDanglingEntry, Standing
  <2>1. \A k \in Replaced(m) : Original(k)
    BY DEF IInv, Entries
  <2>2. \A n \in Modules \ {m} : \A k \in Replaced(n) : Original(k) \/ table[k] = n
    BY DEF IInv, Entries
  <2>3. \A k \in Calls : table[k] # m
    <3> SUFFICES ASSUME NEW k \in Calls PROVE table[k] # m
      OBVIOUS
    <3>1. PICK n \in Modules : k \in Replaced(n)
      BY Names
    <3> QED
      BY <2>1, <2>2, <3>1, Names DEF Original
  <2> QED
    BY <2>1, <2>3, Names DEF Original
<1> QED
  BY <1>1, Invariance, PTL

(* For any number of threads and loadings, a wrapper has the kernel's      *)
(* function to hand its call on to, from the first call that reaches it to *)
(* the last. (part1.c, lines 24, 32, 46 and 103 to 113)                    *)
THEOREM WrappersReady == Spec => []HandOnReady
<1>1. IInv => HandOnReady
  <2> SUFFICES ASSUME IInv, NEW t \in Threads, NEW m \in Modules, at[t] = m,
                      call[t] \in HandedOn
               PROVE  ref[m][call[t]] = "kernel"
    BY DEF HandOnReady
  <2> QED
    BY Names DEF IInv, TypeOK, Callers, Stored
<1> QED
  BY <1>1, Invariance, PTL
=============================================================================
