------------------------------ MODULE MCMemory ------------------------------
(***************************************************************************)
(* Two instances of the memory simulator in one run: two processes that    *)
(* store, and three that do not; and the refinement of VirtualMemory.      *)
(***************************************************************************)
EXTENDS Memory

VARIABLE instance

\* Processes 0 and 1, which store; page 0 of process 0 may be mapped read only.
Pair == /\ pid' # 2
        /\ op' = "map" /\ val' = 0 => pid' = 0 /\ vaddr' = 0
        /\ (pc = Idle /\ linecount + 2 = MaxLines) => pc' = Exited

\* Processes 0 to 2, which do not, and a line more.
Trio == /\ op' # "store" /\ reply'.kind \notin {"stored", "readonly"}
        /\ op' = "map" => val' = 1

MCNext == /\ Next /\ UNCHANGED instance
          /\ instance = "pair" => Pair
          /\ instance = "trio" => Trio

MCSpec == /\ Init /\ instance \in {"pair", "trio"}
          /\ [][MCNext]_<<vars, instance>>

\* The bytes of page n of p wherever its entry says they are.
PageOf(p, n) ==
  CASE inmem[p] = NoTable \/ Table(p)[PTE * n + VALPRES] = Unallocated -> <<>>
    [] OTHER -> LET where == Table(p)[PTE * n + PFN]
                IN IF Table(p)[PTE * n + VALPRES] = Present
                   THEN [i \in {a % PAGEMEM : a \in Addresses} |-> mem[where + i]]
                   ELSE [i \in {a % PAGEMEM : a \in Addresses} |-> swap[where + 1][i]]

Named == {vpage(a) : a \in Addresses}

Abstract == INSTANCE VirtualMemory WITH
  PageSize  <- PAGEMEM,
  content   <- [p \in Processes |-> [n \in Named |-> PageOf(p, n)]],
  writeable <- [p \in Processes |-> [n \in Named |->
                 inmem[p] # NoTable /\ Table(p)[PTE * n + PROTECTION] = WRITEABLE]],
  reply     <- reply

ImplementsVirtualMemory == Abstract!VMSpec
=============================================================================
