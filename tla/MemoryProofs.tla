---------------------------- MODULE MemoryProofs ----------------------------
(***************************************************************************)
(* The frame books of the memory simulator: for any processes, addresses,  *)
(* protections and values the user names, and however long the swap file   *)
(* gets, freelist and pages never disagree, also after the program has     *)
(* lost track of which frames are page tables.  And its types: every byte  *)
(* it writes is a byte, every number it goes on with is one of its range.  *)
(***************************************************************************)
EXTENDS Memory, FiniteSetTheorems, TLAPS

\* FrameBooks with the types its steps need: a frame that is taken gets a holder
\* that is a process, so pid has to be one.
Books ==
  /\ freelist \in [Frames -> {0, 1}]
  /\ pages \in [Frames -> -1 .. 3]
  /\ pid \in 0 .. 3
  /\ FrameBooks

books == <<freelist, pages>>

\* -1 is no process.
LEMMA ProcessesAreNumbers == \A p \in Processes : p \in 0 .. 3
BY MemoryAssumption

\* At the start every frame is free and nobody's.
LEMMA InitBooks == Init => Books
BY DEF Init, Books, FrameBooks

\* freespace, removePage and removePageTable: a frame goes back in both arrays.
LEMMA FreedBooks ==
  ASSUME Books, NEW f, Freed(f), pid' = pid
  PROVE  Books'
<1>0. -1 \in -1 .. 3
  OBVIOUS
<1>1. freelist' \in [Frames -> {0, 1}]
  BY Zenon DEF Books, Freed
<1>2. pages' \in [Frames -> -1 .. 3]
  BY <1>0, Zenon DEF Books, Freed
<1>3. \A g \in Frames : freelist'[g] = 1 <=> pages'[g] = -1
  BY DEF Books, FrameBooks, Freed
<1> QED BY <1>1, <1>2, <1>3 DEF Books, FrameBooks

\* findfree and its callers: a frame is taken in both arrays.
LEMMA TakeBooks ==
  ASSUME Books, NEW f \in Frames, NEW isTable \in BOOLEAN, Take(f, isTable),
         pid' \in 0 .. 3
  PROVE  Books'
BY DEF Books, FrameBooks, Take

\* What leaves both arrays alone.
LEMMA SameBooks ==
  ASSUME Books, UNCHANGED books, pid' \in 0 .. 3
  PROVE  Books'
BY DEF Books, FrameBooks, books

\* Every step keeps the books.
LEMMA StepBooks == Books /\ [Next]_vars => Books'
<1> SUFFICES ASSUME Books, [Next]_vars
             PROVE  Books'
  OBVIOUS
<1>pid. pid \in 0 .. 3
  BY DEF Books
<1>0. 0 \in 0 .. 3
  OBVIOUS
<1>1. ASSUME NEW p \in Processes, NEW a \in Addresses, NEW v \in Protections, Map(p, a, v)
      PROVE  Books'
  <2>1. UNCHANGED books /\ pid' = p
    BY <1>1 DEF Map, machine, books, Begin
  <2> QED BY <2>1, SameBooks, ProcessesAreNumbers
<1>2. ASSUME NEW p, NEW a, NEW v, Write(p, a, v)
      PROVE  Books'
  <2>1. UNCHANGED books
    BY <1>2 DEF Write, machine, books, GoWild
  <2>2. pid' = 0 \/ pid' = pid
    BY <1>2 DEF Write, Done, Begin, GoWild, request
  <2> QED BY <2>1, <2>2, <1>pid, <1>0, SameBooks
<1>3. ASSUME NEW p, NEW a, Read(p, a)
      PROVE  Books'
  <2>1. UNCHANGED books
    BY <1>3 DEF Read, machine, books, GoWild
  <2>2. pid' = 0 \/ pid' = pid
    BY <1>3 DEF Read, Done, Begin, GoWild, request
  <2> QED BY <2>1, <2>2, <1>pid, <1>0, SameBooks
<1>4. ASSUME NEW p \in Processes, NEW o, NEW a, NEW v, Command(o, p, a, v)
      PROVE  Books'
  <2>1. UNCHANGED books /\ pid' = p
    BY <1>4 DEF Command, machine, books, Begin
  <2> QED BY <2>1, SameBooks, ProcessesAreNumbers
<1>5. ASSUME Segfault
      PROVE  Books'
  <2>1. UNCHANGED books /\ pid' = 0
    BY <1>5 DEF Segfault, machine, books, Done, Begin
  <2> QED BY <2>1, <1>0, SameBooks
<1>6. ASSUME NEW p \in Processes, NEW a \in Addresses, NEW v \in Values, Store(p, a, v)
      PROVE  Books'
  BY <1>6, <1>2, <1>4, <1>5 DEF Store
<1>7. ASSUME NEW p \in Processes, NEW a \in Addresses, Load(p, a)
      PROVE  Books'
  <2>1. CASE Command("load", p, a, 0)
    BY <2>1, <1>4
  <2>2. CASE Segfault
    BY <2>2, <1>5
  <2>3. CASE Read(p, a)
    BY <2>3, <1>3
  <2>4. CASE Done /\ UNCHANGED machine
    <3>1. UNCHANGED books /\ pid' = 0
      BY <2>4 DEF machine, books, Done, Begin
    <3> QED BY <3>1, <1>0, SameBooks
  <2>5. CASE Begin("load", p, a, 0) /\ UNCHANGED machine
    <3>1. UNCHANGED books /\ pid' = p
      BY <2>5 DEF machine, books, Begin
    <3> QED BY <3>1, SameBooks, ProcessesAreNumbers
  <2> QED BY <1>7, <2>1, <2>2, <2>3, <2>4, <2>5 DEF Load
<1>8. ASSUME EvictPage
      PROVE  Books'
  <2>1. PICK victim : \/ GoWild
                      \/ RemovePage(victim) /\ UNCHANGED request
                      \/ UNCHANGED <<machine, request>>
    BY <1>8 DEF EvictPage
  <2>2. pid' = pid
    BY <2>1 DEF GoWild, request
  <2>3. CASE Freed(victim)
    BY <2>2, <2>3, FreedBooks
  <2>4. CASE UNCHANGED books
    BY <2>2, <2>4, <1>pid, SameBooks
  <2> QED BY <2>1, <2>3, <2>4 DEF RemovePage, GoWild, machine, books
<1>9. ASSUME EvictTable
      PROVE  Books'
  <2>1. PICK victim : \/ GoWild
                      \/ RemoveTable(pages[victim]) /\ UNCHANGED request
                      \/ RemovePage(victim) /\ UNCHANGED request
                      \/ UNCHANGED <<machine, request>>
    BY <1>9 DEF EvictTable
  <2>2. pid' = pid
    BY <2>1 DEF GoWild, request
  <2>3. CASE \E f : Freed(f)
    BY <2>2, <2>3, FreedBooks
  <2>4. CASE UNCHANGED books
    BY <2>2, <2>4, <1>pid, SameBooks
  <2> QED BY <2>1, <2>3, <2>4 DEF RemovePage, RemoveTable, GoWild, machine, books
<1>10. ASSUME CreateTable \/ LoadPageTable \/ AllocatePage \/ LoadThePage
       PROVE  Books'
  <2>1. pid' = pid \/ pid' = 0
    BY <1>10 DEF CreateTable, LoadPageTable, AllocatePage, LoadThePage, NoFrame,
                 MissingLine, GoWild, request, Done, Begin
  <2>2. CASE \E f \in Frames, isTable \in BOOLEAN : Take(f, isTable)
    BY <2>1, <2>2, <1>pid, <1>0, TakeBooks
  <2>3. CASE UNCHANGED books
    BY <2>1, <2>3, <1>pid, <1>0, SameBooks
  <2> QED BY <1>10, <2>2, <2>3 DEF CreateTable, LoadPageTable, AllocatePage, LoadThePage,
                 NoFrame, MissingLine, GoWild, machine, books
<1>11. ASSUME FreespaceReturns \/ MapThePage \/ SwapPageIn \/ EndOfFile \/ UNCHANGED vars
       PROVE  Books'
  <2>1. UNCHANGED books
    BY <1>11 DEF FreespaceReturns, MapThePage, SwapPageIn, EndOfFile, vars, machine, books
  <2>2. pid' = pid \/ pid' = 0
    BY <1>11 DEF FreespaceReturns, MapThePage, SwapPageIn, EndOfFile, vars, request, Done, Begin
  <2> QED BY <2>1, <2>2, <1>pid, <1>0, SameBooks
<1>12. ASSUME Conclude
       PROVE  Books'
  <2>1. CASE Done /\ UNCHANGED machine
    <3>1. UNCHANGED books /\ pid' = 0
      BY <2>1 DEF machine, books, Done, Begin
    <3> QED BY <3>1, <1>0, SameBooks
  <2> QED BY <1>12, <1>2, <1>3, <2>1 DEF Conclude
<1> QED
  BY <1>1, <1>6, <1>7, <1>8, <1>9, <1>10, <1>11, <1>12 DEF Next, UserCommand, Work, AtRest

\* A frame is on the free list exactly while no process holds it, whatever the
\* user does: also in the states where tables and pages have been confused.
THEOREM BooksAgree == Spec => []FrameBooks
<1>1. Books => FrameBooks
  BY DEF Books
<1> QED BY <1>1, InitBooks, StepBooks, PTL DEF Spec

-----------------------------------------------------------------------------
(* Arithmetic of frames, addresses and page table entries.                  *)

\* The hand stays on a frame.
LEMMA RobinIsFrame ==
  \A r \in Frames : robin(r) \in Frames /\ \A j \in 0 .. 4 : (r + j) % NUMPAGES \in Frames
BY DEF Frames, NUMPAGES, robin

\* Every address has an entry in the table.
LEMMA VpageIsEntry == \A a \in 0 .. 63 : vpage(a) \in 0 .. 3
BY DEF vpage, PAGEMEM

\* A frame and an offset make a cell, and the cell is in that frame only.
LEMMA CellsOfFrames ==
  \A f, g \in Frames, i \in Offsets :
    f * PAGEMEM + i \in Cells /\ (InPage(f * PAGEMEM + i, g * PAGEMEM) <=> g = f)
BY DEF Frames, Offsets, Cells, InPage, PAGEMEM, MAXMEM, NUMPAGES

\* A cell of a frame has its offset there.
LEMMA OffsetsOfCells ==
  \A f \in Frames, i \in Cells :
    InPage(i, f * PAGEMEM) => i - f * PAGEMEM \in Offsets /\ (i - f * PAGEMEM) \div PTE \in 0 .. 3
BY DEF Frames, Offsets, Cells, InPage, PAGEMEM, MAXMEM, NUMPAGES, PTE

\* The address of a frame fits in a byte.
LEMMA FrameNumberIsByte == \A f \in Frames : f * PAGEMEM \in Byte
BY DEF Frames, Byte, NUMPAGES, PAGEMEM

\* The free frames, counted one by one.
LEMMA CountFree ==
  ASSUME freelist \in [Frames -> {0, 1}]
  PROVE  Cardinality(FreeFrames) = freelist[0] + freelist[1] + freelist[2] + freelist[3]
<1> DEFINE Below(n) == {f \in 0 .. n - 1 : freelist[f] = 1}
<1>1. Cardinality(Below(0)) = 0 /\ IsFiniteSet(Below(0))
  BY FS_EmptySet
<1>2. ASSUME NEW n \in 0 .. 3, IsFiniteSet(Below(n)), Cardinality(Below(n)) \in Nat
      PROVE  /\ IsFiniteSet(Below(n + 1))
             /\ Cardinality(Below(n + 1)) = Cardinality(Below(n)) + freelist[n]
  <2>1. CASE freelist[n] = 1
    <3>1. Below(n + 1) = Below(n) \union {n} /\ n \notin Below(n)
      BY <2>1
    <3> HIDE DEF Below
    <3> QED BY <3>1, <2>1, <1>2, FS_AddElement
  <2>2. CASE freelist[n] = 0
    <3>1. Below(n + 1) = Below(n)
      BY <2>2
    <3> QED BY <3>1, <2>2, <1>2
  <2> QED BY <2>1, <2>2 DEF Frames, NUMPAGES
<1>3. FreeFrames = Below(4)
  BY DEF FreeFrames, Frames, NUMPAGES
<1> HIDE DEF Below
<1>4. \A f \in 0 .. 3 : freelist[f] \in {0, 1}
  BY DEF Frames, NUMPAGES
<1>5. /\ IsFiniteSet(Below(1)) /\ Cardinality(Below(1)) = freelist[0]
  BY <1>1, <1>2, <1>4
<1>6. /\ IsFiniteSet(Below(2)) /\ Cardinality(Below(2)) = freelist[0] + freelist[1]
  BY <1>2, <1>4, <1>5
<1>7. /\ IsFiniteSet(Below(3)) /\ Cardinality(Below(3)) = freelist[0] + freelist[1] + freelist[2]
  BY <1>2, <1>4, <1>6
<1> QED BY <1>2, <1>3, <1>4, <1>7

\* The hand of the first loop passes no frame, or up to all four.
LEMMA PassedRange ==
  ASSUME NEW r \in Frames
  PROVE  /\ Passed(r) \in 0 .. 4
         /\ OwnTable(r) => Passed(r) >= 1
         /\ Passed(r) = 4 \/ ispagetable[(r + Passed(r)) % NUMPAGES] # 1
         /\ \A d \in 0 .. 3 : /\ d < Passed(r)
                              /\ d >= 1 \/ ~OwnTable(r)
                              => ispagetable[(r + d) % NUMPAGES] = 1
<1> DEFINE j == IF OwnTable(r) THEN 1 ELSE 0
           Stop(d) == d = 4 - j \/ ispagetable[(r + j + d) % NUMPAGES] # 1
           stops == {d \in 0 .. 4 - j : Stop(d)}
           first == CHOOSE d \in stops : \A e \in stops : d <= e
<1>1. j \in 0 .. 1
  OBVIOUS
<1>2. \E d \in stops : \A e \in stops : d <= e
  <2>1. 4 - j \in 0 .. 4 - j /\ 0 .. 4 - j \in {0 .. 4, 0 .. 3}
    BY <1>1
  <2>2. CASE Stop(0)
    <3>1. 0 \in stops /\ \A e \in stops : 0 <= e
      BY <1>1, <2>2
    <3> QED BY <3>1
  <2>3. CASE ~Stop(0) /\ Stop(1)
    <3>1. 1 \in stops /\ \A e \in stops : 1 <= e
      BY <1>1, <2>3
    <3> QED BY <3>1
  <2>4. CASE ~Stop(0) /\ ~Stop(1) /\ Stop(2)
    <3>1. 2 \in stops /\ \A e \in stops : 2 <= e
      BY <1>1, <2>4
    <3> QED BY <3>1
  <2>5. CASE ~Stop(0) /\ ~Stop(1) /\ ~Stop(2) /\ Stop(3)
    <3>1. 3 \in stops /\ \A e \in stops : 3 <= e
      BY <1>1, <2>5
    <3> QED BY <3>1
  <2>6. CASE ~Stop(0) /\ ~Stop(1) /\ ~Stop(2) /\ ~Stop(3)
    <3>1. 4 \in stops /\ \A e \in stops : 4 <= e
      BY <1>1, <2>6
    <3> QED BY <3>1
  <2> QED BY <2>2, <2>3, <2>4, <2>5, <2>6
<1>3. first \in stops /\ \A e \in stops : first <= e
  BY <1>2
<1>4. Passed(r) = j + first
  BY DEF Passed
<1> HIDE DEF first
<1>5. first \in 0 .. 4 - j /\ Stop(first) /\ \A e \in 0 .. 4 - j : e < first => ~Stop(e)
  BY <1>1, <1>3
<1>6. Passed(r) \in 0 .. 4 /\ (OwnTable(r) => Passed(r) >= 1)
  BY <1>1, <1>4, <1>5
<1>7. Passed(r) = 4 \/ ispagetable[(r + Passed(r)) % NUMPAGES] # 1
  <2>1. r + j + first = r + Passed(r)
    BY <1>1, <1>4, <1>5 DEF Frames
  <2> QED BY <1>1, <1>4, <1>5, <2>1
<1>8. ASSUME NEW d \in 0 .. 3, d < Passed(r), d >= 1 \/ ~OwnTable(r)
      PROVE  ispagetable[(r + d) % NUMPAGES] = 1
  <2>1. d - j \in 0 .. 4 - j /\ d - j < first /\ r + j + (d - j) = r + d
    BY <1>1, <1>4, <1>5, <1>8 DEF Frames
  <2>2. ~Stop(d - j)
    BY <1>5, <2>1
  <2> QED BY <2>1, <2>2
<1> QED BY <1>6, <1>7, <1>8

-----------------------------------------------------------------------------
(* The values of the variables.                                             *)

\* Every machine command is typed; what LoadThePage reads of a table depends on
\* where the register points.
MachineTypes ==
  /\ mem \in [Cells -> Byte]
  /\ freelist \in [Frames -> {0, 1}]
  /\ pages \in [Frames -> -1 .. 3]
  /\ ispagetable \in [Frames -> {0, 1}]
  /\ address \in [0 .. 3 -> Nat]
  /\ inmem \in [0 .. 3 -> {NoTable, TableOnDisk, TableInMem}]
  /\ swap \in Seq([Offsets -> Byte])

\* A register points to a frame as long as the table is in memory.
Pointers ==
  \A p \in 0 .. 3 : inmem[p] = TableInMem => address[p] \in {f * PAGEMEM : f \in Frames}

RequestTypes ==
  /\ op \in {"none", "map", "store", "load"}
  /\ pid \in 0 .. 3 /\ vaddr \in 0 .. 63 /\ val \in Byte

EvictorTypes ==
  /\ need \in 0 .. 2 /\ found \in 0 .. 4 /\ removed \in [Frames -> {0, 1}]
  /\ ret \in {Idle, Create, LoadTable, Allocate, LoadPage}

OtherTypes ==
  /\ roundrobin \in Frames
  /\ pc \in {Idle} \cup Working \cup Stopped
  /\ space \in -1 .. 4
  /\ reply \in [kind : Replies, value : Byte]

\* Where the command goes on, after freespace if that is at work.
Target == IF pc \in {Evicting, Tables} THEN ret ELSE pc

\* loadPage is called for a process that has a table; the count of free frames
\* that command() takes is used up once, by then.
LoadIsAsked ==
  /\ Target \in {LoadTable, SwapIn, LoadPage} => inmem[pid] # NoTable
  /\ space < 0 => Target \in {LoadPage, Answer} \cup Stopped

Typed ==
  MachineTypes /\ Pointers /\ RequestTypes /\ EvictorTypes /\ OtherTypes /\ LoadIsAsked

\* The program starts with values of these types.
LEMMA InitTyped == Init => Typed
<1> SUFFICES ASSUME Init
             PROVE  Typed
  OBVIOUS
<1>1. 0 \in Byte /\ 0 \in Frames /\ 0 \in Nat /\ <<>> \in Seq([Offsets -> Byte])
  BY DEF Byte, Frames, NUMPAGES
<1>2. MachineTypes /\ Pointers
  BY <1>1 DEF Init, MachineTypes, Pointers, NoTable, TableInMem
<1>3. RequestTypes /\ EvictorTypes /\ OtherTypes
  BY <1>1 DEF Init, RequestTypes, EvictorTypes, OtherTypes, Replies
<1>4. LoadIsAsked
  BY DEF Init, LoadIsAsked, Target, Idle, Evicting, Tables, LoadTable, SwapIn, LoadPage
<1> QED BY <1>2, <1>3, <1>4 DEF Typed

\* Nothing but the machine matters to its types.
LEMMA SameMachine ==
  ASSUME MachineTypes, Pointers, UNCHANGED machine
  PROVE  MachineTypes' /\ Pointers'
BY DEF MachineTypes, Pointers, machine

\* A frame read as a page is 16 bytes;
LEMMA PageTyped ==
  ASSUME MachineTypes, NEW f \in Frames
  PROVE  Page(f * PAGEMEM) \in [Offsets -> Byte]
BY CellsOfFrames DEF MachineTypes, Page

\* a frame set to zeros leaves bytes,
LEMMA ZeroedTyped ==
  ASSUME NEW bytes \in [Cells -> Byte], NEW f
  PROVE  Zeroed(f, bytes) \in [Cells -> Byte]
<1>1. 0 \in Byte
  BY DEF Byte
<1> QED BY <1>1 DEF Zeroed

\* and so does a page put into a frame.
LEMMA FilledTyped ==
  ASSUME MachineTypes, NEW f \in Frames, NEW temp \in [0 .. PAGEMEM -> Byte]
  PROVE  Filled(f, temp) \in [Cells -> Byte]
<1>1. Offsets \subseteq 0 .. PAGEMEM
  BY DEF Offsets, PAGEMEM
<1> QED BY <1>1, OffsetsOfCells DEF Filled, MachineTypes

\* pageFromFile reads bytes, the newline included.
LEMMA FileTyped ==
  ASSUME NEW line, swap[line + 1] \in [Offsets -> Byte]
  PROVE  PageFromFile(line) \in [0 .. PAGEMEM -> Byte]
<1>1. 0 \in Byte /\ 0 .. PAGEMEM = Offsets \cup {PAGEMEM}
  BY DEF Byte, Offsets, PAGEMEM
<1> QED BY <1>1 DEF PageFromFile

\* removePage writes bytes, whatever entry it believes to have found.
LEMMA RemovePageTyped ==
  ASSUME MachineTypes, Pointers, NEW f \in Frames, RemovePage(f)
  PROVE  MachineTypes' /\ Pointers'
<1>1. PICK pte :
        mem' = Zeroed(f, [mem EXCEPT ![pte + PFN] = linecount % 256, ![pte + VALPRES] = OnDisk])
  BY DEF RemovePage
<1>2. linecount % 256 \in Byte /\ OnDisk \in Byte
  <2>1. linecount \in Nat
    BY DEF MachineTypes, linecount
  <2> QED BY <2>1 DEF Byte, OnDisk
<1>3. mem' \in [Cells -> Byte]
  <2>1. [mem EXCEPT ![pte + PFN] = linecount % 256, ![pte + VALPRES] = OnDisk] \in [Cells -> Byte]
    BY <1>2 DEF MachineTypes
  <2> QED BY <1>1, <2>1, ZeroedTyped
<1>4. swap' \in Seq([Offsets -> Byte])
  <2>1. swap' = Append(swap, Page(f * PAGEMEM)) /\ Page(f * PAGEMEM) \in [Offsets -> Byte]
    BY PageTyped DEF RemovePage
  <2> QED BY <2>1 DEF MachineTypes
<1>5. -1 \in -1 .. 3
  OBVIOUS
<1>6. freelist' \in [Frames -> {0, 1}] /\ pages' \in [Frames -> -1 .. 3]
  BY <1>5 DEF RemovePage, Freed, MachineTypes
<1> QED BY <1>3, <1>4, <1>6 DEF RemovePage, MachineTypes, Pointers

\* removePageTable takes the register of its process off memory.
LEMMA RemoveTableTyped ==
  ASSUME MachineTypes, Pointers, NEW p \in 0 .. 3, RemoveTable(p)
  PROVE  MachineTypes' /\ Pointers'
<1>1. PICK f \in Frames :
        /\ address[p] = f * PAGEMEM
        /\ swap' = Append(swap, Page(address[p]))
        /\ mem' = Zeroed(f, mem)
        /\ Freed(f)
        /\ ispagetable' = [ispagetable EXCEPT ![f] = 0]
        /\ address' = [address EXCEPT ![p] = linecount]
        /\ inmem' = [inmem EXCEPT ![p] = TableOnDisk]
  BY DEF RemoveTable
<1>2. linecount \in Nat
  BY DEF MachineTypes, linecount
<1>3. mem' \in [Cells -> Byte]
  BY <1>1, ZeroedTyped DEF MachineTypes
<1>4. swap' \in Seq([Offsets -> Byte])
  <2>1. Page(address[p]) \in [Offsets -> Byte]
    BY <1>1, PageTyped
  <2> QED BY <1>1, <2>1 DEF MachineTypes
<1>5. -1 \in -1 .. 3
  OBVIOUS
<1>6. freelist' \in [Frames -> {0, 1}] /\ pages' \in [Frames -> -1 .. 3]
  BY <1>1, <1>5 DEF Freed, MachineTypes
<1>7. /\ ispagetable' \in [Frames -> {0, 1}] /\ address' \in [0 .. 3 -> Nat]
      /\ inmem' \in [0 .. 3 -> {NoTable, TableOnDisk, TableInMem}]
  BY <1>1, <1>2 DEF MachineTypes
<1>8. Pointers'
  BY <1>1 DEF MachineTypes, Pointers, TableInMem, TableOnDisk
<1> QED BY <1>3, <1>4, <1>6, <1>7, <1>8 DEF MachineTypes

\* A frame is taken, and mem changes: with the register or without.
LEMMA TakeTyped ==
  ASSUME MachineTypes, Pointers, pid \in 0 .. 3, NEW f \in Frames, NEW isTable \in BOOLEAN,
         Take(f, isTable), PointTo(f) \/ UNCHANGED <<address, inmem>>,
         mem' \in [Cells -> Byte], swap' = swap
  PROVE  MachineTypes' /\ Pointers'
<1>1. /\ freelist' \in [Frames -> {0, 1}] /\ pages' \in [Frames -> -1 .. 3]
      /\ ispagetable' \in [Frames -> {0, 1}]
  <2>1. pid \in -1 .. 3
    OBVIOUS
  <2> QED BY <2>1 DEF Take, MachineTypes
<1>2. /\ address' \in [0 .. 3 -> Nat]
      /\ inmem' \in [0 .. 3 -> {NoTable, TableOnDisk, TableInMem}]
      /\ Pointers'
  <2>1. CASE PointTo(f)
    <3>1. f * PAGEMEM \in Nat
      BY DEF Frames, PAGEMEM, NUMPAGES
    <3> QED BY <2>1, <3>1 DEF PointTo, MachineTypes, Pointers
  <2>2. CASE UNCHANGED <<address, inmem>>
    BY <2>2 DEF MachineTypes, Pointers
  <2> QED BY <2>1, <2>2
<1> QED BY <1>1, <1>2 DEF MachineTypes

\* What is left of a command when it is over, or when the program stops.
LEMMA DoneTyped ==
  ASSUME Typed, Done
  PROVE  RequestTypes' /\ EvictorTypes' /\ roundrobin' \in Frames /\ pc' = Idle /\ space' = 0
         /\ LoadIsAsked'
<1>1. 0 \in Byte
  BY DEF Byte
<1>2. RequestTypes' /\ EvictorTypes' /\ roundrobin' \in Frames
  BY <1>1 DEF Typed, RequestTypes, EvictorTypes, OtherTypes, Done, Begin, evictor
<1>3. LoadIsAsked'
  BY DEF Done, Goto, LoadIsAsked, Target, Idle, Evicting, Tables, LoadTable, SwapIn, LoadPage
<1> QED BY <1>2, <1>3 DEF Done, Goto

\* A step out of the arrays changes nothing that is modelled.
LEMMA WildTyped ==
  ASSUME Typed, GoWild
  PROVE  Typed'
<1>1. MachineTypes' /\ Pointers'
  BY SameMachine DEF Typed, GoWild
<1>2. RequestTypes' /\ EvictorTypes' /\ OtherTypes'
  BY DEF Typed, RequestTypes, EvictorTypes, OtherTypes, GoWild, Goto, request, evictor, Stopped
<1>3. LoadIsAsked'
  BY DEF GoWild, Goto, LoadIsAsked, Target, Wild, Evicting, Tables, LoadTable, SwapIn, LoadPage,
         Stopped
<1> QED BY <1>1, <1>2, <1>3 DEF Typed

\* The last parts of a store and of a load, and the commands that end at once.
LEMMA AnswerTyped ==
  ASSUME Typed, NEW p \in 0 .. 3, NEW a, NEW v \in Byte, Write(p, a, v) \/ Read(p, a)
  PROVE  Typed'
<1>1. CASE GoWild
  BY <1>1, WildTyped
<1>2. ASSUME Done, Says("readonly", 0) \/ Says("stored", v) \/ Says("value", mem[convert(a, p)]),
             reply'.value \in Byte,
             MachineTypes' /\ Pointers'
      PROVE  Typed'
  <2>1. reply' \in [kind : Replies, value : Byte]
    BY <1>2 DEF Says, Replies
  <2>2. OtherTypes'
    BY <1>2, <2>1, DoneTyped DEF OtherTypes
  <2> QED BY <1>2, <2>2, DoneTyped DEF Typed
<1>3. CASE Says("readonly", 0) /\ Done /\ UNCHANGED machine
  BY <1>2, <1>3, SameMachine DEF Typed, Says, Byte
<1>4. CASE /\ mem' = [mem EXCEPT ![convert(a, p)] = v]
           /\ Says("stored", v) /\ Done
           /\ UNCHANGED <<freelist, pages, ispagetable, address, inmem, swap>>
  <2>1. MachineTypes' /\ Pointers'
    BY <1>4 DEF Typed, MachineTypes, Pointers
  <2> QED BY <1>2, <1>4, <2>1 DEF Says
<1>5. CASE convert(a, p) \in Cells /\ Says("value", mem[convert(a, p)]) /\ Done /\ UNCHANGED machine
  <2>1. mem[convert(a, p)] \in Byte
    BY <1>5 DEF Typed, MachineTypes
  <2> QED BY <1>2, <1>5, <2>1, SameMachine DEF Typed, Says
<1> QED BY <1>1, <1>3, <1>4, <1>5 DEF Write, Read

\* A command that ends with an outcome and no value.
LEMMA SaysNothingTyped ==
  ASSUME Typed, NEW kind \in Replies, Says(kind, 0), Done, MachineTypes', Pointers'
  PROVE  Typed'
<1>1. reply' \in [kind : Replies, value : Byte]
  BY DEF Says, Byte
<1> QED BY <1>1, DoneTyped DEF Typed, OtherTypes

\* freespace is called, or not.
LEMMA CallTyped ==
  ASSUME Typed, NEW n \in 0 .. 2, NEW p, NEW back \in {Create, LoadTable, Allocate, LoadPage},
         CallFreespace(n, p, back)
  PROVE  EvictorTypes' /\ roundrobin' \in Frames /\ pc' = Evicting /\ Target' = back
<1>1. roundrobin' \in Frames
  BY RobinIsFrame DEF CallFreespace, Typed, OtherTypes
<1>2. Cardinality(FreeFrames) \in 0 .. 4
  <2>1. \A f \in 0 .. 3 : freelist[f] \in {0, 1}
    BY DEF Typed, MachineTypes, Frames, NUMPAGES
  <2> QED BY <2>1, CountFree DEF Typed, MachineTypes
<1>3. [f \in Frames |-> 0] \in [Frames -> {0, 1}]
  OBVIOUS
<1>4. EvictorTypes'
  BY <1>2, <1>3 DEF CallFreespace, EvictorTypes
<1>5. pc' = Evicting /\ Target' = back
  BY DEF CallFreespace, Goto, Target
<1> QED BY <1>1, <1>4, <1>5

\* freespace may be skipped.
LEMMA SpareTyped ==
  ASSUME Typed, NEW spare, NEW p, NEW then \in {LoadTable, Allocate, LoadPage},
         SpareFrame(spare, p, then)
  PROVE  EvictorTypes' /\ roundrobin' \in Frames /\ pc' \in Working /\ Target' = then
<1>1. CASE CallFreespace(1, p, then)
  BY <1>1, CallTyped DEF Working
<1>2. CASE Goto(then) /\ UNCHANGED <<roundrobin, evictor>>
  <2>1. EvictorTypes' /\ roundrobin' \in Frames
    BY <1>2 DEF Typed, EvictorTypes, OtherTypes, evictor
  <2>2. pc' \in Working /\ Target' = then
    BY <1>2 DEF Goto, Target, Working, LoadTable, Allocate, LoadPage, Evicting, Tables
  <2> QED BY <2>1, <2>2
<1> QED BY <1>1, <1>2 DEF SpareFrame

-----------------------------------------------------------------------------
(* The steps keep the types.                                                *)

USE DEF Idle, Evicting, Tables, Create, LoadTable, MapPage, Allocate, SwapIn, LoadPage,
        Answer, Exited, Wild

\* map, until it needs a frame;
LEMMA MapTyped ==
  ASSUME Typed, NEW p \in Processes, NEW a \in Addresses, NEW v \in Protections, Map(p, a, v)
  PROVE  Typed'
<1>1. MachineTypes' /\ Pointers' /\ inmem' = inmem
  BY SameMachine DEF Map, Typed, machine
<1>2. RequestTypes' /\ pid' = p
  BY MemoryAssumption DEF Map, Begin, RequestTypes, Byte
<1>3. /\ EvictorTypes' /\ roundrobin' \in Frames /\ pc' \in Working
      /\ \/ Target' \in {Create, MapPage}
         \/ Target' = LoadTable /\ inmem[p] = TableOnDisk
  <2>1. CASE inmem[p] = NoTable /\ CallFreespace(2, p, Create)
    BY <2>1, CallTyped DEF Working
  <2>2. CASE inmem[p] = TableOnDisk /\ CallFreespace(1, p, LoadTable)
    BY <2>2, CallTyped DEF Working
  <2>3. CASE Goto(MapPage) /\ UNCHANGED <<roundrobin, evictor>>
    BY <2>3 DEF Goto, Typed, EvictorTypes, OtherTypes, evictor, Working, Target
  <2> QED BY <2>1, <2>2, <2>3 DEF Map
<1>4. space' = space /\ space \in 0 .. 4
  BY DEF Map, Ready, Typed, OtherTypes, LoadIsAsked, Target, Stopped
<1>5. OtherTypes'
  BY <1>3, <1>4 DEF Map, Typed, OtherTypes
<1>6. LoadIsAsked'
  BY <1>1, <1>2, <1>3, <1>4 DEF LoadIsAsked, NoTable, TableOnDisk
<1> QED BY <1>1, <1>2, <1>3, <1>5, <1>6 DEF Typed

\* command(), when the table is on disk;
LEMMA CommandTyped ==
  ASSUME Typed, NEW p \in Processes, NEW a \in Addresses, NEW v \in Byte,
         NEW o \in {"store", "load"}, Command(o, p, a, v)
  PROVE  Typed'
<1>1. MachineTypes' /\ Pointers' /\ inmem' = inmem /\ inmem[p] = TableOnDisk
  BY SameMachine DEF Command, Typed, machine
<1>2. RequestTypes' /\ pid' = p
  BY MemoryAssumption DEF Command, Begin, RequestTypes
<1>3. EvictorTypes' /\ roundrobin' \in Frames /\ pc' \in Working /\ Target' = LoadTable
  BY SpareTyped DEF Command
<1>4. space' \in 0 .. 4
  <2>1. \A f \in 0 .. 3 : freelist[f] \in {0, 1}
    BY DEF Typed, MachineTypes, Frames, NUMPAGES
  <2> QED BY <2>1, CountFree DEF Typed, MachineTypes, Command
<1>5. OtherTypes'
  BY <1>3, <1>4 DEF Command, Typed, OtherTypes
<1>6. LoadIsAsked'
  BY <1>1, <1>2, <1>3, <1>4 DEF LoadIsAsked, NoTable, TableOnDisk
<1> QED BY <1>1, <1>2, <1>3, <1>5, <1>6 DEF Typed

\* a command on a page there is none of;
LEMMA SegfaultTyped ==
  ASSUME Typed, Segfault
  PROVE  Typed'
BY SaysNothingTyped, SameMachine DEF Segfault, Typed, Replies

\* store;
LEMMA StoreTyped ==
  ASSUME Typed, NEW p \in Processes, NEW a \in Addresses, NEW v \in Values, Store(p, a, v)
  PROVE  Typed'
<1>1. p \in 0 .. 3 /\ v \in Byte
  BY MemoryAssumption DEF Byte
<1> QED BY <1>1, CommandTyped, SegfaultTyped, AnswerTyped DEF Store

\* load.
LEMMA LoadTyped ==
  ASSUME Typed, NEW p \in Processes, NEW a \in Addresses, Load(p, a)
  PROVE  Typed'
<1>1. p \in 0 .. 3 /\ 0 \in Byte
  BY MemoryAssumption DEF Byte
<1>3. CASE /\ Resident(p)
           /\ Begin("load", p, a, 0)
           /\ SpareFrame(Cardinality(FreeFrames), p, LoadPage)
           /\ UNCHANGED <<machine, space, reply>>
  <2>1. MachineTypes' /\ Pointers' /\ inmem' = inmem
    BY <1>3, SameMachine DEF Typed, machine
  <2>2. RequestTypes' /\ pid' = p
    BY <1>1, <1>3, MemoryAssumption DEF Begin, RequestTypes
  <2>3. EvictorTypes' /\ roundrobin' \in Frames /\ pc' \in Working /\ Target' = LoadPage
    BY <1>3, SpareTyped
  <2>4. OtherTypes'
    BY <1>3, <2>3 DEF Typed, OtherTypes
  <2>5. LoadIsAsked'
    BY <1>3, <2>1, <2>2, <2>3 DEF LoadIsAsked, Resident, NoTable, TableInMem
  <2> QED BY <2>1, <2>2, <2>3, <2>4, <2>5 DEF Typed
<1> QED BY <1>1, <1>3, CommandTyped, SegfaultTyped, AnswerTyped DEF Load

\* freespace.
LEMMA EvictPageTyped ==
  ASSUME Typed, EvictPage
  PROVE  Typed'
<1> DEFINE j == Passed(roundrobin)
           victim == (roundrobin + j) % NUMPAGES
<1>1.  \/ GoWild
       \/ /\ RemovePage(victim)
          /\ removed' = [removed EXCEPT ![victim] = 1]
          /\ found' = found + 1
          /\ roundrobin' = robin(victim)
          /\ Goto(IF j + 1 = 4 THEN Tables ELSE Evicting)
          /\ UNCHANGED <<request, need, ret, space, reply>>
       \/ /\ roundrobin' = robin(victim)
          /\ Goto(IF j + 1 = 4 THEN Tables ELSE Evicting)
          /\ UNCHANGED <<machine, request, evictor, space, reply>>
  BY DEF EvictPage
<1>2. victim \in Frames /\ robin(victim) \in Frames
  BY PassedRange, RobinIsFrame DEF Typed, OtherTypes
<1> HIDE DEF j, victim
<1>3. CASE GoWild
  BY <1>3, WildTyped
<1>4. CASE ~GoWild
  <2>1. pc = Evicting /\ found < need
    BY DEF EvictPage
  <2>2. roundrobin' = robin(victim) /\ pc' \in {Evicting, Tables} /\ ret' = ret
    BY <1>1, <1>4 DEF Goto, evictor
  <2>3. UNCHANGED <<request, space, reply>> /\ (inmem' = inmem)
    BY <1>1, <1>4 DEF RemovePage, machine
  <2>4. MachineTypes' /\ Pointers'
    BY <1>1, <1>2, <1>4, RemovePageTyped, SameMachine DEF Typed
  <2>5. EvictorTypes'
    BY <1>1, <1>2, <1>4, <2>1 DEF Typed, EvictorTypes, evictor
  <2>6. RequestTypes' /\ OtherTypes' /\ LoadIsAsked'
    BY <1>2, <2>1, <2>2, <2>3 DEF Typed, RequestTypes, OtherTypes, request, Working,
       LoadIsAsked, Target
  <2> QED BY <2>4, <2>5, <2>6 DEF Typed
<1> QED BY <1>3, <1>4

\* The second loop.
LEMMA EvictTableTyped ==
  ASSUME Typed, EvictTable
  PROVE  Typed'
<1>1. PICK victim \in {IF OwnTable(roundrobin) THEN robin(roundrobin) ELSE roundrobin} :
       \/ GoWild
       \/ /\ TableRemovable(victim)
          /\ RemoveTable(pages[victim])
          /\ found' = found + 1
          /\ roundrobin' = robin(victim)
          /\ UNCHANGED <<request, need, removed, ret, pc, space, reply>>
       \/ /\ RemovePage(victim)
          /\ found' = found + 1
          /\ roundrobin' = victim
          /\ UNCHANGED <<request, need, removed, ret, pc, space, reply>>
       \/ /\ roundrobin' = robin(victim)
          /\ UNCHANGED <<machine, request, evictor, pc, space, reply>>
  BY DEF EvictTable
<1>2. victim \in Frames /\ robin(victim) \in Frames
  BY RobinIsFrame DEF Typed, OtherTypes
<1>3. CASE GoWild
  BY <1>3, WildTyped
<1>4. CASE ~GoWild
  <2>1. pc = Tables /\ found < need
    BY DEF EvictTable
  <2>2. roundrobin' \in Frames /\ UNCHANGED <<request, pc, ret, space, reply>>
    BY <1>1, <1>2, <1>4 DEF evictor
  <2>3. TableRemovable(victim) => pages[victim] \in 0 .. 3
    BY <1>2 DEF TableRemovable, Typed, MachineTypes
  <2>4. MachineTypes' /\ Pointers'
    BY <1>1, <1>2, <1>4, <2>3, RemovePageTyped, RemoveTableTyped, SameMachine DEF Typed
  <2>5. EvictorTypes'
    BY <1>1, <1>2, <1>4, <2>1 DEF Typed, EvictorTypes, evictor
  <2>6. \A p \in 0 .. 3 : inmem[p] # NoTable => inmem'[p] # NoTable
    BY <1>1, <1>4, <2>3
       DEF RemovePage, RemoveTable, machine, Typed, MachineTypes, NoTable, TableOnDisk
  <2>7. RequestTypes' /\ OtherTypes' /\ LoadIsAsked'
    BY <2>1, <2>2, <2>6 DEF Typed, RequestTypes, OtherTypes, request, LoadIsAsked, Target
  <2> QED BY <2>4, <2>5, <2>7 DEF Typed
<1> QED BY <1>3, <1>4

\* freespace returns to its caller.
LEMMA ReturnsTyped ==
  ASSUME Typed, FreespaceReturns
  PROVE  Typed'
<1>1. MachineTypes' /\ Pointers' /\ inmem' = inmem
  BY SameMachine DEF FreespaceReturns, Typed, machine
<1>2. EvictorTypes'
  BY DEF FreespaceReturns, EvictorTypes
<1>3. pc' = ret /\ Target' = ret /\ Target = ret
  BY DEF FreespaceReturns, Goto, Target, Typed, EvictorTypes
<1>4. RequestTypes' /\ OtherTypes' /\ LoadIsAsked'
  BY <1>1, <1>3 DEF FreespaceReturns, Typed, RequestTypes, OtherTypes, EvictorTypes,
     request, LoadIsAsked, Working
<1> QED BY <1>1, <1>2, <1>4 DEF Typed

\* A step after freespace that moves to a place of its own.
LEMMA TakesTyped ==
  ASSUME Typed, NEW f \in Frames, NEW isTable \in BOOLEAN, Take(f, isTable),
         mem' \in [Cells -> Byte], swap' = swap,
         PointTo(f) \/ UNCHANGED <<address, inmem>>,
         UNCHANGED <<roundrobin, request, evictor, space, reply>>,
         \/ pc = Create /\ pc' = MapPage
         \/ pc = LoadTable /\ pc' \in {MapPage, SwapIn}
         \/ pc = LoadPage /\ pc' = Answer
  PROVE  Typed'
<1>1. MachineTypes' /\ Pointers'
  BY TakeTyped DEF Typed, RequestTypes
<1>2. pid \in 0 .. 3 /\ (inmem[pid] # NoTable => inmem'[pid] # NoTable)
  BY DEF PointTo, Typed, RequestTypes, MachineTypes, NoTable, TableInMem
<1>3. RequestTypes' /\ EvictorTypes' /\ OtherTypes'
  BY DEF Typed, RequestTypes, EvictorTypes, OtherTypes, request, evictor, Working
<1>4. LoadIsAsked'
  BY <1>2 DEF Typed, OtherTypes, LoadIsAsked, Target, request, evictor, Stopped
<1> QED BY <1>1, <1>3, <1>4 DEF Typed

\* pageFromFile does not find its line.
LEMMA MissingTyped ==
  ASSUME Typed, NEW line, MissingLine(line)
  PROVE  Typed'
BY WildTyped DEF MissingLine

\* map makes the page table;
LEMMA CreateTableTyped ==
  ASSUME Typed, CreateTable
  PROVE  Typed'
<1>1. CASE NoFrame
  BY <1>1, WildTyped DEF NoFrame
<1>2. ASSUME NEW f \in Frames, Take(f, TRUE), PointTo(f), Goto(MapPage),
             mem' = [i \in Cells |->
                       IF InPage(i, f * PAGEMEM) /\ i % PTE = VPN
                         THEN (i - f * PAGEMEM) \div PTE
                       ELSE IF InPage(i, f * PAGEMEM) /\ i % PTE = VALPRES
                         THEN Unallocated ELSE mem[i]],
             UNCHANGED <<swap, roundrobin, request, evictor, space, reply>>
      PROVE  Typed'
  <2>1. 0 .. 3 \subseteq Byte /\ Unallocated \in Byte
    BY DEF Byte, Unallocated
  <2>2. mem' \in [Cells -> Byte]
    BY <1>2, <2>1, OffsetsOfCells DEF Typed, MachineTypes
  <2>3. pc' = MapPage
    BY <1>2 DEF Goto
  <2> QED BY <1>2, <2>2, <2>3, TakesTyped DEF CreateTable
<1> QED BY <1>1, <1>2 DEF CreateTable

\* loadPageTable brings it back;
LEMMA LoadPageTableTyped ==
  ASSUME Typed, LoadPageTable
  PROVE  Typed'
<1>1. CASE NoFrame
  BY <1>1, WildTyped DEF NoFrame
<1>2. CASE MissingLine(address[pid])
  BY <1>2, MissingTyped
<1>3. ASSUME NEW f \in Frames, address[pid] < linecount, Take(f, TRUE), PointTo(f),
             mem' = Filled(f, PageFromFile(address[pid])),
             Goto(IF op = "map" THEN MapPage ELSE SwapIn),
             UNCHANGED <<swap, roundrobin, request, evictor, space, reply>>
      PROVE  Typed'
  <2>1. address[pid] \in Nat /\ linecount \in Nat
    BY DEF Typed, MachineTypes, RequestTypes, linecount
  <2>2. address[pid] + 1 \in 1 .. Len(swap)
    BY <1>3, <2>1 DEF linecount
  <2>3. swap[address[pid] + 1] \in [Offsets -> Byte]
    BY <2>2 DEF Typed, MachineTypes
  <2>4. mem' \in [Cells -> Byte]
    BY <1>3, <2>3, FileTyped, FilledTyped DEF Typed
  <2>5. pc' \in {MapPage, SwapIn}
    BY <1>3 DEF Goto
  <2> QED BY <1>3, <2>4, <2>5, TakesTyped DEF LoadPageTable
<1> QED BY <1>1, <1>2, <1>3 DEF LoadPageTable

\* map comes to the page
LEMMA MapThePageTyped ==
  ASSUME Typed, MapThePage
  PROVE  Typed'
<1>1. CASE /\ mem' = [mem EXCEPT ![findpte(pid, vaddr) + PROTECTION] = val]
           /\ Says("altered", 0) /\ Done
           /\ UNCHANGED <<freelist, pages, ispagetable, address, inmem, swap>>
  <2>1. MachineTypes' /\ Pointers'
    BY <1>1 DEF Typed, MachineTypes, RequestTypes, Pointers
  <2> QED BY <1>1, <2>1, SaysNothingTyped DEF Replies
<1>2. CASE /\ SpareFrame(Cardinality(FreeFrames), pid, Allocate)
           /\ UNCHANGED <<machine, request, space, reply>>
  <2>1. EvictorTypes' /\ roundrobin' \in Frames /\ pc' \in Working /\ Target' = Allocate
    BY <1>2, SpareTyped
  <2>2. MachineTypes' /\ Pointers'
    BY <1>2, SameMachine DEF Typed
  <2>3. space \in 0 .. 4
    BY DEF MapThePage, Typed, OtherTypes, LoadIsAsked, Target, Stopped
  <2>4. RequestTypes' /\ OtherTypes' /\ LoadIsAsked'
    BY <1>2, <2>1, <2>3 DEF Typed, RequestTypes, OtherTypes, request, LoadIsAsked
  <2> QED BY <2>1, <2>2, <2>4 DEF Typed
<1> QED BY <1>1, <1>2 DEF MapThePage

\* and gives it a frame;
LEMMA AllocatePageTyped ==
  ASSUME Typed, AllocatePage
  PROVE  Typed'
<1>1. CASE NoFrame
  BY <1>1, WildTyped DEF NoFrame
<1>2. ASSUME NEW f \in Frames, Take(f, FALSE),
             mem' = [mem EXCEPT ![findpte(pid, vaddr) + PFN] = f * PAGEMEM,
                                ![findpte(pid, vaddr) + PROTECTION] = val,
                                ![findpte(pid, vaddr) + VALPRES] = Present],
             Says("mapped", 0), Done, UNCHANGED <<address, inmem, swap>>
      PROVE  Typed'
  <2>1. f * PAGEMEM \in Byte /\ val \in Byte /\ Present \in Byte
    BY FrameNumberIsByte DEF Typed, RequestTypes, Present, Byte
  <2>2. mem' \in [Cells -> Byte]
    BY <1>2, <2>1 DEF Typed, MachineTypes
  <2>3. MachineTypes' /\ Pointers'
    BY <1>2, <2>2, TakeTyped DEF Typed, RequestTypes
  <2> QED BY <1>2, <2>3, SaysNothingTyped DEF Replies
<1> QED BY <1>1, <1>2 DEF AllocatePage

\* command() comes to the page.
LEMMA SwapPageInTyped ==
  ASSUME Typed, SwapPageIn
  PROVE  Typed'
<1>1. MachineTypes' /\ Pointers' /\ inmem' = inmem
  BY SameMachine DEF SwapPageIn, Typed, machine
<1>2. pc = SwapIn /\ Target = SwapIn /\ space \in 0 .. 4 /\ UNCHANGED <<request, reply>>
  BY DEF SwapPageIn, Typed, OtherTypes, LoadIsAsked, Target, Stopped
<1>3. CASE space' = space - 1 /\ SpareFrame(space', pid, LoadPage)
  <2>1. EvictorTypes' /\ roundrobin' \in Frames /\ pc' \in Working /\ Target' = LoadPage
    BY <1>3, SpareTyped
  <2>2. RequestTypes' /\ OtherTypes' /\ LoadIsAsked'
    BY <1>1, <1>2, <1>3, <2>1 DEF Typed, RequestTypes, OtherTypes, request, LoadIsAsked
  <2> QED BY <1>1, <2>1, <2>2 DEF Typed
<1>4. CASE Goto(Answer) /\ UNCHANGED <<roundrobin, evictor, space>>
  <2>1. RequestTypes' /\ EvictorTypes' /\ OtherTypes' /\ LoadIsAsked'
    BY <1>2, <1>4 DEF Typed, RequestTypes, EvictorTypes, OtherTypes, request, evictor, Goto,
       Working, LoadIsAsked, Target
  <2> QED BY <1>1, <2>1 DEF Typed
<1> QED BY <1>3, <1>4 DEF SwapPageIn

\* What findpte says of a table in memory and of one on disk.
LEMMA EntryAddress ==
  ASSUME NEW p, NEW a
  PROVE  /\ inmem[p] = TableInMem => findpte(p, a) = address[p] + PTE * vpage(a)
         /\ inmem[p] = TableOnDisk => findpte(p, a) = -1
BY DEF findpte, TableInMem, TableOnDisk, NoTable

\* A line number below the count is a line of the file.
LEMMA LineThere ==
  ASSUME NEW n \in Nat, NEW line \in Byte, line < n
  PROVE  line + 1 \in 1 .. n
BY DEF Byte

\* loadPage brings the page back,
LEMMA LoadThePageTyped ==
  ASSUME Typed, LoadThePage
  PROVE  Typed'
<1>1. CASE NoFrame
  BY <1>1, WildTyped DEF NoFrame
<1>2. CASE MissingLine(pfn(pid, vaddr))
  BY <1>2, MissingTyped
<1>3. ASSUME NEW f \in Frames, pfn(pid, vaddr) < linecount, Take(f, FALSE),
             mem' = [Filled(f, PageFromFile(pfn(pid, vaddr))) EXCEPT
                       ![findpte(pid, vaddr) + PFN] = f * PAGEMEM,
                       ![findpte(pid, vaddr) + VALPRES] = Present],
             Goto(Answer),
             UNCHANGED <<address, inmem, swap, roundrobin, request, evictor, space, reply>>
      PROVE  Typed'
  <2>1. pc = LoadPage /\ inmem[pid] \in {TableInMem, TableOnDisk}
    BY DEF LoadThePage, Typed, LoadIsAsked, Target, RequestTypes, MachineTypes
  <2>2. findpte(pid, vaddr) + PFN \in Cells
    <3>1. CASE inmem[pid] = TableOnDisk
      <4>1. findpte(pid, vaddr) = -1
        BY <3>1, EntryAddress
      <4> QED BY <4>1 DEF PFN, Cells, MAXMEM
    <3>2. CASE inmem[pid] = TableInMem
      <4>1. PICK t \in Frames : address[pid] = t * PAGEMEM
        BY <3>2 DEF Typed, Pointers, RequestTypes
      <4>2. vpage(vaddr) \in 0 .. 3
        BY VpageIsEntry DEF Typed, RequestTypes
      <4>3. findpte(pid, vaddr) = t * PAGEMEM + PTE * vpage(vaddr)
        BY <3>2, <4>1, EntryAddress
      <4>4. PTE * vpage(vaddr) + PFN \in Offsets
        BY <4>2 DEF PTE, PFN, Offsets, PAGEMEM
      <4>5. t * PAGEMEM + (PTE * vpage(vaddr) + PFN) \in Cells
        BY <4>4, CellsOfFrames
      <4>6. findpte(pid, vaddr) + PFN = t * PAGEMEM + (PTE * vpage(vaddr) + PFN)
        BY <4>2, <4>3 DEF PTE, PFN, Frames, PAGEMEM, NUMPAGES
      <4> QED BY <4>5, <4>6
    <3> QED BY <2>1, <3>1, <3>2
  <2>3. pfn(pid, vaddr) \in Byte
    BY <2>2 DEF pfn, Typed, MachineTypes
  <2>4. pfn(pid, vaddr) + 1 \in 1 .. Len(swap)
    <3>1. linecount \in Nat /\ linecount = Len(swap)
      BY DEF Typed, MachineTypes, linecount
    <3>2. pfn(pid, vaddr) < linecount
      BY <1>3
    <3> QED BY <2>3, <3>1, <3>2, LineThere
  <2>5. swap[pfn(pid, vaddr) + 1] \in [Offsets -> Byte]
    BY <2>4 DEF Typed, MachineTypes
  <2>6. Filled(f, PageFromFile(pfn(pid, vaddr))) \in [Cells -> Byte]
    BY <2>5, FileTyped, FilledTyped DEF Typed
  <2>7. f * PAGEMEM \in Byte /\ Present \in Byte
    BY FrameNumberIsByte DEF Present, Byte
  <2>8. mem' \in [Cells -> Byte]
    BY <1>3, <2>6, <2>7
  <2> QED BY <1>3, <2>1, <2>8, TakesTyped DEF Goto
<1> QED BY <1>1, <1>2, <1>3 DEF LoadThePage

\* and the command ends.
LEMMA ConcludeTyped ==
  ASSUME Typed, Conclude
  PROVE  Typed'
<1>1. CASE Says("none", 0) /\ Done /\ UNCHANGED machine
  BY <1>1, SaysNothingTyped, SameMachine DEF Typed, Replies
<1> QED BY <1>1, AnswerTyped DEF Conclude, Typed, RequestTypes

\* Every step keeps the types.
LEMMA StepTyped == Typed /\ [Next]_vars => Typed'
<1>1. ASSUME Typed, EndOfFile
      PROVE  Typed'
  <2>1. MachineTypes' /\ Pointers'
    BY <1>1, SameMachine DEF Typed, EndOfFile
  <2>2. RequestTypes' /\ EvictorTypes' /\ OtherTypes' /\ LoadIsAsked'
    BY <1>1 DEF EndOfFile, Goto, Typed, RequestTypes, EvictorTypes, OtherTypes, request, evictor,
       Stopped, LoadIsAsked, Target
  <2> QED BY <2>1, <2>2 DEF Typed
<1>2. ASSUME Typed, UNCHANGED vars
      PROVE  Typed'
  <2>1. MachineTypes' /\ Pointers'
    BY <1>2, SameMachine DEF Typed, vars
  <2>2. RequestTypes' /\ EvictorTypes' /\ OtherTypes' /\ LoadIsAsked'
    BY <1>2 DEF vars, machine, Typed, RequestTypes, EvictorTypes, OtherTypes, request, evictor,
       LoadIsAsked, Target
  <2> QED BY <2>1, <2>2 DEF Typed
<1> QED
  BY <1>1, <1>2, MapTyped, StoreTyped, LoadTyped, EvictPageTyped, EvictTableTyped, ReturnsTyped,
     CreateTableTyped, LoadPageTableTyped, MapThePageTyped, AllocatePageTyped, SwapPageInTyped,
     LoadThePageTyped, ConcludeTyped
     DEF Next, UserCommand, Work, AtRest

\* The values of the variables, whatever the user does and however the program
\* confuses tables and pages: no byte, frame number, line or count ever leaves its
\* range. (memory.c, lines 38 to 60)
THEOREM TypeCorrect == Spec => []TypeOK
<1>1. Typed => TypeOK
  BY DEF Typed, MachineTypes, RequestTypes, EvictorTypes, OtherTypes, TypeOK
<1> QED BY <1>1, InitTyped, StepTyped, PTL DEF Spec
=============================================================================
