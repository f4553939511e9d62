------------------------------- MODULE Memory -------------------------------
(***************************************************************************)
(* The memory simulator of project4/memory.c: 64 bytes of physical memory  *)
(* in 4 frames, one page table per process kept in a frame of its own,     *)
(* round-robin eviction of pages and page tables to the lines of an        *)
(* append-only swap file.                                                  *)
(*                                                                         *)
(* The program is sequential.  A command of the user is taken apart at the *)
(* calls of freespace, loadPageTable and loadPage, so that a step moves at *)
(* most one frame; pc says what is left of the command.  vpn and pfn       *)
(* bytes, protection and valid bytes are where the program keeps them, in  *)
(* mem, because the program loses track of which frames are tables.        *)
(*                                                                         *)
(* Where the C program leaves its arrays, reads a buffer it never filled   *)
(* or looks for a swap line the file does not have, the model stops in a   *)
(* state of its own (pc = Wild) and says nothing of what follows.  There   *)
(* is one exception: every line read from the file writes a seventeenth    *)
(* byte, a zero, just behind the 16 of temp (151).  Built as the makefile  *)
(* builds it (gcc, x86-64), that byte is padding between temp and the      *)
(* other locals; the model drops it there, and speaks of no other layout.  *)
(***************************************************************************)
EXTENDS Integers, FiniteSets, Sequences

CONSTANTS
  Processes,   \* the process ids the user names, of 0 .. 3
  Addresses,   \* the virtual addresses the user names, of 0 .. 63
  Protections, \* the protections the user maps with, of 0 .. 255
  Values,      \* the values the user stores, of 0 .. 255
  Careful,     \* does the user map and store only pages that are not on disk, and
               \* load none from a table in memory that it has not mapped?
  MaxLines     \* bound: how many lines the swap file may get; linecount, an int, counts
               \* them without overflow, the byte of an entry does not

ASSUME MemoryAssumption ==
  /\ Processes \subseteq 0 .. 3
  /\ Addresses \subseteq 0 .. 63
  /\ Protections \subseteq 0 .. 255
  /\ Values \subseteq 0 .. 255
  /\ Careful \in BOOLEAN
  /\ MaxLines \in Nat

\* The macros of memory.c.
MAXMEM     == 64
PAGEMEM    == 16
NUMPAGES   == 4
PTE        == 4
VPN        == 0
PFN        == 1
PROTECTION == 2
VALPRES    == 3
WRITEABLE  == 1

Byte    == 0 .. 255
Cells   == 0 .. MAXMEM - 1
Frames  == 0 .. NUMPAGES - 1
Offsets == 0 .. PAGEMEM - 1

\* The last byte of a page table entry, and of struct hp.
Unallocated == 0      \* valpres
OnDisk      == 1
Present     == 2
NoTable     == -1     \* inmem
TableOnDisk == 0
TableInMem  == 1

VARIABLES
  mem,           \* the 64 bytes
  freelist,      \* 1 for a free frame, else 0
  pages,         \* the process that holds a frame, or -1
  ispagetable,   \* 1 for the frame of a page table
  address,       \* hardware[p].address: the table's first byte, or its line
  inmem,         \* hardware[p].inmem
  swap,          \* swapspace.txt: line n of the file is swap[n + 1]
  roundrobin,
  pc,            \* what is left of the command
  ret,           \* where freespace returns to
  op, pid, vaddr, val,         \* the command
  need, found, removed,        \* n, f and removed of freespace
  space,         \* space of command()
  reply          \* the outcome of the last command

machine == <<mem, freelist, pages, ispagetable, address, inmem, swap>>
request == <<op, pid, vaddr, val>>
evictor == <<need, found, removed, ret>>
vars    == <<machine, roundrobin, request, evictor, pc, space, reply>>

linecount == Len(swap)

-----------------------------------------------------------------------------
(* The control points.                                                      *)

Idle      == "idle"        \* main reads a command
Evicting  == "evicting"    \* freespace, the loop over pages
Tables    == "tables"      \* freespace, the loop that also removes tables
Create    == "create"      \* map: make the page table
LoadTable == "loadtable"   \* loadPageTable
MapPage   == "mappage"     \* map: the table is there
Allocate  == "allocate"    \* map: a frame is there
SwapIn    == "swapin"      \* command(): the table is there
LoadPage  == "loadpage"    \* loadPage
Answer    == "answer"      \* the page is where it should be
Exited    == "exited"
Wild      == "wild"        \* an array was left, or a line missing

Working == {Evicting, Tables, Create, LoadTable, MapPage, Allocate, SwapIn, LoadPage, Answer}
Stopped == {Exited, Wild}

Goto(to) == pc' = to

GoWild == Goto(Wild) /\ UNCHANGED <<machine, roundrobin, request, evictor, space, reply>>

\* The outcome of a command; 0 stands for the value where there is none.
Says(kind, value) == reply' = [kind |-> kind, value |-> value]

Replies == {"none", "mapped", "altered", "segfault", "readonly", "stored", "value"}

-----------------------------------------------------------------------------
(* Reading the tables.                                                      *)

vpage(a) == a \div PAGEMEM

\* The address of a's page table entry; -1: the table is on disk; -2: no table.
findpte(p, a) ==
  CASE inmem[p] = TableInMem  -> address[p] + PTE * vpage(a)
    [] inmem[p] = TableOnDisk -> -1
    [] inmem[p] = NoTable     -> -2

Resident(p) == inmem[p] = TableInMem

valpres(p, a)    == mem[findpte(p, a) + VALPRES]
protection(p, a) == mem[findpte(p, a) + PROTECTION]
pfn(p, a)        == mem[findpte(p, a) + PFN]

\* The physical address of a for process p, whose table is in memory, or -1.
convert(a, p) ==
  IF valpres(p, a) = Unallocated THEN -1 ELSE pfn(p, a) + (a % PAGEMEM)

FreeFrames == {f \in Frames : freelist[f] = 1}

\* findfree() returns frame f.
FirstFree(f) == f \in FreeFrames /\ \A g \in FreeFrames : f <= g

Page(base) == [i \in Offsets |-> mem[base + i]]

InPage(i, base) == i \in base .. base + PAGEMEM - 1

\* pageFromFile: what it writes to the caller's temp, the 16 bytes of the page and
\* a last one, the newline of pageToFile read as a number.
PageFromFile(line) ==
  [i \in 0 .. PAGEMEM |-> IF i = PAGEMEM THEN 0 ELSE swap[line + 1][i]]

\* swaptomem: the first 16 bytes of temp go to frame f.
Filled(f, temp) ==
  [i \in Cells |-> IF InPage(i, f * PAGEMEM) THEN temp[i - f * PAGEMEM] ELSE mem[i]]

\* Mutant: the bytes of the frame stay.
Zeroed_Not(f, bytes) == bytes

\* The bytes with frame f zeroed.
Zeroed(f, bytes) == [i \in Cells |-> IF InPage(i, f * PAGEMEM) THEN 0 ELSE bytes[i]]

\* Mutant: the frame is free but still has a holder.
Freed_StillHeld(f) ==
  /\ freelist' = [freelist EXCEPT ![f] = 1]
  /\ UNCHANGED pages

\* Frame f goes back to the free list.
Freed(f) ==
  /\ freelist' = [freelist EXCEPT ![f] = 1]
  /\ pages' = [pages EXCEPT ![f] = -1]

-----------------------------------------------------------------------------
(* main: the start of the program.                                          *)

Init ==
  /\ mem = [i \in Cells |-> 0]
  /\ freelist = [f \in Frames |-> 1]
  /\ pages = [f \in Frames |-> -1]
  /\ ispagetable = [f \in Frames |-> 0]
  /\ address = [p \in 0 .. 3 |-> 0]
  /\ inmem = [p \in 0 .. 3 |-> NoTable]
  /\ swap = <<>>
  /\ roundrobin = 0
  /\ pc = Idle /\ ret = Idle
  /\ op = "none" /\ pid = 0 /\ vaddr = 0 /\ val = 0
  /\ need = 0 /\ found = 0 /\ removed = [f \in Frames |-> 0]
  /\ space = 0
  /\ reply = [kind |-> "none", value |-> 0]

-----------------------------------------------------------------------------
(* freespace(n, pid).                                                       *)

\* Mutant: the hand runs past the last frame.
robin_NoWrap(r) == r + 1

robin(r) == (r + 1) % NUMPAGES

\* The call: it counts the free frames and moves the hand once in any case.
CallFreespace(n, p, back) ==
  /\ need' = n
  /\ found' = Cardinality(FreeFrames)
  /\ removed' = [f \in Frames |-> 0]
  /\ ret' = back
  /\ roundrobin' = robin(roundrobin)
  /\ Goto(Evicting)

\* Mutant: a frame number compared with a byte address.
OwnTable(r) == r * PAGEMEM = address[pid] /\ inmem[pid] = TableInMem

\* Mutant: the hand passes the own table only.
Passed_AnyFrame(r) == IF OwnTable(r) THEN 1 ELSE 0

\* Mutant: the hand passes nothing.
Passed_Nothing(r) == 0

\* One round of the first loop: j is its local count, restarted in every round;
\* the hand passes the own table, then page tables until j reaches 4.
Passed(r) ==
  LET j     == IF OwnTable(r) THEN 1 ELSE 0
      stops == {d \in 0 .. 4 - j : d = 4 - j \/ ispagetable[(r + j + d) % NUMPAGES] # 1}
  IN j + CHOOSE d \in stops : \A e \in stops : d <= e

\* Where removePage looks for frame f: in the bytes of its holder's table, of
\* whatever kind, from the first to the last.
Matches(f) ==
  {i \in Offsets : mem[address[pages[f]] + i] = f * PAGEMEM}

LastMatch(f) == CHOOSE i \in Matches(f) : \A k \in Matches(f) : k <= i

\* Mutant: the page found in the scan is not kept.
BelievedPage_First(f) == 0

\* The virtual page removePage believes frame f to hold: the byte before the match.
BelievedPage(f) ==
  IF Matches(f) = {} THEN 0 ELSE mem[address[pages[f]] + LastMatch(f) - 1]

\* removePage(pages[f], f * PAGEMEM) stays inside its arrays: somebody holds the
\* frame, that process has its table in memory, and the entry is in mem.
RemovalDefined(f) ==
  /\ pages[f] # -1
  /\ Resident(pages[f])
  /\ Matches(f) # {} => address[pages[f]] + LastMatch(f) > 0
  /\ address[pages[f]] + PTE * BelievedPage(f) + VALPRES < MAXMEM

\* removePage(pages[f], f * PAGEMEM): save the frame, note the line in the entry,
\* zero the frame and free it.  ispagetable keeps its value.
RemovePage(f) ==
  /\ swap' = Append(swap, Page(f * PAGEMEM))
  /\ \E pte \in {address[pages[f]] + PTE * BelievedPage(f)} :
       mem' = Zeroed(f, [mem EXCEPT ![pte + PFN] = linecount % 256, ![pte + VALPRES] = OnDisk])
  /\ Freed(f)
  /\ UNCHANGED <<ispagetable, address, inmem>>

\* removePageTable(p): the table of p, wherever it is, goes to disk.
RemoveTable(p) ==
  \E f \in Frames :
    /\ address[p] = f * PAGEMEM
    /\ swap' = Append(swap, Page(address[p]))
    /\ mem' = Zeroed(f, mem)
    /\ Freed(f)
    /\ ispagetable' = [ispagetable EXCEPT ![f] = 0]
    /\ address' = [address EXCEPT ![p] = linecount]
    /\ inmem' = [inmem EXCEPT ![p] = TableOnDisk]

\* The first loop, "removes pages".  After four counts in one round it gives up
\* and leaves the rest to the second loop.
EvictPage ==
  /\ pc = Evicting
  /\ found < need
  /\ \E j \in {Passed(roundrobin)} : \E victim \in {(roundrobin + j) % NUMPAGES} :
       \/ removed[victim] = 0 /\ ~RemovalDefined(victim) /\ GoWild
       \/ /\ removed[victim] = 0 /\ RemovalDefined(victim)
          /\ RemovePage(victim)
          /\ removed' = [removed EXCEPT ![victim] = 1]
          /\ found' = found + 1
          /\ roundrobin' = robin(victim)
          /\ Goto(IF j + 1 = 4 THEN Tables ELSE Evicting)
          /\ UNCHANGED <<request, need, ret, space, reply>>
       \/ /\ removed[victim] = 1
          /\ roundrobin' = robin(victim)
          /\ Goto(IF j + 1 = 4 THEN Tables ELSE Evicting)
          /\ UNCHANGED <<machine, request, evictor, space, reply>>

\* Is removePageTable(pages[f]) called, and does that process have its table in
\* memory?
TableRemovable(f) ==
  ispagetable[f] = 1 /\ pages[f] # -1 /\ Resident(pages[f])

\* The second loop, "removes page tables".  A page it removes is not marked in
\* removed, and the hand stays on its frame.
EvictTable ==
  /\ pc = Tables
  /\ found < need
  /\ \E victim \in {IF OwnTable(roundrobin) THEN robin(roundrobin) ELSE roundrobin} :
       \/ /\ removed[victim] = 0
          /\ IF ispagetable[victim] = 1 THEN ~TableRemovable(victim)
                                        ELSE ~RemovalDefined(victim)
          /\ GoWild
       \/ /\ removed[victim] = 0 /\ TableRemovable(victim)
          /\ RemoveTable(pages[victim])
          /\ found' = found + 1
          /\ roundrobin' = robin(victim)
          /\ UNCHANGED <<request, need, removed, ret, pc, space, reply>>
       \/ /\ removed[victim] = 0 /\ ispagetable[victim] = 0 /\ RemovalDefined(victim)
          /\ RemovePage(victim)
          /\ found' = found + 1
          /\ roundrobin' = victim
          /\ UNCHANGED <<request, need, removed, ret, pc, space, reply>>
       \/ /\ removed[victim] = 1
          /\ roundrobin' = robin(victim)
          /\ UNCHANGED <<machine, request, evictor, pc, space, reply>>

\* Mutant: "f <= n" for "f < n": the loops go on with enough frames.
FreespaceReturns_OffByOne ==
  /\ pc \in {Evicting, Tables}
  /\ found > need
  /\ Goto(ret)
  /\ need' = 0 /\ found' = 0 /\ removed' = [f \in Frames |-> 0] /\ ret' = Idle
  /\ UNCHANGED <<machine, roundrobin, request, space, reply>>

FreespaceReturns ==
  /\ pc \in {Evicting, Tables}
  /\ found >= need
  /\ Goto(ret)
  /\ need' = 0 /\ found' = 0 /\ removed' = [f \in Frames |-> 0] /\ ret' = Idle
  /\ UNCHANGED <<machine, roundrobin, request, space, reply>>

-----------------------------------------------------------------------------
(* Commands: main reads one and calls map, store or load.                   *)

\* The table of p wherever it is, and its bytes for a's page.
Table(p) == IF Resident(p) THEN Page(address[p]) ELSE swap[address[p] + 1]
Entry(p, a, byte) == Table(p)[PTE * vpage(a) + byte]

PageOnDisk(p, a) == inmem[p] # NoTable /\ Entry(p, a, VALPRES) = OnDisk

\* main reads a command, while the swap file has room for the two lines it may
\* write.
Ready == pc = Idle /\ linecount + 2 <= MaxLines

\* The command takes more than one step.
Begin(o, p, a, v) == op' = o /\ pid' = p /\ vaddr' = a /\ val' = v

\* The command is over, and its locals with it.
Done ==
  /\ Goto(Idle)
  /\ Begin("none", 0, 0, 0)
  /\ space' = 0
  /\ UNCHANGED <<roundrobin, evictor>>

\* Mutant: freespace is not called when there is no frame to spare.
SpareFrame_OffByOne(spare, p, then) ==
  IF spare < 0 THEN CallFreespace(1, p, then)
  ELSE Goto(then) /\ UNCHANGED <<roundrobin, evictor>>

\* freespace is called only if there is no frame to spare.
SpareFrame(spare, p, then) ==
  IF spare < 1 THEN CallFreespace(1, p, then)
  ELSE Goto(then) /\ UNCHANGED <<roundrobin, evictor>>

\* map(pid, vaddr, val), as far as the table of the process.
Map(p, a, v) ==
  /\ Ready
  /\ Careful => ~PageOnDisk(p, a)
  /\ Begin("map", p, a, v)
  /\ \/ inmem[p] = NoTable /\ CallFreespace(2, p, Create)
     \/ inmem[p] = TableOnDisk /\ CallFreespace(1, p, LoadTable)
     \/ inmem[p] = TableInMem /\ Goto(MapPage) /\ UNCHANGED <<roundrobin, evictor>>
  /\ UNCHANGED <<machine, space, reply>>

\* command(): the table of the process is on disk.
Command(o, p, a, v) ==
  /\ inmem[p] = TableOnDisk
  /\ Begin(o, p, a, v)
  /\ space' = Cardinality(FreeFrames)
  /\ SpareFrame(space', p, LoadTable)
  /\ UNCHANGED <<machine, reply>>

\* The last part of a store: the byte is written if the page may be.
Write(p, a, v) ==
  \/ /\ protection(p, a) # WRITEABLE
     /\ Says("readonly", 0) /\ Done /\ UNCHANGED machine
  \/ /\ protection(p, a) = WRITEABLE /\ convert(a, p) \in Cells
     /\ mem' = [mem EXCEPT ![convert(a, p)] = v]
     /\ Says("stored", v) /\ Done
     /\ UNCHANGED <<freelist, pages, ispagetable, address, inmem, swap>>
  \/ protection(p, a) = WRITEABLE /\ convert(a, p) \notin Cells /\ GoWild

\* The last part of a load.
Read(p, a) ==
  \/ /\ convert(a, p) \in Cells
     /\ Says("value", mem[convert(a, p)]) /\ Done /\ UNCHANGED machine
  \/ convert(a, p) \notin Cells /\ GoWild

Segfault == Says("segfault", 0) /\ Done /\ UNCHANGED machine

\* store(pid, vaddr, val).  With the table in memory the page is not looked for
\* on disk: any entry but an unallocated one is taken for an address.
Store(p, a, v) ==
  /\ Ready
  /\ Careful => ~(Resident(p) /\ PageOnDisk(p, a))
  /\ \/ Command("store", p, a, v)
     \/ inmem[p] = NoTable /\ Segfault
     \/ Resident(p) /\ convert(a, p) < 0 /\ Segfault
     \/ Resident(p) /\ convert(a, p) >= 0 /\ Write(p, a, v)

\* load(pid, vaddr).  With the table in memory, a page that is not allocated is
\* read all the same, at mem[-1].
Load(p, a) ==
  /\ Ready
  /\ Careful => ~(Resident(p) /\ valpres(p, a) = Unallocated)
  /\ \/ Command("load", p, a, 0)
     \/ inmem[p] = NoTable /\ Segfault
     \/ Resident(p) /\ valpres(p, a) # OnDisk /\ Read(p, a)
     \/ /\ Resident(p) /\ valpres(p, a) = OnDisk
        /\ Begin("load", p, a, 0)
        /\ SpareFrame(Cardinality(FreeFrames), p, LoadPage)
        /\ UNCHANGED <<machine, space, reply>>

-----------------------------------------------------------------------------
(* What is left of a command after freespace.                               *)

\* The frame findfree() takes for the process, as page table or as page.
Take(f, isTable) ==
  /\ FirstFree(f)
  /\ freelist' = [freelist EXCEPT ![f] = 0]
  /\ pages' = [pages EXCEPT ![f] = pid]
  /\ ispagetable' = IF isTable THEN [ispagetable EXCEPT ![f] = 1] ELSE ispagetable

NoFrame == FreeFrames = {} /\ GoWild

\* hardware[pid] now points to frame f.
PointTo(f) ==
  /\ address' = [address EXCEPT ![pid] = f * PAGEMEM]
  /\ inmem' = [inmem EXCEPT ![pid] = TableInMem]

\* map: a new table at the first free frame, every entry unallocated.
CreateTable ==
  /\ pc = Create
  /\ \/ NoFrame
     \/ \E f \in Frames :
          /\ Take(f, TRUE)
          /\ PointTo(f)
          /\ mem' = [i \in Cells |->
                       IF InPage(i, f * PAGEMEM) /\ i % PTE = VPN
                         THEN (i - f * PAGEMEM) \div PTE
                       ELSE IF InPage(i, f * PAGEMEM) /\ i % PTE = VALPRES
                         THEN Unallocated ELSE mem[i]]
          /\ Goto(MapPage)
          /\ UNCHANGED <<swap, roundrobin, request, evictor, space, reply>>

\* pageFromFile of a line the file does not have: of the next line to be written,
\* the search ends at a line without a word, atoi(NULL); of a later one, the
\* caller's buffer stays unfilled.
MissingLine(line) == line >= linecount /\ GoWild

\* loadPageTable(pid).
LoadPageTable ==
  /\ pc = LoadTable
  /\ \/ NoFrame
     \/ FreeFrames # {} /\ MissingLine(address[pid])
     \/ \E f \in Frames :
          /\ address[pid] < linecount
          /\ Take(f, TRUE)
          /\ PointTo(f)
          /\ mem' = Filled(f, PageFromFile(address[pid]))
          /\ Goto(IF op = "map" THEN MapPage ELSE SwapIn)
          /\ UNCHANGED <<swap, roundrobin, request, evictor, space, reply>>

\* map, the page: one that is present only changes its protection.
MapThePage ==
  /\ pc = MapPage
  /\ \/ /\ valpres(pid, vaddr) = Present
        /\ mem' = [mem EXCEPT ![findpte(pid, vaddr) + PROTECTION] = val]
        /\ Says("altered", 0) /\ Done
        /\ UNCHANGED <<freelist, pages, ispagetable, address, inmem, swap>>
     \/ /\ valpres(pid, vaddr) # Present
        /\ SpareFrame(Cardinality(FreeFrames), pid, Allocate)
        /\ UNCHANGED <<machine, request, space, reply>>

\* map: a frame for the page, with whatever it holds.
AllocatePage ==
  /\ pc = Allocate
  /\ \/ NoFrame
     \/ \E f \in Frames :
          /\ Take(f, FALSE)
          /\ mem' = [mem EXCEPT ![findpte(pid, vaddr) + PFN] = f * PAGEMEM,
                                ![findpte(pid, vaddr) + PROTECTION] = val,
                                ![findpte(pid, vaddr) + VALPRES] = Present]
          /\ Says("mapped", 0) /\ Done
          /\ UNCHANGED <<address, inmem, swap>>

\* command(), with the table in memory: is the page on disk too?  The count of
\* free frames is the one taken before the table was loaded.
SwapPageIn ==
  /\ pc = SwapIn
  /\ \/ /\ valpres(pid, vaddr) = OnDisk
        /\ space' = space - 1
        /\ SpareFrame(space', pid, LoadPage)
     \/ /\ valpres(pid, vaddr) # OnDisk
        /\ Goto(Answer)
        /\ UNCHANGED <<roundrobin, evictor, space>>
  /\ UNCHANGED <<machine, request, reply>>

\* Mutant: the entry keeps the line of the swap file.
LoadThePage_OldFrame ==
  /\ pc = LoadPage
  /\ \E f \in Frames :
       /\ pfn(pid, vaddr) < linecount
       /\ Take(f, FALSE)
       /\ mem' = [Filled(f, PageFromFile(pfn(pid, vaddr))) EXCEPT
                    ![findpte(pid, vaddr) + VALPRES] = Present]
       /\ Goto(Answer)
       /\ UNCHANGED <<address, inmem, swap, roundrobin, request, evictor, space, reply>>

\* loadPage(pid, vaddr).
LoadThePage ==
  /\ pc = LoadPage
  /\ \/ NoFrame
     \/ FreeFrames # {} /\ MissingLine(pfn(pid, vaddr))
     \/ \E f \in Frames :
          /\ pfn(pid, vaddr) < linecount
          /\ Take(f, FALSE)
          /\ mem' = [Filled(f, PageFromFile(pfn(pid, vaddr))) EXCEPT
                       ![findpte(pid, vaddr) + PFN] = f * PAGEMEM,
                       ![findpte(pid, vaddr) + VALPRES] = Present]
          /\ Goto(Answer)
          /\ UNCHANGED <<address, inmem, swap, roundrobin, request, evictor, space, reply>>

\* The end of command() and of a load from disk.  A value at physical address 0
\* is not printed.
Conclude ==
  /\ pc = Answer
  /\ \/ op = "store" /\ Write(pid, vaddr, val)
     \/ op = "load" /\ convert(vaddr, pid) > 0 /\ Read(pid, vaddr)
     \/ /\ op = "load" /\ convert(vaddr, pid) <= 0
        /\ Says("none", 0) /\ Done /\ UNCHANGED machine

-----------------------------------------------------------------------------

\* The user ends the input.
EndOfFile ==
  /\ pc = Idle
  /\ Goto(Exited)
  /\ UNCHANGED <<machine, roundrobin, request, evictor, space, reply>>

UserCommand ==
  \E p \in Processes, a \in Addresses :
    \/ \E v \in Protections : Map(p, a, v)
    \/ \E v \in Values : Store(p, a, v)
    \/ Load(p, a)

Work ==
  \/ EvictPage \/ EvictTable \/ FreespaceReturns
  \/ CreateTable \/ LoadPageTable \/ MapThePage \/ AllocatePage
  \/ SwapPageIn \/ LoadThePage \/ Conclude

AtRest == pc \in Stopped /\ UNCHANGED vars

Next == UserCommand \/ Work \/ EndOfFile \/ AtRest

\* The program runs: nothing but its own steps ends a command.
Spec == Init /\ [][Next]_vars /\ WF_vars(Work)

-----------------------------------------------------------------------------
(* Properties.                                                              *)

TypeOK ==
  /\ mem \in [Cells -> Byte]
  /\ freelist \in [Frames -> {0, 1}]
  /\ pages \in [Frames -> -1 .. 3]
  /\ ispagetable \in [Frames -> {0, 1}]
  /\ address \in [0 .. 3 -> Nat]
  /\ inmem \in [0 .. 3 -> {NoTable, TableOnDisk, TableInMem}]
  /\ swap \in Seq([Offsets -> Byte])
  /\ roundrobin \in Frames
  /\ pc \in {Idle} \cup Working \cup Stopped
  /\ ret \in {Idle, Create, LoadTable, Allocate, LoadPage}
  /\ op \in {"none", "map", "store", "load"}
  /\ pid \in 0 .. 3
  /\ vaddr \in 0 .. 63
  /\ val \in Byte
  /\ need \in 0 .. 2
  /\ found \in 0 .. 4
  /\ removed \in [Frames -> {0, 1}]
  /\ space \in -1 .. 4
  /\ reply \in [kind : Replies, value : Byte]

\* freelist and pages, updated by five functions, tell the same story.
FrameBooks == \A f \in Frames : freelist[f] = 1 <=> pages[f] = -1

\* A frame on the free list holds zeros only: map hands it out as it is.
FreeFramesBlank == \A f \in FreeFrames, i \in Offsets : mem[f * PAGEMEM + i] = 0

\* The frame the hardware register of p points to is p's, is marked a page table
\* and still has the four page numbers at the start of its entries; no other
\* frame is marked.
TablesInTheirFrames ==
  /\ \A p \in 0 .. 3 : Resident(p) =>
       /\ address[p] \in {f * PAGEMEM : f \in Frames}
       /\ pages[address[p] \div PAGEMEM] = p
       /\ ispagetable[address[p] \div PAGEMEM] = 1
       /\ \A n \in 0 .. 3 : mem[address[p] + PTE * n + VPN] = n
  /\ \A f \in Frames : ispagetable[f] = 1 =>
       pages[f] # -1 /\ Resident(pages[f]) /\ address[pages[f]] = f * PAGEMEM

\* The frames and the swap lines the entries of p name.
FramesOf(p) ==
  {Table(p)[PTE * n + PFN] : n \in {k \in 0 .. 3 : Table(p)[PTE * k + VALPRES] = Present}}

\* Every frame in use is either a table or the one home of one page: the entries
\* of the process that holds it name it exactly once.  True up to 16 swap lines.
FramesHaveOneHome ==
  pc \in {Idle} \cup Working =>
    \A f \in Frames : pages[f] # -1 /\ ispagetable[f] = 0 =>
      LET p == pages[f]
      IN Cardinality({n \in 0 .. 3 : /\ Table(p)[PTE * n + VALPRES] = Present
                                     /\ Table(p)[PTE * n + PFN] = f * PAGEMEM}) = 1

\* "if valid and present = 2, if valid but in disk = 1" (50): an entry that says
\* present names a frame that its own process holds for a page.  True up to 16
\* swap lines; the number of the next line looks like frame 1 to removePage.
EntriesPointHome ==
  \A p \in 0 .. 3 : inmem[p] # NoTable =>
    \A x \in FramesOf(p) :
      /\ x \in {f * PAGEMEM : f \in Frames}
      /\ pages[x \div PAGEMEM] = p /\ ispagetable[x \div PAGEMEM] = 0

\* Nothing undefined but the byte behind temp: the program stays in its arrays, reads
\* no buffer it did not fill and finds the lines it looks for.  True of a careful
\* user up to 16 swap lines.
NeverWild == pc # Wild

\* No loop of a command runs forever, whatever the user does: the loops of
\* freespace, one left by a count and the other by nothing, find the frames they
\* look for, and the command comes back to the prompt unless it leaves its arrays.
CommandsEnd == pc \in Working ~> pc \in {Idle, Wild}

\* "generates n number of free frames, doesn't evict the process pid" (256): the
\* table of the process freespace works for, in a frame of its own, stays there.
\* True as long as three processes have one.
OwnTableStays ==
  [][Resident(pid) /\ pages[address[pid] \div PAGEMEM] = pid /\ pc \in {Evicting, Tables}
       => Resident(pid)' /\ pages'[address[pid] \div PAGEMEM] = pid]_vars

\* "above loop removes pages, this below loop removes page tables" (301): the first
\* loop leaves every table where it is.  True as long as three processes have one.
FirstLoopTakesPages ==
  [][pc = Evicting => \A f \in Frames :
       freelist[f] = 0 /\ ispagetable[f] = 1 => freelist'[f] = 0]_vars

\* What a store reports is in the page of that address.
StoresArrive ==
  [][\A p \in Processes, a \in Addresses, v \in Values :
       Store(p, a, v) /\ reply'.kind = "stored" /\ Resident(p)
         => valpres(p, a) = Present]_vars
=============================================================================
