---------------------------- MODULE PagingProofs ----------------------------
(***************************************************************************)
(* The memory simulator with a careful user: at most three processes, no   *)
(* protection that looks like the address of a frame, no page mapped or    *)
(* stored to while it is on disk or loaded before it is mapped, and at     *)
(* most 16 swap lines.  For any addresses and values it then keeps its     *)
(* tables, its pages and its free frames apart, and leaves its arrays only *)
(* by the one byte pageFromFile writes behind temp.                        *)
(***************************************************************************)
EXTENDS MemoryProofs

\* What the user takes care of.  Each part is needed: with four processes a
\* process can lose its table while freespace works for it, and 16, 32 or 48 in
\* a table is taken for a frame, as a protection or as the number of a line.
CarefulUser ==
  /\ Careful
  /\ Processes # 0 .. 3
  /\ Protections \cap {16, 32, 48} = {}
  /\ MaxLines <= 16

PTEs == 0 .. 3

\* The bytes of entry n of the table of p, which is in memory.
At(p, n, b) == address[p] + PTE * n + b
Byte4(p, n, b) == mem[At(p, n, b)]

Unused(f) == freelist[f] = 1
IsTable(f) == ispagetable[f] = 1
IsPage(f) == freelist[f] = 0 /\ ispagetable[f] = 0

\* Entry n of p says that frame f holds its page.
Home(p, n, f) ==
  Byte4(p, n, VALPRES) = Present /\ Byte4(p, n, PFN) = f * PAGEMEM

\* Nobody's table is ever on disk.
Registers ==
  \A p \in 0 .. 3 : inmem[p] # NoTable =>
    /\ inmem[p] = TableInMem /\ p \in Processes
    /\ \E t \in Frames : address[p] = t * PAGEMEM /\ pages[t] = p /\ IsTable(t)
    /\ \A n \in PTEs : Byte4(p, n, VPN) = n

TableFrames ==
  \A t \in Frames : IsTable(t) =>
    pages[t] # -1 /\ inmem[pages[t]] = TableInMem /\ address[pages[t]] = t * PAGEMEM

\* No byte of an entry but the PFN of a page in memory looks like a frame.
Entries ==
  \A p \in 0 .. 3, n \in PTEs : inmem[p] = TableInMem =>
    /\ Byte4(p, n, VALPRES) \in {Unallocated, OnDisk, Present}
    /\ Byte4(p, n, PROTECTION) \notin {16, 32, 48}
    /\ Byte4(p, n, VALPRES) # Present => Byte4(p, n, PFN) < 16
    /\ Byte4(p, n, VALPRES) = OnDisk => Byte4(p, n, PFN) < linecount
    /\ Byte4(p, n, VALPRES) = Present =>
         \E f \in Frames : Home(p, n, f) /\ pages[f] = p /\ ~IsTable(f)

Pages ==
  \A f \in Frames : IsPage(f) =>
    /\ inmem[pages[f]] = TableInMem
    /\ \E n \in PTEs : Home(pages[f], n, f) /\ \A m \in PTEs : Home(pages[f], m, f) => m = n

\* The first frame holds no page.
FirstFrame == IsTable(0) \/ \A f \in Frames : Unused(f)

Layout ==
  /\ Registers /\ TableFrames /\ Entries /\ Pages
  /\ FreeFramesBlank /\ FirstFrame /\ FrameBooks

\* While the frames are given out for the first time nothing has been on disk,
\* and the hand has moved once; S are the frames that are left.
Filling(S) ==
  /\ FreeFrames = S /\ roundrobin = 1 /\ linecount = 0
  /\ \A f \in Frames : IsTable(f) <=> f = 0

NoneFree == FreeFrames = {}
OneFree == \E f \in Frames : FreeFrames = {f}
TwoFree == \E f, g \in Frames : f # g /\ FreeFrames = {f, g}

BetweenCommands ==
  \/ FreeFrames = Frames /\ roundrobin = 0 /\ linecount = 0
  \/ Filling({2, 3}) \/ Filling({3}) \/ NoneFree

\* freespace has what it was called for.
Enough ==
  \/ ret = Create /\ TwoFree
  \/ ret = Create /\ FreeFrames = Frames /\ roundrobin = 1 /\ linecount = 0
  \/ ret # Create /\ OneFree

\* freespace frees one more frame, in its first loop.
Short ==
  /\ pc = Evicting
  /\ linecount + (need - found) <= MaxLines
  /\ \/ \A f \in Frames : Unused(f) <=> removed[f] = 1
     \/ /\ ret = Create /\ FreeFrames = {3} /\ roundrobin = 2
        /\ \A f \in Frames : removed[f] = 0 /\ (IsTable(f) <=> f = 0)

Freeing ==
  /\ found = Cardinality(FreeFrames)
  /\ ret \in {Create, Allocate, LoadPage}
  /\ need = IF ret = Create THEN 2 ELSE 1
  /\ IF found < need THEN Short ELSE Enough

\* What the rest of the command relies on.
InTable(v) == Resident(pid) /\ valpres(pid, vaddr) = v

Asked(to) ==
  /\ to = Create => op = "map" /\ inmem[pid] = NoTable /\ pid \in Processes
  /\ to = Allocate => op = "map" /\ InTable(Unallocated)
  /\ to = LoadPage => op = "load" /\ InTable(OnDisk)

Control ==
  /\ pc \in {Idle, Evicting, Tables, Create, MapPage, Allocate, LoadPage, Answer, Exited}
  /\ pc \in {Idle, Exited} => BetweenCommands
  /\ pc \in {Evicting, Tables} => Freeing /\ Asked(ret)
  /\ pc \in {Create, Allocate, LoadPage} => Asked(pc)
  /\ pc = Create => \/ TwoFree
                    \/ FreeFrames = Frames /\ roundrobin = 1 /\ linecount = 0
  /\ pc = MapPage =>
       /\ op = "map" /\ Resident(pid)
       /\ \/ /\ InTable(Unallocated) \/ InTable(Present)
             /\ Filling({2, 3}) \/ Filling({3}) \/ NoneFree
             /\ linecount < MaxLines
          \/ InTable(Unallocated) /\ (Filling({1, 2, 3}) \/ OneFree)
  /\ pc = Allocate => Filling({1, 2, 3}) \/ Filling({2, 3}) \/ OneFree
  /\ pc = LoadPage => OneFree
  /\ pc = Answer => NoneFree /\ op = "load" /\ InTable(Present)

\* No protection that a table is about to get looks like a frame.
Cautious == op = "map" => val \notin {16, 32, 48}

CarefulInv ==
  /\ Typed /\ Layout /\ Control /\ Cautious
  /\ linecount <= MaxLines

-----------------------------------------------------------------------------
(* The cells of page table entries.                                         *)

\* Byte b of entry n of the table in frame t.
Cell(t, n, b) == t * PAGEMEM + PTE * n + b

\* Entries do not overlap, and each is in the frame of its table.
LEMMA CellsApart ==
  ASSUME NEW t \in Frames, NEW n \in PTEs, NEW b \in PTEs
  PROVE  /\ Cell(t, n, b) \in Cells
         /\ \A g \in Frames : InPage(Cell(t, n, b), g * PAGEMEM) <=> g = t
         /\ \A u \in Frames, m \in PTEs, c \in PTEs :
              Cell(t, n, b) = Cell(u, m, c) => t = u /\ n = m /\ b = c
BY DEF Cell, Frames, PTEs, Cells, InPage, PAGEMEM, MAXMEM, NUMPAGES, PTE

\* The four bytes of an entry.
LEMMA BytesAreEntries == {VPN, PFN, PROTECTION, VALPRES} \subseteq PTEs
BY DEF VPN, PFN, PROTECTION, VALPRES, PTEs

\* Where the table of a process is.
LEMMA TableOf ==
  ASSUME Registers, NEW p \in 0 .. 3, inmem[p] # NoTable
  PROVE  \E t \in Frames :
           /\ address[p] = t * PAGEMEM /\ pages[t] = p /\ IsTable(t)
           /\ \A n, b : At(p, n, b) = Cell(t, n, b)
BY DEF Registers, Cell, At

\* Its bytes are bytes.
LEMMA EntryByte ==
  ASSUME Typed, Registers, NEW p \in 0 .. 3, inmem[p] # NoTable, NEW n \in PTEs, NEW b \in PTEs
  PROVE  Byte4(p, n, b) \in Byte
BY TableOf, CellsApart DEF Byte4, Typed, MachineTypes

\* A step writes to entry m of process q, but for its page number, and to frame v.
WritesOnly(q, m, v) ==
  \A i \in Cells : /\ ~InPage(i, v * PAGEMEM)
                   /\ \A b \in {PFN, PROTECTION, VALPRES} : i # At(q, m, b)
                   => mem'[i] = mem[i]

\* If v is no table, such a step leaves every other byte of an entry
LEMMA OtherEntries ==
  ASSUME Registers, NEW q \in 0 .. 3, inmem[q] # NoTable, NEW m \in PTEs,
         NEW v \in Frames, ~IsTable(v), WritesOnly(q, m, v),
         NEW p \in 0 .. 3, inmem[p] # NoTable, NEW n \in PTEs, NEW b \in PTEs,
         p # q \/ n # m \/ b = VPN
  PROVE  mem'[At(p, n, b)] = Byte4(p, n, b)
<1>1. PICK u \in Frames : /\ pages[u] = q
                          /\ \A k, c : At(q, k, c) = Cell(u, k, c)
  BY TableOf
<1>2. PICK t \in Frames : /\ pages[t] = p /\ IsTable(t)
                          /\ \A k, c : At(p, k, c) = Cell(t, k, c)
  BY TableOf
<1>3. Cell(t, n, b) \in Cells
  BY CellsApart
<1>4. ~InPage(Cell(t, n, b), v * PAGEMEM)
  BY <1>2, CellsApart
<1>5. \A c \in {PFN, PROTECTION, VALPRES} : Cell(t, n, b) # Cell(u, m, c)
  <2>1. \A c \in {PFN, PROTECTION, VALPRES} : c \in PTEs /\ c # VPN
    BY DEF VPN, PFN, PROTECTION, VALPRES, PTEs
  <2> QED BY <1>1, <1>2, <2>1, CellsApart
<1>6. mem'[Cell(t, n, b)] = mem[Cell(t, n, b)]
  BY <1>1, <1>3, <1>4, <1>5 DEF WritesOnly
<1> QED BY <1>2, <1>6 DEF Byte4

\* and every frame but v and the table of q as it was.
LEMMA OtherFrames ==
  ASSUME Registers, NEW q \in 0 .. 3, inmem[q] # NoTable, NEW m \in PTEs,
         NEW v \in Frames, WritesOnly(q, m, v),
         NEW f \in Frames, f # v, pages[f] # q, NEW i \in Offsets
  PROVE  mem'[f * PAGEMEM + i] = mem[f * PAGEMEM + i]
<1>1. PICK u \in Frames : /\ pages[u] = q
                          /\ \A k, c : At(q, k, c) = Cell(u, k, c)
  BY TableOf
<1>2. \A g \in Frames : InPage(f * PAGEMEM + i, g * PAGEMEM) <=> g = f
  BY CellsOfFrames
<1>3. f * PAGEMEM + i \in Cells
  BY CellsOfFrames
<1>4. ASSUME NEW b \in {PFN, PROTECTION, VALPRES}
      PROVE  f * PAGEMEM + i # Cell(u, m, b)
  <2>1. u # f /\ b \in PTEs
    BY <1>1, BytesAreEntries
  <2>2. InPage(Cell(u, m, b), u * PAGEMEM)
    BY <2>1, CellsApart
  <2> QED BY <1>2, <2>1, <2>2
<1> QED BY <1>1, <1>2, <1>3, <1>4 DEF WritesOnly

\* Every offset of a page table is a byte of an entry.
LEMMA OffsetSplit == \A i \in Offsets : \E n, b \in PTEs : i = PTE * n + b
<1> SUFFICES ASSUME NEW i \in Offsets
             PROVE  \E n, b \in PTEs : i = PTE * n + b
  OBVIOUS
<1>1. i \div 4 \in PTEs /\ i % 4 \in PTEs /\ i = 4 * (i \div 4) + (i % 4)
  BY DEF Offsets, PAGEMEM, PTEs
<1> QED BY <1>1 DEF PTE

-----------------------------------------------------------------------------
(* removePage finds the entry it looks for.                                 *)

\* A page in memory has a holder with a table, and its frame is not the first.
LEMMA PageHolder ==
  ASSUME Typed, Layout, NEW v \in Frames, IsPage(v)
  PROVE  /\ pages[v] \in 0 .. 3 /\ inmem[pages[v]] = TableInMem
         /\ v * PAGEMEM \in {16, 32, 48} /\ IsTable(0)
<1>1. pages[v] \in 0 .. 3
  BY DEF Typed, MachineTypes, Layout, FrameBooks, IsPage
<1>2. IsTable(0) /\ v # 0
  BY DEF Layout, FirstFrame, Unused, IsPage, IsTable
<1>3. v * PAGEMEM \in {16, 32, 48}
  BY <1>2 DEF Frames, NUMPAGES, PAGEMEM
<1> QED BY <1>1, <1>2, <1>3 DEF Layout, Pages

\* No byte of a table but the PFN of the page's entry is the address of its frame.
LEMMA MatchesHome ==
  ASSUME Typed, Layout, NEW v \in Frames, IsPage(v),
         NEW n \in PTEs, NEW b \in PTEs,
         Byte4(pages[v], n, b) = v * PAGEMEM
  PROVE  b = PFN /\ Home(pages[v], n, v)
<1> DEFINE p == pages[v]
<1>1. p \in 0 .. 3 /\ inmem[p] = TableInMem /\ v * PAGEMEM \in {16, 32, 48}
  BY PageHolder
<1>2. b # VPN
  <2>1. Byte4(p, n, VPN) = n /\ n \in 0 .. 3
    BY <1>1 DEF Layout, Registers, PTEs, NoTable, TableInMem
  <2> QED BY <1>1, <2>1
<1>3. b # PROTECTION /\ b # VALPRES
  BY <1>1 DEF Layout, Entries, Unallocated, OnDisk, Present
<1>4. b = PFN
  BY <1>2, <1>3 DEF PTEs, VPN, PFN, PROTECTION, VALPRES
<1>5. Byte4(p, n, PFN) < 16 => FALSE
  BY <1>1, <1>4
<1> QED BY <1>1, <1>4, <1>5 DEF Layout, Entries, Home

\* The scan of removePage ends at the entry of the page, and reads its number there.
LEMMA FoundHome ==
  ASSUME Typed, Layout, NEW v \in Frames, IsPage(v)
  PROVE  \E n \in PTEs :
           /\ Home(pages[v], n, v)
           /\ \A m \in PTEs : Home(pages[v], m, v) => m = n
           /\ Matches(v) = {PTE * n + PFN}
           /\ LastMatch(v) = PTE * n + PFN
           /\ BelievedPage(v) = n
<1> DEFINE p == pages[v]
<1>1. p \in 0 .. 3 /\ inmem[p] = TableInMem
  BY PageHolder
<1>2. PICK n \in PTEs : Home(p, n, v) /\ \A m \in PTEs : Home(p, m, v) => m = n
  BY DEF Layout, Pages
<1>3. PICK t \in Frames : address[p] = t * PAGEMEM
  BY <1>1, TableOf DEF Layout, TableInMem, NoTable
<1>4. \A m, b \in PTEs : address[p] + (PTE * m + b) = address[p] + PTE * m + b
  BY <1>3 DEF Frames, NUMPAGES, PAGEMEM, PTEs, PTE
<1>5. ASSUME NEW i \in Matches(v)
      PROVE  i = PTE * n + PFN
  <2>1. PICK m, b \in PTEs : i = PTE * m + b
    BY OffsetSplit DEF Matches
  <2>2. Byte4(p, m, b) = v * PAGEMEM
    BY <1>4, <2>1 DEF Matches, Byte4, At
  <2>3. b = PFN /\ Home(p, m, v)
    BY <2>2, MatchesHome
  <2> QED BY <1>2, <2>1, <2>3
<1>6. PTE * n + PFN \in Matches(v)
  <2>1. PTE * n + PFN \in Offsets
    BY DEF PTEs, PTE, PFN, Offsets, PAGEMEM
  <2>2. mem[address[p] + (PTE * n + PFN)] = v * PAGEMEM
    BY <1>2, <1>4, BytesAreEntries DEF Home, Byte4, At
  <2> QED BY <2>1, <2>2 DEF Matches
<1>7. Matches(v) = {PTE * n + PFN} /\ PTE * n + PFN \in Nat
  BY <1>5, <1>6 DEF PTEs, PTE, PFN
<1>8. LastMatch(v) = PTE * n + PFN
  BY <1>7 DEF LastMatch
<1>9. BelievedPage(v) = n
  <2>1. address[p] + LastMatch(v) - 1 = address[p] + PTE * n + VPN
    BY <1>3, <1>8 DEF Frames, NUMPAGES, PAGEMEM, PTEs, PTE, PFN, VPN
  <2>2. mem[address[p] + PTE * n + VPN] = n
    BY <1>1 DEF Layout, Registers, Byte4, At, TableInMem, NoTable
  <2> QED BY <1>7, <2>1, <2>2 DEF BelievedPage
<1> QED BY <1>2, <1>7, <1>8, <1>9

\* The call stays inside its arrays.
LEMMA PageRemovable ==
  ASSUME Typed, Layout, NEW v \in Frames, IsPage(v)
  PROVE  RemovalDefined(v)
<1>1. pages[v] \in 0 .. 3 /\ inmem[pages[v]] = TableInMem
  BY PageHolder
<1>2. PICK n \in PTEs : LastMatch(v) = PTE * n + PFN /\ BelievedPage(v) = n
  BY FoundHome
<1>3. PICK t \in Frames : address[pages[v]] = t * PAGEMEM
  BY <1>1, TableOf DEF Layout, TableInMem, NoTable
<1>4. /\ address[pages[v]] + LastMatch(v) > 0
      /\ address[pages[v]] + PTE * BelievedPage(v) + VALPRES < MAXMEM
  BY <1>2, <1>3 DEF Frames, NUMPAGES, PAGEMEM, PTEs, PTE, PFN, VALPRES, MAXMEM
<1> QED BY <1>1, <1>4 DEF RemovalDefined, Resident

-----------------------------------------------------------------------------
(* Every change of memory keeps the layout.                                 *)

\* The frames of tables and of pages stay what they are while the bytes of no
\* table change but PROTECTION, and the free frames stay blank.
LEMMA SameLayout ==
  ASSUME Layout, UNCHANGED machine
  PROVE  Layout'
<1>1. Registers' /\ TableFrames'
  BY DEF Layout, Registers, TableFrames, machine, Byte4, At, IsTable
<1>2. Entries'
  BY DEF Layout, Entries, Home, machine, Byte4, At, IsTable, linecount
<1>3. Pages'
  BY DEF Layout, Pages, Home, machine, Byte4, At, IsPage
<1>4. FreeFramesBlank' /\ FirstFrame' /\ FrameBooks'
  BY DEF Layout, FreeFramesBlank, FreeFrames, FirstFrame, FrameBooks, machine, IsTable, Unused
<1> QED BY <1>1, <1>2, <1>3, <1>4 DEF Layout

\* Every change of a page is a change of one entry and one frame: entry k of q,
\* but for its page number, and frame v, which is no table.
Rewrites(q, k, v) ==
  /\ WritesOnly(q, k, v)
  /\ \A f \in Frames \ {v} : freelist'[f] = freelist[f] /\ pages'[f] = pages[f]
  /\ ispagetable' = ispagetable /\ address' = address /\ inmem' = inmem
  /\ linecount' >= linecount

\* Before the change no other entry names v, and the entry names no other frame.
OnlyHome(q, k, v) ==
  /\ \A p \in 0 .. 3, n \in PTEs : inmem[p] = TableInMem /\ Home(p, n, v) => p = q /\ n = k
  /\ \A f \in Frames : Home(q, k, f) => f = v

\* After it the entry and the frame agree.
BlankFrame(v) == \A i \in Offsets : mem[v * PAGEMEM + i] = 0

Agree(q, k, v) ==
  /\ Byte4(q, k, PROTECTION) \notin {16, 32, 48}
  /\ \/ /\ freelist[v] = 1 /\ pages[v] = -1 /\ BlankFrame(v)
        /\ Byte4(q, k, VALPRES) = OnDisk /\ Byte4(q, k, PFN) < 16
        /\ Byte4(q, k, PFN) < linecount
     \/ freelist[v] = 0 /\ pages[v] = q /\ Home(q, k, v)

\* Such a change keeps the layout.
LEMMA ChangeLayout ==
  ASSUME Typed, Layout, Typed',
         NEW q \in 0 .. 3, inmem[q] = TableInMem, NEW k \in PTEs, NEW v \in Frames, ~IsTable(v),
         Rewrites(q, k, v), OnlyHome(q, k, v), Agree(q, k, v)'
  PROVE  Layout'
<1>0. Registers /\ inmem[q] # NoTable
  BY DEF Layout, TableInMem, NoTable
<1>1. WritesOnly(q, k, v)
  BY DEF Rewrites
<1>2. ispagetable' = ispagetable /\ address' = address /\ inmem' = inmem
  BY DEF Rewrites
<1>3. PICK u \in Frames : pages[u] = q /\ IsTable(u) /\ address[q] = u * PAGEMEM
  BY <1>0, TableOf
<1>4. IsTable(0) /\ 0 \in Frames
  <2>1. freelist[u] # 1
    BY <1>3 DEF Layout, FrameBooks
  <2> QED BY <1>3, <2>1 DEF Layout, FirstFrame, Unused, Frames, NUMPAGES
<1>5. \A f \in Frames : f # v => freelist'[f] = freelist[f] /\ pages'[f] = pages[f]
  BY DEF Rewrites
<1>6. \A f \in Frames : IsTable(f)' <=> IsTable(f)
  BY <1>2 DEF IsTable
<1>10. ASSUME NEW p \in 0 .. 3, inmem[p] # NoTable, NEW n \in PTEs, NEW b \in PTEs,
              p # q \/ n # k \/ b = VPN
       PROVE  Byte4(p, n, b)' = Byte4(p, n, b)
  <2>1. mem'[At(p, n, b)] = Byte4(p, n, b)
    BY <1>0, <1>1, <1>10, OtherEntries
  <2>2. At(p, n, b)' = At(p, n, b)
    BY <1>2 DEF At
  <2> QED BY <2>1, <2>2 DEF Byte4
<1>11. \A p \in 0 .. 3, n \in PTEs, b \in PTEs :
         inmem[p] = TableInMem /\ ~(p = q /\ n = k) => Byte4(p, n, b)' = Byte4(p, n, b)
  BY <1>10 DEF TableInMem, NoTable
<1>12. Registers'
  <2> SUFFICES ASSUME NEW p \in 0 .. 3, inmem[p] # NoTable
               PROVE  /\ inmem[p] = TableInMem /\ p \in Processes
                      /\ \E t \in Frames : address[p] = t * PAGEMEM /\ pages'[t] = p /\ IsTable(t)'
                      /\ \A n \in PTEs : Byte4(p, n, VPN)' = n
    BY <1>2 DEF Registers
  <2>1. ASSUME NEW n \in PTEs
        PROVE  Byte4(p, n, VPN)' = n
    <3>1. VPN \in PTEs
      BY BytesAreEntries
    <3> QED BY <1>0, <1>10, <3>1 DEF Registers
  <2>2. PICK t \in Frames : address[p] = t * PAGEMEM /\ pages[t] = p /\ IsTable(t)
    BY <1>0 DEF Registers
  <2>3. pages'[t] = p /\ IsTable(t)'
    BY <1>5, <1>6, <2>2
  <2> QED BY <1>0, <2>1, <2>2, <2>3 DEF Registers
<1>13. TableFrames'
  <2> SUFFICES ASSUME NEW t \in Frames, IsTable(t)
               PROVE  pages'[t] # -1 /\ inmem[pages'[t]] = TableInMem /\ address[pages'[t]] = t * PAGEMEM
    BY <1>2, <1>6 DEF TableFrames
  <2>1. pages'[t] = pages[t]
    BY <1>5
  <2> QED BY <2>1 DEF Layout, TableFrames
<1>14. ASSUME NEW p \in 0 .. 3, inmem[p] = TableInMem, NEW n \in PTEs, NEW f \in Frames,
              ~(p = q /\ n = k)
       PROVE  Home(p, n, f)' <=> Home(p, n, f)
  BY <1>11, <1>14, BytesAreEntries DEF Home
<1>15. Entries'
  <2> SUFFICES ASSUME NEW p \in 0 .. 3, NEW n \in PTEs, inmem[p] = TableInMem
               PROVE  /\ Byte4(p, n, VALPRES)' \in {Unallocated, OnDisk, Present}
                      /\ Byte4(p, n, PROTECTION)' \notin {16, 32, 48}
                      /\ Byte4(p, n, VALPRES)' # Present => Byte4(p, n, PFN)' < 16
                      /\ Byte4(p, n, VALPRES)' = OnDisk => Byte4(p, n, PFN)' < linecount'
                      /\ Byte4(p, n, VALPRES)' = Present =>
                           \E f \in Frames : Home(p, n, f)' /\ pages'[f] = p /\ ~IsTable(f)'
    BY <1>2 DEF Entries
  <2>1. CASE p = q /\ n = k
    BY <1>6, <2>1 DEF Agree, Home, OnDisk, Present
  <2>2. CASE ~(p = q /\ n = k)
    <3>1. /\ Byte4(p, n, VALPRES)' = Byte4(p, n, VALPRES)
          /\ Byte4(p, n, PFN)' = Byte4(p, n, PFN)
          /\ Byte4(p, n, PROTECTION)' = Byte4(p, n, PROTECTION)
      BY <1>11, <2>2, BytesAreEntries
    <3>2. /\ Byte4(p, n, VALPRES) \in {Unallocated, OnDisk, Present}
          /\ Byte4(p, n, PROTECTION) \notin {16, 32, 48}
          /\ Byte4(p, n, VALPRES) # Present => Byte4(p, n, PFN) < 16
          /\ Byte4(p, n, VALPRES) = OnDisk => Byte4(p, n, PFN) < linecount
      BY DEF Layout, Entries
    <3>3. ASSUME Byte4(p, n, VALPRES) = Present
          PROVE  \E f \in Frames : Home(p, n, f)' /\ pages'[f] = p /\ ~IsTable(f)'
      <4>1. PICK f \in Frames : Home(p, n, f) /\ pages[f] = p /\ ~IsTable(f)
        BY <3>3 DEF Layout, Entries
      <4>2. f # v
        BY <2>2, <4>1 DEF OnlyHome
      <4> QED BY <1>5, <1>6, <1>14, <2>2, <4>1, <4>2
    <3>4. Byte4(p, n, PFN) \in Nat
      <4>1. inmem[p] # NoTable /\ PFN \in PTEs
        BY BytesAreEntries DEF TableInMem, NoTable
      <4>2. Byte4(p, n, PFN) \in Byte
        BY <1>0, <4>1, EntryByte
      <4> QED BY <4>2 DEF Byte
    <3>5. linecount \in Nat /\ linecount' \in Nat /\ linecount' >= linecount
      BY DEF Typed, MachineTypes, linecount, Rewrites
    <3>6. Byte4(p, n, PFN) < linecount => Byte4(p, n, PFN) < linecount'
      BY <3>4, <3>5
    <3>7. Byte4(p, n, VALPRES)' = OnDisk => Byte4(p, n, PFN)' < linecount'
      BY <3>1, <3>2, <3>6
    <3>8. Byte4(p, n, VALPRES)' = Present =>
                           \E f \in Frames : Home(p, n, f)' /\ pages'[f] = p /\ ~IsTable(f)'
      BY <3>1, <3>3
    <3> QED BY <3>1, <3>2, <3>7, <3>8
  <2> QED BY <2>1, <2>2
<1>16. Pages'
  <2>1. ASSUME NEW f \in Frames, IsPage(f)'
        PROVE  \E p \in 0 .. 3 :
                 /\ pages'[f] = p /\ inmem[p] = TableInMem
                 /\ \E n \in PTEs : Home(p, n, f)' /\ \A m \in PTEs : Home(p, m, f)' => m = n
    <3>1. CASE f = v
      <4>1. pages'[v] = q /\ Home(q, k, v)'
        BY <2>1, <3>1 DEF Agree, IsPage
      <4>2. ASSUME NEW m \in PTEs, Home(q, m, v)'
            PROVE  m = k
        BY <1>14, <4>2 DEF OnlyHome
      <4> QED BY <3>1, <4>1, <4>2
    <3>2. CASE f # v
      <4>1. IsPage(f) /\ pages'[f] = pages[f]
        BY <1>2, <1>5, <2>1, <3>2 DEF IsPage
      <4>2. PICK p \in 0 .. 3 : pages[f] = p /\ inmem[p] = TableInMem
        BY <4>1, PageHolder
      <4>3. PICK n \in PTEs : Home(p, n, f) /\ \A m \in PTEs : Home(p, m, f) => m = n
        BY <4>1, <4>2 DEF Layout, Pages
      <4>4. ~(p = q /\ n = k)
        BY <3>2, <4>3 DEF OnlyHome
      <4>5. Home(p, n, f)'
        BY <1>14, <4>2, <4>3, <4>4
      <4>6. ASSUME NEW m \in PTEs, Home(p, m, f)'
            PROVE  m = n
        <5>1. CASE ~(p = q /\ m = k)
          BY <1>14, <4>2, <4>3, <4>6, <5>1
        <5>2. CASE p = q /\ m = k
          <6>1. Home(q, k, v)' \/ Byte4(q, k, VALPRES)' = OnDisk
            BY DEF Agree
          <6>2. Byte4(q, k, PFN)' = v * PAGEMEM /\ Byte4(q, k, PFN)' = f * PAGEMEM
            BY <4>6, <5>2, <6>1 DEF Home, OnDisk, Present
          <6>3. f = v
            BY <6>2 DEF Frames, NUMPAGES, PAGEMEM
          <6> QED BY <3>2, <6>3
        <5> QED BY <5>1, <5>2
      <4> QED BY <4>1, <4>2, <4>3, <4>5, <4>6
    <3> QED BY <3>1, <3>2
  <2>2. inmem' = inmem
    BY <1>2
  <2> QED BY <2>1, <2>2 DEF Pages
<1>17. FreeFramesBlank'
  <2> SUFFICES ASSUME NEW f \in Frames, freelist'[f] = 1, NEW i \in Offsets
               PROVE  mem'[f * PAGEMEM + i] = 0
    BY DEF FreeFramesBlank, FreeFrames
  <2>1. CASE f = v
    BY <2>1 DEF Agree, BlankFrame
  <2>2. CASE f # v
    <3>1. freelist[f] = 1 /\ pages[f] = -1 /\ pages[f] # q
      BY <1>5, <2>2 DEF Layout, FrameBooks
    <3>2. mem'[f * PAGEMEM + i] = mem[f * PAGEMEM + i]
      BY <1>0, <1>1, <2>2, <3>1, OtherFrames
    <3> QED BY <3>1, <3>2 DEF Layout, FreeFramesBlank, FreeFrames
  <2> QED BY <2>1, <2>2
<1>18. FrameBooks'
  BY <1>5 DEF FrameBooks, Layout, Agree
<1>19. FirstFrame'
  BY <1>4, <1>6 DEF FirstFrame
<1> QED BY <1>12, <1>13, <1>15, <1>16, <1>17, <1>18, <1>19 DEF Layout

\* A frame that an entry names is held by the entry's process, for a page.
LEMMA HomeHolder ==
  ASSUME Typed, Layout, NEW p \in 0 .. 3, inmem[p] = TableInMem, NEW n \in PTEs, NEW f \in Frames,
         Home(p, n, f)
  PROVE  pages[f] = p /\ IsPage(f)
<1>1. PICK g \in Frames : Home(p, n, g) /\ pages[g] = p /\ ~IsTable(g)
  BY DEF Layout, Entries, Home
<1>2. g = f
  BY <1>1 DEF Home, Frames, NUMPAGES, PAGEMEM
<1>3. freelist[f] \in {0, 1} /\ ispagetable[f] \in {0, 1}
  BY DEF Typed, MachineTypes
<1> QED BY <1>1, <1>2, <1>3 DEF Layout, FrameBooks, IsPage, IsTable

\* Before a page in memory changes, its entry is the only one for its frame;
LEMMA PagesHome ==
  ASSUME Typed, Layout, NEW q \in 0 .. 3, inmem[q] = TableInMem, NEW k \in PTEs, NEW v \in Frames,
         Home(q, k, v)
  PROVE  OnlyHome(q, k, v) /\ IsPage(v) /\ pages[v] = q
<1>1. IsPage(v) /\ pages[v] = q
  BY HomeHolder
<1>2. \A p \in 0 .. 3, n \in PTEs : inmem[p] = TableInMem /\ Home(p, n, v) => p = q
  BY <1>1, HomeHolder
<1>3. \A n \in PTEs : Home(q, n, v) => n = k
  BY <1>1 DEF Layout, Pages
<1>4. \A f \in Frames : Home(q, k, f) => f = v
  BY DEF Home, Frames, NUMPAGES, PAGEMEM
<1> QED BY <1>1, <1>2, <1>3, <1>4 DEF OnlyHome

\* before a free frame is given to a page, no entry names it.
LEMMA NobodysHome ==
  ASSUME Typed, Layout, NEW q \in 0 .. 3, NEW k \in PTEs, NEW v \in Frames, freelist[v] = 1,
         Byte4(q, k, VALPRES) # Present
  PROVE  OnlyHome(q, k, v)
<1>1. \A p \in 0 .. 3, n \in PTEs : inmem[p] = TableInMem => ~Home(p, n, v)
  BY HomeHolder DEF IsPage
<1>2. \A f \in Frames : ~Home(q, k, f)
  BY DEF Home
<1> QED BY <1>1, <1>2 DEF OnlyHome

\* The bytes of an entry are four cells outside the frame of a page.
LEMMA EntryCells ==
  ASSUME Registers, NEW q \in 0 .. 3, inmem[q] # NoTable, NEW k \in PTEs
  PROVE  /\ \A b \in PTEs : At(q, k, b) \in Cells
         /\ \A b, c \in PTEs : At(q, k, b) = At(q, k, c) => b = c
         /\ \A v \in Frames, b \in PTEs : ~IsTable(v) => ~InPage(At(q, k, b), v * PAGEMEM)
<1>1. PICK t \in Frames : IsTable(t) /\ \A n, b : At(q, n, b) = Cell(t, n, b)
  BY TableOf
<1> QED BY <1>1, CellsApart

\* removePage: the page goes to the next line of the swap file.
LEMMA RemovePageLayout ==
  ASSUME Typed, Typed', Layout, NEW v \in Frames, IsPage(v), RemovePage(v), linecount < 16
  PROVE  /\ Layout'
         /\ \A p \in 0 .. 3, n \in PTEs :
              inmem[p] = TableInMem /\ Byte4(p, n, VALPRES) # Present
                => Byte4(p, n, VALPRES)' = Byte4(p, n, VALPRES)
<1>1. PICK q \in 0 .. 3 : pages[v] = q /\ inmem[q] = TableInMem
  BY PageHolder
<1>2. PICK k \in PTEs : Home(q, k, v) /\ BelievedPage(v) = k
  BY <1>1, FoundHome
<1>3. ~IsTable(v) /\ OnlyHome(q, k, v) /\ Registers /\ inmem[q] # NoTable
  BY <1>1, <1>2, PagesHome DEF IsPage, IsTable, Layout, TableInMem, NoTable
<1>4. /\ linecount \in Nat /\ linecount' = linecount + 1 /\ linecount % 256 = linecount
      /\ linecount' >= linecount /\ linecount < linecount'
  <2>1. linecount \in Nat /\ linecount' = linecount + 1
    BY DEF RemovePage, Typed, MachineTypes, linecount
  <2> QED BY <2>1
<1>5. mem' = Zeroed(v, [mem EXCEPT ![At(q, k, PFN)] = linecount, ![At(q, k, VALPRES)] = OnDisk])
  BY <1>1, <1>2, <1>4 DEF RemovePage, At
<1>6. mem \in [Cells -> Byte]
  BY DEF Typed, MachineTypes
<1>7. WritesOnly(q, k, v)
  BY <1>5, <1>6 DEF WritesOnly, Zeroed
<1>8. BlankFrame(v)'
  BY <1>5, CellsOfFrames DEF BlankFrame, Zeroed
<1>9. /\ mem'[At(q, k, PFN)] = linecount /\ mem'[At(q, k, VALPRES)] = OnDisk
      /\ mem'[At(q, k, PROTECTION)] = mem[At(q, k, PROTECTION)]
  <2>1. PFN # PROTECTION /\ PFN # VALPRES /\ PROTECTION # VALPRES
    BY DEF PFN, PROTECTION, VALPRES
  <2>2. \A b \in {PFN, PROTECTION, VALPRES} :
          At(q, k, b) \in Cells /\ ~InPage(At(q, k, b), v * PAGEMEM)
    BY <1>3, EntryCells, BytesAreEntries
  <2>3. /\ At(q, k, PFN) # At(q, k, PROTECTION) /\ At(q, k, PFN) # At(q, k, VALPRES)
        /\ At(q, k, PROTECTION) # At(q, k, VALPRES)
    BY <1>3, <2>1, EntryCells, BytesAreEntries
  <2> QED BY <1>5, <1>6, <2>2, <2>3 DEF Zeroed
<1>10. Freed(v) /\ address' = address /\ inmem' = inmem /\ ispagetable' = ispagetable
  BY DEF RemovePage
<1>11. Agree(q, k, v)'
  <2>1. freelist'[v] = 1 /\ pages'[v] = -1
    BY <1>10 DEF Freed, Typed, MachineTypes
  <2>2. Byte4(q, k, PROTECTION) \notin {16, 32, 48}
    BY <1>1 DEF Layout, Entries
  <2> QED BY <1>4, <1>8, <1>9, <1>10, <2>1, <2>2 DEF Agree, Byte4, At
<1>12. Rewrites(q, k, v)
  BY <1>4, <1>7, <1>10 DEF Rewrites, Freed, Typed, MachineTypes
<1>13. ASSUME NEW p \in 0 .. 3, NEW n \in PTEs,
              inmem[p] = TableInMem, Byte4(p, n, VALPRES) # Present
       PROVE  Byte4(p, n, VALPRES)' = Byte4(p, n, VALPRES)
  <2>1. inmem[p] # NoTable /\ (p # q \/ n # k) /\ VALPRES \in PTEs
    BY <1>2, <1>13, BytesAreEntries DEF Home, TableInMem, NoTable
  <2>2. mem'[At(p, n, VALPRES)] = Byte4(p, n, VALPRES)
    BY <1>3, <1>7, <2>1, OtherEntries
  <2> QED BY <1>10, <2>2 DEF Byte4, At
<1> QED BY <1>1, <1>3, <1>11, <1>12, <1>13, ChangeLayout

\* The bytes of the entry a command is about.
LEMMA EntryOfCommand ==
  ASSUME Typed, NEW p \in 0 .. 3, Resident(p), NEW a \in 0 .. 63
  PROVE  /\ vpage(a) \in PTEs /\ inmem[p] = TableInMem /\ inmem[p] # NoTable
         /\ \A b : findpte(p, a) + b = At(p, vpage(a), b)
         /\ valpres(p, a) = Byte4(p, vpage(a), VALPRES)
         /\ protection(p, a) = Byte4(p, vpage(a), PROTECTION)
         /\ pfn(p, a) = Byte4(p, vpage(a), PFN)
<1>1. vpage(a) \in PTEs /\ inmem[p] = TableInMem
  BY VpageIsEntry DEF PTEs, Resident
<1>2. findpte(p, a) = address[p] + PTE * vpage(a)
  BY <1>1 DEF findpte, TableInMem, TableOnDisk, NoTable
<1> QED BY <1>1, <1>2 DEF valpres, protection, pfn, Byte4, At, TableInMem, NoTable

\* A free frame is no table.
LEMMA FreeNoTable ==
  ASSUME Layout, NEW f \in Frames, freelist[f] = 1
  PROVE  ~IsTable(f) /\ pages[f] = -1
BY DEF Layout, TableFrames, FrameBooks

\* A free frame goes to the page the command is about, whose entry says so then.
LEMMA TakePageLayout ==
  ASSUME Typed, Typed', Layout, NEW q \in 0 .. 3, pid = q, inmem[q] = TableInMem,
         NEW f \in Frames, Take(f, FALSE),
         NEW k \in PTEs, Byte4(q, k, VALPRES) # Present,
         WritesOnly(q, k, f),
         Home(q, k, f)', Byte4(q, k, PROTECTION)' \notin {16, 32, 48},
         UNCHANGED <<address, inmem, swap>>
  PROVE  Layout'
<1>2. freelist[f] = 1
  BY DEF Take, FirstFree, FreeFrames
<1>3. ~IsTable(f) /\ OnlyHome(q, k, f)
  BY <1>2, FreeNoTable, NobodysHome
<1>4. freelist'[f] = 0 /\ pages'[f] = q /\ ispagetable' = ispagetable
  BY DEF Take, Typed, MachineTypes
<1>6. Agree(q, k, f)'
  BY <1>4 DEF Agree
<1>7. Rewrites(q, k, f)
  <2>1. linecount' = linecount /\ linecount \in Nat
    BY DEF linecount, Typed, MachineTypes
  <2> QED BY <1>4, <2>1 DEF Rewrites, Take, Typed, MachineTypes
<1> QED BY <1>3, <1>6, <1>7, ChangeLayout

\* The three bytes that change are cells of their own.
LEMMA EntryBytes ==
  ASSUME Layout, NEW q \in 0 .. 3, inmem[q] = TableInMem, NEW k \in PTEs
  PROVE  /\ \A b \in {PFN, PROTECTION, VALPRES} :
              /\ At(q, k, b) \in Cells
              /\ \A v \in Frames : ~IsTable(v) => ~InPage(At(q, k, b), v * PAGEMEM)
         /\ At(q, k, PFN) # At(q, k, PROTECTION) /\ At(q, k, PFN) # At(q, k, VALPRES)
         /\ At(q, k, PROTECTION) # At(q, k, VALPRES)
<1>1. Registers /\ inmem[q] # NoTable
  BY DEF Layout, TableInMem, NoTable
<1>2. PFN # PROTECTION /\ PFN # VALPRES /\ PROTECTION # VALPRES
  BY DEF PFN, PROTECTION, VALPRES
<1> QED BY <1>1, <1>2, EntryCells, BytesAreEntries

\* map: the page is new,
LEMMA AllocateLayout ==
  ASSUME Typed, Typed', Layout, NEW q \in 0 .. 3, pid = q, Resident(q),
         valpres(q, vaddr) # Present, val \notin {16, 32, 48},
         NEW f \in Frames, Take(f, FALSE),
         mem' = [mem EXCEPT ![findpte(q, vaddr) + PFN] = f * PAGEMEM,
                            ![findpte(q, vaddr) + PROTECTION] = val,
                            ![findpte(q, vaddr) + VALPRES] = Present],
         UNCHANGED <<address, inmem, swap>>
  PROVE  Layout'
<1>1. PICK k \in PTEs : /\ \A b : findpte(q, vaddr) + b = At(q, k, b)
                        /\ inmem[q] = TableInMem /\ Byte4(q, k, VALPRES) # Present
  BY EntryOfCommand DEF Typed, RequestTypes
<1>2. mem' = [mem EXCEPT ![At(q, k, PFN)] = f * PAGEMEM, ![At(q, k, PROTECTION)] = val,
                         ![At(q, k, VALPRES)] = Present]
  <2>1. /\ findpte(q, vaddr) + PFN = At(q, k, PFN)
        /\ findpte(q, vaddr) + PROTECTION = At(q, k, PROTECTION)
        /\ findpte(q, vaddr) + VALPRES = At(q, k, VALPRES)
    BY <1>1
  <2> QED BY <2>1, Zenon
<1>3. mem \in [Cells -> Byte]
  BY DEF Typed, MachineTypes
<1>4. WritesOnly(q, k, f)
  BY <1>2, <1>3 DEF WritesOnly
<1>5. /\ mem'[At(q, k, PFN)] = f * PAGEMEM /\ mem'[At(q, k, VALPRES)] = Present
      /\ mem'[At(q, k, PROTECTION)] = val
  BY <1>1, <1>2, <1>3, EntryBytes
<1>6. Home(q, k, f)' /\ Byte4(q, k, PROTECTION)' \notin {16, 32, 48}
  BY <1>5 DEF Home, Byte4, At
<1> QED BY <1>1, <1>4, <1>6, TakePageLayout

\* loadPage: it comes from the swap file;
LEMMA LoadLayout ==
  ASSUME Typed, Typed', Layout, NEW q \in 0 .. 3, pid = q, Resident(q),
         valpres(q, vaddr) # Present,
         NEW f \in Frames, Take(f, FALSE), NEW page,
         mem' = [Filled(f, page) EXCEPT ![findpte(q, vaddr) + PFN] = f * PAGEMEM,
                                        ![findpte(q, vaddr) + VALPRES] = Present],
         UNCHANGED <<address, inmem, swap>>
  PROVE  Layout'
<1>1. PICK k \in PTEs : /\ \A b : findpte(q, vaddr) + b = At(q, k, b)
                        /\ inmem[q] = TableInMem /\ Byte4(q, k, VALPRES) # Present
  BY EntryOfCommand DEF Typed, RequestTypes
<1>2. mem' = [Filled(f, page) EXCEPT ![At(q, k, PFN)] = f * PAGEMEM,
                                     ![At(q, k, VALPRES)] = Present]
  <2>1. /\ findpte(q, vaddr) + PFN = At(q, k, PFN)
        /\ findpte(q, vaddr) + VALPRES = At(q, k, VALPRES)
    BY <1>1
  <2> QED BY <2>1, Zenon
<1>3. \A i \in Cells : ~InPage(i, f * PAGEMEM) => Filled(f, page)[i] = mem[i]
  BY DEF Filled
<1>4. DOMAIN Filled(f, page) = Cells
  BY DEF Filled
<1>5. WritesOnly(q, k, f)
  BY <1>2, <1>3, <1>4 DEF WritesOnly
<1>6. ~IsTable(f)
  BY FreeNoTable DEF Take, FirstFree, FreeFrames
<1>7. /\ mem'[At(q, k, PFN)] = f * PAGEMEM /\ mem'[At(q, k, VALPRES)] = Present
      /\ mem'[At(q, k, PROTECTION)] = Byte4(q, k, PROTECTION)
  BY <1>1, <1>2, <1>3, <1>4, <1>6, EntryBytes DEF Byte4
<1>8. Byte4(q, k, PROTECTION) \notin {16, 32, 48}
  BY <1>1 DEF Layout, Entries
<1>9. Home(q, k, f)' /\ Byte4(q, k, PROTECTION)' \notin {16, 32, 48}
  BY <1>7, <1>8 DEF Home, Byte4, At
<1> QED BY <1>1, <1>5, <1>9, TakePageLayout

\* A page that stays where it is.
LEMMA KeepPageLayout ==
  ASSUME Typed, Typed', Layout, NEW q \in 0 .. 3, inmem[q] = TableInMem,
         NEW k \in PTEs, NEW f \in Frames, Home(q, k, f), WritesOnly(q, k, f),
         Home(q, k, f)', Byte4(q, k, PROTECTION)' \notin {16, 32, 48},
         UNCHANGED <<freelist, pages, ispagetable, address, inmem, swap>>
  PROVE  Layout'
<1>1. OnlyHome(q, k, f) /\ freelist[f] = 0 /\ ~IsTable(f) /\ pages[f] = q
  BY PagesHome DEF IsPage, IsTable
<1>2. Agree(q, k, f)'
  BY <1>1 DEF Agree
<1>3. Rewrites(q, k, f)
  <2>1. linecount' = linecount /\ linecount \in Nat
    BY DEF linecount, Typed, MachineTypes
  <2> QED BY <2>1 DEF Rewrites
<1> QED BY <1>1, <1>2, <1>3, ChangeLayout

\* map of a page that is there: its protection changes.
LEMMA AlterLayout ==
  ASSUME Typed, Typed', Layout, NEW q \in 0 .. 3, Resident(q),
         valpres(q, vaddr) = Present, val \notin {16, 32, 48},
         mem' = [mem EXCEPT ![findpte(q, vaddr) + PROTECTION] = val],
         UNCHANGED <<freelist, pages, ispagetable, address, inmem, swap>>
  PROVE  Layout'
<1>1. PICK k \in PTEs : /\ \A b : findpte(q, vaddr) + b = At(q, k, b)
                        /\ inmem[q] = TableInMem /\ Byte4(q, k, VALPRES) = Present
  BY EntryOfCommand DEF Typed, RequestTypes
<1>2. mem' = [mem EXCEPT ![At(q, k, PROTECTION)] = val] /\ mem \in [Cells -> Byte]
  BY <1>1 DEF Typed, MachineTypes
<1>3. PICK f \in Frames : Home(q, k, f)
  BY <1>1 DEF Layout, Entries
<1>4. WritesOnly(q, k, f)
  BY <1>2 DEF WritesOnly
<1>5. /\ mem'[At(q, k, PFN)] = Byte4(q, k, PFN) /\ mem'[At(q, k, VALPRES)] = Byte4(q, k, VALPRES)
      /\ mem'[At(q, k, PROTECTION)] = val
  BY <1>1, <1>2, EntryBytes DEF Byte4
<1>6. Home(q, k, f)' /\ Byte4(q, k, PROTECTION)' \notin {16, 32, 48}
  BY <1>3, <1>5 DEF Home, Byte4, At
<1> QED BY <1>1, <1>3, <1>4, <1>6, KeepPageLayout

\* The address of a page in memory is in the frame its entry names.
LEMMA PresentAddress ==
  ASSUME Typed, Layout, NEW p \in 0 .. 3, Resident(p), NEW a \in 0 .. 63,
         valpres(p, a) = Present
  PROVE  \E k \in PTEs, f \in Frames :
           /\ inmem[p] = TableInMem /\ Home(p, k, f) /\ ~IsTable(f)
           /\ convert(a, p) \in Cells /\ InPage(convert(a, p), f * PAGEMEM)
<1>1. PICK k \in PTEs : /\ inmem[p] = TableInMem /\ Byte4(p, k, VALPRES) = Present
                        /\ pfn(p, a) = Byte4(p, k, PFN)
  BY EntryOfCommand
<1>2. PICK f \in Frames : Home(p, k, f) /\ ~IsTable(f)
  BY <1>1 DEF Layout, Entries
<1>3. convert(a, p) \in Cells /\ InPage(convert(a, p), f * PAGEMEM)
  <2>1. convert(a, p) = f * PAGEMEM + (a % PAGEMEM)
    BY <1>1, <1>2 DEF convert, Home, Present, Unallocated
  <2>2. a % PAGEMEM \in Offsets
    BY DEF PAGEMEM, Offsets
  <2> QED BY <2>1, <2>2, CellsOfFrames
<1> QED BY <1>1, <1>2, <1>3

\* store: the byte goes there.
LEMMA WriteLayout ==
  ASSUME Typed, Typed', Layout, NEW p \in 0 .. 3, Resident(p), NEW a \in 0 .. 63, NEW v,
         valpres(p, a) = Present,
         mem' = [mem EXCEPT ![convert(a, p)] = v],
         UNCHANGED <<freelist, pages, ispagetable, address, inmem, swap>>
  PROVE  Layout'
<1>2. PICK k \in PTEs, f \in Frames :
        /\ inmem[p] = TableInMem /\ Home(p, k, f) /\ ~IsTable(f)
        /\ convert(a, p) \in Cells /\ InPage(convert(a, p), f * PAGEMEM)
  BY PresentAddress
<1>1. inmem[p] = TableInMem
  BY <1>2
<1>3. PICK i \in Cells : convert(a, p) = i /\ InPage(i, f * PAGEMEM)
  BY <1>2
<1>4. mem \in [Cells -> Byte]
  BY DEF Typed, MachineTypes
<1>5. WritesOnly(p, k, f)
  BY <1>3, <1>4 DEF WritesOnly
<1>6. \A b \in {PFN, PROTECTION, VALPRES} : mem'[At(p, k, b)] = Byte4(p, k, b)
  <2>1. \A b \in {PFN, PROTECTION, VALPRES} : At(p, k, b) \in Cells /\ At(p, k, b) # i
    BY <1>1, <1>2, <1>3, EntryBytes
  <2> QED BY <1>3, <1>4, <2>1 DEF Byte4
<1>7. Byte4(p, k, PROTECTION) \notin {16, 32, 48}
  BY <1>1 DEF Layout, Entries
<1>8. Home(p, k, f)' /\ Byte4(p, k, PROTECTION)' \notin {16, 32, 48}
  BY <1>2, <1>6, <1>7 DEF Home, Byte4, At
<1> QED BY <1>1, <1>2, <1>5, <1>8, KeepPageLayout

\* What map computes from the address of a cell of a new table.
LEMMA CellSplit ==
  ASSUME NEW t \in Frames, NEW n \in PTEs, NEW b \in PTEs
  PROVE  /\ InPage(Cell(t, n, b), t * PAGEMEM)
         /\ Cell(t, n, b) % PTE = b
         /\ (Cell(t, n, VPN) - t * PAGEMEM) \div PTE = n
         /\ \E i \in Offsets : Cell(t, n, b) = t * PAGEMEM + i
<1>1. t \in 0 .. 3 /\ n \in 0 .. 3 /\ b \in 0 .. 3
  BY DEF Frames, NUMPAGES, PTEs
<1>2. Cell(t, n, b) = 4 * (4 * t + n) + b /\ Cell(t, n, VPN) - t * PAGEMEM = 4 * n
  BY <1>1 DEF Cell, PAGEMEM, PTE, VPN
<1>3. Cell(t, n, b) % 4 = b /\ (4 * n) \div 4 = n
  BY <1>1, <1>2
<1>4. 4 * n + b \in Offsets /\ Cell(t, n, b) = t * PAGEMEM + (4 * n + b)
  BY <1>1 DEF Cell, PAGEMEM, PTE, Offsets
<1>5. InPage(Cell(t, n, b), t * PAGEMEM)
  BY CellsApart
<1> QED BY <1>2, <1>3, <1>4, <1>5 DEF PTE

\* map: a free frame becomes the page table of a process that had none.
LEMMA CreateLayout ==
  ASSUME Typed, Typed', Layout, NEW q \in Processes, pid = q, inmem[q] = NoTable,
         NEW f \in Frames, Take(f, TRUE), PointTo(f), swap' = swap,
         mem' = [i \in Cells |->
                   IF InPage(i, f * PAGEMEM) /\ i % PTE = VPN
                     THEN (i - f * PAGEMEM) \div PTE
                   ELSE IF InPage(i, f * PAGEMEM) /\ i % PTE = VALPRES
                     THEN Unallocated ELSE mem[i]]
  PROVE  Layout' /\ \A n \in PTEs : Byte4(q, n, VALPRES)' = Unallocated
<1>1. q \in 0 .. 3
  BY ProcessesAreNumbers
<1>2. freelist[f] = 1 /\ ~IsTable(f) /\ pages[f] = -1
  BY FreeNoTable DEF Take, FirstFree, FreeFrames
<1>3. /\ \A g \in Frames : g # f => /\ freelist'[g] = freelist[g] /\ pages'[g] = pages[g]
                                    /\ IsTable(g)' <=> IsTable(g)
      /\ freelist'[f] = 0 /\ pages'[f] = q /\ IsTable(f)'
  BY DEF Take, IsTable, Typed, MachineTypes
<1>4. /\ \A p \in 0 .. 3 : p # q => address'[p] = address[p] /\ inmem'[p] = inmem[p]
      /\ address'[q] = f * PAGEMEM /\ inmem'[q] = TableInMem
  BY <1>1 DEF PointTo, Typed, MachineTypes
<1>5. \A i \in Cells : ~InPage(i, f * PAGEMEM) => mem'[i] = mem[i]
  OBVIOUS
<1>6. ASSUME NEW n \in PTEs
      PROVE  /\ mem'[Cell(f, n, VPN)] = n /\ mem'[Cell(f, n, VALPRES)] = Unallocated
             /\ mem'[Cell(f, n, PFN)] = 0 /\ mem'[Cell(f, n, PROTECTION)] = 0
  <2>1. \A b \in {VPN, PFN, PROTECTION, VALPRES} :
          /\ Cell(f, n, b) \in Cells /\ InPage(Cell(f, n, b), f * PAGEMEM)
          /\ Cell(f, n, b) % PTE = b
          /\ mem[Cell(f, n, b)] = 0
    BY <1>2, BytesAreEntries, CellsApart, CellSplit DEF Layout, FreeFramesBlank, FreeFrames
  <2>2. (Cell(f, n, VPN) - f * PAGEMEM) \div PTE = n
    BY CellSplit, BytesAreEntries
  <2> QED BY <2>1, <2>2 DEF VPN, PFN, PROTECTION, VALPRES
<1>7. \A n \in PTEs, b \in {VPN, PFN, PROTECTION, VALPRES} :
        Byte4(q, n, b)' = mem'[Cell(f, n, b)]
  BY <1>4 DEF Byte4, At, Cell
<1>8. ASSUME NEW p \in 0 .. 3, p # q, inmem[p] # NoTable
      PROVE  /\ \E t \in Frames : address'[p] = t * PAGEMEM /\ pages'[t] = p /\ IsTable(t)'
             /\ \A n, b \in PTEs : Byte4(p, n, b)' = Byte4(p, n, b)
  <2>1. PICK t \in Frames : /\ address[p] = t * PAGEMEM /\ pages[t] = p /\ IsTable(t)
                            /\ \A n, b : At(p, n, b) = Cell(t, n, b)
    BY <1>8, TableOf DEF Layout
  <2>2. t # f
    BY <1>2, <2>1
  <2>3. \A n, b \in PTEs : mem'[Cell(t, n, b)] = mem[Cell(t, n, b)]
    BY <1>5, <2>2, CellsApart
  <2>4. \A n, b : At(p, n, b)' = At(p, n, b)
    BY <1>4, <1>8 DEF At
  <2>5. ASSUME NEW n \in PTEs, NEW b \in PTEs
        PROVE  Byte4(p, n, b)' = Byte4(p, n, b)
    <3>1. At(p, n, b)' = Cell(t, n, b) /\ At(p, n, b) = Cell(t, n, b)
      BY <2>1, <2>4
    <3> QED BY <2>3, <3>1 DEF Byte4
  <2> QED BY <1>3, <1>4, <1>8, <2>1, <2>2, <2>5
<1>9. Registers'
  <2>1. ASSUME NEW p \in 0 .. 3, inmem'[p] # NoTable
        PROVE  /\ inmem'[p] = TableInMem /\ p \in Processes
               /\ \E t \in Frames : address'[p] = t * PAGEMEM /\ pages'[t] = p /\ IsTable(t)'
               /\ \A n \in PTEs : Byte4(p, n, VPN)' = n
    <3>1. CASE p = q
      BY <1>3, <1>4, <1>6, <1>7, <3>1
    <3>2. CASE p # q
      <4>1. inmem[p] # NoTable
        BY <1>4, <2>1, <3>2
      <4>2. inmem[p] = TableInMem /\ p \in Processes /\ \A n \in PTEs : Byte4(p, n, VPN) = n
        BY <4>1 DEF Layout, Registers
      <4> QED BY <1>4, <1>8, <3>2, <4>1, <4>2, BytesAreEntries
    <3> QED BY <3>1, <3>2
  <2> QED BY <2>1 DEF Registers
<1>10. TableFrames'
  <2>1. ASSUME NEW t \in Frames, IsTable(t)'
        PROVE  \E p \in 0 .. 3 : pages'[t] = p /\ inmem'[p] = TableInMem /\ address'[p] = t * PAGEMEM
    <3>1. CASE t = f
      BY <1>1, <1>3, <1>4, <3>1
    <3>2. CASE t # f
      <4>1. IsTable(t) /\ pages'[t] = pages[t]
        BY <1>3, <2>1, <3>2
      <4>2. PICK p \in 0 .. 3 : pages[t] = p
        BY <4>1 DEF Layout, TableFrames, Typed, MachineTypes
      <4>3. inmem[p] = TableInMem /\ address[p] = t * PAGEMEM
        BY <4>1, <4>2 DEF Layout, TableFrames
      <4>4. p # q
        BY <4>3 DEF TableInMem, NoTable
      <4> QED BY <1>4, <4>1, <4>2, <4>3, <4>4
    <3> QED BY <3>1, <3>2
  <2> QED BY <2>1 DEF TableFrames
<1>11. ASSUME NEW p \in 0 .. 3, p # q, inmem[p] # NoTable, NEW n \in PTEs, NEW g \in Frames
       PROVE  Home(p, n, g)' <=> Home(p, n, g)
  BY <1>8, <1>11, BytesAreEntries DEF Home
<1>12. Entries'
  <2>1. ASSUME NEW p \in 0 .. 3, NEW n \in PTEs, inmem'[p] = TableInMem
        PROVE  /\ Byte4(p, n, VALPRES)' \in {Unallocated, OnDisk, Present}
               /\ Byte4(p, n, PROTECTION)' \notin {16, 32, 48}
               /\ Byte4(p, n, VALPRES)' # Present => Byte4(p, n, PFN)' < 16
               /\ Byte4(p, n, VALPRES)' = OnDisk => Byte4(p, n, PFN)' < linecount'
               /\ Byte4(p, n, VALPRES)' = Present =>
                    \E g \in Frames : Home(p, n, g)' /\ pages'[g] = p /\ ~IsTable(g)'
    <3>1. CASE p = q
      <4>1. /\ Byte4(p, n, VALPRES)' = Unallocated /\ Byte4(p, n, PROTECTION)' = 0
            /\ Byte4(p, n, PFN)' = 0
        BY <1>6, <1>7, <3>1
      <4> QED BY <4>1 DEF Unallocated, OnDisk, Present
    <3>2. CASE p # q
      <4>1. inmem[p] = TableInMem /\ inmem[p] # NoTable
        BY <1>4, <2>1, <3>2 DEF TableInMem, NoTable
      <4>2. /\ Byte4(p, n, PFN)' = Byte4(p, n, PFN)
            /\ Byte4(p, n, PROTECTION)' = Byte4(p, n, PROTECTION)
            /\ Byte4(p, n, VALPRES)' = Byte4(p, n, VALPRES)
        BY <1>8, <3>2, <4>1, BytesAreEntries
      <4>3. ASSUME Byte4(p, n, VALPRES) = Present
            PROVE  \E g \in Frames : Home(p, n, g)' /\ pages'[g] = p /\ ~IsTable(g)'
        <5>1. PICK g \in Frames : Home(p, n, g) /\ pages[g] = p /\ ~IsTable(g)
          BY <4>1, <4>3 DEF Layout, Entries
        <5>2. g # f
          BY <1>2, <5>1
        <5> QED BY <1>3, <1>11, <3>2, <4>1, <5>1, <5>2
      <4>4. linecount' = linecount
        BY DEF linecount
      <4>5. /\ Byte4(p, n, VALPRES) \in {Unallocated, OnDisk, Present}
            /\ Byte4(p, n, PROTECTION) \notin {16, 32, 48}
            /\ Byte4(p, n, VALPRES) # Present => Byte4(p, n, PFN) < 16
            /\ Byte4(p, n, VALPRES) = OnDisk => Byte4(p, n, PFN) < linecount
        BY <4>1 DEF Layout, Entries
      <4>6. Byte4(p, n, VALPRES)' = Present =>
              \E g \in Frames : Home(p, n, g)' /\ pages'[g] = p /\ ~IsTable(g)'
        BY <4>2, <4>3
      <4>7. Byte4(p, n, VALPRES)' = OnDisk => Byte4(p, n, PFN)' < linecount'
        BY <4>2, <4>4, <4>5
      <4> QED BY <4>2, <4>5, <4>6, <4>7
    <3> QED BY <3>1, <3>2
  <2> QED BY <2>1 DEF Entries
<1>13. Pages'
  <2>1. ASSUME NEW g \in Frames, IsPage(g)'
        PROVE  \E p \in 0 .. 3 :
                 /\ pages'[g] = p /\ inmem'[p] = TableInMem
                 /\ \E n \in PTEs : Home(p, n, g)' /\ \A m \in PTEs : Home(p, m, g)' => m = n
    <3>1. g # f
      BY <1>3, <2>1 DEF IsPage, IsTable
    <3>2. ispagetable'[g] = ispagetable[g]
      BY <3>1 DEF Take, Typed, MachineTypes
    <3>3. IsPage(g) /\ pages'[g] = pages[g]
      BY <1>3, <2>1, <3>1, <3>2 DEF IsPage
    <3>4. PICK p \in 0 .. 3 : pages[g] = p /\ inmem[p] = TableInMem
      BY <3>3, PageHolder
    <3>5. p # q /\ inmem[p] # NoTable
      BY <3>4 DEF TableInMem, NoTable
    <3>6. PICK n \in PTEs : Home(p, n, g) /\ \A m \in PTEs : Home(p, m, g) => m = n
      BY <3>3, <3>4 DEF Layout, Pages
    <3> QED BY <1>4, <1>11, <3>3, <3>4, <3>5, <3>6
  <2> QED BY <2>1 DEF Pages
<1>14. FreeFramesBlank'
  <2> SUFFICES ASSUME NEW g \in Frames, freelist'[g] = 1, NEW i \in Offsets
               PROVE  mem'[g * PAGEMEM + i] = 0
    BY DEF FreeFramesBlank, FreeFrames
  <2>1. g # f /\ freelist[g] = 1
    BY <1>3
  <2>2. mem'[g * PAGEMEM + i] = mem[g * PAGEMEM + i]
    BY <1>5, <2>1, CellsOfFrames
  <2> QED BY <2>1, <2>2 DEF Layout, FreeFramesBlank, FreeFrames
<1>15. FrameBooks'
  BY <1>1, <1>3 DEF Layout, FrameBooks
<1>16. FirstFrame'
  <2>1. 0 \in Frames /\ \A g \in Frames : g <= 0 => g = 0
    BY DEF Frames, NUMPAGES
  <2>2. CASE IsTable(0)
    BY <1>3, <2>1, <2>2 DEF FirstFrame
  <2>3. CASE \A g \in Frames : Unused(g)
    <3>1. f = 0
      BY <2>1, <2>3 DEF Take, FirstFree, FreeFrames, Unused
    <3> QED BY <1>3, <3>1 DEF FirstFrame
  <2> QED BY <2>2, <2>3 DEF Layout, FirstFrame
<1>17. \A n \in PTEs : Byte4(q, n, VALPRES)' = Unallocated
  BY <1>6, <1>7
<1> QED BY <1>9, <1>10, <1>12, <1>13, <1>14, <1>15, <1>16, <1>17 DEF Layout

-----------------------------------------------------------------------------
(* The free frames.                                                         *)

\* There are four frames,
LEMMA FramesCount == IsFiniteSet(Frames) /\ Cardinality(Frames) = 4
<1>1. \A a, b \in Int : /\ IsFiniteSet(a .. b)
                        /\ Cardinality(a .. b) = IF a > b THEN 0 ELSE b - a + 1
  BY FS_Interval
<1>2. IsFiniteSet(0 .. 3) /\ Cardinality(0 .. 3) = IF 0 > 3 THEN 0 ELSE 3 - 0 + 1
  <2>1. 0 \in Int /\ 3 \in Int
    OBVIOUS
  <2> QED BY <1>1, <2>1, Zenon
<1> QED BY <1>2 DEF Frames, NUMPAGES

\* finitely many of them are free,
LEMMA FreeFinite == IsFiniteSet(FreeFrames)
<1>1. FreeFrames \in SUBSET Frames
  BY DEF FreeFrames
<1> QED BY <1>1, FramesCount, FS_Subset

\* and what BetweenCommands and the others say of the free frames can be told from
\* their number.
LEMMA CountFrames ==
  ASSUME NEW F \in SUBSET Frames
  PROVE  /\ Cardinality(F) = 0 <=> F = {}
         /\ Cardinality(F) = 1 <=> \E f \in Frames : F = {f}
         /\ \A f, g \in Frames : F = {f, g} /\ f # g => Cardinality(F) = 2
         /\ F = Frames => Cardinality(F) = 4
<1>1. IsFiniteSet(F)
  BY FramesCount, FS_Subset
<1>2. Cardinality(F) = 0 <=> F = {}
  BY <1>1, FS_EmptySet
<1>3. Cardinality(F) = 1 <=> \E f \in Frames : F = {f}
  BY <1>1, FS_Singleton
<1>4. ASSUME NEW f \in Frames, NEW g \in Frames, F = {f, g}, f # g
      PROVE  Cardinality(F) = 2
  <2> DEFINE G == {f}
  <2>1. IsFiniteSet(G) /\ Cardinality(G) = 1 /\ g \notin G /\ G \cup {g} = F
    BY <1>4, FS_Singleton
  <2> HIDE DEF G
  <2>2. Cardinality(G \cup {g}) = Cardinality(G) + 1
    BY <2>1, FS_AddElement
  <2>3. Cardinality(F) = 1 + 1
    BY <2>1, <2>2, Zenon
  <2> QED BY <2>3
<1> QED BY <1>2, <1>3, <1>4, FramesCount

\* A frame is freed: there is one more.
LEMMA FreedCount ==
  ASSUME Typed, NEW v \in Frames, freelist[v] = 0, Freed(v)
  PROVE  /\ FreeFrames' = FreeFrames \cup {v}
         /\ Cardinality(FreeFrames') = Cardinality(FreeFrames) + 1
<1>1. FreeFrames' = FreeFrames \cup {v}
  BY DEF FreeFrames, Freed, Typed, MachineTypes
<1>2. v \notin FreeFrames
  BY DEF FreeFrames
<1> QED BY <1>1, <1>2, FreeFinite, FS_AddElement

\* findfree's frame is free before and not after.
LEMMA Taken ==
  ASSUME Typed, NEW f \in Frames, NEW isTable, Take(f, isTable)
  PROVE  f \in FreeFrames /\ FreeFrames' = FreeFrames \ {f} /\ \A g \in FreeFrames : f <= g
BY DEF Take, FirstFree, FreeFrames, Typed, MachineTypes

-----------------------------------------------------------------------------
(* There are too few processes for the tables to fill the memory.           *)

\* No process has two tables.
LEMMA OneTableEach ==
  ASSUME Typed, Layout, NEW f \in Frames, NEW g \in Frames, IsTable(f), IsTable(g)
  PROVE  /\ pages[f] \in Processes /\ inmem[pages[f]] = TableInMem
         /\ pages[f] = pages[g] => f = g
<1>1. pages[f] \in 0 .. 3 /\ inmem[pages[f]] = TableInMem /\ address[pages[f]] = f * PAGEMEM
  BY DEF Layout, TableFrames, Typed, MachineTypes
<1>2. pages[f] \in Processes
  BY <1>1 DEF Layout, Registers, TableInMem, NoTable
<1>3. pages[f] = pages[g] => f = g
  BY <1>1 DEF Layout, TableFrames, Frames, NUMPAGES, PAGEMEM
<1> QED BY <1>1, <1>2, <1>3

\* The four frames are never all tables, nor three of them while freespace works
\* for a process without one.
LEMMA TooFewTables ==
  ASSUME Typed, Layout, CarefulUser
  PROVE  /\ \E f \in Frames : ~IsTable(f)
         /\ inmem[pid] = NoTable /\ pid \in Processes =>
              \A f, g, h \in Frames : f # g /\ g # h /\ f # h =>
                ~(IsTable(f) /\ IsTable(g) /\ IsTable(h))
<1>1. PICK x \in 0 .. 3 : x \notin Processes
  BY MemoryAssumption DEF CarefulUser
<1>2. \A f \in Frames : IsTable(f) => pages[f] \in (0 .. 3) \ {x} /\ pages[f] \in Processes
  BY <1>1, OneTableEach, ProcessesAreNumbers
<1>3. ASSUME \A f \in Frames : IsTable(f)
      PROVE  FALSE
  <2>1. /\ pages[0] # pages[1] /\ pages[0] # pages[2] /\ pages[0] # pages[3]
        /\ pages[1] # pages[2] /\ pages[1] # pages[3] /\ pages[2] # pages[3]
    BY <1>3, OneTableEach DEF Frames, NUMPAGES
  <2>2. \A f \in {0, 1, 2, 3} : pages[f] \in 0 .. 3 /\ pages[f] # x
    BY <1>2, <1>3 DEF Frames, NUMPAGES
  <2> QED BY <2>1, <2>2
<1>4. ASSUME inmem[pid] = NoTable, pid \in Processes,
             NEW f \in Frames, NEW g \in Frames, NEW h \in Frames, f # g, g # h, f # h,
             IsTable(f), IsTable(g), IsTable(h)
      PROVE  FALSE
  <2>1. pages[f] # pages[g] /\ pages[g] # pages[h] /\ pages[f] # pages[h]
    BY <1>4, OneTableEach
  <2>2. pages[f] # pid /\ pages[g] # pid /\ pages[h] # pid
    BY <1>4, OneTableEach DEF NoTable, TableInMem
  <2>3. pid \in 0 .. 3 /\ pid # x
    BY <1>1, <1>4, ProcessesAreNumbers
  <2>4. /\ pages[f] \in 0 .. 3 /\ pages[g] \in 0 .. 3 /\ pages[h] \in 0 .. 3
        /\ pages[f] # x /\ pages[g] # x /\ pages[h] # x
    BY <1>2, <1>4
  <2> QED BY <2>1, <2>2, <2>3, <2>4
<1> QED BY <1>3, <1>4

\* The frame the hand stops at is no table; with few tables it is soon there.
LEMMA HandStops ==
  ASSUME Typed, Layout, CarefulUser, NEW r \in Frames
  PROVE  /\ Passed(r) \in 0 .. 3
         /\ (r + Passed(r)) % NUMPAGES \in Frames
         /\ ~IsTable((r + Passed(r)) % NUMPAGES)
         /\ inmem[pid] = NoTable /\ pid \in Processes => Passed(r) <= 2
         /\ ~IsTable(r) => Passed(r) = 0
<1>1. OwnTable(r) => IsTable(r)
  <2>1. ASSUME OwnTable(r)
        PROVE  IsTable(r)
    <3>1. pid \in 0 .. 3 /\ inmem[pid] # NoTable
      BY <2>1 DEF OwnTable, Typed, RequestTypes, TableInMem, NoTable
    <3>2. PICK t \in Frames : address[pid] = t * PAGEMEM /\ IsTable(t)
      BY <3>1, TableOf DEF Layout
    <3>3. t = r
      BY <2>1, <3>2 DEF OwnTable, Frames, NUMPAGES, PAGEMEM
    <3> QED BY <3>2, <3>3
  <2> QED BY <2>1
<1>2. /\ (r + 0) % NUMPAGES = r
      /\ \A d \in 0 .. 4 : (r + d) % NUMPAGES \in Frames
      /\ \A f \in Frames : \E d \in 0 .. 3 : (r + d) % NUMPAGES = f
      /\ (r + 0) % NUMPAGES # (r + 1) % NUMPAGES
      /\ (r + 1) % NUMPAGES # (r + 2) % NUMPAGES
      /\ (r + 0) % NUMPAGES # (r + 2) % NUMPAGES
  BY DEF Frames, NUMPAGES
<1>3. \A d \in 0 .. 3 : d < Passed(r) => IsTable((r + d) % NUMPAGES)
  <2>1. ASSUME NEW d \in 0 .. 3, d < Passed(r)
        PROVE  IsTable((r + d) % NUMPAGES)
    <3>1. CASE d = 0 /\ OwnTable(r)
      BY <1>1, <1>2, <3>1
    <3>2. CASE d >= 1 \/ ~OwnTable(r)
      BY <2>1, <3>2, PassedRange DEF IsTable
    <3> QED BY <3>1, <3>2
  <2> QED BY <2>1
<1>4. Passed(r) \in 0 .. 3
  <2>1. CASE Passed(r) = 4
    <3>1. \A f \in Frames : IsTable(f)
      BY <1>2, <1>3, <2>1
    <3> QED BY <3>1, TooFewTables
  <2> QED BY <2>1, PassedRange
<1>5. ~IsTable((r + Passed(r)) % NUMPAGES)
  BY <1>4, PassedRange DEF IsTable
<1>6. ASSUME inmem[pid] = NoTable, pid \in Processes
      PROVE  Passed(r) <= 2
  <2>1. CASE Passed(r) = 3
    <3>1. /\ IsTable((r + 0) % NUMPAGES) /\ IsTable((r + 1) % NUMPAGES)
          /\ IsTable((r + 2) % NUMPAGES)
      BY <1>3, <2>1
    <3> QED BY <1>2, <1>6, <3>1, TooFewTables
  <2> QED BY <1>4, <2>1
<1>7. ~IsTable(r) => Passed(r) = 0
  BY <1>2, <1>3, <1>4
<1> QED BY <1>2, <1>4, <1>5, <1>6, <1>7

-----------------------------------------------------------------------------
(* freespace finds what it was called for in its first loop.                *)

USE DEF Idle, Evicting, Tables, Create, LoadTable, MapPage, Allocate, SwapIn, LoadPage,
        Answer, Exited, Wild

\* Is the entry the command is about still v?
LEMMA EntryStays ==
  ASSUME Typed, NEW v, v # Present, InTable(v),
         UNCHANGED <<pid, vaddr, inmem>>,
         \A p \in 0 .. 3, n \in PTEs :
           inmem[p] = TableInMem /\ Byte4(p, n, VALPRES) # Present
             => Byte4(p, n, VALPRES)' = Byte4(p, n, VALPRES),
         address' = address
  PROVE  InTable(v)'
<1>1. PICK p \in 0 .. 3, a \in 0 .. 63 : pid = p /\ vaddr = a
  BY DEF Typed, RequestTypes
<1>2. PICK n \in PTEs : /\ vpage(a) = n /\ inmem[p] = TableInMem
                        /\ valpres(p, a) = Byte4(p, n, VALPRES)
                        /\ findpte(p, a) + VALPRES = At(p, n, VALPRES)
  BY <1>1, EntryOfCommand DEF InTable
<1>3. Byte4(p, n, VALPRES)' = v
  BY <1>1, <1>2 DEF InTable
<1>4. findpte(p, a)' = findpte(p, a) /\ At(p, n, VALPRES)' = At(p, n, VALPRES)
  BY DEF findpte, At
<1>5. valpres(p, a)' = Byte4(p, n, VALPRES)'
  BY <1>2, <1>4 DEF valpres, Byte4
<1> QED BY <1>1, <1>2, <1>3, <1>5 DEF InTable, Resident

\* What the rest of the command relies on outlasts a page that is removed.
LEMMA AskedStays ==
  ASSUME Typed, NEW to, Asked(to), to' = to,
         UNCHANGED <<request, inmem, address>>,
         \A p \in 0 .. 3, n \in PTEs :
           inmem[p] = TableInMem /\ Byte4(p, n, VALPRES) # Present
             => Byte4(p, n, VALPRES)' = Byte4(p, n, VALPRES)
  PROVE  Asked(to)'
<1>1. UNCHANGED <<op, pid, vaddr>>
  BY DEF request
<1>2. InTable(Unallocated) => InTable(Unallocated)'
  BY <1>1, EntryStays DEF Unallocated, Present
<1>3. InTable(OnDisk) => InTable(OnDisk)'
  BY <1>1, EntryStays DEF OnDisk, Present
<1> QED BY <1>1, <1>2, <1>3 DEF Asked

\* The frame the first loop looks at, if it may still take it, holds a page.
LEMMA VictimIsPage ==
  ASSUME CarefulUser, Typed, Layout, Freeing, Short, found < need,
         NEW r \in Frames, roundrobin = r,
         NEW v \in Frames, v = (r + Passed(r)) % NUMPAGES,
         removed[v] = 0
  PROVE  IsPage(v)
<1>1. ~IsTable(v)
  BY HandStops
<1>2. freelist[v] # 1
  <2>1. CASE \A f \in Frames : Unused(f) <=> removed[f] = 1
    BY <2>1 DEF Unused
  <2>2. CASE FreeFrames = {3} /\ roundrobin = 2 /\ \A f \in Frames : IsTable(f) <=> f = 0
    <3>1. Passed(r) = 0
      BY <2>2, HandStops
    <3>2. v = 2
      BY <2>2, <3>1 DEF NUMPAGES
    <3> QED BY <2>2, <3>2 DEF FreeFrames
  <2> QED BY <2>1, <2>2 DEF Short
<1> QED BY <1>1, <1>2 DEF IsPage, IsTable, Typed, MachineTypes

\* It is one frame more, and freespace has enough or still one to find.
LEMMA FoundOneMore ==
  ASSUME Typed, Typed', Freeing, Short, found < need, linecount <= MaxLines,
         NEW v \in Frames, freelist[v] = 0, removed[v] = 0, Freed(v),
         removed' = [removed EXCEPT ![v] = 1], found' = found + 1,
         linecount' = linecount + 1, UNCHANGED <<need, ret>>,
         need = 2 => pc' = Evicting
  PROVE  Freeing' /\ linecount' <= MaxLines
<1>1. /\ found = Cardinality(FreeFrames) /\ found \in 0 .. 4 /\ linecount \in Nat
      /\ need = IF ret = Create THEN 2 ELSE 1
      /\ ret \in {Create, Allocate, LoadPage}
      /\ FreeFrames \in SUBSET Frames /\ FreeFrames' \in SUBSET Frames
      /\ linecount + (need - found) <= MaxLines
      /\ MaxLines \in Nat
  BY MemoryAssumption DEF Freeing, Short, Typed, EvictorTypes, MachineTypes, FreeFrames, linecount
<1>2. /\ FreeFrames' = FreeFrames \cup {v} /\ v \notin FreeFrames
      /\ found' = Cardinality(FreeFrames')
  <2>1. v \notin FreeFrames
    BY DEF FreeFrames
  <2>2. /\ FreeFrames' = FreeFrames \cup {v}
        /\ Cardinality(FreeFrames') = Cardinality(FreeFrames) + 1
    BY FreedCount
  <2> QED BY <1>1, <2>1, <2>2
<1>3. linecount' <= MaxLines
  BY <1>1
<1>4. CASE ret # Create
  <2>1. found = 0 /\ found' = 1
    BY <1>1, <1>4
  <2>2. \E f \in Frames : FreeFrames' = {f}
    BY <1>1, <1>2, <2>1, CountFrames
  <2> QED BY <1>1, <1>2, <1>3, <1>4, <2>1, <2>2 DEF Freeing, Enough, OneFree
<1>5. CASE ret = Create /\ found = 1
  <2>1. PICK g \in Frames : FreeFrames = {g}
    BY <1>1, <1>5, CountFrames
  <2>2. TwoFree'
    BY <1>2, <2>1 DEF TwoFree
  <2> QED BY <1>1, <1>2, <1>3, <1>5, <2>2 DEF Freeing, Enough
<1>6. CASE ret = Create /\ found = 0
  <2>1. FreeFrames = {}
    BY <1>1, <1>6, CountFrames
  <2>2. \A f \in Frames : Unused(f) <=> removed[f] = 1
    BY <2>1 DEF Short
  <2>3. \A f \in Frames : Unused(f)' <=> removed'[f] = 1
    BY <2>2 DEF Unused, Freed, Typed, MachineTypes, EvictorTypes
  <2>4. linecount' + (need' - found') <= MaxLines
    BY <1>1, <1>6
  <2>5. Short'
    BY <1>1, <1>6, <2>3, <2>4 DEF Short
  <2> QED BY <1>1, <1>2, <1>3, <1>6, <2>5 DEF Freeing
<1>7. found \in {0, 1}
  BY <1>1
<1> QED BY <1>4, <1>5, <1>6, <1>7

\* One round of the first loop.
LEMMA EvictPageCareful ==
  ASSUME CarefulUser, CarefulInv, Typed', EvictPage
  PROVE  CarefulInv'
<1>1. /\ pc = Evicting /\ found < need /\ Freeing /\ Short /\ Asked(ret)
      /\ Typed /\ Layout /\ Cautious /\ linecount <= MaxLines
  BY DEF EvictPage, CarefulInv, Control, Freeing
<1>2. PICK r \in Frames : roundrobin = r
  BY <1>1 DEF Typed, OtherTypes
<1>3. PICK j \in 0 .. 3 : Passed(r) = j
  BY <1>1, HandStops
<1>4. PICK v \in Frames : v = (r + j) % NUMPAGES
  BY <1>1, <1>3, HandStops
<1>5. need = 2 => j <= 2
  <2>1. need = 2 => inmem[pid] = NoTable /\ pid \in Processes
    BY <1>1 DEF Freeing, Asked
  <2> QED BY <1>1, <1>3, <2>1, HandStops
<1>6. removed[v] = 0 => IsPage(v) /\ RemovalDefined(v)
  BY <1>1, <1>2, <1>3, <1>4, VictimIsPage, PageRemovable
<1>7. \/ /\ removed[v] = 0 /\ RemovePage(v)
         /\ removed' = [removed EXCEPT ![v] = 1] /\ found' = found + 1
         /\ pc' = IF j + 1 = 4 THEN Tables ELSE Evicting
         /\ UNCHANGED <<request, need, ret>>
      \/ /\ removed[v] = 1 /\ pc' = IF j + 1 = 4 THEN Tables ELSE Evicting
         /\ UNCHANGED <<machine, request, evictor>>
  BY <1>2, <1>3, <1>4, <1>6 DEF EvictPage, Goto
<1>8. /\ linecount < 16 /\ linecount \in Nat
      /\ linecount + (need - found) <= MaxLines
      /\ need \in 1 .. 2 /\ found \in Nat /\ MaxLines \in Nat
  <2>1. linecount \in Nat /\ need \in 1 .. 2 /\ found \in Nat /\ MaxLines \in Nat
    BY <1>1, MemoryAssumption DEF Freeing, Typed, EvictorTypes, MachineTypes, linecount
  <2> QED BY <1>1, <2>1 DEF Short, CarefulUser
<1>9. CASE /\ removed[v] = 0 /\ RemovePage(v)
           /\ removed' = [removed EXCEPT ![v] = 1] /\ found' = found + 1
           /\ pc' = IF j + 1 = 4 THEN Tables ELSE Evicting
           /\ UNCHANGED <<request, need, ret>>
  <2>1. IsPage(v) /\ freelist[v] = 0
    BY <1>6, <1>9 DEF IsPage
  <2>2. /\ Layout'
        /\ \A p \in 0 .. 3, n \in PTEs :
             inmem[p] = TableInMem /\ Byte4(p, n, VALPRES) # Present
               => Byte4(p, n, VALPRES)' = Byte4(p, n, VALPRES)
    BY <1>1, <1>8, <1>9, <2>1, RemovePageLayout
  <2>3. linecount' = linecount + 1 /\ Freed(v) /\ inmem' = inmem /\ address' = address
    BY <1>1, <1>9 DEF RemovePage, linecount, Typed, MachineTypes
  <2>4. Freeing' /\ linecount' <= MaxLines
    <3>1. need = 2 => pc' = Evicting
      BY <1>5, <1>9
    <3> QED BY <1>1, <1>9, <2>1, <2>3, <3>1, FoundOneMore
  <2>5. Asked(ret)'
    <3>1. PICK to : ret = to
      OBVIOUS
    <3>2. Asked(to)'
      BY <1>1, <1>9, <2>2, <2>3, <3>1, AskedStays
    <3> QED BY <1>9, <3>1, <3>2
  <2>6. Control'
    BY <1>9, <2>4, <2>5 DEF Control
  <2>7. Cautious'
    BY <1>1, <1>9 DEF Cautious, request
  <2> QED BY <2>2, <2>4, <2>6, <2>7 DEF CarefulInv
<1>10. CASE /\ removed[v] = 1 /\ pc' = IF j + 1 = 4 THEN Tables ELSE Evicting
            /\ UNCHANGED <<machine, request, evictor>>
  <2>1. \A f \in Frames : Unused(f) <=> removed[f] = 1
    BY <1>1, <1>10 DEF Short
  <2>2. need = 2
    <3>1. v \in FreeFrames
      BY <1>10, <2>1 DEF FreeFrames, Unused
    <3>2. FreeFrames \in SUBSET Frames /\ FreeFrames # {}
      BY <3>1 DEF FreeFrames
    <3>3. found # 0
      BY <1>1, <3>2, CountFrames DEF Freeing
    <3> QED BY <1>1, <1>8, <3>3
  <2>3. pc' = Evicting
    BY <1>5, <1>10, <2>2
  <2>4. /\ linecount' = linecount /\ FreeFrames' = FreeFrames
        /\ \A f \in Frames : Unused(f)' <=> Unused(f)
        /\ UNCHANGED <<need, found, removed, ret, op, pid, vaddr, val, inmem, address, mem>>
    BY <1>10 DEF machine, evictor, request, linecount, FreeFrames, Unused
  <2>5. Freeing'
    BY <1>1, <2>1, <2>3, <2>4 DEF Freeing, Short
  <2>6. Asked(ret)'
    BY <1>1, <2>4 DEF Asked, InTable, Resident, valpres, findpte
  <2>7. Control'
    BY <2>3, <2>5, <2>6 DEF Control
  <2>8. Layout' /\ Cautious'
    BY <1>1, <1>10, <2>4, SameLayout DEF Cautious
  <2> QED BY <1>1, <2>4, <2>7, <2>8 DEF CarefulInv
<1> QED BY <1>7, <1>9, <1>10

-----------------------------------------------------------------------------
(* The other steps.                                                         *)

\* What holds on while the machine stays as it is.
LEMMA SameMemory ==
  ASSUME CarefulInv, UNCHANGED machine
  PROVE  /\ Layout' /\ linecount' = linecount /\ linecount' <= MaxLines
         /\ FreeFrames' = FreeFrames
         /\ \A f \in Frames : (IsTable(f)' <=> IsTable(f)) /\ (Unused(f)' <=> Unused(f))
         /\ UNCHANGED <<pid, vaddr>> =>
              \A v : (InTable(v)' <=> InTable(v)) /\ (Resident(pid)' <=> Resident(pid))
<1>1. UNCHANGED <<mem, freelist, ispagetable, address, inmem, swap>>
  BY DEF machine
<1>2. Layout' /\ linecount' = linecount
  BY <1>1, SameLayout DEF CarefulInv, linecount
<1> QED BY <1>1, <1>2 DEF CarefulInv, FreeFrames, IsTable, Unused, InTable, Resident, valpres, findpte

\* A command ends with the frames as they are between commands.
LEMMA DoneCareful ==
  ASSUME CarefulInv, Typed', Layout', Done, BetweenCommands,
         UNCHANGED <<freelist, ispagetable, swap>>
  PROVE  CarefulInv'
<1>1. /\ linecount' = linecount /\ FreeFrames' = FreeFrames /\ roundrobin' = roundrobin
      /\ \A f \in Frames : IsTable(f)' <=> IsTable(f)
  BY DEF linecount, FreeFrames, Done, IsTable
<1>2. BetweenCommands'
  BY <1>1 DEF BetweenCommands, Filling, NoneFree
<1>3. Control'
  BY <1>2 DEF Control, Done, Goto
<1>4. Cautious'
  BY DEF Cautious, Done, Begin
<1> QED BY <1>1, <1>3, <1>4 DEF CarefulInv

\* It ends with what a store or a load of a page in memory does.
LEMMA AnswerCareful ==
  ASSUME CarefulInv, Typed', BetweenCommands, NEW p \in 0 .. 3, NEW a \in 0 .. 63, Resident(p),
         valpres(p, a) = Present, (\E v : Write(p, a, v)) \/ Read(p, a)
  PROVE  CarefulInv'
<1>0. Typed /\ Layout
  BY DEF CarefulInv
<1>1. convert(a, p) \in Cells
  BY <1>0, PresentAddress
<1>2. CASE Done /\ UNCHANGED machine
  BY <1>2, SameMemory, DoneCareful DEF machine
<1>3. ASSUME NEW v, mem' = [mem EXCEPT ![convert(a, p)] = v], Done,
             UNCHANGED <<freelist, pages, ispagetable, address, inmem, swap>>
      PROVE  CarefulInv'
  BY <1>0, <1>3, WriteLayout, DoneCareful
<1> QED BY <1>1, <1>2, <1>3 DEF Write, Read

\* freespace is called when the frames are as between commands.
LEMMA CallCareful ==
  ASSUME CarefulInv, Typed', UNCHANGED machine, BetweenCommands, linecount < MaxLines,
         NEW n, NEW p, NEW back \in {Create, Allocate, LoadPage}, CallFreespace(n, p, back),
         n = IF back = Create THEN 2 ELSE 1,
         back # Create => NoneFree,
         back = Create => linecount + 2 <= MaxLines,
         Asked(back)', Cautious'
  PROVE  CarefulInv'
<1>1. /\ need' = n /\ found' = Cardinality(FreeFrames) /\ removed' = [f \in Frames |-> 0]
      /\ ret' = back /\ roundrobin' = robin(roundrobin) /\ pc' = Evicting
  BY DEF CallFreespace, Goto
<1>2. /\ Layout' /\ linecount' = linecount /\ linecount' <= MaxLines
      /\ FreeFrames' = FreeFrames
      /\ \A f \in Frames : (IsTable(f)' <=> IsTable(f)) /\ (Unused(f)' <=> Unused(f))
  BY SameMemory
<1>3. linecount \in Nat /\ MaxLines \in Nat
  BY MemoryAssumption DEF CarefulInv, Typed, MachineTypes, linecount
<1>4. ASSUME NoneFree
      PROVE  Freeing'
  <2>1. found' = 0 /\ FreeFrames = {}
    BY <1>1, <1>4, CountFrames DEF NoneFree
  <2>2. \A f \in Frames : Unused(f)' <=> removed'[f] = 1
    BY <1>1, <1>2, <2>1 DEF Unused, FreeFrames
  <2>3. linecount' + (need' - found') <= MaxLines
    BY <1>1, <1>2, <1>3, <2>1
  <2>4. Short'
    BY <1>1, <2>2, <2>3 DEF Short
  <2> QED BY <1>1, <1>2, <2>1, <2>4 DEF Freeing
<1>5. ASSUME back = Create /\ FreeFrames = Frames /\ roundrobin = 0 /\ linecount = 0
      PROVE  Freeing'
  <2>1. found' = 4 /\ roundrobin' = 1
    BY <1>1, <1>5, CountFrames DEF robin, NUMPAGES
  <2> QED BY <1>1, <1>2, <1>5, <2>1 DEF Freeing, Enough
<1>6. ASSUME back = Create /\ Filling({2, 3})
      PROVE  Freeing'
  <2>1. 2 \in Frames /\ 3 \in Frames /\ FreeFrames = {2, 3}
    BY <1>6 DEF Frames, NUMPAGES, Filling
  <2>2. found' = 2 /\ TwoFree'
    BY <1>1, <1>2, <2>1, CountFrames DEF TwoFree
  <2> QED BY <1>1, <1>2, <1>6, <2>2 DEF Freeing, Enough
<1>7. ASSUME back = Create /\ Filling({3})
      PROVE  Freeing'
  <2>1. 3 \in Frames /\ FreeFrames = {3}
    BY <1>7 DEF Frames, NUMPAGES, Filling
  <2>2. found' = 1 /\ roundrobin' = 2
    BY <1>1, <1>7, <2>1, CountFrames DEF robin, NUMPAGES, Filling
  <2>3. linecount' + (need' - found') <= MaxLines
    BY <1>1, <1>2, <1>3, <1>7, <2>2
  <2>4. Short'
    BY <1>1, <1>2, <1>7, <2>1, <2>2, <2>3 DEF Short, Filling
  <2> QED BY <1>1, <1>2, <1>7, <2>2, <2>4 DEF Freeing
<1>8. Freeing'
  <2>1. BetweenCommands => \/ NoneFree \/ Filling({2, 3}) \/ Filling({3})
                           \/ FreeFrames = Frames /\ roundrobin = 0 /\ linecount = 0
    BY DEF BetweenCommands
  <2> QED BY <1>4, <1>5, <1>6, <1>7, <2>1
<1>9. Control'
  BY <1>1, <1>8 DEF Control
<1> QED BY <1>2, <1>9 DEF CarefulInv

\* What the careful user looks at is the valid byte.
LEMMA OnDiskByte ==
  ASSUME Typed, NEW p \in 0 .. 3, Resident(p), NEW a \in 0 .. 63
  PROVE  PageOnDisk(p, a) <=> valpres(p, a) = OnDisk
<1>1. PICK n \in 0 .. 3 : vpage(a) = n
  BY VpageIsEntry
<1>2. inmem[p] = TableInMem /\ inmem[p] # NoTable /\ address[p] \in Nat
  BY DEF Resident, TableInMem, NoTable, Typed, MachineTypes
<1>3. PTE * n + VALPRES \in Offsets
  BY DEF PTE, VALPRES, Offsets, PAGEMEM
<1>4. Table(p)[PTE * n + VALPRES] = mem[address[p] + (PTE * n + VALPRES)]
  BY <1>3 DEF Table, Page
<1>5. valpres(p, a) = mem[address[p] + PTE * n + VALPRES]
  BY <1>1, <1>2, EntryAddress DEF valpres
<1>6. address[p] + (PTE * n + VALPRES) = address[p] + PTE * n + VALPRES
  BY <1>2 DEF PTE, VALPRES
<1> QED BY <1>1, <1>2, <1>4, <1>5, <1>6 DEF PageOnDisk, Entry

\* A process with a table: what its entries say.
LEMMA ResidentEntry ==
  ASSUME CarefulInv, NEW p \in 0 .. 3, Resident(p), NEW a \in 0 .. 63
  PROVE  /\ valpres(p, a) \in {Unallocated, OnDisk, Present}
         /\ valpres(p, a) = OnDisk => pfn(p, a) < linecount /\ 0 < linecount
<1>1. Typed /\ Layout
  BY DEF CarefulInv
<1>2. PICK k \in PTEs : /\ inmem[p] = TableInMem /\ inmem[p] # NoTable
                        /\ valpres(p, a) = Byte4(p, k, VALPRES) /\ pfn(p, a) = Byte4(p, k, PFN)
  BY <1>1, EntryOfCommand
<1>3. /\ Byte4(p, k, VALPRES) \in {Unallocated, OnDisk, Present}
      /\ Byte4(p, k, VALPRES) = OnDisk => Byte4(p, k, PFN) < linecount
  BY <1>1, <1>2 DEF Layout, Entries
<1>4. Byte4(p, k, PFN) \in Byte
  BY <1>1, <1>2, EntryByte, BytesAreEntries DEF Layout
<1>5. linecount \in Nat
  BY <1>1 DEF Typed, MachineTypes, linecount
<1>6. Byte4(p, k, PFN) < linecount => 0 < linecount
  <2>1. Byte4(p, k, PFN) \in Nat
    BY <1>4 DEF Byte
  <2> QED BY <1>5, <2>1
<1> QED BY <1>2, <1>3, <1>6

\* Nobody's table is on disk.
LEMMA NoTableOnDisk ==
  ASSUME CarefulInv, NEW p \in 0 .. 3
  PROVE  /\ inmem[p] # TableOnDisk
         /\ Resident(p) \/ inmem[p] = NoTable
BY DEF CarefulInv, Layout, Registers, Resident, TableOnDisk, TableInMem, NoTable

\* With a table in memory not every frame is free.
LEMMA SomeInUse ==
  ASSUME CarefulInv, NEW p \in 0 .. 3, Resident(p)
  PROVE  FreeFrames # Frames
<1>1. inmem[p] # NoTable /\ Registers /\ FrameBooks
  BY DEF CarefulInv, Layout, Resident, NoTable, TableInMem
<1>2. PICK t \in Frames : pages[t] = p
  BY <1>1, TableOf
<1>3. t \notin FreeFrames
  BY <1>1, <1>2 DEF FrameBooks, FreeFrames
<1> QED BY <1>3

\* main reads a command.
LEMMA ReadyCareful ==
  ASSUME CarefulInv, Ready
  PROVE  BetweenCommands /\ linecount + 2 <= MaxLines /\ linecount < MaxLines /\ Typed /\ Layout
<1>1. linecount \in Nat /\ MaxLines \in Nat
  BY MemoryAssumption DEF CarefulInv, Typed, MachineTypes, linecount
<1> QED BY <1>1 DEF CarefulInv, Control, Ready

\* map, until it needs a frame;
LEMMA MapCareful ==
  ASSUME CarefulUser, CarefulInv, Typed', NEW p \in Processes, NEW a \in Addresses,
         NEW v \in Protections, Map(p, a, v)
  PROVE  CarefulInv'
<1>1. p \in 0 .. 3 /\ a \in 0 .. 63 /\ v \notin {16, 32, 48}
  BY MemoryAssumption DEF CarefulUser
<1>2. /\ BetweenCommands /\ linecount + 2 <= MaxLines /\ linecount < MaxLines /\ Typed /\ Layout
      /\ UNCHANGED machine
      /\ op' = "map" /\ pid' = p /\ vaddr' = a /\ val' = v
  BY ReadyCareful DEF Map, Begin
<1>3. Cautious'
  BY <1>1, <1>2 DEF Cautious
<1>4. CASE inmem[p] = NoTable /\ CallFreespace(2, p, Create)
  <2>1. Asked(Create)'
    BY <1>2, <1>4 DEF Asked, machine
  <2> QED BY <1>2, <1>3, <1>4, <2>1, CallCareful
<1>5. CASE inmem[p] = TableInMem /\ Goto(MapPage) /\ UNCHANGED <<roundrobin, evictor>>
  <2>1. Resident(p) /\ FreeFrames # Frames
    BY <1>1, <1>5, SomeInUse DEF Resident
  <2>2. ~PageOnDisk(p, a)
    BY DEF Map, CarefulUser
  <2>3. valpres(p, a) \in {Unallocated, Present}
    BY <1>1, <1>2, <2>1, <2>2, OnDiskByte, ResidentEntry
  <2>4. /\ Layout' /\ linecount' = linecount /\ linecount' <= MaxLines
        /\ FreeFrames' = FreeFrames
        /\ \A f \in Frames : IsTable(f)' <=> IsTable(f)
    BY <1>2, SameMemory
  <2>5. (Filling({2, 3}) \/ Filling({3}) \/ NoneFree)'
    BY <1>2, <1>5, <2>1, <2>4 DEF BetweenCommands, Filling, NoneFree
  <2>6. Resident(pid)' /\ (InTable(Unallocated)' \/ InTable(Present)')
    BY <1>2, <2>1, <2>3 DEF InTable, Resident, valpres, findpte, machine
  <2>7. Control'
    BY <1>2, <1>5, <2>4, <2>5, <2>6 DEF Control, Goto
  <2> QED BY <1>3, <2>4, <2>7 DEF CarefulInv
<1> QED BY <1>1, <1>4, <1>5, NoTableOnDisk DEF Map

\* store;
LEMMA StoreCareful ==
  ASSUME CarefulUser, CarefulInv, Typed', NEW p \in Processes, NEW a \in Addresses,
         NEW v \in Values, Store(p, a, v)
  PROVE  CarefulInv'
<1>1. p \in 0 .. 3 /\ a \in 0 .. 63
  BY MemoryAssumption
<1>2. BetweenCommands /\ Typed /\ Layout
  BY ReadyCareful DEF Store
<1>3. CASE Segfault
  BY <1>2, <1>3, SameMemory, DoneCareful DEF Segfault, machine
<1>4. CASE Resident(p) /\ convert(a, p) >= 0 /\ Write(p, a, v)
  <2>1. valpres(p, a) # OnDisk
    BY <1>1, <1>2, <1>4, OnDiskByte DEF Store, CarefulUser
  <2>2. valpres(p, a) # Unallocated
    BY <1>4 DEF convert
  <2>3. valpres(p, a) = Present
    BY <1>1, <1>4, <2>1, <2>2, ResidentEntry
  <2> QED BY <1>1, <1>2, <1>4, <2>3, AnswerCareful
<1> QED BY <1>1, <1>3, <1>4, NoTableOnDisk DEF Store, Command

\* load.
LEMMA LoadCareful ==
  ASSUME CarefulUser, CarefulInv, Typed', NEW p \in Processes, NEW a \in Addresses, Load(p, a)
  PROVE  CarefulInv'
<1>1. p \in 0 .. 3 /\ a \in 0 .. 63
  BY MemoryAssumption
<1>2. BetweenCommands /\ linecount + 2 <= MaxLines /\ linecount < MaxLines /\ Typed /\ Layout
  BY ReadyCareful DEF Load
<1>3. CASE Done /\ UNCHANGED machine
  BY <1>2, <1>3, SameMemory, DoneCareful DEF machine
<1>4. CASE Resident(p) /\ valpres(p, a) # OnDisk /\ Read(p, a)
  <2>1. valpres(p, a) # Unallocated
    BY <1>4 DEF Load, CarefulUser
  <2>2. valpres(p, a) = Present
    BY <1>1, <1>4, <2>1, ResidentEntry
  <2> QED BY <1>1, <1>2, <1>4, <2>2, AnswerCareful
<1>5. CASE /\ Resident(p) /\ valpres(p, a) = OnDisk
           /\ Begin("load", p, a, 0)
           /\ SpareFrame(Cardinality(FreeFrames), p, LoadPage)
           /\ UNCHANGED <<machine, space, reply>>
  <2>1. linecount # 0
    BY <1>1, <1>5, ResidentEntry
  <2>2. NoneFree /\ Cardinality(FreeFrames) = 0
    <3>1. NoneFree
      BY <1>2, <2>1 DEF BetweenCommands, Filling
    <3>2. FreeFrames \in SUBSET Frames
      BY DEF FreeFrames
    <3> QED BY <3>1, <3>2, CountFrames DEF NoneFree
  <2>3. CallFreespace(1, p, LoadPage)
    BY <1>5, <2>2 DEF SpareFrame
  <2>4. Asked(LoadPage)' /\ Cautious'
    BY <1>5 DEF Asked, Cautious, InTable, Resident, valpres, findpte, machine, Begin
  <2>5. UNCHANGED machine
    BY <1>5
  <2> QED BY <1>2, <2>2, <2>3, <2>4, <2>5, CallCareful
<1> QED BY <1>1, <1>3, <1>4, <1>5, NoTableOnDisk DEF Load, Command, Segfault

\* freespace returns with what it was called for.
LEMMA ReturnsCareful ==
  ASSUME CarefulInv, Typed', FreespaceReturns
  PROVE  CarefulInv'
<1>1. /\ Freeing /\ Asked(ret) /\ pc' = ret /\ found \in Nat /\ need \in Nat /\ found >= need
      /\ UNCHANGED <<machine, roundrobin, request>>
  BY DEF FreespaceReturns, Goto, CarefulInv, Control, Typed, EvictorTypes
<1>2. Enough /\ ret \in {Create, Allocate, LoadPage}
  BY <1>1 DEF Freeing
<1>3. /\ Layout' /\ linecount' = linecount /\ linecount' <= MaxLines
      /\ FreeFrames' = FreeFrames
  BY <1>1, SameMemory
<1>4. UNCHANGED <<mem, address, inmem, op, pid, vaddr, val, roundrobin>>
  BY <1>1 DEF machine, request
<1>5. Asked(pc)'
  BY <1>1, <1>4 DEF Asked, InTable, Resident, valpres, findpte
<1>6. Control'
  BY <1>1, <1>2, <1>3, <1>4, <1>5 DEF Control, Enough, TwoFree, OneFree
<1>7. Cautious'
  BY <1>4 DEF CarefulInv, Cautious
<1> QED BY <1>3, <1>6, <1>7 DEF CarefulInv

\* map makes the page table,
LEMMA CreateCareful ==
  ASSUME CarefulInv, Typed', CreateTable
  PROVE  CarefulInv'
<1>1. /\ Typed /\ Layout /\ op = "map" /\ inmem[pid] = NoTable /\ pid \in Processes
      /\ \/ TwoFree
         \/ FreeFrames = Frames /\ roundrobin = 1 /\ linecount = 0
  BY DEF CreateTable, CarefulInv, Control, Asked
<1>2. FreeFrames # {}
  BY <1>1 DEF TwoFree, Frames, NUMPAGES
<1>3. PICK f \in Frames :
        /\ Take(f, TRUE) /\ PointTo(f)
        /\ mem' = [i \in Cells |->
                     IF InPage(i, f * PAGEMEM) /\ i % PTE = VPN
                       THEN (i - f * PAGEMEM) \div PTE
                     ELSE IF InPage(i, f * PAGEMEM) /\ i % PTE = VALPRES
                       THEN Unallocated ELSE mem[i]]
        /\ pc' = MapPage
        /\ UNCHANGED <<swap, roundrobin, request>>
  BY <1>2 DEF CreateTable, NoFrame, Goto
<1>4. PICK q \in Processes : pid = q
  BY <1>1
<1>5. q \in 0 .. 3
  BY ProcessesAreNumbers
<1>6. Layout' /\ \A n \in PTEs : Byte4(q, n, VALPRES)' = Unallocated
  BY <1>1, <1>3, <1>4, CreateLayout
<1>7. PICK a \in 0 .. 63 : vaddr = a
  BY <1>1 DEF Typed, RequestTypes
<1>8. /\ linecount' = linecount /\ op' = "map" /\ pid' = q /\ vaddr' = a /\ val' = val
      /\ roundrobin' = roundrobin /\ inmem'[q] = TableInMem
  BY <1>1, <1>3, <1>4, <1>5, <1>7 DEF linecount, request, PointTo, Typed, MachineTypes
<1>9. InTable(Unallocated)' /\ Resident(pid)'
  <2>1. vpage(a) \in PTEs
    BY VpageIsEntry DEF PTEs
  <2>2. findpte(q, a)' + VALPRES = At(q, vpage(a), VALPRES)'
    BY <1>8 DEF findpte, At, TableInMem, TableOnDisk, NoTable
  <2>3. valpres(q, a)' = Unallocated
    BY <1>6, <2>1, <2>2 DEF valpres, Byte4
  <2> QED BY <1>8, <2>3 DEF InTable, Resident
<1>10. f \in FreeFrames /\ FreeFrames' = FreeFrames \ {f} /\ \A g \in FreeFrames : f <= g
  BY <1>1, <1>3, Taken
<1>11. (Filling({1, 2, 3}) \/ OneFree)'
  <2>1. CASE TwoFree
    BY <1>10, <2>1 DEF TwoFree, OneFree
  <2>2. CASE FreeFrames = Frames /\ roundrobin = 1 /\ linecount = 0
    <3>1. f = 0 /\ FreeFrames' = {1, 2, 3}
      BY <1>10, <2>2 DEF Frames, NUMPAGES
    <3>2. \A g \in Frames : ~IsTable(g)
      BY <1>1, <2>2, FreeNoTable DEF FreeFrames
    <3>3. \A g \in Frames : IsTable(g)' <=> g = 0
      BY <1>1, <1>3, <3>1, <3>2 DEF Take, IsTable, Typed, MachineTypes
    <3> QED BY <1>8, <2>2, <3>1, <3>3 DEF Filling
  <2> QED BY <1>1, <2>1, <2>2
<1>12. Control'
  BY <1>3, <1>8, <1>9, <1>11 DEF Control
<1>13. Cautious' /\ linecount' <= MaxLines
  BY <1>1, <1>8 DEF CarefulInv, Cautious
<1> QED BY <1>6, <1>12, <1>13 DEF CarefulInv

\* comes to the page
LEMMA MapThePageCareful ==
  ASSUME CarefulUser, CarefulInv, Typed', MapThePage
  PROVE  CarefulInv'
<1>1. /\ Typed /\ Layout /\ Cautious /\ op = "map" /\ Resident(pid)
      /\ \/ /\ InTable(Unallocated) \/ InTable(Present)
            /\ Filling({2, 3}) \/ Filling({3}) \/ NoneFree
            /\ linecount < MaxLines
         \/ InTable(Unallocated) /\ (Filling({1, 2, 3}) \/ OneFree)
  BY DEF MapThePage, CarefulInv, Control
<1>2. PICK q \in 0 .. 3 : pid = q
  BY <1>1 DEF Typed, RequestTypes
<1>3. CASE /\ valpres(pid, vaddr) = Present
           /\ mem' = [mem EXCEPT ![findpte(pid, vaddr) + PROTECTION] = val]
           /\ Done
           /\ UNCHANGED <<freelist, pages, ispagetable, address, inmem, swap>>
  <2>1. BetweenCommands
    BY <1>1, <1>3 DEF BetweenCommands, InTable, Unallocated, Present
  <2>2. val \notin {16, 32, 48}
    BY <1>1 DEF Cautious
  <2>3. Layout'
    BY <1>1, <1>2, <1>3, <2>2, AlterLayout
  <2> QED BY <1>3, <2>1, <2>3, DoneCareful
<1>4. CASE /\ valpres(pid, vaddr) # Present
           /\ SpareFrame(Cardinality(FreeFrames), pid, Allocate)
           /\ UNCHANGED <<machine, request>>
  <2>1. InTable(Unallocated)
    BY <1>1, <1>4 DEF InTable
  <2>2. UNCHANGED <<mem, address, inmem, op, pid, vaddr, val>>
    BY <1>4 DEF machine, request
  <2>3. Asked(Allocate)' /\ Cautious'
    BY <1>1, <2>1, <2>2 DEF Asked, InTable, Resident, valpres, findpte, Cautious
  <2>4. FreeFrames \in SUBSET Frames /\ IsFiniteSet(FreeFrames)
    BY FreeFinite DEF FreeFrames
  <2>5. CASE NoneFree
    <3>1. Cardinality(FreeFrames) = 0
      BY <2>4, <2>5, CountFrames DEF NoneFree
    <3>2. CallFreespace(1, pid, Allocate)
      BY <1>4, <3>1 DEF SpareFrame
    <3>3. linecount < MaxLines /\ UNCHANGED machine /\ BetweenCommands
      BY <1>1, <1>4, <2>5 DEF Filling, NoneFree, OneFree, BetweenCommands
    <3> QED BY <2>3, <2>5, <3>2, <3>3, CallCareful
  <2>6. CASE ~NoneFree
    <3>1. Cardinality(FreeFrames) # 0 /\ Cardinality(FreeFrames) \in Nat
      BY <2>4, <2>6, CountFrames, FS_CardinalityType DEF NoneFree
    <3>2. pc' = Allocate /\ UNCHANGED <<roundrobin, evictor>>
      BY <1>4, <3>1 DEF SpareFrame, Goto
    <3>3. /\ Layout' /\ linecount' = linecount /\ linecount' <= MaxLines
          /\ FreeFrames' = FreeFrames
          /\ \A f \in Frames : IsTable(f)' <=> IsTable(f)
      BY <1>4, SameMemory
    <3>4. Filling({1, 2, 3}) \/ Filling({2, 3}) \/ OneFree
      BY <1>1, <2>6 DEF Filling, OneFree, Frames, NUMPAGES
    <3>5. (Filling({1, 2, 3}) \/ Filling({2, 3}) \/ OneFree)'
      BY <3>2, <3>3, <3>4 DEF Filling, OneFree
    <3>6. Control'
      BY <2>3, <3>2, <3>5 DEF Control
    <3> QED BY <2>3, <3>3, <3>6 DEF CarefulInv
  <2> QED BY <2>5, <2>6
<1> QED BY <1>3, <1>4 DEF MapThePage

\* and gives it a frame.
LEMMA AllocateCareful ==
  ASSUME CarefulInv, Typed', AllocatePage
  PROVE  CarefulInv'
<1>1. /\ Typed /\ Layout /\ Cautious /\ op = "map" /\ Resident(pid)
      /\ valpres(pid, vaddr) = Unallocated
      /\ Filling({1, 2, 3}) \/ Filling({2, 3}) \/ OneFree
  BY DEF AllocatePage, CarefulInv, Control, Asked, InTable
<1>2. FreeFrames # {}
  BY <1>1 DEF Filling, OneFree
<1>3. PICK f \in Frames :
        /\ Take(f, FALSE)
        /\ mem' = [mem EXCEPT ![findpte(pid, vaddr) + PFN] = f * PAGEMEM,
                              ![findpte(pid, vaddr) + PROTECTION] = val,
                              ![findpte(pid, vaddr) + VALPRES] = Present]
        /\ Done
        /\ UNCHANGED <<address, inmem, swap>>
  BY <1>2 DEF AllocatePage, NoFrame
<1>4. PICK q \in 0 .. 3 : pid = q
  BY <1>1 DEF Typed, RequestTypes
<1>5. val \notin {16, 32, 48} /\ valpres(pid, vaddr) # Present
  BY <1>1 DEF Cautious, Unallocated, Present
<1>6. Layout'
  BY <1>1, <1>3, <1>4, <1>5, AllocateLayout
<1>7. f \in FreeFrames /\ FreeFrames' = FreeFrames \ {f} /\ \A g \in FreeFrames : f <= g
  BY <1>1, <1>3, Taken
<1>8. /\ linecount' = linecount /\ roundrobin' = roundrobin
      /\ \A g \in Frames : IsTable(g)' <=> IsTable(g)
  BY <1>3 DEF linecount, Done, Take, IsTable
<1>9. BetweenCommands'
  <2>1. CASE Filling({1, 2, 3})
    <3>1. f = 1 /\ FreeFrames' = {2, 3}
      BY <1>7, <2>1 DEF Filling
    <3> QED BY <1>8, <2>1, <3>1 DEF Filling, BetweenCommands
  <2>2. CASE Filling({2, 3})
    <3>1. f = 2 /\ FreeFrames' = {3}
      BY <1>7, <2>2 DEF Filling
    <3> QED BY <1>8, <2>2, <3>1 DEF Filling, BetweenCommands
  <2>3. CASE OneFree
    BY <1>7, <2>3 DEF OneFree, NoneFree, BetweenCommands
  <2> QED BY <1>1, <2>1, <2>2, <2>3
<1>10. pc' = Idle /\ op' = "none"
  BY <1>3 DEF Done, Goto, Begin
<1>11. Control' /\ Cautious'
  BY <1>9, <1>10 DEF Control, Cautious
<1> QED BY <1>6, <1>8, <1>11 DEF CarefulInv

\* loadPage brings a page back,
LEMMA LoadThePageCareful ==
  ASSUME CarefulInv, Typed', LoadThePage
  PROVE  CarefulInv'
<1>1. /\ Typed /\ Layout /\ op = "load" /\ Resident(pid)
      /\ valpres(pid, vaddr) = OnDisk /\ OneFree
  BY DEF LoadThePage, CarefulInv, Control, Asked, InTable
<1>2. PICK q \in 0 .. 3, a \in 0 .. 63 : pid = q /\ vaddr = a
  BY <1>1 DEF Typed, RequestTypes
<1>3. FreeFrames # {} /\ ~MissingLine(pfn(pid, vaddr))
  <2>1. FreeFrames # {}
    BY <1>1 DEF OneFree
  <2>2. pfn(q, a) < linecount
    BY <1>1, <1>2, ResidentEntry
  <2>3. linecount \in Nat
    BY <1>1 DEF Typed, MachineTypes, linecount
  <2>4. PICK k \in PTEs : pfn(q, a) = Byte4(q, k, PFN) /\ inmem[q] # NoTable
    BY <1>1, <1>2, EntryOfCommand
  <2>5. pfn(q, a) \in Byte
    BY <1>1, <2>4, EntryByte, BytesAreEntries DEF Layout
  <2>6. pfn(q, a) \in Nat
    BY <2>5 DEF Byte
  <2> QED BY <1>2, <2>1, <2>2, <2>3, <2>6 DEF MissingLine
<1>4. PICK f \in Frames :
        /\ Take(f, FALSE)
        /\ mem' = [Filled(f, PageFromFile(pfn(pid, vaddr))) EXCEPT
                     ![findpte(pid, vaddr) + PFN] = f * PAGEMEM,
                     ![findpte(pid, vaddr) + VALPRES] = Present]
        /\ pc' = Answer
        /\ UNCHANGED <<address, inmem, swap, roundrobin, request>>
  BY <1>3 DEF LoadThePage, NoFrame, Goto
<1>5. PICK page : page = PageFromFile(pfn(pid, vaddr))
  OBVIOUS
<1>6. Layout' /\ InTable(Present)'
  <2>1. valpres(pid, vaddr) # Present
    BY <1>1 DEF OnDisk, Present
  <2>2. Layout'
    BY <1>1, <1>2, <1>4, <1>5, <2>1, LoadLayout
  <2>3. UNCHANGED <<address, inmem, pid, vaddr>>
    BY <1>4 DEF request
  <2>4. /\ inmem[q] = TableInMem /\ findpte(q, a) + VALPRES = At(q, vpage(a), VALPRES)
        /\ vpage(a) \in PTEs
    BY <1>1, <1>2, EntryOfCommand
  <2>5. At(q, vpage(a), VALPRES) \in Cells
    BY <1>1, <2>4, EntryBytes
  <2>6. mem'[findpte(q, a) + VALPRES] = Present
    BY <1>2, <1>4, <2>4, <2>5 DEF Filled
  <2>7. findpte(q, a)' = findpte(q, a)
    BY <2>3 DEF findpte
  <2>8. valpres(q, a)' = Present
    BY <2>6, <2>7 DEF valpres
  <2> QED BY <1>2, <2>2, <2>3, <2>4, <2>8 DEF InTable, Resident
<1>7. NoneFree'
  <2>1. f \in FreeFrames /\ FreeFrames' = FreeFrames \ {f}
    BY <1>1, <1>4, Taken
  <2> QED BY <1>1, <2>1 DEF OneFree, NoneFree
<1>8. op' = "load" /\ linecount' = linecount
  BY <1>1, <1>4 DEF request, linecount
<1>9. Control' /\ Cautious'
  BY <1>4, <1>6, <1>7, <1>8 DEF Control, Cautious
<1> QED BY <1>6, <1>8, <1>9 DEF CarefulInv

\* and the load reads it.
LEMMA ConcludeCareful ==
  ASSUME CarefulInv, Typed', Conclude
  PROVE  CarefulInv'
<1>1. /\ op = "load" /\ Resident(pid) /\ valpres(pid, vaddr) = Present /\ BetweenCommands
      /\ pid \in 0 .. 3 /\ vaddr \in 0 .. 63
  BY DEF Conclude, CarefulInv, Control, InTable, BetweenCommands, Typed, RequestTypes
<1>2. PICK q \in 0 .. 3, a \in 0 .. 63 : pid = q /\ vaddr = a
  BY <1>1
<1>3. CASE Read(pid, vaddr)
  BY <1>1, <1>2, <1>3, AnswerCareful
<1>4. CASE Done /\ UNCHANGED machine
  BY <1>1, <1>4, SameMemory, DoneCareful DEF machine
<1> QED BY <1>1, <1>3, <1>4 DEF Conclude

\* No step of the user or of the program breaks it.
LEMMA StepCareful ==
  ASSUME CarefulUser, CarefulInv, Typed', [Next]_vars
  PROVE  CarefulInv'
<1>1. CASE UserCommand
  BY <1>1, MapCareful, StoreCareful, LoadCareful DEF UserCommand
<1>2. CASE EvictPage \/ FreespaceReturns
  BY <1>2, EvictPageCareful, ReturnsCareful
<1>3. ~EvictTable
  <2>1. ASSUME EvictTable
        PROVE  FALSE
    <3>1. pc = Tables /\ found < need /\ Freeing
      BY <2>1 DEF EvictTable, CarefulInv, Control
    <3> QED BY <3>1 DEF Freeing, Short
  <2> QED BY <2>1
<1>4. ~LoadPageTable /\ ~SwapPageIn
  BY DEF LoadPageTable, SwapPageIn, CarefulInv, Control
<1>5. CASE CreateTable \/ AllocatePage \/ LoadThePage
  BY <1>5, CreateCareful, AllocateCareful, LoadThePageCareful
<1>6. CASE MapThePage \/ Conclude
  BY <1>6, MapThePageCareful, ConcludeCareful
<1>7. CASE EndOfFile \/ UNCHANGED vars
  <2>1. UNCHANGED <<machine, roundrobin, request, evictor>>
    BY <1>7 DEF EndOfFile, vars
  <2>2. UNCHANGED <<op, pid, vaddr, val, need, found, removed, ret, mem, inmem, address,
                    roundrobin, ispagetable, freelist>>
    BY <2>1 DEF request, evictor, machine
  <2>3. pc' = pc \/ (pc = Idle /\ pc' = Exited)
    BY <1>7 DEF EndOfFile, vars, Goto
  <2>4. /\ Layout' /\ linecount' = linecount /\ linecount' <= MaxLines
        /\ FreeFrames' = FreeFrames
    BY <2>1, SameMemory
  <2>6. \A S : Filling(S)' <=> Filling(S)
    BY <2>2, <2>4 DEF Filling, IsTable
  <2>7. (NoneFree' <=> NoneFree) /\ (OneFree' <=> OneFree) /\ (TwoFree' <=> TwoFree)
    BY <2>4 DEF NoneFree, OneFree, TwoFree
  <2>8. BetweenCommands' <=> BetweenCommands
    BY <2>2, <2>4, <2>6, <2>7 DEF BetweenCommands
  <2>9. pc' = pc => (Freeing' <=> Freeing)
    BY <2>2, <2>4, <2>7 DEF Freeing, Short, Enough, Unused, IsTable
  <2>10. \A v : (InTable(v)' <=> InTable(v)) /\ (Resident(pid)' <=> Resident(pid))
    BY <2>2 DEF InTable, Resident, valpres, findpte
  <2>11. Control'
    <3>1. CASE pc' = pc
      <4>1. Asked(pc)' <=> Asked(pc)
        BY <2>2, <3>1 DEF Asked, InTable, Resident, valpres, findpte
      <4>2. Asked(ret)' <=> Asked(ret)
        BY <2>2 DEF Asked, InTable, Resident, valpres, findpte
      <4> QED BY <2>2, <2>4, <2>6, <2>7, <2>8, <2>9, <2>10, <3>1, <4>1, <4>2 DEF CarefulInv, Control
    <3>2. CASE pc = Idle /\ pc' = Exited
      BY <2>8, <3>2 DEF CarefulInv, Control
    <3> QED BY <2>3, <3>1, <3>2
  <2>12. Cautious'
    BY <2>2 DEF CarefulInv, Cautious
  <2> QED BY <2>4, <2>11, <2>12 DEF CarefulInv
<1> QED BY <1>1, <1>2, <1>3, <1>4, <1>5, <1>6, <1>7 DEF Next, Work, AtRest

\* At the start nothing is in memory.
LEMMA InitCareful == Init => CarefulInv
<1> SUFFICES ASSUME Init
             PROVE  CarefulInv
  OBVIOUS
<1>1. Typed
  BY InitTyped
<1>2. /\ \A p \in 0 .. 3 : inmem[p] = NoTable
      /\ \A f \in Frames : freelist[f] = 1 /\ ispagetable[f] = 0 /\ pages[f] = -1
      /\ \A i \in Cells : mem[i] = 0
      /\ FreeFrames = Frames
  BY DEF Init, FreeFrames
<1>3. Registers /\ TableFrames /\ Entries /\ Pages
  BY <1>2 DEF Registers, TableFrames, Entries, Pages, IsTable, IsPage, TableInMem, NoTable
<1>4. FreeFramesBlank /\ FirstFrame /\ FrameBooks
  BY <1>2, CellsOfFrames DEF FreeFramesBlank, FirstFrame, FrameBooks, Unused, FreeFrames
<1>5. linecount = 0 /\ linecount <= MaxLines
  BY MemoryAssumption DEF Init, linecount
<1>6. Control /\ Cautious
  BY <1>2, <1>5 DEF Init, Control, BetweenCommands, Cautious
<1> QED BY <1>1, <1>3, <1>4, <1>5, <1>6 DEF CarefulInv, Layout

\* The inductive invariant.
THEOREM CarefulCorrect ==
  ASSUME CarefulUser
  PROVE  Spec => []CarefulInv
<1>1. CarefulInv /\ [Next]_vars => CarefulInv'
  <2>1. CarefulInv /\ [Next]_vars => Typed'
    BY StepTyped DEF CarefulInv
  <2> QED BY <2>1, StepCareful
<1> QED BY <1>1, InitCareful, PTL DEF Spec

-----------------------------------------------------------------------------
(* What the user and the program can rely on.                               *)

\* A table in memory, byte by byte.
LEMMA TableByte ==
  ASSUME Typed, NEW p \in 0 .. 3, Resident(p), NEW n \in PTEs, NEW b \in PTEs
  PROVE  Table(p)[PTE * n + b] = Byte4(p, n, b)
<1>1. PTE * n + b \in Offsets /\ address[p] \in Nat
  BY DEF PTEs, PTE, Offsets, PAGEMEM, Typed, MachineTypes
<1>2. Table(p)[PTE * n + b] = mem[address[p] + (PTE * n + b)]
  BY <1>1 DEF Table, Page
<1>3. address[p] + (PTE * n + b) = address[p] + PTE * n + b
  BY <1>1 DEF PTEs, PTE
<1> QED BY <1>2, <1>3 DEF Byte4, At

\* A frame goes back to the free list as zeros, and findfree hands out zeros.
THEOREM FreeIsBlank ==
  ASSUME CarefulUser
  PROVE  Spec => []FreeFramesBlank
<1>1. CarefulInv => FreeFramesBlank
  BY DEF CarefulInv, Layout
<1> QED BY <1>1, CarefulCorrect, PTL

\* Registers, holders and marks agree on where the page tables are.
THEOREM TablesKept ==
  ASSUME CarefulUser
  PROVE  Spec => []TablesInTheirFrames
<1>1. ASSUME CarefulInv
      PROVE  TablesInTheirFrames
  <2>1. ASSUME NEW p \in 0 .. 3, Resident(p)
        PROVE  /\ address[p] \in {f * PAGEMEM : f \in Frames}
               /\ pages[address[p] \div PAGEMEM] = p
               /\ ispagetable[address[p] \div PAGEMEM] = 1
               /\ \A n \in 0 .. 3 : mem[address[p] + PTE * n + VPN] = n
    <3>1. Registers /\ inmem[p] # NoTable
      BY <1>1, <2>1 DEF CarefulInv, Layout, Resident, TableInMem, NoTable
    <3>2. PICK t \in Frames : address[p] = t * PAGEMEM /\ pages[t] = p /\ IsTable(t)
      BY <3>1 DEF Registers
    <3>3. (t * PAGEMEM) \div PAGEMEM = t
      BY DEF Frames, NUMPAGES, PAGEMEM
    <3>4. \A n \in 0 .. 3 : mem[address[p] + PTE * n + VPN] = n
      BY <3>1 DEF Registers, PTEs, Byte4, At
    <3> QED BY <3>2, <3>3, <3>4 DEF IsTable
  <2>2. \A f \in Frames : ispagetable[f] = 1 =>
          pages[f] # -1 /\ Resident(pages[f]) /\ address[pages[f]] = f * PAGEMEM
    BY <1>1 DEF CarefulInv, Layout, TableFrames, IsTable, Resident
  <2> QED BY <2>1, <2>2 DEF TablesInTheirFrames
<1>2. CarefulInv => TablesInTheirFrames
  BY <1>1
<1> QED BY <1>2, CarefulCorrect, PTL

\* removePage's search has one answer: a frame in use that is no table is named by
\* one entry of its process.
THEOREM OneHome ==
  ASSUME CarefulUser
  PROVE  Spec => []FramesHaveOneHome
<1>1. ASSUME CarefulInv
      PROVE  FramesHaveOneHome
  <2> SUFFICES ASSUME NEW f \in Frames, pages[f] # -1, ispagetable[f] = 0
               PROVE  Cardinality({n \in 0 .. 3 :
                        /\ Table(pages[f])[PTE * n + VALPRES] = Present
                        /\ Table(pages[f])[PTE * n + PFN] = f * PAGEMEM}) = 1
    BY DEF FramesHaveOneHome
  <2>1. Typed /\ Layout
    BY <1>1 DEF CarefulInv
  <2>2. IsPage(f)
    BY <2>1 DEF IsPage, Layout, FrameBooks, Typed, MachineTypes
  <2>3. PICK p \in 0 .. 3 : pages[f] = p /\ Resident(p)
    BY <2>1, <2>2, PageHolder DEF Resident
  <2>4. PICK n \in PTEs : Home(p, n, f) /\ \A m \in PTEs : Home(p, m, f) => m = n
    BY <2>1, <2>2, <2>3 DEF Layout, Pages
  <2>5. \A m \in PTEs : Home(p, m, f) <=> /\ Table(p)[PTE * m + VALPRES] = Present
                                          /\ Table(p)[PTE * m + PFN] = f * PAGEMEM
    BY <2>1, <2>3, TableByte, BytesAreEntries DEF Home
  <2>6. {m \in 0 .. 3 : /\ Table(pages[f])[PTE * m + VALPRES] = Present
                        /\ Table(pages[f])[PTE * m + PFN] = f * PAGEMEM} = {n}
    BY <2>3, <2>4, <2>5 DEF PTEs
  <2>7. Cardinality({n}) = 1
    BY FS_Singleton
  <2> QED BY <2>6, <2>7
<1>2. CarefulInv => FramesHaveOneHome
  BY <1>1
<1> QED BY <1>2, CarefulCorrect, PTL

\* An entry that says its page is in memory names a frame of its own process.
THEOREM EntriesRight ==
  ASSUME CarefulUser
  PROVE  Spec => []EntriesPointHome
<1>1. ASSUME CarefulInv
      PROVE  EntriesPointHome
  <2> SUFFICES ASSUME NEW p \in 0 .. 3, inmem[p] # NoTable, NEW x \in FramesOf(p)
               PROVE  /\ x \in {f * PAGEMEM : f \in Frames}
                      /\ pages[x \div PAGEMEM] = p /\ ispagetable[x \div PAGEMEM] = 0
    BY DEF EntriesPointHome
  <2>1. Typed /\ Layout /\ Resident(p) /\ inmem[p] = TableInMem
    BY <1>1 DEF CarefulInv, Layout, Registers, Resident
  <2>2. PICK n \in PTEs : /\ x = Table(p)[PTE * n + PFN]
                          /\ Table(p)[PTE * n + VALPRES] = Present
    BY DEF FramesOf, PTEs
  <2>3. x = Byte4(p, n, PFN) /\ Byte4(p, n, VALPRES) = Present
    BY <2>1, <2>2, TableByte, BytesAreEntries
  <2>4. PICK f \in Frames : Home(p, n, f) /\ pages[f] = p /\ ~IsTable(f)
    BY <2>1, <2>3 DEF Layout, Entries
  <2>5. x = f * PAGEMEM /\ x \div PAGEMEM = f
    BY <2>3, <2>4 DEF Home, Frames, NUMPAGES, PAGEMEM
  <2>6. ispagetable[f] = 0
    BY <2>1, <2>4 DEF IsTable, Typed, MachineTypes
  <2> QED BY <2>4, <2>5, <2>6
<1>2. CarefulInv => EntriesPointHome
  BY <1>1
<1> QED BY <1>2, CarefulCorrect, PTL

\* Apart from the byte pageFromFile writes just behind temp (memory.c, line 151),
\* freespace, removePage and loadPage stay inside their arrays, read no buffer they
\* did not fill and find the line they ask for.
THEOREM NeverAstray ==
  ASSUME CarefulUser
  PROVE  Spec => []NeverWild
<1>1. CarefulInv => NeverWild
  BY DEF CarefulInv, Control, NeverWild
<1> QED BY <1>1, CarefulCorrect, PTL

\* All that freespace does is remove pages.
LEMMA FreespaceSteps ==
  ASSUME CarefulUser, CarefulInv, [Next]_vars, pc \in {Evicting, Tables}
  PROVE  \/ UNCHANGED <<machine, request>>
         \/ \E v \in Frames : IsPage(v) /\ RemovePage(v) /\ UNCHANGED request
<1>1. Typed /\ Layout /\ Freeing
  BY DEF CarefulInv, Control
<1>2. CASE EvictPage
  <2>1. pc = Evicting /\ found < need /\ Short
    BY <1>1, <1>2 DEF EvictPage, Freeing
  <2>2. PICK r \in Frames : roundrobin = r
    BY <1>1 DEF Typed, OtherTypes
  <2>3. PICK v \in Frames : v = (r + Passed(r)) % NUMPAGES
    BY <1>1, HandStops
  <2>4. removed[v] = 0 => IsPage(v) /\ RemovalDefined(v)
    BY <1>1, <2>1, <2>2, <2>3, VictimIsPage, PageRemovable
  <2> QED BY <1>2, <2>2, <2>3, <2>4 DEF EvictPage
<1>3. ~EvictTable
  BY <1>1 DEF EvictTable, Freeing, Short
<1>4. CASE FreespaceReturns \/ UNCHANGED vars
  BY <1>4 DEF FreespaceReturns, vars
<1>5. EvictPage \/ EvictTable \/ FreespaceReturns \/ UNCHANGED vars
  BY DEF Next, UserCommand, Map, Store, Load, Ready, Work, EndOfFile, AtRest, CreateTable,
         LoadPageTable, MapThePage, AllocatePage, SwapPageIn, LoadThePage, Conclude
<1> QED BY <1>2, <1>3, <1>4, <1>5

\* "generates n number of free frames, doesn't evict the process pid" (memory.c,
\* line 256): the table of the process that freespace works for stays.
THEOREM OwnTableKept ==
  ASSUME CarefulUser
  PROVE  Spec => OwnTableStays
<1>1. ASSUME CarefulInv, [Next]_vars, Resident(pid), pages[address[pid] \div PAGEMEM] = pid,
             pc \in {Evicting, Tables}
      PROVE  Resident(pid)' /\ pages'[address[pid] \div PAGEMEM] = pid
  <2>1. CASE UNCHANGED <<machine, request>>
    BY <1>1, <2>1 DEF machine, request, Resident
  <2>2. ASSUME NEW v \in Frames, IsPage(v), RemovePage(v), UNCHANGED request
        PROVE  Resident(pid)' /\ pages'[address[pid] \div PAGEMEM] = pid
    <3>1. pid' = pid /\ inmem' = inmem /\ pages' = [pages EXCEPT ![v] = -1]
      BY <2>2 DEF request, RemovePage, Freed
    <3>2. Registers /\ pid \in 0 .. 3 /\ inmem[pid] # NoTable
      BY <1>1 DEF CarefulInv, Layout, Typed, RequestTypes, Resident, TableInMem, NoTable
    <3>3. PICK t \in Frames : address[pid] = t * PAGEMEM /\ IsTable(t)
      BY <3>2 DEF Registers
    <3>4. address[pid] \div PAGEMEM = t
      BY <3>3 DEF Frames, NUMPAGES, PAGEMEM
    <3>5. t # v
      BY <2>2, <3>3 DEF IsPage, IsTable
    <3> QED BY <1>1, <3>1, <3>4, <3>5 DEF Resident
  <2> QED BY <1>1, <2>1, <2>2, FreespaceSteps
<1>2. CarefulInv /\ [Next]_vars =>
        [Resident(pid) /\ pages[address[pid] \div PAGEMEM] = pid /\ pc \in {Evicting, Tables}
           => Resident(pid)' /\ pages'[address[pid] \div PAGEMEM] = pid]_vars
  BY <1>1
<1> QED BY <1>2, CarefulCorrect, PTL DEF Spec, OwnTableStays

\* "above loop removes pages" (memory.c, line 301): no table goes in it.
THEOREM PagesFirst ==
  ASSUME CarefulUser
  PROVE  Spec => FirstLoopTakesPages
<1>1. ASSUME CarefulInv, [Next]_vars, pc = Evicting, NEW f \in Frames,
             freelist[f] = 0, ispagetable[f] = 1
      PROVE  freelist'[f] = 0
  <2>1. CASE UNCHANGED <<machine, request>>
    BY <1>1, <2>1 DEF machine
  <2>2. ASSUME NEW v \in Frames, IsPage(v), RemovePage(v)
        PROVE  freelist'[f] = 0
    BY <1>1, <2>2 DEF RemovePage, Freed, IsPage
  <2> QED BY <1>1, <2>1, <2>2, FreespaceSteps
<1>2. CarefulInv /\ [Next]_vars =>
        [pc = Evicting => \A f \in Frames :
           freelist[f] = 0 /\ ispagetable[f] = 1 => freelist'[f] = 0]_vars
  BY <1>1
<1> QED BY <1>2, CarefulCorrect, PTL DEF Spec, FirstLoopTakesPages
=============================================================================
