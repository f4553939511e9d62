# Verification of the CS3013 operating-systems projects

This directory holds TLA+ models of the programs of this repository, the TLC
configurations that check them on small instances, and proofs, checked by TLAPS,
of the properties that hold on every instance. `PROJECT.json` lists the runs, the
mutants that show each property is able to fail, the source lines behind every
definition, the findings and the hazards.

## The system

The repository is a handful of independent programs.

| part | state | operations | what is hard |
|---|---|---|---|
| bathroom monitor (`project3/bathroom.c`) | mutex `lock`, condition variable `change`, `flag`, the counters `users`, `quers`, `uses`, `ques`, the histograms `barray`, `qarray` | `Initialize`, `Enter`, `Leave`, `Finalize` | who runs between a broadcast and the return from the wait; lost wakeups; array bounds |
| bathroom simulation (`project3/bathroomsim.c`) | a thread per user with its loop and wait counts, mutex `print` | `main`, `Individual` | joining threads that were never created; teardown while threads run; termination |
| memory simulator (`project4/memory.c`) | 64 bytes, `freelist`, `pages`, `ispagetable`, one page-table register per process, the swap file, the round-robin hand | `map`, `store`, `load`, `command`, `freespace`, `removePage`, `removePageTable`, `loadPage`, `loadPageTable` | long sequences of legal commands; four arrays that describe the same thing; line numbers and addresses in the same byte |
| Mid-Day Commander v0, v1 (`project1/mc0.c`, `mc1.c`) | the calls of `main` on the stack, added commands (v1), a child process | the menu, `run` | failed `exec`, the end of the input in a menu that does not ask for it |
| Mid-Day Commander v2 (`project1/mc2.c`) | user commands, the array `running` of background processes, child processes | the menu loop, `run`, `addrunning`, `removebackground` | children that end in any order, a second menu after a background command, failed `exec` |
| system call interceptors (`project2/part1/part1.c`, `part2/kernMod/kernsysinfo.c`) | entries of the system call table, the entries each module has stored | load, unload, the functions put into the table | calls in flight at unload, two modules on one table |
| ancestry call (`part2/kernMod/kernsysinfo.c`) with `part2/procAncestry/procAncestry.c` | the kernel's tasks and their lists of children, three arrays of fixed size | `new_cs3013_syscall2` and its three walks, the printing loops | lists walked without a lock, arrays that get full |

The parts share no state and do not call each other. Inside project 3, the threads
of the simulation interact through the monitor; inside project 4 and the menu of
project 1, commands of the user arrive one at a time and the difficulty is in the
sequence. The two kernel modules of project 2 share the system call table, and the
functions they put there run on several processors; the ancestry call shares the task
lists with the rest of the kernel.

What makes each part correct:

- *bathroom*: the counters are exact, nobody waits for an empty room, everybody
  who queues gets in, the program ends, the statistics fall short by a known amount, and
  two genders are never inside together (this one fails, and so does the total);
- *memory*: frames, entries and swap lines agree at every moment, an eviction
  takes a page rather than a table and never the table in use, no loop runs for ever,
  and each process sees a private virtual memory, as long as the user is careful;
- *commander v0, v1*: one process at a time has the terminal, and what a commander
  waits for is the command it has just started;
- *commander v2*: the array of background processes lists those that run (this one
  fails), no process leaves it early, ended processes are waited for, the exit does not hang;
- *interceptors*: unloading leaves no entry that leads into the module, and a call handed on
  reaches the kernel's function, whatever the module is doing;
- *ancestry call*: it returns, its walks miss nobody who is there when they come back, and
  they leave a place in each array for the zero the printing program looks for.

## Modules

| module | what it is |
|---|---|
| `Bathroom` | the monitor: one action per stretch of code between two points where another thread can run |
| `BathroomSim` | extends it with `main`, `Individual` and `Finalize` |
| `Room` | the abstract promise of the monitor, without mutex, flag and genders |
| `MCBathroom` | instances of `BathroomSim`, and its refinement of `Room` |
| `BathroomProofs` | theorems about `Bathroom` for any set of threads |
| `BathroomSimProofs` | theorems about `BathroomSim` for any set of threads, with what sums over them need |
| `Memory` | the memory simulator, byte for byte, a command taken apart at its calls of `freespace`, `loadPageTable` and `loadPage` |
| `VirtualMemory` | the abstract promise: a private virtual memory per process |
| `MCMemory` | two instances of `Memory`, and its refinement of `VirtualMemory` |
| `MemoryProofs` | the frame books and the types of `Memory`, for all constants |
| `PagingProofs` | what `Memory` keeps for a careful user: tables, pages, free frames, indices, and whom an eviction may hit |
| `Commander` | Mid-Day Commander v2 over a table of processes |
| `CommanderProofs` | theorems about `Commander` for any number of processes, places and commands |
| `EarlyCommander` | extends it with the menus of v0 and v1 and their calls of `main` by `main` |
| `MCCommander` | the three versions in one specification, the version chosen at the start |
| `EarlyProofs` | theorems about v0 and v1 for any number of processes and calls |
| `Interceptor` | the two kernel modules on one system call table, with threads in system calls |
| `InterceptorProofs` | theorems about `Interceptor` for any set of threads |
| `Ancestry` | the ancestry call, pointer by pointer, over a tree of tasks that changes |
| `AncestryProofs` | theorems about the ancestors and the places left for any number of tasks and any sizes |

### How `Bathroom` corresponds to `bathroom.c`

A thread is at one of seven points. `Deciding`, `Resuming` and `Leaving` are the
stretches under the mutex; `Blocked` is the wait on `change`; `Woken` is a wait that
is over but has not got the mutex back, where it competes with every thread that
calls `Enter` or `Leave`. Taking the mutex is one step (`LockEnter`, `Relock`,
`LockLeave`), the code up to its release is the next (`EnterVacant`, `EnterSame`,
`Queue`, `Resume`, `LeaveOccupied`, `LeaveEmpty`). `Queue` is one step because the
wait gives up the mutex atomically. `Spurious` is the return POSIX allows without a
broadcast. The global `users` (the number of threads, used as an index on line 121)
is `NumUsers`, the field of the same name is the variable `users`. An increment
outside an array changes no variable of the model; it is counted in `missedB` or
`missedQ`. In `BathroomSim`, `Finalize` comes after the joins, adds up the two histograms
as the program does (`Frequency`: the raw cells, those at -1 left out) into `bper` and
`qper`, and frees the arrays, where a write outside `barray` may show itself.

The totals are wrong by one for every cell in use, because a cell starts at -1 and its
first count takes it to 0. `StatisticsBalance` says by how much they are wrong, and
`TotalFrequency`, which says that they are not, is violated. The averages are not
modelled: they start from `ques/users` and `uses/users` (lines 54 and 55), to which the
expected value is added, and with a total of 0 they are no numbers.

Left out: the timers (no branch reads them), the texts printed, the sleeping times
(an interleaving is a sleep of any length).

### How `Memory` corresponds to `memory.c`

`mem`, `freelist`, `pages`, `ispagetable` and `roundrobin` are the C variables,
`address` and `inmem` the fields of `hardware`, `swap` the lines of the swap file,
so `linecount` is its length. `pc` says what is left of the command, `ret` where
`freespace` returns to; the other variables are locals. The page tables are bytes
of `mem`, as in the program, because the program finds things in them by scanning
bytes. `EvictPage` is one round of the first loop of `freespace`, `EvictTable` of
the second; `Passed` is what the two tests at the start of a round skip. `PageFromFile`
is what a page is after its way through the file: its 16 bytes and, since `pageToFile`
ends the line with a newline and a blank, a 17th of value 0, which goes behind the 16
bytes of `temp` in `loadPage` and `loadPageTable`, on every load. What is hit there
is the compiler's choice; the model assumes a layout where nobody needs it, and makes no
claim about others. `MissingLine` is `pageFromFile` on a line that is not there. It does
not loop: the search for the line about to be written ends at the end of the file with a
line without a word, `atoi(NULL)`, and a later line is refused at once, which leaves the
buffer unfilled. When the program would crash like this, use such a buffer or leave `mem`
(a load of an entry that was never allocated reads `mem[-1]`) the model goes to `Wild`
and stops there. `Careful` describes the user: one that does not map or store to a page
that is on disk, because the program handles neither when the table is in memory, and
loads no page that was not mapped from a table in memory.

The model was compared with the compiled program on 3,400 random command sequences:
memory, free list, holders, table marks, registers, hand and number of swap lines
agreed after every command that did not go `Wild`.

Left out: parsing and range checks of `main`, and the texts; one step covers the
"altered" and the "already has value" reply of `map`, which leave the same state.

### How `Commander` corresponds to `mc2.c`

The program forks copies of itself: a background command runs in a child that
calls `run` and then goes back to the menu, and a child whose `execvp` fails goes
back to the menu too. So the state is a table of processes, and `running` and
`commands` are indexed by process and copied by `Fork`. `Poll` and `Loop` are the
start of `mainprocess` and the rest of the loop in `main`, the `Choose` actions its
switch, `run` and `WaitReturns` the two halves of `run`, `Leave` the end of `main`.
`wait` and `waitpid` return any ended child; when a process ends, its children go to
init. `removebackground` is translated with its last zero; with no zero the index is
never assigned, so it may be any number, and `unset` remembers that this happened (a
compiled copy of the function shows both outcomes, nothing and a shift by one,
depending on the optimisation). So the entries behind a removed one do not move down,
although the readme (`readme.txt:20,34`) and the comment in the code (`mc2.c:56-57`) say
that they do: the last zero is the last place of the array as long as that has never been
taken, and nothing is shifted. No property depends on the order; `ListedUntilReaped` says that a
process which is listed stays listed until it was waited for. A command of one word ends the process, because `strcpy`
gets a null pointer. The global `leave` is set only after the loop, so its tests
inside never succeed and it is left out, like the working directory and the texts.
When standard input is a file, glibc may move its position back when a process exits,
and every copy of the commander reads what is left in its own buffer; the model has
input that ends once for all, a terminal or a pipe.

### How `EarlyCommander` corresponds to `mc0.c` and `mc1.c`

Forks, execs, waits and ends are those of `Commander`, with no background processes.
`main` ends every round by calling itself, so `depth` counts the calls on the stack of
each commander, a fork copies it (`Frames`), and at `MaxDepth` the next call (`Recur`)
ends the process. v0 has no exit: "can only be terminated by ctrl-c" says its readme,
and the end of the input is one more invalid choice (`InvalidInput`), round after round;
that the stack ends at `MaxDepth` is a bound of the model, and no property is about it. v1 adds commands (`ChooseAdd1`), takes `e` or the end of
the input for an exit, and the exit returns from all the calls (`Exit1`). The wait is
for any child here too; what `mc2.c` gets wrong is right in the first two versions,
because there is never a second child.

### How `Interceptor` corresponds to `part1.c` and `kernsysinfo.c`

`table` is the system call table and `ref` the pointers `ref_sys_*` of each module,
reduced to whose function they hold. `find_sys_call_table` knows the table by the
kernel's function at `__NR_close`. The search may meet another word of the same value
first, or memory that cannot be read, whether the table holds that function or not (once
`part1` is loaded it does not, but the `ref_sys_close` of `part1` does): the module is
then `lost`, it writes to a place the model does not follow, and `rmmod_Lost` unloads it
again. A search that finds nothing at all cancels the load. `Save` stores the entries
and `Replace` writes one, `rmmod` starts the unloading, `Revert` writes one entry back
and `Free` takes the code away from under the threads that are in it. The order of the
writes inside a module is free, because nothing keeps the compiler from changing it; they
all come after `Save`, because the page protection is switched in between.
`Enter` takes the function from the table, `HandOn` calls what is stored, `Answer` is
a function that calls nobody.

A call can fault in several ways, all in the model: in code that is gone; by the null
pointer; in `new_sys_open` and `new_sys_read`, which read through the user's pointer and
write to memory that `kmalloc` may not have had (`Misread`); and in `new_cs3013_syscall2`,
when the task is gone (`Answer`; `Ancestry` has the same fault as `oops`). So no property
says that a call does not fault, or for which reasons only. `HandOnReady` says which
reason it is not: a call that is handed on finds the kernel's function.

`part1` never stores the entry of `syscall1`, so its unloading writes a null pointer there,
although the comment on line 129 says "Revert all system calls to what they were before we
began". That is in the model as it is in the code; `NoDanglingEntry` promises for that
entry only that it does not lead into the module.

Left out: the write protection of the page, the log, the search of `new_sys_read` through
the buffer (lines 40 to 44), which looks at the buffer before it calls the kernel's read
and so at the bytes of an earlier one, and what `strcpy` overwrites when these bytes are
longer than `count`.

### How `Ancestry` corresponds to `kernsysinfo.c` and `procAncestry.c`

The call starts with a pid (`find_vpid`, `pid_task`) and walks over the children
(`Children`), the siblings (`FirstSibling`, `NextSibling`, `TestSibling`) and the
ancestors (`Ancestors`); a step of the model reads one pointer, and between two steps
the tree may change. The siblings take three actions because the parent is looked up
again for every end test. A list of the kernel is a ring through a head; a head read as
if it were a task gives bytes that are no pid, `-p` in the model. The target itself is
among its siblings, as in the code. Each walk gives up with `1` when its array is
full, which happens with the tenth entry or the hundredth, even if it was the last. A
call that fails copies nothing out (`Fail`), so the caller keeps the arrays it had.

The tree is the kernel's, external to the repository: `fork`, `exit`,
`forget_original_parent` and `release_task` are the four ways it changes. Each of
them holds the lock of the task list, which the call does not take; an exit gives its
children to init in two writes per child, and the call sees what is between them. A
target that is waited for between `find_vpid` and `pid_task` leaves the call with a null
pointer to read from (`oops`). The model assumes a kernel without preemption (a
task that was waited for keeps its memory to the end of the call), and has no
debuggers, sub-reapers or `CLONE_PARENT`. `PlacesRead` is what the printing loops of
`procAncestry.c` look at. They go up to the first zero, in a response that comes from
`malloc` and that nobody clears: neither the program nor the kernel writes a zero. So the
places behind what the call has noted are what `malloc` has left there: `cleared`, or
anything, and in the latter case the loops may look one place behind the array.
`ZeroInEveryArray` is about the former, for any value the call returns, since the program
prints its arrays in any case.

## Runs

| run | instance | shows |
|---|---|---|
| `bathroom` | 3 threads, either gender each, up to 2 loops each, 4 visits, spurious wakeups, one failed `pthread_create` | types, mutex, counters, flag, no stranded waiter, queue index, statistics, teardown; only a return from the wait can put the flag at odds with the people inside; the simulation ends, whoever blocks gets in, the monitor implements `Room` with its fairness |
| `bathroom_exclusion` | 3 threads, one visit each | **violated**: two genders inside together, a waiter that comes back and an arrival that was faster |
| `bathroom_arrays` | same | **violated**: an entry is counted outside `barray` |
| `bathroom_totals` | same | **violated**: the total frequency is not the number of entries |
| `memory_careful` | 2 processes with 2 pages each that store, 5 swap lines; 3 processes that do not, 6 lines | free frames are blank, every frame is the home of one page, entries point home, no index leaves `mem` and no line is missing, tables stay where the registers say, eviction takes pages only and never the table in use, `VirtualMemory` is implemented |
| `memory_any` | 4 processes, one page each, any use, 6 lines | types, frame books, no loop of a command runs for ever: it comes back to the prompt unless it leaves its arrays |
| `memory_lines` | 1 process with 4 pages, 19 lines | **violated**: line number 16 in an entry is taken for frame 1, and the wrong page is marked as evicted |
| `memory_store` | 1 process with 4 pages | **violated**: a store to a page on disk writes over another frame and reports success |
| `commander` | v0 and v1: pids up to 3, 3 calls of `main`; v2: pids up to 3, an array of 3 places; 1 added command per commander | v0 and v1: one process at a time has the terminal, a wait is for the command just started. v2: until the array has been full, a process stays listed until it was waited for, what the array does not list was exchanged by `wait(NULL)`, and a commander that leaves has waited for a child; ended processes are waited for. v1 and v2: once every prompt is answered with the exit, everybody ends |
| `commander_wait` | v2, pids up to 4 | **violated**: a command runs on beside the menu, listed nowhere |
| `interceptor` | both modules, loaded and unloaded without end, 2 threads in any call | a module that is not at work has no function in the table and has put back what it stored; a call handed on finds the kernel's function; a function of a module is left again |
| `ancestry` | 5 tasks, arrays of 4 for relatives and 3 for ancestors | a walk over children that comes back to its start has missed none there is then, and so for the siblings unless init may have adopted the target; the ancestors leave no generation out; the call returns; a place is left in every array |

Each violation is a finding in `PROJECT.json` with the comment or readme line it
contradicts. Disagreements of code and documentation that no run shows, because they are
visible in one line of code or outside of what the models follow: the entries of `running`
do not move down (`readme.txt:20,34`, `mc2.c:56-57`), the entry of `syscall1` is not what
it was after an unload (`part1.c:129`), and `pageFromFile` crashes where its comment says
that it loops forever (`memory.c:144`).

### Bounds, and why they are enough

*Bathroom.* Three threads are needed for every kind of interference: one inside, one
queued and one arriving, or two woken from the same queue. Two loops let a thread come back while others still wait for
the broadcast of its first visit. `MaxVisits` bounds the sum of the loop counts.
Threads are interchangeable, so the violated runs use symmetry; `bathroom`, which has
liveness properties, does without and instead fixes which thread may have the other
gender. With three threads and one visit each, the violations need no more than one
user inside, one queued and one arriving. The safety
invariants of the monitor are also proved for any number of threads.

*Memory.* Two processes with two pages need two tables and four pages in four
frames, so two pages are always on disk and each can be evicted for the other
process. The refinement needs the content of pages, so `Pair`, the
first instance in `MCMemory`, stores; the second, `Trio`, does not. Three is the largest
number of processes for which a frame is left that is not a table; they have two pages
each.
`MaxLines` ends the exploration: the swap file only grows. Five or six lines are
enough for every page to be evicted and loaded back at least once. Nothing new
happens between six and sixteen lines, which random exploration up to 16 lines with
four pages per process confirmed; at 17 lines `memory_lines` begins. Above three
tables there is no frame left for pages: with a fourth process `FirstLoopTakesPages`
fails, the loop over pages takes a table for a page. So what `memory_careful` shows
is claimed for at most three processes and at most 16 swap lines, not beyond.
`memory_any` makes no such assumption: it goes through the states where tables and
pages have been confused.

*Commander.* Three processes give a commander with a background task and a command
at once, a task that forks its own command, and a copy of a copy. Three places of
`running` leave the array two steps from full, and forks that fail fill it, so both
sides of `unset` are reached. Pids are not given out twice: an entry that is stale
stays recognisable. The safety properties were also explored with 4 pids: without
error with 2 places, and with 3 places when a fork fails only for want of pids. They
stop to hold once the array has been full: with the last place taken, a removal leaves that
place behind twice. `ExitEverywhereEnds` has a premise, and the readme explains why it is
needed: "The program will not terminate if you have multiple background tasks running and
it encounters EOF or e" (`readme.txt:4`). A commander that leaves waits for one child only
(`mc2.c:384`), and a background task whose exec failed, or which has ended its command, is a
commander with a prompt of its own. The recipe of the readme is to go on answering, and
the property is that this works: once every prompt of every process is answered with `e`
or the end of the input, all come to their end. With a pipe this is so from its
end on; at a terminal, when the user keeps to it; with input from a file, once each copy has used up what it has
buffered. The added commands are assumed to end by themselves. v0 is not
meant: it has no exit (`readme.txt:8`, `mc0.c:133`). For v0 and v1, three pids give a second menu under a
menu that waits, with a command of its own; depth 3 lets the stack end in a copy that
inherited its frames. Their safety is proved for any bounds.

*Interceptor.* There is no bound on loading and unloading; two threads can be in the
two functions of one module, or in one each. The threads do not interact, and the
invariants are proved for any number of them.

*Ancestry.* With five tasks a target can have a grandparent, siblings that exit and
children that come and go, and be adopted by init in the middle of the walk; a list
can have four members, one more than the walk takes. A list of three is noted in full in an
array of four, so a walk can note two children, lose one of them and note a third that was
forked later: the result need not be a list of any one moment, and `NoRelativeMissed` does not
say so. What it says is that nobody who is a child at the end of the walk is missing, that
nobody is noted twice, and that the others in the array have been children during the walk
and are gone. The real sizes, 100 and 10, only
move the point where a walk gives up. That the ancestors are linked and the places are left is
proved for any number of tasks and any sizes.

### Fairness

`BathroomSim` assumes weak fairness of `main` and of each thread: the scheduler runs
every thread that can run. Nothing is assumed about who gets a mutex; loops are
finite, so a thread that loses `lock` again and again is alone in the end. `Spurious`
has no fairness: nobody owes a spurious wakeup. `Memory` assumes weak fairness of
`Work`, the steps of a command, since the program is alone on its machine; the user
owes nothing. `MCCommander` assumes weak fairness of every process (`Goes`): the scheduler runs
those that can run, and the programs they execute end (`ProgramEnds`), which `whoami`,
`last`, `ls` and `pwd` do. The user owes nothing there either: `ExitEverywhereEnds` starts
when every prompt is answered with the exit, `ReapedInTheEnd` speaks of a commander that is used again
and again. `Interceptor` assumes weak fairness of `Wrapper`, the code of the modules,
for each thread: the functions of the kernel may block for ever (`read` does) and
nobody has to load or unload anything. `Ancestry` assumes weak fairness of the call,
which runs on a processor of its own and never sleeps; the tasks of the tree owe
nothing, and a tree that changes for ever must not keep the call from its end.

## Proofs

`BathroomProofs` proves, for every finite set of threads and with or without spurious
wakeups, `TypeCorrect`, `MutexHeld`, `CountersExact`, `FlagExact`, `NoLostWakeup`,
`QueueIndexSafe`, `OnlyWaitersMisflag` and `MonitorImplementsRoom` (the safety part of
the refinement; `Room` then never collapses). The inductive invariant `IInv` is the
conjunction of `TypeOK`, `LockDiscipline`, `CountersAgree`, `FlagAgrees`,
`NoStrandedWaiter` and `QueueIndexInBounds`. None is inductive alone: that a waiter is
not stranded needs that the last one out sees `users = 0`, which needs exact counters,
which need the mutex; that the queue stays below the number of threads needs the
counters and somebody inside, which is what the flag says. The only assumption is
`ThreadsAssumption`.

`BathroomSimProofs` proves, from `ThreadsAssumption` and `LoopsAssumption`, that the
simulation uses the monitor as its specification says (`SimulationUsesMonitor`), so that
all of the above holds in it, and `SimTypeCorrect`, `StatisticsAddUp` and `QuietEnd`. The
invariant is that of the monitor with `Control` (how far a thread's loop is, that a
thread is in the monitor during a visit only, that one which has not been let in has
`*wait` set, who holds `print`, and that `Finalize` comes after all joins) and the balance
itself. `QuietAtFinalize` needs the balance: that `uses` is the sum of all loop counts at
the end is the balance when nobody is present. The balance speaks of sums over threads
and cells, which the library defines by recursion over sets. They are within reach
because only one property of a sum is needed, what happens to it when one term changes
(`SumChanges`), and that follows from the smallest set that would be a counterexample,
without an induction theorem.

`MemoryProofs` proves, for all processes, addresses, protections, values and any number
of swap lines, `BooksAgree` (`freelist` and `pages` never disagree) and `TypeCorrect`. The
invariant of the first adds the types of the two arrays and that `pid` is a process,
because a frame is marked as held by storing `pid`. That of the second (`Typed`) adds where
the registers may point and what the rest of a command relies on: the frame of a page
is computed from a byte of memory, and stays in range only because the program has
left its arrays (`Wild`) otherwise.

`PagingProofs` proves what `memory_careful` checks of frames and entries: `FreeIsBlank`,
`TablesKept`, `OneHome`, `EntriesRight`, `NeverAstray`, `OwnTableKept` and `PagesFirst`. Each has
the hypothesis `CarefulUser`: no page is mapped or stored to while it is on disk, none is loaded that
was not mapped from a table in memory, there are at most three processes, no protection is 16, 32 or 48, and the swap file
gets at most 16 lines. The instances of `memory_careful` are of this kind, and every part
is needed: `memory_store` and `memory_lines` show what the first and the last keep out, a
protection of 16 is taken for the address of a frame, and with four processes the
first loop of `freespace` finds no page. Addresses and values are any. The program has no data
structure in which a page has one place: the removal of a page scans all bytes of all
tables for the address of its frame. So the invariant (`CarefulInv`, checked by TLC on
three sets of processes before it was proved) says what every byte of a table may be
(`Entries`: only the frame number of a page in memory looks like the address of a frame),
that registers, marks and holders agree (`Registers`, `TableFrames`), that each page has one home
(`Pages`), and how many frames are free at each point of a command (`Control`). The last
part carries the proof of `PagesFirst` and `OwnTableKept`: a table is removed only if the
round-robin hand meets no page in a whole round, and with at most three tables in
four frames it meets one. No table is ever on disk, then (`Registers`), and `loadPageTable`
never runs: with a careful user that code is dead.

`CommanderProofs` proves `TypeCorrect`, `Accounts`, `ListKept` and `LeaversWait` from `CommanderAssumption`:
for any number of processes, places of `running` and added commands. The
invariant adds to types and accounts that pids above `last` are free, have no parent and
are in no array (`Family`), which a fork needs, and that until the array has been full its
last place is free (`LastFree`): the last zero, from which `removebackground` shifts, is then the
last place, and nothing moves, so that no process is overwritten. `UnlistedAccounted` compares the sizes of two sets; its
proof is by cases on what one step adds to and takes from each. `LeaversWait` follows from the accounts: a commander that has no stale entry
has no unlisted child either, so the one it waits for is there.

`EarlyProofs` proves `OneTerminal` and `OneChild`, for any number of processes, added
commands and calls of `main`, from `CommanderAssumption`. Neither property is
inductive: the invariant says that the processes form one line, each with one child at
most and waiting for it, that at most one process has no child and is still there
(`Tops`), and that pids above `last` are free, which a fork needs.

`InterceptorProofs` proves `NothingDangles` and `WrappersReady` for any set of
threads, with no assumption. `NoDanglingEntry` speaks of modules that are not at work;
the invariant says for every phase what an entry may hold (`Entries`), that a module
which is present has stored the functions of the kernel (`Stored`), and that a thread
in a function of a module got there by a call this module serves while its code was
there (`Callers`). `Stored` depends on `Entries`, because what is stored is read from
the table, and `Entries` on `Stored`, because it is written back.

`AncestryProofs` proves `NoGenerationMissing` from `AncestryAssumption`. The invariant
follows the call from `find_vpid` on: the array so far is a line of descent from the
target to the task the walk is at (`Descent`), and every task has a parent that was
born (`Family`), since pids that are not in use must not appear in it. That a link once
noted stays one, whatever fork, exit, reparenting or wait does, is a lemma of its own
(`TreeKeepsLinks`). `PlacesLeft` has an invariant of its own: the arrays have a place left at every point of
the call, and a call that gives up has no arrays; the lists it walks through may be
anything. It says nothing of what `malloc` has left in that place.

Only model-checked: all liveness properties (liveness under fairness is beyond TLAPS),
and with them the fairness part of the two refinements; the refinement of `VirtualMemory`,
step by step, on which the careful-user invariant has the first word (next in the
plan); of `Ancestry` the relatives, whose
lists are filtered by `SelectSeq`, a recursion over data; in `MCCommander` the three versions
together (each version is proved about on its own).

## Plan

1. The safety part of `Memory` implements `VirtualMemory`, for a careful user, from `CarefulInv`
   and an invariant for the lines of the swap file.
2. `NoRelativeMissed` of `Ancestry`.
3. `BathroomClock`: the microsecond arithmetic of the statistics as an operator,
   against elapsed time.

## Not modelled

- The parser of `memory.c` (`main`, lines 504 to 548): it has no state of its own; the
  model takes commands that are parsed and in range.
- The wall-clock statistics of the bathroom and `generateStandardRand`: numbers that
  are printed and steer nothing; so are the averages of `Finalize`.
- `project0` and the test drivers (no logic), the vendored system call tables and logs.
- What the kernel modules log, the working directory and the texts of the commanders.
- Swap lines beyond 255, where the line number in an entry wraps: the model has the
  wrap (`linecount % 256`), a run of that length is out of reach.
