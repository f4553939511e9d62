--------------------------- MODULE VirtualMemory ---------------------------
(***************************************************************************)
(* What the memory simulator promises a process: a private virtual memory  *)
(* of pages that are mapped, protected, stored to and loaded from, with no *)
(* frames, tables, swap file or other processes in sight.                  *)
(***************************************************************************)
EXTENDS Integers

CONSTANTS
  Processes, Addresses, Values,
  PageSize

Pages   == {a \div PageSize : a \in Addresses}
Offsets == {a % PageSize : a \in Addresses}

\* The content of a page nobody has mapped.
Nothing == <<>>

VARIABLES
  content,      \* content[p][n]: the bytes users name of page n of process p, or Nothing
  writeable,    \* writeable[p][n]: may the page be stored to?
  reply         \* the outcome of the last command

vmVars == <<content, writeable, reply>>

Mapped(p, a) == content[p][a \div PageSize] # Nothing

Says(kind, value) == reply' = [kind |-> kind, value |-> value]

VMInit ==
  /\ content = [p \in Processes |-> [n \in Pages |-> Nothing]]
  /\ writeable = [p \in Processes |-> [n \in Pages |-> FALSE]]
  /\ reply = [kind |-> "none", value |-> 0]

\* A page is mapped once, zeroed; mapping it again changes its protection only.
MapPage(p, a) ==
  /\ \/ /\ Says("mapped", 0)
        /\ ~Mapped(p, a)
        /\ content' = [content EXCEPT ![p][a \div PageSize] = [i \in Offsets |-> 0]]
     \/ /\ Says("altered", 0)
        /\ Mapped(p, a)
        /\ UNCHANGED content
  /\ \E w \in BOOLEAN : writeable' = [writeable EXCEPT ![p][a \div PageSize] = w]

StoreByte(p, a, v) ==
  /\ Says("stored", v)
  /\ Mapped(p, a) /\ writeable[p][a \div PageSize]
  /\ content' = [content EXCEPT ![p][a \div PageSize][a % PageSize] = v]
  /\ UNCHANGED writeable

\* A store that is refused; if the page is not mapped either reason may be given.
RefuseStore(p, a) ==
  /\ \/ Says("readonly", 0) /\ ~(Mapped(p, a) /\ writeable[p][a \div PageSize])
     \/ Says("segfault", 0) /\ ~Mapped(p, a)
  /\ UNCHANGED <<content, writeable>>

LoadByte(p, a) ==
  /\ Mapped(p, a)
  /\ Says("value", content[p][a \div PageSize][a % PageSize])
  /\ UNCHANGED <<content, writeable>>

\* A load of a page that is not mapped prints an error or nothing.
RefuseLoad(p, a) ==
  /\ \E kind \in {"segfault", "none"} : Says(kind, 0)
  /\ ~Mapped(p, a)
  /\ UNCHANGED <<content, writeable>>

VMNext ==
  \E p \in Processes, a \in Addresses :
    \/ MapPage(p, a)
    \/ \E v \in Values : StoreByte(p, a, v)
    \/ RefuseStore(p, a)
    \/ LoadByte(p, a)
    \/ RefuseLoad(p, a)

VMSpec == VMInit /\ [][VMNext]_vmVars
=============================================================================
