-------------------------- MODULE CommanderProofs --------------------------
(***************************************************************************)
(* Safety of Mid-Day Commander v2 for any number of processes, of places   *)
(* in the array and of added commands.                                     *)
(***************************************************************************)
EXTENDS Commander, FiniteSetTheorems, WellFoundedInduction, TLAPS

Entries == Pids \union {0, Failed}

Types ==
  /\ state \in [Pids -> States]
  /\ parent \in [Pids -> Pids \union {Nobody}]
  /\ running \in [Pids -> [Slots -> Entries]]
  /\ commands \in [Pids -> Seq(BOOLEAN)]
  /\ \A p \in Pids : Len(commands[p]) <= MaxCommands
  /\ unset \in [Pids -> BOOLEAN]
  /\ last \in Pids
  /\ eof \in BOOLEAN

(* Who has a parent has one that can wait; pids above last are free, and   *)
(* no array names them.                                                    *)
Family ==
  /\ \A p \in Pids : parent[p] # Nobody => state[parent[p]] \in Commanders
  /\ \A p \in Pids : p > last <=> state[p] = "unused"
  /\ \A p \in Pids : state[p] = "unused" => parent[p] = Nobody
  /\ \A c \in Pids, i \in Slots : running[c][i] <= last

LastPlace == MaxBack - 1

(* The last place is free, or the array is full and the loop about to find *)
(* out.                                                                    *)
LastFree ==
  \A c \in Pids : ~unset[c] =>
    \/ running[c][LastPlace] = 0
    \/ state[c] = "loop" /\ Zeros(running[c]) = {}

Accounted(c) ==
  Cardinality(Unlisted(c)) <=
    Cardinality(Stale(c)) + (IF state[c] = "wait" THEN 1 ELSE 0)

IInv == Types /\ Family /\ LastFree /\ UnlistedAccounted

-----------------------------------------------------------------------------
(* Numbers. *)

Less == {ss \in Nat \X Nat : ss[1] < ss[2]}

\* The numbers are well founded under their order.
LEMMA LessWellFounded == IsWellFoundedOn(Less, Nat)
BY NatLessThanWellFounded DEF OpToRel, Less

(* A set of numbers has a first one. *)
LEMMA MinOfNumbers ==
  ASSUME NEW S \in SUBSET Nat, S # {}
  PROVE  Min(S) \in S /\ \A m \in S : Min(S) <= m
<1>1. PICK n \in S : \A m \in S : <<m, n>> \notin Less
  BY LessWellFounded, WFMin
<1>2. ASSUME NEW m \in S
      PROVE  n <= m
  <2>1. <<m, n>> \in Nat \X Nat /\ m \in Nat /\ n \in Nat
    OBVIOUS
  <2>2. ~(m < n)
    BY <1>1, <2>1 DEF Less
  <2> QED
    BY <2>1, <2>2
<1> QED
  BY <1>2 DEF Min

\* What the assumptions on the constants give the steps.
LEMMA Constants ==
  /\ Slots \in SUBSET Nat /\ LastPlace \in Slots /\ \A i \in Slots : i <= LastPlace
  /\ IsFiniteSet(Slots) /\ IsFiniteSet(Pids)
  /\ Nobody \notin Pids /\ Failed \notin Pids /\ 0 \notin Pids /\ Pids \in SUBSET Nat
<1>1. IsFiniteSet(0 .. MaxBack - 1) /\ IsFiniteSet(1 .. MaxPid)
  BY CommanderAssumption, FS_Interval
<1> QED
  BY <1>1, CommanderAssumption DEF Slots, LastPlace, Pids, Nobody, Failed

(* Sets of pids and of places are finite. *)
LEMMA Finite ==
  /\ \A S \in SUBSET Pids : IsFiniteSet(S) /\ Cardinality(S) \in Nat
  /\ \A S \in SUBSET Slots : IsFiniteSet(S) /\ Cardinality(S) \in Nat
BY Constants, FS_Subset, FS_CardinalityType

\* What a shell has not listed are processes, what it holds of dead ones are places.
LEMMA Sets ==
  \A c \in Pids : Unlisted(c) \in SUBSET Pids /\ Stale(c) \in SUBSET Slots
BY DEF Unlisted, Children, Stale

-----------------------------------------------------------------------------
(* The array. *)

(* With a free last place a removal does what it should: the entries of    *)
(* the process are cleared and the others stay.                            *)
LEMMA Removal ==
  ASSUME Types, NEW c \in Pids, NEW pid \in Pids \union {0},
         ~unset[c], running[c][LastPlace] = 0,
         removebackground(c, pid)
  PROVE  /\ running' = [running EXCEPT ![c] = Cleared(running[c], pid)]
         /\ UNCHANGED unset
<1> DEFINE a == Cleared(running[c], pid)
<1>1. a \in [Slots -> Entries] /\ LastPlace \in Zeros(a)
  BY Constants DEF Types, Cleared, Zeros, Entries
<1>2. Zeros(a) # {} /\ \A i \in Zeros(a) : i <= LastPlace
  BY <1>1, Constants DEF Zeros
<1>3. Max(Zeros(a)) = LastPlace
  <2>1. Max(Zeros(a)) \in Zeros(a) /\ Max(Zeros(a)) >= LastPlace
    BY <1>1, <1>2 DEF Max
  <2>2. Max(Zeros(a)) \in Nat /\ LastPlace \in Nat /\ Max(Zeros(a)) <= LastPlace
    BY <1>2, <2>1, Constants DEF Zeros
  <2> QED
    BY <2>1, <2>2
<1>4. Indices(a) = {LastPlace}
  BY <1>2, <1>3 DEF Indices
<1>5. Shifted(a, LastPlace) = a
  BY <1>1, Constants, CommanderAssumption DEF Shifted, LastPlace
<1> QED
  BY <1>2, <1>4, <1>5 DEF removebackground, Types

(* With or without a free place, the types are kept. *)
LEMMA RemovalTypes ==
  ASSUME Types, Family, NEW c \in Pids, NEW pid \in Pids \union {0}, removebackground(c, pid)
  PROVE  /\ running' \in [Pids -> [Slots -> Entries]]
         /\ unset' \in [Pids -> BOOLEAN]
         /\ \A d \in Pids, i \in Slots : running'[d][i] <= last
         /\ \A d \in Pids \ {c} : running'[d] = running[d] /\ unset'[d] = unset[d]
<1> DEFINE a == Cleared(running[c], pid)
<1>0. last \in Nat
  BY Constants DEF Types
<1>1. a \in [Slots -> Entries] /\ \A i \in Slots : a[i] <= last
  BY <1>0 DEF Types, Family, Cleared, Entries
<1>2. PICK index \in Indices(a) : running' = [running EXCEPT ![c] = Shifted(a, index)]
  BY DEF removebackground
<1>3. /\ Shifted(a, index) \in [Slots -> Entries]
      /\ \A i \in Slots : Shifted(a, index)[i] <= last
  <2>1. ASSUME NEW i \in Slots, i < MaxBack - 1
        PROVE  i + 1 \in Slots
    BY <2>1, CommanderAssumption DEF Slots
  <2>2. ASSUME NEW i \in Slots
        PROVE  /\ Shifted(a, index)[i] \in Entries
               /\ Shifted(a, index)[i] <= last
    <3>1. \/ Shifted(a, index)[i] = a[i + 1] /\ i < MaxBack - 1
          \/ Shifted(a, index)[i] = a[i]
      BY DEF Shifted
    <3> QED
      BY <1>1, <2>1, <3>1
  <2> QED
    BY <2>2 DEF Shifted
<1> HIDE DEF a
<1>4. unset' \in [Pids -> BOOLEAN] /\ \A d \in Pids \ {c} : unset'[d] = unset[d]
  BY DEF removebackground, Types
<1> QED
  BY <1>2, <1>3, <1>4 DEF Types, Family

(* A process that is started is noted at a free place. *)
LEMMA Adding ==
  ASSUME NEW a \in [Slots -> Entries], NEW e \in Entries \ {0}
  PROVE  \/ Zeros(a) = {} /\ addrunning(a, e) = a
         \/ \E i \in Slots : a[i] = 0 /\ addrunning(a, e) = [a EXCEPT ![i] = e]
<1>1. CASE Zeros(a) # {}
  <2>1. Min(Zeros(a)) \in Zeros(a)
    BY <1>1, MinOfNumbers, Constants DEF Zeros
  <2> QED
    BY <1>1, <2>1 DEF addrunning, Zeros
<1> QED
  BY <1>1 DEF addrunning

(* The last place is the last to be taken. *)
LEMMA NotedLast ==
  ASSUME NEW a \in [Slots -> Entries], NEW e \in Entries \ {0}, a[LastPlace] = 0
  PROVE  \/ addrunning(a, e)[LastPlace] = 0
         \/ Zeros(addrunning(a, e)) = {}
<1>1. LastPlace \in Zeros(a) /\ Zeros(a) \in SUBSET Nat
  BY Constants DEF Zeros
<1>2. Min(Zeros(a)) \in Zeros(a) /\ \A j \in Zeros(a) : Min(Zeros(a)) <= j
  BY <1>1, MinOfNumbers
<1>3. addrunning(a, e) = [a EXCEPT ![Min(Zeros(a))] = e]
  BY <1>1 DEF addrunning
<1>4. CASE Min(Zeros(a)) = LastPlace
  <2>1. ASSUME NEW j \in Zeros(a)
        PROVE  j = LastPlace
    <3>1. j \in Nat /\ LastPlace \in Nat /\ j <= LastPlace /\ LastPlace <= j
      BY <1>2, <1>4, Constants DEF Zeros
    <3> QED
      BY <3>1
  <2> QED
    BY <1>3, <1>4, <2>1, Constants DEF Zeros
<1>5. CASE Min(Zeros(a)) # LastPlace
  BY <1>3, <1>5, Constants
<1> QED
  BY <1>4, <1>5

-----------------------------------------------------------------------------
(* The account of a commander. *)

(* It does not change with the children and the array, *)
LEMMA SameAccount ==
  ASSUME NEW c \in Pids, Accounted(c),
         Children(c)' = Children(c), running'[c] = running[c],
         state[c] = "wait" => state'[c] = "wait"
  PROVE  Accounted(c)'
<1>1. Unlisted(c)' = Unlisted(c) /\ Stale(c)' = Stale(c)
  BY DEF Unlisted, Stale, Listed
<1>2. Cardinality(Unlisted(c)) \in Nat /\ Cardinality(Stale(c)) \in Nat
  BY Sets, Finite
<1> QED
  BY <1>1, <1>2 DEF Accounted

(* and without children there is nothing to account for. *)
LEMMA NothingToAccount ==
  ASSUME NEW c \in Pids, Children(c)' = {}
  PROVE  Accounted(c)'
<1>1. Unlisted(c)' = {} /\ Stale(c)' \in SUBSET Slots
  BY DEF Unlisted, Stale
<1>2. Cardinality(Unlisted(c)') = 0 /\ Cardinality(Stale(c)') \in Nat
  BY <1>1, Finite, FS_EmptySet
<1> QED
  BY <1>2 DEF Accounted

-----------------------------------------------------------------------------
(* What the steps do to the invariant. *)

(* Only commanders have children. *)
LEMMA Childless ==
  ASSUME IInv, NEW c \in Pids, state[c] \notin Commanders
  PROVE  Children(c) = {}
BY Constants DEF IInv, Family, Children

(* The last place of whoever is not in the loop is free. *)
LEMMA PlaceLeft ==
  ASSUME IInv, NEW c \in Pids, state[c] # "loop", ~unset[c]
  PROVE  running[c][LastPlace] = 0
BY DEF IInv, LastFree

(* A process goes on and no array changes. *)
LEMMA Moved ==
  ASSUME IInv, NEW c \in Pids, NEW next \in States \ {"unused"},
         state[c] \notin {"unused", "loop"},
         state[c] \in Commanders => next \in Commanders,
         state[c] = "wait" => Children(c) = {},
         state' = [state EXCEPT ![c] = next],
         commands' \in [Pids -> Seq(BOOLEAN)],
         \A p \in Pids : Len(commands'[p]) <= MaxCommands,
         UNCHANGED <<parent, running, unset, last>>, eof' \in BOOLEAN
  PROVE  IInv'
<1>1. Types'
  BY DEF IInv, Types, Pids
<1>2. Family'
  BY DEF IInv, Family, Types, Pids
<1>3. LastFree'
  BY DEF IInv, LastFree, Types, Zeros, LastPlace, Slots
<1>4. ASSUME NEW d \in Pids, state'[d] \in Commanders, ~unset'[d]
      PROVE  Accounted(d)'
  <2>1. Children(d)' = Children(d)
    BY DEF Children
  <2>2. Children(d) = {} => Accounted(d)'
    BY <2>1, NothingToAccount
  <2>3. CASE Children(d) # {}
    <3>0. state[d] \in Commanders /\ (state[d] = "wait" => d # c)
      BY <2>3, Childless
    <3>1. Accounted(d)
      BY <1>4, <3>0 DEF IInv, UnlistedAccounted, Accounted
    <3> QED
      BY <2>1, <3>0, <3>1, SameAccount DEF IInv, Types
  <2> QED
    BY <2>2, <2>3
<1> QED
  BY <1>1, <1>2, <1>3, <1>4 DEF IInv, UnlistedAccounted, Accounted

(* The end of a process. *)
LEMMA Ends ==
  ASSUME IInv, NEW p \in Pids, state[p] # "unused", End(p)
  PROVE  IInv'
<1>1. \A d \in Pids \ {p} : /\ running'[d] = running[d] /\ unset'[d] = unset[d]
                            /\ commands'[d] = commands[d]
  BY DEF End, Forget, IInv, Types
<1>2. running'[p] = Empty /\ unset'[p] = FALSE /\ commands'[p] = <<>>
  BY DEF End, Forget, IInv, Types
<1>3. Empty \in [Slots -> Entries] /\ Empty[LastPlace] = 0
  BY Constants DEF Empty, Entries
<1>4. /\ state'[p] \in {"gone", "zombie"}
      /\ \A q \in Pids \ {p} : \/ state'[q] = state[q]
                               \/ state[q] = "zombie" /\ state'[q] = "gone"
  BY DEF End, Ended
<1>5. \A q \in Pids : /\ parent[q] = p => parent'[q] = Nobody
                      /\ parent[q] # p => parent'[q] = parent[q]
  BY DEF End, Children
<1>6. Types'
  <2>1. state' \in [Pids -> States]
    <3>1. \A q \in Pids : state'[q] \in States
      BY <1>4 DEF IInv, Types, States
    <3> QED
      BY <3>1 DEF End
  <2>2. parent' \in [Pids -> Pids \union {Nobody}]
    <3>1. \A q \in Pids : parent'[q] \in Pids \union {Nobody}
      BY <1>5 DEF IInv, Types
    <3> QED
      BY <3>1 DEF End
  <2>3. running' \in [Pids -> [Slots -> Entries]]
    BY <1>3 DEF End, Forget, IInv, Types
  <2>4. commands' \in [Pids -> Seq(BOOLEAN)] /\ unset' \in [Pids -> BOOLEAN]
    BY DEF End, Forget, IInv, Types
  <2>5. \A q \in Pids : Len(commands'[q]) <= MaxCommands
    BY <1>1, <1>2, CommanderAssumption DEF IInv, Types
  <2> QED
    BY <2>1, <2>2, <2>3, <2>4, <2>5 DEF End, IInv, Types
<1>7. Family'
  <2>1. \A q \in Pids : parent'[q] # Nobody => state'[parent'[q]] \in Commanders
    <3> SUFFICES ASSUME NEW q \in Pids, parent'[q] # Nobody
                 PROVE  state'[parent'[q]] \in Commanders
      OBVIOUS
    <3>1. parent'[q] = parent[q] /\ parent[q] \in Pids \ {p} /\ state[parent[q]] \in Commanders
      BY <1>5 DEF IInv, Family, Types
    <3>2. "zombie" \notin Commanders
      BY DEF Commanders, Looping
    <3> QED
      BY <1>4, <3>1, <3>2
  <2>2. \A q \in Pids : state'[q] = "unused" <=> state[q] = "unused"
    BY <1>4
  <2>3. \A q \in Pids : state'[q] = "unused" => parent'[q] = Nobody
    BY <2>2, <1>5 DEF IInv, Family
  <2>4. \A d \in Pids, i \in Slots : running'[d][i] <= last
    BY <1>1, <1>2, Constants DEF IInv, Family, Types, Empty
  <2> QED
    BY <2>1, <2>2, <2>3, <2>4 DEF IInv, Family, End, Pids, Slots
<1>8. LastFree'
  <2>1. ASSUME NEW d \in Pids, ~unset'[d]
        PROVE  \/ running'[d][LastPlace] = 0
               \/ state'[d] = "loop" /\ Zeros(running'[d]) = {}
    BY <1>1, <1>2, <1>3, <1>4, <2>1 DEF IInv, LastFree
  <2> QED
    BY <2>1 DEF LastFree, Zeros, LastPlace, Pids, Slots
<1>9. ASSUME NEW d \in Pids, state'[d] \in Commanders, ~unset'[d]
      PROVE  Accounted(d)'
  <2>1. d # p /\ state'[d] = state[d]
    BY <1>4, <1>9 DEF Commanders, Looping
  <2>2. Children(d)' = Children(d)
    BY <1>5, <2>1, Constants DEF Children
  <2>3. Accounted(d)
    BY <1>1, <1>9, <2>1 DEF IInv, UnlistedAccounted, Accounted
  <2> QED
    BY <1>1, <2>1, <2>2, <2>3, SameAccount
<1> QED
  BY <1>6, <1>7, <1>8, <1>9 DEF IInv, UnlistedAccounted, Accounted

(* A child is born that inherits everything, and its parent may note it.   *)
LEMMA Forked ==
  ASSUME IInv, NEW c \in Pids, NEW next \in {"wait", "loop"}, NEW born \in {"start", "exec"},
         state[c] \in {"menu", "start"},
         Fork(c, next, born), NEW a \in [Slots -> Entries],
         running' = [running EXCEPT ![last + 1] = running[c], ![c] = a],
         \A i \in Slots : a[i] <= last + 1,
         ~unset[c] => \/ a[LastPlace] = 0
                      \/ next = "loop" /\ Zeros(a) = {},
         state'[c] \in Commanders /\ ~unset'[c] => Accounted(c)',
         UNCHANGED eof
  PROVE  IInv'
<1> DEFINE child == last + 1
<1>1. /\ last \in Nat /\ child \in Pids /\ child # c /\ c <= last
      /\ state[child] = "unused" /\ parent[child] = Nobody
  <2>1. last \in Nat /\ MaxPid \in Nat /\ last < MaxPid /\ c \in Nat /\ 1 <= last
    BY Constants, CommanderAssumption DEF Fork, IInv, Types, Pids
  <2>2. child \in Pids /\ child > last
    BY <2>1 DEF Pids
  <2>3. ~(c > last) /\ state[child] = "unused" /\ parent[child] = Nobody
    BY <2>2 DEF IInv, Family
  <2> QED
    BY <2>1, <2>2, <2>3
<1>2. /\ state'[c] = next /\ state'[child] = born
      /\ \A d \in Pids \ {c, child} : state'[d] = state[d]
  BY <1>1 DEF Fork, IInv, Types
<1>3. parent'[child] = c /\ \A d \in Pids \ {child} : parent'[d] = parent[d]
  BY <1>1 DEF Fork, IInv, Types
<1>4. /\ running'[c] = a /\ running'[child] = running[c]
      /\ \A d \in Pids \ {c, child} : running'[d] = running[d]
  BY <1>1 DEF IInv, Types
<1>5. unset'[child] = unset[c] /\ \A d \in Pids \ {child} : unset'[d] = unset[d]
  BY <1>1 DEF Fork, IInv, Types
<1>6. last' = child
  BY DEF Fork
<1>7. Types'
  <2>1. state' \in [Pids -> States] /\ parent' \in [Pids -> Pids \union {Nobody}]
    BY DEF Fork, IInv, Types, States, Commanders, Looping
  <2>2. running' \in [Pids -> [Slots -> Entries]]
    BY <1>1 DEF IInv, Types
  <2>3. /\ commands' \in [Pids -> Seq(BOOLEAN)] /\ unset' \in [Pids -> BOOLEAN]
        /\ \A p \in Pids : Len(commands'[p]) <= MaxCommands
    BY <1>1 DEF Fork, IInv, Types
  <2> QED
    BY <1>1, <1>6, <2>1, <2>2, <2>3 DEF IInv, Types, Pids, Slots, Entries
<1> HIDE DEF child
<1>8. Family'
  <2>1. ASSUME NEW q \in Pids, parent'[q] # Nobody
        PROVE  state'[parent'[q]] \in Commanders
    <3>1. CASE q = child \/ parent[q] = c
      BY <1>2, <1>3, <3>1 DEF Commanders, Looping
    <3>2. CASE q # child /\ parent[q] # c
      <4>1. parent'[q] = parent[q] /\ parent[q] \in Pids /\ state[parent[q]] \in Commanders
        BY <1>3, <2>1, <3>2 DEF IInv, Family, Types
      <4>2. parent[q] # child
        BY <1>1, <4>1 DEF Commanders, Looping
      <4> QED
        BY <1>2, <3>2, <4>1, <4>2
    <3> QED
      BY <3>1, <3>2
  <2>2. ASSUME NEW p \in Pids
        PROVE  p > child <=> state'[p] = "unused"
    <3>1. p \in Nat /\ (p > last <=> state[p] = "unused") /\ c \in Nat
      BY Constants DEF IInv, Family
    <3> QED
      BY <1>1, <1>2, <3>1 DEF child
  <2>3. \A p \in Pids : state'[p] = "unused" => parent'[p] = Nobody
    BY <1>2, <1>3 DEF IInv, Family
  <2>4. ASSUME NEW d \in Pids, NEW i \in Slots
        PROVE  running'[d][i] <= child
    <3>1. running[c][i] <= last /\ running[d][i] <= last
      BY DEF IInv, Family
    <3>2. running[c][i] \in Int /\ running[d][i] \in Int
      BY DEF IInv, Types, Entries, Failed, Pids
    <3>3. running[c][i] <= child /\ running[d][i] <= child
      BY <1>1, <3>1, <3>2 DEF child
    <3> QED
      BY <1>4, <3>3 DEF child
  <2> QED
    BY <1>6, <2>1, <2>2, <2>3, <2>4 DEF Family, Pids, Slots
<1>9. LastFree'
  <2>1. ASSUME NEW d \in Pids, ~unset'[d]
        PROVE  \/ running'[d][LastPlace] = 0
               \/ state'[d] = "loop" /\ Zeros(running'[d]) = {}
    <3>1. ~unset[c] => running[c][LastPlace] = 0
      BY PlaceLeft
    <3> QED
      BY <1>2, <1>4, <1>5, <2>1, <3>1 DEF IInv, LastFree
  <2> QED
    BY <2>1 DEF LastFree, Zeros, LastPlace, Pids, Slots
<1>10. ASSUME NEW d \in Pids, state'[d] \in Commanders, ~unset'[d]
       PROVE  Accounted(d)'
  <2>1. CASE d = c
    BY <1>10, <2>1
  <2>2. CASE d # c
    <3>1. d # child /\ state'[d] = state[d] /\ running'[d] = running[d] /\ unset'[d] = unset[d]
      BY <1>2, <1>4, <1>5, <1>10, <2>2 DEF Commanders, Looping
    <3>2. Children(d)' = Children(d)
      BY <1>1, <1>3, <2>2, <3>1, Constants DEF Children
    <3>3. Accounted(d)
      BY <1>10, <3>1 DEF IInv, UnlistedAccounted, Accounted
    <3> QED
      BY <3>1, <3>2, <3>3, SameAccount
  <2> QED
    BY <2>1, <2>2
<1> QED
  BY <1>7, <1>8, <1>9, <1>10 DEF IInv, UnlistedAccounted, Accounted

(* A child is waited for, and its commander may clear its entry. *)
LEMMA Reaped ==
  ASSUME IInv, NEW c \in Pids, NEW z \in Ended(c), NEW next \in {"menu", "loop"},
         state[c] \in {"poll", "wait"}, Reap(c, z, next),
         running' \in [Pids -> [Slots -> Entries]], unset' \in [Pids -> BOOLEAN],
         \A d \in Pids, i \in Slots : running'[d][i] <= last,
         \A d \in Pids \ {c} : running'[d] = running[d] /\ unset'[d] = unset[d],
         ~unset'[c] => running'[c][LastPlace] = 0 /\ Accounted(c)',
         UNCHANGED <<commands, last, eof>>
  PROVE  IInv'
<1>1. z \in Pids /\ z # c /\ state[z] = "zombie" /\ parent[z] = c
  BY DEF Ended, Children
<1>2. /\ state'[c] = next /\ state'[z] = "gone"
      /\ \A d \in Pids \ {c, z} : state'[d] = state[d]
  BY <1>1 DEF Reap, IInv, Types
<1>3. parent'[z] = Nobody /\ \A d \in Pids \ {z} : parent'[d] = parent[d]
  BY <1>1 DEF Reap, IInv, Types
<1>4. Types'
  <2>1. state' \in [Pids -> States] /\ parent' \in [Pids -> Pids \union {Nobody}]
    BY DEF Reap, IInv, Types, States, Commanders, Looping
  <2> QED
    BY <2>1 DEF IInv, Types, Pids
<1>5. Family'
  <2>1. ASSUME NEW q \in Pids, parent'[q] # Nobody
        PROVE  state'[parent'[q]] \in Commanders
    <3>1. parent'[q] = parent[q] /\ parent[q] \in Pids /\ state[parent[q]] \in Commanders
      BY <1>3, <2>1 DEF IInv, Family, Types
    <3>2. parent[q] # z
      BY <1>1, <3>1 DEF Commanders, Looping
    <3>3. next \in Commanders
      BY DEF Commanders, Looping
    <3> QED
      BY <1>2, <3>1, <3>2, <3>3
  <2>2. \A q \in Pids : state'[q] = "unused" <=> state[q] = "unused"
    BY <1>1, <1>2
  <2>3. \A q \in Pids : state'[q] = "unused" => parent'[q] = Nobody
    BY <2>2, <1>3 DEF IInv, Family
  <2> QED
    BY <2>1, <2>2, <2>3 DEF IInv, Family, Pids, Slots
<1>6. LastFree'
  <2>1. ASSUME NEW d \in Pids, ~unset'[d]
        PROVE  \/ running'[d][LastPlace] = 0
               \/ state'[d] = "loop" /\ Zeros(running'[d]) = {}
    BY <1>1, <1>2, <2>1 DEF IInv, LastFree
  <2> QED
    BY <2>1 DEF LastFree, Zeros, LastPlace, Pids, Slots
<1>7. ASSUME NEW d \in Pids, state'[d] \in Commanders, ~unset'[d]
      PROVE  Accounted(d)'
  <2>1. CASE d = c
    BY <1>7, <2>1
  <2>2. CASE d # c
    <3>1. state'[d] = state[d] /\ running'[d] = running[d] /\ unset'[d] = unset[d]
      BY <1>2, <1>7, <2>2 DEF Commanders, Looping
    <3>2. Children(d)' = Children(d)
      BY <1>1, <1>3, <2>2, Constants DEF Children
    <3>3. Accounted(d)
      BY <1>7, <3>1 DEF IInv, UnlistedAccounted, Accounted
    <3> QED
      BY <3>1, <3>2, <3>3, SameAccount
  <2> QED
    BY <2>1, <2>2
<1> QED
  BY <1>4, <1>5, <1>6, <1>7 DEF IInv, UnlistedAccounted, Accounted

-----------------------------------------------------------------------------
(* The steps. *)

\* At the start nothing runs and the tables are empty.
LEMMA AtInit == Init => IInv
<1> SUFFICES ASSUME Init
             PROVE  IInv
  OBVIOUS
<1>1. Types
  <2>1. Empty \in [Slots -> Entries] /\ "poll" \in States /\ "unused" \in States
    BY DEF Empty, Entries, States, Commanders, Looping
  <2>2. 1 \in Pids /\ <<>> \in Seq(BOOLEAN) /\ Len(<<>>) <= MaxCommands
    BY CommanderAssumption DEF Pids
  <2> QED
    BY <2>1, <2>2 DEF Init, Start, Types
<1>2. Family
  <2>1. \A c \in Pids, i \in Slots : running[c][i] <= last
    BY DEF Init, Start, Empty
  <2>2. \A p \in Pids : p > last <=> state[p] = "unused"
    BY CommanderAssumption DEF Init, Start, Pids
  <2> QED
    BY <2>1, <2>2 DEF Init, Start, Family
<1>3. LastFree
  BY Constants DEF Init, Start, LastFree, Empty
<1>4. ASSUME NEW c \in Pids
      PROVE  Accounted(c)
  <2>1. Unlisted(c) = {} /\ Stale(c) = {}
    BY Constants DEF Init, Start, Unlisted, Stale, Children, Empty
  <2> QED
    BY <2>1, FS_EmptySet DEF Accounted
<1> QED
  BY <1>1, <1>2, <1>3, <1>4 DEF IInv, UnlistedAccounted, Accounted

(* run: the child that is born is not listed, and its parent waits. *)
LEMMA Runs ==
  ASSUME IInv, NEW c \in Pids, state[c] \in {"menu", "start"}, run(c)
  PROVE  IInv'
<1>1. CASE Fork(c, "wait", "exec") /\ running' = [running EXCEPT ![last + 1] = running[c]]
  <2> DEFINE child == last + 1
  <2>1. last \in Nat /\ child \in Pids /\ child # c /\ ~(child <= last) /\ parent[child] = Nobody
    <3>1. last \in Nat /\ MaxPid \in Nat /\ last < MaxPid /\ c \in Nat
      BY <1>1, Constants, CommanderAssumption DEF Fork, IInv, Types
    <3>2. child \in Pids /\ child > last /\ ~(child <= last)
      BY <3>1 DEF Pids
    <3>3. ~(c > last) /\ parent[child] = Nobody
      BY <3>2 DEF IInv, Types, Family
    <3> QED
      BY <3>1, <3>2, <3>3
  <2>2. running'[c] = running[c] /\ running' = [running EXCEPT ![child] = running[c], ![c] = running[c]]
    BY <1>1, <2>1 DEF IInv, Types
  <2>3. Children(c)' = Children(c) \union {child}
    BY <1>1, <2>1 DEF Fork, IInv, Types, Children
  <2>4. ASSUME ~unset'[c]
        PROVE  Accounted(c)'
    <3>1. Unlisted(c)' \in SUBSET (Unlisted(c) \union {child})
      BY <2>2, <2>3 DEF Unlisted, Listed
    <3>2. \A i \in Slots : running[c][i] # child
      BY <2>1 DEF IInv, Family
    <3>3. Stale(c)' = Stale(c)
      BY <2>2, <2>3, <3>2 DEF Stale
    <3>4. ~unset[c]
      BY <1>1, <2>1, <2>4 DEF Fork, IInv, Types
    <3>5. Cardinality(Unlisted(c)) <= Cardinality(Stale(c))
      <4>1. CASE state[c] = "menu"
        BY <3>4, <4>1, Sets, Finite DEF IInv, UnlistedAccounted, Commanders, Looping
      <4>2. CASE state[c] = "start"
        <5>1. Unlisted(c) = {}
          BY <4>2, Childless DEF Commanders, Looping, Unlisted
        <5> QED
          BY <5>1, FS_EmptySet, Sets, Finite
      <4> QED
        BY <4>1, <4>2
    <3>6. Cardinality(Unlisted(c)') <= Cardinality(Unlisted(c)) + 1
      <4>1. IsFiniteSet(Unlisted(c)) /\ Cardinality(Unlisted(c)) \in Nat
        BY Sets, Finite
      <4>2. /\ IsFiniteSet(Unlisted(c) \union {child})
            /\ Cardinality(Unlisted(c) \union {child}) <= Cardinality(Unlisted(c)) + 1
        BY <4>1, FS_AddElement
      <4>3. Cardinality(Unlisted(c)') <= Cardinality(Unlisted(c) \union {child})
        BY <3>1, <4>2, FS_Subset
      <4>4. Cardinality(Unlisted(c)') \in Nat /\ Cardinality(Unlisted(c) \union {child}) \in Nat
        BY <3>1, <4>2, FS_Subset, FS_CardinalityType
      <4> QED
        BY <4>1, <4>2, <4>3, <4>4
    <3>7. state'[c] = "wait"
      BY <1>1, <2>1 DEF Fork, IInv, Types
    <3>8. Cardinality(Unlisted(c)) \in Nat /\ Cardinality(Stale(c)) \in Nat
      BY Sets, Finite
    <3>9. Cardinality(Unlisted(c)') \in Nat
      <4>1. Unlisted(c)' \in SUBSET Pids
        BY <2>1, <3>1, Sets
      <4> QED
        BY <4>1, Finite
    <3> QED
      BY <3>3, <3>5, <3>6, <3>7, <3>8, <3>9 DEF Accounted
  <2>5. running[c] \in [Slots -> Entries] /\ \A i \in Slots : running[c][i] <= last + 1
    <3>1. running[c] \in [Slots -> Entries]
      BY DEF IInv, Types
    <3>2. \A i \in Slots : running[c][i] \in Int /\ running[c][i] <= last
      BY <3>1 DEF IInv, Family, Entries, Pids, Failed
    <3> QED
      BY <2>1, <3>1, <3>2
  <2>6. ~unset[c] => running[c][LastPlace] = 0
    BY PlaceLeft
  <2>7. eof' = eof
    BY DEF run
  <2> QED
    BY <1>1, <2>2, <2>4, <2>5, <2>6, <2>7, Forked
<1>2. CASE ForkFails(c, "wait") /\ UNCHANGED running
  <2>1. "wait" \in States \ {"unused"} /\ "wait" \in Commanders
    BY DEF States, Commanders
  <2> QED
    BY <1>2, <2>1, Moved DEF ForkFails, run, IInv, Types
<1> QED
  BY <1>1, <1>2 DEF run

(* An added command with & when the fork fails: the array notes a failure. *)
LEMMA TaskFails ==
  ASSUME IInv, NEW c \in Pids, state[c] = "menu", ForkFails(c, "loop"),
         running' = [running EXCEPT ![c] = addrunning(running[c], Failed)],
         UNCHANGED eof
  PROVE  IInv'
<1> DEFINE a == addrunning(running[c], Failed)
<1>1. running[c] \in [Slots -> Entries]
  BY DEF IInv, Types
<1>2. \/ Zeros(running[c]) = {} /\ a = running[c]
      \/ \E i \in Slots : running[c][i] = 0 /\ a = [running[c] EXCEPT ![i] = Failed]
  <2>1. Failed \in Entries \ {0}
    BY DEF Entries, Failed
  <2> QED
    BY <1>1, <2>1, Adding
<1>3. ~unset[c] => \/ a[LastPlace] = 0
                   \/ Zeros(a) = {}
  BY NotedLast, PlaceLeft, Constants DEF IInv, Types, Entries, Failed
<1> HIDE DEF a
<1>4. running'[c] = a /\ \A d \in Pids \ {c} : running'[d] = running[d]
  BY DEF IInv, Types, a
<1>5. state'[c] = "loop" /\ \A d \in Pids \ {c} : state'[d] = state[d]
  BY DEF ForkFails, IInv, Types
<1>6. Types'
  <2>1. a \in [Slots -> Entries]
    BY <1>1, <1>2 DEF Entries
  <2> QED
    BY <2>1 DEF ForkFails, IInv, Types, Pids, Slots, Entries, States, Commanders, Looping, a
<1>7. Family'
  <2>1. \A d \in Pids, i \in Slots : running'[d][i] <= last
    <3>1. last \in Nat
      BY Constants DEF IInv, Types
    <3> QED
      BY <1>1, <1>2, <1>4, <3>1 DEF IInv, Family, Failed
  <2>2. \A q \in Pids : parent'[q] # Nobody => state'[parent'[q]] \in Commanders
    BY <1>5 DEF ForkFails, IInv, Family, Types, Commanders, Looping
  <2>3. \A q \in Pids : state'[q] = "unused" <=> state[q] = "unused"
    BY <1>5
  <2> QED
    BY <2>1, <2>2, <2>3 DEF ForkFails, IInv, Family, Pids, Slots
<1>8. LastFree'
  <2>1. ASSUME NEW d \in Pids, ~unset'[d]
        PROVE  \/ running'[d][LastPlace] = 0
               \/ state'[d] = "loop" /\ Zeros(running'[d]) = {}
    BY <1>3, <1>4, <1>5, <2>1 DEF ForkFails, IInv, LastFree
  <2> QED
    BY <2>1 DEF LastFree, Zeros, LastPlace, Pids, Slots
<1>9. ASSUME NEW d \in Pids, state'[d] \in Commanders, ~unset'[d]
      PROVE  Accounted(d)'
  <2>1. Children(d)' = Children(d)
    BY DEF ForkFails, Children
  <2>2. state[d] \in Commanders /\ ~unset[d] /\ state[d] \in Commanders /\ (d = c => state[d] # "wait")
    BY <1>5, <1>9 DEF ForkFails, Commanders, Looping
  <2>3. Unlisted(d)' = Unlisted(d) /\ Stale(d)' = Stale(d)
    <3>1. CASE d = c
      <4>1. Listed(a) = Listed(running[c])
        BY <1>1, <1>2, Constants DEF Listed, Failed
      <4>2. \A i \in Slots : a[i] = running[c][i] \/ (a[i] \notin Pids /\ running[c][i] \notin Pids)
        BY <1>1, <1>2, Constants
      <4> QED
        BY <1>4, <2>1, <3>1, <4>1, <4>2 DEF Unlisted, Stale
    <3>2. CASE d # c
      BY <1>4, <2>1, <3>2 DEF Unlisted, Stale, Listed
    <3> QED
      BY <3>1, <3>2
  <2>4. Accounted(d)
    BY <2>2 DEF IInv, UnlistedAccounted, Accounted
  <2>5. Cardinality(Unlisted(d)) \in Nat /\ Cardinality(Stale(d)) \in Nat
    BY Sets, Finite
  <2>6. state[d] = "wait" => state'[d] = "wait"
    BY <1>5, <2>2
  <2> QED
    BY <2>3, <2>4, <2>5, <2>6 DEF Accounted
<1> QED
  BY <1>6, <1>7, <1>8, <1>9 DEF IInv, UnlistedAccounted, Accounted

(* An added command with &: the child is born listed. *)
LEMMA Tasks ==
  ASSUME IInv, NEW c \in Pids, ChooseTask(c)
  PROVE  IInv'
<1>0. state[c] = "menu" /\ eof' = eof
  BY DEF ChooseTask, Chooses
<1>a. running[c] \in [Slots -> Entries] /\ last \in Nat
  BY Constants DEF IInv, Types
<1>b. \A i \in Slots : running[c][i] \in Int /\ running[c][i] <= last
  BY <1>a DEF IInv, Family, Entries, Pids, Failed
<1>c. ~unset[c] => running[c][LastPlace] = 0 /\ Zeros(running[c]) # {}
  BY <1>0, PlaceLeft, Constants DEF Zeros
<1>1. CASE /\ Fork(c, "loop", "start")
           /\ running' = [running EXCEPT ![last + 1] = running[c],
                                         ![c] = addrunning(running[c], last + 1)]
  <2> DEFINE child == last + 1
             a == addrunning(running[c], child)
  <2>1. child \in Pids /\ child # c /\ ~(child <= last) /\ parent[child] = Nobody
    <3>1. last \in Nat /\ MaxPid \in Nat /\ last < MaxPid /\ c \in Nat
      BY <1>1, Constants, CommanderAssumption DEF Fork, IInv, Types
    <3>2. child \in Pids /\ child > last /\ ~(child <= last)
      BY <3>1 DEF Pids
    <3>3. ~(c > last) /\ parent[child] = Nobody
      BY <1>0, <3>2 DEF IInv, Types, Family
    <3> QED
      BY <3>1, <3>2, <3>3
  <2>2. \/ Zeros(running[c]) = {} /\ a = running[c]
        \/ \E i \in Slots : running[c][i] = 0 /\ a = [running[c] EXCEPT ![i] = child]
    <3>1. child \in Entries \ {0}
      BY <2>1, Constants DEF Entries
    <3> QED
      BY <1>a, <3>1, Adding
  <2> HIDE DEF a
  <2>3. a \in [Slots -> Entries] /\ \A i \in Slots : a[i] <= child
    <3>1. \A i \in Slots : running[c][i] <= child
      BY <1>a, <1>b
    <3> QED
      BY <1>a, <2>1, <2>2, <3>1 DEF Entries
  <2>4. running'[c] = a /\ a \in [Slots -> Entries]
    BY <1>1, <2>3 DEF a, IInv, Types
  <2>5. Children(c)' = Children(c) \union {child}
    BY <1>1, <2>1 DEF Fork, IInv, Types, Children
  <2>6. ASSUME ~unset'[c]
        PROVE  Accounted(c)'
    <3>1. ~unset[c]
      BY <1>1, <2>1, <2>6 DEF Fork, IInv, Types
    <3>2. PICK i \in Slots : running[c][i] = 0 /\ a = [running[c] EXCEPT ![i] = child]
      BY <1>c, <2>2, <3>1
    <3>3. a[i] = child /\ \A j \in Slots \ {i} : a[j] = running[c][j]
      BY <1>a, <3>2
    <3>4. Listed(a) = Listed(running[c]) \union {child}
      BY <2>1, <3>2, <3>3, Constants DEF Listed
    <3>5. Unlisted(c)' \in SUBSET Unlisted(c)
      BY <2>4, <2>5, <3>4 DEF Unlisted
    <3>6. \A j \in Slots : running[c][j] # child
      BY <2>1, <1>b
    <3>7. Stale(c)' = Stale(c)
      BY <2>4, <2>5, <3>2, <3>3, <3>6, Constants DEF Stale
    <3>8. Cardinality(Unlisted(c)) <= Cardinality(Stale(c))
      BY <1>0, <3>1, Sets, Finite DEF IInv, UnlistedAccounted, Commanders, Looping
    <3>9. /\ Cardinality(Unlisted(c)') <= Cardinality(Unlisted(c))
          /\ Cardinality(Unlisted(c)') \in Nat /\ Cardinality(Unlisted(c)) \in Nat
      BY <3>5, Sets, Finite, FS_Subset
    <3>10. Cardinality(Stale(c)) \in Nat /\ state'[c] = "loop"
      BY <1>1, <2>1, Sets, Finite DEF Fork, IInv, Types
    <3> QED
      BY <3>7, <3>8, <3>9, <3>10 DEF Accounted
  <2>7. ~unset[c] => \/ a[LastPlace] = 0
                     \/ Zeros(a) = {}
    <3>1. child \in Entries \ {0}
      BY <2>1, Constants DEF Entries
    <3> QED
      BY <1>a, <1>c, <3>1, NotedLast DEF a
  <2>8. running' = [running EXCEPT ![child] = running[c], ![c] = a]
    BY <1>1 DEF a
  <2> QED
    BY <1>0, <1>1, <2>3, <2>6, <2>7, <2>8, Forked
<1>2. CASE /\ ForkFails(c, "loop")
           /\ running' = [running EXCEPT ![c] = addrunning(running[c], Failed)]
  <2> QED
    BY <1>0, <1>2, TaskFails
<1> QED
  BY <1>1, <1>2 DEF ChooseTask

(* wait in run: whoever is waited for leaves the count, or a stale entry.  *)
LEMMA Waits ==
  ASSUME IInv, NEW c \in Pids, WaitReturns(c)
  PROVE  IInv'
<1>0. state[c] = "wait" /\ UNCHANGED <<running, commands, unset, last, eof>>
  BY DEF WaitReturns
<1>1. ASSUME NEW z \in Ended(c), Reap(c, z, "loop")
      PROVE  IInv'
  <2>1. z \in Pids /\ z # c /\ state[z] = "zombie" /\ parent[z] = c
    BY <1>0 DEF Ended, Children
  <2>2. Children(c)' = Children(c) \ {z} /\ z \in Children(c)
    BY <1>1, <2>1, Constants DEF Reap, IInv, Types, Children
  <2>3. state'[c] = "loop"
    BY <1>1, <2>1 DEF Reap, IInv, Types
  <2>4. ASSUME ~unset[c]
        PROVE  Accounted(c)'
    <3>1. Cardinality(Unlisted(c)) <= Cardinality(Stale(c)) + 1
      BY <1>0, <2>4 DEF IInv, UnlistedAccounted, Commanders
    <3>2. /\ IsFiniteSet(Unlisted(c)) /\ Cardinality(Unlisted(c)) \in Nat
          /\ IsFiniteSet(Stale(c)) /\ Cardinality(Stale(c)) \in Nat
      BY Sets, Finite
    <3>3. Unlisted(c)' = Unlisted(c) \ {z}
      BY <1>0, <2>2 DEF Unlisted, Listed
    <3>4. Stale(c) \in SUBSET (Stale(c)') /\ Stale(c)' \in SUBSET Slots
      BY <1>0, <2>2 DEF Stale
    <3>5. IsFiniteSet(Stale(c)') /\ Cardinality(Stale(c)') \in Nat
      BY <3>4, Finite
    <3>6. CASE z \in Unlisted(c)
      <4>1. Cardinality(Unlisted(c)') = Cardinality(Unlisted(c)) - 1
        BY <3>2, <3>3, <3>6, FS_RemoveElement
      <4>2. Cardinality(Stale(c)) <= Cardinality(Stale(c)')
        BY <3>4, <3>5, FS_Subset
      <4> QED
        BY <2>3, <3>1, <3>2, <3>5, <4>1, <4>2 DEF Accounted
    <3>7. CASE z \notin Unlisted(c)
      <4>1. PICK i \in Slots : running[c][i] = z
        BY <2>2, <3>7 DEF Unlisted, Listed
      <4>2. i \notin Stale(c) /\ i \in Stale(c)'
        BY <1>0, <2>1, <2>2, <4>1 DEF Stale
      <4>3. Unlisted(c)' = Unlisted(c)
        BY <3>3, <3>7
      <4>4. /\ IsFiniteSet(Stale(c) \union {i})
            /\ Cardinality(Stale(c) \union {i}) = Cardinality(Stale(c)) + 1
        BY <3>2, <4>2, FS_AddElement
      <4>5. Cardinality(Stale(c) \union {i}) <= Cardinality(Stale(c)')
        BY <3>4, <3>5, <4>2, FS_Subset
      <4> QED
        BY <2>3, <3>1, <3>2, <3>5, <4>3, <4>4, <4>5 DEF Accounted
    <3> QED
      BY <3>6, <3>7
  <2>5. ~unset[c] => running[c][LastPlace] = 0
    BY <1>0, PlaceLeft
  <2>6. /\ running' \in [Pids -> [Slots -> Entries]] /\ unset' \in [Pids -> BOOLEAN]
        /\ \A d \in Pids, i \in Slots : running'[d][i] <= last
    BY <1>0 DEF IInv, Types, Family
  <2> QED
    BY <1>0, <1>1, <2>4, <2>5, <2>6, Reaped
<1>2. CASE Children(c) = {} /\ state' = [state EXCEPT ![c] = "loop"] /\ UNCHANGED parent
  <2>1. "loop" \in States \ {"unused"} /\ "loop" \in Commanders
    BY DEF States, Commanders, Looping
  <2> QED
    BY <1>0, <1>2, <2>1, Moved DEF IInv, Types
<1> QED
  BY <1>1, <1>2 DEF WaitReturns

(* The wait at the start of mainprocess clears the entries of whoever it   *)
(* waits for.                                                              *)
LEMMA Polls ==
  ASSUME IInv, NEW c \in Pids, Poll(c)
  PROVE  IInv'
<1>0. state[c] = "poll" /\ UNCHANGED <<commands, last, eof>>
  BY DEF Poll
<1>1. ASSUME NEW z \in Ended(c), Reap(c, z, "menu"), removebackground(c, z)
      PROVE  IInv'
  <2>1. z \in Pids /\ z # c /\ state[z] = "zombie" /\ parent[z] = c
    BY <1>0 DEF Ended, Children
  <2>2. Children(c)' = Children(c) \ {z} /\ z \in Children(c)
    BY <1>1, <2>1, Constants DEF Reap, IInv, Types, Children
  <2>3. state'[c] = "menu"
    BY <1>1, <2>1 DEF Reap, IInv, Types
  <2>4. /\ running' \in [Pids -> [Slots -> Entries]] /\ unset' \in [Pids -> BOOLEAN]
        /\ \A d \in Pids, i \in Slots : running'[d][i] <= last
        /\ \A d \in Pids \ {c} : running'[d] = running[d] /\ unset'[d] = unset[d]
    BY <1>1, <2>1, RemovalTypes DEF IInv
  <2>5. ASSUME ~unset'[c]
        PROVE  running'[c][LastPlace] = 0 /\ Accounted(c)'
    <3>1. ~unset[c]
      BY <1>1, <2>5 DEF removebackground, IInv, Types
    <3>2. running[c][LastPlace] = 0
      BY <1>0, <3>1, PlaceLeft
    <3>3. running'[c] = Cleared(running[c], z)
      BY <1>1, <2>1, <3>1, <3>2, Removal DEF IInv, Types
    <3>4. \A i \in Slots : /\ running[c][i] = z => running'[c][i] = 0
                           /\ running[c][i] # z => running'[c][i] = running[c][i]
      BY <3>3 DEF Cleared
    <3>5. Unlisted(c)' \in SUBSET Unlisted(c)
      BY <2>2, <3>4 DEF Unlisted, Listed
    <3>6. Stale(c)' = Stale(c)
      BY <2>2, <3>4, Constants DEF Stale
    <3>7. Cardinality(Unlisted(c)) <= Cardinality(Stale(c))
      BY <1>0, <3>1, Sets, Finite DEF IInv, UnlistedAccounted, Commanders, Looping
    <3>8. /\ Cardinality(Unlisted(c)') <= Cardinality(Unlisted(c))
          /\ Cardinality(Unlisted(c)') \in Nat /\ Cardinality(Unlisted(c)) \in Nat
      BY <3>5, Sets, Finite, FS_Subset
    <3>9. Cardinality(Stale(c)) \in Nat
      BY Sets, Finite
    <3>10. Accounted(c)'
      BY <2>3, <3>6, <3>7, <3>8, <3>9 DEF Accounted
    <3> QED
      BY <3>2, <3>4, <3>10, Constants
  <2> QED
    BY <1>0, <1>1, <2>4, <2>5, Reaped
<1>2. CASE state' = [state EXCEPT ![c] = "menu"] /\ UNCHANGED <<parent, running, unset>>
  <2>1. "menu" \in States \ {"unused"} /\ "menu" \in Commanders
    BY DEF States, Commanders, Looping
  <2> QED
    BY <1>0, <1>2, <2>1, Moved DEF IInv, Types
<1> QED
  BY <1>1, <1>2 DEF Poll

(* A round of the loop changes an array only when it was full. *)
LEMMA LoopKeeps ==
  ASSUME IInv, NEW c \in Pids, state[c] = "loop", removebackground(c, 0), ~unset'[c]
  PROVE  running'[c] = running[c] /\ running[c][LastPlace] = 0 /\ ~unset[c]
<1>1. Cleared(running[c], 0) = running[c]
  BY DEF Cleared, IInv, Types
<1>2. ~unset[c] /\ Zeros(running[c]) # {}
  BY <1>1 DEF removebackground, IInv, Types
<1>3. running[c][LastPlace] = 0
  BY <1>2 DEF IInv, LastFree
<1> QED
  BY <1>1, <1>2, <1>3, Removal DEF IInv, Types

(* The end of a round, which finds out whether the array is full. *)
LEMMA Rounds ==
  ASSUME IInv, NEW c \in Pids, Loop(c)
  PROVE  IInv'
<1>0. /\ state[c] = "loop" /\ removebackground(c, 0)
      /\ state' = [state EXCEPT ![c] = "poll"] /\ UNCHANGED <<parent, commands, last, eof>>
  BY DEF Loop
<1>1. /\ running' \in [Pids -> [Slots -> Entries]] /\ unset' \in [Pids -> BOOLEAN]
      /\ \A d \in Pids, i \in Slots : running'[d][i] <= last
      /\ \A d \in Pids \ {c} : running'[d] = running[d] /\ unset'[d] = unset[d]
  BY <1>0, RemovalTypes DEF IInv
<1>2. ~unset'[c] => running'[c] = running[c] /\ running[c][LastPlace] = 0 /\ ~unset[c]
  BY <1>0, LoopKeeps
<1>3. state'[c] = "poll" /\ \A d \in Pids \ {c} : state'[d] = state[d]
  BY <1>0 DEF IInv, Types
<1>4. Types'
  BY <1>0, <1>1 DEF IInv, Types, Pids, Slots, Entries, States, Commanders, Looping
<1>5. Family'
  <2>1. \A q \in Pids : parent'[q] # Nobody => state'[parent'[q]] \in Commanders
    BY <1>0, <1>3 DEF IInv, Family, Types, Commanders, Looping
  <2>2. \A q \in Pids : state'[q] = "unused" <=> state[q] = "unused"
    BY <1>0, <1>3
  <2> QED
    BY <1>0, <1>1, <2>1, <2>2 DEF IInv, Family, Pids, Slots
<1>6. LastFree'
  <2>1. ASSUME NEW d \in Pids, ~unset'[d]
        PROVE  \/ running'[d][LastPlace] = 0
               \/ state'[d] = "loop" /\ Zeros(running'[d]) = {}
    BY <1>1, <1>2, <1>3, <2>1 DEF IInv, LastFree
  <2> QED
    BY <2>1 DEF LastFree, Zeros, LastPlace, Pids, Slots
<1>7. ASSUME NEW d \in Pids, state'[d] \in Commanders, ~unset'[d]
      PROVE  Accounted(d)'
  <2>1. /\ running'[d] = running[d] /\ ~unset[d] /\ state[d] \in Commanders
        /\ (state[d] = "wait" => state'[d] = "wait")
    BY <1>0, <1>1, <1>2, <1>3, <1>7 DEF Commanders, Looping
  <2>2. Children(d)' = Children(d)
    BY <1>0 DEF Children
  <2>3. Accounted(d)
    BY <2>1 DEF IInv, UnlistedAccounted, Accounted
  <2> QED
    BY <2>1, <2>2, <2>3, SameAccount
<1> QED
  BY <1>4, <1>5, <1>6, <1>7 DEF IInv, UnlistedAccounted, Accounted

\* A child that becomes its program forgets the tables of the shell.
LEMMA Execs ==
  ASSUME IInv, NEW p \in Pids, Exec(p)
  PROVE  IInv'
<1>1. \A d \in Pids \ {p} : /\ running'[d] = running[d] /\ unset'[d] = unset[d]
                            /\ commands'[d] = commands[d] /\ state'[d] = state[d]
  BY DEF Exec, Forget, IInv, Types
<1>2. /\ running'[p] = Empty /\ unset'[p] = FALSE /\ commands'[p] = <<>>
      /\ state[p] = "exec" /\ state'[p] = "program"
  BY DEF Exec, Forget, IInv, Types
<1>3. Empty \in [Slots -> Entries] /\ Empty[LastPlace] = 0 /\ \A i \in Slots : Empty[i] = 0
  BY Constants DEF Empty, Entries
<1>4. UNCHANGED <<parent, last, eof>>
  BY DEF Exec
<1>5. Types'
  <2>1. running' \in [Pids -> [Slots -> Entries]]
    BY <1>3 DEF Exec, Forget, IInv, Types
  <2>2. /\ commands' \in [Pids -> Seq(BOOLEAN)] /\ unset' \in [Pids -> BOOLEAN]
        /\ state' \in [Pids -> States]
    BY DEF Exec, Forget, IInv, Types, States
  <2>3. \A q \in Pids : Len(commands'[q]) <= MaxCommands
    <3>1. Len(<<>>) <= MaxCommands
      BY CommanderAssumption
    <3>2. \A q \in Pids : Len(commands[q]) <= MaxCommands
      BY DEF IInv, Types
    <3> QED
      BY <1>1, <1>2, <3>1, <3>2
  <2> QED
    BY <1>4, <2>1, <2>2, <2>3 DEF IInv, Types, Pids, Slots, Entries
<1>6. Family'
  <2>1. \A q \in Pids : parent'[q] # Nobody => state'[parent'[q]] \in Commanders
    BY <1>1, <1>2, <1>4 DEF IInv, Family, Types, Commanders, Looping
  <2>2. \A q \in Pids : state'[q] = "unused" <=> state[q] = "unused"
    BY <1>1, <1>2
  <2>3. \A d \in Pids, i \in Slots : running'[d][i] <= last
    BY <1>1, <1>2, <1>3, Constants DEF IInv, Family, Types
  <2> QED
    BY <1>4, <2>1, <2>2, <2>3 DEF IInv, Family, Pids, Slots
<1>7. LastFree'
  <2>1. ASSUME NEW d \in Pids, ~unset'[d]
        PROVE  \/ running'[d][LastPlace] = 0
               \/ state'[d] = "loop" /\ Zeros(running'[d]) = {}
    BY <1>1, <1>2, <1>3, <2>1 DEF IInv, LastFree
  <2> QED
    BY <2>1 DEF LastFree, Zeros, LastPlace, Pids, Slots
<1>8. ASSUME NEW d \in Pids, state'[d] \in Commanders, ~unset'[d]
      PROVE  Accounted(d)'
  <2>1. d # p
    BY <1>2, <1>8 DEF Commanders, Looping
  <2>2. Children(d)' = Children(d)
    BY <1>4 DEF Children
  <2>3. Accounted(d)
    BY <1>1, <1>8, <2>1 DEF IInv, UnlistedAccounted, Accounted
  <2> QED
    BY <1>1, <2>1, <2>2, <2>3, SameAccount
<1> QED
  BY <1>5, <1>6, <1>7, <1>8 DEF IInv, UnlistedAccounted, Accounted

\* addcommand keeps the list of commands within its bound.
LEMMA Added ==
  ASSUME IInv, NEW c \in Pids, ChooseAdd(c)
  PROVE  /\ commands' \in [Pids -> Seq(BOOLEAN)]
         /\ \A q \in Pids : Len(commands'[q]) <= MaxCommands
<1>1. PICK background \in BOOLEAN :
        commands' = [commands EXCEPT ![c] = Append(commands[c], background)]
  BY DEF ChooseAdd, addcommand
<1>2. commands[c] \in Seq(BOOLEAN) /\ Len(commands[c]) < MaxCommands
  BY DEF ChooseAdd, IInv, Types
<1>3. /\ Append(commands[c], background) \in Seq(BOOLEAN)
      /\ Len(Append(commands[c], background)) = Len(commands[c]) + 1
      /\ Len(commands[c]) \in Nat
  BY <1>2
<1>4. Len(Append(commands[c], background)) <= MaxCommands
  BY <1>2, <1>3, CommanderAssumption
<1> QED
  BY <1>1, <1>3, <1>4 DEF IInv, Types

\* A step that leaves processes and tables alone, as the end of the input, keeps it.
LEMMA Kept ==
  ASSUME IInv, UNCHANGED <<state, parent, running, commands, unset, last>>, eof' \in BOOLEAN
  PROVE  IInv'
<1>1. Types'
  BY DEF IInv, Types, Pids, Slots, Entries
<1>2. Family'
  BY DEF IInv, Family, Pids, Slots
<1>3. LastFree'
  BY DEF IInv, LastFree, Zeros, LastPlace, Pids, Slots
<1>4. ASSUME NEW c \in Pids, state'[c] \in Commanders, ~unset'[c]
      PROVE  Accounted(c)'
  <2>1. Children(c)' = Children(c)
    BY DEF Children
  <2>2. Accounted(c)
    BY <1>4 DEF IInv, UnlistedAccounted, Accounted
  <2> QED
    BY <2>1, <2>2, SameAccount
<1> QED
  BY <1>1, <1>2, <1>3, <1>4 DEF IInv, UnlistedAccounted, Accounted

\* Every step of the shell, of its threads and of its children keeps the invariant.
LEMMA Steps ==
  ASSUME IInv, Next
  PROVE  IInv'
<1>1. CASE CloseInput
  <2> QED
    BY <1>1, Kept DEF CloseInput
<1>2. ASSUME NEW p \in Pids, Step(p)
      PROVE  IInv'
  <2>1. CASE Exec(p)
    BY <2>1, Execs
  <2>2. CASE ExecFails(p)
    <3>1. "loop" \in States \ {"unused"} /\ state[p] \notin {"unused", "loop", "wait"}
      BY <2>2 DEF ExecFails, States, Commanders, Looping
    <3>2. state[p] \notin Commanders
      BY <2>2 DEF ExecFails, Commanders, Looping
    <3> QED
      BY <2>2, <3>1, <3>2, Moved DEF ExecFails, IInv, Types
  <2>3. CASE ProgramEnds(p) \/ Leave(p)
    BY <2>3, Ends DEF ProgramEnds, Leave
  <2>4. CASE RunTask(p)
    BY <2>4, Runs DEF RunTask
  <2> QED
    BY <1>2, <2>1, <2>2, <2>3, <2>4, Waits, Polls, Rounds DEF Step
<1>3. ASSUME NEW p \in Pids, Choice(p)
      PROVE  IInv'
  <2>1. CASE ChooseCommand(p)
    BY <2>1, Runs DEF ChooseCommand, Chooses
  <2>2. CASE AddWithoutArgument(p)
    BY <2>2, Ends DEF AddWithoutArgument, Chooses
  <2>3. CASE ChooseOther(p) \/ ChooseAdd(p) \/ LogOut(p)
    <3>1. /\ "loop" \in States \ {"unused"} /\ "leave" \in States \ {"unused"}
          /\ "loop" \in Commanders /\ "leave" \in Commanders
      BY DEF States, Commanders, Looping
    <3>2. state[p] = "menu" /\ UNCHANGED <<parent, running, unset, last, eof>>
      BY <2>3 DEF ChooseOther, ChooseAdd, LogOut, Chooses
    <3>3. \E next \in {"loop", "leave"} : state' = [state EXCEPT ![p] = next]
      BY <2>3 DEF ChooseOther, ChooseAdd, LogOut
    <3>4. /\ commands' \in [Pids -> Seq(BOOLEAN)]
          /\ \A q \in Pids : Len(commands'[q]) <= MaxCommands
      BY <2>3, Added DEF ChooseOther, LogOut, IInv, Types
    <3> QED
      BY <3>1, <3>2, <3>3, <3>4, Moved DEF IInv, Types
  <2> QED
    BY <1>3, <2>1, <2>2, <2>3, Tasks DEF Choice
<1> QED
  BY <1>1, <1>2, <1>3 DEF Next

\* The inductive invariant: types, control, tables and children together.
THEOREM Inductive == Spec => []IInv
<1>1. IInv /\ [Next]_vars => IInv'
  BY Steps, Kept DEF vars, IInv, Types
<1> QED
  BY AtInit, <1>1, PTL DEF Spec

-----------------------------------------------------------------------------
(* The values of the variables; whoever has a parent has one that can wait *)
(* for it; pids not given out are free. (mc2.c, lines 142 to 171 and 316)  *)
THEOREM TypeCorrect == Spec => []TypeOK
<1>1. IInv => TypeOK
  <2> SUFFICES ASSUME IInv
               PROVE  TypeOK
    OBVIOUS
  <2>1. \A p \in Pids : running[p] \in [Slots -> Pids \union {0, Failed}]
    BY DEF IInv, Types, Entries
  <2>2. \A p \in Pids : commands[p] \in Seq(BOOLEAN) /\ Len(commands[p]) <= MaxCommands
    BY DEF IInv, Types
  <2> QED
    BY <2>1, <2>2 DEF IInv, Types, Family, TypeOK
<1> QED
  BY <1>1, Inductive, PTL

(* However many commanders there are, and whatever their arrays hold: each *)
(* child a commander does not list was exchanged, by the wait in run, for  *)
(* a background process that ended. (mc2.c, lines 157, 177 and 323)        *)
THEOREM Accounts == Spec => []UnlistedAccounted
<1>1. IInv => UnlistedAccounted
  BY DEF IInv
<1> QED
  BY <1>1, Inductive, PTL

(* What a process does leaves the arrays of the others alone. *)
LEMMA OwnArray ==
  ASSUME IInv, NEW p \in Pids, Step(p) \/ Choice(p), NEW c \in Pids \ {p}, state[c] # "unused"
  PROVE  running'[c] = running[c]
<1>1. last < MaxPid => /\ last + 1 \in Pids
                       /\ state[last + 1] = "unused"
  <2>1. last \in Nat /\ MaxPid \in Nat
    BY Constants, CommanderAssumption DEF IInv, Types
  <2>2. last < MaxPid => last + 1 \in Pids /\ last + 1 > last
    BY <2>1 DEF Pids
  <2> QED
    BY <2>2 DEF IInv, Family
<1>2. CASE UNCHANGED running
  BY <1>2
<1>3. CASE Forget(p)
  BY <1>3 DEF Forget, IInv, Types
<1>4. CASE run(p) \/ ChooseTask(p)
  BY <1>1, <1>4 DEF run, ChooseTask, Fork, IInv, Types
<1>5. CASE Poll(p) \/ Loop(p)
  <2>1. CASE UNCHANGED running
    BY <2>1
  <2>2. CASE \E z \in Pids \union {0} : removebackground(p, z)
    BY <2>2, RemovalTypes DEF IInv
  <2> QED
    BY <1>5, <2>1, <2>2 DEF Poll, Loop, Ended, Children
<1> QED
  BY <1>2, <1>3, <1>4, <1>5
     DEF Step, Choice, Exec, ExecFails, ProgramEnds, RunTask, WaitReturns, Leave, End,
         ChooseCommand, ChooseOther, ChooseAdd, AddWithoutArgument, LogOut

(* run and an added command change no entry of the commander, *)
LEMMA EntryOfRun ==
  ASSUME IInv, NEW c \in Pids, state[c] = "menu", run(c)
  PROVE  running'[c] = running[c]
<1>1. ~(c > last) /\ last \in Nat /\ c \in Nat
  BY Constants DEF IInv, Types, Family
<1>2. last + 1 # c
  BY <1>1
<1> QED
  BY <1>2 DEF run, IInv, Types

\* A shell that starts a child keeps the entries it has.
LEMMA EntryOfTask ==
  ASSUME IInv, NEW c \in Pids, ChooseTask(c), NEW i \in Slots, running[c][i] \in Pids
  PROVE  running'[c][i] = running[c][i]
<1>1. ~(c > last) /\ last \in Nat /\ c \in Nat
  BY Constants DEF IInv, Types, Family, ChooseTask, Chooses
<1>2. last + 1 # c /\ last + 1 # 0 /\ Failed # 0 /\ running[c] \in [Slots -> Entries]
  BY <1>1 DEF IInv, Types, Failed
<1>3. \E e \in Entries \ {0} : running'[c] = addrunning(running[c], e)
  <2>1. last < MaxPid => last + 1 \in Pids
    BY <1>1, CommanderAssumption DEF Pids
  <2> QED
    BY <1>2, <2>1 DEF ChooseTask, Fork, IInv, Types, Entries
<1> QED
  BY <1>2, <1>3, Adding, Constants

(* and the wait at the start of mainprocess only those of its process. *)
LEMMA EntryOfPoll ==
  ASSUME IInv, NEW c \in Pids, state[c] = "poll", NEW z \in Ended(c),
         Reap(c, z, "menu"), removebackground(c, z), ~unset'[c],
         NEW i \in Slots, running'[c][i] # running[c][i]
  PROVE  running[c][i] = z /\ state'[z] = "gone"
<1>1. z \in Pids /\ z # c /\ ~unset[c]
  BY DEF Ended, Children, removebackground, IInv, Types
<1>2. running'[c] = Cleared(running[c], z)
  BY <1>1, PlaceLeft, Removal DEF IInv, Types
<1> QED
  BY <1>1, <1>2 DEF Cleared, Reap, IInv, Types

(* As long as the array has not been full, what it lists stays listed      *)
(* until its commander has waited for it: in fact every entry keeps its    *)
(* place. (mc2.c, lines 58 to 76, 365)                                     *)
THEOREM ListKept == Spec => ListedUntilReaped
<1> DEFINE Stays(c, i) ==
             LET p == running[c][i]
             IN  p \in Pids /\ running'[c][i] # p
                   => \/ state[c] \notin Looping
                      \/ state'[c] \notin Commanders
                      \/ unset'[c]
                      \/ p \in Ended(c) /\ state'[p] = "gone"
<1>1. ASSUME IInv, Next, NEW c \in Pids, NEW i \in Slots
      PROVE  Stays(c, i)
  <2> SUFFICES ASSUME running[c][i] \in Pids, running'[c][i] # running[c][i],
                      state[c] \in Looping, state'[c] \in Commanders, ~unset'[c]
               PROVE  running[c][i] \in Ended(c) /\ state'[running[c][i]] = "gone"
    OBVIOUS
  <2>1. PICK q \in Pids : Step(q) \/ Choice(q)
    BY <1>1 DEF Next, CloseInput
  <2>2. q = c
    BY <1>1, <2>1, OwnArray DEF Looping
  <2>3. ~End(c) /\ ~UNCHANGED running
    BY <1>1 DEF End, Commanders, Looping
  <2>4. ~ChooseCommand(c)
    BY <1>1, EntryOfRun DEF ChooseCommand, Chooses
  <2>5. ~ChooseTask(c)
    BY <1>1, EntryOfTask
  <2>6. ~Loop(c)
    BY <1>1, LoopKeeps DEF Loop
  <2>7. Poll(c)
    BY <2>1, <2>2, <2>3, <2>4, <2>5, <2>6
       DEF Step, Choice, Exec, ExecFails, ProgramEnds, RunTask, WaitReturns, Leave,
           ChooseOther, ChooseAdd, AddWithoutArgument, LogOut, Looping
  <2> QED
    BY <1>1, <2>3, <2>7, EntryOfPoll DEF Poll
<1>2. ASSUME UNCHANGED vars, NEW c \in Pids, NEW i \in Slots
      PROVE  Stays(c, i)
  BY <1>2 DEF vars
<1>3. ASSUME IInv, [Next]_vars, NEW c \in Pids,
             NEW p \in Listed(running[c]) \ Listed(running'[c])
      PROVE  \/ state[c] \notin Looping
             \/ state'[c] \notin Commanders
             \/ unset'[c]
             \/ p \in Ended(c) /\ state'[p] = "gone"
  <2>1. PICK i \in Slots : running[c][i] = p /\ p # 0 /\ p # Failed
    BY <1>3 DEF Listed
  <2>2. p \in Pids
    BY <1>3, <2>1 DEF IInv, Types, Entries
  <2>3. running'[c][i] # p
    BY <1>3, <2>1 DEF Listed
  <2>4. Stays(c, i)
    BY <1>1, <1>2, <1>3
  <2> QED BY <2>1, <2>2, <2>3, <2>4
<1>4. IInv /\ [Next]_vars
        => [\A c \in Pids : \A p \in Listed(running[c]) \ Listed(running'[c]) :
              \/ state[c] \notin Looping
              \/ state'[c] \notin Commanders
              \/ unset'[c]
              \/ p \in Ended(c) /\ state'[p] = "gone"]_vars
  BY <1>3
<1> QED
  BY <1>4, Inductive, PTL DEF Spec, ListedUntilReaped

(* Nobody else makes a leaving commander do anything. *)
LEMMA OwnStep ==
  ASSUME IInv, NEW p \in Pids, Step(p) \/ Choice(p), NEW c \in Pids \ {p}, state[c] = "leave"
  PROVE  state'[c] = "leave"
<1>1. last < MaxPid => last + 1 \in Pids /\ state[last + 1] = "unused"
  <2>1. last \in Nat /\ MaxPid \in Nat
    BY Constants, CommanderAssumption DEF IInv, Types
  <2>2. last < MaxPid => last + 1 \in Pids /\ last + 1 > last
    BY <2>1 DEF Pids
  <2> QED
    BY <2>2 DEF IInv, Family
<1>2. CASE End(p)
  BY <1>2 DEF End, Ended
<1>3. CASE \E z \in Ended(p), next \in {"menu", "loop"} : Reap(p, z, next)
  BY <1>3 DEF Reap, Ended, IInv, Types
<1>4. CASE \E next \in States : state' = [state EXCEPT ![p] = next]
  BY <1>4 DEF IInv, Types
<1>5. CASE run(p) \/ ChooseTask(p)
  BY <1>1, <1>5 DEF run, ChooseTask, Fork, ForkFails, IInv, Types
<1> QED
  BY <1>2, <1>3, <1>4, <1>5
     DEF Step, Choice, Exec, ExecFails, ProgramEnds, RunTask, WaitReturns, Poll, Loop, Leave,
         ChooseCommand, ChooseOther, ChooseAdd, AddWithoutArgument, LogOut,
         States, Commanders, Looping

(* As long as the array has not been full, a commander that leaves and has *)
(* children has waited for one of them. (mc2.c, lines 382 to 385)          *)
THEOREM LeaversWait == Spec => LeavingWaitsForOne
<1> DEFINE WaitsForOne(c) ==
             /\ state[c] = "leave" /\ state'[c] # "leave"
             /\ ~unset[c] /\ Children(c) # {}
             => Ended(c) # {}
<1>1. ASSUME IInv, Next, NEW c \in Pids
      PROVE  WaitsForOne(c)
  <2> SUFFICES ASSUME state[c] = "leave", state'[c] # "leave", ~unset[c], Children(c) # {}
               PROVE  Ended(c) # {}
    OBVIOUS
  <2>1. PICK p \in Pids : Step(p) \/ Choice(p)
    BY <1>1 DEF Next, CloseInput
  <2>2. p = c
    BY <1>1, <2>1, OwnStep
  <2>3. Leave(c)
    BY <2>1, <2>2
       DEF Step, Choice, Exec, ExecFails, ProgramEnds, RunTask, WaitReturns, Poll, Loop,
           ChooseCommand, ChooseTask, ChooseOther, ChooseAdd, AddWithoutArgument, LogOut, Chooses
  <2>4. CASE emptybackground(running[c])
    <3>1. Stale(c) = {} /\ Unlisted(c) = Children(c)
      BY <2>4, Constants DEF emptybackground, Listed, Stale, Unlisted, Pids, Failed
    <3>2. Cardinality(Unlisted(c)) <= 0
      BY <1>1, <3>1, FS_EmptySet DEF IInv, UnlistedAccounted, Commanders
    <3>3. Unlisted(c) = {}
      BY <3>2, Sets, Finite, FS_EmptySet
    <3> QED
      BY <3>1, <3>3
  <2> QED
    BY <2>3, <2>4 DEF Leave
<1>2. ASSUME UNCHANGED vars, NEW c \in Pids
      PROVE  WaitsForOne(c)
  BY <1>2 DEF vars
<1>3. IInv /\ [Next]_vars => [\A c \in Pids : WaitsForOne(c)]_vars
  BY <1>1
<1> QED
  BY <1>3, Inductive, PTL DEF Spec, LeavingWaitsForOne
=============================================================================
