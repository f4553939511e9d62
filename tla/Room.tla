-------------------------------- MODULE Room --------------------------------
(***************************************************************************)
(* What the bathroom monitor promises its users, whatever their genders    *)
(* and without its mutex: people wait in line only while somebody is       *)
(* inside, the last one out calls the whole line, and whoever is called    *)
(* gets in.  It does not promise that the people inside share a gender.    *)
(*                                                                         *)
(* BathroomSim implements it: inside, line and called are the threads at   *)
(* the control points Using or Leaving, Blocked, and Woken or Resuming.    *)
(***************************************************************************)
EXTENDS FiniteSets

CONSTANTS
  People,
  EarlyCalls   \* may someone in line be called while the room is in use?

VARIABLES
  inside,   \* the people in the room
  line,     \* the people waiting for a call
  called,   \* the people called and not yet inside
  shut      \* the building has collapsed: nothing happens any more

roomVars == <<inside, line, called, shut>>

RoomInit == inside = {} /\ line = {} /\ called = {} /\ shut = FALSE

Away == People \ (inside \cup line \cup called)

\* Somebody finds the door open.
Walk(p) ==
  /\ p \in Away
  /\ inside' = inside \cup {p}
  /\ UNCHANGED <<line, called>>

\* Somebody finds the door closed, which it is only while the room is in use.
Line(p) ==
  /\ p \in Away
  /\ inside # {}
  /\ line' = line \cup {p}
  /\ UNCHANGED <<inside, called>>

EarlyCall(p) ==
  /\ EarlyCalls
  /\ p \in line
  /\ line' = line \ {p}
  /\ called' = called \cup {p}
  /\ UNCHANGED inside

Admit(p) ==
  /\ p \in called
  /\ called' = called \ {p}
  /\ inside' = inside \cup {p}
  /\ UNCHANGED line

\* The last one out calls everybody in line.
Depart(p) ==
  /\ p \in inside
  /\ inside' = inside \ {p}
  /\ IF inside' = {}
       THEN line' = {} /\ called' = called \cup line
       ELSE UNCHANGED <<line, called>>

Move(p) == Walk(p) \/ Line(p) \/ EarlyCall(p) \/ Admit(p) \/ Depart(p)

Open == ~shut /\ shut' = shut

Collapse == ~shut /\ shut' = TRUE /\ UNCHANGED <<inside, line, called>>

RoomNext == (Open /\ \E p \in People : Move(p)) \/ Collapse

\* Visitors leave, and those called come in, unless the building collapses.
RoomFairness ==
  \A p \in People : WF_roomVars(Open /\ Depart(p)) /\ WF_roomVars(Open /\ Admit(p))

RoomSpec == RoomInit /\ [][RoomNext]_roomVars /\ RoomFairness
=============================================================================
