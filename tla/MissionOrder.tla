----------------------------- MODULE MissionOrder -----------------------------
(***************************************************************************)
(* What the mission of the leader promises, whatever it sees on the way:    *)
(* one exit is fixed for good while the corridor is searched, the corridor  *)
(* is left by it in a later step, and the vehicle lands only beyond it.     *)
(***************************************************************************)
EXTENDS Naturals

CONSTANT None

VARIABLES
  phase,   \* "search", "leave", "outside" or "land"
  exit,    \* the exit fixed, or None
  place    \* where the vehicle is: it moves freely

Init == phase = "search" /\ exit = None /\ place = 0

Fix == phase = "search" /\ exit = None /\ exit' # None /\ UNCHANGED phase
Leave == phase = "search" /\ exit # None /\ phase' = "leave" /\ UNCHANGED exit
Cross == phase = "leave" /\ place' > exit /\ phase' = "outside" /\ UNCHANGED exit
Land == phase = "outside" /\ phase' = "land" /\ UNCHANGED exit
Move == UNCHANGED <<phase, exit>>

Next == Fix \/ Leave \/ Cross \/ Land \/ Move

Spec == Init /\ [][Next]_<<phase, exit, place>>

===============================================================================
