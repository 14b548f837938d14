----------------------------- MODULE JointTakeoff -----------------------------
(***************************************************************************)
(* What a take-off of several vehicles together promises, whatever refuses, *)
(* fails or is tried again: all are confirmed before one is told to climb,  *)
(* all are told the same at the same moment, a climb given up is withdrawn  *)
(* from all of them before anything is told again, and the take-off is over *)
(* when all are seen hovering.                                              *)
(***************************************************************************)
CONSTANT Vehicles

VARIABLES
  report,   \* of each vehicle: "down", "ready" to climb, or "hovering"
  agreed,   \* all were confirmed ready in the present attempt
  goal,     \* what each vehicle is to do: "hold" or "climb"
  told,     \* what each vehicle was last told: "none", "hold", "climb", or by others
  air,      \* where each vehicle is: "ground" or "hover"
  over

vars == <<report, agreed, goal, told, air, over>>

All(f, x) == \A v \in Vehicles : f[v] = x

Init ==
  /\ report = [v \in Vehicles |-> "down"] /\ air = [v \in Vehicles |-> "ground"]
  /\ goal = [v \in Vehicles |-> "hold"] /\ told = [v \in Vehicles |-> "none"]
  /\ ~agreed /\ ~over

\* What is told is the goal of all of them.
Tell ==
  /\ ~over
  /\ All(goal, "hold") \/ All(goal, "climb")
  /\ told' = goal

TellAgain == Tell /\ UNCHANGED <<report, agreed, goal, air, over>>

Attempt ==
  /\ All(goal, "hold")
  /\ Tell
  /\ ~agreed'
  /\ UNCHANGED <<report, goal, air, over>>

Agree ==
  /\ \A v \in Vehicles : report[v] # "down"
  /\ All(goal, "hold")
  /\ Tell
  /\ agreed'
  /\ goal' = [v \in Vehicles |-> "climb"]
  /\ UNCHANGED <<report, air, over>>

Withdraw(v) ==
  /\ ~over
  /\ goal' = [goal EXCEPT ![v] = "hold"]
  /\ UNCHANGED <<report, agreed, told, air, over>>

HandOver ==
  /\ agreed
  /\ All(report, "hovering")
  /\ ~over /\ over'
  /\ UNCHANGED <<report, agreed, goal, told, air>>

-------------------------------------------------------------------------------
(* The vehicles and those who tell them otherwise.                          *)

Reported == UNCHANGED <<agreed, goal, told, air, over>>

ToldByOthers(v) ==
  /\ told' = [told EXCEPT ![v] = "controller"]
  /\ UNCHANGED <<report, agreed, goal, air, over>>

Lifts(v) ==
  /\ told[v] = "controller" \/ (agreed /\ told[v] = "climb")
  /\ air' = [air EXCEPT ![v] = "hover"]
  /\ UNCHANGED <<report, agreed, goal, told, over>>

Descends(v) ==
  /\ air' = [air EXCEPT ![v] = "ground"]
  /\ UNCHANGED <<report, agreed, goal, told, over>>

Next ==
  \/ TellAgain \/ Attempt \/ Agree \/ HandOver \/ Reported
  \/ \E v \in Vehicles : Withdraw(v) \/ ToldByOthers(v) \/ Lifts(v) \/ Descends(v)

Spec == Init /\ [][Next]_vars

===============================================================================
