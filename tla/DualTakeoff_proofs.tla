-------------------------- MODULE DualTakeoff_proofs --------------------------
(***************************************************************************)
(* Proofs about DualTakeoff: the vehicles are told to climb together, once  *)
(* all are confirmed armed, for any number of vehicles, attempts and losses.*)
(***************************************************************************)
EXTENDS DualTakeoff, TLAPS

Loops == [request_offboard |-> "establish_offboard", request_arm |-> "establish_armed",
          disarm |-> "wait_for_key", recover |-> "verify"]

\* Where a loop over the vehicles goes on.
Returns ==
  /\ phase \in DOMAIN Loops => resume = Loops[phase]
  /\ phase = "wait_until_ready" => resume \in {"warmup", "refresh"}

\* The targets are set again one by one: the loop, and the wait that suspends it.
Refreshing == phase = "refresh" \/ (phase = "wait_until_ready" /\ resume = "refresh")

Targets ==
  /\ Refreshing => \A v \in Vehicles \ todo : target[v] # "hover_z"
  /\ phase \in {"establish_offboard", "request_offboard", "establish_armed", "request_arm"}
       => \A v \in Vehicles : target[v] # "hover_z"
  /\ ~Refreshing => \A v, w \in Vehicles : target[v] = "hover_z" => target[w] = "hover_z"

\* A climb is a target, or was told, only after all vehicles were armed.
Commitment ==
  /\ \A v \in Vehicles : target[v] = "hover_z" \/ setpoint[v] = "climb" => committed
  /\ phase \in {"climb_and_verify", "recover", "verify"}
       => committed /\ (stable_since => stable_checks > 0)

\* A pose is never taken back, and the targets are first set with all of them.
Posed ==
  /\ \A v \in Vehicles : pose_fresh[v] => pose[v] # "none"
  /\ phase = "warmup" => \A v \in Vehicles : pose[v] # "none"

Core == TypeOK /\ Returns /\ Targets /\ ToldTogether /\ Commitment
IInv == Core /\ Posed

-------------------------------------------------------------------------------
(* The pieces the phases are made of.                                       *)

\* What is published to all follows their targets.
LEMMA Publish ==
  ASSUME IInv, publish_all, ~Refreshing
  PROVE  /\ setpoint' \in [Vehicles -> {"none", "hold", "climb", "controller"}]
         /\ ToldTogether'
         /\ \A v \in Vehicles : setpoint'[v] = "climb" => target[v] = "hover_z"
BY DEF publish_all, ToldTogether, IInv, Core, Targets, TypeOK

\* A loop goes on with the vehicles left, and then where it came from.
LEMMA NextVisitPhase ==
  ASSUME IInv, NEW v \in Vehicles, NextVisit(v), phase \in DOMAIN Loops
  PROVE  /\ todo' \in SUBSET Vehicles
         /\ resume' = resume /\ resume = Loops[phase]
         /\ phase' \in {phase, Loops[phase]}
BY DEF NextVisit, IInv, Core, Returns, TypeOK

\* A round of requests changes what PX4 does, and nothing the script relies on.
LEMMA RoundStep ==
  ASSUME IInv, NEW v \in Vehicles, phase \in DOMAIN Loops, NextVisit(v),
         armed' \in [Vehicles -> BOOLEAN], offboard' \in [Vehicles -> BOOLEAN],
         UNCHANGED <<target, stable_since, report_vars, setpoint, altitude, attempts, losses,
                     committed, stable_checks>>
  PROVE  Core'
<1>1. /\ todo' \in SUBSET Vehicles /\ resume' = resume /\ resume = Loops[phase]
      /\ phase' \in {phase, Loops[phase]}
  BY NextVisitPhase
<1>2. phase \in {"request_offboard", "request_arm", "disarm", "recover"}
  BY DEF Loops
<1>3. TypeOK'
  BY <1>1, <1>2 DEF IInv, Core, TypeOK, report_vars, Loops, Phases
<1>4. Returns' /\ Targets' /\ Commitment'
  BY <1>1, <1>2 DEF IInv, Core, Returns, Targets, Refreshing, Commitment, Loops
<1>5. ToldTogether'
  BY DEF IInv, Core, ToldTogether
<1> QED BY <1>3, <1>4, <1>5 DEF Core

\* What the vehicles and their reports do leaves the script alone.
LEMMA WorldStep ==
  ASSUME IInv, TypeOK', UNCHANGED <<script_vars, committed, stable_checks>>,
         \A v \in Vehicles : setpoint'[v] \in {setpoint[v], "controller"}
  PROVE  Core'
<1>1. Returns' /\ Targets' /\ Commitment'
  BY DEF IInv, Core, Returns, Targets, Refreshing, Commitment, script_vars
<1>2. ToldTogether'
  BY DEF IInv, Core, ToldTogether
<1> QED BY <1>1, <1>2 DEF Core

-------------------------------------------------------------------------------
(* The steps.                                                               *)

LEMMA InitCore == Init => Core
<1> SUFFICES ASSUME Init PROVE Core
  OBVIOUS
<1>1. TypeOK
  <2>1. 0 \in 0 .. MaxAttempts /\ 0 \in 0 .. MaxLosses /\ 0 \in 0 .. 2
    BY BoundsAssumption
  <2>2. \A c : \A T : c \in T => [v \in Vehicles |-> c] \in [Vehicles -> T]
    OBVIOUS
  <2>3. /\ target \in [Vehicles -> {"unset", "ground", "hover", "hover_z"}]
        /\ pose \in [Vehicles -> {"none", "ground", "hover"}]
        /\ setpoint \in [Vehicles -> {"none", "hold", "climb", "controller"}]
        /\ altitude \in [Vehicles -> {"ground", "hover"}]
    BY <2>2 DEF Init
  <2>4. \A f \in {state_armed, state_offboard, pose_fresh, armed, offboard} :
          f \in [Vehicles -> BOOLEAN]
    BY <2>2 DEF Init
  <2> QED BY <2>1, <2>3, <2>4 DEF Init, TypeOK, Phases
<1> QED BY <1>1 DEF Init, IInv, Core, Returns, Targets, Refreshing, Commitment, ToldTogether, Loops

LEMMA WaitInv == IInv /\ (wait_until_ready \/ warmup) => Core'
<1>1. ASSUME IInv, wait_until_ready PROVE Core'
  <2>1. phase' \in {phase, resume} /\ phase = "wait_until_ready" /\ resume \in {"warmup", "refresh"}
    BY <1>1 DEF IInv, Core, Returns, wait_until_ready
  <2>2. UNCHANGED <<resume, todo, target, stable_since, report_vars, px4_vars,
                    attempts, losses, committed, stable_checks>>
    BY <1>1 DEF wait_until_ready, WaitSilent, px4_vars
  <2>3. TypeOK'
    BY <1>1, <2>1, <2>2 DEF IInv, Core, TypeOK, report_vars, px4_vars, Phases
  <2>4. Returns' /\ Targets' /\ Commitment' /\ ToldTogether'
    BY <1>1, <2>1, <2>2 DEF IInv, Core, Returns, Targets, Refreshing, Commitment, ToldTogether,
                            Loops, px4_vars
  <2> QED BY <2>3, <2>4 DEF Core
<1>2. ASSUME IInv, warmup PROVE Core'
  <2>1. TypeOK'
    <3>1. target' \in [Vehicles -> {"unset", "ground", "hover", "hover_z"}]
      <4>1. pose \in [Vehicles -> {"none", "ground", "hover"}] /\ target' = pose
        BY <1>2 DEF IInv, Core, TypeOK, warmup
      <4>2. \A v \in Vehicles : pose[v] \in {"ground", "hover"}
        BY <1>2, <4>1 DEF IInv, Posed, warmup
      <4> QED BY <4>1, <4>2
    <3>2. setpoint' \in [Vehicles -> {"none", "hold", "climb", "controller"}]
      BY <1>2 DEF warmup
    <3> QED BY <1>2, <3>1, <3>2 DEF IInv, Core, TypeOK, warmup, Goto, report_vars, Phases
  <2>2. \A v \in Vehicles : target'[v] # "hover_z" /\ setpoint'[v] = "hold"
    BY <1>2 DEF IInv, Core, TypeOK, warmup
  <2>3. Returns' /\ Targets' /\ Commitment' /\ ToldTogether'
    BY <1>2, <2>2 DEF Returns, Targets, Refreshing, Commitment, ToldTogether, Loops, warmup, Goto
  <2> QED BY <2>1, <2>3 DEF Core
<1> QED BY <1>1, <1>2

LEMMA KeyInv == \A pressed \in BOOLEAN : IInv /\ wait_for_key(pressed) => Core'
<1> SUFFICES ASSUME NEW pressed \in BOOLEAN, IInv, wait_for_key(pressed) PROVE Core'
  OBVIOUS
<1>1. publish_all /\ ~Refreshing /\ phase = "wait_for_key"
  BY DEF wait_for_key, Refreshing
<1>2. /\ setpoint' \in [Vehicles -> {"none", "hold", "climb", "controller"}]
      /\ ToldTogether'
      /\ \A v \in Vehicles : setpoint'[v] = "climb" => target[v] = "hover_z"
  BY <1>1, Publish
<1>3. TypeOK'
  BY <1>2, BoundsAssumption DEF IInv, Core, TypeOK, wait_for_key, Visit, report_vars, Phases
<1>4. Returns' /\ Targets' /\ Commitment'
  BY <1>1, <1>2 DEF IInv, Core, Returns, Targets, Refreshing, Commitment, Loops, wait_for_key, Visit
<1> QED BY <1>2, <1>3, <1>4 DEF Core

LEMMA RefreshInv == \A v \in Vehicles : IInv /\ (RefreshWaits(v) \/ Refresh(v)) => Core'
<1> SUFFICES ASSUME NEW v \in Vehicles, IInv PROVE RefreshWaits(v) \/ Refresh(v) => Core'
  OBVIOUS
<1>1. ASSUME RefreshWaits(v) PROVE Core'
  <2>1. TypeOK'
    BY <1>1 DEF IInv, Core, TypeOK, RefreshWaits, Visit, report_vars, px4_vars, Phases
  <2>2. Returns' /\ Targets' /\ Commitment' /\ ToldTogether'
    BY <1>1 DEF IInv, Core, Returns, Targets, Refreshing, Commitment, ToldTogether,
                Loops, RefreshWaits,
                Visit, px4_vars
  <2> QED BY <2>1, <2>2 DEF Core
<1>2. ASSUME Refresh(v) PROVE Core'
  <2>1. /\ target' = [target EXCEPT ![v] = pose[v]] /\ todo' = todo \ {v}
        /\ phase = "refresh" /\ v \in todo
        /\ phase' = IF todo = {v} THEN "establish_offboard" ELSE "refresh"
        /\ UNCHANGED <<resume, stable_since, report_vars, px4_vars, attempts, losses, committed,
                       stable_checks>>
    BY <1>2 DEF Refresh, Latch
  <2>2. pose[v] \in {"none", "ground", "hover"}
    BY DEF IInv, Core, TypeOK
  <2>3. TypeOK'
    <3>1. pose[v] # "none"
      BY <1>2 DEF Refresh, ready, IInv, Posed
    <3>2. target' \in [Vehicles -> {"unset", "ground", "hover", "hover_z"}]
      BY <2>1, <2>2, <3>1 DEF IInv, Core, TypeOK
    <3> QED BY <2>1, <3>1 DEF IInv, Core, TypeOK, report_vars, px4_vars, Phases
  <2>4. \A w \in Vehicles : target'[w] = IF w = v THEN pose[v] ELSE target[w]
    BY <2>1 DEF IInv, Core, TypeOK
  <2>5. \A w \in Vehicles \ todo' : target'[w] # "hover_z"
    BY <2>1, <2>2, <2>4 DEF IInv, Core, Targets, Refreshing
  <2>6. Targets'
    BY <2>1, <2>5 DEF Targets, Refreshing
  <2>7. Returns' /\ Commitment' /\ ToldTogether'
    BY <2>1, <2>2, <2>4 DEF IInv, Core, Returns, Commitment, ToldTogether, Loops, px4_vars
  <2> QED BY <2>3, <2>6, <2>7 DEF Core
<1> QED BY <1>1, <1>2

LEMMA EstablishInv == IInv /\ (establish_offboard \/ establish_armed) => Core'
<1>1. ASSUME IInv, establish_offboard PROVE Core'
  <2>1. publish_all /\ ~Refreshing /\ phase = "establish_offboard"
    BY <1>1 DEF establish_offboard, Refreshing
  <2>2. /\ setpoint' \in [Vehicles -> {"none", "hold", "climb", "controller"}]
        /\ ToldTogether'
        /\ \A v \in Vehicles : setpoint'[v] # "climb" /\ target[v] # "hover_z"
    BY <1>1, <2>1, Publish DEF IInv, Core, Targets
  <2>3. /\ phase' \in {"establish_offboard", "establish_armed", "request_offboard"}
        /\ phase' = "request_offboard" => resume' = "establish_offboard"
        /\ todo' \in SUBSET Vehicles /\ resume' \in Phases
        /\ committed' = FALSE
        /\ UNCHANGED <<target, stable_since, report_vars, armed, offboard, altitude, attempts,
                       losses, stable_checks>>
    BY <1>1, <2>1 DEF IInv, Core, TypeOK, establish_offboard, Goto, Visit, PendingOffboard, Phases
  <2>4. TypeOK'
    BY <1>1, <2>2, <2>3 DEF IInv, Core, TypeOK, report_vars, Phases
  <2>5. Returns' /\ Targets' /\ Commitment'
    BY <2>2, <2>3 DEF Returns, Targets, Refreshing, Commitment, Loops
  <2> QED BY <2>2, <2>4, <2>5 DEF Core
<1>2. ASSUME IInv, establish_armed PROVE Core'
  <2>1. publish_all /\ ~Refreshing /\ phase = "establish_armed"
    BY <1>2 DEF establish_armed, Refreshing
  <2>2. /\ setpoint' \in [Vehicles -> {"none", "hold", "climb", "controller"}]
        /\ ToldTogether'
        /\ \A v \in Vehicles : setpoint'[v] # "climb" /\ target[v] # "hover_z"
    BY <1>2, <2>1, Publish DEF IInv, Core, Targets
  <2>3. UNCHANGED <<report_vars, armed, offboard, altitude, attempts, losses>>
    BY <1>2 DEF establish_armed
  <2>4. CASE BeginClimb /\ AllArmed
    <3>1. /\ target' = [v \in Vehicles |-> "hover_z"] /\ stable_since' = FALSE
          /\ stable_checks' = 0 /\ committed' = TRUE /\ phase' = "climb_and_verify"
          /\ UNCHANGED <<todo, resume>>
      BY <2>4 DEF BeginClimb, AllArmed, Goto
    <3>2. TypeOK'
      <4>1. target' \in [Vehicles -> {"unset", "ground", "hover", "hover_z"}]
        BY <3>1
      <4>2. stable_checks' \in 0 .. 2
        BY <3>1
      <4> QED BY <1>2, <2>2, <2>3, <3>1, <4>1, <4>2 DEF IInv, Core, TypeOK, report_vars, Phases
    <3>3. Returns' /\ Targets' /\ Commitment'
      BY <3>1 DEF Returns, Targets, Refreshing, Commitment, Loops
    <3> QED BY <2>2, <3>2, <3>3 DEF Core
  <2>5. CASE ~(BeginClimb /\ AllArmed)
    <3>1. /\ phase' \in {"establish_armed", "disarm", "request_arm"}
          /\ phase' = "disarm" => resume' = "wait_for_key"
          /\ phase' = "request_arm" => resume' = "establish_armed"
          /\ todo' \in SUBSET Vehicles /\ resume' \in Phases
          /\ UNCHANGED <<target, stable_since, committed, stable_checks>>
      BY <1>2, <2>1, <2>5 DEF IInv, Core, TypeOK, establish_armed, Visit, PendingArmed, Phases
    <3>2. TypeOK'
      BY <1>2, <2>2, <2>3, <3>1 DEF IInv, Core, TypeOK, report_vars, Phases
    <3>3. Returns' /\ Targets' /\ Commitment'
      BY <2>2, <3>1 DEF Returns, Targets, Refreshing, Commitment, Loops
    <3> QED BY <2>2, <3>2, <3>3 DEF Core
  <2> QED BY <2>4, <2>5
<1> QED BY <1>1, <1>2

LEMMA ClimbInv == IInv /\ (climb_and_verify \/ verify) => Core'
<1>1. ASSUME IInv, climb_and_verify PROVE Core'
  <2>1. publish_all /\ ~Refreshing /\ phase = "climb_and_verify"
    BY <1>1 DEF climb_and_verify, Refreshing
  <2>2. /\ setpoint' \in [Vehicles -> {"none", "hold", "climb", "controller"}]
        /\ ToldTogether'
        /\ \A v \in Vehicles : setpoint'[v] = "climb" => target[v] = "hover_z"
    BY <1>1, <2>1, Publish
  <2>3. /\ phase' \in {"recover", "verify"}
        /\ phase' = "recover" => resume' = "verify"
        /\ todo' \in SUBSET Vehicles /\ resume' \in Phases
        /\ UNCHANGED <<target, stable_since, report_vars, armed, offboard, altitude, attempts,
                       losses, committed, stable_checks>>
    BY <1>1 DEF IInv, Core, TypeOK, climb_and_verify, Goto, Visit, Phases
  <2>4. TypeOK'
    BY <1>1, <2>2, <2>3 DEF IInv, Core, TypeOK, report_vars, Phases
  <2>5. Returns' /\ Targets' /\ Commitment'
    BY <1>1, <2>1, <2>2, <2>3 DEF IInv, Core, Returns, Targets, Refreshing, Commitment, Loops
  <2> QED BY <2>2, <2>4, <2>5 DEF Core
<1>2. ASSUME IInv, verify PROVE Core'
  <2>1. /\ phase = "verify" /\ phase' \in {"handover", "climb_and_verify"}
        /\ stable_since' = BothStable
        /\ UNCHANGED <<resume, todo, target, report_vars, px4_vars, attempts, losses, committed>>
    BY <1>2 DEF verify, Goto, ClockReset
  <2>2. BothStable \in BOOLEAN /\ stable_checks \in 0 .. 2
    BY <1>2 DEF BothStable, IInv, Core, TypeOK
  <2>3. stable_checks' \in 0 .. 2 /\ (stable_since' => stable_checks' > 0)
    <3>1. CASE ~BothStable
      BY <1>2, <2>1, <3>1 DEF verify
    <3>2. CASE BothStable
      BY <1>2, <2>2, <3>2 DEF verify
    <3> QED BY <3>1, <3>2
  <2>4. TypeOK'
    BY <1>2, <2>1, <2>2, <2>3 DEF IInv, Core, TypeOK, report_vars, px4_vars, Phases
  <2>5. Returns' /\ Targets' /\ Commitment' /\ ToldTogether'
    BY <1>2, <2>1, <2>3 DEF IInv, Core, Returns, Targets, Refreshing, Commitment, ToldTogether,
                            Loops, px4_vars
  <2> QED BY <2>4, <2>5 DEF Core
<1> QED BY <1>1, <1>2

LEMMA TimeoutInv == IInv /\ Timeout => Core'
<1> SUFFICES ASSUME IInv, Timeout PROVE Core'
  OBVIOUS
<1>1. /\ phase \in {"establish_offboard", "climb_and_verify", "establish_armed"}
      /\ phase' \in {"wait_for_key", "disarm"}
      /\ phase' = "disarm" => resume' = "wait_for_key"
      /\ todo' \in SUBSET Vehicles /\ resume' \in Phases
      /\ UNCHANGED <<target, stable_since, report_vars, px4_vars, attempts, losses, committed,
                     stable_checks>>
  BY DEF Timeout, Goto, Visit, IInv, Core, TypeOK, Phases
<1>2. TypeOK'
  BY <1>1 DEF IInv, Core, TypeOK, report_vars, px4_vars, Phases
<1>3. Returns' /\ Targets' /\ Commitment' /\ ToldTogether'
  BY <1>1 DEF IInv, Core, Returns, Targets, Refreshing, Commitment, ToldTogether, Loops, px4_vars
<1> QED BY <1>2, <1>3 DEF Core

LEMMA RoundInv ==
  \A v \in Vehicles :
    IInv /\ (RequestOffboard(v) \/ RequestArm(v) \/ Disarm(v) \/ Recover(v)) => Core'
<1> SUFFICES ASSUME NEW v \in Vehicles, IInv,
                    RequestOffboard(v) \/ RequestArm(v) \/ Disarm(v) \/ Recover(v)
             PROVE  Core'
  OBVIOUS
<1>1. /\ phase \in DOMAIN Loops /\ NextVisit(v)
      /\ UNCHANGED <<target, stable_since, report_vars, setpoint, altitude, attempts, losses,
                     committed, stable_checks>>
  BY DEF RequestOffboard, RequestArm, Disarm, Recover, Loops
<1>2. request_offboard(v) \/ request_arm(v) \/ request_disarm(v) \/ UNCHANGED <<armed, offboard>>
  BY DEF RequestOffboard, RequestArm, Disarm, Recover
<1>3. armed' \in [Vehicles -> BOOLEAN] /\ offboard' \in [Vehicles -> BOOLEAN]
  BY <1>2 DEF request_offboard, request_arm, request_disarm, IInv, Core, TypeOK
<1> QED BY <1>1, <1>3, RoundStep

LEMMA EnvironmentInv == IInv /\ Environment => Core'
<1> SUFFICES ASSUME IInv, NEW v \in Vehicles,
                    \/ _state_cb(v) \/ _pose_cb(v) \/ PoseAges(v)
                    \/ Loses(v) \/ Climbs(v) \/ Descends(v) \/ ControllerSetpoint(v)
             PROVE  Core'
  BY DEF Environment
<1>1. UNCHANGED <<script_vars, committed, stable_checks>>
  BY DEF _state_cb, _pose_cb, PoseAges, Loses, Climbs, Descends, ControllerSetpoint
<1>2. /\ setpoint' \in {setpoint, [setpoint EXCEPT ![v] = "controller"]}
      /\ attempts' = attempts /\ losses' \in {losses, losses + 1} /\ losses' <= MaxLosses
  BY BoundsAssumption DEF _state_cb, _pose_cb, PoseAges, Loses, Climbs, Descends,
     ControllerSetpoint, px4_vars, IInv, Core, TypeOK
<1>3. /\ state_armed' \in {state_armed, [state_armed EXCEPT ![v] = armed[v]]}
      /\ state_offboard' \in {state_offboard, [state_offboard EXCEPT ![v] = offboard[v]]}
      /\ pose' \in {pose, [pose EXCEPT ![v] = altitude[v]]}
      /\ pose_fresh' \in {pose_fresh, [pose_fresh EXCEPT ![v] = TRUE],
                          [pose_fresh EXCEPT ![v] = FALSE]}
  BY DEF _state_cb, _pose_cb, PoseAges, Loses, Climbs, Descends, ControllerSetpoint, report_vars
<1>4. /\ armed' \in {armed, [armed EXCEPT ![v] = FALSE]}
      /\ offboard' \in {offboard, [offboard EXCEPT ![v] = FALSE]}
      /\ altitude' \in {altitude, [altitude EXCEPT ![v] = "hover"],
                        [altitude EXCEPT ![v] = "ground"]}
  BY DEF _state_cb, _pose_cb, PoseAges, Loses, Climbs, Descends, ControllerSetpoint, px4_vars
<1>5. \A T : \A f \in [Vehicles -> T] : \A c \in T : [f EXCEPT ![v] = c] \in [Vehicles -> T]
  OBVIOUS
<1>6. /\ state_armed' \in [Vehicles -> BOOLEAN] /\ state_offboard' \in [Vehicles -> BOOLEAN]
      /\ pose_fresh' \in [Vehicles -> BOOLEAN]
      /\ armed' \in [Vehicles -> BOOLEAN] /\ offboard' \in [Vehicles -> BOOLEAN]
  <2>1. armed[v] \in BOOLEAN /\ offboard[v] \in BOOLEAN
    BY DEF IInv, Core, TypeOK
  <2> QED BY ZenonT(30), <1>3, <1>4, <1>5, <2>1 DEF IInv, Core, TypeOK
<1>7. /\ pose' \in [Vehicles -> {"none", "ground", "hover"}]
       /\ altitude' \in [Vehicles -> {"ground", "hover"}]
       /\ setpoint' \in [Vehicles -> {"none", "hold", "climb", "controller"}]
  <2>1. altitude[v] \in {"none", "ground", "hover"}
    BY DEF IInv, Core, TypeOK
  <2> QED BY <1>2, <1>3, <1>4, <1>5, <2>1 DEF IInv, Core, TypeOK
<1>8. losses' \in 0 .. MaxLosses
  BY <1>2, BoundsAssumption DEF IInv, Core, TypeOK
<1>9. TypeOK'
  BY <1>1, <1>2, <1>6, <1>8, <1>7 DEF IInv, Core, TypeOK, script_vars
<1>10. \A w \in Vehicles : setpoint'[w] \in {setpoint[w], "controller"}
  BY <1>2 DEF IInv, Core, TypeOK
<1> QED BY <1>1, <1>9, <1>10, WorldStep

\* The warm-up is run once, after the first wait.
LEMMA WarmupOnce ==
  IInv /\ run /\ ~wait_until_ready
    => phase' # "warmup" /\ (phase' = "wait_until_ready" => resume' = "refresh")
<1> SUFFICES ASSUME IInv, run, ~wait_until_ready
             PROVE  phase' # "warmup" /\ (phase' = "wait_until_ready" => resume' = "refresh")
  OBVIOUS
<1> DEFINE Elsewhere == phase' \notin {"warmup", "wait_until_ready"}
<1>1. \A v \in Vehicles : NextVisit(v) /\ phase \in DOMAIN Loops => Elsewhere
  BY NextVisitPhase DEF Loops
<1>2. \A v \in Vehicles : RequestOffboard(v) \/ RequestArm(v) \/ Disarm(v) \/ Recover(v)
                          => Elsewhere
  BY <1>1 DEF RequestOffboard, RequestArm, Disarm, Recover, Loops
<1>3. warmup \/ establish_offboard \/ establish_armed \/ climb_and_verify \/ verify \/ Timeout
        => Elsewhere
  BY DEF warmup, establish_offboard, establish_armed, BeginClimb, climb_and_verify, verify,
         Timeout, Goto, Visit
<1>4. \A pressed \in BOOLEAN : wait_for_key(pressed) => Elsewhere
  BY DEF wait_for_key, Visit
<1>5. \A v \in Vehicles : Refresh(v) => Elsewhere
  BY DEF Refresh
<1>6. \A v \in Vehicles :
        RefreshWaits(v) => phase' = "wait_until_ready" /\ resume' = "refresh"
  BY DEF RefreshWaits, Visit
<1> QED BY <1>2, <1>3, <1>4, <1>5, <1>6 DEF run

\* A pose comes with its first report, and the warm-up waits for all of them.
LEMMA PosedInv == IInv /\ [Next]_vars => Posed'
<1> SUFFICES ASSUME IInv, [Next]_vars PROVE Posed'
  OBVIOUS
<1>1. CASE UNCHANGED report_vars /\ (phase' = "warmup" => phase = "warmup")
  BY <1>1 DEF IInv, Posed, report_vars
<1>2. CASE wait_until_ready
  BY <1>2 DEF wait_until_ready, ready, report_vars, IInv, Posed
<1>3. CASE run /\ ~wait_until_ready
  <2>1. UNCHANGED report_vars
    BY <1>3 DEF run, warmup, wait_for_key, establish_offboard, establish_armed, climb_and_verify,
       verify, Timeout, RefreshWaits, Refresh, RequestOffboard, RequestArm, Disarm, Recover
  <2>2. phase' = "warmup" => phase = "warmup"
    BY <1>3, WarmupOnce
  <2> QED BY <1>1, <2>1, <2>2
<1>4. CASE Environment
  <2>1. PICK v \in Vehicles : \/ _state_cb(v) \/ _pose_cb(v) \/ PoseAges(v) \/ Loses(v)
                              \/ Climbs(v) \/ Descends(v) \/ ControllerSetpoint(v)
    BY <1>4 DEF Environment
  <2>2. phase' = phase
    BY <2>1 DEF _state_cb, _pose_cb, PoseAges, Loses, Climbs, Descends, ControllerSetpoint,
       script_vars
  <2>3. CASE _pose_cb(v)
    <3>1. altitude[v] # "none"
      BY DEF IInv, Core, TypeOK
    <3> QED BY <2>2, <2>3, <3>1 DEF _pose_cb, IInv, Core, TypeOK, Posed
  <2>4. CASE PoseAges(v)
    BY <2>2, <2>4 DEF PoseAges, IInv, Core, TypeOK, Posed
  <2>5. CASE UNCHANGED <<pose, pose_fresh>>
    BY <2>2, <2>5 DEF IInv, Posed
  <2> QED BY <2>1, <2>3, <2>4, <2>5 DEF _state_cb, Loses, Climbs, Descends, ControllerSetpoint,
             report_vars
<1>5. CASE UNCHANGED vars
  BY <1>1, <1>5 DEF vars, script_vars
<1> QED BY <1>2, <1>3, <1>4, <1>5 DEF Next

LEMMA StepInv == IInv /\ [Next]_vars => IInv'
<1> SUFFICES ASSUME IInv, [Next]_vars PROVE Core'
  BY PosedInv DEF IInv
<1>1. CASE run
  BY <1>1, WaitInv, KeyInv, RefreshInv, EstablishInv, ClimbInv, TimeoutInv, RoundInv DEF run
<1>2. CASE Environment
  BY <1>2, EnvironmentInv
<1>3. CASE UNCHANGED vars
  <2>1. TypeOK'
    BY <1>3 DEF IInv, Core, TypeOK, vars, script_vars, report_vars, px4_vars
  <2>2. \A v \in Vehicles : setpoint'[v] \in {setpoint[v], "controller"}
    BY <1>3 DEF vars, px4_vars
  <2> QED BY <1>3, <2>1, <2>2, WorldStep DEF vars
<1> QED BY <1>1, <1>2, <1>3 DEF Next

LEMMA InitInv == Init => IInv
BY InitCore DEF Init, IInv, Posed

LEMMA AlwaysInv == Spec => []IInv
BY InitInv, StepInv, PTL DEF Spec

-------------------------------------------------------------------------------
(* The theorems.                                                            *)

\* Every variable keeps its type, whatever PX4 refuses and however often a vehicle is lost.
THEOREM TypeCorrect == Spec => []TypeOK
<1>1. IInv => TypeOK
  BY DEF IInv, Core
<1> QED BY <1>1, AlwaysInv, PTL

\* publish_all, begin_climb, latch_ground_hold_target: the script never tells one vehicle
\* to climb and another to hold, for any number of vehicles.
THEOREM Together == Spec => []ToldTogether
<1>1. IInv => ToldTogether
  BY DEF IInv, Core
<1> QED BY <1>1, AlwaysInv, PTL

\* establish_armed, begin_climb: a setpoint of the script lifts a vehicle only in an attempt
\* in which all were confirmed armed.
THEOREM LiftsTogether == Spec => ScriptLiftsTogether
<1> DEFINE A == \A v \in Vehicles :
                  altitude[v] = "ground" /\ altitude'[v] = "hover" /\ setpoint[v] = "climb"
                    => committed
<1>1. IInv => A \/ UNCHANGED vars
  BY DEF IInv, Core, Commitment
<1> QED BY <1>1, AlwaysInv, PTL DEF Spec, ScriptLiftsTogether

\* verify: the controllers take over only in a climb that all armed vehicles began, after
\* two checks in a row that found every one of them hovering.
THEOREM Evidence == Spec => HandoverEvidence
<1> DEFINE A == phase # "handover" /\ phase' = "handover" => committed /\ stable_checks' = 2
<1>1. IInv /\ [Next]_vars => [A]_vars
  <2> SUFFICES ASSUME IInv, Next, phase # "handover", phase' = "handover"
               PROVE  committed /\ stable_checks' = 2
    OBVIOUS
  <2>1. verify
    <3>1. \A v \in Vehicles : NextVisit(v) /\ phase \in DOMAIN Loops => phase' # "handover"
      BY NextVisitPhase DEF Loops
    <3>2. \A v \in Vehicles : ~(RequestOffboard(v) \/ RequestArm(v) \/ Disarm(v) \/ Recover(v))
      BY <3>1 DEF RequestOffboard, RequestArm, Disarm, Recover, Loops
    <3>3. ~wait_until_ready
      BY DEF wait_until_ready, IInv, Core, Returns
    <3>4. \A pressed \in BOOLEAN : ~wait_for_key(pressed)
      BY DEF wait_for_key, Visit
    <3>5. ~warmup /\ ~establish_offboard /\ ~establish_armed /\ ~climb_and_verify /\ ~Timeout
      BY DEF warmup, establish_offboard, establish_armed, BeginClimb, climb_and_verify, Timeout,
             Goto, Visit
    <3>6. \A v \in Vehicles : ~RefreshWaits(v) /\ ~Refresh(v)
      BY DEF RefreshWaits, Refresh, Visit
    <3>7. ~Environment
      BY DEF Environment, _state_cb, _pose_cb, PoseAges, Loses, Climbs, Descends,
             ControllerSetpoint, script_vars
    <3> QED BY <3>2, <3>3, <3>4, <3>5, <3>6, <3>7 DEF Next, run
  <2>2. BothStable /\ stable_since
    BY <2>1 DEF verify, Goto
  <2>3. committed /\ stable_checks > 0
    BY <2>1, <2>2 DEF IInv, Core, Commitment, verify
  <2> QED BY <2>1, <2>2, <2>3 DEF verify, IInv, Core, TypeOK
<1> QED BY <1>1, AlwaysInv, PTL DEF Spec, HandoverEvidence

-------------------------------------------------------------------------------
(* The script implements JointTakeoff.                                      *)

\* Before the warm-up no vehicle has a climb to withdraw.
Warming ==
  phase = "warmup" \/ (phase = "wait_until_ready" /\ resume = "warmup")
    => \A v \in Vehicles : target[v] # "hover_z"

LEMMA WarmingInv == IInv /\ Warming /\ [Next]_vars => Warming'
<1> SUFFICES ASSUME IInv, Warming, [Next]_vars PROVE Warming'
  OBVIOUS
<1>1. CASE wait_until_ready
  BY <1>1 DEF wait_until_ready, Warming
<1>2. CASE run /\ ~wait_until_ready
  BY <1>2, WarmupOnce DEF Warming
<1>3. CASE Environment \/ UNCHANGED vars
  <2>1. UNCHANGED script_vars
    BY <1>3 DEF Environment, _state_cb, _pose_cb, PoseAges, Loses, Climbs, Descends,
                ControllerSetpoint, vars
  <2> QED BY <2>1 DEF script_vars, Warming
<1> QED BY <1>1, <1>2, <1>3 DEF Next

Reports == [v \in Vehicles |-> ReportOf(v)]
Goals == [v \in Vehicles |-> GoalOf(v)]

LEMMA SameReports == UNCHANGED report_vars => Reports' = Reports
BY DEF report_vars, Reports, ReportOf, at_hover

LEMMA SameGoals == UNCHANGED target => Goals' = Goals
BY DEF Goals, GoalOf

\* publish_all tells every vehicle its goal, and outside of the refresh all have the same.
LEMMA TellsGoals ==
  ASSUME IInv, publish_all, ~Refreshing, phase # "handover"
  PROVE  Joint!Tell
<1>1. setpoint' = Goals
  BY DEF publish_all, Goals, GoalOf
<1>2. \A v, w \in Vehicles : Goals[v] = "climb" => Goals[w] = "climb"
  BY DEF IInv, Core, Targets, Goals, GoalOf
<1>3. \A v \in Vehicles : Goals[v] \in {"hold", "climb"}
  BY DEF Goals, GoalOf
<1>4. (\A v \in Vehicles : Goals[v] = "hold") \/ (\A v \in Vehicles : Goals[v] = "climb")
  BY <1>2, <1>3
<1> QED BY <1>1, <1>4 DEF Joint!Tell, Joint!All, Goals

\* A step that only turns to another phase, or changes what is reported.
LEMMA OnlyReported ==
  ASSUME UNCHANGED <<target, setpoint, altitude, committed>>,
         phase' = "handover" <=> phase = "handover"
  PROVE  Joint!Reported
BY SameGoals DEF Joint!Reported, Goals

LEMMA WaitJoint == IInv /\ Warming /\ (wait_until_ready \/ warmup) => Joint!Next
<1>1. ASSUME IInv, wait_until_ready PROVE Joint!Reported
  <2>1. phase' # "handover" /\ phase # "handover"
    BY <1>1 DEF wait_until_ready, IInv, Core, Returns
  <2> QED BY <1>1, <2>1, OnlyReported DEF wait_until_ready, WaitSilent
<1>2. ASSUME IInv, Warming, warmup PROVE Joint!TellAgain
  <2>1. \A v \in Vehicles : target[v] # "hover_z" /\ target'[v] # "hover_z"
    BY <1>2 DEF Warming, warmup, IInv, Core, TypeOK
  <2>2. Goals' = Goals /\ setpoint' = Goals /\ \A v \in Vehicles : Goals[v] = "hold"
    BY <1>2, <2>1 DEF warmup, Goals, GoalOf
  <2>3. Reports' = Reports /\ UNCHANGED <<committed, altitude>>
    BY <1>2, SameReports DEF warmup
  <2>4. phase # "handover" /\ phase' # "handover"
    BY <1>2 DEF warmup, Goto
  <2> QED BY <2>2, <2>3, <2>4 DEF Joint!TellAgain, Joint!Tell, Joint!All, Goals, Reports
<1> QED BY <1>1, <1>2 DEF Joint!Next

\* The phases that publish, but for the two that begin an attempt and a climb.
LEMMA PublishJoint ==
  ASSUME IInv, publish_all, ~Refreshing, phase # "handover", phase' # "handover",
         UNCHANGED <<target, report_vars, altitude, committed>>
  PROVE  Joint!TellAgain
<1>1. Joint!Tell
  BY TellsGoals
<1>2. Goals' = Goals /\ Reports' = Reports
  BY SameGoals, SameReports
<1> QED BY <1>1, <1>2 DEF Joint!TellAgain, Goals, Reports

LEMMA KeyJoint == \A pressed \in BOOLEAN : IInv /\ wait_for_key(pressed) => Joint!TellAgain
BY PublishJoint DEF wait_for_key, Visit, Refreshing

LEMMA RefreshJoint ==
  \A v \in Vehicles : IInv /\ (RefreshWaits(v) \/ Refresh(v)) => Joint!Reported \/ Joint!Withdraw(v)
<1> SUFFICES ASSUME NEW v \in Vehicles, IInv
             PROVE  RefreshWaits(v) \/ Refresh(v) => Joint!Reported \/ Joint!Withdraw(v)
  OBVIOUS
<1>1. ASSUME RefreshWaits(v) PROVE Joint!Reported
  BY <1>1, OnlyReported DEF RefreshWaits, Visit, px4_vars
<1>2. ASSUME Refresh(v) PROVE Joint!Withdraw(v)
  <2>1. target' = [target EXCEPT ![v] = pose[v]] /\ pose[v] # "hover_z"
    BY <1>2 DEF Refresh, Latch, IInv, Core, TypeOK
  <2>2. Goals' = [Goals EXCEPT ![v] = "hold"]
    BY <2>1 DEF Goals, GoalOf, IInv, Core, TypeOK
  <2>3. Reports' = Reports /\ UNCHANGED <<committed, setpoint, altitude>>
    BY <1>2, SameReports DEF Refresh, px4_vars
  <2>4. phase # "handover" /\ phase' # "handover"
    BY <1>2 DEF Refresh
  <2> QED BY <2>2, <2>3, <2>4 DEF Joint!Withdraw, Goals, Reports
<1> QED BY <1>1, <1>2

LEMMA EstablishJoint ==
  IInv /\ (establish_offboard \/ establish_armed)
    => Joint!Attempt \/ Joint!Agree \/ Joint!TellAgain
<1> DEFINE Held == \A v \in Vehicles : Goals[v] = "hold"
<1>1. IInv /\ (establish_offboard \/ establish_armed) => Held /\ Joint!Tell
  <2>1. IInv /\ (establish_offboard \/ establish_armed) => Held
    BY DEF establish_offboard, establish_armed, IInv, Core, Targets, Goals, GoalOf
  <2> QED BY <2>1, TellsGoals DEF establish_offboard, establish_armed, Refreshing
<1>2. ASSUME IInv, establish_offboard PROVE Joint!Attempt
  <2>1. Goals' = Goals /\ Reports' = Reports /\ ~committed' /\ UNCHANGED altitude
    BY <1>2, SameGoals, SameReports DEF establish_offboard
  <2>2. phase # "handover" /\ phase' # "handover"
    BY <1>2 DEF establish_offboard, Goto, Visit
  <2> QED BY <1>1, <1>2, <2>1, <2>2 DEF Joint!Attempt, Joint!All, Goals, Reports
<1>3. ASSUME IInv, establish_armed, BeginClimb, PendingOffboard = {}, AllArmed PROVE Joint!Agree
  <2>1. committed' /\ Goals' = [v \in Vehicles |-> "climb"]
    BY <1>3 DEF BeginClimb, AllArmed, Goals, GoalOf
  <2>2. Reports' = Reports /\ UNCHANGED altitude
    BY <1>3, SameReports DEF establish_armed
  <2>3. \A v \in Vehicles : Reports[v] # "down"
    BY <1>3 DEF PendingOffboard, AllArmed, PendingArmed, Reports, ReportOf
  <2>4. phase # "handover" /\ phase' # "handover"
    BY <1>3 DEF establish_armed, BeginClimb, Goto
  <2> QED BY <1>1, <1>3, <2>1, <2>2, <2>3, <2>4 DEF Joint!Agree, Joint!All, Goals, Reports
<1>4. ASSUME IInv, establish_armed, ~(PendingOffboard = {} /\ AllArmed) PROVE Joint!TellAgain
  BY <1>4, PublishJoint DEF establish_armed, Visit, Refreshing
<1>5. establish_armed /\ PendingOffboard = {} /\ AllArmed => BeginClimb
  BY DEF establish_armed
<1> QED BY <1>2, <1>3, <1>4, <1>5

LEMMA ClimbJoint == IInv /\ (climb_and_verify \/ verify) => Joint!Next
<1>1. ASSUME IInv, climb_and_verify PROVE Joint!TellAgain
  BY <1>1, PublishJoint DEF climb_and_verify, Visit, Goto, Refreshing
<1>2. ASSUME IInv, verify, phase' = "handover" PROVE Joint!HandOver
  <2>1. committed /\ BothStable
    BY <1>2 DEF verify, Goto, IInv, Core, Commitment
  <2>2. \A v \in Vehicles : Reports[v] = "hovering"
    BY <2>1 DEF BothStable, Reports, ReportOf
  <2>3. Goals' = Goals /\ Reports' = Reports /\ UNCHANGED <<committed, setpoint, altitude>>
    BY <1>2, SameGoals, SameReports DEF verify, px4_vars
  <2> QED BY <1>2, <2>1, <2>2, <2>3 DEF verify, Joint!HandOver, Joint!All, Goals, Reports
<1>3. ASSUME IInv, verify, phase' # "handover" PROVE Joint!Reported
  BY <1>3, OnlyReported DEF verify, px4_vars
<1> QED BY <1>1, <1>2, <1>3 DEF Joint!Next

LEMMA RoundJoint ==
  \A v \in Vehicles :
    IInv /\ (RequestOffboard(v) \/ RequestArm(v) \/ Disarm(v) \/ Recover(v)) => Joint!Reported
<1> SUFFICES ASSUME NEW v \in Vehicles, IInv,
                    RequestOffboard(v) \/ RequestArm(v) \/ Disarm(v) \/ Recover(v)
             PROVE  Joint!Reported
  OBVIOUS
<1>1. phase \in DOMAIN Loops /\ NextVisit(v) /\ UNCHANGED <<target, setpoint, altitude, committed>>
  BY DEF RequestOffboard, RequestArm, Disarm, Recover, Loops
<1>2. phase # "handover" /\ phase' # "handover"
  BY <1>1, NextVisitPhase DEF Loops
<1> QED BY <1>1, <1>2, OnlyReported

LEMMA EnvironmentJoint == IInv /\ Environment => Joint!Next
<1> SUFFICES ASSUME IInv, NEW v \in Vehicles,
                    \/ _state_cb(v) \/ _pose_cb(v) \/ PoseAges(v)
                    \/ Loses(v) \/ Climbs(v) \/ Descends(v) \/ ControllerSetpoint(v)
             PROVE  Joint!Next
  BY DEF Environment
<1>1. /\ UNCHANGED <<phase, target, committed>>
      /\ Goals' = Goals
  BY SameGoals DEF _state_cb, _pose_cb, PoseAges, Loses, Climbs, Descends, ControllerSetpoint,
                   script_vars
<1>2. CASE _state_cb(v) \/ _pose_cb(v) \/ PoseAges(v) \/ Loses(v)
  <2>1. UNCHANGED <<setpoint, altitude>>
    BY <1>2 DEF _state_cb, _pose_cb, PoseAges, Loses, px4_vars
  <2> QED BY <1>1, <2>1, OnlyReported DEF Joint!Next
<1>3. CASE Climbs(v)
  <2>1. setpoint[v] = "controller" \/ (committed /\ setpoint[v] = "climb")
    BY <1>3 DEF Climbs, IInv, Core, Commitment
  <2>2. Reports' = Reports
    BY <1>3, SameReports DEF Climbs
  <2>3. Joint!Lifts(v)
    BY <1>1, <1>3, <2>1, <2>2 DEF Climbs, Joint!Lifts, Goals, Reports
  <2> QED BY <2>3 DEF Joint!Next
<1>4. CASE Descends(v)
  <2>1. Reports' = Reports
    BY <1>4, SameReports DEF Descends
  <2>2. Joint!Descends(v)
    BY <1>1, <1>4, <2>1 DEF Descends, Joint!Descends, Goals, Reports
  <2> QED BY <2>2 DEF Joint!Next
<1>5. CASE ControllerSetpoint(v)
  <2>1. Reports' = Reports
    BY <1>5, SameReports DEF ControllerSetpoint
  <2>2. Joint!ToldByOthers(v)
    BY <1>1, <1>5, <2>1 DEF ControllerSetpoint, Joint!ToldByOthers, Goals, Reports
  <2> QED BY <2>2 DEF Joint!Next
<1> QED BY <1>2, <1>3, <1>4, <1>5

LEMMA StepJoint == IInv /\ Warming /\ [Next]_vars => [Joint!Next]_Joint!vars
<1> SUFFICES ASSUME IInv, Warming, [Next]_vars PROVE Joint!Next
  OBVIOUS
<1>1. CASE Timeout
  <2>1. UNCHANGED <<target, setpoint, altitude, committed>>
    BY <1>1 DEF Timeout, px4_vars
  <2>2. phase # "handover" /\ phase' # "handover"
    BY <1>1 DEF Timeout, Goto, Visit
  <2> QED BY <2>1, <2>2, OnlyReported DEF Joint!Next
<1>2. CASE run /\ ~Timeout
  BY <1>2, WaitJoint, KeyJoint, RefreshJoint, EstablishJoint, ClimbJoint, RoundJoint
     DEF run, Joint!Next
<1>3. CASE Environment
  BY <1>3, EnvironmentJoint
<1>4. CASE UNCHANGED vars
  BY <1>4, OnlyReported DEF vars, script_vars, px4_vars, Joint!Next
<1> QED BY <1>1, <1>2, <1>3, <1>4 DEF Next

LEMMA InitJoint == Init => Joint!Init /\ Warming
BY DEF Init, Joint!Init, Warming, ReportOf, GoalOf

\* dual_ego_start.py as a whole: all confirmed before one is told to climb, all told the
\* same at once, a climb withdrawn from all before anything is told again.
THEOREM ScriptImplements == Spec => KeepsJointTakeoff
<1>1. Spec => []Warming
  BY AlwaysInv, InitJoint, WarmingInv, PTL DEF Spec
<1> QED
  BY <1>1, AlwaysInv, InitJoint, StepJoint, PTL DEF Spec, Joint!Spec, KeepsJointTakeoff

\* What JointTakeoff promises includes that no two vehicles are ever told different things.
THEOREM JointTellsTogether == KeepsJointTakeoff => []ToldTogether
<1> DEFINE Told == ToldTogether /\ DOMAIN setpoint = Vehicles
<1>1. Joint!Init => Told
  BY DEF Joint!Init, ToldTogether
<1>2. Told /\ [Joint!Next]_Joint!vars => Told'
  <2> SUFFICES ASSUME Told, [Joint!Next]_Joint!vars PROVE Told'
    OBVIOUS
  <2>1. CASE UNCHANGED setpoint
    BY <2>1 DEF ToldTogether
  <2>2. CASE Joint!Tell
    BY <2>2 DEF Joint!Tell, Joint!All, ToldTogether
  <2>3. ASSUME NEW v \in Vehicles, Joint!ToldByOthers(v) PROVE Told'
    <3>1. \A w \in Vehicles : setpoint'[w] \in {setpoint[w], "controller"}
      BY <2>3 DEF Joint!ToldByOthers
    <3> QED BY <2>3, <3>1 DEF Joint!ToldByOthers, ToldTogether
  <2> QED
    BY <2>1, <2>2, <2>3
       DEF Joint!Next, Joint!TellAgain, Joint!Attempt, Joint!Agree, Joint!HandOver,
           Joint!Reported, Joint!Withdraw, Joint!Lifts, Joint!Descends, Joint!vars
<1> QED
  BY <1>1, <1>2, PTL DEF Joint!Spec, KeepsJointTakeoff

===============================================================================
