----------------------------- MODULE Controllers -----------------------------
(***************************************************************************)
(* The controllers that guide a crowd, written in Python against the       *)
(* flowcontrol package: at fixed times a controller measures the densities *)
(* of the routes, picks the route to recommend, hands the recommendation   *)
(* out and logs both.  One module for all of them: strategy is the class   *)
(* that runs.                                                              *)
(*                                                                         *)
(* External (package flowcontrol): FixedTimeStepper adds the step to the   *)
(* planned time and plans nothing after its end; AlternateTargetAlgorithm  *)
(* takes the targets in turn; MinimalDensityAlgorithm returns a target of  *)
(* least density; AvoidCongestion returns its alternative or None.         *)
(***************************************************************************)
EXTENDS Integers

CONSTANTS
  N,           \* the routes are numbered 0 .. N-1, from short to long
  Levels,      \* densities
  None,        \* no recommendation: None, "none" and "skipped"
  Strategies,  \* the controllers that are run
  Start,       \* start_time of the time stepper
  Step,        \* time_step_size
  End,         \* end_time of PingPong
  Horizon      \* sim-time-limit

Routes == 0 .. N - 1
Choices == Routes \cup {None}

Local == {"NoController", "OpenLoop", "ClosedLoop", "AvoidShort"}
ByPacket == {"AvoidShortMuc", "ChangeTarget"}
Logging == Local \cup {"AvoidShortMuc"}
Controllers == Logging \cup ByPacket \cup {"PingPong"}

ASSUME ControllerAssumption ==
  /\ N \in Nat \ {0}
  /\ Levels \subseteq Nat
  /\ 0 \in Levels
  /\ None \notin Int
  /\ Strategies \subseteq Controllers
  /\ Start \in Nat \ {0}
  /\ Step \in Nat \ {0}
  /\ End \in Nat
  /\ Horizon \in Nat

VARIABLES
  strategy,       \* the class of the controller
  densitiesLast,  \* densities_last, density_over_time[-1]
  currentTarget,  \* current_target
  turn,           \* the position in AlternateTargetAlgorithm
  nextTime,       \* ControlManager::nextTime, as the time stepper returned it
  row,            \* the last rows of densities_received and path_choice
  log             \* the rows of path_choice

controllerVars == <<strategy, densitiesLast, currentTarget, turn, nextTime, row, log>>

Rows == [time : Nat, densities : [Routes -> Levels], choice : Choices]

(* The longest of the routes is the one to turn to if the short one is     *)
(* congested (alternative_route_id).                                       *)
Alternative == N - 1

(* The time stepper plans no call after this time.                         *)
EndTime ==
  CASE strategy = "ChangeTarget" -> Start
    [] strategy = "PingPong" -> End
    [] OTHER -> Horizon

(* LocalController.__init__ and its subclasses, handle_init.               *)
InitController ==
  /\ strategy \in Strategies
  /\ densitiesLast = [r \in Routes |-> 0]
  /\ currentTarget = IF strategy = "ChangeTarget" THEN Alternative ELSE None
  /\ turn = 0
  /\ nextTime = Start
  /\ row = [time |-> 0, densities |-> densitiesLast, choice |-> None]
  /\ log = {}

-----------------------------------------------------------------------------
(* measure_state.  The simple controllers measure nothing.                 *)
MeasureState(reading) ==
  densitiesLast' = IF strategy \in Logging THEN reading ELSE densitiesLast

Minimal(densities) ==
  {r \in Routes : \A q \in Routes : densities[r] <= densities[q]}

(* Fault: the targets are not taken in a circle.                           *)
AlternateOnce == currentTarget' = turn /\ turn' = turn + 1

(* AlternateTargetAlgorithm.get_next_target                                *)
Alternate == currentTarget' = turn /\ turn' = (turn + 1) % N

(* compute_next_corridor_choice, with what has just been measured.         *)
ComputeNextCorridorChoice ==
  \/ /\ strategy \in {"NoController", "ChangeTarget"}
     /\ UNCHANGED <<currentTarget, turn>>
  \/ /\ strategy \in {"OpenLoop", "PingPong"}
     /\ Alternate
  \/ /\ strategy = "ClosedLoop"
     /\ currentTarget' \in Minimal(densitiesLast')
     /\ UNCHANGED turn
  \/ /\ strategy \in {"AvoidShort", "AvoidShortMuc"}
     /\ currentTarget' \in {None, Alternative}
     /\ UNCHANGED turn

(* write_dataprocessor_data                                                *)
WriteData(t) ==
  IF strategy \in Logging
  THEN /\ row' = [time |-> t, densities |-> densitiesLast', choice |-> currentTarget']
       /\ log' = log \cup {<<t, currentTarget'>>}
  ELSE UNCHANGED <<row, log>>

(* FixedTimeStepper.forward_time                                           *)
ForwardTime ==
  nextTime' = IF nextTime + Step <= EndTime THEN nextTime + Step ELSE Horizon + 1

(* Fault: the choice is logged before it is computed.                      *)
WriteFirst(t, reading) ==
  /\ MeasureState(reading)
  /\ ComputeNextCorridorChoice
  /\ row' = [time |-> t, densities |-> densitiesLast', choice |-> currentTarget]
  /\ log' = log \cup {<<t, currentTarget'>>}
  /\ ForwardTime
  /\ UNCHANGED strategy

(* handle_sim_step, but for the recommendation itself.                     *)
HandleSimStep(t, reading) ==
  /\ MeasureState(reading)
  /\ ComputeNextCorridorChoice
  /\ WriteData(t)
  /\ ForwardTime
  /\ UNCHANGED strategy

ControllerTypeOK ==
  /\ strategy \in Strategies
  /\ densitiesLast \in [Routes -> Levels]
  /\ currentTarget \in Choices
  /\ turn \in Routes
  /\ nextTime \in Nat
  /\ row \in Rows
  /\ log \subseteq Nat \X Choices
=============================================================================
