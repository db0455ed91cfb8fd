------------------------------ MODULE Elevator ------------------------------
(***************************************************************************)
(* The elevator demo of src/FSM/office_demo_elevator: two tinyfsm state    *)
(* machines, Motor and Elevator, in one FsmList.  Every event of main's    *)
(* loop is dispatched to both, and runs to completion: the reactions, the  *)
(* transition and the entry of the new state, with the motor events they   *)
(* send, are one action here.                                              *)
(***************************************************************************)
EXTENDS Integers

CONSTANTS
    Floors,         \* the floors that events may name
    initial_floor

ASSUME ElevatorAssumption == Floors \subseteq Int /\ initial_floor \in Floors

VARIABLES
    state,          \* the state of Elevator
    current_floor,
    dest_floor,
    motor,          \* the state of Motor
    direction       \* Motor::direction

vars == <<state, current_floor, dest_floor, motor, direction>>

\* fsm_list::start has run
started == state # "none"

Sign(n) == IF n > 0 THEN 1 ELSE IF n < 0 THEN -1 ELSE 0

DirectionOf(m) == CASE m = "Stopped" -> 0 [] m = "Up" -> 1 [] m = "Down" -> -1

\* Motor reacts to an event alike in every state: it transits to m, whose
\* entry sets the direction.  Elevator has no reaction to motor events.
SendMotor(m) == motor' = m /\ direction' = DirectionOf(m)

-----------------------------------------------------------------------------
\* Before start there is no current state.
Init ==
    /\ state = "none"
    /\ motor = "none"
    /\ current_floor = initial_floor
    /\ dest_floor = initial_floor
    /\ direction = 0

\* FsmList::start: Motor is entered, then Elevator, whose Idle stops it.
Start ==
    /\ ~started
    /\ state' = "Idle"
    /\ SendMotor("Stopped")
    /\ UNCHANGED <<current_floor, dest_floor>>

\* Mutant: the motor is not stopped on entering Panic.
PanicUnstopped ==
    /\ state' = "Panic"
    /\ UNCHANGED <<motor, direction>>

\* transit<Panic>, whose entry stops the motor.
EnterPanic ==
    /\ state' = "Panic"
    /\ SendMotor("Stopped")

\* Mutant: a call is served in every state but Panic.
CallWhileMoving(floor) ==
    /\ started
    /\ \/ /\ state \in {"Idle", "Moving"}
          /\ dest_floor' = floor
          /\ \/ floor = current_floor /\ UNCHANGED <<state, motor, direction>>
             \/ /\ floor # current_floor
                /\ state' = "Moving"
                /\ SendMotor(IF floor > current_floor THEN "Up" ELSE "Down")
       \/ state = "Panic" /\ UNCHANGED <<state, dest_floor, motor, direction>>
    /\ UNCHANGED current_floor

\* Mutant: a call of an elevator in Panic is served like one in Idle.
CallInPanic(floor) ==
    /\ started
    /\ \/ /\ state \in {"Idle", "Panic"}
          /\ dest_floor' = floor
          /\ \/ floor = current_floor /\ UNCHANGED <<state, motor, direction>>
             \/ /\ floor # current_floor
                /\ state' = "Moving"
                /\ SendMotor(IF floor > current_floor THEN "Up" ELSE "Down")
       \/ state = "Moving" /\ UNCHANGED <<state, dest_floor, motor, direction>>
    /\ UNCHANGED current_floor

\* Only Idle reacts to a call; the motor is set going before Moving is
\* entered.
Call(floor) ==
    /\ started
    /\ \/ /\ state = "Idle"
          /\ dest_floor' = floor
          /\ \/ floor = current_floor /\ UNCHANGED <<state, motor, direction>>
             \/ /\ floor # current_floor
                /\ state' = "Moving"
                /\ SendMotor(IF floor > current_floor THEN "Up" ELSE "Down")
       \/ state # "Idle" /\ UNCHANGED <<state, dest_floor, motor, direction>>
    /\ UNCHANGED current_floor

floor_expected == current_floor + direction

\* Mutant: the floor is not recorded when the elevator stops there.
FloorSensorUnrecorded(floor) ==
    /\ started
    /\ \/ /\ state = "Moving"
          /\ \/ floor # floor_expected /\ EnterPanic /\ UNCHANGED current_floor
             \/ /\ floor = floor_expected
                /\ IF floor = dest_floor
                   THEN state' = "Idle" /\ SendMotor("Stopped") /\ UNCHANGED current_floor
                   ELSE current_floor' = floor /\ UNCHANGED <<state, motor, direction>>
       \/ state # "Moving" /\ UNCHANGED <<state, current_floor, motor, direction>>
    /\ UNCHANGED dest_floor

\* Mutant: the next floor is counted on without being compared.
FloorSensorUnchecked(floor) ==
    /\ started
    /\ \/ /\ state = "Moving"
          /\ current_floor' = floor + direction
          /\ IF floor = dest_floor
             THEN state' = "Idle" /\ SendMotor("Stopped")
             ELSE UNCHANGED <<state, motor, direction>>
       \/ state # "Moving" /\ UNCHANGED <<state, current_floor, motor, direction>>
    /\ UNCHANGED dest_floor

\* Only Moving reacts to the floor sensor.
FloorSensor(floor) ==
    /\ started
    /\ \/ /\ state = "Moving"
          /\ \/ floor # floor_expected /\ EnterPanic /\ UNCHANGED current_floor
             \/ /\ floor = floor_expected
                /\ current_floor' = floor
                /\ IF floor = dest_floor
                   THEN state' = "Idle" /\ SendMotor("Stopped")
                   ELSE UNCHANGED <<state, motor, direction>>
       \/ state # "Moving" /\ UNCHANGED <<state, current_floor, motor, direction>>
    /\ UNCHANGED dest_floor

\* Every state reacts alike, Panic too.
Alarm ==
    /\ started
    /\ EnterPanic
    /\ UNCHANGED <<current_floor, dest_floor>>

Next ==
    \/ Start
    \/ \E floor \in Floors : Call(floor) \/ FloorSensor(floor)
    \/ Alarm

Spec == Init /\ [][Next]_vars

\* The shaft: while the motor runs, the sensor of the next floor will report.
\* main's loop takes every event it is given.
Fairness == WF_vars(Start) /\ WF_vars(state = "Moving" /\ FloorSensor(floor_expected))

FairSpec == Spec /\ Fairness

-----------------------------------------------------------------------------
(* The types of the variables.                                             *)
TypeOK ==
    /\ state \in {"none", "Idle", "Moving", "Panic"}
    /\ motor \in {"none", "Stopped", "Up", "Down"}
    /\ current_floor \in Floors
    /\ dest_floor \in Floors
    /\ direction \in {-1, 0, 1}

(* The two machines agree although each keeps a state of its own: the      *)
(* motor runs exactly while Elevator is Moving, and then towards the floor *)
(* that was called, never past it; in Idle and in Panic it stands still.   *)
MotorFollows ==
    /\ direction = (IF state = "Moving" THEN Sign(dest_floor - current_floor) ELSE 0)
    /\ state = "Moving" => dest_floor # current_floor

(* The inductive invariant behind MotorFollows.                            *)
ElevatorInv ==
    /\ TypeOK
    /\ MotorFollows
    /\ started => motor # "none" /\ direction = DirectionOf(motor)

(* An elevator that left Idle for a call comes back to it only at the      *)
(* floor of that call, whatever is called and sensed on the way: a call    *)
(* while Moving does not redirect it.                                      *)
KeepsCourse ==
    [][ state = "Moving" =>
          /\ dest_floor' = dest_floor
          /\ state' = "Idle" => current_floor' = dest_floor ]_vars

(* Panic is left by nothing, and the motor is never started again in it.   *)
PanicForGood == [][ state = "Panic" => state' = "Panic" /\ direction' = 0 ]_vars

(* Every ride ends: at the floor called, or in Panic.                      *)
RideEnds == state = "Moving" ~> (state = "Idle" /\ current_floor = dest_floor) \/ state = "Panic"
=============================================================================
