--------------------------- MODULE ElevatorProofs ---------------------------
(* Proofs about the elevator demo, for any set of floors: Motor and        *)
(* Elevator always agree, a ride keeps its course and Panic is for good.   *)
EXTENDS Elevator, TLAPS

LEMMA InitInv == Init => ElevatorInv
BY ElevatorAssumption DEF Init, ElevatorInv, TypeOK, MotorFollows, started

\* What stopping the motor on leaving Moving, or staying out of it, keeps.
LEMMA StoppedInv ==
    ASSUME SendMotor("Stopped"), state' \in {"Idle", "Panic"},
           current_floor' \in Floors, dest_floor' \in Floors
    PROVE  ElevatorInv'
BY DEF SendMotor, DirectionOf, ElevatorInv, TypeOK, MotorFollows

LEMMA StepInv == ElevatorInv /\ [Next]_vars => ElevatorInv'
<1> SUFFICES ASSUME ElevatorInv, [Next]_vars PROVE ElevatorInv'
  OBVIOUS
<1>1. CASE Start
  BY <1>1, StoppedInv DEF Start, ElevatorInv, TypeOK
<1>2. ASSUME NEW floor \in Floors, Call(floor) PROVE ElevatorInv'
  <2>1. CASE state' = state /\ motor' = motor /\ direction' = direction /\ state # "Moving"
    BY <1>2, <2>1 DEF Call, ElevatorInv, TypeOK, MotorFollows, started
  <2>2. CASE state = "Idle" /\ floor # current_floor
    <3>1. /\ state' = "Moving" /\ dest_floor' = floor /\ current_floor' = current_floor
          /\ SendMotor(IF floor > current_floor THEN "Up" ELSE "Down")
      BY <1>2, <2>2 DEF Call
    <3>2. floor \in Int /\ current_floor \in Int
      BY ElevatorAssumption DEF ElevatorInv, TypeOK
    <3>3. direction' = Sign(floor - current_floor)
      BY <2>2, <3>1, <3>2 DEF SendMotor, DirectionOf, Sign
    <3>4. motor' \in {"Up", "Down"} /\ direction' = DirectionOf(motor')
      BY <3>1 DEF SendMotor
    <3>5. direction' \in {-1, 0, 1}
      BY <3>4 DEF DirectionOf
    <3> QED BY <2>2, <3>1, <3>3, <3>4, <3>5 DEF ElevatorInv, TypeOK, MotorFollows
  <2>3. CASE state = "Moving"
    BY <1>2, <2>3 DEF Call, ElevatorInv, TypeOK, MotorFollows, started
  <2> QED BY <1>2, <2>1, <2>2, <2>3 DEF Call
<1>3. ASSUME NEW floor \in Floors, FloorSensor(floor) PROVE ElevatorInv'
  <2>1. dest_floor' = dest_floor /\ dest_floor \in Floors /\ current_floor \in Floors
    BY <1>3 DEF FloorSensor, ElevatorInv, TypeOK
  <2>2. CASE state # "Moving"
    BY <1>3, <2>1, <2>2 DEF FloorSensor, ElevatorInv, TypeOK, MotorFollows, started
  <2>3. CASE state = "Moving" /\ floor # floor_expected
    BY <1>3, <2>1, <2>3, StoppedInv DEF FloorSensor, EnterPanic
  <2>4. CASE state = "Moving" /\ floor = floor_expected /\ floor = dest_floor
    BY <1>3, <2>1, <2>4, StoppedInv DEF FloorSensor
  <2>5. CASE state = "Moving" /\ floor = floor_expected /\ floor # dest_floor
    <3>1. /\ current_floor' = floor /\ state' = state /\ motor' = motor
          /\ direction' = direction
      BY <1>3, <2>5 DEF FloorSensor
    <3>2. floor = current_floor + direction
      BY <2>5 DEF floor_expected
    <3>3. direction = Sign(dest_floor - current_floor)
      BY <2>5 DEF ElevatorInv, MotorFollows
    <3>4. floor \in Int /\ current_floor \in Int /\ dest_floor \in Int
      BY <2>1, ElevatorAssumption
    <3>5. direction = Sign(dest_floor - floor)
      BY <2>5, <3>2, <3>3, <3>4 DEF Sign
    <3> QED BY <2>1, <2>5, <3>1, <3>5 DEF ElevatorInv, TypeOK, MotorFollows, started
  <2> QED BY <2>2, <2>3, <2>4, <2>5
<1>4. CASE Alarm
  BY <1>4, StoppedInv DEF Alarm, EnterPanic, ElevatorInv, TypeOK
<1>5. CASE UNCHANGED vars
  BY <1>5 DEF vars, ElevatorInv, TypeOK, MotorFollows, started
<1> QED BY <1>1, <1>2, <1>3, <1>4, <1>5 DEF Next

(* ElevatorInv is an inductive invariant of the two machines.              *)
THEOREM ElevatorInvariant == Spec => []ElevatorInv
<1> QED BY InitInv, StepInv, PTL DEF Spec

(* The types of the two machines' state.                                   *)
THEOREM ElevatorTypeOK == Spec => []TypeOK
<1>1. ElevatorInv => TypeOK
  BY DEF ElevatorInv
<1> QED BY <1>1, ElevatorInvariant, PTL

(* The motor runs exactly while Elevator is Moving (Idle and Panic stop it *)
(* in their entry), and towards the floor called.                          *)
THEOREM MotorAlwaysFollows == Spec => []MotorFollows
<1>1. ElevatorInv => MotorFollows
  BY DEF ElevatorInv
<1> QED BY <1>1, ElevatorInvariant, PTL

(* No event that comes while Moving redirects the elevator, and Idle is    *)
(* only entered at the floor called.                                       *)
THEOREM CourseKept == Spec => KeepsCourse
<1>1. ASSUME ElevatorInv, [Next]_vars
      PROVE  [ state = "Moving" =>
                 /\ dest_floor' = dest_floor
                 /\ state' = "Idle" => current_floor' = dest_floor ]_vars
  <2> SUFFICES ASSUME state = "Moving"
               PROVE  dest_floor' = dest_floor /\ (state' = "Idle" => current_floor' = dest_floor)
    OBVIOUS
  <2>1. CASE Start \/ Alarm \/ UNCHANGED vars
    BY <2>1 DEF Start, Alarm, EnterPanic, vars, started
  <2>2. ASSUME NEW floor \in Floors, Call(floor) \/ FloorSensor(floor)
        PROVE  dest_floor' = dest_floor /\ (state' = "Idle" => current_floor' = dest_floor)
    BY <2>2 DEF Call, FloorSensor, EnterPanic
  <2> QED BY <1>1, <2>1, <2>2 DEF Next
<1> QED BY <1>1, ElevatorInvariant, PTL DEF Spec, KeepsCourse

(* Nothing leaves Panic, and the motor never runs again once in it.        *)
THEOREM PanicIsFinal == Spec => PanicForGood
<1>1. ASSUME ElevatorInv, [Next]_vars
      PROVE  [ state = "Panic" => state' = "Panic" /\ direction' = 0 ]_vars
  <2> SUFFICES ASSUME state = "Panic" PROVE state' = "Panic" /\ direction' = 0
    OBVIOUS
  <2>1. state' = "Panic"
    BY <1>1 DEF Next, Start, Call, FloorSensor, Alarm, EnterPanic, vars, started
  <2>2. direction' = 0
    BY <1>1, <2>1, StepInv DEF ElevatorInv, MotorFollows
  <2> QED BY <2>1, <2>2
<1> QED BY <1>1, ElevatorInvariant, PTL DEF Spec, PanicForGood
=============================================================================
