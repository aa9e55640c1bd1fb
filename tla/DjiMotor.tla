------------------------------- MODULE DjiMotor ------------------------------
(***************************************************************************)
(* The DJI motors of dji_motor.c: registration (MotorSenderGrouping, the   *)
(* test for clashing identifiers, CANRegister), feedback (DecodeDJIMotor,  *)
(* from the CAN interrupt) and the control frames of DJIMotorControl, four *)
(* motors to a frame.                                                      *)
(*                                                                         *)
(* Every motor the application configures is on its bus.  Motors obey the  *)
(* manual that the code quotes: identifiers of the control frame and of    *)
(* the feedback follow from the type and the number set on the motor.  The *)
(* current asked of a motor stands for that motor.                         *)
(***************************************************************************)
EXTENDS Integers, Sequences, FiniteSets, Functions

CONSTANTS Requests,   \* configurations DJIMotorInit may be called with
          Slots,      \* CAN_MX_REGISTER_CNT
          MaxMotors   \* bound on the calls of DJIMotorInit

Buses == {"can0", "can1"}
Escs == {"M2006", "M3508"}
Motor == [bus : Buses, type : Escs \union {"GM6020"}, id : 1..8]

ASSUME RequestsAssumption == Requests \subseteq Motor
ASSUME SlotsAssumption == {Slots, MaxMotors} \subseteq Nat \ {0}

VARIABLES
    motors,       \* dji_motor_instance, by configuration
    heard,        \* the motors whose motor_can_instance is not NULL
    stopped,      \* motors with stop_flag MOTOR_STOP
    measure,      \* whose report each motor's measure was decoded from
    can_instance, \* motors with a receive instance, in the order of the table
    sender_enable_flag,
    tx_buff,      \* control frame of each group: a motor or NoMotor (zero)
    current,      \* what each motor was last told
    main_pc, config \* main loop; the argument of DJIMotorInit, <<>> outside it

tableVars == <<motors, heard, can_instance, sender_enable_flag>>
wireVars == <<tx_buff, current>>
mainVars == <<main_pc, config>>
motorVars == <<tableVars, stopped, measure, wireVars, mainVars>>

Index == 1..MaxMotors
NoMotor == 0
Group == 0..5
Place == 0..3

MotorTypeOK ==
    /\ motors \in Seq(Requests) /\ Len(motors) <= MaxMotors
    /\ heard \subseteq Index /\ stopped \subseteq Index
    /\ measure \in [Index -> 0..MaxMotors]
    /\ can_instance \in Seq(Index) /\ Len(can_instance) <= Slots
    /\ sender_enable_flag \subseteq Group
    /\ tx_buff \in [Group -> [Place -> 0..MaxMotors]]
    /\ current \in [Index -> 0..MaxMotors]
    /\ main_pc \in {"idle", "register", "append", "crash"}
    /\ config \in Seq(Requests) /\ Len(config) <= 1

MotorInit == /\ motors = <<>> /\ heard = {} /\ stopped = {}
             /\ measure = [i \in Index |-> NoMotor]
             /\ can_instance = <<>>
             /\ sender_enable_flag = {}
             /\ tx_buff = [g \in Group |-> [p \in Place |-> NoMotor]]
             /\ current = [i \in Index |-> NoMotor]
             /\ main_pc = "idle" /\ config = <<>>

-----------------------------------------------------------------------------
(* The assignment of MotorSenderGrouping.  The groups of a controller are  *)
(* the frames 0x1FF, 0x200 and 0x2FF in this order.                        *)

Offset(m) == IF m.bus = "can0" THEN 0 ELSE 3
FirstFour(m) == m.id - 1 < 4
SenderGroup(m) ==
    Offset(m) + CASE m.type \in Escs /\ FirstFour(m)  -> 1
                  [] m.type \in Escs /\ ~FirstFour(m) -> 0
                  [] m.type = "GM6020" /\ FirstFour(m)  -> 0
                  [] m.type = "GM6020" /\ ~FirstFour(m) -> 2
MessageNum(m) == IF FirstFour(m) THEN m.id - 1 ELSE m.id - 5
RxId(m) == (IF m.type \in Escs THEN 512 ELSE 516) + m.id

\* The manual: the frame and the place in it that a motor listens to, and the
\* identifier of its feedback.
ListensTo(m) ==
    <<m.bus,
      CASE m.type \in Escs /\ m.id <= 4     -> "0x200"
        [] m.type \in Escs /\ m.id > 4      -> "0x1FF"
        [] m.type = "GM6020" /\ m.id <= 4   -> "0x1FF"
        [] m.type = "GM6020" /\ m.id > 4    -> "0x2FF",
      (m.id - 1) % 4>>
ReportsAs(m) == <<m.bus, (IF m.type \in Escs THEN 512 ELSE 516) + m.id>>
Frame(g) == <<IF g < 3 THEN "can0" ELSE "can1",
              <<"0x1FF", "0x200", "0x2FF">>[(g % 3) + 1]>>

\* Registered motor i has the receive identifier of m on the same bus.
SameRxId(i, m) == motors[i].bus = m.bus /\ RxId(motors[i]) = RxId(m)

-----------------------------------------------------------------------------
(* Broken variants of the definitions below, for checking that the         *)
(* properties notice; the specification does not use them.                 *)

\* MainRegister: off by one in the test that the table is full, and without
\* the test for an identifier that is taken.
MainRegisterAnyway ==
    /\ main_pc = "register"
    /\ can_instance' = Append(can_instance, Len(motors) + 1)
    /\ main_pc' = "append"
    /\ UNCHANGED <<motors, heard, sender_enable_flag, stopped, measure,
                   wireVars, config>>

\* Matches: the controller is not compared.
MatchesId(m, report) == RxId(m) = report[2]

-----------------------------------------------------------------------------
(* The main loop.  The CAN interrupt preempts it between any two steps.    *)

\* DJIMotorInit up to MotorSenderGrouping.  The test for a clash compares with
\* every motor, through the pointer CANRegister returned for it: for a motor
\* that was refused it reads through NULL and may find anything.
MainGroup(m) ==
    /\ main_pc = "idle" /\ Len(motors) < MaxMotors
    /\ sender_enable_flag' = sender_enable_flag \union {SenderGroup(m)}
    /\ config' = <<m>>
    /\ \/ /\ ~\E i \in heard : SameRxId(i, m)
          /\ main_pc' = "register"
       \/ /\ \/ \E i \in heard : SameRxId(i, m)
             \/ \E i \in DOMAIN motors : i \notin heard
          /\ main_pc' = "crash"
    /\ UNCHANGED <<motors, heard, can_instance, stopped, measure, wireVars>>

\* CANRegister: refused when the table is full or the identifier is taken.
MainRegister ==
    /\ main_pc = "register"
    /\ LET refused == \/ Len(can_instance) >= Slots
                      \/ \E k \in DOMAIN can_instance :
                             /\ can_instance[k] \in DOMAIN motors
                             /\ SameRxId(can_instance[k], Head(config))
       IN can_instance' = IF refused THEN can_instance
                          ELSE Append(can_instance, Len(motors) + 1)
    /\ main_pc' = "append"
    /\ UNCHANGED <<motors, heard, sender_enable_flag, stopped, measure,
                   wireVars, config>>

\* DJIMotorInit, the rest: the instance, or NULL, is stored whatever it is.
MainAppend ==
    /\ main_pc = "append"
    /\ LET i == Len(motors) + 1 IN
       /\ motors' = motors \o config
       /\ heard' = IF \E k \in DOMAIN can_instance : can_instance[k] = i
                     THEN heard \union {i} ELSE heard
       /\ stopped' = stopped \ {i}
    /\ main_pc' = "idle" /\ config' = <<>>
    /\ UNCHANGED <<can_instance, sender_enable_flag, measure, wireVars>>

MainStop(i) ==
    /\ main_pc = "idle" /\ i \in DOMAIN motors
    /\ stopped' = stopped \union {i}
    /\ UNCHANGED <<tableVars, measure, wireVars, mainVars>>

MainEnable(i) ==
    /\ main_pc = "idle" /\ i \in DOMAIN motors
    /\ stopped' = stopped \ {i}
    /\ UNCHANGED <<tableVars, measure, wireVars, mainVars>>

\* The frame of a group, filled motor by motor: a later one overwrites.
Fill(g) ==
    [p \in Place |->
        LET here == {i \in DOMAIN motors : SenderGroup(motors[i]) = g
                                             /\ MessageNum(motors[i]) = p}
            last == CHOOSE i \in here : \A j \in here : j <= i
        IN IF here = {} THEN tx_buff[g][p]
           ELSE IF last \in stopped THEN NoMotor ELSE last]

\* DJIMotorControl.  CANTransmit of a group may give up.
MainControl(lost) ==
    /\ main_pc = "idle"
    /\ tx_buff' = [g \in Group |-> Fill(g)]
    /\ current' = [i \in Index |->
          LET frames == {g \in sender_enable_flag \ lost :
                            i \in DOMAIN motors
                              /\ Frame(g) = SubSeq(ListensTo(motors[i]), 1, 2)}
          IN IF frames = {} THEN current[i]
             ELSE tx_buff'[CHOOSE g \in frames : TRUE][ListensTo(motors[i])[3]]]
    /\ UNCHANGED <<tableVars, stopped, measure, mainVars>>

-----------------------------------------------------------------------------
\* The instance of motor m takes a report from this controller, of this id.
Matches(m, report) == <<m.bus, RxId(m)>> = report

\* The CAN interrupt: a report of motor i, which the application has
\* configured or is configuring, reaches the instances that match it.
Configured == motors \o config
Feedback(i) ==
    /\ i \in DOMAIN Configured
    /\ LET hit == {j \in Range(can_instance) :
                     Matches(Configured[j], ReportsAs(Configured[i]))}
       IN measure' = [j \in Index |-> IF j \in hit THEN i ELSE measure[j]]
    /\ UNCHANGED <<tableVars, stopped, wireVars, mainVars>>

MotorNext == \/ \E m \in Requests : MainGroup(m)
             \/ MainRegister
             \/ MainAppend
             \/ \E i \in Index : MainStop(i) \/ MainEnable(i) \/ Feedback(i)
             \/ \E lost \in SUBSET sender_enable_flag : MainControl(lost)

MotorSpec == MotorInit /\ [][MotorNext]_motorVars

-----------------------------------------------------------------------------
(* Properties.                                                             *)

\* No motor is ever told the current meant for another, though four motors
\* share a frame and two types share one frame identifier: the groups and
\* places of MotorSenderGrouping agree with the manual, and its test for
\* clashing identifiers stops every configuration in which they would not.
\* (With more than Slots + 1 motors it does not: see ClashStops.)
NoCrossTalk == \A i \in Index : current[i] \in {NoMotor, i}

\* The measurements of a motor are decoded from its own reports, as long as
\* the test for a clash has not stopped the program.
FeedbackOwn ==
    main_pc # "crash" => \A i \in Index : measure[i] \in {NoMotor, i}

\* DJIMotorStop: a motor that is stopped is told no current from then on.
StopHolds == [][\A j \in stopped : current'[j] \in {NoMotor, current[j]}]_motorVars

\* dji_motor.h says of DJIMotorInit that a clash of identifiers stops it: no
\* two motors with one feedback identifier are ever both in use.
ClashStops ==
    \A i, j \in DOMAIN motors :
        i # j => ReportsAs(motors[i]) # ReportsAs(motors[j])

\* dji_motor.h allows six motors on a bus: each has its feedback.
AllHeard == Len(motors) <= 6 => heard = DOMAIN motors

\* Together: no frame, in either direction, reaches the wrong motor.
EachItsOwn == [](NoCrossTalk /\ FeedbackOwn) /\ StopHolds
=============================================================================
