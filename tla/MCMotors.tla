------------------------------- MODULE MCMotors ------------------------------
(***************************************************************************)
(* The components between DJIMotorControl and the CAN bus, side by side.   *)
(* They are modelled apart and share no variable: `part' says which of     *)
(* them this behaviour is about, and the others stay as they begin.        *)
(***************************************************************************)
EXTENDS CanTransmit, DjiMotor, MotorEncoder, CanPayload, Pid

\* Both sides of the border between the groups on the first bus, with the
\* clash of M3508 5 and GM6020 1, and a motor on the second bus.
MCRequests == [bus : {"can0"}, type : {"M3508"}, id : {4, 5}] \union
              [bus : {"can0"}, type : {"GM6020"}, id : {1}] \union
              [bus : {"can1"}, type : {"M2006"}, id : {5}]

\* Eight positions to the turn, every movement below half a turn.
MCMoves == {-3, -1, 1, 2, 3}

Tuning(kp, ki, kd, improve) ==
    [Kp |-> kp, Ki |-> ki, Kd |-> kd, MaxOut |-> 3, DeadBand |-> 1, IntegralLimit |-> 2,
     CoefA |-> 2, CoefB |-> 1, RC |-> 1, Improve |-> improve]
MCConfigs ==
    {Tuning(1, 1, 1, {"Integral_Limit", "ErrorHandle"} \union S) :
        S \in {{}, {"Trapezoid_Intergral", "Derivative_On_Measurement"},
               {"ChangingIntegrationRate"}, {"OutputFilter"}, {"DerivativeFilter"},
               {"ChangingIntegrationRate", "OutputFilter", "DerivativeFilter"}}}
    \union {Tuning(2, 0, 1, {}), Tuning(1, 2, 0, {"Integral_Limit", "ChangingIntegrationRate"})}
MCMeasures == {-1, 0, 2}
MCRefs == {-1, 0, 3}

VARIABLE part

vars == <<part, txVars, motorVars, encoderVars, payloadVars, pidVars>>

\* A part that begins in one of several ways, when it is not looked at.
TxRest == TxInit /\ enabled = {}
EncoderRest == EncoderInit /\ tick = 0
PidRest == PidInit /\ pid = Tuning(2, 0, 1, {})

Init == /\ part \in {"transmit", "motors", "encoder", "payload", "pid"}
        /\ IF part = "transmit" THEN TxInit ELSE TxRest
        /\ MotorInit
        /\ IF part = "encoder" THEN EncoderInit ELSE EncoderRest
        /\ PayloadInit
        /\ IF part = "pid" THEN PidInit ELSE PidRest

\* DJIMotorInit has found a clash and spins.
Spins == main_pc = "crash" /\ UNCHANGED motorVars

Next == /\ UNCHANGED part
        /\ \/ /\ part = "transmit" /\ TxNext
              /\ UNCHANGED <<motorVars, encoderVars, payloadVars, pidVars>>
           \/ /\ part = "motors" /\ (MotorNext \/ Spins)
              /\ UNCHANGED <<txVars, encoderVars, payloadVars, pidVars>>
           \/ /\ part = "encoder" /\ EncoderNext
              /\ UNCHANGED <<txVars, motorVars, payloadVars, pidVars>>
           \/ /\ part = "payload" /\ PayloadNext
              /\ UNCHANGED <<txVars, motorVars, encoderVars, pidVars>>
           \/ /\ part = "pid" /\ PIDCalculate
              /\ UNCHANGED <<txVars, motorVars, encoderVars, payloadVars>>

\* Fairness of the part that runs; a part that rests takes no step.
Spec == /\ Init /\ [][Next]_vars
        /\ WF_txVars(part = "transmit" /\ Control)
        /\ \A c \in Controller : WF_txVars(part = "transmit" /\ BusSends(c))

\* The type invariants of the parts.
MotorsTypeOK == TxTypeOK /\ MotorTypeOK /\ EncoderTypeOK /\ PayloadTypeOK
=============================================================================
