----------------------------- MODULE MotorEncoder ----------------------------
(***************************************************************************)
(* The multi-turn count of DecodeDJIMotor (dji_motor.c).  A motor reports  *)
(* its position within a turn; the receive callback counts the turns from  *)
(* the difference of two reports, on the condition, stated in the code,    *)
(* that the shaft turns by less than half a turn between them.  Reports    *)
(* may be lost: the shaft then moves several times between two.            *)
(***************************************************************************)
EXTENDS Integers

CONSTANTS Half,     \* half of the encoder's positions: 4096
          Degrees,  \* 360
          Moves,    \* movements of the shaft, in positions
          MaxTurn   \* bound on the turns

Ticks == 2 * Half
Tick == 0..(Ticks - 1)

ASSUME HalfAssumption == Half \in Nat \ {0}
ASSUME DegreesAssumption == Degrees \in Nat
ASSUME MovesAssumption == Moves \subseteq Int
ASSUME TurnAssumption == MaxTurn \in Nat

VARIABLES
    turn, tick,               \* the shaft
    moved,                    \* its movement since the last report decoded
    ecd, last_ecd,            \* DJI_Motor_Measure_s
    total_round, total_angle,
    started,                  \* a report has been decoded
    seen,                     \* turn of the shaft at the last report
    base                      \* the count that the first report amounts to

shaftVars == <<turn, tick, moved>>
measureVars == <<ecd, last_ecd, total_round, total_angle>>
encoderVars == <<shaftVars, measureVars, started, seen, base>>

EncoderTypeOK ==
    /\ turn \in Int /\ tick \in Tick
    /\ moved \in (1 - Half)..(Half - 1)
    /\ ecd \in Tick /\ last_ecd \in Tick
    /\ total_round \in Int /\ total_angle \in Int
    /\ started \in BOOLEAN
    /\ seen \in Int /\ base \in Int

\* DJIMotorInit clears the instance; the shaft may stand anywhere.
EncoderInit == /\ turn = 0 /\ tick \in Tick /\ moved = 0
               /\ ecd = 0 /\ last_ecd = 0
               /\ total_round = 0 /\ total_angle = 0
               /\ started = FALSE /\ seen = 0 /\ base = 0

\* Turns that a report adds to the count.
Rounds(new, old) == IF new - old > Half THEN -1
                    ELSE IF new - old < -Half THEN 1 ELSE 0

-----------------------------------------------------------------------------
(* Broken variants of the actions below, for checking that the properties  *)
(* notice; the specification does not use them.                            *)

\* Report: last_ecd is updated after ecd.
ReportLate ==
    /\ ecd' = tick
    /\ last_ecd' = tick
    /\ total_round' = total_round + Rounds(ecd', last_ecd')
    /\ total_angle' = total_round' * Degrees + ecd'
    /\ moved' = 0 /\ started' = TRUE /\ seen' = turn
    /\ base' = IF started THEN base ELSE total_round' - turn
    /\ UNCHANGED <<turn, tick>>

-----------------------------------------------------------------------------
\* The shaft turns by d, a new turn beginning where the last position ends.
Move(d) ==
    /\ moved + d \in (1 - Half)..(Half - 1)
    /\ moved' = moved + d
    /\ \/ /\ tick + d \in Tick
          /\ tick' = tick + d /\ turn' = turn
       \/ /\ tick + d >= Ticks /\ turn < MaxTurn
          /\ tick' = tick + d - Ticks /\ turn' = turn + 1
       \/ /\ tick + d < 0 /\ turn > -MaxTurn
          /\ tick' = tick + d + Ticks /\ turn' = turn - 1
    /\ UNCHANGED <<measureVars, started, seen, base>>

\* DecodeDJIMotor
Report ==
    /\ last_ecd' = ecd
    /\ ecd' = tick
    /\ total_round' = total_round + Rounds(ecd', last_ecd')
    /\ total_angle' = total_round' * Degrees + ecd'
    /\ moved' = 0 /\ started' = TRUE /\ seen' = turn
    /\ base' = IF started THEN base ELSE total_round' - turn
    /\ UNCHANGED <<turn, tick>>

EncoderNext == (\E d \in Moves : Move(d)) \/ Report

EncoderSpec == EncoderInit /\ [][EncoderNext]_encoderVars

-----------------------------------------------------------------------------
(* Properties.                                                             *)

\* The count follows the shaft: from the first report on it differs from the
\* turns of the shaft by a constant, however the reports fall and whichever
\* are lost; the constant is 0, or -1 when the first report lies in the upper
\* half.  total_round of DecodeDJIMotor drifts if one crossing is missed, seen
\* twice, or counted with the wrong sign.
RoundsTracked == started => total_round - seen = base

\* The encoder value of the last report, with the movement since, is where
\* the shaft is, across the boundary of a turn too.
ShaftTracked ==
    started => \/ turn = seen /\ tick = ecd + moved
               \/ turn = seen + 1 /\ tick = ecd + moved - Ticks
               \/ turn = seen - 1 /\ tick = ecd + moved + Ticks

\* dji_motor.c takes total_angle for the feedback of the position loop "to
\* prevent a jump at the boundary": when the shaft has moved forward, it must
\* not fall.
NoJump == [][started /\ moved > 0 /\ Report => total_angle' >= total_angle]_encoderVars
=============================================================================
