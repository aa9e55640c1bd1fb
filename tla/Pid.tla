--------------------------------- MODULE Pid ---------------------------------
(***************************************************************************)
(* controller.c: one PID controller, as the loops of DJIMotorControl call  *)
(* it.  Measured values and set-points are whatever the motor and the      *)
(* application give.  dt is the time since last_cnt, a local variable that *)
(* nothing initialises: the frame of the previous call, of the same or of  *)
(* another controller, usually left its time there, so dt may be 0.        *)
(*                                                                         *)
(* Floats are integers here, with the infinities and the not-a-number that *)
(* a division by dt = 0 yields; quotients are truncated.                   *)
(***************************************************************************)
EXTENDS Integers

CONSTANTS Configs,     \* PID_Init_Config_s: the parameters PIDInit may get
          Measures, Refs,
          Intervals,   \* values of dt
          Inf,         \* larger than every number of the instance
          MaxCount     \* 500, beyond which a blocked motor is reported

Stages == {"Integral_Limit", "Derivative_On_Measurement", "Trapezoid_Intergral",
           "OutputFilter", "ChangingIntegrationRate", "DerivativeFilter", "ErrorHandle"}

ASSUME ConfigsAssumption ==
    /\ \A c \in Configs :
         /\ {c.Kp, c.Ki, c.Kd} \subseteq Int
         /\ {c.MaxOut, c.DeadBand, c.IntegralLimit, c.CoefB, c.RC} \subseteq Nat
         /\ c.CoefA \in Nat \ {0} /\ c.Improve \subseteq Stages
    /\ Measures \subseteq Int /\ Refs \subseteq Int /\ Intervals \subseteq Nat
    /\ Inf \in Nat /\ MaxCount \in Nat

VARIABLES pid,               \* the parameters PIDInit has copied
          Measure, Ref, dt,      \* of the last call
          Iout, Dout, Output,
          ERRORCount, ERRORType, \* ERRORHandler
          stalled                \* calls in a row that left the motor blocked, up to
                                 \* MaxCount + 2

pidVars == <<pid, Measure, Ref, dt, Iout, Dout, Output, ERRORCount, ERRORType, stalled>>

\* PIDInit
PidInit == /\ pid \in Configs
           /\ Measure = 0 /\ Ref = 0 /\ dt = 0
           /\ Iout = 0 /\ Dout = 0 /\ Output = 0
           /\ ERRORCount = 0 /\ ERRORType = "none" /\ stalled = 0

-----------------------------------------------------------------------------
(* Floating point                                                          *)

NaN == Inf + 1
Infinite(x) == x \in {Inf, -Inf}
IsNumber(x) == -Inf < x /\ x < Inf
Abs(x) == IF x > 0 THEN x ELSE -x
Quotient(n, d) == IF n >= 0 THEN n \div d ELSE -((-n) \div d)

Plus(x, y) == CASE x = NaN \/ y = NaN      -> NaN
                [] Infinite(x) /\ y = -x   -> NaN
                [] Infinite(x) /\ y # -x   -> x
                [] IsNumber(x) /\ Infinite(y) -> y
                [] OTHER                   -> x + y

\* n / t, and x * a / b with b = 0 only if a = 0.
Per(n, t) == IF t # 0 THEN Quotient(n, t)
             ELSE IF n = 0 THEN NaN ELSE IF n > 0 THEN Inf ELSE -Inf
Share(x, a, b) == IF x = NaN \/ b = 0 \/ (Infinite(x) /\ a = 0) THEN NaN
                  ELSE IF Infinite(x) THEN x ELSE Quotient(x * a, b)

\* A comparison with NaN is false.
Exceeds(x, bound) == x # NaN /\ Abs(x) > bound
Clamp(x, bound) == IF ~Exceeds(x, bound) THEN x ELSE IF x > 0 THEN bound ELSE -bound

-----------------------------------------------------------------------------
(* The stages of PIDCalculate                                              *)

Uses(stage) == stage \in pid.Improve
Last_Err == Ref - Measure

\* f_Trapezoid_Intergral
Term(err, t) == pid.Ki * t *
                   IF Uses("Trapezoid_Intergral") THEN Quotient(err + Last_Err, 2) ELSE err

\* f_Changing_Integration_Rate
Accumulates(err) == err * Iout > 0
Rated(term, err) ==
    LET a == pid.CoefA  b == pid.CoefB
    IN IF ~Uses("ChangingIntegrationRate") \/ ~Accumulates(err) \/ Abs(err) <= b THEN term
       ELSE IF Abs(err) <= a + b THEN Quotient(term * (a - Abs(err) + b), a) ELSE 0

\* f_Derivative_On_Measurement, f_Derivative_Filter
Low(x, last, t) == Plus(Share(x, t, pid.RC + t), Share(last, pid.RC, pid.RC + t))
DerivativeKept(err, measure, t) ==      \* filtered whatever Improve says
    Low(Per(pid.Kd * (IF Uses("Derivative_On_Measurement") THEN Measure - measure
                      ELSE err - Last_Err), t), Dout, t)
Derivative(err, measure, t) ==
    LET d == Per(pid.Kd * (IF Uses("Derivative_On_Measurement") THEN Measure - measure
                              ELSE err - Last_Err), t)
    IN IF Uses("DerivativeFilter") THEN Low(d, Dout, t) ELSE d

Integral(term, err, d) ==
    LET limit == pid.IntegralLimit
        next == Iout + term
        winds == /\ Exceeds(Plus(pid.Kp * err + Iout, d), pid.MaxOut)
                 /\ Accumulates(err)
    IN IF ~Uses("Integral_Limit") THEN next
       ELSE IF next > limit THEN limit
       ELSE IF next < -limit THEN -limit
       ELSE IF winds THEN Iout ELSE next

\* f_Output_Filter, f_Output_Limit; the same with the limit tested on one side.
Filtered(sum, t) == IF Uses("OutputFilter") THEN Low(sum, Output, t) ELSE sum
Limited(sum, t) == Clamp(Filtered(sum, t), pid.MaxOut)

\* f_PID_ErrorHandle, at the start of a call, judges what the call before it left.
\* A reported motor stays reported, so its count no longer matters.
Driven == ~(1000 * Abs(Output) < pid.MaxOut) /\ Ref # 0
Blocked == 20 * Abs(Ref - Measure) > 19 * Abs(Ref)
Count == CASE ~Driven              -> ERRORCount
           [] Driven /\ Blocked    -> ERRORCount + 1
           [] Driven /\ ~Blocked   -> 0
Watched == Uses("ErrorHandle") /\ ERRORType = "none"

\* Broken variant: the count compared before it is increased.
ErrorHandleLate ==
    IF Watched
    THEN /\ ERRORCount' = Count
         /\ ERRORType' = IF ERRORCount > MaxCount THEN "blocked" ELSE ERRORType
    ELSE UNCHANGED <<ERRORCount, ERRORType>>

ErrorHandle ==
    IF Watched
    THEN /\ ERRORCount' = Count
         /\ ERRORType' = IF Count > MaxCount THEN "blocked" ELSE ERRORType
    ELSE UNCHANGED <<ERRORCount, ERRORType>>

-----------------------------------------------------------------------------
(* PIDCalculate                                                            *)

Given(measure, ref, t) ==
    /\ ErrorHandle
    /\ Measure' = measure /\ Ref' = ref /\ dt' = t /\ UNCHANGED pid
    /\ stalled' = IF (Driven /\ Blocked)'
                  THEN IF stalled > MaxCount + 1 THEN stalled ELSE stalled + 1
                  ELSE 0

InDeadBand(measure, ref) == Abs(ref - measure) <= pid.DeadBand

Calculate(measure, ref, t) ==
    /\ ~InDeadBand(measure, ref)
    /\ LET err == ref - measure
           d == Derivative(err, measure, t)
           i == Integral(Rated(Term(err, t), err), err, d)
       IN /\ Dout' = d /\ Iout' = i
          /\ Output' = Limited(Plus(pid.Kp * err + i, d), t)
    /\ Given(measure, ref, t)

\* "Enter the dead zone": the output is cleared, the integral and Dout are not.
DeadZone(measure, ref, t) ==
    /\ InDeadBand(measure, ref)
    /\ Output' = 0
    /\ UNCHANGED <<Iout, Dout>>
    /\ Given(measure, ref, t)

PIDCalculate == \E measure \in Measures, ref \in Refs, t \in Intervals :
                    Calculate(measure, ref, t) \/ DeadZone(measure, ref, t)

PidSpec == PidInit /\ [][PIDCalculate]_pidVars

-----------------------------------------------------------------------------
(***************************************************************************)
(* Properties                                                              *)
(***************************************************************************)

\* An output that is a number is within MaxOut, filtered or not, whatever dt;
\* the integral is always a number.
PidTypeOK == /\ pid \in Configs
             /\ IsNumber(Iout)
             /\ Output = NaN \/ Abs(Output) <= pid.MaxOut
             /\ ERRORCount \in 0..MaxCount + 1 /\ ERRORType \in {"none", "blocked"}

\* With Integral_Limit the integral stays within IntegralLimit, whatever the
\* other stages made of the term, the saturated output and dt.
IntegralBounded == Uses("Integral_Limit") => Abs(Iout) <= pid.IntegralLimit

\* With ErrorHandle a motor that was driven and stayed put for more than
\* MaxCount calls in a row is reported at the next call, even when it was at rest
\* in the dead zone or without a set-point before.
BlockedReported == Uses("ErrorHandle") /\ stalled > MaxCount + 1 => ERRORType = "blocked"

\* A call with dt = 0 costs that output only: the next calls yield numbers again,
\* unless a low-pass filter keeps what it left.
NumberAgain == [][\/ Output' # NaN \/ dt' = 0
                  \/ Uses("OutputFilter") \/ Uses("DerivativeFilter")]_pidVars

\* "Enter the dead zone: clear the integral and the output."
DeadZoneClears == Abs(Last_Err) <= pid.DeadBand => Output = 0 /\ Iout = 0

\* The invariants of the controller together, for every choice of stages.
PidSafe == PidTypeOK /\ IntegralBounded /\ BlockedReported
=============================================================================
