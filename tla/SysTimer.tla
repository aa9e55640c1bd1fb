------------------------------ MODULE SysTimer ------------------------------
(***************************************************************************)
(* Time in the HAL: HAL_TIMER_GetCount puts the 64-bit system timer        *)
(* together from 32-bit registers while it runs, and TimerDelayUs,         *)
(* HAL_DelayMs, HAL_GetTick and the timeout loops of the drivers compute   *)
(* with what it returns.  The timer ticks between any two accesses.        *)
(***************************************************************************)
EXTENDS Naturals

CONSTANTS Half,         \* values of one register, 2^32
          PerUs, PerMs, \* ticks of the timer, 24 and 24000
          Directions,   \* counting down (TRUE) or up
          Starts,       \* <<high, low>>: how long the timer has run at first
          Delays,       \* <<n, us>>: n delays of us
          Timeouts,     \* of the loops, in ms
          Pace,         \* ticks between two steps of the CPU
          StartBy, LastTick \* bounds: no call begins, no tick comes after

ASSUME HalfAssumption == Half \in Nat \ {0, 1}
ASSUME StartsAssumption == Starts \subseteq (0 .. Half - 1) \X (0 .. Half - 1)
ASSUME DirectionsAssumption == Directions \subseteq BOOLEAN

Register == 0 .. Half - 1

VARIABLES down, reg,            \* the timer: <<high, low>>
          since,                \* ticks since the CPU's last step
          step, high, low, entered,          \* HAL_TIMER_GetCount
          op, arg, ms, rounds, stage, from, began, \* its callers
          result

timer == <<down, reg>>
call == <<op, arg, ms, rounds, stage, from, began>>
timerVars == <<timer, since, step, high, low, entered, call, result>>

Up(r) == IF down THEN <<Half - 1 - r[1], Half - 1 - r[2]>> ELSE r
Number(r) == r[1] * Half + r[2]

\* PLL_INPUT_OSC_RATE gives 24 ticks a microsecond; a microsecond and a
\* millisecond have ticks, the product of TimerDelayUs fits its 32 bits, and
\* the timer stays in its first quarter, 6000 years, by which GetSysTimerCount
\* tells which way it counts.
Rates == /\ PerUs \in Nat /\ PerMs \in Nat \ {0} /\ LastTick \in Nat
         /\ Delays \subseteq Nat \X Nat /\ Timeouts \subseteq Nat
         /\ \A d \in Delays : PerUs * d[2] < Half
         /\ \A s \in Starts : Number(s) <= LastTick
         /\ 4 * LastTick < Half * Half

\* Ticks since the timer was started.
Time(r) == Number(Up(r))

TimerTypeOK == /\ down \in BOOLEAN /\ reg \in Register \X Register /\ since \in Nat
               /\ step \in {"none", "high", "low", "temp", "got"}
               /\ high \in Register /\ low \in Register /\ entered \in Register \X Register
               /\ began \in Register \X Register
               /\ op = "wait" => from \in Register

TimerInit == /\ down \in Directions
             /\ \E s \in Starts : reg = Up(s)
             /\ since = 0
             /\ step = "none" /\ high = 0 /\ low = 0 /\ entered = <<0, 0>>
             /\ op = "none" /\ arg = 0 /\ ms = 0 /\ rounds = 0 /\ stage = "from" /\ from = 0
             /\ began = <<0, 0>> /\ result = <<"none">>

\* 2^64 ticks are 24000 years: the counter does not wrap as a whole.
Tick == /\ since < Pace /\ Time(reg) < LastTick
        /\ LET u == Up(reg)
               next == IF u[2] + 1 < Half THEN <<u[1], u[2] + 1>> ELSE <<u[1] + 1, 0>>
           IN next[1] < Half /\ reg' = Up(next)
        /\ since' = since + 1
        /\ UNCHANGED <<down, step, high, low, entered, call, result>>

Works == since' = 0 /\ UNCHANGED timer

(***************************************************************************)
(* HAL_TIMER_GetCount                                                      *)
(***************************************************************************)
ReadHigh == /\ step = "high" /\ Works
            /\ high' = reg[1] /\ step' = "low"
            /\ UNCHANGED <<low, entered, call, result>>

ReadLow == /\ step = "low" /\ Works
           /\ low' = reg[2] /\ step' = "temp"
           /\ UNCHANGED <<high, entered, call, result>>

\* Broken variant: without the comparison.
ReadOnce == /\ step = "temp" /\ Works
            /\ step' = "got"
            /\ UNCHANGED <<high, low, entered, call, result>>

ReadTemp == /\ step = "temp" /\ Works
            /\ step' = IF reg[1] = high THEN "got" ELSE "high"
            /\ UNCHANGED <<high, low, entered, call, result>>

GetCount == step' = "high" /\ entered' = reg /\ high' = 0 /\ low' = 0
Count == Number(<<high, low>>)

(***************************************************************************)
(* The callers.                                                            *)
(***************************************************************************)

\* A count in the upper three quarters is one that counts down.
GetSysTimerCount ==
    IF 4 * Count >= Half * Half THEN Half * Half - 1 - Count ELSE Count

GetTick == (GetSysTimerCount \div PerMs) % Half

Call(o, n, a) ==
    /\ op = "none" /\ Time(reg) <= StartBy /\ Works
    /\ op' = o /\ ms' = n /\ rounds' = 0 /\ arg' = a /\ stage' = "from" /\ began' = reg
    /\ GetCount
    /\ result' = <<"none">>
    /\ UNCHANGED from

\* The locals of a call end with it.
Return(r) == /\ op' = "none" /\ step' = "none" /\ result' = r
             /\ arg' = 0 /\ ms' = 0 /\ rounds' = 0 /\ stage' = "from" /\ from' = 0
             /\ began' = <<0, 0>> /\ entered' = <<0, 0>> /\ high' = 0 /\ low' = 0

ReturnTick == /\ op = "tick" /\ step = "got" /\ Works
              /\ Return(<<"tick", GetTick>>)

\* count and pass of TimerDelayUs; the product is one of 32-bit numbers.
Wanted == (PerUs * arg) % Half

Pass(now) == IF now > from THEN now - from ELSE from - now

DelayFrom == /\ op = "delay" /\ stage = "from" /\ step = "got" /\ Works
             /\ from' = Count /\ stage' = "now"
             /\ GetCount
             /\ UNCHANGED <<op, arg, ms, rounds, began, result>>

DelayNow ==
    /\ op = "delay" /\ stage = "now" /\ step = "got" /\ Works
    /\ \/ /\ Pass(Count) < Wanted
          /\ GetCount
          /\ UNCHANGED <<call, result>>
       \/ /\ Pass(Count) >= Wanted /\ rounds + 1 < ms
          /\ rounds' = rounds + 1 /\ stage' = "from"
          /\ GetCount
          /\ UNCHANGED <<op, arg, ms, from, began, result>>
       \/ /\ Pass(Count) >= Wanted /\ rounds + 1 >= ms
          /\ Return(<<"delay">>)

\* start = HAL_GetTick(); while (busy) if ((HAL_GetTick() - start) > timeoutMs)
\* return HAL_TIMEOUT;
WaitFrom == /\ op = "wait" /\ stage = "from" /\ step = "got" /\ Works
            /\ from' = GetTick /\ stage' = "now"
            /\ GetCount
            /\ UNCHANGED <<op, arg, ms, rounds, began, result>>

\* Broken variant: a tick that has just begun counts as a whole one.
ExpiredSoon(now) == (Half + now - from) % Half >= arg

Expired(now) == (Half + now - from) % Half > arg

WaitNow ==
    /\ op = "wait" /\ stage = "now" /\ step = "got" /\ Works
    /\ \/ Expired(GetTick) /\ Return(<<"wait", "TIMEOUT">>)
       \/ /\ ~Expired(GetTick)
          /\ GetCount
          /\ UNCHANGED <<call, result>>
       \/ Return(<<"wait", "OK">>)

Calls == \/ Call("tick", 1, 0)
         \/ \E d \in Delays : Call("delay", d[1], d[2])
         \/ \E t \in Timeouts : Call("wait", 1, t)

CPU == \/ ReadHigh \/ ReadLow \/ ReadTemp
       \/ ReturnTick \/ DelayFrom \/ DelayNow \/ WaitFrom \/ WaitNow

TimerNext == Tick \/ CPU \/ Calls

TimerSpec == TimerInit /\ [][TimerNext]_timerVars

\* The timer runs and so does the CPU.
TimerFairSpec == TimerSpec /\ WF_timerVars(Tick) /\ WF_timerVars(CPU)

-----------------------------------------------------------------------------
(***************************************************************************)
(* Properties                                                              *)
(***************************************************************************)
NotAfter(r, s) == r[1] < s[1] \/ (r[1] = s[1] /\ r[2] <= s[2])

\* HAL_TIMER_GetCount returns a value the timer had during the call, never
\* one put together from before and after a carry.
ReadIsCurrent == step = "got" =>
    /\ NotAfter(Up(entered), Up(<<high, low>>))
    /\ NotAfter(Up(<<high, low>>), Up(reg))

\* "Actual delay is greater than the parameter": HAL_DelayUs and HAL_DelayMs
\* return when the timer has gone on by at least what was asked.
DelayIsLong == [][result' = <<"delay">> /\ op = "delay" /\ op' = "none" =>
                      Time(reg) >= Time(began) + ms * PerUs * arg]_timerVars

\* HAL_GetTick is the milliseconds of a moment during the call, whichever
\* way the timer counts.
TickIsCurrent == [][op = "tick" /\ op' = "none" =>
    \E t \in Time(began) .. Time(reg) : result'[2] = (t \div PerMs) % Half]_timerVars

\* A driver's loop does not give up before its milliseconds are over, also
\* when HAL_GetTick wraps meanwhile.
TimeoutNotEarly == [][result' = <<"wait", "TIMEOUT">> /\ op = "wait" /\ op' = "none" =>
                          Time(reg) >= Time(began) + arg * PerMs]_timerVars

\* Every call returns.
Ends == op # "none" ~> op = "none"

\* The three promises about time together: a delay is long enough, a tick is of
\* its moment, a timeout is not early.
TimeKept == DelayIsLong /\ TickIsCurrent /\ TimeoutNotEarly
=============================================================================
