------------------------------ MODULE MCDrivers ------------------------------
(***************************************************************************)
(* The HAL below the firmware, side by side: the interrupt multiplexer at  *)
(* start-up, the system timer, the GPIO interrupt groups, the I2C master   *)
(* and the two locks behind HAL_SPINLOCK_Lock, the word in memory and the  *)
(* register.  They share no variable: `part' says which of them this       *)
(* behaviour is about, and the others stay as they begin.                  *)
(***************************************************************************)
EXTENDS Intmux, SysTimer, GpioIrqGroup, HalI2c, SwSpinlock, HwSpinlock

CONSTANT Parts     \* those that are looked at

AllParts == {"intmux", "timer", "gpio", "i2c", "word", "register"}

\* Both CAN controllers and an orphan on the first output, the mailbox on the
\* second, as on the RK3506.
MCCan == <<0, 1>>

\* The timer starts just before a carry, where HAL_GetTick wraps too.
MCStarts == {<<1, 13>>}
MCDelays == {<<1, 3>>, <<2, 1>>}

\* One bank with three groups on two cores, the lower level shared with the
\* core that takes the bank's interrupt.
Pins(l, c, p, i) == [level |-> l, cpu |-> c, pins |-> p, irq |-> i]
MCGroups == <<{Pins(0, 0, {1}, "gpio0"), Pins(0, 1, {2, 3}, "dirq0"),
               Pins(1, 0, {4}, "dirq1")}>>
MCHwIrq == <<"gpio0">>

\* Chips whose cores are all of one kind, with Lock, TryLock and interrupts
\* that print.
AllOf(a) == [c \in Cores |-> [arch |-> a, main |-> {"lock", "try"}, isr |-> TRUE]]

\* The cores of the RK3506: a Cortex-A7 whose main program takes the lock, one
\* whose interrupts do, and the Cortex-M0, which tries.
A7Main == [arch |-> "v7a", main |-> {"lock", "try"}, isr |-> FALSE]
A7Irqs == [arch |-> "v7a", main |-> {}, isr |-> TRUE]
M0 == [arch |-> "v6m", main |-> {"try"}, isr |-> TRUE]

MCBuilds == {AllOf("a64"), AllOf("v8"), AllOf("v7m")}
            \union {b \in [Cores -> {A7Main, A7Irqs, M0}] :
                       \E c \in Cores : b[c] = A7Main}

\* Chips on which the lock does not exclude: Cortex-A7s that print in the main
\* program and in interrupts, a Cortex-M0 that calls Lock.
PrintingA7s == {[c \in Cores |-> [arch |-> "v7a", main |-> {"try"}, isr |-> TRUE]]}
LockingM0s == [Cores -> {A7Main, [M0 EXCEPT !.main = {"lock"}]}]

\* Cores of which the interrupts ask for the owner, and cores that take the lock
\* in interrupts alone.
Asks == [main |-> {"lock", "try", "asrc"}, isr |-> {"asrc"}]
IrqsAlone == [main |-> {}, isr |-> {"try", "asrc"}]
MCUses == {u \in [OwnerIDs -> {Asks, IrqsAlone}] :
             \E c \in OwnerIDs \ {0} : u[c] = Asks}

\* Cores that print in the main program and in interrupts.
PrintingCores == {[c \in OwnerIDs |-> [main |-> {"try"}, isr |-> {"try"}]]}

\* Nothing else can be looked at.
ASSUME PartsAssumption == Parts \subseteq AllParts

\* The values are among those for which the drivers are proved.
ASSUME RatesAssumption == Rates
ASSUME DividedAssumption == Divided

VARIABLE part

driverVars == <<intmuxVars, timerVars, gpioVars, i2cVars>>
lockVars == <<swVars, hwVars>>
vars == <<part, driverVars, lockVars>>

\* A part that begins in one of several ways, when it is not looked at.
MuxRest == MuxInit /\ enabled = {} /\ nvic_pending = {}
TimerRest == TimerInit /\ ~down
SwRest == SwInit /\ build = CHOOSE b \in Builds : TRUE
HwRest == HwInit /\ uses = CHOOSE u \in Uses : TRUE

Init == /\ part \in Parts
        /\ IF part = "intmux" THEN MuxInit ELSE MuxRest
        /\ IF part = "timer" THEN TimerInit ELSE TimerRest
        /\ GpioInit
        /\ I2cInit
        /\ IF part = "word" THEN SwInit ELSE SwRest
        /\ IF part = "register" THEN HwInit ELSE HwRest

Next == /\ UNCHANGED part
        /\ \/ /\ part = "intmux" /\ MuxNext
              /\ UNCHANGED <<timerVars, gpioVars, i2cVars, lockVars>>
           \/ /\ part = "timer" /\ TimerNext
              /\ UNCHANGED <<intmuxVars, gpioVars, i2cVars, lockVars>>
           \/ /\ part = "gpio" /\ GpioNext
              /\ UNCHANGED <<intmuxVars, timerVars, i2cVars, lockVars>>
           \/ /\ part = "i2c" /\ I2cNext
              /\ UNCHANGED <<intmuxVars, timerVars, gpioVars, lockVars>>
           \/ part = "word" /\ SwNext /\ UNCHANGED <<driverVars, hwVars>>
           \/ part = "register" /\ HwNext /\ UNCHANGED <<driverVars, swVars>>

\* The fairness of each component, for the part that runs; a part that rests
\* takes no step.
MuxFair == /\ WF_intmuxVars(part = "intmux" /\ Main)
           /\ WF_intmuxVars(part = "intmux" /\ IsrDispatch)
           /\ WF_intmuxVars(part = "intmux" /\ IsrReturn)
           /\ \A o \in Out : WF_intmuxVars(part = "intmux" /\ IsrTake(o))
TimerFair == /\ WF_timerVars(part = "timer" /\ Tick)
             /\ WF_timerVars(part = "timer" /\ CPU)
GpioFair == \A i \in Irqs : WF_gpioVars(part = "gpio" /\ Handler(i))
I2cFair == /\ WF_i2cVars(part = "i2c" /\ Controller)
           /\ WF_i2cVars(part = "i2c" /\ IRQHandler)
LocksFair == /\ \A c \in Cores : WF_swVars(part = "word" /\ CoreStep(c))
             /\ \A c \in OwnerIDs : WF_hwVars(part = "register" /\ HwCoreStep(c))

Spec == Init /\ [][Next]_vars /\ MuxFair /\ TimerFair /\ GpioFair /\ I2cFair /\ LocksFair

\* The type invariants of the parts; for the GPIO groups, which share their
\* registers between cores, with the masking that makes the sharing safe.
DriversTypeOK == /\ MuxTypeOK /\ TimerTypeOK /\ I2cTypeOK
                 /\ GpioTypeOK /\ MaskedWhileServed /\ CalledForAnEdge

\* Start-up ends and an interrupt of a driver is served: see Intmux.
DriversServed == StartsUp /\ Served

\* The handler of a pin is called, by edge or by level: see GpioIrqGroup.
PinsAnswered == EdgesServed /\ LevelsServed

\* Every call of the timer and of the I2C master ends.
CallsEnd == Ends /\ Finishes

\* The invariants of the locks: types, one caller inside, and a word or a
\* register that names the core inside as long as somebody is.
LocksSafe == /\ SwTypeOK /\ MutualExclusion /\ OwnerNamed
             /\ HwTypeOK /\ HwMutualExclusion /\ HeldWhileInside

\* A lock that is free is taken by who waits for it, one that is held is
\* released.
LocksProgress == FreeIsTaken /\ Released
=============================================================================
