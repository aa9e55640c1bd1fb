-------------------------------- MODULE Intmux -------------------------------
(***************************************************************************)
(* The interrupt path of the MCU, hal_intmux.c and hal_nvic.c, and the     *)
(* order in which main.c connects its drivers to it: HAL_INTMUX_Init,      *)
(* BSP_CAN_Init for both controllers, __enable_irq, RPMsg_Frame_Init.      *)
(*                                                                         *)
(* Source s of the multiplexer reaches the core through output             *)
(* s \div PerOut.  A device raises its line at any time and holds it until *)
(* its handler has served it.  Whatever ran before the firmware may have   *)
(* left sources enabled and outputs pending.                               *)
(***************************************************************************)
EXTENDS Integers, Sequences, FiniteSetsExt

CONSTANTS Outs,         \* outputs of the multiplexer
          PerOut,       \* INTMUX_NUM_INT_PER_OUT
          Can,          \* sources of the CAN controllers, in the order of
                        \* s_canDevs
          Mbox,         \* source MAILBOX_BB_3
          Left,         \* sources that may have been left enabled
          MaxRaises     \* bound on the interrupts of each device

Out == 0..(Outs - 1)
Source == 0..(Outs * PerOut - 1)
OutOf(s) == s \div PerOut          \* CANGetIntmuxOutIndex, _TO_INTMUX_OUT
CanSource == {Can[d] : d \in DOMAIN Can}
NoHandler == "NULL"

ASSUME SourceAssumption == /\ {Outs, PerOut} \subseteq Nat \ {0}
                           /\ Can \in Seq(Source)
                           /\ Mbox \in Source /\ Mbox \notin CanSource
                           /\ Left \subseteq Source
                           /\ MaxRaises \in Nat

VARIABLES
    enabled,      \* INT_ENABLE_GROUP: sources let through
    raised,       \* device lines
    raises,       \* how often each device has raised its line
    handler,      \* s_intmuxHandler
    vector,       \* NVIC vector of each output
    nvic_on, nvic_pending, priority, \* NVIC, by output
    irq_on,       \* PRIMASK is clear
    initialized,  \* s_canControllerInitialized, by source
    configured,   \* s_intmuxOutConfigured
    main_pc, dev, \* main.c, and the loop over s_canDevs
    active,       \* outputs whose handlers run, the innermost first
    todo          \* sources INTMUX_Dispatch has still to serve, by output

muxVars == <<enabled, handler>>
nvicVars == <<vector, nvic_on, priority>>
canVars == <<initialized, configured>>
mainVars == <<irq_on, main_pc, dev>>
isrVars == <<active, todo>>
deviceVars == <<raised, raises>>
intmuxVars == <<muxVars, deviceVars, nvicVars, nvic_pending, canVars, mainVars, isrVars>>

MuxTypeOK ==
    /\ enabled \subseteq Source /\ raised \subseteq Source
    /\ raises \in [Source -> 0..MaxRaises]
    /\ handler \in [Source -> {NoHandler, "can", "mbox"}]
    /\ vector \in [Out -> {"default", "intmux", "can"}]
    /\ nvic_on \subseteq Out /\ nvic_pending \subseteq Out
    /\ priority \in [Out -> 0..1]
    /\ irq_on \in BOOLEAN
    /\ initialized \subseteq CanSource /\ configured \subseteq Out
    /\ main_pc \in {"boot", "mask", "controller", "output", "source",
                    "irq", "handler", "disable", "enable", "loop"}
    /\ dev \in 1..(Len(Can) + 1)
    /\ active \in Seq(Out)
    /\ \A o \in Out : todo[o] \subseteq Source

\* Reset_Handler masks interrupts; a register of the multiplexer and the NVIC
\* may hold what the boot loader or a previous run left.
MuxInit == /\ enabled \in SUBSET Left
           /\ raised = {} /\ raises = [s \in Source |-> 0]
           /\ handler = [s \in Source |-> NoHandler]
           /\ vector = [o \in Out |-> "default"]
           /\ nvic_on = {}
           /\ nvic_pending \in SUBSET {OutOf(s) : s \in Left}
           /\ priority = [o \in Out |-> 0]
           /\ irq_on = FALSE
           /\ initialized = {} /\ configured = {}
           /\ main_pc = "boot" /\ dev = 1
           /\ active = <<>> /\ todo = [o \in Out |-> {}]

SourcesOf(o) == {s \in Source : OutOf(s) = o}

\* INT_FLAG_GROUP of an output: its lines that are raised and enabled.
Flags(o) == raised \intersect enabled \intersect SourcesOf(o)

\* An output that a line holds is pending again as soon as it is cleared.
Pending(cleared, lines, on) ==
    (nvic_pending \ cleared) \union {OutOf(s) : s \in lines \intersect on}

\* The output whose handler the core takes next, if any: of those pending the
\* one of highest priority, the smaller number, and of these the first.
Takes(o) ==
    /\ irq_on
    /\ o \in nvic_pending \intersect nvic_on
    /\ \A p \in nvic_pending \intersect nvic_on :
           priority[o] * Outs + o <= priority[p] * Outs + p
    /\ active # <<>> => priority[o] < priority[Head(active)]

MainRuns == active = <<>> /\ ~\E o \in Out : Takes(o)

-----------------------------------------------------------------------------
(* Broken variants of the actions below, for checking that the properties  *)
(* notice; the specification does not use them.                            *)

\* MainMaskCan: every NVIC interrupt is switched off and cleared.
MainMaskAll ==
    /\ MainRuns
    /\ main_pc = "mask"
    /\ enabled' = enabled \ CanSource
    /\ nvic_on' = {}
    /\ nvic_pending' = Pending(Out, raised, enabled')
    /\ main_pc' = "controller"
    /\ UNCHANGED <<handler, deviceVars, vector, priority, canVars, irq_on, dev,
                   isrVars>>

\* IsrTake: every output reads the flags of the first.
IsrTakeFirst(o) ==
    /\ Takes(o)
    /\ vector[o] # "default"
    /\ todo' = [todo EXCEPT ![o] = Flags(0)]
    /\ active' = <<o>> \o active
    /\ nvic_pending' = nvic_pending \ {o}
    /\ UNCHANGED <<muxVars, deviceVars, nvicVars, canVars, mainVars>>

-----------------------------------------------------------------------------
(* Devices.                                                                *)

Raise(s) ==
    /\ s \notin raised /\ raises[s] < MaxRaises
    /\ raised' = raised \union {s}
    /\ raises' = [raises EXCEPT ![s] = @ + 1]
    /\ nvic_pending' = Pending({}, {s}, enabled)
    /\ UNCHANGED <<muxVars, nvicVars, canVars, mainVars, isrVars>>

-----------------------------------------------------------------------------
(* main.c.                                                                 *)

MainIntmuxInit ==
    /\ MainRuns
    /\ main_pc = "boot"
    /\ vector' = [o \in Out |-> "intmux"]
    /\ nvic_on' = Out
    /\ main_pc' = "mask"
    /\ UNCHANGED <<muxVars, deviceVars, nvic_pending, priority, canVars, irq_on,
                   dev, isrVars>>

\* CANMaskBootEnabledNVICIrqs
MainMaskCan ==
    /\ MainRuns
    /\ main_pc = "mask"
    /\ enabled' = enabled \ CanSource
    /\ nvic_pending' = Pending({OutOf(s) : s \in CanSource}, raised, enabled')
    /\ main_pc' = "controller"
    /\ UNCHANGED <<handler, deviceVars, nvicVars, canVars, irq_on, dev, isrVars>>

\* CANInitController; HAL_CANFD_Init or HAL_CANFD_Start may fail, and
\* BSP_CAN_Init goes on with the next controller.
MainController ==
    /\ MainRuns
    /\ main_pc = "controller" /\ dev <= Len(Can)
    /\ \/ /\ handler' = [handler EXCEPT ![Can[dev]] = "can"]
          /\ initialized' = initialized \union {Can[dev]}
          /\ main_pc' = "output"
          /\ dev' = dev
       \/ /\ main_pc' = "controller"
          /\ dev' = dev + 1
          /\ UNCHANGED <<handler, initialized>>
    /\ UNCHANGED <<enabled, deviceVars, nvicVars, nvic_pending, configured, irq_on,
                   isrVars>>

\* CANConfigIntmuxOutputIRQ
MainConfigOutput ==
    /\ MainRuns
    /\ main_pc = "output"
    /\ LET o == OutOf(Can[dev]) IN
       \/ /\ o \in configured
          /\ UNCHANGED <<enabled, nvicVars, nvic_pending, configured>>
       \/ /\ o \notin configured
          /\ enabled' = enabled \ SourcesOf(o)
          /\ vector' = [vector EXCEPT ![o] = "can"]
          /\ nvic_pending' = Pending({o}, raised, enabled')
          /\ priority' = [priority EXCEPT ![o] = 1]
          /\ nvic_on' = nvic_on \union {o}
          /\ configured' = configured \union {o}
    /\ main_pc' = "source"
    /\ UNCHANGED <<handler, deviceVars, initialized, irq_on, dev, isrVars>>

\* HAL_INTMUX_EnableIRQ of the controller, end of the loop's body.
MainSource ==
    /\ MainRuns
    /\ main_pc = "source"
    /\ enabled' = enabled \union {Can[dev]}
    /\ nvic_pending' = Pending({}, raised, enabled')
    /\ main_pc' = "controller" /\ dev' = dev + 1
    /\ UNCHANGED <<handler, deviceVars, nvicVars, canVars, irq_on, isrVars>>

MainEnableIrq ==
    /\ MainRuns
    /\ main_pc = "controller" /\ dev = Len(Can) + 1
    /\ irq_on' = TRUE
    /\ main_pc' = "handler"
    /\ UNCHANGED <<muxVars, deviceVars, nvicVars, nvic_pending, canVars, dev,
                   isrVars>>

\* platform_init_interrupt
MainMboxHandler ==
    /\ MainRuns
    /\ main_pc = "handler"
    /\ handler' = [handler EXCEPT ![Mbox] = "mbox"]
    /\ main_pc' = "disable"
    /\ UNCHANGED <<enabled, deviceVars, nvicVars, nvic_pending, canVars, irq_on,
                   dev, isrVars>>

\* env_disable_interrupt and env_enable_interrupt in rpmsg_lite_remote_init.
MainMboxDisable ==
    /\ MainRuns
    /\ main_pc = "disable"
    /\ enabled' = enabled \ {Mbox}
    /\ main_pc' = "enable"
    /\ UNCHANGED <<handler, deviceVars, nvicVars, nvic_pending, canVars, irq_on,
                   dev, isrVars>>

MainMboxEnable ==
    /\ MainRuns
    /\ main_pc = "enable"
    /\ enabled' = enabled \union {Mbox}
    /\ nvic_pending' = Pending({}, raised, enabled')
    /\ main_pc' = "loop"
    /\ UNCHANGED <<handler, deviceVars, nvicVars, canVars, irq_on, dev, isrVars>>

-----------------------------------------------------------------------------
(* Interrupts.  An output of higher priority preempts the handler of        *)
(* another.                                                                *)

\* INTMUX_Dispatch reads the flags of its output once.
IsrTake(o) ==
    /\ Takes(o)
    /\ vector[o] # "default"
    /\ todo' = [todo EXCEPT ![o] = Flags(o)]
    /\ active' = <<o>> \o active
    /\ nvic_pending' = nvic_pending \ {o}
    /\ UNCHANGED <<muxVars, deviceVars, nvicVars, canVars, mainVars>>

\* A handler serves its device; a source without handler is passed over, and
\* so is a controller that CANINTMUXAdapter finds not initialized.
Serves(s) == \/ handler[s] = "mbox"
             \/ handler[s] = "can" /\ s \in initialized

IsrDispatch ==
    /\ active # <<>>
    /\ ~\E o \in Out : Takes(o)
    /\ LET o == Head(active)  s == Min(todo[o]) IN
       /\ todo[o] # {}
       /\ todo' = [todo EXCEPT ![o] = @ \ {s}]
       /\ raised' = IF Serves(s) THEN raised \ {s} ELSE raised
    /\ UNCHANGED <<muxVars, raises, nvicVars, nvic_pending, canVars, mainVars, active>>

IsrReturn ==
    /\ active # <<>>
    /\ ~\E o \in Out : Takes(o)
    /\ LET o == Head(active) IN
       /\ todo[o] = {}
       /\ active' = Tail(active)
       /\ nvic_pending' = IF Flags(o) = {} THEN nvic_pending
                                           ELSE nvic_pending \union {o}
    /\ UNCHANGED <<muxVars, deviceVars, nvicVars, canVars, mainVars, todo>>

-----------------------------------------------------------------------------
Main == \/ MainIntmuxInit \/ MainMaskCan \/ MainController
        \/ MainConfigOutput \/ MainSource \/ MainEnableIrq
        \/ MainMboxHandler \/ MainMboxDisable \/ MainMboxEnable

MuxNext == \/ \E s \in Left \union CanSource \union {Mbox} : Raise(s)
           \/ Main
           \/ \E o \in Out : IsrTake(o)
           \/ IsrDispatch
           \/ IsrReturn

\* The main loop and the handlers run whenever nothing of higher priority
\* does.
Fairness == /\ WF_intmuxVars(Main)
            /\ WF_intmuxVars(IsrDispatch) /\ WF_intmuxVars(IsrReturn)
            /\ \A o \in Out : WF_intmuxVars(IsrTake(o))

MuxSpec == MuxInit /\ [][MuxNext]_intmuxVars /\ Fairness

-----------------------------------------------------------------------------
(* Properties.                                                             *)

Drivers == initialized \union {Mbox}

\* When the main loop is reached, every driver that came up is connected from
\* its source to the core, whatever the others did to the shared registers
\* after it: BSP_CAN_Init disables whole outputs and used to switch off all of
\* the NVIC, the mailbox's output included.
DriversConnected ==
    main_pc = "loop" =>
        \A s \in Drivers : /\ s \in enabled /\ handler[s] # NoHandler
                           /\ OutOf(s) \in nvic_on

\* Start-up ends once a controller has come up: no source that was left enabled
\* on its output, and that nobody serves, keeps the core in INTMUX_Dispatch
\* when __enable_irq has run.  (When no controller comes up, the output is
\* not configured and such a source does.)
StartsUp == initialized # {} ~> main_pc = "loop"

\* An interrupt of a driver that came up is served, although the outputs share
\* registers, their handlers preempt each other and the flags are read once.
Served == \A s \in CanSource \union {Mbox} :
              (main_pc = "loop" /\ initialized # {}
                 /\ s \in raised \intersect Drivers) ~> s \notin raised
=============================================================================
