------------------------------ MODULE CanReceive -----------------------------
(***************************************************************************)
(* The receive path of one CAN controller of bsp_can.c: the start-up by    *)
(* BSP_CAN_Init, the interrupt handler CANCommonIRQHandler that drains the *)
(* receive FIFO and dispatches each frame to the registered instances,     *)
(* and what the main loop may do meanwhile: CANRegister and                *)
(* CANSetInterruptEnable.                                                  *)
(*                                                                         *)
(* The bus acts between any two steps.  The handler preempts the main loop *)
(* between any two of its register or memory accesses and runs to its end. *)
(* A frame is its identifier and the instances that are due to get it; the *)
(* payload is left out.                                                    *)
(***************************************************************************)
EXTENDS Integers, Sequences

CONSTANTS Ids,          \* standard identifiers on the bus
          Ext,          \* stands for every extended frame
          AnyId,        \* CAN_ID_ANY
          FifoDepth,    \* frames the receive FIFO holds
          DrainLimit,   \* CAN_RX_DRAIN_LIMIT
          Slots,        \* CAN_MX_REGISTER_CNT
          BootMasks,    \* arguments of CANSetInterruptEnable before
                        \* BSP_CAN_Init, or the default
          RunMasks      \* its arguments at run time, {} when it is not called

ASSUME DepthAssumption ==
    {FifoDepth, DrainLimit, Slots} \subseteq Nat \ {0}
ASSUME IdAssumption == /\ Ext \notin Ids /\ AnyId \notin Ids
                       /\ Ext # AnyId
ASSUME MaskAssumption == BootMasks \union RunMasks \subseteq SUBSET {"RX", "TX"}

VARIABLES
    running,      \* the controller has left reset (HAL_CANFD_Start)
    fifo,         \* the receive FIFO: the identifier of each frame, and
                  \* the instances it matched when it was stored
    INT,          \* interrupt bits latched: "rx" CAN_RX_IRQ_UNMASK_BITS,
                  \* "str" RXSTR_TIMEOUT and ISM_WTM, "tx"
                  \* CAN_TX_IRQ_UNMASK_BITS, "rcy" BUSOFF_RCY
    unmasked,     \* the bits INT_MASK lets through
    irq_on,       \* the controller's interrupt reaches the core
    s_mask,       \* s_canInterruptEnableMasks of this controller
    idx, can_instance, \* the table of instances, by their rx_id
    main_pc,
    reg,          \* the slot and rx_id that CANRegister is publishing
    isr_pc, isr,  \* CANCommonIRQHandler and its local isr
    guard,        \* frames CANDrainRxFifo has taken
    missed        \* instances that a frame due to them did not reach

busVars == <<running, fifo, INT>>
isrVars == <<isr_pc, isr, guard, missed>>
tableVars == <<idx, can_instance, reg>>
rxVars == <<busVars, isrVars, tableVars, unmasked, irq_on, s_mask, main_pc>>

Bits == {"rx", "str", "tx", "rcy"}
RxSlot == 0..(Slots - 1)
NoInstance == "NULL"
ASSUME NullAssumption == NoInstance \notin Ids \union {AnyId}
Frame == [id : Ids \union {Ext}, due : SUBSET RxSlot]

RxTypeOK ==
    /\ running \in BOOLEAN /\ irq_on \in BOOLEAN
    /\ fifo \in Seq(Frame) /\ Len(fifo) <= FifoDepth
    /\ INT \subseteq Bits /\ unmasked \subseteq Bits /\ isr \subseteq Bits
    /\ s_mask \subseteq {"RX", "TX"}
    /\ idx \in 0..Slots
    /\ can_instance \in [RxSlot -> Ids \union {AnyId, NoInstance}]
    /\ main_pc \in {"boot", "started", "cleared", "irqs_off", "idle",
                    "publish", "apply"}
    /\ reg.slot \in 0..Slots
    /\ isr_pc \in {"idle", "clear", "drain"}
    /\ guard \in 0..DrainLimit
    /\ missed \subseteq RxSlot

RxInit == /\ running = FALSE /\ fifo = <<>>
          /\ INT = {} /\ unmasked = {} /\ irq_on = FALSE
          /\ s_mask \in BootMasks
          /\ idx = 0 /\ can_instance = [s \in RxSlot |-> NoInstance]
          /\ main_pc = "boot" /\ reg = [slot |-> 0, id |-> NoInstance]
          /\ isr_pc = "idle" /\ isr = {} /\ guard = 0
          /\ missed = {}

\* An instance matches the frames of its rx_id; CAN_ID_ANY matches every
\* frame.  Only standard frames are dispatched.
Accepts(rx_id, id) == id # Ext /\ rx_id \in {AnyId, id}
Targets(id) == {s \in RxSlot : s < idx /\ Accepts(can_instance[s], id)}

\* CANGetRuntimeInterruptUnmaskBits
UnmaskBits == (IF "RX" \in s_mask THEN {"rx"} ELSE {}) \union
              (IF "TX" \in s_mask THEN {"tx"} ELSE {})

-----------------------------------------------------------------------------
(* Broken variants of the actions below, for checking that the properties  *)
(* notice; the specification does not use them.                            *)

\* IsrClear: every bit is cleared, not only the bits that were read.
IsrClearAll ==
    /\ isr_pc = "clear"
    /\ INT' = {}
    /\ unmasked' = IF "rcy" \in isr THEN Bits \ {"str"} ELSE unmasked
    /\ IF "RX" \in s_mask /\ isr \intersect {"rx", "str"} # {}
         THEN isr_pc' = "drain"
         ELSE isr_pc' = "idle"
    /\ isr' = {}
    /\ UNCHANGED <<running, fifo, tableVars, irq_on, s_mask, main_pc, guard,
                   missed>>

\* IsrReceive: without CAN_RX_DRAIN_LIMIT.
IsrReceiveForever ==
    /\ isr_pc = "drain"
    /\ fifo # <<>>
    /\ fifo' = Tail(fifo)
    /\ missed' = missed \union (Head(fifo).due \ Targets(Head(fifo).id))
    /\ UNCHANGED <<running, INT, tableVars, unmasked, irq_on,
                   s_mask, main_pc, isr_pc, isr, guard>>

-----------------------------------------------------------------------------
(* The bus and the controller.                                             *)

\* A frame arrives.  A full FIFO drops it.  Either way an event bit is set.
Receive(id) ==
    /\ running
    /\ INT' = INT \union {"rx"}
    /\ fifo' = IF Len(fifo) < FifoDepth
                 THEN Append(fifo, [id |-> id, due |-> Targets(id)])
                 ELSE fifo
    /\ UNCHANGED <<running, isrVars, tableVars, unmasked, irq_on, s_mask,
                   main_pc>>

\* A frame has stayed in the FIFO; a transmission has ended or failed; the
\* controller has recovered from bus-off.
Event(bit) ==
    /\ running
    /\ bit = "str" => fifo # <<>>
    /\ INT' = INT \union {bit}
    /\ UNCHANGED <<running, fifo, isrVars, tableVars, unmasked,
                   irq_on, s_mask, main_pc>>

-----------------------------------------------------------------------------
(* The main loop.                                                          *)

MainRuns == isr_pc = "idle"

\* CANInitController: HAL_CANFD_Init and HAL_CANFD_Start.
MainStart ==
    /\ MainRuns /\ main_pc = "boot"
    /\ running' = TRUE
    /\ unmasked' = Bits \ {"str"}
    /\ main_pc' = "started"
    /\ UNCHANGED <<fifo, INT, isrVars, tableVars, irq_on,
                   s_mask>>

\* CANInitController: everything masked, what is latched is cleared.
MainClear ==
    /\ MainRuns /\ main_pc = "started"
    /\ unmasked' = {}
    /\ INT' = {}
    /\ main_pc' = "cleared"
    /\ UNCHANGED <<running, fifo, isrVars, tableVars, irq_on,
                   s_mask>>

\* BSP_CAN_Init: the INTMUX lets the controller through; CANApplyInterruptMask.
MainUnmask ==
    /\ MainRuns /\ main_pc = "cleared"
    /\ unmasked' = UnmaskBits
    /\ main_pc' = "irqs_off"
    /\ UNCHANGED <<busVars, isrVars, tableVars, irq_on, s_mask>>

\* __enable_irq in main.
MainEnableIrq ==
    /\ MainRuns /\ main_pc = "irqs_off"
    /\ irq_on' = TRUE
    /\ main_pc' = "idle"
    /\ UNCHANGED <<busVars, isrVars, tableVars, unmasked, s_mask>>

\* CANRegister.  can_instance[idx++] = instance is two stores, in the order
\* the compiler chooses.
MainRegister(id) ==
    /\ MainRuns /\ main_pc = "idle"
    /\ idx < Slots
    /\ \A s \in RxSlot : s < idx => can_instance[s] # id
    /\ reg' = [slot |-> idx, id |-> id]
    /\ \/ idx' = idx + 1 /\ UNCHANGED can_instance
       \/ can_instance' = [can_instance EXCEPT ![idx] = id] /\ UNCHANGED idx
    /\ main_pc' = "publish"
    /\ UNCHANGED <<busVars, isrVars, unmasked, irq_on, s_mask>>

MainPublish ==
    /\ MainRuns /\ main_pc = "publish"
    /\ idx' = reg.slot + 1
    /\ can_instance' = [can_instance EXCEPT ![reg.slot] = reg.id]
    /\ reg' = [slot |-> 0, id |-> NoInstance]
    /\ main_pc' = "idle"
    /\ UNCHANGED <<busVars, isrVars, unmasked, irq_on, s_mask>>

\* CANSetInterruptEnable: the mask is stored, then applied.
MainSetMask(mask) ==
    /\ MainRuns /\ main_pc = "idle"
    /\ s_mask' = mask
    /\ main_pc' = "apply"
    /\ UNCHANGED <<busVars, isrVars, tableVars, unmasked, irq_on>>

MainApplyMask ==
    /\ MainRuns /\ main_pc = "apply"
    /\ unmasked' = UnmaskBits
    /\ main_pc' = "idle"
    /\ UNCHANGED <<busVars, isrVars, tableVars, irq_on, s_mask>>

-----------------------------------------------------------------------------
(* CANCommonIRQHandler.                                                    *)

\* HAL_CANFD_GetInterrupt reads INT.
IsrRead ==
    /\ isr_pc = "idle"
    /\ irq_on /\ INT \intersect unmasked # {}
    /\ isr' = INT
    /\ isr_pc' = "clear"
    /\ UNCHANGED <<busVars, tableVars, unmasked, irq_on, s_mask, main_pc,
                   guard, missed>>

\* HAL_CANFD_GetInterrupt clears the bits it has read, after
\* HAL_CANFD_BusOffRcy if the controller has recovered from bus-off.  The
\* FIFO is drained if receive interrupts are enabled and one was read.
IsrClear ==
    /\ isr_pc = "clear"
    /\ INT' = INT \ isr
    /\ unmasked' = IF "rcy" \in isr THEN Bits \ {"str"} ELSE unmasked
    /\ IF "RX" \in s_mask /\ isr \intersect {"rx", "str"} # {}
         THEN isr_pc' = "drain"
         ELSE isr_pc' = "idle"
    /\ isr' = {}
    /\ UNCHANGED <<running, fifo, tableVars, irq_on, s_mask, main_pc, guard,
                   missed>>

\* CANDrainRxFifo: one frame is taken and dispatched to all that match.
IsrReceive ==
    /\ isr_pc = "drain"
    /\ guard < DrainLimit /\ fifo # <<>>
    /\ guard' = guard + 1
    /\ fifo' = Tail(fifo)
    /\ missed' = missed \union (Head(fifo).due \ Targets(Head(fifo).id))
    /\ UNCHANGED <<running, INT, tableVars, unmasked, irq_on,
                   s_mask, main_pc, isr_pc, isr>>

IsrReturn ==
    /\ isr_pc = "drain"
    /\ guard = DrainLimit \/ fifo = <<>>
    /\ isr_pc' = "idle"
    /\ guard' = 0
    /\ UNCHANGED <<busVars, tableVars, unmasked, irq_on, s_mask, main_pc, isr,
                   missed>>

-----------------------------------------------------------------------------
Bus == \/ \E id \in Ids \union {Ext} : Receive(id)
       \/ \E bit \in {"str", "tx", "rcy"} : Event(bit)

Main == \/ MainStart \/ MainClear \/ MainUnmask \/ MainEnableIrq
        \/ \E id \in Ids \union {AnyId} : MainRegister(id)
        \/ MainPublish
        \/ \E mask \in RunMasks : MainSetMask(mask)
        \/ MainApplyMask

Isr == IsrRead \/ IsrClear \/ IsrReceive \/ IsrReturn

RxNext == Bus \/ Main \/ Isr

RxSpec == RxInit /\ [][RxNext]_rxVars

\* The handler runs at the core's speed once the interrupt is taken.
RxFairSpec == RxSpec /\ WF_rxVars(Isr)

-----------------------------------------------------------------------------
(* Properties.                                                             *)

\* Neither the handler nor a call of the main loop is under way, and no
\* interrupt is pending.
Quiet == irq_on /\ isr_pc = "idle" /\ main_pc = "idle"
                /\ INT \intersect unmasked = {}

\* While receive interrupts are enabled, at rest every frame stored for an
\* instance has reached it: none waits in the FIFO without an interrupt to
\* fetch it, and none was taken without being given to all it matches.
\* BSP_CAN.md: the callback of a matching instance is called when a frame is
\* received.
Delivered ==
    /\ missed = {}
    /\ Quiet /\ "RX" \in s_mask =>
           \A k \in 1..Len(fifo) : fifo[k].due = {}

\* The handler returns even if frames arrive as fast as it takes them: that
\* is what CAN_RX_DRAIN_LIMIT is for.
HandlerReturns == isr_pc # "idle" ~> isr_pc = "idle"

\* While CAN_INTERRUPT_TX is not enabled, INT_MASK keeps the transmit
\* interrupts out.  BSP_CAN.md: to turn the TX interrupts of a controller off
\* and keep the receive callbacks, pass CAN_INTERRUPT_RX.
TxMaskKept == Quiet /\ "TX" \notin s_mask => "tx" \notin unmasked

\* The state invariants of the receive side together.
ReceiveSafe == RxTypeOK /\ Delivered
=============================================================================
