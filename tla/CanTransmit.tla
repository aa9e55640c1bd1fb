----------------------------- MODULE CanTransmit -----------------------------
(***************************************************************************)
(* The transmit path of the CAN controllers as DJIMotorControl uses it: in *)
(* every control period one frame per enabled sender group goes through    *)
(* CANTransmit and HAL_CANFD_Transmit into one of the two transmit         *)
(* requests of the group's controller, while the bus empties them.         *)
(*                                                                         *)
(* A frame is its group and the number of the period whose set-points it   *)
(* carries, modulo 2.                                                      *)
(***************************************************************************)
EXTENDS Integers, FiniteSets

CONSTANTS MaxEnabled,    \* most groups enabled on one controller
          BusKeepsUp     \* the bus has sent what is pending before the next
                         \* period begins

ASSUME MaxEnabledAssumption == MaxEnabled \in 1..3
ASSUME BusAssumption == BusKeepsUp \in BOOLEAN

TxGroup == 0..5                  \* sender_assignment
Controller == {0, 1}
controller(g) == g \div 3        \* can_handle of sender_assignment[g]
Request == {0, 1}                \* CAN_CMD_TX0_REQ, CAN_CMD_TX1_REQ
TxFrame == [group : TxGroup, period : 0..1]
NoFrame == [group |-> 6, period |-> 0]

VARIABLES
    enabled,     \* groups whose sender_enable_flag is set
    period,      \* the current control period, modulo 2
    i,           \* loop index of DJIMotorControl; 6 between two calls
    cmd,         \* local cmd of HAL_CANFD_Transmit; 2 outside it
    pending,     \* the frame of each request of each controller
    accepted,    \* the period of the last CANTransmit of a group to return 1
    on_bus       \* the period of the last frame of a group on the bus

txVars == <<enabled, period, i, cmd, pending, accepted, on_bus>>

TxTypeOK == /\ enabled \subseteq TxGroup
            /\ period \in 0..1 /\ i \in 0..6 /\ cmd \in 0..2
            /\ pending \in [Controller -> [Request -> TxFrame \union {NoFrame}]]
            /\ {accepted, on_bus} \subseteq [TxGroup -> 0..1]

AllSent == \A c \in Controller, r \in Request : pending[c][r] = NoFrame

\* MotorSenderGrouping has set the flags; no period has run.
TxInit == /\ enabled \in {E \in SUBSET TxGroup :
                            \A c \in Controller :
                               Cardinality({g \in E : controller(g) = c})
                                 <= MaxEnabled}
          /\ period = 0 /\ i = 6 /\ cmd = 2
          /\ pending = [c \in Controller |-> [r \in Request |-> NoFrame]]
          /\ accepted = [g \in TxGroup |-> 0]
          /\ on_bus = [g \in TxGroup |-> 0]

-----------------------------------------------------------------------------
(* Broken variants of the actions below, for checking that the properties  *)
(* notice; the specification does not use them.                            *)

\* SelectRequest: the state of TX0 is not looked at.
SelectFirst ==
    /\ i < 6 /\ cmd = 2
    /\ i \in enabled
    /\ cmd' = 0
    /\ UNCHANGED <<enabled, period, i, pending, accepted, on_bus>>

\* StartPeriod: the loop begins at the second group.
StartAtSecond ==
    /\ i = 6
    /\ BusKeepsUp => AllSent
    /\ period' = 1 - period
    /\ i' = 1
    /\ UNCHANGED <<enabled, cmd, pending, accepted, on_bus>>

-----------------------------------------------------------------------------
(* DJIMotorControl.                                                        *)

\* The set-points of all motors are computed and written to tx_buff.
StartPeriod ==
    /\ i = 6
    /\ BusKeepsUp => AllSent
    /\ period' = 1 - period
    /\ i' = 0
    /\ UNCHANGED <<enabled, cmd, pending, accepted, on_bus>>

SkipGroup ==
    /\ i < 6 /\ cmd = 2
    /\ i \notin enabled
    /\ i' = i + 1
    /\ UNCHANGED <<enabled, period, cmd, pending, accepted, on_bus>>

\* CANTransmit for group i.  HAL_CANFD_Transmit looks at TX0 only.
SelectRequest ==
    /\ i < 6 /\ cmd = 2
    /\ i \in enabled
    /\ cmd' = IF pending[controller(i)][0] # NoFrame THEN 1 ELSE 0
    /\ UNCHANGED <<enabled, period, i, pending, accepted, on_bus>>

\* The frame is written and requested, and HAL_OK returned, whatever the state
\* of the request.  If it was still pending, the controller keeps one of the
\* two frames.
WriteRequest ==
    LET c == controller(i)
        new == [group |-> i, period |-> period]
    IN
    /\ i < 6 /\ cmd # 2
    /\ \E f \in {new} \union ({pending[c][cmd]} \ {NoFrame}) :
          pending' = [pending EXCEPT ![c][cmd] = f]
    /\ accepted' = [accepted EXCEPT ![i] = period]
    /\ cmd' = 2
    /\ i' = i + 1
    /\ UNCHANGED <<enabled, period, on_bus>>

\* The bus takes a pending frame of a controller, in either order.
BusSends(c) ==
    \E r \in Request :
        /\ pending[c][r] # NoFrame
        /\ on_bus' = [on_bus EXCEPT
                        ![pending[c][r].group] = pending[c][r].period]
        /\ pending' = [pending EXCEPT ![c][r] = NoFrame]
        /\ UNCHANGED <<enabled, period, i, cmd, accepted>>

-----------------------------------------------------------------------------
Control == StartPeriod \/ SkipGroup \/ SelectRequest \/ WriteRequest

TxNext == Control \/ \E c \in Controller : BusSends(c)

TxSpec == TxInit /\ [][TxNext]_txVars

\* The control loop is called again and again; the bus has other nodes that
\* acknowledge, so that a pending frame is sent in the end.
TxFairSpec == /\ TxSpec
              /\ WF_txVars(Control)
              /\ \A c \in Controller : WF_txVars(BusSends(c))

-----------------------------------------------------------------------------
(* Properties.                                                             *)

\* A frame for which CANTransmit has returned 1 is on the bus or is pending
\* in a request.  bsp_can.h: 1 means that the frame is in a transmit mailbox,
\* 0 that no mailbox was free before the timeout.
AcceptedKept ==
    \A g \in TxGroup : accepted[g] # on_bus[g] =>
        \E r \in Request :
            pending[controller(g)][r] = [group |-> g, period |-> accepted[g]]

\* The set-points of every period reach the bus for every enabled group, all
\* of them before those of the next period.
EverySetPointSent ==
    \A p \in {0, 1} :
        (period = p /\ i # 6) ~> \A g \in enabled : on_bus[g] = p

=============================================================================
