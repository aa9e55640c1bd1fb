------------------------------ MODULE Telemetry ------------------------------
(***************************************************************************)
(* The direction from the MCU to the application core: rpmsg_lite_send     *)
(* with its timeout, the transmit virtqueue, the mailbox MBOX0 that        *)
(* platform_notify rings for it, and a master that receives with the       *)
(* handlers of this repository (HAL_MBOX_IrqHandler around                 *)
(* rpmsg_lite_rx_callback).  The main loop of the firmware sends a report  *)
(* every 2 ms without waiting; rpmsg_perf.c waits with RL_BLOCK.           *)
(*                                                                         *)
(* Nothing else of the MCU touches the transmit queue, so its interrupts   *)
(* do not appear.  Time passes only in HAL_DelayMs.                        *)
(***************************************************************************)
EXTENDS Integers, Sequences

CONSTANTS N,         \* RL_BUFFER_COUNT
          MsgMod,    \* messages are numbered modulo MsgMod
          TickMod,   \* tick_count wraps here: 2^32
          Timeouts,  \* arguments of rpmsg_lite_send
          Late       \* messages the MCU may send between the master's last
                     \* look at the queue and its clearing of the doorbell

ASSUME NAssumption == N \in Nat \ {0}
ASSUME MsgModAssumption == MsgMod \in Nat /\ MsgMod > N + 1
ASSUME TimeoutAssumption == TickMod \in Nat /\ Timeouts \subseteq 0..(TickMod - 1)
ASSUME LateAssumption == Late \in Nat

RL_MS_PER_INTERVAL == 1
Desc == 0..(N - 1)
NoDesc == N
Seqno == 0..(MsgMod - 1)

VARIABLES
    tx_avail, tx_used, tx_master, tx_remote, \* the virtqueue
    tx_data,                   \* the message in each buffer
    send_pc, msg, buf,         \* rpmsg_lite_format_message
    timeout, tick_count, waited,
    late,                      \* messages sent in the master's window
    b2a_status,                \* MBOX0 doorbell to the master
    isr_pc, isr_desc,          \* handler of the master
    accepted                   \* messages sent with RL_SUCCESS and not yet
                               \* handled, oldest first

queue == <<tx_avail, tx_used, tx_master, tx_remote>>
callVars == <<timeout, tick_count, waited>>
sendVars == <<send_pc, msg, buf>>
masterVars == <<isr_pc, isr_desc>>
teleVars == <<queue, tx_data, sendVars, callVars, late, b2a_status, masterVars,
          accepted>>

TxVq == INSTANCE BufferExchange
    WITH avail <- tx_avail, used <- tx_used, master <- tx_master,
         remote <- tx_remote

TeleTypeOK ==
    /\ tx_avail \in Seq(Desc) /\ tx_used \in Seq(Desc)
    /\ tx_data \in [Desc -> Seqno]
    /\ send_pc \in {"idle", "alloc", "sleep", "fill", "kick"}
    /\ msg \in Seqno /\ buf \in Desc \union {NoDesc}
    /\ tx_remote = IF send_pc = "fill" THEN {buf} ELSE {}
    /\ timeout \in Timeouts
    /\ tick_count \in 0..(TickMod - 1) /\ waited \in 0..TickMod
    /\ late \in 0..Late
    /\ b2a_status \in BOOLEAN
    /\ isr_pc \in {"idle", "rx", "msg", "clear"}
    /\ tx_master = IF isr_pc = "msg" THEN {isr_desc} ELSE {}
    /\ accepted \in Seq(Seqno)

\* The master has stocked the queue and the link is up.
TeleInit == /\ tx_avail = [k \in 1..N |-> k - 1] /\ tx_used = <<>>
            /\ tx_master = {} /\ tx_remote = {}
            /\ tx_data = [b \in Desc |-> 0]
            /\ send_pc = "idle" /\ msg = 0 /\ buf = NoDesc
            /\ timeout \in Timeouts /\ tick_count = 0 /\ waited = 0
            /\ late = 0
            /\ b2a_status = FALSE
            /\ isr_pc = "idle" /\ isr_desc = NoDesc
            /\ accepted = <<>>

-----------------------------------------------------------------------------
(* Broken variants of the definitions below, for checking that the         *)
(* properties notice; the specification does not use them.                 *)

\* SendFill: the buffer is handed over before the message is in it.
SendFillEmpty ==
    /\ send_pc = "fill"
    /\ late < Late \/ isr_pc # "clear"
    /\ late' = IF isr_pc = "clear" THEN late + 1 ELSE late
    /\ TxVq!Return(buf)
    /\ accepted' = Append(accepted, msg)
    /\ buf' = NoDesc /\ send_pc' = "kick"
    /\ UNCHANGED <<tx_data, msg, callVars, b2a_status, masterVars>>

\* HandlerFree: one message for each doorbell.
HandlerFreeOne ==
    /\ isr_pc = "msg"
    /\ TxVq!Post(isr_desc)
    /\ accepted' = Tail(accepted)
    /\ isr_desc' = NoDesc /\ isr_pc' = "clear"
    /\ UNCHANGED <<tx_data, sendVars, callVars, late, b2a_status>>

-----------------------------------------------------------------------------
(* The MCU: rpmsg_lite_send, and the loop around it.                       *)

\* A report has a new number whether or not the last one was sent.
SendCall(t) ==
    /\ send_pc = "idle"
    /\ timeout' = t /\ tick_count' = 0 /\ waited' = 0
    /\ msg' = (msg + 1) % MsgMod
    /\ send_pc' = "alloc"
    /\ UNCHANGED <<queue, tx_data, buf, late, b2a_status, masterVars,
                   accepted>>

\* vq_tx_alloc_remote finds a buffer, at first or after some waiting.
GetBuffer ==
    /\ TxVq!Take
    /\ buf' = Head(tx_avail)
    /\ send_pc' = "fill"

\* The first attempt: RL_ERR_NO_MEM at once when the call must not wait.
SendAlloc ==
    /\ send_pc = "alloc"
    /\ \/ GetBuffer
       \/ /\ tx_avail = <<>>
          /\ send_pc' = IF timeout = 0 THEN "idle" ELSE "sleep"
          /\ UNCHANGED <<queue, buf>>
    /\ UNCHANGED <<tx_data, msg, callVars, late, b2a_status, masterVars,
                   accepted>>

\* A turn of the waiting loop: sleep, try again, count the interval.
GivesUp(tick) == tick >= timeout
SendSleep ==
    /\ send_pc = "sleep"
    /\ tick_count' = (tick_count + RL_MS_PER_INTERVAL) % TickMod
    /\ waited' = waited + RL_MS_PER_INTERVAL
    /\ \/ GetBuffer
       \/ /\ tx_avail = <<>>
          /\ send_pc' = IF GivesUp(tick_count') THEN "idle" ELSE "sleep"
          /\ UNCHANGED <<queue, buf>>
    /\ UNCHANGED <<tx_data, msg, timeout, late, b2a_status, masterVars,
                   accepted>>

\* The message is copied and the buffer handed over by vq_tx_remote.
SendFill ==
    /\ send_pc = "fill"
    /\ late < Late \/ isr_pc # "clear"
    /\ late' = IF isr_pc = "clear" THEN late + 1 ELSE late
    /\ tx_data' = [tx_data EXCEPT ![buf] = msg]
    /\ TxVq!Return(buf)
    /\ accepted' = Append(accepted, msg)
    /\ buf' = NoDesc /\ send_pc' = "kick"
    /\ UNCHANGED <<msg, callVars, b2a_status, masterVars>>

\* virtqueue_kick: a doorbell that is still pending is not rung again, and
\* platform_notify does not look at HAL_BUSY.
SendKick ==
    /\ send_pc = "kick"
    /\ b2a_status' = TRUE
    /\ send_pc' = "idle"
    /\ UNCHANGED <<queue, tx_data, msg, buf, callVars, late, masterVars,
                   accepted>>

-----------------------------------------------------------------------------
(* The master's mailbox interrupt.                                         *)

HandlerEnter ==
    /\ isr_pc = "idle" /\ b2a_status
    /\ isr_pc' = "rx"
    /\ UNCHANGED <<queue, tx_data, sendVars, callVars, late, b2a_status,
                   isr_desc, accepted>>

\* rpmsg_lite_rx_callback: take messages until the queue is empty.
HandlerTake ==
    /\ isr_pc = "rx"
    /\ IF tx_used = <<>>
         THEN isr_pc' = "clear" /\ UNCHANGED <<queue, isr_desc>>
         ELSE /\ TxVq!Reclaim
              /\ isr_desc' = Head(tx_used) /\ isr_pc' = "msg"
    /\ UNCHANGED <<tx_data, sendVars, callVars, late, b2a_status, accepted>>

\* The endpoint's callback is done with the message; vq_rx_free_master.
HandlerFree ==
    /\ isr_pc = "msg"
    /\ TxVq!Post(isr_desc)
    /\ accepted' = Tail(accepted)
    /\ isr_desc' = NoDesc /\ isr_pc' = "rx"
    /\ UNCHANGED <<tx_data, sendVars, callVars, late, b2a_status>>

\* MBOX_ChanIntStClear comes after the callback.
HandlerClear ==
    /\ isr_pc = "clear"
    /\ b2a_status' = FALSE
    /\ late' = 0
    /\ isr_pc' = "idle"
    /\ UNCHANGED <<queue, tx_data, sendVars, callVars, isr_desc, accepted>>

SendNext == \/ \E t \in Timeouts : SendCall(t)
            \/ SendAlloc \/ SendSleep \/ SendFill \/ SendKick
HandlerNext == HandlerEnter \/ HandlerTake \/ HandlerFree \/ HandlerClear
TeleNext == SendNext \/ HandlerNext

TeleSpec == TeleInit /\ [][TeleNext]_teleVars

\* The main loop reports for ever; the master serves its interrupts.
TeleFairSpec == TeleSpec /\ WF_teleVars(SendNext) /\ WF_teleVars(HandlerNext)

-----------------------------------------------------------------------------
(* Properties.                                                             *)

\* The buffers on their way to the master, oldest first.
Outstanding == (IF isr_pc = "msg" THEN <<isr_desc>> ELSE <<>>) \o tx_used

\* A report for which rpmsg_lite_send returned RL_SUCCESS reaches the master
\* once, complete, and in order; a refused one never does.  The two cores
\* share nothing but the rings for this.
AcceptedArrive ==
    accepted = [k \in DOMAIN Outstanding |-> tx_data[Outstanding[k]]]

\* rpmsg_lite_send refuses when the time it was given has passed, neither
\* earlier nor later, also for RL_BLOCK, the largest value of tick_count.
OnTime ==
    [][(send_pc \in {"alloc", "sleep"} /\ send_pc' = "idle")
         => waited' = timeout]_teleVars

\* Telemetry keeps flowing: the master handles reports for ever, and as they
\* are in order, every one that was accepted.  A queue that is full while its
\* doorbell was dropped would be the end of it, because rpmsg_lite_send rings
\* only when it has found a buffer: this is why Late must be less than N.
Flows == []<>(isr_pc = "msg")
=============================================================================
