------------------------------ MODULE RpmsgLink -----------------------------
(***************************************************************************)
(* The RPMsg link from the application core (the master: Linux, or the     *)
(* bare-metal master of rpmsg_lite.c) to the MCU (the remote): the receive *)
(* virtqueue of the MCU, the mailbox that rings it, the mailbox interrupt  *)
(* handler with its callbacks, and the boot sequence of RPMsg_Frame_Init.  *)
(*                                                                         *)
(* Three activities interleave.  The master runs on its own core.  On the  *)
(* MCU the interrupt handler preempts the main loop between any two steps  *)
(* and runs to its end; the master's core runs on between the steps of     *)
(* either.  The virtqueue is the exchange of BufferExchange, which         *)
(* Virtqueue implements.                                                   *)
(***************************************************************************)
EXTENDS Integers, Sequences

CONSTANTS N,                \* buffers of the virtqueue, RL_BUFFER_COUNT
          SeqMod,           \* messages are numbered modulo SeqMod
          ReadyRings,       \* the master's "ready" notification rings the
                            \* mailbox the MCU listens to (MBOX3); the kick
                            \* of rpmsg_lite_master_init rings MBOX0
          StartAfterRemote, \* the master starts after the MCU has registered
                            \* its mailbox client
          KickRetries       \* the master waits until the mailbox is free
                            \* before it rings; HAL_MBOX_SendMsg2 gives up

ASSUME NAssumption == N \in Nat \ {0}
ASSUME SeqModAssumption == SeqMod \in Nat /\ SeqMod > N + 1
ASSUME MasterAssumption ==
    {ReadyRings, StartAfterRemote, KickRetries} \subseteq BOOLEAN

Desc == 0..(N - 1)
NoDesc == N
Seqno == 0..(SeqMod - 1)
NoCmd == SeqMod            \* linux_control_cmd before the first command

VARIABLES
    rx_avail, rx_used, rx_master, rx_remote, \* the virtqueue
    rx_data,            \* the message in each buffer
    next_seq,           \* number of the next message the master writes
    master_pc, master_buf,
    a2b_status,         \* MBOX3 doorbell to the MCU is pending
    b2a_status,         \* MBOX3 doorbell to the master is pending
    a2b_inten,          \* MBOX3 client registered, its interrupt unmasked
    irq_enabled,        \* MAILBOX_BB_3 enabled in the INTMUX
    first_notify,       \* the first doorbell has been handled
    link_state,
    endpoint,           \* M0_LOCAL_EPT_ADDR is in rl_endpoints
    main_pc,
    isr_pc, isr_desc, rx_freed,
    linux_control_cmd,  \* the last command RPMsg_Frame_Recv_Callback stored
    handled             \* number of the next message rpmsg_lite_rx_callback
                        \* will be done with

queue == <<rx_avail, rx_used, rx_master, rx_remote>>
masterVars == <<rx_data, next_seq, master_pc, master_buf>>
mboxVars == <<a2b_status, b2a_status>>
bootVars == <<a2b_inten, irq_enabled, endpoint, main_pc>>
isrVars == <<first_notify, isr_pc, isr_desc, rx_freed, linux_control_cmd,
             handled>>
vars == <<queue, masterVars, mboxVars, bootVars, isrVars, link_state>>

RxVq == INSTANCE BufferExchange
    WITH avail <- rx_avail, used <- rx_used, master <- rx_master,
         remote <- rx_remote

\* The master has filled its virtqueue; the MCU is out of reset.
Init == /\ rx_avail = <<>>
        /\ rx_used = [k \in 1..N |-> k - 1]
        /\ rx_master = {} /\ rx_remote = {}
        /\ rx_data = [b \in Desc |-> 0]
        /\ next_seq = 0
        /\ master_pc = "init" /\ master_buf = NoDesc
        /\ a2b_status = FALSE /\ b2a_status = FALSE
        /\ a2b_inten = FALSE /\ irq_enabled = FALSE
        /\ first_notify = FALSE /\ link_state = 0
        /\ endpoint = FALSE
        /\ main_pc = "boot"
        /\ isr_pc = "idle" /\ isr_desc = NoDesc /\ rx_freed = FALSE
        /\ linux_control_cmd = NoCmd
        /\ handled = 0

-----------------------------------------------------------------------------
(* Broken variants of the actions below, for checking that the properties  *)
(* notice; the specification does not use them.                            *)

\* MasterPost: the buffer is handed over before the message is in it.
MasterPostEmpty ==
    /\ master_pc = "fill"
    /\ RxVq!Post(master_buf)
    /\ next_seq' = (next_seq + 1) % SeqMod
    /\ master_buf' = NoDesc
    /\ master_pc' = "kick"
    /\ UNCHANGED <<rx_data, mboxVars, bootVars, isrVars, link_state>>

\* MainRegister: the interrupt is enabled before the link state is reset.
MainRegisterEnabled ==
    /\ isr_pc = "idle"
    /\ main_pc = "boot"
    /\ a2b_status' = FALSE
    /\ a2b_inten' = TRUE
    /\ irq_enabled' = TRUE
    /\ main_pc' = "reset"
    /\ UNCHANGED <<queue, masterVars, b2a_status, endpoint, isrVars,
                   link_state>>

\* IsrEnter: first_notify is not counted, so that every doorbell passes for the
\* first and only reports the link.
IsrEnterLinkOnly ==
    /\ isr_pc = "idle"
    /\ a2b_status /\ a2b_inten /\ irq_enabled
    /\ isr_pc' = "link"
    /\ UNCHANGED <<queue, masterVars, mboxVars, bootVars, link_state,
                   first_notify, isr_desc, rx_freed, linux_control_cmd,
                   handled>>

-----------------------------------------------------------------------------
(* The master.                                                             *)

\* HAL_MBOX_SendMsg2: the message is written, which raises the status, only
\* if the previous one has been consumed; otherwise it is dropped with
\* HAL_BUSY, which platform_notify ignores.
Ring == a2b_status' = TRUE
MayRing == KickRetries => ~a2b_status

MasterReady ==
    /\ master_pc = "init"
    /\ StartAfterRemote => main_pc # "boot"
    /\ IF ReadyRings THEN MayRing /\ Ring ELSE UNCHANGED a2b_status
    /\ master_pc' = "idle"
    /\ UNCHANGED <<queue, rx_data, next_seq, master_buf, b2a_status, bootVars,
                   isrVars, link_state>>

\* rpmsg_lite_format_message on the master: take a buffer, fill it and hand
\* it over, ring.
MasterAlloc ==
    /\ master_pc = "idle"
    /\ RxVq!Reclaim
    /\ master_buf' = Head(rx_used)
    /\ master_pc' = "fill"
    /\ UNCHANGED <<rx_data, next_seq, mboxVars, bootVars, isrVars, link_state>>

MasterPost ==
    /\ master_pc = "fill"
    /\ rx_data' = [rx_data EXCEPT ![master_buf] = next_seq]
    /\ RxVq!Post(master_buf)
    /\ next_seq' = (next_seq + 1) % SeqMod
    /\ master_buf' = NoDesc
    /\ master_pc' = "kick"
    /\ UNCHANGED <<mboxVars, bootVars, isrVars, link_state>>

MasterKick ==
    /\ master_pc = "kick"
    /\ MayRing
    /\ Ring
    /\ master_pc' = "idle"
    /\ UNCHANGED <<queue, rx_data, next_seq, master_buf, b2a_status, bootVars,
                   isrVars, link_state>>

\* The master's handler clears the MCU's doorbell.
MasterAck ==
    /\ b2a_status
    /\ b2a_status' = FALSE
    /\ UNCHANGED <<queue, masterVars, a2b_status, bootVars, isrVars,
                   link_state>>

-----------------------------------------------------------------------------
(* The main loop of the MCU, from rpmsg_lite_remote_init on.               *)

\* The main loop runs only while no interrupt handler is active.
MainRuns == isr_pc = "idle"

\* platform_init_interrupt, first call: HAL_MBOX_RegisterClient clears a
\* pending doorbell and unmasks it; then rpmsg_lite_remote_init resets the
\* link state with the interrupt still disabled in the INTMUX.
MainRegister ==
    /\ MainRuns
    /\ main_pc = "boot"
    /\ a2b_status' = FALSE
    /\ a2b_inten' = TRUE
    /\ main_pc' = "reset"
    /\ UNCHANGED <<queue, masterVars, b2a_status, irq_enabled, endpoint,
                   isrVars, link_state>>

MainResetLink ==
    /\ MainRuns
    /\ main_pc = "reset"
    /\ irq_enabled' = FALSE
    /\ link_state' = 0
    /\ main_pc' = "enable"
    /\ UNCHANGED <<queue, masterVars, mboxVars, a2b_inten, endpoint, isrVars>>

MainEnableIrq ==
    /\ MainRuns
    /\ main_pc = "enable"
    /\ irq_enabled' = TRUE
    /\ main_pc' = "wait"
    /\ UNCHANGED <<queue, masterVars, mboxVars, a2b_inten, endpoint, isrVars,
                   link_state>>

MainSeesLink ==
    /\ MainRuns
    /\ main_pc = "wait"
    /\ link_state = 1
    /\ main_pc' = "create_ept"
    /\ UNCHANGED <<queue, masterVars, mboxVars, a2b_inten, irq_enabled,
                   endpoint, isrVars, link_state>>

MainCreateEpt ==
    /\ MainRuns
    /\ main_pc = "create_ept"
    /\ endpoint' = TRUE
    /\ main_pc' = "run"
    /\ UNCHANGED <<queue, masterVars, mboxVars, a2b_inten, irq_enabled,
                   isrVars, link_state>>

-----------------------------------------------------------------------------
(* The mailbox interrupt of the MCU.                                       *)

\* HAL_MBOX_IrqHandler up to the test of rpmsg_remote_cb: the first doorbell
\* is for virtqueue 0, whose callback reports the link up, every other one
\* for virtqueue 1, whose callback receives.
IsrEnter ==
    /\ isr_pc = "idle"
    /\ a2b_status /\ a2b_inten /\ irq_enabled
    /\ isr_pc' = IF first_notify THEN "rx" ELSE "link"
    /\ UNCHANGED <<queue, masterVars, mboxVars, bootVars, link_state,
                   first_notify, isr_desc, rx_freed, linux_control_cmd,
                   handled>>

\* rpmsg_lite_tx_callback
IsrLinkUp ==
    /\ isr_pc = "link"
    /\ link_state' = 1
    /\ first_notify' = TRUE
    /\ isr_pc' = "clear"
    /\ UNCHANGED <<queue, masterVars, mboxVars, bootVars, isr_desc, rx_freed,
                   linux_control_cmd, handled>>

\* rpmsg_lite_rx_callback: one turn of its loop takes a buffer and is done
\* with it; without an endpoint the message is dropped.
IsrTake ==
    /\ isr_pc = "rx"
    /\ RxVq!Take
    /\ isr_desc' = Head(rx_avail)
    /\ isr_pc' = "msg"
    /\ UNCHANGED <<masterVars, mboxVars, bootVars, link_state, first_notify,
                   rx_freed, linux_control_cmd, handled>>

IsrHandle ==
    /\ isr_pc = "msg"
    /\ linux_control_cmd' = IF endpoint THEN rx_data[isr_desc]
                                        ELSE linux_control_cmd
    /\ RxVq!Return(isr_desc)
    /\ rx_freed' = TRUE
    /\ handled' = (handled + 1) % SeqMod
    /\ isr_desc' = NoDesc
    /\ isr_pc' = "rx"
    /\ UNCHANGED <<masterVars, mboxVars, bootVars, link_state, first_notify>>

\* The queue is empty: the handler tells the master that it freed buffers.
IsrDrained ==
    /\ isr_pc = "rx"
    /\ rx_avail = <<>>
    /\ b2a_status' = (b2a_status \/ rx_freed)
    /\ isr_pc' = "clear"
    /\ UNCHANGED <<queue, masterVars, a2b_status, bootVars, link_state,
                   first_notify, isr_desc, rx_freed, linux_control_cmd,
                   handled>>

\* Only now does HAL_MBOX_IrqHandler clear the doorbell.
IsrClear ==
    /\ isr_pc = "clear"
    /\ a2b_status' = FALSE
    /\ rx_freed' = FALSE
    /\ isr_pc' = "idle"
    /\ UNCHANGED <<queue, masterVars, b2a_status, bootVars, link_state,
                   first_notify, isr_desc, linux_control_cmd, handled>>

-----------------------------------------------------------------------------
MasterNext == \/ MasterReady \/ MasterAlloc \/ MasterPost \/ MasterKick
              \/ MasterAck
MainNext == \/ MainRegister \/ MainResetLink \/ MainEnableIrq
            \/ MainSeesLink \/ MainCreateEpt
IsrNext == \/ IsrEnter \/ IsrLinkUp \/ IsrTake \/ IsrHandle \/ IsrDrained
           \/ IsrClear
Next == MasterNext \/ MainNext \/ IsrNext

Spec == Init /\ [][Next]_vars

\* An enabled interrupt is taken and its handler goes on; the main loop gets
\* its turn between two runs of the handler; a core does not stop in the
\* middle of a send.
Fairness == /\ WF_vars(IsrNext)
            /\ SF_vars(MainNext)
            /\ WF_vars(MasterReady) /\ WF_vars(MasterPost)
            /\ WF_vars(MasterKick)
FairSpec == Spec /\ Fairness

\* The same with a master that sends as long as it finds a buffer.
BusySpec == FairSpec /\ WF_vars(MasterAlloc)

-----------------------------------------------------------------------------
TypeOK == /\ rx_avail \in Seq(Desc) /\ rx_used \in Seq(Desc)
          /\ rx_master \in SUBSET Desc /\ rx_remote \in SUBSET Desc
          /\ rx_data \in [Desc -> Seqno]
          /\ next_seq \in Seqno /\ handled \in Seqno
          /\ master_pc \in {"init", "idle", "fill", "kick"}
          /\ rx_master = IF master_pc = "fill" THEN {master_buf} ELSE {}
          /\ {a2b_status, b2a_status, a2b_inten, irq_enabled, first_notify,
              endpoint, rx_freed} \subseteq BOOLEAN
          /\ link_state \in {0, 1}
          /\ main_pc \in {"boot", "reset", "enable", "wait", "create_ept",
                          "run"}
          /\ isr_pc \in {"idle", "link", "rx", "msg", "clear"}
          /\ rx_remote = IF isr_pc = "msg" THEN {isr_desc} ELSE {}
          /\ linux_control_cmd \in Seqno \cup {NoCmd}

\* The buffers whose message rpmsg_lite_rx_callback is not done with, oldest
\* first.
Outstanding == (IF isr_pc = "msg" THEN <<isr_desc>> ELSE <<>>) \o rx_avail

\* Whatever doorbells are lost or merged (platform_notify,
\* HAL_MBOX_IrqHandler), the messages themselves are handled in the order in
\* which they were written, each once: the outstanding ones are those from
\* the first not handled to the last written, with their contents intact.
InOrder ==
    /\ \A k \in 1..Len(Outstanding) :
         rx_data[Outstanding[k]] = (handled + k - 1) % SeqMod
    /\ next_seq = (handled + Len(Outstanding)) % SeqMod

\* The reset of link_state in rpmsg_lite_remote_init never erases the link
\* that the interrupt has reported: the first doorbell is handled only once,
\* so a link forgotten would leave RPMsg_Frame_Init waiting for ever.
LinkKept == first_notify => link_state = 1

\* No message is stranded (rpmsg_lite_rx_callback against
\* MBOX_ChanIntStClear): with the link up, once the master has rung for all
\* it sent and the MCU has no doorbell left to serve, the queue is empty.
Quiet == /\ master_pc \in {"idle", "fill"}
         /\ ~a2b_status
         /\ isr_pc = "idle"
NoStranded == first_notify /\ Quiet => rx_avail = <<>>

\* The command the controllers work with is the newest one that Linux sent,
\* as soon as the link is quiet (RPMsg_Frame_Recv_Callback).
CommandCurrent ==
    Quiet /\ linux_control_cmd # NoCmd =>
        linux_control_cmd = (next_seq - 1) % SeqMod

\* RPMsg_Frame_Init ends: the master's ready notification brings the link up
\* and the endpoint into being, for all the messages that arrive meanwhile.
Boots == <>(main_pc = "run")

\* Every message the master hands over is taken out of the queue.
EveryMessageHandled ==
    \A s \in Seqno :
        (\E k \in 1..Len(rx_avail) : rx_data[rx_avail[k]] = s)
            ~> ~(\E k \in 1..Len(rx_avail) : rx_data[rx_avail[k]] = s)

\* rpmsg_lite_master_init rings to "let the remote device know that Master
\* is ready for communication": a remote that waits for the link learns it.
ReadyIsHeard ==
    (master_pc # "init" /\ main_pc = "wait") ~> (link_state = 1)

\* virtqueue_kick in rpmsg_lite_format_message: "Let the other side know that
\* there is a job to process."  Once the MCU has started, the message that
\* the master rings for is handled.
KickIsHeard ==
    \A s \in Seqno :
        /\ main_pc = "run" /\ master_pc = "kick"
        /\ next_seq = (s + 1) % SeqMod
          ~> \A k \in 1..Len(rx_avail) : rx_data[rx_avail[k]] # s

\* The state invariants of the link together: types, the order and the
\* integrity of what is handled, and a link that stays up.
LinkSafe == TypeOK /\ InOrder /\ LinkKept
=============================================================================
