---------------------------- MODULE LinkLifecycle ----------------------------
(***************************************************************************)
(* rpmsg_lite_remote_init and rpmsg_lite_deinit on the MCU, again and      *)
(* again: the counters of the environment and of the RK3506 platform       *)
(* layer, the table of mailbox devices, the table of virtual interrupts    *)
(* and the mailbox interrupt, which may arrive between any two steps.      *)
(*                                                                         *)
(* The master rings whenever it likes.  Of what a doorbell brings, only    *)
(* the report of the link matters here; messages are in RpmsgLink.         *)
(***************************************************************************)
EXTENDS Integers, Sequences

CONSTANTS MboxCnt,   \* MBOX_CNT
          MaxInits   \* bound on the calls of rpmsg_lite_remote_init

ASSUME MboxAssumption == MboxCnt \in Nat /\ MboxCnt >= 2
ASSUME InitsAssumption == MaxInits \in Nat

Vq == {0, 1}           \* 0 transmits, 1 receives
Reg == {"MBOX0", "MBOX3"}

VARIABLES
    env_init_counter, isr_table,                  \* rpmsg_env_bm.c
    isr_counter, disable_counter, register_count, \* rpmsg_platform.c
    first_notify,
    mbox_devs,           \* g_MBoxDevs: register block and client present
    a2b_status, a2b_inten, irq_enabled,           \* MBOX3, its source
    link_state,
    served,              \* a doorbell was served since the last Enable
    inits, goal, main_pc, vq

envVars == <<env_init_counter, isr_table>>
countVars == <<isr_counter, register_count>>
mboxVars == <<a2b_status, a2b_inten>>
mainVars == <<inits, goal>>
lifeVars == <<envVars, countVars, disable_counter, first_notify, mbox_devs,
          mboxVars, irq_enabled, link_state, served, mainVars, main_pc, vq>>

LifeTypeOK ==
    /\ env_init_counter \in 0..1 /\ isr_table \subseteq Vq
    /\ isr_counter \in 0..2 /\ disable_counter \in {0, 2}
    /\ register_count \in 0..(2 * MaxInits)
    /\ mbox_devs \in Seq([reg : Reg, client : BOOLEAN])
    /\ Len(mbox_devs) <= MboxCnt
    /\ {first_notify, a2b_status, a2b_inten, irq_enabled, served} \subseteq BOOLEAN
    /\ link_state \in {0, 1}
    /\ inits \in 0..MaxInits /\ goal \in {"up", "down"} /\ vq \in Vq
    /\ main_pc \in {"down", "install", "master_mbox", "own_mbox",
                    "own_client", "disable", "reset", "enable", "up",
                    "uninstall", "free", "hang"}

\* The master may have rung before the MCU is out of reset.
LifeInit == /\ env_init_counter = 0 /\ isr_table = {}
            /\ isr_counter = 0 /\ disable_counter = 0 /\ register_count = 0
            /\ first_notify = FALSE
            /\ mbox_devs = <<>>
            /\ a2b_status \in BOOLEAN /\ a2b_inten = FALSE /\ irq_enabled = FALSE
            /\ link_state = 0 /\ served = FALSE
            /\ inits = 0 /\ goal = "up" /\ main_pc = "down" /\ vq = 1

-----------------------------------------------------------------------------
(* The mailbox driver.                                                     *)

Entries(reg) == {i \in DOMAIN mbox_devs : mbox_devs[i].reg = reg}
MBOX_FindEntry(reg) == CHOOSE i \in Entries(reg) : \A j \in Entries(reg) : i <= j
HasClient(reg) == Entries(reg) # {} /\ mbox_devs[MBOX_FindEntry(reg)].client

\* HAL_MBOX_RegisterClient in a table of devices; HAL_BUSY is tested before.
WithClient(devs, reg) ==
    LET first == CHOOSE i \in DOMAIN devs : /\ devs[i].reg = reg
                                            /\ \A j \in DOMAIN devs :
                                                 devs[j].reg = reg => i <= j
    IN [devs EXCEPT ![first].client = TRUE]

-----------------------------------------------------------------------------
(* Broken variants of the definitions below, for checking that the         *)
(* properties notice; the specification does not use them.                 *)

\* Uninstall: only the receiving queue is taken out of the table.
UninstallRx ==
    /\ main_pc = "uninstall"
    /\ IF isr_counter = 0
         THEN main_pc' = "hang" /\ UNCHANGED <<isr_table, isr_counter, vq>>
         ELSE /\ isr_counter' = isr_counter - 1
              /\ isr_table' = isr_table \ {1}
              /\ IF vq = 1 THEN vq' = 0 /\ UNCHANGED main_pc
                           ELSE vq' = 1 /\ main_pc' = "free"
    /\ UNCHANGED <<env_init_counter, register_count, disable_counter,
                   first_notify, mbox_devs, mboxVars, irq_enabled, link_state,
                   served, mainVars>>

\* HAL_MBOX_Init takes the next free entry, whether or not the mailbox has
\* one; its result is not looked at when the table is full.
MboxInit(reg) ==
    IF Len(mbox_devs) = MboxCnt THEN mbox_devs
    ELSE Append(mbox_devs, [reg |-> reg, client |-> FALSE])

-----------------------------------------------------------------------------
(* The main loop: rpmsg_lite_remote_init.                                  *)

\* env_init, after the instance was cleared.
InitEnv ==
    /\ main_pc = "down" /\ inits < MaxInits
    /\ inits' = inits + 1 /\ goal' = "up"
    /\ env_init_counter' = env_init_counter + 1
    /\ isr_table' = IF env_init_counter = 0 THEN {} ELSE isr_table
    /\ link_state' = 0
    /\ main_pc' = "install" /\ vq' = 1
    /\ UNCHANGED <<countVars, disable_counter, first_notify, mbox_devs,
                   mboxVars, irq_enabled, served>>

\* platform_init_interrupt returns: the next queue, or the last part.
NextQueue == IF vq = 1 THEN vq' = 0 /\ main_pc' = "install"
                       ELSE vq' = 1 /\ main_pc' = "disable"

\* platform_init_interrupt: the mailboxes are set up at every second call that
\* is counted.  (isr_counter stays far below 2 * RL_MAX_INSTANCE_NUM.)
Install ==
    /\ main_pc = "install"
    /\ isr_table' = isr_table \union {vq}
    /\ IF register_count % 2 = 0
         THEN main_pc' = "master_mbox" /\ UNCHANGED <<countVars, vq>>
         ELSE /\ register_count' = register_count + 1
              /\ isr_counter' = isr_counter + 1
              /\ NextQueue
    /\ UNCHANGED <<env_init_counter, disable_counter, first_notify, mbox_devs,
                   mboxVars, irq_enabled, link_state, served, mainVars>>

\* A client that is registered already makes it return, nothing counted.
InstallMaster ==
    /\ main_pc = "master_mbox"
    /\ IF HasClient("MBOX0")
         THEN mbox_devs' = MboxInit("MBOX0") /\ NextQueue
         ELSE /\ mbox_devs' = WithClient(MboxInit("MBOX0"), "MBOX0")
              /\ main_pc' = "own_mbox" /\ UNCHANGED vq
    /\ UNCHANGED <<envVars, countVars, disable_counter, first_notify,
                   mboxVars, irq_enabled, link_state, served, mainVars>>

InstallOwn ==
    /\ main_pc = "own_mbox"
    /\ mbox_devs' = MboxInit("MBOX3")
    /\ main_pc' = "own_client"
    /\ UNCHANGED <<envVars, countVars, disable_counter, first_notify,
                   mboxVars, irq_enabled, link_state, served, mainVars, vq>>

\* MBOX_ChanEnable clears a pending doorbell.
InstallClient ==
    /\ main_pc = "own_client"
    /\ IF HasClient("MBOX3")
         THEN UNCHANGED <<mbox_devs, mboxVars, countVars>>
         ELSE /\ mbox_devs' = WithClient(mbox_devs, "MBOX3")
              /\ a2b_status' = FALSE /\ a2b_inten' = TRUE
              /\ register_count' = register_count + 1
              /\ isr_counter' = isr_counter + 1
    /\ NextQueue
    /\ UNCHANGED <<envVars, disable_counter, first_notify, irq_enabled,
                   link_state, served, mainVars>>

-----------------------------------------------------------------------------
(* The end of rpmsg_lite_remote_init and the start of rpmsg_lite_deinit:   *)
(* both queues are disabled, the link is reset, both are enabled.          *)

Disable ==
    /\ main_pc = "disable"
    /\ disable_counter' = disable_counter + 2
    /\ irq_enabled' = FALSE
    /\ main_pc' = "reset"
    /\ UNCHANGED <<envVars, countVars, first_notify, mbox_devs, mboxVars,
                   link_state, served, mainVars, vq>>

Reset ==
    /\ main_pc = "reset"
    /\ link_state' = 0
    /\ main_pc' = "enable"
    /\ UNCHANGED <<envVars, countVars, disable_counter, first_notify,
                   mbox_devs, mboxVars, irq_enabled, served, mainVars, vq>>

Enable ==
    /\ main_pc = "enable"
    /\ disable_counter' = disable_counter - 2
    /\ irq_enabled' = TRUE /\ served' = FALSE
    /\ main_pc' = IF goal = "up" THEN "up" ELSE "uninstall"
    /\ UNCHANGED <<envVars, countVars, first_notify, mbox_devs, mboxVars,
                   link_state, mainVars, vq>>

-----------------------------------------------------------------------------
(* The main loop: rpmsg_lite_deinit.                                       *)

Deinit ==
    /\ main_pc = "up"
    /\ goal' = "down" /\ main_pc' = "disable"
    /\ UNCHANGED <<envVars, countVars, disable_counter, first_notify,
                   mbox_devs, mboxVars, irq_enabled, link_state, served,
                   inits, vq>>

\* platform_deinit_interrupt: RL_ASSERT(0 < isr_counter) hangs.
Uninstall ==
    /\ main_pc = "uninstall"
    /\ IF isr_counter = 0
         THEN main_pc' = "hang" /\ UNCHANGED <<isr_table, isr_counter, vq>>
         ELSE /\ isr_counter' = isr_counter - 1
              /\ isr_table' = isr_table \ {vq}
              /\ IF vq = 1 THEN vq' = 0 /\ UNCHANGED main_pc
                           ELSE vq' = 1 /\ main_pc' = "free"
    /\ UNCHANGED <<env_init_counter, register_count, disable_counter,
                   first_notify, mbox_devs, mboxVars, irq_enabled, link_state,
                   served, mainVars>>

\* The virtqueues are freed; env_deinit.
DeinitEnv ==
    /\ main_pc = "free"
    /\ env_init_counter' = env_init_counter - 1
    /\ main_pc' = "down"
    /\ UNCHANGED <<isr_table, countVars, disable_counter, first_notify,
                   mbox_devs, mboxVars, irq_enabled, link_state, served,
                   mainVars, vq>>

-----------------------------------------------------------------------------
Doorbell ==
    /\ ~a2b_status
    /\ a2b_status' = TRUE
    /\ UNCHANGED <<envVars, countVars, disable_counter, first_notify,
                   mbox_devs, a2b_inten, irq_enabled, link_state, served,
                   mainVars, main_pc, vq>>

\* HAL_MBOX_IrqHandler and rpmsg_remote_cb: the first doorbell ever goes to
\* queue 0, whose callback reports the link, every other one to queue 1.
Taken == a2b_status /\ a2b_inten /\ irq_enabled
IsrServe ==
    /\ Taken
    /\ link_state' = IF ~first_notify /\ 0 \in isr_table THEN 1 ELSE link_state
    /\ first_notify' = TRUE
    /\ served' = TRUE
    /\ a2b_status' = FALSE
    /\ UNCHANGED <<envVars, countVars, disable_counter, mbox_devs, a2b_inten,
                   irq_enabled, mainVars, main_pc, vq>>

LifeNext == \/ InitEnv \/ Install \/ InstallMaster \/ InstallOwn \/ InstallClient
            \/ Disable \/ Reset \/ Enable
            \/ Deinit \/ Uninstall \/ DeinitEnv
            \/ Doorbell \/ IsrServe

LifeSpec == LifeInit /\ [][LifeNext]_lifeVars

-----------------------------------------------------------------------------
(* Properties.                                                             *)

\* HAL_MBOX_IrqHandler reads the client's number through chans[].client
\* without a test: there is one whenever the interrupt can be taken, also
\* while a second initialisation has it enabled.
ClientPresent == Taken => HasClient("MBOX3")

\* After rpmsg_lite_deinit no interrupt reaches the virtqueues it has freed.
FreedUnreachable == main_pc = "down" => isr_table = {}

\* The first life of the link: a doorbell served once the MCU is up has
\* reported the link, and rpmsg_lite_deinit comes to its end.
FirstLife ==
    inits = 1 => /\ main_pc = "up" /\ served => link_state = 1
                 /\ main_pc # "hang"

\* rpmsg_lite.h of rpmsg_lite_deinit: "This function always succeeds."
DeinitSucceeds == main_pc # "hang"

\* rpmsg_lite.h: "rpmsg_lite_init() can be called again after this function
\* has been called": then, too, a doorbell of the master reports the link.
InitAgain == main_pc = "up" /\ served => link_state = 1

\* The invariants of initialisation and end together: the interrupt finds a
\* client and no freed queue, and the first life of the link is complete.
LifeSafe == LifeTypeOK /\ ClientPresent /\ FreedUnreachable /\ FirstLife
=============================================================================
