------------------------------- MODULE RtosEnv -------------------------------
(***************************************************************************)
(* rpmsg_env_freertos.c and its ports to Zephyr, ThreadX and XOS: the      *)
(* environment that the instances of several tasks share.  env_init counts *)
(* its callers and lets the first one start the platform while the others  *)
(* wait for a semaphore; env_deinit of the last one deletes all of it;     *)
(* env_wait_for_link_up and env_tx_callback meet at an event group.  Each  *)
(* task owns one instance and so one link, and may wait for links of       *)
(* others.  What the code does with the scheduler or the interrupts        *)
(* stopped is one step.                                                    *)
(***************************************************************************)
EXTENDS Naturals, FiniteSets

CONSTANTS Tasks,        \* each with an instance whose link is named after it
          Ports,        \* the ports, and what their applications do
          MaxEnvInits   \* bound: calls of env_init in all

\* initial: count of env_sema at first; binary: it never exceeds 1; clears:
\* the bit is cleared before a wait; mayFail: platform_init may find no memory
\* for its lock; waits: the links whose coming up a task waits for.
ASSUME TasksAssumption == IsFiniteSet(Tasks)
ASSUME PortsAssumption ==
    Ports \subseteq [initial : Nat, binary : BOOLEAN, clears : BOOLEAN,
                    mayFail : BOOLEAN, waits : [Tasks -> SUBSET Tasks]]

VARIABLES port,                 \* never changes
          rtos_init_counter,
          live, env_sema,       \* the objects exist; the count of the semaphore
          event_group,          \* links whose bit is set
          platform_lock,        \* it exists
          vq_link_state,        \* of the instance: "none", "down", "up"
          env_pc, link,         \* where a task is; the link it waits for
          env_inits

env == <<rtos_init_counter, live, env_sema, platform_lock>>
rtosVars == <<env, event_group, vq_link_state, env_pc, link, env_inits>>

EnvInit == /\ port \in Ports
           /\ rtos_init_counter = 0 /\ live = FALSE /\ env_sema = 0 /\ event_group = {}
           /\ platform_lock = FALSE
           /\ vq_link_state = [t \in Tasks |-> "none"]
           /\ env_pc = [t \in Tasks |-> "out"] /\ link = [t \in Tasks |-> t]
           /\ env_inits = 0

Goto(t, at) == env_pc' = [env_pc EXCEPT ![t] = at]

\* The semaphore is binary, or it counts.
Give == env_sema' = IF port.binary THEN 1 ELSE env_sema + 1

(***************************************************************************)
(* env_init                                                                *)
(***************************************************************************)
Called(t) == /\ env_pc[t] = "out" /\ env_inits < MaxEnvInits
             /\ env_inits' = env_inits + 1

InitFirst(t) == /\ Called(t) /\ rtos_init_counter = 0
                /\ rtos_init_counter' = 1
                /\ live' = TRUE /\ env_sema' = port.initial /\ event_group' = {}
                /\ Goto(t, "platform")
                /\ UNCHANGED <<platform_lock, vq_link_state, link>>

\* Broken variants: without counting; without waiting for the semaphore.
InitUncounted(t) == /\ Called(t) /\ rtos_init_counter # 0
                    /\ Goto(t, "take")
                    /\ UNCHANGED <<env, event_group, vq_link_state, link>>

InitAtOnce(t) == /\ Called(t) /\ rtos_init_counter # 0
                 /\ rtos_init_counter' = rtos_init_counter + 1
                 /\ Goto(t, "in")
                 /\ UNCHANGED <<live, env_sema, event_group, platform_lock, vq_link_state, link>>

EnvInitAgain(t) == /\ Called(t) /\ rtos_init_counter # 0
                   /\ rtos_init_counter' = rtos_init_counter + 1
                   /\ Goto(t, "take")
                   /\ UNCHANGED <<live, env_sema, event_group, platform_lock, vq_link_state, link>>

\* platform_init of the RK3506 creates platform_lock, which may fail.
PlatformInit(t) == /\ env_pc[t] = "platform"
                   /\ \/ platform_lock' = TRUE /\ Goto(t, "give")
                      \/ port.mayFail /\ UNCHANGED platform_lock /\ Goto(t, "fail")
                   /\ UNCHANGED <<rtos_init_counter, live, env_sema, event_group, vq_link_state, link, env_inits>>

\* The first caller returns what platform_init said; on a failure
\* rpmsg_lite_remote_init frees its instance and returns NULL.
InitGive(t) == /\ env_pc[t] \in {"give", "fail"}
               /\ Give
               /\ Goto(t, IF env_pc[t] = "give" THEN "in" ELSE "out")
               /\ UNCHANGED <<rtos_init_counter, live, event_group, platform_lock, vq_link_state, link, env_inits>>

InitTake(t) == /\ env_pc[t] = "take" /\ env_sema > 0
               /\ env_sema' = env_sema - 1
               /\ Goto(t, "giveback")
               /\ UNCHANGED <<rtos_init_counter, live, event_group, platform_lock, vq_link_state, link, env_inits>>

InitGiveBack(t) == /\ env_pc[t] = "giveback"
                   /\ Give
                   /\ Goto(t, "in")
                   /\ UNCHANGED <<rtos_init_counter, live, event_group, platform_lock, vq_link_state, link, env_inits>>

(***************************************************************************)
(* The instance: rpmsg_lite_remote_init after env_init, rpmsg_lite_deinit  *)
(* with env_deinit at its end.                                             *)
(***************************************************************************)
Create(t) == /\ env_pc[t] = "in" /\ vq_link_state[t] = "none"
             /\ vq_link_state' = [vq_link_state EXCEPT ![t] = "down"]
             /\ UNCHANGED <<env, event_group, env_pc, link, env_inits>>

\* An instance is not taken down under a task that waits for its link.
Quiet(t) == \A u \in Tasks : env_pc[u] \in {"clear", "check", "wait", "blocked"} => link[u] # t

EnvDeinit(t) == /\ env_pc[t] = "in" /\ vq_link_state[t] # "none" /\ Quiet(t)
                /\ vq_link_state' = [vq_link_state EXCEPT ![t] = "none"]
                /\ rtos_init_counter' = rtos_init_counter - 1
                /\ IF rtos_init_counter <= 1
                   THEN platform_lock' = FALSE /\ live' = FALSE /\ env_sema' = 0 /\ event_group' = {}
                   ELSE UNCHANGED <<platform_lock, live, env_sema, event_group>>
                /\ Goto(t, "out")
                /\ UNCHANGED <<link, env_inits>>

(***************************************************************************)
(* env_wait_for_link_up, env_tx_callback                                   *)
(***************************************************************************)
WaitForLinkUp(t, l) == /\ env_pc[t] = "in" /\ l \in port.waits[t] /\ vq_link_state[l] # "none"
                       /\ link' = [link EXCEPT ![t] = l]
                       /\ Goto(t, IF port.clears THEN "clear" ELSE "check")
                       /\ UNCHANGED <<env, event_group, vq_link_state, env_inits>>

\* Broken variant: the bit is not cleared.
ClearNone(t) == /\ env_pc[t] = "clear"
                /\ Goto(t, "check")
                /\ UNCHANGED <<env, event_group, vq_link_state, link, env_inits>>

ClearBits(t) == /\ env_pc[t] = "clear"
                /\ event_group' = event_group \ {link[t]}
                /\ Goto(t, "check")
                /\ UNCHANGED <<env, vq_link_state, link, env_inits>>

Check(t) == /\ env_pc[t] = "check"
            /\ Goto(t, IF vq_link_state[link[t]] = "up" THEN "in" ELSE "wait")
            /\ UNCHANGED <<env, event_group, vq_link_state, link, env_inits>>

\* xEventGroupWaitBits: blocks unless the bit is set at the call.
WaitBits(t) == /\ env_pc[t] = "wait"
               /\ Goto(t, IF link[t] \in event_group THEN "in" ELSE "blocked")
               /\ UNCHANGED <<env, event_group, vq_link_state, link, env_inits>>

\* rpmsg_lite_tx_callback, in the interrupt; the same without its second half.
CallbackQuiet(l) == /\ vq_link_state[l] # "none"
                    /\ vq_link_state' = [vq_link_state EXCEPT ![l] = "up"]
                    /\ UNCHANGED <<env, event_group, env_pc, link, env_inits>>

\* The timer task, of the highest priority, sets the bit, which readies the
\* tasks that are blocked on it, before any other task runs.
TxCallback(l) ==
    /\ vq_link_state[l] # "none"
    /\ vq_link_state' = [vq_link_state EXCEPT ![l] = "up"]
    /\ event_group' = event_group \union {l}
    /\ env_pc' = [t \in Tasks |-> IF env_pc[t] = "blocked" /\ link[t] = l THEN "in" ELSE env_pc[t]]
    /\ UNCHANGED <<env, link, env_inits>>

\* What a task does once it is in a call.
Step(t) == \/ PlatformInit(t) \/ InitGive(t) \/ InitTake(t) \/ InitGiveBack(t)
           \/ ClearBits(t) \/ Check(t) \/ WaitBits(t)

Task(t) == \/ InitFirst(t) \/ EnvInitAgain(t) \/ Create(t) \/ EnvDeinit(t)
           \/ \E l \in Tasks : WaitForLinkUp(t, l)
           \/ Step(t)

EnvNext == /\ UNCHANGED port
           /\ (\E t \in Tasks : Task(t)) \/ \E l \in Tasks : TxCallback(l)

EnvSpec == EnvInit /\ [][EnvNext]_<<port, rtosVars>>

\* The scheduler runs every task that is ready.
EnvFairSpec == EnvSpec /\ \A t \in Tasks : WF_rtosVars(Step(t))

-----------------------------------------------------------------------------
(***************************************************************************)
(* Properties                                                              *)
(***************************************************************************)
Inside(t) == env_pc[t] \in {"in", "clear", "check", "wait", "blocked"}

\* What the code needs of its port and of the heap: the semaphore is created
\* taken, and there is memory for the platform's lock.
Sound == port.initial = 0 /\ ~port.mayFail

\* Every task between its env_init and its env_deinit is counted, and no other
\* unless an env_init has failed.
EnvTypeOK == /\ env_sema \in 0 .. 2 /\ (~live => env_sema = 0) /\ event_group \subseteq Tasks
             /\ Sound => rtos_init_counter = Cardinality({t \in Tasks : env_pc[t] # "out"})

\* No task is about to take, give or wait on an object that is deleted.
HandlesLive == (\E t \in Tasks : env_pc[t] \notin {"out", "in"}) => live

\* env_init "allows for platform_init() to block if needed and other tasks to
\* wait for the blocking to be done": who returns from it with 0 finds the
\* platform's lock, which rpmsg_lite uses without looking.
PlatformReady == Sound => \A t \in Tasks : Inside(t) => platform_lock

\* env_init returns, whatever the other callers do.
Starting(t) == env_pc[t] \in {"platform", "give", "fail", "take", "giveback"}
InitReturns == \A t \in Tasks : Starting(t) ~> ~Starting(t)

\* env_wait_for_link_up waits "until the vq_link_state parameter of the
\* rpmsg_lite_instance is set": with a port that clears the bit first it does
\* not return before.
SeenIsUp == [][\A t \in Tasks :
    port.clears /\ env_pc[t] \in {"check", "wait", "blocked"} /\ env_pc'[t] = "in" =>
        vq_link_state'[link[t]] = "up"]_rtosVars

\* env_wait_for_link_up "returns once the link is up", whoever waits, unless the
\* port clears the bit of one waiter for another.
Alone(t) == port.clears => \A u \in Tasks \ {t} : port.waits[u] \intersect port.waits[t] = {}
LinkSeen == \A t \in Tasks :
    (/\ Alone(t) /\ env_pc[t] \in {"check", "wait", "blocked"}
     /\ vq_link_state[link[t]] = "up") ~> env_pc[t] = "in"
=============================================================================
