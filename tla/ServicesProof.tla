---------------------------- MODULE ServicesProof ----------------------------
(***************************************************************************)
(* Proofs about what surrounds the link, for any number of buffers, tasks, *)
(* queues and messages: the telemetry arrives, once, complete and in       *)
(* order, and a send that is refused is refused on time; rpmsg_queue keeps *)
(* every buffer and every message, until an interrupt releases a buffer    *)
(* while a task does; the interrupt finds a client whenever it can be      *)
(* taken.  For any number of tasks and any set of ports, who is between    *)
(* env_init and env_deinit finds the objects in place and, with a sound    *)
(* port, the platform; and with a port that clears the bit first nobody    *)
(* sees a link up that is not.                                             *)
(***************************************************************************)
EXTENDS MCServices, FiniteSetTheorems, SequenceTheorems, TLAPS

-----------------------------------------------------------------------------
(* The environment of the ports to operating systems.                      *)

Steps == {"out", "platform", "give", "fail", "take", "giveback", "in", "clear", "check", "wait", "blocked"}
Holders == {t \in Tasks : env_pc[t] # "out"}
Waiting(t) == env_pc[t] \in {"check", "wait", "blocked"}

Typed == /\ port \in Ports
         /\ env_pc \in [Tasks -> Steps] /\ link \in [Tasks -> Tasks]
         /\ vq_link_state \in [Tasks -> {"none", "down", "up"}]
         /\ env_sema \in Nat /\ rtos_init_counter \in Nat

\* The objects exist while somebody is counted, and everybody is.
Counted == /\ Cardinality(Holders) <= rtos_init_counter
           /\ rtos_init_counter # 0 => live

\* The semaphore can be taken only when the platform is there, and whoever
\* got past it has not left: the last to leave takes both away.  With a
\* sound port nobody fails.
Past == {"give", "fail", "giveback", "in", "clear", "check", "wait", "blocked"}
Started == Sound => /\ \A t \in Tasks : env_pc[t] \in Past => platform_lock
                    /\ env_sema > 0 => platform_lock

IInv == Typed /\ Counted /\ Started

\* A waiter's bit is set only by the callback that finds its link up.
BitsCurrent == port.clears =>
    \A t \in Tasks : Waiting(t) /\ link[t] \in event_group => vq_link_state[link[t]] = "up"

-----------------------------------------------------------------------------
\* The number of holders when one task enters, leaves or goes on.
LEMMA HoldersFinite == IsFiniteSet(Holders) /\ Cardinality(Holders) \in Nat
<1>1. Holders \subseteq Tasks
  BY DEF Holders
<1>2. IsFiniteSet(Holders)
  BY <1>1, FS_Subset, TasksAssumption
<1> QED
  BY <1>2, FS_CardinalityType

LEMMA Entering ==
  ASSUME NEW t \in Tasks, env_pc[t] = "out", NEW at \in Steps, at # "out", env_pc \in [Tasks -> Steps],
         env_pc' = [env_pc EXCEPT ![t] = at]
  PROVE  Cardinality(Holders') = Cardinality(Holders) + 1 /\ Holders' # {}
<1>1. Holders' = Holders \union {t} /\ t \notin Holders
  BY DEF Holders
<1> QED
  BY <1>1, HoldersFinite, FS_AddElement

LEMMA Leaving ==
  ASSUME NEW t \in Tasks, env_pc[t] # "out", env_pc \in [Tasks -> Steps],
         env_pc' = [env_pc EXCEPT ![t] = "out"]
  PROVE  /\ Cardinality(Holders') = Cardinality(Holders) - 1
         /\ Cardinality(Holders) <= 1 => Holders' = {}
<1>1. Holders' = Holders \ {t} /\ t \in Holders
  BY DEF Holders
<1>2. Cardinality(Holders') = Cardinality(Holders) - 1 /\ IsFiniteSet(Holders')
  BY <1>1, HoldersFinite, FS_RemoveElement
<1>3. Cardinality(Holders) <= 1 => Cardinality(Holders') = 0
  <2>1. Cardinality(Holders') \in Nat
    BY <1>2, FS_CardinalityType
  <2> QED
    BY <1>2, <2>1, HoldersFinite
<1> QED
  BY <1>2, <1>3, FS_EmptySet

LEMMA GoingOn ==
  ASSUME NEW t \in Tasks, env_pc[t] # "out", NEW at \in Steps, at # "out", env_pc \in [Tasks -> Steps],
         env_pc' = [env_pc EXCEPT ![t] = at]
  PROVE  Holders' = Holders
BY DEF Holders

-----------------------------------------------------------------------------
(***************************************************************************)
(* Counting, the objects and the platform.                                 *)
(***************************************************************************)
LEMMA IInvInit == EnvInit => IInv
<1> SUFFICES ASSUME EnvInit PROVE IInv
  OBVIOUS
<1>1. Holders = {}
  BY DEF EnvInit, Holders
<1>2. Cardinality(Holders) = 0
  BY <1>1, FS_EmptySet
<1> QED
  BY <1>1, <1>2 DEF EnvInit, IInv, Typed, Counted, Started, Steps, Past

\* A task on its way inside a call leaves the holders, the count and the
\* objects alone; it passes the semaphore only with the platform.
LEMMA OnItsWay ==
  ASSUME IInv, NEW t \in Tasks, env_pc[t] # "out", NEW at \in Steps, at # "out",
         env_pc' = [env_pc EXCEPT ![t] = at], UNCHANGED <<port, rtos_init_counter, live>>,
         env_sema' \in Nat, vq_link_state' \in [Tasks -> {"none", "down", "up"}],
         link' \in [Tasks -> Tasks],
         Sound => /\ platform_lock => platform_lock'
                  /\ at \in Past => platform_lock'
                  /\ env_sema' > 0 => platform_lock'
  PROVE  IInv'
<1>1. Typed'
  BY DEF IInv, Typed
<1>2. Counted'
  BY GoingOn DEF IInv, Typed, Counted
<1>3. Started'
  BY DEF IInv, Typed, Started, Sound, Past
<1> QED
  BY <1>1, <1>2, <1>3 DEF IInv

LEMMA IInvNext == IInv /\ [EnvNext]_<<port, rtosVars>> => IInv'
<1> SUFFICES ASSUME IInv, [EnvNext]_<<port, rtosVars>> PROVE IInv'
  OBVIOUS
<1>1. CASE UNCHANGED <<port, rtosVars>>
  BY <1>1 DEF rtosVars, env, IInv, Typed, Counted, Started, Sound, Holders
<1> SUFFICES ASSUME EnvNext PROVE IInv'
  BY <1>1
<1>2. port' = port /\ port \in Ports /\ port.initial \in Nat
  BY PortsAssumption DEF EnvNext, IInv, Typed
<1>3. /\ env_pc \in [Tasks -> Steps] /\ link \in [Tasks -> Tasks] /\ env_sema \in Nat
      /\ vq_link_state \in [Tasks -> {"none", "down", "up"}] /\ rtos_init_counter \in Nat
  BY DEF IInv, Typed
<1>4. Sound => /\ \A t \in Tasks : env_pc[t] \in Past => platform_lock
               /\ env_sema > 0 => platform_lock
  BY DEF IInv, Started
<1>5. ASSUME NEW t \in Tasks, InitFirst(t) PROVE IInv'
  <2>1. env_pc[t] = "out" /\ env_pc' = [env_pc EXCEPT ![t] = "platform"]
    BY <1>5 DEF InitFirst, Called, Goto
  <2>2. rtos_init_counter = 0 /\ rtos_init_counter' = 1 /\ live' /\ env_sema' = port.initial
    BY <1>5 DEF InitFirst
  <2>3. UNCHANGED <<platform_lock, vq_link_state, link>>
    BY <1>5 DEF InitFirst
  <2>4. Cardinality(Holders) = 0
    BY <2>2, HoldersFinite DEF IInv, Counted
  <2>5. Cardinality(Holders') = 1
    <3>1. Cardinality(Holders') = Cardinality(Holders) + 1
      BY <1>3, <2>1, Entering DEF Steps
    <3> QED
      BY <2>4, <3>1
  <2>6. \A u \in Tasks : env_pc'[u] \notin Past
    <3>1. Holders = {}
      BY <2>4, HoldersFinite, FS_EmptySet
    <3> QED
      BY <1>3, <2>1, <3>1 DEF Holders, Past
  <2>7. Typed' /\ Counted'
    BY <1>2, <1>3, <2>1, <2>2, <2>3, <2>5 DEF Typed, Counted, Steps
  <2>8. Started'
    BY <1>2, <2>2, <2>6 DEF Started, Sound
  <2> QED
    BY <2>7, <2>8 DEF IInv
<1>6. ASSUME NEW t \in Tasks, EnvInitAgain(t) PROVE IInv'
  <2>1. env_pc[t] = "out" /\ env_pc' = [env_pc EXCEPT ![t] = "take"]
    BY <1>6 DEF EnvInitAgain, Called, Goto
  <2>2. rtos_init_counter # 0 /\ rtos_init_counter' = rtos_init_counter + 1
    BY <1>6 DEF EnvInitAgain
  <2>3. UNCHANGED <<live, env_sema, platform_lock, vq_link_state, link>>
    BY <1>6 DEF EnvInitAgain
  <2>4. Cardinality(Holders') = Cardinality(Holders) + 1
    BY <1>3, <2>1, Entering DEF Steps
  <2>5. Typed'
    BY <1>2, <1>3, <2>1, <2>2, <2>3 DEF Typed, Steps
  <2>6. Counted'
    BY <1>3, <2>2, <2>3, <2>4, HoldersFinite DEF IInv, Counted
  <2>7. Started'
    BY <1>2, <1>3, <1>4, <2>1, <2>3 DEF Started, Sound, Past
  <2> QED
    BY <2>5, <2>6, <2>7 DEF IInv
<1>7. ASSUME NEW t \in Tasks, PlatformInit(t) PROVE IInv'
  <2>1. env_pc[t] = "platform" /\ UNCHANGED <<rtos_init_counter, live, env_sema, vq_link_state, link>>
    BY <1>7 DEF PlatformInit
  <2>2. CASE platform_lock' = TRUE /\ Goto(t, "give")
    BY <1>2, <1>3, <2>1, <2>2, OnItsWay DEF Goto, Steps
  <2>3. CASE port.mayFail /\ Goto(t, "fail")
    BY <1>2, <1>3, <2>1, <2>3, OnItsWay DEF Goto, Steps, Sound
  <2> QED
    BY <1>7, <2>2, <2>3 DEF PlatformInit
<1>8. ASSUME NEW t \in Tasks, InitGive(t) PROVE IInv'
  <2>1. UNCHANGED <<rtos_init_counter, live, platform_lock, vq_link_state, link>>
    BY <1>8 DEF InitGive
  <2>2. env_sema' \in Nat
    BY <1>3, <1>8 DEF InitGive, Give
  <2>3. CASE env_pc[t] = "give"
    <3>1. env_pc' = [env_pc EXCEPT ![t] = "in"] /\ (Sound => platform_lock')
      BY <1>4, <1>8, <2>1, <2>3 DEF InitGive, Goto, Past
    <3> QED
      BY <1>2, <1>3, <2>1, <2>2, <2>3, <3>1, OnItsWay DEF Steps
  <2>4. CASE env_pc[t] = "fail"
    <3>1. env_pc' = [env_pc EXCEPT ![t] = "out"]
      BY <1>8, <2>4 DEF InitGive, Goto
    <3>2. Cardinality(Holders') = Cardinality(Holders) - 1
      BY <1>3, <2>4, <3>1, Leaving
    <3>3. Typed'
      BY <1>2, <1>3, <2>1, <2>2, <3>1 DEF Typed, Steps
    <3>4. Counted'
      BY <1>3, <2>1, <3>2, HoldersFinite DEF IInv, Counted
    <3>5. Sound => platform_lock
      BY <1>4, <2>4 DEF Past
    <3>6. Started'
      BY <1>2, <1>3, <1>4, <2>1, <3>1, <3>5 DEF Started, Sound, Past
    <3> QED
      BY <3>3, <3>4, <3>6 DEF IInv
  <2> QED
    BY <1>8, <2>3, <2>4 DEF InitGive
<1>9. ASSUME NEW t \in Tasks, InitTake(t) PROVE IInv'
  <2>1. /\ env_pc[t] = "take" /\ env_pc' = [env_pc EXCEPT ![t] = "giveback"]
        /\ env_sema > 0 /\ env_sema' = env_sema - 1
        /\ UNCHANGED <<rtos_init_counter, live, platform_lock, vq_link_state, link>>
    BY <1>9 DEF InitTake, Goto
  <2>2. env_sema' \in Nat /\ (Sound => platform_lock)
    BY <1>3, <1>4, <2>1
  <2> QED
    BY <1>2, <1>3, <2>1, <2>2, OnItsWay DEF Steps
<1>10. ASSUME NEW t \in Tasks, InitGiveBack(t) PROVE IInv'
  <2>1. /\ env_pc[t] = "giveback" /\ env_pc' = [env_pc EXCEPT ![t] = "in"]
        /\ UNCHANGED <<rtos_init_counter, live, platform_lock, vq_link_state, link>>
    BY <1>10 DEF InitGiveBack, Goto
  <2>2. env_sema' \in Nat /\ (Sound => platform_lock)
    BY <1>3, <1>4, <1>10, <2>1 DEF InitGiveBack, Give, Past
  <2> QED
    BY <1>2, <1>3, <2>1, <2>2, OnItsWay DEF Steps
<1>11. ASSUME NEW t \in Tasks, Create(t) PROVE IInv'
  BY <1>2, <1>3, <1>11 DEF Create, env, IInv, Typed, Counted, Started, Sound, Holders
<1>12. ASSUME NEW t \in Tasks, EnvDeinit(t) PROVE IInv'
  <2>1. /\ env_pc[t] = "in" /\ env_pc' = [env_pc EXCEPT ![t] = "out"]
        /\ rtos_init_counter' = rtos_init_counter - 1 /\ link' = link
        /\ vq_link_state' = [vq_link_state EXCEPT ![t] = "none"]
    BY <1>12 DEF EnvDeinit, Goto
  <2>2. /\ Cardinality(Holders') = Cardinality(Holders) - 1
        /\ Cardinality(Holders) <= 1 => Holders' = {}
    BY <1>3, <2>1, Leaving
  <2>3. t \in Holders
    BY <2>1 DEF Holders
  <2>4. Cardinality(Holders) # 0
    BY <2>3, HoldersFinite, FS_EmptySet
  <2>5. Cardinality(Holders) <= rtos_init_counter
    BY DEF IInv, Counted
  <2>6. rtos_init_counter' \in Nat /\ Cardinality(Holders') <= rtos_init_counter'
    BY <1>3, <2>1, <2>2, <2>4, <2>5, HoldersFinite
  <2>7. CASE rtos_init_counter <= 1
    <3>1. \A u \in Tasks : env_pc'[u] = "out"
      BY <1>3, <2>2, <2>5, <2>7, HoldersFinite DEF Holders
    <3>2. env_sema' = 0 /\ rtos_init_counter' = 0
      BY <1>3, <1>12, <2>1, <2>4, <2>5, <2>7, HoldersFinite DEF EnvDeinit
    <3>3. Typed' /\ Counted'
      BY <1>2, <1>3, <2>1, <2>6, <3>2 DEF Typed, Counted, Steps
    <3>4. Started'
      BY <3>1, <3>2 DEF Started, Past
    <3> QED
      BY <3>3, <3>4 DEF IInv
  <2>8. CASE ~(rtos_init_counter <= 1)
    <3>1. UNCHANGED <<platform_lock, live, env_sema>>
      BY <1>12, <2>8 DEF EnvDeinit
    <3>2. live
      BY <1>3, <2>8 DEF IInv, Counted
    <3>3. Typed' /\ Counted'
      BY <1>2, <1>3, <2>1, <2>6, <3>1, <3>2 DEF Typed, Counted, Steps
    <3>4. Started'
      BY <1>2, <1>3, <1>4, <2>1, <3>1 DEF Started, Sound, Past
    <3> QED
      BY <3>3, <3>4 DEF IInv
  <2> QED
    BY <2>7, <2>8
<1>13. ASSUME NEW t \in Tasks, NEW l \in Tasks, WaitForLinkUp(t, l) PROVE IInv'
  <2>1. /\ env_pc[t] = "in" /\ link' = [link EXCEPT ![t] = l]
        /\ UNCHANGED <<rtos_init_counter, live, env_sema, platform_lock, vq_link_state>>
    BY <1>13 DEF WaitForLinkUp, env
  <2>2. \/ env_pc' = [env_pc EXCEPT ![t] = "clear"]
        \/ env_pc' = [env_pc EXCEPT ![t] = "check"]
    BY <1>13 DEF WaitForLinkUp, Goto
  <2>3. Sound => platform_lock
    BY <1>4, <2>1 DEF Past
  <2> QED
    BY <1>2, <1>3, <2>1, <2>2, <2>3, OnItsWay DEF Steps
<1>14. ASSUME NEW t \in Tasks, ClearBits(t) \/ Check(t) \/ WaitBits(t) PROVE IInv'
  <2>1. /\ env_pc[t] \in {"clear", "check", "wait"}
        /\ UNCHANGED <<rtos_init_counter, live, env_sema, platform_lock, vq_link_state, link>>
    BY <1>14 DEF ClearBits, Check, WaitBits, env
  <2>2. \E at \in {"in", "check", "wait", "blocked"} : env_pc' = [env_pc EXCEPT ![t] = at]
    BY <1>14 DEF ClearBits, Check, WaitBits, Goto
  <2>3. Sound => platform_lock
    BY <1>4, <2>1 DEF Past
  <2> QED
    BY <1>2, <1>3, <2>1, <2>2, <2>3, OnItsWay DEF Steps
<1>15. ASSUME NEW l \in Tasks, TxCallback(l) PROVE IInv'
  <2>1. /\ env_pc' = [t \in Tasks |-> IF env_pc[t] = "blocked" /\ link[t] = l THEN "in" ELSE env_pc[t]]
        /\ vq_link_state' = [vq_link_state EXCEPT ![l] = "up"]
        /\ UNCHANGED <<rtos_init_counter, live, env_sema, platform_lock, link>>
    BY <1>15 DEF TxCallback, env
  <2>2. Holders' = Holders
    BY <1>3, <2>1 DEF Holders
  <2>3. Typed'
    BY <1>2, <1>3, <2>1 DEF Typed, Steps
  <2>4. Counted'
    BY <2>1, <2>2 DEF IInv, Counted
  <2>5. Started'
    BY <1>2, <1>3, <1>4, <2>1 DEF Started, Sound, Past
  <2> QED
    BY <2>3, <2>4, <2>5 DEF IInv
<1> QED
  BY <1>5, <1>6, <1>7, <1>8, <1>9, <1>10, <1>11, <1>12, <1>13, <1>14, <1>15 DEF EnvNext, Task, Step

\* No task uses an object that the last env_deinit has deleted, and with a
\* sound port whoever got 0 from env_init finds the platform's lock.
THEOREM EnvReady == EnvSpec => [](PlatformReady /\ HandlesLive)
<1>1. IInv => PlatformReady /\ HandlesLive
  <2> SUFFICES ASSUME IInv PROVE PlatformReady /\ HandlesLive
    OBVIOUS
  <2>1. PlatformReady
    BY DEF IInv, Started, PlatformReady, Inside, Past
  <2>2. ASSUME NEW t \in Tasks, env_pc[t] # "out" PROVE live
    <3>1. Cardinality(Holders) # 0
      BY <2>2, HoldersFinite, FS_EmptySet DEF Holders
    <3>2. rtos_init_counter # 0
      BY <3>1, HoldersFinite DEF IInv, Typed, Counted
    <3> QED
      BY <3>2 DEF IInv, Counted
  <2>3. HandlesLive
    BY <2>2 DEF HandlesLive
  <2> QED
    BY <2>1, <2>3
<1> QED
  BY <1>1, IInvInit, IInvNext, PTL DEF EnvSpec

-----------------------------------------------------------------------------
(***************************************************************************)
(* Waiting for a link with a port that clears the bit first.               *)
(***************************************************************************)
LEMMA BitsInit == EnvInit => BitsCurrent
  BY DEF EnvInit, BitsCurrent, Waiting

LEMMA BitsNext == IInv /\ BitsCurrent /\ [EnvNext]_<<port, rtosVars>> => BitsCurrent'
<1> SUFFICES ASSUME IInv, BitsCurrent, [EnvNext]_<<port, rtosVars>>, port'.clears,
                    NEW u \in Tasks, Waiting(u)', link'[u] \in event_group'
             PROVE  vq_link_state'[link'[u]] = "up"
  BY DEF BitsCurrent, Waiting
<1> USE DEF IInv, Typed, Waiting, Goto
<1>1. CASE UNCHANGED <<port, rtosVars>>
  BY <1>1 DEF rtosVars, env, BitsCurrent
<1> SUFFICES ASSUME EnvNext PROVE vq_link_state'[link'[u]] = "up"
  BY <1>1
<1>0. port.clears
  BY DEF EnvNext
<1> USE <1>0
<1>2. ASSUME NEW t \in Tasks,
             \/ InitFirst(t) \/ EnvInitAgain(t) \/ PlatformInit(t) \/ InitGive(t)
             \/ InitTake(t) \/ InitGiveBack(t)
      PROVE  vq_link_state'[link'[u]] = "up"
  <2>1. u # t /\ env_pc'[u] = env_pc[u] /\ UNCHANGED <<link, vq_link_state>>
    BY <1>2 DEF InitFirst, EnvInitAgain, PlatformInit, InitGive, InitTake, InitGiveBack
  <2>2. event_group' \subseteq event_group
    BY <1>2 DEF InitFirst, EnvInitAgain, PlatformInit, InitGive, InitTake, InitGiveBack
  <2> QED
    BY <2>1, <2>2 DEF BitsCurrent
<1>3. ASSUME NEW t \in Tasks, Create(t) PROVE vq_link_state'[link'[u]] = "up"
  <2>1. vq_link_state[link[u]] = "up" /\ link' = link
    BY <1>3 DEF Create, env, BitsCurrent
  <2> QED
    BY <1>3, <2>1 DEF Create
<1>4. ASSUME NEW t \in Tasks, EnvDeinit(t) PROVE vq_link_state'[link'[u]] = "up"
  <2>1. u # t /\ env_pc'[u] = env_pc[u] /\ link' = link
    BY <1>4 DEF EnvDeinit
  <2>2. link[u] # t
    BY <1>4, <2>1 DEF EnvDeinit, Quiet
  <2>3. event_group' \subseteq event_group
    BY <1>4 DEF EnvDeinit
  <2> QED
    BY <1>4, <2>1, <2>2, <2>3 DEF EnvDeinit, BitsCurrent
<1>5. ASSUME NEW t \in Tasks, NEW l \in Tasks, WaitForLinkUp(t, l) PROVE vq_link_state'[link'[u]] = "up"
  <2>1. u # t
    BY <1>5 DEF WaitForLinkUp
  <2> QED
    BY <1>5, <2>1 DEF WaitForLinkUp, env, BitsCurrent
<1>6. ASSUME NEW t \in Tasks, ClearBits(t) PROVE vq_link_state'[link'[u]] = "up"
  <2>1. CASE u = t
    BY <1>6, <2>1 DEF ClearBits
  <2>2. CASE u # t
    BY <1>6, <2>2 DEF ClearBits, BitsCurrent
  <2> QED
    BY <2>1, <2>2
<1>7. ASSUME NEW t \in Tasks, Check(t) \/ WaitBits(t) PROVE vq_link_state'[link'[u]] = "up"
  <2>1. Waiting(u) /\ UNCHANGED <<link, vq_link_state, event_group>>
    BY <1>7 DEF Check, WaitBits
  <2> QED
    BY <2>1 DEF BitsCurrent
<1>8. ASSUME NEW l \in Tasks, TxCallback(l) PROVE vq_link_state'[link'[u]] = "up"
  <2>1. Waiting(u) /\ link' = link
    BY <1>8 DEF TxCallback
  <2> QED
    BY <1>8, <2>1 DEF TxCallback, BitsCurrent
<1> QED
  BY <1>2, <1>3, <1>4, <1>5, <1>6, <1>7, <1>8 DEF EnvNext, Task, Step

\* With a port that clears the bit before it looks at the link, nobody
\* returns from env_wait_for_link_up before the link is up.
THEOREM SeenLinkIsUp == EnvSpec => SeenIsUp
<1>1. IInv /\ BitsCurrent /\ [EnvNext]_<<port, rtosVars>> =>
        [\A t \in Tasks :
             port.clears /\ env_pc[t] \in {"check", "wait", "blocked"} /\ env_pc'[t] = "in" =>
                 vq_link_state'[link[t]] = "up"]_rtosVars
  <2> SUFFICES ASSUME IInv, BitsCurrent, EnvNext, port.clears,
                      NEW u \in Tasks, Waiting(u), env_pc'[u] = "in"
               PROVE  vq_link_state'[link[u]] = "up"
    BY DEF Waiting
  <2> USE DEF IInv, Typed, Waiting, Goto
  <2>1. ASSUME NEW t \in Tasks, Check(t) PROVE vq_link_state'[link[u]] = "up"
    BY <2>1 DEF Check
  <2>2. ASSUME NEW t \in Tasks, WaitBits(t) PROVE vq_link_state'[link[u]] = "up"
    BY <2>2 DEF WaitBits, BitsCurrent
  <2>3. ASSUME NEW l \in Tasks, TxCallback(l) PROVE vq_link_state'[link[u]] = "up"
    BY <2>3 DEF TxCallback
  <2>4. ASSUME NEW t \in Tasks,
               \/ InitFirst(t) \/ EnvInitAgain(t) \/ PlatformInit(t) \/ InitGive(t)
               \/ InitTake(t) \/ InitGiveBack(t) \/ Create(t) \/ EnvDeinit(t) \/ ClearBits(t)
               \/ \E l \in Tasks : WaitForLinkUp(t, l)
        PROVE  FALSE
    BY <2>4 DEF InitFirst, EnvInitAgain, Called, PlatformInit, InitGive, InitTake, InitGiveBack,
       Create, EnvDeinit, ClearBits, WaitForLinkUp
  <2> QED
    BY <2>1, <2>2, <2>3, <2>4 DEF EnvNext, Task, Step
<1> QED
  BY <1>1, IInvInit, IInvNext, BitsInit, BitsNext, PTL DEF EnvSpec, SeenIsUp

-----------------------------------------------------------------------------
(***************************************************************************)
(* The count of the callers is exact, and the semaphore is never given     *)
(* more often than it was taken.                                           *)
(***************************************************************************)
\* Who has the semaphore and will give it: the first caller, and who took it.
Debts == {"platform", "give", "fail", "giveback"}
Owing == {t \in Tasks : env_pc[t] \in Debts}

Exact == Sound => /\ rtos_init_counter = Cardinality(Holders)
                  /\ \A t \in Tasks : env_pc[t] # "fail"
Paid == /\ event_group \subseteq Tasks
        /\ ~live => env_sema = 0
        /\ env_sema + (IF port.binary THEN 0 ELSE Cardinality(Owing)) <= port.initial + 1

\* One task moves: the number of those that owe changes with it.
LEMMA OwingFinite == IsFiniteSet(Owing) /\ Cardinality(Owing) \in Nat
<1>1. Owing \subseteq Tasks
  BY DEF Owing
<1> QED BY <1>1, FS_Subset, FS_CardinalityType, TasksAssumption

LEMMA OwingMoves ==
  ASSUME NEW t \in Tasks, NEW at \in Steps, env_pc \in [Tasks -> Steps],
         env_pc' = [env_pc EXCEPT ![t] = at]
  PROVE  /\ at \in Debts /\ env_pc[t] \notin Debts => Cardinality(Owing') = Cardinality(Owing) + 1
         /\ at \notin Debts /\ env_pc[t] \in Debts => Cardinality(Owing') = Cardinality(Owing) - 1
         /\ (at \in Debts <=> env_pc[t] \in Debts) => Cardinality(Owing') = Cardinality(Owing)
<1>1. /\ at \in Debts => Owing' = Owing \union {t}
      /\ at \notin Debts => Owing' = Owing \ {t}
  BY DEF Owing
<1>2. t \in Owing <=> env_pc[t] \in Debts
  BY DEF Owing
<1>3. CASE at \in Debts
  BY <1>1, <1>2, <1>3, OwingFinite, FS_AddElement
<1>4. CASE at \notin Debts
  BY <1>1, <1>2, <1>4, OwingFinite, FS_RemoveElement
<1> QED BY <1>3, <1>4

LEMMA ExactInit == EnvInit => Exact /\ Paid
<1> SUFFICES ASSUME EnvInit PROVE Exact /\ Paid
  OBVIOUS
<1>1. Holders = {} /\ Owing = {}
  BY DEF EnvInit, Holders, Owing, Debts
<1>2. Cardinality(Holders) = 0 /\ Cardinality(Owing) = 0
  BY <1>1, FS_EmptySet
<1>3. port.initial \in Nat
  BY PortsAssumption DEF EnvInit
<1> QED BY <1>2, <1>3 DEF EnvInit, Exact, Paid

LEMMA ExactNext == IInv /\ Exact /\ [EnvNext]_<<port, rtosVars>> => Exact'
<1> SUFFICES ASSUME IInv, Exact, [EnvNext]_<<port, rtosVars>>, Sound' PROVE Exact'
  BY DEF Exact
<1>1. CASE UNCHANGED <<port, rtosVars>>
  BY <1>1 DEF rtosVars, env, Exact, Holders, Sound
<1> SUFFICES ASSUME EnvNext PROVE Exact'
  BY <1>1
<1>2. Sound /\ rtos_init_counter = Cardinality(Holders) /\ \A t \in Tasks : env_pc[t] # "fail"
  BY DEF EnvNext, Exact, Sound
<1>3. env_pc \in [Tasks -> Steps] /\ rtos_init_counter \in Nat
  BY DEF IInv, Typed
<1>4. ASSUME NEW t \in Tasks, InitFirst(t) \/ EnvInitAgain(t) PROVE Exact'
  <2>1. /\ env_pc[t] = "out" /\ rtos_init_counter' = rtos_init_counter + 1
        /\ \E at \in {"platform", "take"} : env_pc' = [env_pc EXCEPT ![t] = at]
    BY <1>4 DEF InitFirst, EnvInitAgain, Called, Goto
  <2>2. Cardinality(Holders') = Cardinality(Holders) + 1
    BY <1>3, <2>1, Entering DEF Steps
  <2> QED BY <1>2, <1>3, <2>1, <2>2 DEF Exact
<1>5. ASSUME NEW t \in Tasks, EnvDeinit(t) PROVE Exact'
  <2>1. /\ env_pc[t] = "in" /\ rtos_init_counter' = rtos_init_counter - 1
        /\ env_pc' = [env_pc EXCEPT ![t] = "out"]
    BY <1>5 DEF EnvDeinit, Goto
  <2>2. Cardinality(Holders') = Cardinality(Holders) - 1
    BY <1>3, <2>1, Leaving
  <2> QED BY <1>2, <1>3, <2>1, <2>2 DEF Exact
<1>6. ASSUME NEW t \in Tasks, Create(t) PROVE Exact'
  BY <1>2, <1>6 DEF Create, env, Exact, Holders
<1>7. ASSUME NEW t \in Tasks, Step(t) \/ \E l \in Tasks : WaitForLinkUp(t, l) PROVE Exact'
  <2>1. env_pc[t] # "out" /\ rtos_init_counter' = rtos_init_counter
    BY <1>7 DEF Step, PlatformInit, InitGive, InitTake, InitGiveBack, ClearBits, Check, WaitBits,
       WaitForLinkUp, env
  <2>2. \E at \in Steps \ {"out", "fail"} : env_pc' = [env_pc EXCEPT ![t] = at]
    BY <1>2, <1>7 DEF Step, PlatformInit, InitGive, InitTake, InitGiveBack, ClearBits, Check, WaitBits,
       WaitForLinkUp, Goto, Steps, Sound
  <2>3. Holders' = Holders
    BY <1>3, <2>1, <2>2, GoingOn
  <2> QED BY <1>2, <1>3, <2>1, <2>2, <2>3 DEF Exact
<1>8. ASSUME NEW l \in Tasks, TxCallback(l) PROVE Exact'
  <2>1. /\ env_pc' = [t \in Tasks |-> IF env_pc[t] = "blocked" /\ link[t] = l THEN "in" ELSE env_pc[t]]
        /\ rtos_init_counter' = rtos_init_counter
    BY <1>8 DEF TxCallback, env
  <2>2. Holders' = Holders
    BY <1>3, <2>1 DEF Holders
  <2> QED BY <1>2, <2>1, <2>2 DEF Exact
<1> QED BY <1>4, <1>5, <1>6, <1>7, <1>8 DEF EnvNext, Task

LEMMA PaidNext == IInv /\ HandlesLive /\ Paid /\ [EnvNext]_<<port, rtosVars>> => Paid'
<1> SUFFICES ASSUME IInv, HandlesLive, Paid, [EnvNext]_<<port, rtosVars>> PROVE Paid'
  OBVIOUS
<1>1. CASE UNCHANGED <<port, rtosVars>>
  BY <1>1 DEF rtosVars, env, Paid, Owing, Debts
<1> SUFFICES ASSUME EnvNext PROVE Paid'
  BY <1>1
<1>2. port' = port /\ port.initial \in Nat
  BY PortsAssumption DEF EnvNext, IInv, Typed
<1>3. env_pc \in [Tasks -> Steps] /\ env_sema \in Nat
  BY DEF IInv, Typed
<1>4. Cardinality(Owing) \in Nat
  BY OwingFinite
<1>5. /\ event_group \subseteq Tasks /\ (~live => env_sema = 0)
      /\ env_sema + (IF port.binary THEN 0 ELSE Cardinality(Owing)) <= port.initial + 1
  BY DEF Paid
<1>6. ASSUME NEW t \in Tasks, InitFirst(t) PROVE Paid'
  <2>1. /\ env_pc[t] = "out" /\ env_pc' = [env_pc EXCEPT ![t] = "platform"] /\ rtos_init_counter = 0
        /\ live' = TRUE /\ env_sema' = port.initial /\ event_group' = {}
    BY <1>6 DEF InitFirst, Called, Goto
  <2>2. Cardinality(Owing) = 0
    <3>1. Cardinality(Holders) = 0
      BY <2>1, HoldersFinite DEF IInv, Counted
    <3>2. Holders = {}
      BY <3>1, HoldersFinite, FS_EmptySet
    <3>3. Owing = {}
      BY <3>2 DEF Owing, Debts, Holders
    <3> QED BY <3>3, FS_EmptySet
  <2>3. Cardinality(Owing') = Cardinality(Owing) + 1
    BY <1>3, <2>1, OwingMoves DEF Steps, Debts
  <2> QED BY <1>2, <2>1, <2>2, <2>3 DEF Paid
<1>7. ASSUME NEW t \in Tasks, EnvInitAgain(t) \/ PlatformInit(t) PROVE Paid'
  <2>1. /\ UNCHANGED <<live, env_sema, event_group>>
        /\ \/ env_pc[t] = "out" /\ env_pc' = [env_pc EXCEPT ![t] = "take"]
           \/ env_pc[t] = "platform" /\ \E at \in {"give", "fail"} : env_pc' = [env_pc EXCEPT ![t] = at]
    BY <1>7 DEF EnvInitAgain, PlatformInit, Called, Goto
  <2>2. Cardinality(Owing') = Cardinality(Owing)
    BY <1>3, <1>4, <2>1, OwingMoves DEF Steps, Debts
  <2> QED BY <1>2, <1>5, <2>1, <2>2 DEF Paid
<1>8. ASSUME NEW t \in Tasks, InitGive(t) \/ InitGiveBack(t) PROVE Paid'
  <2>1. /\ env_pc[t] \in {"give", "fail", "giveback"} /\ UNCHANGED <<live, event_group>> /\ Give
        /\ \E at \in {"in", "out"} : env_pc' = [env_pc EXCEPT ![t] = at]
    BY <1>8 DEF InitGive, InitGiveBack, Goto
  <2>2. Cardinality(Owing') = Cardinality(Owing) - 1
    BY <1>3, <1>4, <2>1, OwingMoves DEF Steps, Debts
  <2>3. live
    BY <2>1 DEF HandlesLive
  <2>4. env_sema' + (IF port.binary THEN 0 ELSE Cardinality(Owing')) <= port.initial + 1
    BY <1>2, <1>3, <1>4, <1>5, <2>1, <2>2 DEF Give
  <2> QED BY <1>2, <1>5, <2>1, <2>3, <2>4 DEF Paid
<1>9. ASSUME NEW t \in Tasks, InitTake(t) PROVE Paid'
  <2>1. /\ env_pc[t] = "take" /\ env_pc' = [env_pc EXCEPT ![t] = "giveback"]
        /\ env_sema > 0 /\ env_sema' = env_sema - 1 /\ UNCHANGED <<live, event_group>>
    BY <1>9 DEF InitTake, Goto
  <2>2. Cardinality(Owing') = Cardinality(Owing) + 1
    BY <1>3, <1>4, <2>1, OwingMoves DEF Steps, Debts
  <2> QED BY <1>2, <1>3, <1>4, <1>5, <2>1, <2>2 DEF Paid
<1>10. ASSUME NEW t \in Tasks, Create(t) PROVE Paid'
  BY <1>2, <1>5, <1>10 DEF Create, env, Paid, Owing, Debts
<1>11. ASSUME NEW t \in Tasks, EnvDeinit(t) PROVE Paid'
  <2>1. /\ env_pc[t] = "in" /\ env_pc' = [env_pc EXCEPT ![t] = "out"]
        /\ \/ ~live' /\ env_sema' = 0 /\ event_group' = {}
           \/ UNCHANGED <<live, env_sema, event_group>>
    BY <1>11 DEF EnvDeinit, Goto
  <2>2. Cardinality(Owing') = Cardinality(Owing)
    BY <1>3, <1>4, <2>1, OwingMoves DEF Steps, Debts
  <2> QED BY <1>2, <1>3, <1>4, <1>5, <2>1, <2>2 DEF Paid
<1>12. ASSUME NEW t \in Tasks, \/ ClearBits(t) \/ Check(t) \/ WaitBits(t)
                               \/ \E l \in Tasks : WaitForLinkUp(t, l)
       PROVE  Paid'
  <2>1. /\ env_pc[t] \in {"in", "clear", "check", "wait"} /\ UNCHANGED <<live, env_sema>>
        /\ \E at \in {"in", "clear", "check", "wait", "blocked"} : env_pc' = [env_pc EXCEPT ![t] = at]
        /\ event_group' \subseteq event_group
    BY <1>12 DEF ClearBits, Check, WaitBits, WaitForLinkUp, Goto, env
  <2>2. Cardinality(Owing') = Cardinality(Owing)
    BY <1>3, <1>4, <2>1, OwingMoves DEF Steps, Debts
  <2> QED BY <1>2, <1>5, <2>1, <2>2 DEF Paid
<1>13. ASSUME NEW l \in Tasks, TxCallback(l) PROVE Paid'
  <2>1. /\ env_pc' = [t \in Tasks |-> IF env_pc[t] = "blocked" /\ link[t] = l THEN "in" ELSE env_pc[t]]
        /\ event_group' = event_group \union {l} /\ UNCHANGED <<live, env_sema>>
    BY <1>13 DEF TxCallback, env
  <2>2. Owing' = Owing
    BY <1>3, <2>1 DEF Owing, Debts
  <2> QED BY <1>2, <1>5, <2>1, <2>2 DEF Paid
<1> QED BY <1>6, <1>7, <1>8, <1>9, <1>10, <1>11, <1>12, <1>13 DEF EnvNext, Task, Step

\* A semaphore is created given once at most.
CreatedOnce == \A p \in Ports : p.initial <= 1

\* Whoever is between env_init and env_deinit is counted and nobody else is, as
\* long as no env_init fails; the semaphore is given twice at most and never
\* once it is deleted: EnvTypeOK.
THEOREM EnvCounts == ASSUME CreatedOnce PROVE EnvSpec => []EnvTypeOK
<1>1. IInv => HandlesLive
  <2> SUFFICES ASSUME IInv, NEW t \in Tasks, env_pc[t] # "out" PROVE live
    BY DEF HandlesLive
  <2>1. Cardinality(Holders) # 0
    BY HoldersFinite, FS_EmptySet DEF Holders
  <2> QED BY <2>1, HoldersFinite DEF IInv, Typed, Counted
<1>2. IInv /\ Exact /\ Paid => EnvTypeOK
  <2> SUFFICES ASSUME IInv, Exact, Paid PROVE EnvTypeOK
    OBVIOUS
  <2>1. port \in Ports /\ port.initial \in Nat /\ env_sema \in Nat /\ port.initial <= 1
    BY PortsAssumption, CreatedOnce DEF IInv, Typed, CreatedOnce
  <2>2. env_sema \in 0..2
    BY <2>1, OwingFinite DEF Paid
  <2> QED BY <2>2 DEF EnvTypeOK, Exact, Paid, Holders
<1> QED BY <1>1, <1>2, IInvInit, IInvNext, ExactInit, ExactNext, PaidNext, PTL DEF EnvSpec

-----------------------------------------------------------------------------
(* Sequences no element of which occurs twice.                             *)

OnceIn(s) == \A j, k \in 1..Len(s) : s[j] = s[k] => j = k

LEMMA AppendOnce ==
  ASSUME NEW S, NEW s \in Seq(S), NEW b \in S
  PROVE  /\ Append(s, b) \in Seq(S) /\ Append(s, b) # <<>>
         /\ Range(Append(s, b)) = Range(s) \cup {b}
         /\ OnceIn(s) /\ b \notin Range(s) => OnceIn(Append(s, b))
<1>1. /\ Append(s, b) \in Seq(S) /\ Len(Append(s, b)) = Len(s) + 1 /\ Len(s) \in Nat
      /\ \A k \in 1..Len(s) : Append(s, b)[k] = s[k]
      /\ Append(s, b)[Len(s) + 1] = b
  BY AppendProperties, LenProperties
<1>2. DOMAIN s = 1..Len(s) /\ DOMAIN Append(s, b) = 1..(Len(s) + 1)
  BY <1>1, LenProperties
<1>3. Range(Append(s, b)) = Range(s) \cup {b}
  BY <1>1, <1>2 DEF Range
<1>4. OnceIn(s) /\ b \notin Range(s) => OnceIn(Append(s, b))
  BY <1>1, <1>2 DEF OnceIn, Range
<1> QED BY <1>1, <1>3, <1>4

LEMMA TailOnce ==
  ASSUME NEW S, NEW s \in Seq(S), s # <<>>
  PROVE  /\ Tail(s) \in Seq(S) /\ Head(s) \in S
         /\ Range(s) = Range(Tail(s)) \cup {Head(s)}
         /\ OnceIn(s) => OnceIn(Tail(s)) /\ Head(s) \notin Range(Tail(s))
<1>1. /\ Tail(s) \in Seq(S) /\ Head(s) = s[1] /\ Head(s) \in S
      /\ Len(s) \in Nat \ {0} /\ Len(Tail(s)) = Len(s) - 1
      /\ \A k \in 1..(Len(s) - 1) : Tail(s)[k] = s[k + 1]
  BY HeadTailProperties, EmptySeq, LenProperties
<1>2. DOMAIN s = 1..Len(s) /\ DOMAIN Tail(s) = 1..(Len(s) - 1)
  BY <1>1, LenProperties
<1>3. Range(s) = Range(Tail(s)) \cup {Head(s)}
  <2>1. \A k \in 1..Len(s) : k = 1 \/ (k - 1 \in 1..(Len(s) - 1) /\ s[k] = Tail(s)[k - 1])
    BY <1>1
  <2>2. \A k \in 1..(Len(s) - 1) : k + 1 \in 1..Len(s) /\ 1 \in 1..Len(s)
    BY <1>1
  <2>3. ASSUME NEW x \in Range(s) PROVE x \in Range(Tail(s)) \cup {Head(s)}
    <3>1. PICK k \in 1..Len(s) : x = s[k]
      BY <1>2 DEF Range
    <3> QED BY <1>1, <1>2, <2>1, <3>1 DEF Range
  <2>4. Range(Tail(s)) \cup {Head(s)} \subseteq Range(s)
    BY <1>1, <1>2, <2>2 DEF Range
  <2> QED BY <2>3, <2>4
<1>4. OnceIn(s) => OnceIn(Tail(s)) /\ Head(s) \notin Range(Tail(s))
  BY <1>1, <1>2 DEF OnceIn, Range
<1> QED BY <1>1, <1>3, <1>4

\* The elements of one sequence after another.
LEMMA Joined ==
  ASSUME NEW S, NEW s \in Seq(S), NEW t \in Seq(S), NEW k, k = Len(s), NEW l, l = Len(t)
  PROVE  /\ Len(s \o t) = k + l
         /\ \A n \in 1..k : (s \o t)[n] = s[n]
         /\ \A n \in (k + 1)..(k + l) : n - k \in 1..l /\ (s \o t)[n] = t[n - k]
<1>1. k \in Nat /\ l \in Nat
  BY LenProperties
<1>2. /\ Len(s \o t) = k + l
      /\ \A n \in 1..(k + l) : (s \o t)[n] = IF n <= k THEN s[n] ELSE t[n - k]
  BY ConcatProperties
<1> QED BY <1>1, <1>2

\* Such a sequence is not longer than the set of what may be in it.
LEMMA NotLonger ==
  ASSUME NEW S, IsFiniteSet(S), NEW s, s \in [1..Len(s) -> S], Len(s) \in Nat, OnceIn(s)
  PROVE  Len(s) <= Cardinality(S)
<1> DEFINE n == Len(s)
<1>1. IsFiniteSet(1..n) /\ Cardinality(1..n) = n
  <2>1. 1 \in Int /\ n \in Int
    OBVIOUS
  <2>2. IsFiniteSet(1..n) /\ Cardinality(1..n) = IF 1 > n THEN 0 ELSE n - 1 + 1
    BY <2>1, FS_Interval
  <2> QED BY <2>2
<1>2. Cardinality(S) \in Nat
  BY FS_CardinalityType
<1>3. ~(Cardinality(S) < n)
  <2> SUFFICES ASSUME Cardinality(S) < n PROVE FALSE
    OBVIOUS
  <2>1. \E j, k \in 1..n : j # k /\ s[j] = s[k]
    BY <1>1, FS_PigeonHole
  <2> QED BY <2>1 DEF OnceIn
<1> QED BY <1>2, <1>3

-----------------------------------------------------------------------------
(* Telemetry.                                                              *)

\* A buffer is in one place: with the master's stock, on its way to it, or
\* with the sender, which alone writes into it.
OneBuffer ==
    /\ OnceIn(tx_avail) /\ OnceIn(Outstanding)
    /\ Range(tx_avail) \cap Range(Outstanding) = {}
    /\ send_pc = "fill" => buf \notin Range(tx_avail) \cup Range(Outstanding)

TeleBuffers ==
    /\ tx_avail \in Seq(Desc) /\ tx_used \in Seq(Desc)
    /\ buf \in Desc \union {NoDesc} /\ (send_pc = "fill" => buf \in Desc)
    /\ isr_pc = "msg" => isr_desc \in Desc
    /\ tx_data \in [Desc -> Seqno]
    /\ tx_remote = IF send_pc = "fill" THEN {buf} ELSE {}
    /\ tx_master = IF isr_pc = "msg" THEN {isr_desc} ELSE {}
    /\ accepted \in Seq(Seqno)
    /\ OneBuffer /\ AcceptedArrive

\* A call that looks for a buffer has waited for the ticks it has counted, and
\* it sleeps only while some of its time is left.
Waits == /\ send_pc = "alloc" => tick_count = 0 /\ waited = 0
         /\ send_pc = "sleep" => tick_count = waited /\ waited < timeout

TeleCall ==
    /\ send_pc \in {"idle", "alloc", "sleep", "fill", "kick"} /\ msg \in Seqno
    /\ timeout \in Timeouts
    /\ tick_count \in 0..(TickMod - 1) /\ waited \in 0..TickMod
    /\ late \in 0..Late /\ b2a_status \in BOOLEAN
    /\ isr_pc \in {"idle", "rx", "msg", "clear"}
    /\ Waits

TeleInv == TeleBuffers /\ TeleCall

LEMMA TeleInvGives == TeleInv => TeleTypeOK /\ AcceptedArrive
  BY DEF TeleInv, TeleBuffers, TeleCall, TeleTypeOK

LEMMA TeleInvInit == TeleInit => TeleInv
<1> SUFFICES ASSUME TeleInit PROVE TeleInv
  OBVIOUS
<1>1. tx_avail \in Seq(Desc) /\ Len(tx_avail) = N /\ \A k \in 1..N : tx_avail[k] = k - 1
  BY NAssumption DEF TeleInit, Desc
<1>2. 0 \in Seqno /\ NoDesc \notin Desc
  BY MsgModAssumption, NAssumption DEF Seqno, NoDesc, Desc
<1>3. Outstanding = <<>> /\ Len(Outstanding) = 0 /\ Range(Outstanding) = {}
  BY DEF TeleInit, Outstanding, Range
<1>4. OneBuffer
  <2>1. OnceIn(tx_avail)
    BY <1>1, NAssumption DEF OnceIn
  <2>2. OnceIn(Outstanding)
    BY <1>3 DEF OnceIn
  <2> QED BY <1>3, <2>1, <2>2 DEF TeleInit, OneBuffer
<1>5. AcceptedArrive
  <2>1. accepted = <<>> /\ DOMAIN Outstanding = {}
    BY <1>3 DEF TeleInit
  <2>2. [k \in {} |-> tx_data[Outstanding[k]]] = <<>>
    OBVIOUS
  <2> QED BY <2>1, <2>2 DEF AcceptedArrive
<1>6. TeleBuffers
  BY <1>1, <1>2, <1>4, <1>5 DEF TeleInit, TeleBuffers
<1>7. TeleCall
  <2>1. timeout \in Timeouts /\ timeout \in 0..(TickMod - 1) /\ TickMod \in Nat
    BY TimeoutAssumption DEF TeleInit
  <2>2. 0 \in 0..(TickMod - 1) /\ 0 \in 0..TickMod /\ 0 \in 0..Late
    BY <2>1, LateAssumption
  <2> QED BY <1>2, <2>1, <2>2 DEF TeleInit, TeleCall, Waits
<1> QED BY <1>6, <1>7 DEF TeleInv

\* The time of a call.
LEMMA TeleCallStep == TeleInv /\ [TeleNext]_teleVars => TeleCall'
<1> SUFFICES ASSUME TeleInv, [TeleNext]_teleVars PROVE TeleCall'
  OBVIOUS
<1>0. TeleCall /\ TickMod \in Nat /\ timeout \in 0..(TickMod - 1) /\ Late \in Nat
  BY TimeoutAssumption, LateAssumption DEF TeleInv, TeleCall
<1> USE DEF TeleCall, Waits
<1>1. CASE UNCHANGED teleVars
  BY <1>0, <1>1 DEF teleVars, sendVars, callVars, masterVars
<1>2. ASSUME NEW t \in Timeouts, SendCall(t) PROVE TeleCall'
  <2>1. (msg + 1) % MsgMod \in Seqno /\ 0 \in 0..(TickMod - 1) /\ 0 \in 0..TickMod
    BY <1>0, MsgModAssumption, NAssumption DEF Seqno
  <2> QED BY <1>0, <1>2, <2>1 DEF SendCall, masterVars
<1>3. CASE SendAlloc
  BY <1>0, <1>3 DEF SendAlloc, GetBuffer, callVars, masterVars
<1>4. CASE SendSleep
  <2>1. tick_count + 1 \in 0..(TickMod - 1) /\ (tick_count + 1) % TickMod = tick_count + 1
    BY <1>0, <1>4 DEF SendSleep
  <2> QED BY <1>0, <1>4, <2>1 DEF SendSleep, GetBuffer, GivesUp, RL_MS_PER_INTERVAL, masterVars
<1>5. CASE SendFill
  BY <1>0, <1>5 DEF SendFill, callVars, masterVars
<1>6. CASE SendKick
  BY <1>0, <1>6 DEF SendKick, callVars, masterVars
<1>7. CASE HandlerNext
  <2>1. UNCHANGED <<sendVars, callVars>> /\ late' \in {0, late}
    BY <1>7 DEF HandlerNext, HandlerEnter, HandlerTake, HandlerFree, HandlerClear
  <2>2. b2a_status' \in BOOLEAN /\ isr_pc' \in {"idle", "rx", "msg", "clear"}
    BY <1>0, <1>7 DEF HandlerNext, HandlerEnter, HandlerTake, HandlerFree, HandlerClear
  <2> QED BY <1>0, <2>1, <2>2 DEF sendVars, callVars
<1> QED BY <1>1, <1>2, <1>3, <1>4, <1>5, <1>6, <1>7 DEF TeleNext, SendNext

\* What is on its way to the master.
LEMMA OutstandingIs ==
  ASSUME TeleBuffers
  PROVE  /\ Outstanding \in Seq(Desc)
         /\ isr_pc # "msg" => Outstanding = tx_used
         /\ isr_pc = "msg" => /\ isr_desc \in Desc /\ Outstanding # <<>>
                              /\ Head(Outstanding) = isr_desc
                              /\ Tail(Outstanding) = tx_used
<1>1. CASE isr_pc # "msg"
  BY <1>1 DEF TeleBuffers, Outstanding
<1>2. CASE isr_pc = "msg"
  <2>1. isr_desc \in Desc /\ tx_used \in Seq(Desc)
    BY <1>2 DEF TeleBuffers
  <2>2. Outstanding = <<isr_desc>> \o tx_used
    BY <1>2 DEF Outstanding
  <2> QED BY <1>2, <2>1, <2>2
<1> QED BY <1>1, <1>2

\* The sender gets a buffer.
LEMMA GetBufferKeeps ==
  ASSUME TeleBuffers, send_pc # "fill", GetBuffer, UNCHANGED <<tx_data, masterVars, accepted>>
  PROVE  TeleBuffers'
<1>1. /\ tx_avail # <<>> /\ tx_avail' = Tail(tx_avail) /\ buf' = Head(tx_avail)
      /\ send_pc' = "fill" /\ tx_remote' = tx_remote \cup {Head(tx_avail)}
      /\ UNCHANGED <<tx_used, tx_master, isr_pc, isr_desc, tx_data, accepted>>
  BY DEF GetBuffer, TxVq!Take, masterVars
<1>2. tx_avail \in Seq(Desc) /\ OneBuffer /\ AcceptedArrive /\ tx_remote = {}
  BY DEF TeleBuffers
<1>3. Outstanding' = Outstanding
  BY <1>1 DEF Outstanding
<1>4. /\ Tail(tx_avail) \in Seq(Desc) /\ Head(tx_avail) \in Desc
      /\ Range(tx_avail) = Range(Tail(tx_avail)) \cup {Head(tx_avail)}
      /\ OnceIn(Tail(tx_avail)) /\ Head(tx_avail) \notin Range(Tail(tx_avail))
  BY <1>1, <1>2, TailOnce DEF OneBuffer
<1>5. OneBuffer'
  <2>1. OnceIn(tx_avail') /\ OnceIn(Outstanding')
    BY <1>1, <1>2, <1>3, <1>4 DEF OneBuffer
  <2> QED BY <1>1, <1>2, <1>3, <1>4, <2>1 DEF OneBuffer, OnceIn
<1>6. AcceptedArrive'
  BY <1>1, <1>2, <1>3 DEF AcceptedArrive
<1> QED BY <1>1, <1>2, <1>4, <1>5, <1>6 DEF TeleBuffers

\* It hands over a message: the newest on its way.
LEMMA SendFillKeeps == ASSUME TeleInv, SendFill PROVE TeleBuffers'
<1> DEFINE n == Len(Outstanding)
<1>1. /\ send_pc = "fill" /\ send_pc' = "kick" /\ buf' = NoDesc
      /\ tx_data' = [tx_data EXCEPT ![buf] = msg]
      /\ tx_used' = Append(tx_used, buf) /\ tx_remote' = tx_remote \ {buf}
      /\ accepted' = Append(accepted, msg)
      /\ UNCHANGED <<tx_avail, tx_master, isr_pc, isr_desc>>
  BY DEF SendFill, TxVq!Return, masterVars
<1>2. /\ TeleBuffers /\ OneBuffer /\ AcceptedArrive /\ msg \in Seqno /\ buf \in Desc
      /\ tx_used \in Seq(Desc) /\ Outstanding \in Seq(Desc) /\ n \in Nat
      /\ tx_data \in [Desc -> Seqno] /\ accepted \in Seq(Seqno)
      /\ buf \notin Range(tx_avail) \cup Range(Outstanding)
  BY <1>1, OutstandingIs, LenProperties DEF TeleInv, TeleBuffers, TeleCall, OneBuffer
<1>3. Outstanding' = Append(Outstanding, buf)
  <2>1. CASE isr_pc = "msg"
    <3>1. <<isr_desc>> \o Append(tx_used, buf) = Append(<<isr_desc>> \o tx_used, buf)
      BY <1>2
    <3> QED BY <1>1, <2>1, <3>1 DEF Outstanding
  <2>2. CASE isr_pc # "msg"
    BY <1>1, <1>2, <2>2 DEF Outstanding
  <2> QED BY <2>1, <2>2
<1>4. OneBuffer'
  <2>1. /\ Range(Outstanding') = Range(Outstanding) \cup {buf}
        /\ OnceIn(Outstanding')
    BY <1>2, <1>3, AppendOnce DEF OneBuffer
  <2> QED BY <1>1, <1>2, <2>1 DEF OneBuffer, OnceIn
<1>5. AcceptedArrive'
  <2>1. /\ DOMAIN Outstanding' = 1..(n + 1) /\ Outstanding'[n + 1] = buf
        /\ \A k \in 1..n : Outstanding'[k] = Outstanding[k] /\ Outstanding[k] \in Desc
        /\ DOMAIN Outstanding = 1..n
    BY <1>2, <1>3
  <2>2. \A k \in 1..n : Outstanding[k] # buf
    BY <1>2, <2>1 DEF Range
  <2>3. /\ Len(accepted) = n /\ \A k \in 1..n : accepted[k] = tx_data[Outstanding[k]]
    BY <1>2, <2>1 DEF AcceptedArrive
  <2>4. /\ DOMAIN accepted' = 1..(n + 1) /\ accepted'[n + 1] = msg
        /\ \A k \in 1..n : accepted'[k] = accepted[k]
    BY <1>1, <1>2, <2>3
  <2>5. \A k \in 1..(n + 1) : accepted'[k] = tx_data'[Outstanding'[k]]
    <3>1. \A k \in 1..n : accepted'[k] = tx_data'[Outstanding'[k]]
      BY <1>1, <1>2, <2>1, <2>2, <2>3, <2>4
    <3>2. accepted'[n + 1] = tx_data'[Outstanding'[n + 1]]
      BY <1>1, <1>2, <2>1, <2>4
    <3>3. \A k \in 1..(n + 1) : k \in 1..n \/ k = n + 1
      BY <1>2
    <3> HIDE DEF n
    <3> QED BY <3>1, <3>2, <3>3
  <2>6. accepted' \in Seq(Seqno)
    BY <1>1, <1>2
  <2>7. accepted' = [k \in DOMAIN accepted' |-> accepted'[k]]
    BY <2>6
  <2> HIDE DEF n
  <2> QED BY <2>1, <2>4, <2>5, <2>7 DEF AcceptedArrive
<1>6. /\ tx_data' \in [Desc -> Seqno] /\ tx_used' \in Seq(Desc)
      /\ accepted' \in Seq(Seqno) /\ tx_remote' = {}
  BY <1>1, <1>2 DEF TeleBuffers
<1> QED BY <1>1, <1>2, <1>4, <1>5, <1>6 DEF TeleBuffers

\* The master takes the oldest buffer; its message stays outstanding.
LEMMA HandlerTakeKeeps == ASSUME TeleInv, HandlerTake PROVE TeleBuffers'
<1>1. /\ TeleBuffers /\ isr_pc = "rx" /\ UNCHANGED <<tx_avail, tx_remote, tx_data, send_pc, buf>>
      /\ accepted' = accepted
  BY DEF TeleInv, HandlerTake, TxVq!Reclaim, queue, sendVars
<1>2. CASE tx_used = <<>>
  BY <1>1, <1>2 DEF HandlerTake, queue, TeleBuffers, OneBuffer, OnceIn, AcceptedArrive, Outstanding
<1>3. CASE tx_used # <<>>
  <2>1. /\ tx_used' = Tail(tx_used) /\ isr_desc' = Head(tx_used) /\ isr_pc' = "msg"
        /\ tx_master' = tx_master \cup {Head(tx_used)}
    BY <1>3 DEF HandlerTake, TxVq!Reclaim
  <2>2. tx_used \in Seq(Desc) /\ Tail(tx_used) \in Seq(Desc) /\ Head(tx_used) \in Desc
    BY <1>1, <1>3, TailOnce DEF TeleBuffers
  <2>3. <<Head(tx_used)>> \o Tail(tx_used) = tx_used
    BY <1>3, <2>2
  <2>4. Outstanding' = Outstanding
    BY <1>1, <2>1, <2>2, <2>3 DEF Outstanding
  <2>5. OneBuffer' /\ AcceptedArrive'
    BY <1>1, <2>4 DEF TeleBuffers, OneBuffer, OnceIn, AcceptedArrive
  <2> QED BY <1>1, <2>1, <2>2, <2>5 DEF TeleBuffers
<1> QED BY <1>2, <1>3

\* It is done with the oldest message, and gives the buffer back.
LEMMA HandlerFreeKeeps == ASSUME TeleInv, HandlerFree PROVE TeleBuffers'
<1> DEFINE n == Len(Outstanding)
<1>1. /\ isr_pc = "msg" /\ isr_pc' = "rx" /\ tx_avail' = Append(tx_avail, isr_desc)
      /\ tx_master' = tx_master \ {isr_desc} /\ accepted' = Tail(accepted)
      /\ UNCHANGED <<tx_used, tx_remote, tx_data, send_pc, buf>>
  BY DEF HandlerFree, TxVq!Post, sendVars
<1>2. /\ TeleBuffers /\ OneBuffer /\ AcceptedArrive /\ isr_desc \in Desc
      /\ tx_avail \in Seq(Desc) /\ tx_used \in Seq(Desc)
      /\ tx_data \in [Desc -> Seqno] /\ accepted \in Seq(Seqno)
      /\ Outstanding \in Seq(Desc) /\ Outstanding # <<>>
      /\ Head(Outstanding) = isr_desc /\ Tail(Outstanding) = tx_used
  BY <1>1, OutstandingIs DEF TeleInv, TeleBuffers
<1>3. Outstanding' = Tail(Outstanding)
  BY <1>1, <1>2 DEF Outstanding
<1>4. /\ OnceIn(Tail(Outstanding)) /\ isr_desc \notin Range(Tail(Outstanding))
      /\ Range(Outstanding) = Range(Tail(Outstanding)) \cup {isr_desc}
  BY <1>2, TailOnce DEF OneBuffer
<1>5. OneBuffer'
  <2>1. /\ Range(tx_avail') = Range(tx_avail) \cup {isr_desc} /\ OnceIn(tx_avail')
    BY <1>1, <1>2, <1>4, AppendOnce DEF OneBuffer
  <2>2. OnceIn(Outstanding')
    BY <1>3, <1>4
  <2> QED BY <1>1, <1>2, <1>3, <1>4, <2>1, <2>2 DEF OneBuffer
<1>6. AcceptedArrive'
  <2>1. /\ n \in Nat \ {0} /\ DOMAIN Outstanding = 1..n /\ DOMAIN Outstanding' = 1..(n - 1)
        /\ \A k \in 1..(n - 1) : Outstanding'[k] = Outstanding[k + 1]
    BY <1>2, <1>3, HeadTailProperties, EmptySeq, LenProperties
  <2>2. /\ Len(accepted) = n /\ \A k \in 1..n : accepted[k] = tx_data[Outstanding[k]]
    BY <1>2, <2>1 DEF AcceptedArrive
  <2>3. /\ accepted' \in Seq(Seqno) /\ DOMAIN accepted' = 1..(n - 1)
        /\ \A k \in 1..(n - 1) : accepted'[k] = accepted[k + 1]
    BY <1>1, <1>2, <2>1, <2>2, HeadTailProperties, EmptySeq, LenProperties
  <2>4. \A k \in 1..(n - 1) : accepted'[k] = tx_data'[Outstanding'[k]]
    BY <1>1, <2>1, <2>2, <2>3
  <2>5. accepted' = [k \in DOMAIN accepted' |-> accepted'[k]]
    BY <2>3
  <2> HIDE DEF n
  <2> QED BY <2>1, <2>3, <2>4, <2>5 DEF AcceptedArrive
<1>7. /\ accepted' \in Seq(Seqno) /\ tx_avail' \in Seq(Desc) /\ tx_master' = {}
  <2>1. accepted # <<>>
    BY <1>2 DEF AcceptedArrive
  <2> QED BY <1>1, <1>2, <2>1 DEF TeleBuffers
<1> QED BY <1>1, <1>2, <1>5, <1>6, <1>7 DEF TeleBuffers

\* Every other step moves no message.
LEMMA TeleStill ==
  ASSUME TeleBuffers,
         UNCHANGED <<queue, tx_data, buf, isr_desc, accepted>>,
         send_pc' = "fill" => send_pc = "fill", send_pc = "fill" => send_pc' = "fill",
         isr_pc' = "msg" => isr_pc = "msg", isr_pc = "msg" => isr_pc' = "msg"
  PROVE  TeleBuffers'
<1>1. Outstanding' = Outstanding
  BY DEF Outstanding, queue
<1>2. OneBuffer' /\ AcceptedArrive'
  BY <1>1 DEF TeleBuffers, OneBuffer, OnceIn, AcceptedArrive, queue
<1> QED BY <1>2 DEF TeleBuffers, queue

LEMMA TeleInvNext == TeleInv /\ [TeleNext]_teleVars => TeleInv'
<1> SUFFICES ASSUME TeleInv, [TeleNext]_teleVars PROVE TeleBuffers'
  BY TeleCallStep DEF TeleInv
<1>0. TeleBuffers
  BY DEF TeleInv
<1>1. CASE UNCHANGED teleVars
  BY <1>0, <1>1, TeleStill DEF teleVars, sendVars, masterVars
<1>2. ASSUME NEW t \in Timeouts, SendCall(t) PROVE TeleBuffers'
  BY <1>0, <1>2, TeleStill DEF SendCall, masterVars
<1>3. CASE SendAlloc
  <2>1. send_pc = "alloc" /\ UNCHANGED <<tx_data, masterVars, accepted>>
    BY <1>3 DEF SendAlloc
  <2>2. CASE GetBuffer
    BY <1>0, <2>1, <2>2, GetBufferKeeps
  <2>3. CASE ~GetBuffer
    BY <1>0, <1>3, <2>1, <2>3, TeleStill DEF SendAlloc, masterVars
  <2> QED BY <2>2, <2>3
<1>4. CASE SendSleep
  <2>1. send_pc = "sleep" /\ UNCHANGED <<tx_data, masterVars, accepted>>
    BY <1>4 DEF SendSleep
  <2>2. CASE GetBuffer
    BY <1>0, <2>1, <2>2, GetBufferKeeps
  <2>3. CASE ~GetBuffer
    BY <1>0, <1>4, <2>1, <2>3, TeleStill DEF SendSleep, masterVars
  <2> QED BY <2>2, <2>3
<1>5. CASE SendKick
  BY <1>0, <1>5, TeleStill DEF SendKick, masterVars
<1>6. CASE HandlerEnter \/ HandlerClear
  BY <1>0, <1>6, TeleStill DEF HandlerEnter, HandlerClear, sendVars
<1> QED BY <1>1, <1>2, <1>3, <1>4, <1>5, <1>6, SendFillKeeps, HandlerTakeKeeps, HandlerFreeKeeps
        DEF TeleNext, SendNext, HandlerNext

\* A report for which rpmsg_lite_send returned RL_SUCCESS reaches the master
\* once, complete and in order, however many buffers and whatever the
\* timeouts; every variable keeps its type.
THEOREM TelemetryArrives == TeleSpec => [](TeleTypeOK /\ AcceptedArrive)
<1>1. TeleInv => TeleTypeOK /\ AcceptedArrive
  BY TeleInvGives
<1> QED BY <1>1, TeleInvInit, TeleInvNext, PTL DEF TeleSpec

\* rpmsg_lite_send gives up exactly when its time has passed, for every
\* timeout of 32 bits: tick_count does not wrap on the way to RL_BLOCK.
THEOREM RefusedOnTime == TeleSpec => OnTime
<1>1. TeleInv /\ [TeleNext]_teleVars =>
        [(send_pc \in {"alloc", "sleep"} /\ send_pc' = "idle") => waited' = timeout]_teleVars
  <2> SUFFICES ASSUME TeleInv, TeleNext, send_pc \in {"alloc", "sleep"}, send_pc' = "idle"
               PROVE  waited' = timeout
    OBVIOUS
  <2>0. TeleCall /\ TickMod \in Nat /\ timeout \in 0..(TickMod - 1)
    BY TimeoutAssumption DEF TeleInv, TeleCall
  <2>1. CASE SendAlloc
    BY <2>0, <2>1 DEF SendAlloc, GetBuffer, callVars, TeleCall, Waits
  <2>2. CASE SendSleep
    <3>1. /\ tick_count = waited /\ waited < timeout /\ waited \in Nat
          /\ waited' = waited + 1 /\ tick_count' = (tick_count + 1) % TickMod
          /\ tick_count' >= timeout
      BY <2>0, <2>2 DEF SendSleep, GetBuffer, GivesUp, RL_MS_PER_INTERVAL, TeleCall, Waits
    <3>2. (tick_count + 1) % TickMod = tick_count + 1
      BY <2>0, <3>1
    <3> QED BY <2>0, <3>1, <3>2
  <2>3. CASE HandlerNext
    BY <2>3 DEF HandlerNext, HandlerEnter, HandlerTake, HandlerFree, HandlerClear, sendVars
  <2> QED BY <2>1, <2>2, <2>3 DEF TeleNext, SendNext, SendCall, SendFill, SendKick
<1> QED BY <1>1, TeleInvInit, TeleInvNext, PTL DEF TeleSpec, OnTime

-----------------------------------------------------------------------------
(* rpmsg_queue.                                                            *)

Busy == {t \in Readers : reader_pc[t] # "idle"}
InRing == Range(avail)
OnQueue(q) == Range(rx_queue[q])
Id(b) == content[b].id

ReaderSteps == {"idle", "copy", "release", "held", "publish"}

QueueTypes ==
    /\ free \subseteq Buffers /\ avail \in Seq(Buffers)
    /\ used_ring \in [Slots -> Buffers] /\ used_slot \in Slots
    /\ content \in [Buffers -> [id : Nat, to : Queues \union {None}, long : BOOLEAN]]
    /\ rx_queue \in [Queues -> Seq(Buffers)] /\ taken \in [Queues -> Seq(Nat)]
    /\ bound \subseteq created /\ created \subseteq Queues
    /\ reader_pc \in [Readers -> ReaderSteps]
    /\ rx_buf \in [Readers -> Buffers \union {None}] /\ \A t \in Busy : rx_buf[t] \in Buffers
    /\ data \in [Readers -> Nat] /\ \A t \in Readers \ Busy : data[t] = None
    /\ wanted \in [Readers -> Nat]
    /\ messages \in Nat

\* A buffer is in one place - with the master, in the virtqueue, on a queue or
\* with a reader - and there once; and it is somewhere.
ApartRing == free \cap InRing = {} /\ OnceIn(avail)
ApartQueues ==
    /\ \A q \in Queues : OnceIn(rx_queue[q]) /\ OnQueue(q) \cap (free \cup InRing) = {}
    /\ \A q, r \in Queues : q # r => OnQueue(q) \cap OnQueue(r) = {}
ApartReaders ==
    /\ \A t \in Busy : /\ rx_buf[t] \notin free \cup InRing
                       /\ \A q \in Queues : rx_buf[t] \notin OnQueue(q)
    /\ \A t, u \in Busy : rx_buf[t] = rx_buf[u] => t = u
Somewhere ==
    \A b \in Buffers : \/ b \in free \cup InRing
                       \/ \E q \in Queues : b \in OnQueue(q)
                       \/ \E t \in Busy : rx_buf[t] = b

\* Messages are numbered in the order they were sent, and what waits on a
\* queue is older than what is still in the virtqueue.
RisingIds(s) == \A m, n \in 1..Len(s) : m < n => Id(s[m]) < Id(s[n])
Ordered ==
    /\ RisingIds(avail) /\ \A q \in Queues : RisingIds(rx_queue[q])
    /\ \A q \in Queues : \A m, n \in 1..Len(taken[q]) : m < n => taken[q][m] < taken[q][n]
    /\ \A q \in Queues : \A i \in Range(taken[q]) :
          i <= messages /\ \A b \in OnQueue(q) \cup InRing : i < Id(b)
    /\ \A q \in Queues : \A b \in OnQueue(q), c \in InRing : Id(b) < Id(c)
    /\ \A b \in Buffers : Id(b) <= messages

\* Where a message is that has been sent.
Seen(i) == \/ i \in lost
           \/ \E q \in Queues : i \in Range(taken[q])
           \/ \E q \in Queues : \E b \in OnQueue(q) : i = Id(b)
           \/ \E b \in InRing : i = Id(b)
AllSeen == /\ \A i \in 1..messages : Seen(i)
           /\ \A i : Seen(i) => i \in 1..messages

\* One reader at a time is between its two stores, and the slot of the index
\* still holds its buffer: what an interrupt there would break.
Publishing == {t \in Readers : reader_pc[t] = "publish"}
SlotKept == /\ \A t, u \in Publishing : t = u
            /\ \A t \in Publishing : used_ring[used_slot] = rx_buf[t]

QueueInv == /\ QueueTypes /\ ApartRing /\ ApartQueues /\ ApartReaders /\ Somewhere
            /\ SlotKept /\ BufferIsMine /\ Ordered /\ AllSeen

LEMMA SlotsAre == 0 \in Slots /\ \A s \in Slots : (s + 1) % Capacity \in Slots
<1>1. Capacity \in Nat /\ Capacity # 0
  BY BuffersAssumption, FS_CardinalityType, FS_EmptySet DEF Capacity
<1>2. \A n \in Nat : n % Capacity \in 0 .. Capacity - 1
  BY <1>1
<1> QED BY <1>1, <1>2 DEF Slots

LEMMA QueueInvInit == QueueInit => QueueInv
<1> SUFFICES ASSUME QueueInit PROVE QueueInv
  OBVIOUS
<1> USE DEF QueueInit, None
<1>1. QueueTypes
  <2>1. used_ring \in [Slots -> Buffers] /\ used_slot \in Slots
    BY SlotsAre DEF Bijection, Injection
  <2> QED BY <2>1 DEF QueueTypes, Busy, ReaderSteps
<1>2. InRing = {} /\ OnceIn(avail) /\ RisingIds(avail)
  BY DEF InRing, Range, OnceIn, RisingIds
<1>3. \A q \in Queues : /\ OnQueue(q) = {} /\ OnceIn(rx_queue[q]) /\ RisingIds(rx_queue[q])
                        /\ Range(taken[q]) = {} /\ Len(taken[q]) = 0
  BY DEF OnQueue, Range, OnceIn, RisingIds
<1>4. Busy = {}
  BY DEF Busy
<1>5. ApartRing /\ ApartQueues /\ ApartReaders /\ Somewhere
  BY <1>2, <1>3, <1>4 DEF ApartRing, ApartQueues, ApartReaders, Somewhere
<1>6. SlotKept /\ BufferIsMine
  BY <1>4 DEF SlotKept, Publishing, BufferIsMine, Busy
<1>7. Ordered
  BY <1>2, <1>3 DEF Ordered, Id
<1>8. AllSeen
  BY <1>2, <1>3 DEF AllSeen, Seen
<1> QED BY <1>1, <1>5, <1>6, <1>7, <1>8 DEF QueueInv

\* Rising numbers when one is added at the end, or the first one goes.
LEMMA AppendRises ==
  ASSUME NEW s \in Seq(Buffers), NEW b \in Buffers, RisingIds(s),
         \A c \in Range(s) : Id(c) < Id(b)
  PROVE  RisingIds(Append(s, b))
<1>1. /\ Len(Append(s, b)) = Len(s) + 1 /\ Len(s) \in Nat
      /\ \A k \in 1..Len(s) : Append(s, b)[k] = s[k] /\ s[k] \in Range(s)
      /\ Append(s, b)[Len(s) + 1] = b
  BY AppendProperties, LenProperties DEF Range
<1>2. ASSUME NEW m \in 1..(Len(s) + 1), NEW n \in 1..(Len(s) + 1), m < n
      PROVE  Id(Append(s, b)[m]) < Id(Append(s, b)[n])
  <2>1. m \in 1..Len(s) /\ (n \in 1..Len(s) \/ n = Len(s) + 1)
    BY <1>1, <1>2
  <2> QED BY <1>1, <1>2, <2>1 DEF RisingIds
<1> QED BY <1>1, <1>2 DEF RisingIds

LEMMA TailRises ==
  ASSUME NEW s \in Seq(Buffers), s # <<>>, RisingIds(s), content \in [Buffers -> [id : Nat, to : Queues \union {None}, long : BOOLEAN]]
  PROVE  RisingIds(Tail(s)) /\ \A c \in Range(Tail(s)) : Id(Head(s)) < Id(c)
<1>1. /\ Tail(s) \in Seq(Buffers) /\ Head(s) = s[1]
      /\ Len(s) \in Nat \ {0} /\ Len(Tail(s)) = Len(s) - 1
      /\ \A k \in 1..(Len(s) - 1) : Tail(s)[k] = s[k + 1]
  BY HeadTailProperties, EmptySeq, LenProperties
<1>2. RisingIds(Tail(s))
  BY <1>1 DEF RisingIds
<1>3. ASSUME NEW c \in Range(Tail(s)) PROVE Id(Head(s)) < Id(c)
  <2>1. PICK k \in 1..(Len(s) - 1) : c = s[k + 1]
    BY <1>1, LenProperties DEF Range
  <2>2. 1 \in 1..Len(s) /\ k + 1 \in 1..Len(s) /\ 1 < k + 1
    BY <1>1
  <2> QED BY <1>1, <2>1, <2>2 DEF RisingIds
<1> QED BY <1>2, <1>3

\* The master sends.
LEMMA SendKeeps ==
  ASSUME QueueInv, NEW b \in Buffers, NEW q \in Queues, NEW long \in BOOLEAN, Send(b, q, long)
  PROVE  QueueInv'
<1>1. /\ QueueTypes /\ b \in free /\ free' = free \ {b} /\ avail' = Append(avail, b)
      /\ messages' = messages + 1 /\ messages \in Nat
      /\ content' = [content EXCEPT ![b] = [id |-> messages', to |-> q, long |-> long]]
      /\ UNCHANGED <<used_ring, used_slot, rx_queue, bound, created, reader_pc, rx_buf, data,
                     wanted, taken, lost>>
  BY DEF QueueInv, QueueTypes, Send, call
<1>2. \A c \in Buffers : Id(c)' = IF c = b THEN messages + 1 ELSE Id(c)
  BY <1>1 DEF QueueTypes, Id
<1>3. \A c \in Buffers : Id(c) \in Nat /\ Id(c) <= messages
  BY <1>1 DEF QueueInv, Ordered, QueueTypes, Id
<1>4. /\ InRing' = InRing \cup {b} /\ b \notin InRing /\ InRing \subseteq Buffers
      /\ avail' \in Seq(Buffers) /\ OnceIn(avail')
  <2>1. b \notin InRing
    BY <1>1 DEF QueueInv, ApartRing
  <2>2. InRing \subseteq Buffers
    BY <1>1, LenProperties DEF QueueTypes, InRing, Range
  <2> QED BY <1>1, <2>1, <2>2, AppendOnce DEF QueueInv, ApartRing, QueueTypes, InRing
<1>5. /\ \A r \in Queues : OnQueue(r)' = OnQueue(r) /\ OnQueue(r) \subseteq Buffers \ {b}
      /\ Busy' = Busy /\ \A t \in Busy : rx_buf[t] \in Buffers \ {b}
  <2>1. \A r \in Queues : OnQueue(r) \subseteq Buffers
    BY <1>1, LenProperties DEF QueueTypes, OnQueue, Range
  <2> QED BY <1>1, <2>1 DEF QueueInv, QueueTypes, ApartQueues, ApartReaders, OnQueue, Busy
<1>6. QueueTypes'
  BY <1>1, <1>4, <1>5 DEF QueueTypes
<1>7. ApartRing' /\ ApartQueues' /\ ApartReaders' /\ Somewhere'
  BY <1>1, <1>4, <1>5 DEF QueueInv, ApartRing, ApartQueues, ApartReaders, Somewhere
<1>8. BufferIsMine' /\ SlotKept'
  <2>1. BufferIsMine'
    BY <1>1, <1>5 DEF QueueInv, QueueTypes, BufferIsMine, Busy
  <2> QED BY <1>1, <2>1 DEF QueueInv, SlotKept, Publishing
<1>9. Ordered'
  <2>1. RisingIds(avail)'
    <3>1. /\ Len(avail') = Len(avail) + 1 /\ Len(avail) \in Nat /\ avail'[Len(avail) + 1] = b
          /\ \A k \in 1..Len(avail) : avail'[k] = avail[k] /\ avail[k] \in InRing
      BY <1>1, AppendProperties, LenProperties DEF QueueTypes, InRing, Range
    <3>2. ASSUME NEW m \in 1..(Len(avail) + 1), NEW n \in 1..(Len(avail) + 1), m < n
          PROVE  Id(avail[m])' < Id(avail[n])'
      <4>1. m \in 1..Len(avail) /\ (n \in 1..Len(avail) \/ n = Len(avail) + 1)
        BY <3>1, <3>2
      <4>2. content'[avail'[m]].id = content[avail[m]].id /\ content[avail[m]].id <= messages
        BY <1>2, <1>3, <1>4, <3>1, <4>1 DEF Id
      <4>3. CASE n \in 1..Len(avail)
        <5>1. content'[avail'[n]].id = content[avail[n]].id
          BY <1>2, <1>4, <3>1, <4>3 DEF Id
        <5>2. content[avail[m]].id < content[avail[n]].id
          BY <3>2, <4>1, <4>3 DEF QueueInv, Ordered, RisingIds, Id
        <5> QED BY <4>2, <5>1, <5>2 DEF Id
      <4>4. CASE n = Len(avail) + 1
        <5>1. content'[avail'[n]].id = messages + 1
          BY <1>2, <3>1, <4>4 DEF Id
        <5>2. content[avail[m]].id \in Nat
          BY <1>3, <1>4, <3>1, <4>1 DEF Id
        <5> QED BY <1>1, <4>2, <5>1, <5>2 DEF Id
      <4> QED BY <4>1, <4>3, <4>4
    <3> QED BY <3>1, <3>2 DEF RisingIds
  <2>2. ASSUME NEW r \in Queues PROVE RisingIds(rx_queue[r])'
    <3>1. \A k \in 1..Len(rx_queue[r]) : rx_queue[r][k] \in OnQueue(r)
      BY <1>1, LenProperties DEF QueueTypes, OnQueue, Range
    <3>2. \A k \in 1..Len(rx_queue[r]) : Id(rx_queue[r][k])' = Id(rx_queue[r][k])
      BY <1>1, <1>2, <1>5, <3>1 DEF Id
    <3> QED BY <1>1, <3>2 DEF QueueInv, Ordered, RisingIds, Id
  <2>3. ASSUME NEW r \in Queues, NEW i \in Range(taken[r])'
        PROVE  i <= messages' /\ \A c \in (OnQueue(r) \cup InRing)' : i < Id(c)'
    <3>1. i \in Nat /\ i <= messages /\ \A c \in OnQueue(r) \cup InRing : i < Id(c)
      <4>1. i \in Nat
        BY <1>1, LenProperties DEF QueueTypes, Range
      <4> QED BY <1>1, <4>1 DEF QueueInv, Ordered
    <3> QED BY <1>1, <1>2, <1>4, <1>5, <3>1
  <2>4. ASSUME NEW r \in Queues, NEW c \in OnQueue(r), NEW d \in InRing'
        PROVE  Id(c)' < Id(d)'
    BY <1>1, <1>2, <1>3, <1>4, <1>5 DEF QueueInv, Ordered
  <2>5. \A c \in Buffers : Id(c)' <= messages'
    BY <1>1, <1>2, <1>3
  <2>6. \A r \in Queues : \A m, n \in 1..Len(taken'[r]) : m < n => taken'[r][m] < taken'[r][n]
    BY <1>1 DEF QueueInv, Ordered
  <2> QED BY <1>5, <2>1, <2>2, <2>3, <2>4, <2>5, <2>6 DEF Ordered
<1>10. AllSeen'
  <2>1. \A i : Seen(i)' <=> Seen(i) \/ i = messages + 1
    BY <1>1, <1>2, <1>4, <1>5 DEF Seen
  <2> QED BY <1>1, <2>1 DEF QueueInv, AllSeen
<1> QED BY <1>6, <1>7, <1>8, <1>9, <1>10 DEF QueueInv

\* ReaderSteps that leave the virtqueue and the queues as they are, and move no
\* buffer.
LEMMA QueueStill ==
  ASSUME QueueInv,
         UNCHANGED <<virtqueue, rx_queue, rx_buf, wanted, ids>>,
         reader_pc' \in [Readers -> ReaderSteps], Busy' = Busy, Publishing' = Publishing,
         data' \in [Readers -> Nat], \A t \in Readers : data'[t] \in {data[t], None, wanted[t]},
         \A t \in Readers \ Busy : data'[t] = data[t],
         bound' \subseteq created', created' \subseteq Queues
  PROVE  QueueInv'
<1> USE DEF virtqueue, used, ids
<1>1. QueueTypes'
  BY DEF QueueInv, QueueTypes
<1>2. InRing' = InRing /\ \A q \in Queues : OnQueue(q)' = OnQueue(q)
  BY DEF InRing, OnQueue
<1>3. ApartRing' /\ ApartQueues' /\ ApartReaders' /\ Somewhere'
  BY <1>2 DEF QueueInv, ApartRing, ApartQueues, ApartReaders, Somewhere
<1>4. BufferIsMine' /\ SlotKept'
  <2>1. \A t \in Readers : reader_pc'[t] # "idle" => reader_pc[t] # "idle"
    BY DEF Busy
  <2>2. SlotKept'
    BY DEF QueueInv, SlotKept
  <2> QED BY <2>1, <2>2 DEF QueueInv, BufferIsMine
<1>5. Ordered'
  BY <1>2 DEF QueueInv, Ordered, RisingIds, Id
<1>6. AllSeen'
  BY <1>2 DEF QueueInv, AllSeen, Seen, Id
<1> QED BY <1>1, <1>3, <1>4, <1>5, <1>6 DEF QueueInv

\* The first buffer of the virtqueue.
LEMMA FirstInRing ==
  ASSUME QueueInv, avail # <<>>
  PROVE  /\ Head(avail) \in Buffers /\ Head(avail) \in InRing
         /\ Tail(avail) \in Seq(Buffers) /\ OnceIn(Tail(avail)) /\ RisingIds(Tail(avail))
         /\ InRing = Range(Tail(avail)) \cup {Head(avail)}
         /\ Head(avail) \notin Range(Tail(avail))
         /\ \A c \in Range(Tail(avail)) : Id(Head(avail)) < Id(c)
         /\ Head(avail) \notin free
         /\ \A q \in Queues : Head(avail) \notin OnQueue(q)
         /\ \A t \in Busy : rx_buf[t] # Head(avail)
<1>1. /\ avail \in Seq(Buffers) /\ OnceIn(avail) /\ RisingIds(avail)
      /\ content \in [Buffers -> [id : Nat, to : Queues \union {None}, long : BOOLEAN]]
  BY DEF QueueInv, QueueTypes, ApartRing, Ordered
<1>2. /\ Tail(avail) \in Seq(Buffers) /\ Head(avail) \in Buffers
      /\ InRing = Range(Tail(avail)) \cup {Head(avail)}
      /\ OnceIn(Tail(avail)) /\ Head(avail) \notin Range(Tail(avail))
  BY <1>1, TailOnce DEF InRing
<1>3. RisingIds(Tail(avail)) /\ \A c \in Range(Tail(avail)) : Id(Head(avail)) < Id(c)
  BY <1>1, TailRises
<1> QED BY <1>2, <1>3 DEF QueueInv, ApartRing, ApartQueues, ApartReaders

\* A queue has room for one more as long as a buffer is elsewhere, so that
\* the callback is never refused.
LEMMA RoomForAll ==
  ASSUME QueueInv, NEW q \in Queues, NEW b \in Buffers, b \notin OnQueue(q)
  PROVE  Len(rx_queue[q]) < Capacity
<1>1. rx_queue[q] \in Seq(Buffers) /\ OnceIn(rx_queue[q]) /\ Len(rx_queue[q]) \in Nat
  BY LenProperties DEF QueueInv, QueueTypes, ApartQueues
<1>2. /\ IsFiniteSet(Buffers \ {b}) /\ Cardinality(Buffers \ {b}) = Capacity - 1
      /\ Capacity \in Nat /\ Capacity - 1 \in Nat
  <2>1. IsFiniteSet(Buffers \ {b}) /\ Cardinality(Buffers \ {b}) = Cardinality(Buffers) - 1
    BY BuffersAssumption, FS_RemoveElement
  <2>2. Cardinality(Buffers) \in Nat /\ Cardinality(Buffers \ {b}) \in Nat
    BY <2>1, BuffersAssumption, FS_CardinalityType
  <2> QED BY <2>1, <2>2 DEF Capacity
<1>3. rx_queue[q] \in [1..Len(rx_queue[q]) -> Buffers \ {b}]
  BY <1>1, LenProperties DEF OnQueue, Range
<1>4. Len(rx_queue[q]) <= Capacity - 1
  BY <1>1, <1>2, <1>3, NotLonger
<1> QED BY <1>1, <1>2, <1>4

\* The callback puts a buffer on its queue, where there is room for it.
LEMMA PutKeeps == ASSUME QueueInv, Put PROVE QueueInv'
<1> DEFINE b == Head(avail)
           q == To
<1>1. /\ QueueTypes /\ avail # <<>> /\ avail' = Tail(avail)
      /\ q \in bound /\ q = content[b].to
      /\ UNCHANGED <<content, bound, created, reader_pc, rx_buf, data, wanted, taken, lost, messages>>
  BY DEF QueueInv, Put, To, call, ids
<1>2. /\ b \in Buffers /\ b \in InRing /\ b \notin InRing' /\ InRing = InRing' \cup {b}
      /\ avail' \in Seq(Buffers) /\ OnceIn(avail') /\ RisingIds(Tail(avail))
      /\ \A c \in InRing' : Id(b) < Id(c)
      /\ b \notin free /\ \A r \in Queues : b \notin OnQueue(r)
      /\ \A t \in Busy : rx_buf[t] # b
  BY <1>1, FirstInRing DEF InRing
<1>3. q \in Queues
  BY <1>1 DEF QueueTypes
<1> HIDE DEF b, q
<1>4. /\ rx_queue' = [rx_queue EXCEPT ![q] = Append(@, b)]
      /\ UNCHANGED <<free, used_ring, used_slot>>
  <2>1. Len(rx_queue[q]) < Capacity
    BY <1>2, <1>3, RoomForAll
  <2> QED BY <2>1 DEF Put, b, q, used
<1>5. /\ rx_queue'[q] = Append(rx_queue[q], b) /\ rx_queue[q] \in Seq(Buffers)
      /\ \A r \in Queues \ {q} : rx_queue'[r] = rx_queue[r]
      /\ rx_queue' \in [Queues -> Seq(Buffers)]
  BY <1>1, <1>2, <1>3, <1>4 DEF QueueTypes
<1>6. /\ \A r \in Queues : OnQueue(r)' = IF r = q THEN OnQueue(r) \cup {b} ELSE OnQueue(r)
      /\ OnceIn(rx_queue'[q])
  <2>1. OnceIn(rx_queue[q]) /\ b \notin Range(rx_queue[q])
    BY <1>2, <1>3 DEF QueueInv, ApartQueues, OnQueue
  <2>2. Range(rx_queue'[q]) = Range(rx_queue[q]) \cup {b} /\ OnceIn(rx_queue'[q])
    BY <1>2, <1>5, <2>1, AppendOnce
  <2> QED BY <1>5, <2>2 DEF OnQueue
<1>7. Busy' = Busy
  BY <1>1 DEF Busy
<1>8. QueueTypes'
  BY <1>1, <1>2, <1>4, <1>5, <1>7 DEF QueueTypes
<1>9. ApartRing' /\ ApartQueues'
  <2>1. \A r \in Queues : OnceIn(rx_queue'[r])
    BY <1>5, <1>6 DEF QueueInv, ApartQueues
  <2> QED BY <1>2, <1>4, <1>6, <2>1 DEF QueueInv, ApartRing, ApartQueues
<1>10. ApartReaders' /\ Somewhere'
  <2>1. ApartReaders'
    BY <1>1, <1>2, <1>4, <1>6, <1>7 DEF QueueInv, ApartReaders
  <2> QED BY <1>1, <1>2, <1>3, <1>4, <1>6, <1>7, <2>1 DEF QueueInv, Somewhere
<1>11. BufferIsMine' /\ SlotKept'
  BY <1>1, <1>4 DEF QueueInv, BufferIsMine, SlotKept, Publishing
<1>12. Ordered'
  <2>1. RisingIds(avail)'
    BY <1>1, <1>2 DEF RisingIds, Id
  <2>2. ASSUME NEW r \in Queues PROVE RisingIds(rx_queue[r])'
    <3>1. RisingIds(rx_queue[r]) /\ \A c \in OnQueue(r) : Id(c) < Id(b)
      BY <1>2 DEF QueueInv, Ordered
    <3>2. RisingIds(rx_queue'[r])
      <4>1. CASE r = q
        BY <1>2, <1>5, <3>1, <4>1, AppendRises DEF OnQueue
      <4>2. CASE r # q
        BY <1>5, <3>1, <4>2
      <4> QED BY <4>1, <4>2
    <3> QED BY <1>1, <3>2 DEF RisingIds, Id
  <2>3. \A r \in Queues : (OnQueue(r) \cup InRing)' \subseteq OnQueue(r) \cup InRing
    BY <1>2, <1>6
  <2>4. ASSUME NEW r \in Queues, NEW c \in OnQueue(r)', NEW d \in InRing'
        PROVE  Id(c)' < Id(d)'
    <3>1. c = b \/ c \in OnQueue(r)
      BY <1>6
    <3>2. Id(c) < Id(d)
      BY <1>2, <3>1 DEF QueueInv, Ordered
    <3> QED BY <1>1, <3>2 DEF Id
  <2>5. \A c : Id(c)' = Id(c)
    BY <1>1 DEF Id
  <2> QED BY <1>1, <2>1, <2>2, <2>3, <2>4, <2>5 DEF QueueInv, Ordered
<1>13. AllSeen'
  <2>1. \A i : Seen(i)' <=> Seen(i)
    BY <1>1, <1>2, <1>3, <1>6 DEF Seen, Id
  <2> QED BY <1>1, <2>1 DEF QueueInv, AllSeen
<1> QED BY <1>8, <1>9, <1>10, <1>11, <1>12, <1>13 DEF QueueInv

\* It gives back a buffer for which there is no endpoint, and finds no reader
\* between its two stores.
LEMMA UnknownKeeps == ASSUME QueueInv, Unknown, ~overtaken' PROVE QueueInv'
<1> DEFINE b == Head(avail)
<1>1. /\ QueueTypes /\ avail # <<>> /\ avail' = Tail(avail)
      /\ used_ring' = [used_ring EXCEPT ![used_slot] = b] /\ used_slot' = NextSlot
      /\ free' = free \cup {b} /\ lost' = lost \cup {Id(b)}
      /\ UNCHANGED <<content, rx_queue, bound, created, reader_pc, rx_buf, data, wanted, taken,
                     messages>>
  BY DEF QueueInv, Unknown, Release, call, Id
<1>2. /\ b \in Buffers /\ b \in InRing /\ b \notin InRing' /\ InRing = InRing' \cup {b}
      /\ avail' \in Seq(Buffers) /\ OnceIn(avail') /\ RisingIds(Tail(avail))
      /\ \A r \in Queues : b \notin OnQueue(r)
      /\ \A t \in Busy : rx_buf[t] # b
  BY <1>1, FirstInRing DEF InRing
<1> HIDE DEF b
<1>3. Busy' = Busy /\ \A r \in Queues : OnQueue(r)' = OnQueue(r)
  BY <1>1 DEF Busy, OnQueue
<1>4. QueueTypes'
  <2>1. used_ring' \in [Slots -> Buffers] /\ used_slot' \in Slots
    BY <1>1, <1>2, SlotsAre DEF QueueTypes, NextSlot
  <2> QED BY <1>1, <1>2, <1>3, <2>1 DEF QueueTypes
<1>5. ApartRing' /\ ApartQueues' /\ ApartReaders' /\ Somewhere'
  BY <1>1, <1>2, <1>3 DEF QueueInv, ApartRing, ApartQueues, ApartReaders, Somewhere
<1>6. BufferIsMine' /\ SlotKept'
  <2>1. Publishing = {}
    BY DEF Unknown, Release, Publishing
  <2>2. Publishing' = Publishing
    BY <1>1 DEF Publishing
  <2> QED BY <1>1, <2>1, <2>2 DEF QueueInv, BufferIsMine, SlotKept
<1>7. Ordered'
  <2>1. RisingIds(avail)' /\ \A r \in Queues : RisingIds(rx_queue[r])'
    BY <1>1, <1>2 DEF QueueInv, Ordered, RisingIds, Id
  <2>2. \A c : Id(c)' = Id(c)
    BY <1>1 DEF Id
  <2> QED BY <1>1, <1>2, <1>3, <2>1, <2>2 DEF QueueInv, Ordered
<1>8. AllSeen'
  <2>1. \A i : Seen(i)' <=> Seen(i)
    BY <1>1, <1>2, <1>3 DEF Seen, Id
  <2> QED BY <1>1, <2>1 DEF QueueInv, AllSeen
<1> QED BY <1>4, <1>5, <1>6, <1>7, <1>8 DEF QueueInv

\* A reader takes the oldest buffer of its queue.
LEMMA GetKeeps ==
  ASSUME QueueInv, NEW t \in Readers, NEW next \in {"copy", "held"}, GetQueue(t, next)
  PROVE  QueueInv'
<1> DEFINE q == Reads[t]
           b == Head(rx_queue[q])
<1>1. /\ QueueTypes /\ reader_pc[t] = "idle" /\ q \in created /\ rx_queue[q] # <<>>
      /\ rx_queue' = [rx_queue EXCEPT ![q] = Tail(@)]
      /\ rx_buf' = [rx_buf EXCEPT ![t] = b]
      /\ wanted' = [wanted EXCEPT ![t] = Id(b)]
      /\ taken' = [taken EXCEPT ![q] = Append(@, Id(b))]
      /\ reader_pc' = [reader_pc EXCEPT ![t] = next]
      /\ UNCHANGED <<free, used_ring, used_slot, avail, content, bound, created, data, lost,
                     messages>>
  BY DEF QueueInv, GetQueue, virtqueue, used, Id
<1>2. q \in Queues
  BY <1>1 DEF QueueTypes
<1> HIDE DEF q
<1>3. /\ rx_queue[q] \in Seq(Buffers) /\ OnceIn(rx_queue[q]) /\ RisingIds(rx_queue[q])
      /\ taken[q] \in Seq(Nat)
      /\ content \in [Buffers -> [id : Nat, to : Queues \union {None}, long : BOOLEAN]]
  BY <1>1, <1>2 DEF QueueInv, QueueTypes, ApartQueues, Ordered
<1>4. /\ Tail(rx_queue[q]) \in Seq(Buffers) /\ b \in Buffers /\ b \in OnQueue(q)
      /\ OnQueue(q) = Range(Tail(rx_queue[q])) \cup {b}
      /\ OnceIn(Tail(rx_queue[q])) /\ b \notin Range(Tail(rx_queue[q]))
      /\ RisingIds(Tail(rx_queue[q])) /\ \A c \in Range(Tail(rx_queue[q])) : Id(b) < Id(c)
  <2> DEFINE s == rx_queue[q]
  <2>1. s \in Seq(Buffers) /\ s # <<>> /\ OnceIn(s) /\ RisingIds(s) /\ b = Head(s)
    BY <1>1, <1>3
  <2>2. OnQueue(q) = Range(s)
    BY DEF OnQueue
  <2> HIDE DEF s, b
  <2>3. /\ Tail(s) \in Seq(Buffers) /\ b \in Buffers /\ Range(s) = Range(Tail(s)) \cup {b}
        /\ OnceIn(Tail(s)) /\ b \notin Range(Tail(s))
    BY <2>1, TailOnce
  <2>4. RisingIds(Tail(s)) /\ \A c \in Range(Tail(s)) : Id(b) < Id(c)
    BY <1>3, <2>1, TailRises
  <2> QED BY <2>2, <2>3, <2>4 DEF s
<1>5. Id(b) \in Nat /\ Id(b) <= messages
  BY <1>1, <1>3, <1>4 DEF QueueInv, Ordered, Id
<1> HIDE DEF b
<1>6. /\ b \notin free \cup InRing /\ \A r \in Queues \ {q} : b \notin OnQueue(r)
      /\ \A u \in Busy : rx_buf[u] # b
  BY <1>2, <1>4 DEF QueueInv, ApartQueues, ApartReaders
<1>7. /\ rx_queue'[q] = Tail(rx_queue[q]) /\ \A r \in Queues \ {q} : rx_queue'[r] = rx_queue[r]
      /\ rx_queue' \in [Queues -> Seq(Buffers)]
      /\ \A r \in Queues : OnQueue(r)' = OnQueue(r) \ {b}
  <2>1. /\ rx_queue'[q] = Tail(rx_queue[q]) /\ rx_queue' \in [Queues -> Seq(Buffers)]
        /\ \A r \in Queues \ {q} : rx_queue'[r] = rx_queue[r]
    BY <1>1, <1>2, <1>4 DEF QueueTypes
  <2>2. OnQueue(q)' = OnQueue(q) \ {b}
    BY <1>4, <2>1 DEF OnQueue
  <2>3. \A r \in Queues \ {q} : OnQueue(r)' = OnQueue(r)
    BY <2>1 DEF OnQueue
  <2> QED BY <1>6, <2>1, <2>2, <2>3
<1>8. /\ t \notin Busy /\ Busy' = Busy \cup {t} /\ rx_buf'[t] = b
      /\ \A u \in Busy : rx_buf'[u] = rx_buf[u] /\ rx_buf[u] \in Buffers
  BY <1>1 DEF QueueTypes, Busy
<1>9. InRing' = InRing
  BY <1>1 DEF InRing
<1>10. /\ taken'[q] = Append(taken[q], Id(b)) /\ taken' \in [Queues -> Seq(Nat)]
       /\ \A r \in Queues \ {q} : taken'[r] = taken[r]
       /\ \A r \in Queues : Range(taken'[r]) =
                              IF r = q THEN Range(taken[r]) \cup {Id(b)} ELSE Range(taken[r])
  <2>1. /\ taken'[q] = Append(taken[q], Id(b)) /\ taken' \in [Queues -> Seq(Nat)]
        /\ \A r \in Queues \ {q} : taken'[r] = taken[r]
    BY <1>1, <1>2, <1>5 DEF QueueTypes
  <2>2. \A s \in Seq(Nat), i \in Nat : Range(Append(s, i)) = Range(s) \cup {i}
    BY AppendOnce
  <2>3. Range(taken'[q]) = Range(taken[q]) \cup {Id(b)}
    BY <1>3, <1>5, <2>1, <2>2
  <2> QED BY <2>1, <2>3
<1>11. QueueTypes'
  <2>1. /\ rx_buf' \in [Readers -> Buffers \union {None}] /\ wanted' \in [Readers -> Nat]
        /\ reader_pc' \in [Readers -> ReaderSteps]
    BY <1>1, <1>4, <1>5 DEF QueueTypes, ReaderSteps
  <2> QED BY <1>1, <1>4, <1>7, <1>8, <1>10, <2>1 DEF QueueTypes
<1>12. ApartRing' /\ ApartQueues'
  <2>1. \A r \in Queues : OnceIn(rx_queue'[r])
    BY <1>4, <1>7 DEF QueueInv, ApartQueues
  <2> QED BY <1>1, <1>7, <1>9, <2>1 DEF QueueInv, ApartRing, ApartQueues
<1>13. ApartReaders'
  BY <1>1, <1>6, <1>7, <1>8, <1>9 DEF QueueInv, ApartReaders
<1>14. Somewhere'
  BY <1>1, <1>7, <1>8, <1>9 DEF QueueInv, Somewhere
<1>15. BufferIsMine' /\ SlotKept'
  <2>1. data'[t] = None
    BY <1>1, <1>8 DEF QueueTypes
  <2>2. wanted'[t] = Id(b) /\ content'[rx_buf'[t]].id = Id(b)
    BY <1>1, <1>8 DEF QueueTypes, Id
  <2>3. \A u \in Readers \ {t} : /\ wanted'[u] = wanted[u] /\ rx_buf'[u] = rx_buf[u]
                               /\ reader_pc'[u] = reader_pc[u]
    BY <1>1 DEF QueueTypes
  <2>4. t \notin Publishing /\ Publishing' = Publishing
    BY <1>1 DEF QueueTypes, Publishing
  <2>5. SlotKept'
    BY <1>1, <2>3, <2>4 DEF QueueInv, SlotKept, Publishing
  <2> QED BY <1>1, <2>1, <2>2, <2>3, <2>5 DEF QueueInv, BufferIsMine
<1>16. Ordered'
  <2>1. RisingIds(avail)' /\ \A r \in Queues : RisingIds(rx_queue[r])'
    BY <1>1, <1>4, <1>7 DEF QueueInv, Ordered, RisingIds, Id
  <2>2. \A i \in Range(taken[q]) : i < Id(b)
    BY <1>2, <1>4 DEF QueueInv, Ordered
  <2>3. ASSUME NEW r \in Queues
        PROVE  \A m, n \in 1..Len(taken'[r]) : m < n => taken'[r][m] < taken'[r][n]
    <3>1. CASE r # q
      BY <1>10, <3>1 DEF QueueInv, Ordered
    <3>2. CASE r = q
      <4>1. /\ Len(taken'[q]) = Len(taken[q]) + 1 /\ Len(taken[q]) \in Nat
            /\ \A k \in 1..Len(taken[q]) : taken'[q][k] = taken[q][k] /\ taken[q][k] \in Range(taken[q])
            /\ taken'[q][Len(taken[q]) + 1] = Id(b)
        BY <1>3, <1>5, <1>10, AppendProperties, LenProperties DEF Range
      <4>2. ASSUME NEW m \in 1..(Len(taken[q]) + 1), NEW n \in 1..(Len(taken[q]) + 1), m < n
            PROVE  taken'[q][m] < taken'[q][n]
        <5>1. m \in 1..Len(taken[q]) /\ (n \in 1..Len(taken[q]) \/ n = Len(taken[q]) + 1)
          BY <4>1, <4>2
        <5>2. CASE n \in 1..Len(taken[q])
          BY <1>2, <4>1, <4>2, <5>1, <5>2 DEF QueueInv, Ordered
        <5>3. CASE n = Len(taken[q]) + 1
          BY <2>2, <4>1, <5>1, <5>3
        <5> QED BY <5>1, <5>2, <5>3
      <4> QED BY <3>2, <4>1, <4>2
    <3> QED BY <3>1, <3>2
  <2>4. ASSUME NEW r \in Queues, NEW i \in Range(taken'[r])
        PROVE  i <= messages /\ \A c \in (OnQueue(r) \cup InRing)' : i < Id(c)
    <3>1. CASE i \in Range(taken[r])
      BY <1>7, <1>9, <3>1 DEF QueueInv, Ordered
    <3>2. CASE r = q /\ i = Id(b)
      <4>1. OnQueue(q)' = Range(Tail(rx_queue[q]))
        BY <1>7 DEF OnQueue
      <4>2. \A c \in InRing : Id(b) < Id(c)
        BY <1>2, <1>4 DEF QueueInv, Ordered
      <4> QED BY <1>4, <1>5, <1>9, <3>2, <4>1, <4>2
    <3> QED BY <1>10, <3>1, <3>2
  <2>5. \A r \in Queues : OnQueue(r)' \subseteq OnQueue(r)
    BY <1>7
  <2>6. \A c : Id(c)' = Id(c)
    BY <1>1 DEF Id
  <2> QED BY <1>1, <1>9, <2>1, <2>3, <2>4, <2>5, <2>6 DEF QueueInv, Ordered
<1>17. AllSeen'
  <2>1. \A c : Id(c)' = Id(c)
    BY <1>1 DEF Id
  <2>2. ASSUME NEW i PROVE Seen(i)' <=> Seen(i)
    <3>1. (\E r \in Queues : i \in Range(taken'[r])) <=>
             (\E r \in Queues : i \in Range(taken[r])) \/ i = Id(b)
      BY <1>2, <1>10
    <3>2. (\E r \in Queues : \E c \in OnQueue(r) : i = Id(c)) <=>
             (\E r \in Queues : \E c \in OnQueue(r)' : i = Id(c)) \/ i = Id(b)
      BY <1>2, <1>4, <1>7
    <3> QED BY <1>1, <1>9, <2>1, <3>1, <3>2 DEF Seen
  <2> QED BY <1>1, <2>2 DEF QueueInv, AllSeen
<1> QED BY <1>11, <1>12, <1>13, <1>14, <1>15, <1>16, <1>17 DEF QueueInv

\* A reader stores its buffer in the slot, the only one to do so.
LEMMA StoreKeeps ==
  ASSUME QueueInv, NEW t \in Readers, StoreSlot(t)
  PROVE  QueueInv'
<1>1. /\ QueueTypes /\ t \in Busy /\ Publishing = {}
      /\ used_ring' = [used_ring EXCEPT ![used_slot] = rx_buf[t]]
      /\ reader_pc' = [reader_pc EXCEPT ![t] = "publish"]
      /\ UNCHANGED <<free, used_slot, avail, content, rx_queue, bound, created, rx_buf, data,
                     wanted, taken, lost, messages>>
  BY DEF QueueInv, StoreSlot, Busy, Publishing, ids
<1>2. /\ Busy' = Busy /\ InRing' = InRing /\ \A q \in Queues : OnQueue(q)' = OnQueue(q)
  BY <1>1 DEF QueueTypes, Busy, InRing, OnQueue
<1>3. QueueTypes'
  <2>1. used_ring' \in [Slots -> Buffers] /\ reader_pc' \in [Readers -> ReaderSteps]
    BY <1>1 DEF QueueTypes, ReaderSteps
  <2> QED BY <1>1, <1>2, <2>1 DEF QueueTypes
<1>4. ApartRing' /\ ApartQueues' /\ ApartReaders' /\ Somewhere'
  BY <1>1, <1>2 DEF QueueInv, ApartRing, ApartQueues, ApartReaders, Somewhere
<1>5. SlotKept'
  <2>1. Publishing' = {t}
    BY <1>1 DEF QueueTypes, Publishing
  <2>2. used_ring'[used_slot'] = rx_buf'[t]
    BY <1>1 DEF QueueTypes
  <2> QED BY <2>1, <2>2 DEF SlotKept
<1>6. BufferIsMine'
  <2>1. \A u \in Readers : reader_pc'[u] # "idle" => reader_pc[u] # "idle"
    BY <1>2 DEF Busy
  <2> QED BY <1>1, <2>1 DEF QueueInv, BufferIsMine
<1>7. Ordered'
  BY <1>1, <1>2 DEF QueueInv, Ordered, RisingIds, Id
<1>8. AllSeen'
  BY <1>1, <1>2 DEF QueueInv, AllSeen, Seen, Id
<1> QED BY <1>3, <1>4, <1>5, <1>6, <1>7, <1>8 DEF QueueInv

\* A reader gives its buffer back.
LEMMA ReleaseKeeps ==
  ASSUME QueueInv, NEW t \in Readers, ReleaseRxBuffer(t)
  PROVE  QueueInv'
<1> DEFINE b == rx_buf[t]
<1>0. used_ring[used_slot] = b
  BY DEF QueueInv, SlotKept, Publishing, ReleaseRxBuffer
<1>1. /\ QueueTypes /\ t \in Publishing /\ t \in Busy /\ free' = free \cup {b}
      /\ used_slot' = NextSlot
      /\ reader_pc' = [reader_pc EXCEPT ![t] = "idle"]
      /\ rx_buf' = [rx_buf EXCEPT ![t] = None]
      /\ data' = [data EXCEPT ![t] = None] /\ wanted' = [wanted EXCEPT ![t] = None]
      /\ UNCHANGED <<used_ring, avail, content, rx_queue, bound, created, taken, lost, messages>>
  BY <1>0 DEF QueueInv, ReleaseRxBuffer, Publishing, Busy, ids
<1>2. b \in Buffers /\ b \notin InRing /\ \A q \in Queues : b \notin OnQueue(q)
  BY <1>1 DEF QueueInv, QueueTypes, ApartReaders
<1>3. /\ Busy' = Busy \ {t} /\ \A u \in Busy \ {t} : rx_buf'[u] = rx_buf[u] /\ rx_buf[u] # b
  BY <1>1 DEF QueueInv, QueueTypes, ApartReaders, Busy
<1>4. InRing' = InRing /\ \A q \in Queues : OnQueue(q)' = OnQueue(q)
  BY <1>1 DEF InRing, OnQueue
<1> HIDE DEF b
<1>5. QueueTypes'
  <2>1. /\ rx_buf' \in [Readers -> Buffers \union {None}] /\ data' \in [Readers -> Nat]
        /\ wanted' \in [Readers -> Nat]
        /\ reader_pc' \in [Readers -> ReaderSteps] /\ used_slot' \in Slots
    BY <1>1, SlotsAre DEF QueueTypes, None, ReaderSteps, NextSlot
  <2>2. \A u \in Readers \ Busy' : data'[u] = None
    BY <1>1, <1>3 DEF QueueTypes
  <2> QED BY <1>1, <1>2, <1>3, <2>1, <2>2 DEF QueueTypes
<1>6. ApartRing' /\ ApartQueues'
  BY <1>1, <1>2, <1>4 DEF QueueInv, ApartRing, ApartQueues
<1>7. ApartReaders' /\ Somewhere'
  <2>1. ApartReaders'
    BY <1>1, <1>3, <1>4 DEF QueueInv, ApartReaders
  <2>2. rx_buf[t] = b
    BY DEF b
  <2> QED BY <1>1, <1>3, <1>4, <2>1, <2>2 DEF QueueInv, Somewhere
<1>8. BufferIsMine' /\ SlotKept'
  <2>1. reader_pc'[t] = "idle" /\ data'[t] = None
    BY <1>1 DEF QueueTypes
  <2>2. \A u \in Readers \ {t} : /\ wanted'[u] = wanted[u] /\ rx_buf'[u] = rx_buf[u]
                               /\ reader_pc'[u] = reader_pc[u] /\ data'[u] = data[u]
    BY <1>1 DEF QueueTypes
  <2>3. Publishing' = {}
    BY <1>1, <2>1, <2>2 DEF QueueInv, SlotKept, Publishing
  <2> QED BY <1>1, <2>1, <2>2, <2>3 DEF QueueInv, BufferIsMine, SlotKept
<1>9. Ordered'
  BY <1>1, <1>4 DEF QueueInv, Ordered, RisingIds, Id
<1>10. AllSeen'
  BY <1>1, <1>4 DEF QueueInv, AllSeen, Seen, Id
<1> QED BY <1>5, <1>6, <1>7, <1>8, <1>9, <1>10 DEF QueueInv

LEMMA QueueInvNext ==
  ASSUME QueueInv, [QueueNext]_queueVars, DrainFirst, ~overtaken'
  PROVE  QueueInv'
<1>0. QueueTypes /\ BufferIsMine
  BY DEF QueueInv
<1>1. CASE UNCHANGED queueVars
  BY <1>0, <1>1, QueueStill DEF queueVars, call, QueueTypes, Busy, Publishing
<1>2. ASSUME NEW t \in Readers, Copy(t) PROVE QueueInv'
  <2>1. /\ UNCHANGED <<virtqueue, rx_queue, bound, created, rx_buf, wanted, ids>>
        /\ reader_pc[t] = "copy" /\ reader_pc' = [reader_pc EXCEPT ![t] = "release"]
        /\ \E x \in {None, content[rx_buf[t]].id} : data' = [data EXCEPT ![t] = x]
    BY <1>2 DEF Copy
  <2>2. content[rx_buf[t]].id = wanted[t]
    BY <1>0, <2>1 DEF BufferIsMine
  <2>3. Busy' = Busy /\ Publishing' = Publishing /\ reader_pc' \in [Readers -> ReaderSteps]
    BY <1>0, <2>1 DEF QueueTypes, Busy, Publishing, ReaderSteps
  <2>4. /\ data' \in [Readers -> Nat]
        /\ \A u \in Readers : data'[u] \in {data[u], None, wanted[u]}
        /\ \A u \in Readers \ Busy : data'[u] = data[u]
    BY <1>0, <2>1, <2>2 DEF QueueTypes, None, Busy
  <2> QED BY <1>0, <2>1, <2>3, <2>4, QueueStill DEF QueueTypes
<1>3. ASSUME NEW q \in Owned, DestroyEpt(q) \/ DestroyQueue(q) \/ CreateQueue(q) PROVE QueueInv'
  <2>1. q \in Queues
    BY ReadsAssumption
  <2>2. rx_queue' = rx_queue
    BY <1>0, <1>3, <2>1 DEF DestroyEpt, DestroyQueue, CreateQueue, QueueTypes
  <2>3. bound' \subseteq created' /\ created' \subseteq Queues
    BY <1>0, <1>3, <2>1 DEF DestroyEpt, DestroyQueue, CreateQueue, QueueTypes
  <2>4. UNCHANGED <<virtqueue, call, ids>>
    BY <1>3 DEF DestroyEpt, DestroyQueue, CreateQueue
  <2> QED BY <1>0, <2>2, <2>3, <2>4, QueueStill DEF call, QueueTypes, Busy, Publishing
<1>4. ASSUME NEW t \in Readers, Recv(t) \/ RecvNocopy(t) PROVE QueueInv'
  BY <1>4, GetKeeps DEF Recv, RecvNocopy
<1> QED BY <1>1, <1>2, <1>3, <1>4, SendKeeps, PutKeeps, UnknownKeeps, StoreKeeps, ReleaseKeeps
        DEF QueueNext, RxCallback, Reader

\* What an interrupt overtook stays overtaken.
LEMMA OvertakenStays == ASSUME [QueueNext]_queueVars, ~overtaken' PROVE ~overtaken
  BY DEF QueueNext, queueVars, virtqueue, used, Send, RxCallback, Put, Unknown, Release, Reader,
         Recv, RecvNocopy, GetQueue, Copy, StoreSlot, ReleaseRxBuffer, DestroyEpt, DestroyQueue,
         CreateQueue

\* Counting the places of a buffer.
LEMMA CountOnce ==
  ASSUME NEW s \in Seq(Buffers), OnceIn(s), NEW b
  PROVE  Cardinality({n \in 1 .. Len(s) : s[n] = b}) = IF b \in Range(s) THEN 1 ELSE 0
<1>1. CASE b \in Range(s)
  <2>1. PICK n \in 1..Len(s) : s[n] = b
    BY <1>1, LenProperties DEF Range
  <2>2. {m \in 1 .. Len(s) : s[m] = b} = {n}
    BY <2>1 DEF OnceIn
  <2> QED BY <1>1, <2>2, FS_Singleton
<1>2. CASE b \notin Range(s)
  <2>1. {m \in 1 .. Len(s) : s[m] = b} = {}
    BY <1>2, LenProperties DEF Range
  <2> QED BY <1>2, <2>1, FS_EmptySet
<1> QED BY <1>1, <1>2

LEMMA FitsCapacity == ASSUME QueueInv, NEW q \in Queues PROVE Len(rx_queue[q]) <= Capacity
<1>1. rx_queue[q] \in Seq(Buffers) /\ OnceIn(rx_queue[q]) /\ Len(rx_queue[q]) \in Nat
  BY LenProperties DEF QueueInv, QueueTypes, ApartQueues
<1>2. rx_queue[q] \in [1..Len(rx_queue[q]) -> Buffers]
  BY <1>1, LenProperties
<1> QED BY <1>1, <1>2, BuffersAssumption, NotLonger DEF Capacity

\* Every buffer is in one place.
LEMMA AllAccounted == ASSUME QueueInv PROVE Accounted
<1> SUFFICES ASSUME NEW b \in Buffers PROVE Places(b) = 1
  BY DEF Accounted
<1> DEFINE InQueues == {p \in Queues \X (1 .. Capacity) :
                          p[2] <= Len(rx_queue[p[1]]) /\ rx_queue[p[1]][p[2]] = b}
<1>1. /\ QueueTypes /\ ApartRing /\ ApartQueues /\ ApartReaders /\ Somewhere
  BY DEF QueueInv
<1>2. Cardinality({n \in 1 .. Len(avail) : avail[n] = b}) = IF b \in InRing THEN 1 ELSE 0
  BY <1>1, CountOnce DEF QueueTypes, ApartRing, InRing
<1>3. ASSUME NEW q \in Queues, b \in OnQueue(q) PROVE Cardinality(InQueues) = 1
  <2>1. PICK n \in 1..Len(rx_queue[q]) : rx_queue[q][n] = b
    BY <1>1, <1>3, LenProperties DEF OnQueue, Range, QueueTypes
  <2>2. n \in 1..Capacity /\ n <= Len(rx_queue[q])
    <3>1. Len(rx_queue[q]) <= Capacity /\ Len(rx_queue[q]) \in Nat /\ Capacity \in Nat
      BY <1>1, FitsCapacity, LenProperties, BuffersAssumption, FS_CardinalityType
         DEF Capacity, QueueTypes
    <3> QED BY <3>1
  <2>3. <<q, n>> \in InQueues
    BY <2>1, <2>2
  <2>4. ASSUME NEW p \in InQueues PROVE p = <<q, n>>
    <3>1. /\ p[1] \in Queues /\ p[2] \in 1..Len(rx_queue[p[1]]) /\ rx_queue[p[1]][p[2]] = b
          /\ p = <<p[1], p[2]>>
      <4>1. Len(rx_queue[p[1]]) \in Nat
        BY <1>1, LenProperties DEF QueueTypes
      <4> QED BY <4>1
    <3>2. b \in OnQueue(p[1])
      BY <1>1, <3>1, LenProperties DEF OnQueue, Range, QueueTypes
    <3>3. p[1] = q
      BY <1>1, <1>3, <3>1, <3>2 DEF ApartQueues
    <3>4. p[2] = n
      BY <1>1, <2>1, <3>1, <3>3 DEF ApartQueues, OnceIn
    <3> QED BY <3>1, <3>3, <3>4
  <2>5. InQueues = {<<q, n>>}
    BY <2>3, <2>4
  <2> HIDE DEF InQueues
  <2> QED BY <2>5, FS_Singleton
<1>4. ASSUME \A q \in Queues : b \notin OnQueue(q) PROVE Cardinality(InQueues) = 0
  <2>1. ASSUME NEW p \in InQueues PROVE FALSE
    <3>1. p[1] \in Queues /\ p[2] \in 1..Len(rx_queue[p[1]]) /\ rx_queue[p[1]][p[2]] = b
      <4>1. Len(rx_queue[p[1]]) \in Nat
        BY <1>1, LenProperties DEF QueueTypes
      <4> QED BY <4>1
    <3>2. b \in OnQueue(p[1])
      BY <1>1, <3>1, LenProperties DEF OnQueue, Range, QueueTypes
    <3> QED BY <1>4, <3>1, <3>2
  <2>2. InQueues = {}
    BY <2>1
  <2> HIDE DEF InQueues
  <2> QED BY <2>2, FS_EmptySet
<1>5. ASSUME NEW t \in Busy, rx_buf[t] = b PROVE Cardinality(HeldBy(b)) = 1
  <2>1. HeldBy(b) = {t}
    BY <1>1, <1>5 DEF HeldBy, Busy, ApartReaders
  <2> QED BY <2>1, FS_Singleton
<1>6. ASSUME \A t \in Busy : rx_buf[t] # b PROVE Cardinality(HeldBy(b)) = 0
  <2>1. HeldBy(b) = {}
    BY <1>6 DEF HeldBy, Busy
  <2> QED BY <2>1, FS_EmptySet
<1>7. Places(b) = (IF b \in free THEN 1 ELSE 0)
                  + Cardinality({n \in 1 .. Len(avail) : avail[n] = b})
                  + Cardinality(InQueues) + Cardinality(HeldBy(b))
  BY DEF Places
<1> HIDE DEF InQueues
<1>8. CASE b \in free \cup InRing
  <2>1. /\ \A q \in Queues : b \notin OnQueue(q)
        /\ \A t \in Busy : rx_buf[t] # b
        /\ ~(b \in free /\ b \in InRing)
    BY <1>1, <1>8 DEF ApartRing, ApartQueues, ApartReaders
  <2> QED BY <1>2, <1>4, <1>6, <1>7, <1>8, <2>1
<1>9. ASSUME NEW q \in Queues, b \in OnQueue(q) PROVE Places(b) = 1
  <2>1. b \notin free \cup InRing /\ \A t \in Busy : rx_buf[t] # b
    BY <1>1, <1>9 DEF ApartQueues, ApartReaders
  <2> QED BY <1>2, <1>3, <1>6, <1>7, <1>9, <2>1
<1>10. ASSUME NEW t \in Busy, rx_buf[t] = b PROVE Places(b) = 1
  <2>1. b \notin free \cup InRing /\ \A q \in Queues : b \notin OnQueue(q)
    BY <1>1, <1>10 DEF ApartReaders
  <2> QED BY <1>2, <1>4, <1>5, <1>7, <1>10, <2>1
<1> QED BY <1>1, <1>8, <1>9, <1>10 DEF Somewhere

\* What was taken from a queue, and what waits on it, is in order.
LEMMA OrderedReads == ASSUME QueueInv PROVE ReadInOrder
<1> SUFFICES ASSUME NEW q \in Queues
             PROVE  LET all == taken[q] \o Pending(q)
                    IN  \A m, n \in 1 .. Len(all) : m < n => all[m] < all[n]
  BY DEF ReadInOrder
<1> DEFINE all == taken[q] \o Pending(q)
           k == Len(taken[q])
           l == Len(rx_queue[q])
<1>1. /\ taken[q] \in Seq(Nat) /\ rx_queue[q] \in Seq(Buffers) /\ k \in Nat /\ l \in Nat
      /\ content \in [Buffers -> [id : Nat, to : Queues \union {None}, long : BOOLEAN]]
  BY LenProperties DEF QueueInv, QueueTypes
<1>2. /\ Pending(q) \in Seq(Nat) /\ Len(Pending(q)) = l
      /\ \A n \in 1..l : Pending(q)[n] = Id(rx_queue[q][n]) /\ rx_queue[q][n] \in OnQueue(q)
  BY <1>1, LenProperties DEF Pending, Id, OnQueue, Range
<1>3. /\ Len(all) = k + l
      /\ \A n \in 1..k : all[n] = taken[q][n] /\ taken[q][n] \in Range(taken[q])
      /\ \A n \in (k + 1)..(k + l) : /\ n - k \in 1..l
                                     /\ all[n] = Id(rx_queue[q][n - k])
  <2>0. /\ taken[q] \in Seq(Nat) /\ Pending(q) \in Seq(Nat)
        /\ k = Len(taken[q]) /\ l = Len(Pending(q))
    BY <1>1, <1>2
  <2> HIDE DEF k, l
  <2>1. /\ Len(all) = k + l
        /\ \A n \in 1..k : all[n] = taken[q][n]
        /\ \A n \in (k + 1)..(k + l) : n - k \in 1..l /\ all[n] = Pending(q)[n - k]
    BY <2>0, Joined
  <2>2. \A n \in 1..k : taken[q][n] \in Range(taken[q])
    BY <1>1, LenProperties DEF Range, k
  <2> HIDE DEF all
  <2> QED BY <1>1, <1>2, <2>1, <2>2
<1> HIDE DEF all, l
<1>4. ASSUME NEW m \in 1..(k + l), NEW n \in 1..(k + l), m < n PROVE all[m] < all[n]
  <2>1. CASE n \in 1..k
    BY <1>1, <1>3, <1>4, <2>1 DEF QueueInv, Ordered
  <2>2. CASE m \in 1..k /\ n \in (k + 1)..(k + l)
    <3>1. taken[q][m] < Id(rx_queue[q][n - k])
      BY <1>2, <1>3, <2>2 DEF QueueInv, Ordered
    <3> QED BY <1>3, <2>2, <3>1
  <2>3. CASE m \in (k + 1)..(k + l) /\ n \in (k + 1)..(k + l)
    <3>1. m - k \in 1..l /\ n - k \in 1..l
      BY <1>3, <2>3
    <3>2. m - k < n - k
      BY <1>1, <1>4, <2>3
    <3>3. Id(rx_queue[q][m - k]) < Id(rx_queue[q][n - k])
      BY <3>1, <3>2 DEF QueueInv, Ordered, RisingIds, l
    <3> QED BY <1>3, <2>3, <3>3
  <2>4. n \in 1..k \/ n \in (k + 1)..(k + l)
    BY <1>1
  <2>5. m \in 1..k \/ m \in (k + 1)..(k + l)
    BY <1>1
  <2> QED BY <2>1, <2>2, <2>3, <2>4, <2>5
<1> QED BY <1>3, <1>4 DEF all

\* No message is lost but those without an endpoint.
LEMMA NoneLost == ASSUME QueueInv PROVE Lossless
<1> DEFINE All == lost \union (UNION {Range(taken[q]) \union Range(Pending(q)) : q \in Queues})
                  \union {content[avail[n]].id : n \in 1 .. Len(avail)}
<1>1. ASSUME NEW q \in Queues, NEW i PROVE i \in Range(Pending(q)) <=> \E b \in OnQueue(q) : i = Id(b)
  <2>1. DOMAIN Pending(q) = 1..Len(rx_queue[q]) /\ DOMAIN rx_queue[q] = 1..Len(rx_queue[q])
    BY LenProperties DEF QueueInv, QueueTypes, Pending
  <2> QED BY <2>1 DEF Pending, OnQueue, Range, Id
<1>2. ASSUME NEW i
      PROVE  i \in {content[avail[n]].id : n \in 1 .. Len(avail)} <=> \E b \in InRing : i = Id(b)
  BY LenProperties DEF QueueInv, QueueTypes, InRing, Range, Id
<1>3. ASSUME NEW i PROVE i \in All <=> Seen(i)
  <2>1. i \in UNION {Range(taken[q]) \union Range(Pending(q)) : q \in Queues} <=>
           \E q \in Queues : i \in Range(taken[q]) \/ i \in Range(Pending(q))
    OBVIOUS
  <2> QED BY <1>1, <1>2, <2>1 DEF Seen
<1> HIDE DEF All
<1>4. 1..messages = All
  BY <1>3 DEF QueueInv, AllSeen
<1> QED BY <1>4 DEF All, Lossless

\* Until the interrupt first releases a buffer between the two stores of a
\* task's release - it releases one for which there is no endpoint - rpmsg_queue
\* loses, shares and overwrites no buffer, and no message is dropped or
\* overtaken, for any number of buffers, queues and tasks and however often
\* queues are destroyed and made again, when their owner empties a queue before
\* it destroys it.
THEOREM QueuesAreSafe == ASSUME DrainFirst PROVE QueueSpec => []QueueSafe
<1> DEFINE Inv == ~overtaken => QueueInv
<1>1. QueueInit => Inv
  BY QueueInvInit
<1>2. Inv /\ [QueueNext]_queueVars => Inv'
  BY QueueInvNext, OvertakenStays
<1>3. Inv => QueueSafe
  BY AllAccounted, OrderedReads, NoneLost DEF QueueInv, QueueTypes, QueueTypeOK, QueueSafe
<1> QED BY <1>1, <1>2, <1>3, PTL DEF QueueSpec

\* With queues that live as long as the link every message finds its endpoint,
\* and the interrupt releases nothing.
Addressed == bound = Queues /\ \A b \in InRing : content[b].to \in Queues

LEMMA AddressedKept ==
  ASSUME QueueInv, Addressed, Owned = {}, ~overtaken, [QueueNext]_queueVars
  PROVE  Addressed' /\ ~overtaken'
<1>0. QueueTypes
  BY DEF QueueInv
<1>1. ASSUME UNCHANGED <<avail, content, bound, overtaken>> PROVE Addressed' /\ ~overtaken'
  BY <1>1 DEF Addressed, InRing
<1>2. ASSUME NEW b \in Buffers, NEW q \in Queues, NEW long \in BOOLEAN, Send(b, q, long)
      PROVE  Addressed' /\ ~overtaken'
  <2>1. /\ avail' = Append(avail, b) /\ UNCHANGED <<bound, overtaken>>
        /\ content' = [content EXCEPT ![b] = [id |-> messages', to |-> q, long |-> long]]
    BY <1>2 DEF Send
  <2>2. Range(avail') = Range(avail) \cup {b} /\ Range(avail) \subseteq Buffers
    <3>1. b \notin Range(avail) /\ OnceIn(avail) /\ avail \in Seq(Buffers)
      BY <1>0, <1>2 DEF Send, QueueInv, ApartRing, QueueTypes, InRing
    <3>2. Range(avail) \subseteq Buffers
      BY <3>1, LenProperties DEF Range
    <3> QED BY <2>1, <3>1, <3>2, AppendOnce
  <2>3. \A c \in Buffers : content'[c].to = IF c = b THEN q ELSE content[c].to
    BY <1>0, <2>1 DEF QueueTypes
  <2> QED BY <2>1, <2>2, <2>3 DEF Addressed, InRing
<1>3. ASSUME avail # <<>> PROVE To \in bound /\ InRing = Range(Tail(avail)) \cup {Head(avail)}
  BY <1>3, FirstInRing DEF Addressed, To
<1>4. ASSUME Put PROVE Addressed' /\ ~overtaken'
  <2>1. avail # <<>> /\ avail' = Tail(avail) /\ To \in Queues /\ UNCHANGED <<content, bound>>
    BY <1>0, <1>4 DEF Put, QueueTypes
  <2>2. UNCHANGED overtaken
    <3>1. Len(rx_queue[To]) < Capacity
      BY <2>1, FirstInRing, RoomForAll
    <3> QED BY <1>4, <3>1 DEF Put, used
  <2> QED BY <1>3, <2>1, <2>2 DEF Addressed, InRing
<1>5. ~Unknown
  BY <1>3 DEF Unknown
<1>6. ASSUME NEW t \in Readers, Reader(t) PROVE UNCHANGED <<avail, content, bound, overtaken>>
  BY <1>6 DEF Reader, Recv, RecvNocopy, GetQueue, Copy, StoreSlot, ReleaseRxBuffer, virtqueue, used
<1>7. UNCHANGED queueVars => UNCHANGED <<avail, content, bound, overtaken>>
  BY DEF queueVars, virtqueue, used
<1> QED BY <1>1, <1>2, <1>4, <1>5, <1>6, <1>7 DEF QueueNext, RxCallback

\* If no queue is ever destroyed, and the master writes only to queues, the
\* interrupt never comes between the two stores of a task's release, and no
\* buffer and no message is lost at all.
THEOREM LastingQueues ==
  ASSUME DrainFirst, Owned = {}
  PROVE  QueueSpec => [](QueueTypeOK /\ BufferIsMine /\ ReadInOrder /\ Lossless)
<1> DEFINE Inv == QueueInv /\ Addressed /\ ~overtaken
<1>1. QueueInit => Inv
  <2>1. QueueInit => Addressed /\ ~overtaken
    BY DEF QueueInit, Addressed, InRing, Range
  <2> QED BY <2>1, QueueInvInit
<1>2. Inv /\ [QueueNext]_queueVars => Inv'
  BY AddressedKept, QueueInvNext
<1>3. Inv => QueueTypeOK /\ BufferIsMine /\ ReadInOrder /\ Lossless
  BY AllAccounted, OrderedReads, NoneLost DEF QueueInv, QueueTypes, QueueTypeOK
<1> QED BY <1>1, <1>2, <1>3, PTL DEF QueueSpec

-----------------------------------------------------------------------------
(* Initialisation and end of the link.                                     *)

Device(reg, client) == [reg |-> reg, client |-> client]
Devices == [reg : Reg, client : BOOLEAN]

\* Both mailboxes have a client, in the entries that the driver finds first.
Entry(i, reg, client) == Len(mbox_devs) >= i /\ mbox_devs[i] = Device(reg, client)
Wired == Entry(1, "MBOX0", TRUE) /\ Entry(2, "MBOX3", TRUE)

Counts(registered, installed) == register_count = registered /\ isr_counter = installed

\* No client is registered yet, and no doorbell can be taken.
Unwired(n) == /\ Len(mbox_devs) = n /\ Counts(0, 0) /\ vq = 1
              /\ ~a2b_inten /\ ~irq_enabled /\ ~first_notify

\* The first life of the link, from rpmsg_lite_remote_init to the end of
\* rpmsg_lite_deinit: what each step of it finds.
FirstQueue ==
    /\ main_pc = "install" /\ vq = 1 => Unwired(0) /\ isr_table = {}
    /\ main_pc = "master_mbox" => Unwired(0) /\ isr_table = {1}
    /\ main_pc = "own_mbox" => /\ Unwired(1) /\ isr_table = {1}
                               /\ Entry(1, "MBOX0", TRUE)
    /\ main_pc = "own_client" => /\ Unwired(2) /\ isr_table = {1}
                                 /\ Entry(1, "MBOX0", TRUE) /\ Entry(2, "MBOX3", FALSE)
SecondQueue == main_pc = "install" /\ vq = 0 =>
                  /\ Wired /\ Counts(1, 1) /\ isr_table = {1}
                  /\ ~irq_enabled /\ ~first_notify
Running ==
    /\ main_pc \in {"disable", "reset", "enable", "up"} =>
          /\ Wired /\ Counts(2, 2) /\ vq = 1 /\ isr_table = {0, 1}
          /\ goal = "up" /\ main_pc # "up" => ~irq_enabled /\ ~first_notify
    /\ main_pc = "up" => /\ first_notify => link_state = 1
                         /\ served => first_notify
Ending ==
    /\ main_pc = "uninstall" => /\ Wired /\ Counts(2, vq + 1)
                                /\ isr_table = IF vq = 1 THEN {0, 1} ELSE {0}
    /\ main_pc \in {"free", "down"} => Wired /\ Counts(2, 0) /\ isr_table = {}
    /\ main_pc # "hang"
FirstTime == FirstQueue /\ SecondQueue /\ Running /\ Ending

\* The second life installs nothing, and hangs at its end: there is no third.
SecondTime == /\ Wired /\ Counts(2, 0)
              /\ main_pc \in {"install", "master_mbox", "disable", "reset", "enable", "up",
                              "uninstall", "hang"}

LifeInv ==
    /\ LifeTypeOK
    /\ env_init_counter = IF main_pc = "down" THEN 0 ELSE 1
    /\ disable_counter = IF main_pc \in {"reset", "enable"} THEN 2 ELSE 0
    /\ inits = 0 => main_pc = "down" /\ Unwired(0) /\ isr_table = {}
    /\ inits = 1 => FirstTime
    /\ inits > 1 => SecondTime

\* The driver finds the first entry of a mailbox.
FirstEntry(devs, reg, i) == /\ i \in 1..Len(devs) /\ devs[i].reg = reg
                            /\ \A j \in 1..Len(devs) : j < i => devs[j].reg # reg

LEMMA OneFirst ==
  ASSUME NEW devs \in Seq(Devices), NEW reg, NEW i, FirstEntry(devs, reg, i)
  PROVE  /\ i \in DOMAIN devs /\ devs[i].reg = reg
         /\ \A j \in DOMAIN devs : devs[j].reg = reg => i <= j
         /\ \A k \in DOMAIN devs :
               devs[k].reg = reg /\ (\A j \in DOMAIN devs : devs[j].reg = reg => k <= j) => k = i
  BY LenProperties DEF FirstEntry

LEMMA FoundFirst ==
  ASSUME mbox_devs \in Seq(Devices), NEW reg, NEW i, FirstEntry(mbox_devs, reg, i)
  PROVE  HasClient(reg) <=> mbox_devs[i].client
<1>1. i \in Entries(reg) /\ \A j \in Entries(reg) : i <= j
  BY OneFirst DEF Entries
<1>2. \A k \in Entries(reg) : (\A j \in Entries(reg) : k <= j) => k = i
  BY OneFirst DEF Entries
<1>3. MBOX_FindEntry(reg) = i
  BY <1>1, <1>2 DEF MBOX_FindEntry
<1> QED BY <1>1, <1>3 DEF HasClient

LEMMA WiredFound ==
  ASSUME mbox_devs \in Seq(Devices), Wired
  PROVE  HasClient("MBOX0") /\ HasClient("MBOX3")
<1>1. /\ Len(mbox_devs) \in Nat /\ Len(mbox_devs) >= 2
      /\ mbox_devs[1] = Device("MBOX0", TRUE) /\ mbox_devs[2] = Device("MBOX3", TRUE)
  BY LenProperties DEF Wired, Entry
<1>2. FirstEntry(mbox_devs, "MBOX0", 1)
  BY <1>1 DEF FirstEntry, Device
<1>3. FirstEntry(mbox_devs, "MBOX3", 2)
  <2>1. \A j \in 1..Len(mbox_devs) : j < 2 => j = 1
    BY <1>1
  <2> QED BY <1>1, <2>1 DEF FirstEntry, Device
<1> QED BY <1>1, <1>2, <1>3, FoundFirst DEF Device

\* A client goes into the first entry of its mailbox.
LEMMA ClientPlaced ==
  ASSUME NEW devs \in Seq(Devices), NEW reg \in Reg, NEW i \in Nat, FirstEntry(devs, reg, i)
  PROVE  /\ WithClient(devs, reg) \in Seq(Devices) /\ Len(WithClient(devs, reg)) = Len(devs)
         /\ WithClient(devs, reg)[i] = Device(reg, TRUE)
         /\ \A j \in 1..Len(devs) : j # i => WithClient(devs, reg)[j] = devs[j]
<1>1. (CHOOSE k \in DOMAIN devs : /\ devs[k].reg = reg
                                  /\ \A j \in DOMAIN devs : devs[j].reg = reg => k <= j) = i
  BY OneFirst
<1>2. WithClient(devs, reg) = [devs EXCEPT ![i].client = TRUE]
  BY <1>1 DEF WithClient
<1>3. /\ i \in 1..Len(devs) /\ devs[i].reg = reg /\ devs[i] \in Devices
      /\ DOMAIN devs = 1..Len(devs) /\ Len(devs) \in Nat
      /\ devs \in [1..Len(devs) -> Devices]
  BY LenProperties DEF FirstEntry
<1>4. [devs[i] EXCEPT !.client = TRUE] = Device(reg, TRUE) /\ Device(reg, TRUE) \in Devices
  <2>1. PICK r \in Reg, c \in BOOLEAN : devs[i] = [reg |-> r, client |-> c]
    BY <1>3 DEF Devices
  <2>2. r = reg
    BY <1>3, <2>1
  <2>3. \A a, b, new : [[reg |-> a, client |-> b] EXCEPT !.client = new] = [reg |-> a, client |-> new]
    OBVIOUS
  <2>4. Device(reg, TRUE) \in Devices
    BY DEF Devices, Device
  <2>5. [[reg |-> r, client |-> c] EXCEPT !.client = TRUE] = [reg |-> r, client |-> TRUE]
    BY <2>3, Zenon
  <2> QED BY <2>1, <2>2, <2>4, <2>5, Zenon DEF Device
<1>5. WithClient(devs, reg) = [devs EXCEPT ![i] = Device(reg, TRUE)]
  BY <1>2, <1>4
<1>6. WithClient(devs, reg) \in [1..Len(devs) -> Devices]
  BY <1>3, <1>4, <1>5
<1>7. WithClient(devs, reg) \in Seq(Devices) /\ Len(WithClient(devs, reg)) = Len(devs)
  BY <1>3, <1>6, IsASeq, LenProperties
<1> QED BY <1>3, <1>4, <1>5, <1>7

LEMMA OthersKept ==
  ASSUME NEW devs \in Seq(Devices), NEW reg \in Reg, NEW i \in Nat, FirstEntry(devs, reg, i),
         NEW j \in 1..Len(devs), j # i
  PROVE  WithClient(devs, reg)[j] = devs[j]
  BY ClientPlaced

\* A further entry changes nothing for the mailboxes that have one.
LEMMA EntryAdded ==
  ASSUME mbox_devs \in Seq(Devices), Len(mbox_devs) <= MboxCnt, NEW reg \in Reg
  PROVE  /\ MboxInit(reg) \in Seq(Devices) /\ Len(MboxInit(reg)) <= MboxCnt
         /\ Len(MboxInit(reg)) >= Len(mbox_devs)
         /\ \A k \in 1..Len(mbox_devs) : MboxInit(reg)[k] = mbox_devs[k]
         /\ Len(mbox_devs) < MboxCnt =>
               /\ Len(MboxInit(reg)) = Len(mbox_devs) + 1
               /\ MboxInit(reg)[Len(mbox_devs) + 1] = Device(reg, FALSE)
<1>1. Len(mbox_devs) \in Nat /\ MboxCnt \in Nat
  BY MboxAssumption, LenProperties
<1>2. CASE Len(mbox_devs) = MboxCnt
  <2> DEFINE added == MboxInit(reg)
  <2>1. added = mbox_devs
    BY <1>2 DEF MboxInit
  <2> HIDE DEF added
  <2>2. /\ added \in Seq(Devices) /\ Len(added) = Len(mbox_devs)
        /\ \A k \in 1..Len(mbox_devs) : added[k] = mbox_devs[k]
    BY <2>1
  <2>3. Len(added) <= MboxCnt /\ Len(added) >= Len(mbox_devs) /\ ~(Len(mbox_devs) < MboxCnt)
    BY <1>1, <1>2, <2>2
  <2> QED BY <2>2, <2>3, Zenon DEF added
<1>3. CASE Len(mbox_devs) # MboxCnt
  <2> DEFINE d == Device(reg, FALSE)
             added == MboxInit(reg)
  <2>1. added = Append(mbox_devs, d)
    BY <1>3 DEF MboxInit, Device
  <2>2. d \in Devices
    BY DEF Device, Devices
  <2> HIDE DEF d, added
  <2>3. /\ added \in Seq(Devices) /\ Len(added) = Len(mbox_devs) + 1
        /\ added[Len(mbox_devs) + 1] = d
        /\ \A k \in 1..Len(mbox_devs) : added[k] = mbox_devs[k]
    BY <2>1, <2>2, AppendProperties
  <2> QED BY <1>1, <1>3, <2>3 DEF d, added
<1> QED BY <1>2, <1>3

\* The types, those of the table of mailboxes apart.
LifeScalars ==
    /\ env_init_counter \in 0..1 /\ isr_table \subseteq Vq
    /\ isr_counter \in 0..2 /\ disable_counter \in {0, 2}
    /\ link_state \in {0, 1} /\ inits \in 0..MaxInits
    /\ goal \in {"up", "down"} /\ vq \in Vq
    /\ main_pc \in {"down", "install", "master_mbox", "own_mbox",
                    "own_client", "disable", "reset", "enable", "up",
                    "uninstall", "free", "hang"}
LifeFlags == /\ first_notify \in BOOLEAN /\ a2b_status \in BOOLEAN /\ a2b_inten \in BOOLEAN
             /\ irq_enabled \in BOOLEAN /\ served \in BOOLEAN
LifeTable == /\ register_count \in 0..(2 * MaxInits)
             /\ mbox_devs \in Seq(Devices) /\ Len(mbox_devs) <= MboxCnt

LEMMA LifeTypes == LifeTypeOK <=> LifeScalars /\ LifeFlags /\ LifeTable
  BY DEF LifeTypeOK, LifeScalars, LifeFlags, LifeTable, Devices

LifePhase ==
    /\ env_init_counter = IF main_pc = "down" THEN 0 ELSE 1
    /\ disable_counter = IF main_pc \in {"reset", "enable"} THEN 2 ELSE 0
    /\ inits = 0 => main_pc = "down" /\ Unwired(0) /\ isr_table = {}
    /\ inits = 1 => FirstTime
    /\ inits > 1 => SecondTime

LEMMA LifeInvParts == LifeInv <=> LifeScalars /\ LifeFlags /\ LifeTable /\ LifePhase
  BY LifeTypes DEF LifeInv, LifePhase

LEMMA LifeInvInit == LifeInit => LifeInv
<1> SUFFICES ASSUME LifeInit PROVE LifeInv
  OBVIOUS
<1>1. LifeTable /\ Len(mbox_devs) = 0
  BY MboxAssumption, InitsAssumption DEF LifeInit, LifeTable
<1>2. LifeFlags
  BY DEF LifeInit, LifeFlags
<1>3. LifeScalars
  BY InitsAssumption DEF LifeInit, LifeScalars, Vq
<1>4. LifePhase
  BY <1>1 DEF LifeInit, LifePhase, Unwired, Counts
<1> QED BY <1>1, <1>2, <1>3, <1>4, LifeInvParts

\* The flags are set to what they may be.
LEMMA LifeFlagsStep == LifeFlags /\ [LifeNext]_lifeVars => LifeFlags'
  BY DEF LifeFlags, LifeNext, InitEnv, Install, InstallMaster, InstallOwn, InstallClient, Disable,
     Reset, Enable, Deinit, Uninstall, DeinitEnv, Doorbell, IsrServe, lifeVars, mboxVars

\* The steps that look at no mailbox and at no queue.
LEMMA PlainSteps ==
  ASSUME LifeInv, Disable \/ Reset \/ Enable \/ Deinit \/ Doorbell \/ IsrServe \/ DeinitEnv
  PROVE  LifeScalars' /\ LifeTable' /\ LifePhase'
<1>0. LifeScalars /\ LifeFlags /\ LifeTable /\ LifePhase
  BY LifeInvParts
<1>1. UNCHANGED <<mbox_devs, register_count, isr_counter, isr_table, a2b_inten, inits, vq>>
  BY DEF Disable, Reset, Enable, Deinit, Doorbell, IsrServe, DeinitEnv, envVars, countVars,
     mboxVars, mainVars
<1>2. LifeTable'
  BY <1>0, <1>1 DEF LifeTable
<1>3. /\ Wired' <=> Wired
      /\ \A n, m \in 0..2 : Counts(n, m)' <=> Counts(n, m)
      /\ \A i \in {1, 2}, reg \in Reg, c \in BOOLEAN : Entry(i, reg, c)' <=> Entry(i, reg, c)
  BY <1>1 DEF Wired, Entry, Counts
<1> USE DEF LifePhase, FirstTime, FirstQueue, SecondQueue, Running, Ending, SecondTime
<1>4. CASE Disable
  <2>1. /\ main_pc = "disable" /\ main_pc' = "reset" /\ disable_counter' = disable_counter + 2
        /\ ~irq_enabled' /\ UNCHANGED <<env_init_counter, first_notify, link_state, served, goal>>
    BY <1>4 DEF Disable, envVars, mainVars
  <2>2. LifeScalars'
    BY <1>0, <1>1, <2>1 DEF LifeScalars
  <2>3. LifePhase'
    BY <1>0, <1>1, <1>3, <2>1 DEF Unwired
  <2> QED BY <1>2, <2>2, <2>3
<1>5. CASE Reset
  <2>1. /\ main_pc = "reset" /\ main_pc' = "enable" /\ link_state' = 0
        /\ UNCHANGED <<env_init_counter, disable_counter, irq_enabled, first_notify, served, goal>>
    BY <1>5 DEF Reset, envVars, countVars, mboxVars, mainVars
  <2>2. LifeScalars'
    BY <1>0, <1>1, <2>1 DEF LifeScalars
  <2>3. LifePhase'
    BY <1>0, <1>1, <1>3, <2>1 DEF Unwired
  <2> QED BY <1>2, <2>2, <2>3
<1>6. CASE Enable
  <2>1. /\ main_pc = "enable" /\ main_pc' = IF goal = "up" THEN "up" ELSE "uninstall"
        /\ disable_counter' = disable_counter - 2 /\ irq_enabled' /\ ~served'
        /\ UNCHANGED <<env_init_counter, first_notify, link_state, goal>>
    BY <1>6 DEF Enable, envVars, countVars, mboxVars, mainVars
  <2>2. LifeScalars'
    BY <1>0, <1>1, <2>1 DEF LifeScalars
  <2>3. LifePhase'
    BY <1>0, <1>1, <1>3, <2>1 DEF Unwired
  <2> QED BY <1>2, <2>2, <2>3
<1>7. CASE Deinit
  <2>1. /\ main_pc = "up" /\ main_pc' = "disable" /\ goal' = "down"
        /\ UNCHANGED <<env_init_counter, disable_counter, irq_enabled, first_notify, link_state, served>>
    BY <1>7 DEF Deinit, envVars, countVars, mboxVars, mainVars
  <2>2. LifeScalars'
    BY <1>0, <1>1, <2>1 DEF LifeScalars
  <2>3. LifePhase'
    BY <1>0, <1>1, <1>3, <2>1 DEF Unwired
  <2> QED BY <1>2, <2>2, <2>3
<1>8. CASE DeinitEnv
  <2>1. /\ main_pc = "free" /\ main_pc' = "down" /\ env_init_counter' = env_init_counter - 1
        /\ UNCHANGED <<disable_counter, irq_enabled, first_notify, link_state, served, goal>>
    BY <1>8 DEF DeinitEnv, envVars, countVars, mboxVars, mainVars
  <2>2. LifeScalars'
    BY <1>0, <1>1, <2>1 DEF LifeScalars
  <2>3. LifePhase'
    BY <1>0, <1>1, <1>3, <2>1 DEF Unwired
  <2> QED BY <1>2, <2>2, <2>3
<1>9. CASE Doorbell
  <2>1. UNCHANGED <<env_init_counter, disable_counter, irq_enabled, first_notify, link_state, served,
                  main_pc, goal>>
    BY <1>9 DEF Doorbell, envVars, countVars, mboxVars, mainVars
  <2>2. LifeScalars'
    BY <1>0, <1>1, <2>1 DEF LifeScalars
  <2>3. LifePhase'
    BY <1>0, <1>1, <2>1 DEF Unwired, Wired, Entry, Counts
  <2> QED BY <1>2, <2>2, <2>3
<1>10. CASE IsrServe
  <2>1. /\ a2b_inten /\ irq_enabled /\ first_notify' /\ served'
        /\ link_state' = IF ~first_notify /\ 0 \in isr_table THEN 1 ELSE link_state
        /\ UNCHANGED <<env_init_counter, disable_counter, irq_enabled, main_pc, goal>>
    BY <1>10 DEF IsrServe, Taken, envVars, countVars, mboxVars, mainVars
  <2>2. LifeScalars'
    BY <1>0, <1>1, <2>1 DEF LifeScalars
  <2>3. inits # 0 /\ (inits = 1 => main_pc \notin {"install", "master_mbox", "own_mbox", "own_client"})
    BY <1>0, <2>1 DEF Unwired, LifeScalars, Vq
  <2>4. inits = 1 /\ main_pc \in {"disable", "reset", "enable"} => goal = "down"
    BY <1>0, <2>1 DEF LifeScalars
  <2>5. LifePhase'
    BY <1>0, <1>1, <2>1, <2>3, <2>4 DEF Wired, Entry, Counts
  <2> QED BY <1>2, <2>2, <2>5
<1> QED BY <1>4, <1>5, <1>6, <1>7, <1>8, <1>9, <1>10

LEMMA InitEnvStep ==
  ASSUME LifeInv, InitEnv
  PROVE  LifeScalars' /\ LifeTable' /\ LifePhase'
<1>0. LifeScalars /\ LifeFlags /\ LifeTable /\ LifePhase
  BY LifeInvParts
<1>1. /\ main_pc = "down" /\ inits < MaxInits /\ inits' = inits + 1 /\ goal' = "up"
      /\ env_init_counter' = env_init_counter + 1 /\ main_pc' = "install" /\ vq' = 1
      /\ isr_table' = (IF env_init_counter = 0 THEN {} ELSE isr_table) /\ link_state' = 0
      /\ UNCHANGED <<mbox_devs, register_count, isr_counter, disable_counter, a2b_inten,
                     irq_enabled, first_notify>>
  BY DEF InitEnv, countVars, mboxVars
<1>2. LifeTable'
  BY <1>0, <1>1 DEF LifeTable
<1>3. LifeScalars'
  BY <1>0, <1>1, InitsAssumption DEF LifeScalars, LifePhase, Vq
<1>4. inits = 0 \/ inits = 1
  BY <1>0, <1>1, InitsAssumption DEF LifeScalars, LifePhase, SecondTime
<1>5. CASE inits = 0
  <2>1. Unwired(0) /\ isr_table = {} /\ env_init_counter = 0 /\ disable_counter = 0
    BY <1>0, <1>1, <1>5 DEF LifePhase
  <2>2. Unwired(0)' /\ isr_table' = {} /\ env_init_counter' = 1 /\ inits' = 1
    BY <1>1, <1>5, <2>1 DEF Unwired, Counts
  <2> QED BY <1>1, <1>2, <1>3, <2>1, <2>2 DEF LifePhase, FirstTime, FirstQueue, SecondQueue, Running,
        Ending
<1>6. CASE inits = 1
  <2>1. Wired /\ Counts(2, 0) /\ env_init_counter = 0 /\ disable_counter = 0
    BY <1>0, <1>1, <1>6 DEF LifePhase, FirstTime, Ending
  <2>2. Wired' /\ Counts(2, 0)' /\ env_init_counter' = 1 /\ inits' = 2
    BY <1>1, <1>6, <2>1 DEF Wired, Entry, Counts
  <2> QED BY <1>1, <1>2, <1>3, <2>1, <2>2 DEF LifePhase, SecondTime
<1> QED BY <1>4, <1>5, <1>6

LEMMA UninstallStep ==
  ASSUME LifeInv, Uninstall
  PROVE  LifeScalars' /\ LifeTable' /\ LifePhase'
<1>0. LifeScalars /\ LifeFlags /\ LifeTable /\ LifePhase
  BY LifeInvParts
<1>1. /\ main_pc = "uninstall"
      /\ UNCHANGED <<mbox_devs, register_count, env_init_counter, disable_counter, a2b_inten,
                     irq_enabled, first_notify, link_state, served, inits, goal>>
  BY DEF Uninstall, mboxVars, mainVars
<1>2. \/ isr_counter = 0 /\ main_pc' = "hang" /\ UNCHANGED <<isr_table, isr_counter, vq>>
      \/ /\ isr_counter # 0 /\ isr_counter' = isr_counter - 1 /\ isr_table' = isr_table \ {vq}
         /\ IF vq = 1 THEN vq' = 0 /\ main_pc' = main_pc ELSE vq' = 1 /\ main_pc' = "free"
  BY DEF Uninstall
<1>3. LifeTable'
  BY <1>0, <1>1 DEF LifeTable
<1>4. /\ isr_counter' \in 0..2 /\ isr_table' \subseteq Vq /\ vq' \in Vq /\ vq \in {0, 1}
      /\ main_pc' \in {"uninstall", "free", "hang"} /\ inits \in Nat /\ inits # 0
  <2>1. isr_counter \in 0..2 /\ vq \in {0, 1} /\ isr_table \subseteq Vq /\ inits \in Nat /\ inits # 0
    BY <1>0, <1>1, InitsAssumption DEF LifeScalars, LifePhase, Vq
  <2>2. isr_counter' \in 0..2 /\ isr_table' \subseteq Vq
    BY <1>2, <2>1
  <2>3. vq' \in Vq /\ main_pc' \in {"uninstall", "free", "hang"}
    BY <1>1, <1>2, <2>1 DEF Vq
  <2> QED BY <2>1, <2>2, <2>3
<1>5. LifeScalars'
  BY <1>0, <1>1, <1>4 DEF LifeScalars
<1>6. CASE inits = 1
  <2>1. /\ Wired /\ Counts(2, vq + 1) /\ isr_table = IF vq = 1 THEN {0, 1} ELSE {0}
        /\ env_init_counter = 1 /\ disable_counter = 0
    BY <1>0, <1>1, <1>6 DEF LifePhase, FirstTime, Ending
  <2>2. Wired'
    BY <1>1, <2>1 DEF Wired, Entry
  <2>3. \/ /\ main_pc' = "uninstall" /\ vq' = 0 /\ Counts(2, 1)' /\ isr_table' = {0}
        \/ /\ main_pc' = "free" /\ Counts(2, 0)' /\ isr_table' = {}
    <3>1. isr_counter = vq + 1 /\ register_count = 2
      BY <2>1 DEF Counts
    <3>2. CASE vq = 1
      BY <1>1, <1>2, <2>1, <3>1, <3>2 DEF Counts
    <3>3. CASE vq = 0
      BY <1>1, <1>2, <2>1, <3>1, <3>3 DEF Counts
    <3> QED BY <1>4, <3>2, <3>3
  <2>4. FirstQueue' /\ SecondQueue' /\ Running'
    BY <2>3 DEF FirstQueue, SecondQueue, Running
  <2>5. Ending'
    BY <2>2, <2>3 DEF Ending, Counts
  <2>6. LifePhase'
    BY <1>1, <1>6, <2>1, <2>3, <2>4, <2>5 DEF LifePhase, FirstTime
  <2> QED BY <1>3, <1>5, <2>6
<1>7. CASE inits # 1
  BY <1>0, <1>1, <1>2, <1>3, <1>4, <1>5, <1>7 DEF LifePhase, SecondTime, Wired, Entry, Counts
<1> QED BY <1>6, <1>7

LEMMA InstallStep ==
  ASSUME LifeInv, Install
  PROVE  LifeScalars' /\ LifeTable' /\ LifePhase'
<1>0. LifeScalars /\ LifeFlags /\ LifeTable /\ LifePhase
  BY LifeInvParts
<1>1. /\ main_pc = "install" /\ isr_table' = isr_table \union {vq}
      /\ UNCHANGED <<mbox_devs, env_init_counter, disable_counter, a2b_inten, irq_enabled,
                     first_notify, link_state, served, inits, goal>>
  BY DEF Install, mboxVars, mainVars
<1>2. \/ /\ register_count % 2 = 0 /\ main_pc' = "master_mbox"
         /\ UNCHANGED <<register_count, isr_counter, vq>>
      \/ /\ register_count % 2 # 0 /\ register_count' = register_count + 1
         /\ isr_counter' = isr_counter + 1
         /\ IF vq = 1 THEN vq' = 0 /\ main_pc' = "install" ELSE vq' = 1 /\ main_pc' = "disable"
  BY DEF Install, NextQueue, countVars
<1>3. /\ vq \in {0, 1} /\ inits \in Nat /\ inits # 0 /\ inits <= MaxInits
  BY <1>0, <1>1, InitsAssumption DEF LifeScalars, LifePhase, Vq
<1>4. /\ inits = 1 /\ vq = 1 => Counts(0, 0)
      /\ inits = 1 /\ vq = 0 => Counts(1, 1)
      /\ inits > 1 => Counts(2, 0)
  BY <1>0, <1>1 DEF LifePhase, FirstTime, FirstQueue, SecondQueue, SecondTime, Unwired
<1>5. \/ /\ main_pc' = "master_mbox" /\ (inits = 1 => vq = 1)
         /\ UNCHANGED <<register_count, isr_counter, vq>>
      \/ /\ inits = 1 /\ vq = 0 /\ register_count' = 2 /\ isr_counter' = 2
         /\ vq' = 1 /\ main_pc' = "disable"
  BY <1>2, <1>3, <1>4 DEF Counts
<1>6. LifeTable'
  BY <1>0, <1>1, <1>3, <1>5, InitsAssumption DEF LifeTable
<1>7. LifeScalars'
  BY <1>0, <1>1, <1>3, <1>5 DEF LifeScalars, Vq
<1>8. LifePhase'
  BY <1>0, <1>1, <1>3, <1>5 DEF LifePhase, FirstTime, FirstQueue, SecondQueue, Running, Ending, SecondTime, Unwired, Wired,
     Entry, Counts
<1> QED BY <1>6, <1>7, <1>8

\* The first entry of all is that of the master's mailbox, with its client;
\* a second life finds both mailboxes with clients and adds an entry at most.
LEMMA MasterPlaced ==
  ASSUME mbox_devs \in Seq(Devices), Len(mbox_devs) = 0
  PROVE  LET devs == WithClient(MboxInit("MBOX0"), "MBOX0")
         IN /\ ~HasClient("MBOX0")
            /\ devs \in Seq(Devices) /\ Len(devs) = 1 /\ devs[1] = Device("MBOX0", TRUE)
<1> DEFINE one == MboxInit("MBOX0")
           devs == WithClient(one, "MBOX0")
<1>1. one \in Seq(Devices) /\ Len(one) = 1 /\ one[1] = Device("MBOX0", FALSE)
  <2>1. "MBOX0" \in Reg /\ Len(mbox_devs) < MboxCnt /\ Len(mbox_devs) <= MboxCnt
    BY MboxAssumption DEF Reg
  <2>2. /\ one \in Seq(Devices) /\ Len(one) = Len(mbox_devs) + 1
        /\ one[Len(mbox_devs) + 1] = Device("MBOX0", FALSE)
    BY <2>1, EntryAdded
  <2>3. Len(mbox_devs) + 1 = 1
    OBVIOUS
  <2> HIDE DEF one
  <2> QED BY <2>2, <2>3
<1>2. ~HasClient("MBOX0")
  BY LenProperties DEF HasClient, Entries
<1> HIDE DEF one
<1>3. FirstEntry(one, "MBOX0", 1)
  BY <1>1 DEF FirstEntry, Device
<1>4. devs \in Seq(Devices) /\ Len(devs) = 1 /\ devs[1] = Device("MBOX0", TRUE)
  BY <1>1, <1>3, ClientPlaced DEF Reg
<1> QED BY <1>2, <1>4 DEF one

LEMMA OwnAdded ==
  ASSUME mbox_devs \in Seq(Devices), Len(mbox_devs) = 1, mbox_devs[1] = Device("MBOX0", TRUE)
  PROVE  LET devs == MboxInit("MBOX3")
         IN /\ devs \in Seq(Devices) /\ Len(devs) = 2 /\ devs[1] = Device("MBOX0", TRUE)
            /\ devs[2] = Device("MBOX3", FALSE)
<1> DEFINE devs == MboxInit("MBOX3")
<1>1. "MBOX3" \in Reg /\ Len(mbox_devs) < MboxCnt /\ Len(mbox_devs) <= MboxCnt
  BY MboxAssumption DEF Reg
<1>2. /\ devs \in Seq(Devices) /\ Len(devs) = Len(mbox_devs) + 1
      /\ \A k \in 1..Len(mbox_devs) : devs[k] = mbox_devs[k]
      /\ devs[Len(mbox_devs) + 1] = Device("MBOX3", FALSE)
  BY <1>1, EntryAdded
<1>3. Len(mbox_devs) + 1 = 2 /\ 1 \in 1..Len(mbox_devs)
  OBVIOUS
<1> HIDE DEF devs
<1>4. /\ devs \in Seq(Devices) /\ Len(devs) = 2 /\ devs[1] = Device("MBOX0", TRUE)
      /\ devs[2] = Device("MBOX3", FALSE)
  BY <1>2, <1>3
<1> QED BY <1>4 DEF devs

LEMMA OwnPlaced ==
  ASSUME mbox_devs \in Seq(Devices), Len(mbox_devs) = 2, mbox_devs[1] = Device("MBOX0", TRUE),
         mbox_devs[2] = Device("MBOX3", FALSE)
  PROVE  LET devs == WithClient(mbox_devs, "MBOX3")
         IN /\ ~HasClient("MBOX3")
            /\ devs \in Seq(Devices) /\ Len(devs) = 2 /\ devs[1] = Device("MBOX0", TRUE)
            /\ devs[2] = Device("MBOX3", TRUE)
<1>1. FirstEntry(mbox_devs, "MBOX3", 2)
  BY DEF FirstEntry, Device
<1>2. ~HasClient("MBOX3")
  BY <1>1, FoundFirst DEF Device
<1> DEFINE devs == WithClient(mbox_devs, "MBOX3")
<1>3. "MBOX3" \in Reg /\ 1 \in 1..Len(mbox_devs) /\ 1 # 2
  BY DEF Reg
<1>4. /\ devs \in Seq(Devices) /\ Len(devs) = Len(mbox_devs) /\ devs[2] = Device("MBOX3", TRUE)
      /\ devs[1] = mbox_devs[1]
  <2> DEFINE own == mbox_devs
  <2>1. own \in Seq(Devices) /\ FirstEntry(own, "MBOX3", 2) /\ 1 \in 1..Len(own)
    BY <1>1, <1>3
  <2> HIDE DEF own
  <2>2. /\ WithClient(own, "MBOX3") \in Seq(Devices)
        /\ Len(WithClient(own, "MBOX3")) = Len(own)
        /\ WithClient(own, "MBOX3")[2] = Device("MBOX3", TRUE)
    BY <1>3, <2>1, ClientPlaced
  <2>3. WithClient(own, "MBOX3")[1] = own[1]
    BY <1>3, <2>1, OthersKept
  <2> QED BY <2>2, <2>3 DEF own
<1> HIDE DEF devs
<1>5. /\ devs \in Seq(Devices) /\ Len(devs) = 2 /\ devs[1] = Device("MBOX0", TRUE)
      /\ devs[2] = Device("MBOX3", TRUE)
  BY <1>3, <1>4
<1> QED BY <1>2, <1>5 DEF devs

LEMMA InstallMasterStep ==
  ASSUME LifeInv, InstallMaster
  PROVE  LifeScalars' /\ LifeTable' /\ LifePhase'
<1>0. LifeScalars /\ LifeFlags /\ LifeTable /\ LifePhase
  BY LifeInvParts
<1>1. /\ main_pc = "master_mbox"
      /\ UNCHANGED <<isr_table, register_count, isr_counter, env_init_counter, disable_counter,
                     a2b_inten, irq_enabled, first_notify, link_state, served, inits, goal>>
  BY DEF InstallMaster, envVars, countVars, mboxVars, mainVars
<1>2. inits \in Nat /\ inits # 0 /\ vq \in {0, 1}
  BY <1>0, <1>1, InitsAssumption DEF LifeScalars, LifePhase, Vq
<1>3. CASE inits = 1
  <2>1. Unwired(0) /\ isr_table = {1} /\ env_init_counter = 1 /\ disable_counter = 0
    BY <1>0, <1>1, <1>3 DEF LifePhase, FirstTime, FirstQueue
  <2>2. mbox_devs \in Seq(Devices) /\ Len(mbox_devs) = 0
    BY <1>0, <2>1 DEF LifeTable, Unwired
  <2>3. /\ mbox_devs' = WithClient(MboxInit("MBOX0"), "MBOX0")
        /\ main_pc' = "own_mbox" /\ vq' = vq
    BY <2>2, MasterPlaced DEF InstallMaster
  <2>4. mbox_devs' \in Seq(Devices) /\ Len(mbox_devs') = 1 /\ mbox_devs'[1] = Device("MBOX0", TRUE)
    BY <2>2, <2>3, MasterPlaced
  <2>5. Unwired(1)' /\ Entry(1, "MBOX0", TRUE)'
    BY <1>1, <2>1, <2>3, <2>4 DEF Unwired, Counts, Entry, Device
  <2>6. LifeTable' /\ LifeScalars'
    BY <1>0, <1>1, <2>3, <2>4, MboxAssumption DEF LifeTable, LifeScalars
  <2>7. FirstQueue' /\ SecondQueue' /\ Running' /\ Ending'
    BY <1>1, <2>1, <2>3, <2>5 DEF FirstQueue, SecondQueue, Running, Ending
  <2>8. LifePhase'
    BY <1>1, <1>3, <2>1, <2>3, <2>7 DEF LifePhase, FirstTime
  <2> QED BY <2>6, <2>8
<1>4. CASE inits # 1
  <2>1. Wired /\ Counts(2, 0) /\ env_init_counter = 1 /\ disable_counter = 0
    BY <1>0, <1>1, <1>2, <1>4 DEF LifePhase, SecondTime
  <2>2. /\ mbox_devs' = MboxInit("MBOX0")
        /\ IF vq = 1 THEN vq' = 0 /\ main_pc' = "install" ELSE vq' = 1 /\ main_pc' = "disable"
    BY <1>0, <2>1, WiredFound DEF InstallMaster, NextQueue, LifeTable
  <2>3. /\ mbox_devs' \in Seq(Devices) /\ Len(mbox_devs') <= MboxCnt
        /\ Len(mbox_devs') >= Len(mbox_devs)
        /\ \A k \in 1..Len(mbox_devs) : mbox_devs'[k] = mbox_devs[k]
    BY <1>0, <2>2, EntryAdded DEF LifeTable, Reg
  <2>4. Len(mbox_devs) \in Nat /\ Len(mbox_devs') \in Nat
    BY <1>0, <2>3, LenProperties DEF LifeTable
  <2>5. Wired'
    BY <2>1, <2>3, <2>4 DEF Wired, Entry, Device
  <2>6. LifeTable' /\ LifeScalars'
    BY <1>0, <1>1, <2>2, <2>3 DEF LifeTable, LifeScalars, Vq
  <2>7. Counts(2, 0)'
    BY <1>1, <2>1 DEF Counts
  <2>8. LifePhase'
    BY <1>1, <1>2, <1>4, <2>1, <2>2, <2>5, <2>7 DEF LifePhase, SecondTime
  <2> QED BY <2>6, <2>8
<1> QED BY <1>3, <1>4

LEMMA InstallOwnStep ==
  ASSUME LifeInv, InstallOwn
  PROVE  LifeScalars' /\ LifeTable' /\ LifePhase'
<1>0. LifeScalars /\ LifeFlags /\ LifeTable /\ LifePhase
  BY LifeInvParts
<1>1. /\ main_pc = "own_mbox" /\ main_pc' = "own_client" /\ mbox_devs' = MboxInit("MBOX3")
      /\ UNCHANGED <<isr_table, register_count, isr_counter, env_init_counter, disable_counter,
                     a2b_inten, irq_enabled, first_notify, link_state, served, inits, goal, vq>>
  BY DEF InstallOwn, envVars, countVars, mboxVars, mainVars
<1>2. inits = 1
  BY <1>0, <1>1, InitsAssumption DEF LifeScalars, LifePhase, SecondTime
<1>3. /\ Unwired(1) /\ isr_table = {1} /\ Entry(1, "MBOX0", TRUE)
      /\ env_init_counter = 1 /\ disable_counter = 0
  BY <1>0, <1>1, <1>2 DEF LifePhase, FirstTime, FirstQueue
<1>4. mbox_devs \in Seq(Devices) /\ Len(mbox_devs) = 1 /\ mbox_devs[1] = Device("MBOX0", TRUE)
  BY <1>0, <1>3 DEF LifeTable, Unwired, Entry
<1>5. /\ mbox_devs' \in Seq(Devices) /\ Len(mbox_devs') = 2
      /\ mbox_devs'[1] = Device("MBOX0", TRUE) /\ mbox_devs'[2] = Device("MBOX3", FALSE)
  BY <1>1, <1>4, OwnAdded
<1>6. Unwired(2)' /\ Entry(1, "MBOX0", TRUE)' /\ Entry(2, "MBOX3", FALSE)'
  BY <1>1, <1>3, <1>5 DEF Unwired, Counts, Entry, Device
<1>7. LifeTable' /\ LifeScalars'
  BY <1>0, <1>1, <1>5, MboxAssumption DEF LifeTable, LifeScalars
<1>8. FirstQueue' /\ SecondQueue' /\ Running' /\ Ending'
  BY <1>1, <1>3, <1>6 DEF FirstQueue, SecondQueue, Running, Ending
<1>9. LifePhase'
  BY <1>1, <1>2, <1>3, <1>8 DEF LifePhase, FirstTime
<1> QED BY <1>7, <1>9

LEMMA InstallClientStep ==
  ASSUME LifeInv, InstallClient
  PROVE  LifeScalars' /\ LifeTable' /\ LifePhase'
<1>0. LifeScalars /\ LifeFlags /\ LifeTable /\ LifePhase
  BY LifeInvParts
<1>1. /\ main_pc = "own_client"
      /\ UNCHANGED <<isr_table, env_init_counter, disable_counter, irq_enabled, first_notify,
                     link_state, served, inits, goal>>
  BY DEF InstallClient, envVars, mainVars
<1>2. inits = 1
  BY <1>0, <1>1, InitsAssumption DEF LifeScalars, LifePhase, SecondTime
<1>3. /\ Unwired(2) /\ isr_table = {1} /\ env_init_counter = 1 /\ disable_counter = 0
      /\ Entry(1, "MBOX0", TRUE) /\ Entry(2, "MBOX3", FALSE)
  BY <1>0, <1>1, <1>2 DEF LifePhase, FirstTime, FirstQueue
<1>4. /\ mbox_devs \in Seq(Devices) /\ Len(mbox_devs) = 2
      /\ mbox_devs[1] = Device("MBOX0", TRUE) /\ mbox_devs[2] = Device("MBOX3", FALSE)
  BY <1>0, <1>3 DEF LifeTable, Unwired, Entry
<1>5. /\ mbox_devs' = WithClient(mbox_devs, "MBOX3")
      /\ register_count' = register_count + 1 /\ isr_counter' = isr_counter + 1
      /\ IF vq = 1 THEN vq' = 0 /\ main_pc' = "install" ELSE vq' = 1 /\ main_pc' = "disable"
  BY <1>4, OwnPlaced DEF InstallClient, NextQueue
<1>6. /\ mbox_devs' \in Seq(Devices) /\ Len(mbox_devs') = 2
      /\ mbox_devs'[1] = Device("MBOX0", TRUE) /\ mbox_devs'[2] = Device("MBOX3", TRUE)
  BY <1>4, <1>5, OwnPlaced
<1>7. Wired' /\ Counts(1, 1)' /\ vq' = 0 /\ main_pc' = "install" /\ ~irq_enabled' /\ ~first_notify'
  BY <1>1, <1>3, <1>5, <1>6 DEF Wired, Unwired, Counts, Entry, Device
<1>8. register_count' = 1 /\ isr_counter' = 1 /\ 1 \in 0..(2 * MaxInits)
  BY <1>0, <1>2, <1>7, InitsAssumption DEF Counts, LifeScalars
<1>9. LifeTable' /\ LifeScalars'
  BY <1>0, <1>1, <1>6, <1>7, <1>8, MboxAssumption DEF LifeTable, LifeScalars, Vq
<1>10. LifePhase'
  BY <1>1, <1>2, <1>3, <1>7 DEF LifePhase, FirstTime, FirstQueue, SecondQueue, Running, Ending
<1> QED BY <1>9, <1>10

LEMMA LifeInvNext == LifeInv /\ [LifeNext]_lifeVars => LifeInv'
<1> SUFFICES ASSUME LifeInv, [LifeNext]_lifeVars PROVE LifeInv'
  OBVIOUS
<1>1. LifeFlags'
  BY LifeInvParts, LifeFlagsStep
<1>2. LifeScalars' /\ LifeTable' /\ LifePhase'
  <2>1. CASE LifeNext
    BY <2>1, PlainSteps, InitEnvStep, UninstallStep, InstallStep, InstallMasterStep, InstallOwnStep,
       InstallClientStep DEF LifeNext
  <2>2. CASE UNCHANGED lifeVars
    <3>1. UNCHANGED <<env_init_counter, isr_table, isr_counter, register_count, disable_counter,
                      first_notify, mbox_devs, a2b_inten, irq_enabled, link_state, served, inits,
                      goal, main_pc, vq>>
      BY <2>2 DEF lifeVars, envVars, countVars, mboxVars, mainVars
    <3>2. LifeScalars' /\ LifeTable'
      BY <3>1, LifeInvParts DEF LifeScalars, LifeTable
    <3>3. LifePhase'
      BY <3>1, LifeInvParts DEF LifePhase, FirstTime, FirstQueue, SecondQueue, Running, Ending,
         SecondTime, Unwired, Wired, Entry, Counts
    <3> QED BY <3>2, <3>3
  <2> QED BY <2>1, <2>2
<1>3. LifeInv' <=> LifeScalars' /\ LifeFlags' /\ LifeTable' /\ LifePhase'
  BY DEF LifeInv, LifePhase, LifeTypeOK, LifeScalars, LifeFlags, LifeTable, Devices
<1> QED BY <1>1, <1>2, <1>3

\* The mailbox interrupt of the rpmsg link finds a client whenever it can be
\* taken, no virtual interrupt is left after rpmsg_lite_deinit, and the first
\* life of the link reports it and comes to its end: LifeSafe, for every
\* number of initialisations and every size of the table of mailboxes.
THEOREM LifeIsSafe == LifeSpec => []LifeSafe
<1>1. LifeInv => LifeSafe
  <2> SUFFICES ASSUME LifeInv PROVE LifeSafe
    OBVIOUS
  <2>0. LifeTypeOK /\ LifeScalars /\ LifeTable /\ LifePhase
    BY LifeInvParts DEF LifeInv
  <2>1. inits = 0 \/ inits = 1 \/ inits > 1
    BY <2>0, InitsAssumption DEF LifeScalars
  <2>2. ClientPresent
    <3>1. Taken => Wired
      BY <2>0, <2>1 DEF Taken, LifePhase, LifeScalars, Vq, FirstTime, FirstQueue, SecondQueue, Running,
         Ending, SecondTime, Unwired
    <3> QED BY <2>0, <3>1, WiredFound DEF ClientPresent, LifeTable
  <2>3. FreedUnreachable
    BY <2>0, <2>1 DEF FreedUnreachable, LifePhase, FirstTime, Ending, SecondTime
  <2>4. FirstLife
    BY <2>0 DEF FirstLife, LifePhase, FirstTime, Running, Ending
  <2> QED BY <2>0, <2>2, <2>3, <2>4 DEF LifeSafe
<1> QED BY <1>1, LifeInvInit, LifeInvNext, PTL DEF LifeSpec

-----------------------------------------------------------------------------
(* All of them side by side.                                               *)

\* What runs beside the link takes the steps of its components and no other,
\* and they stay out of each other's way: each of them is implemented.
THEOREM EachComponent == Spec => TeleSpec /\ LifeSpec /\ EnvSpec /\ QueueSpec
<1>1. Init => TeleInit /\ LifeInit /\ EnvInit /\ QueueInit
  BY DEF Init, TeleRest, LifeRest, EnvRest
<1>2. [Next]_vars => [TeleNext]_teleVars
  BY DEF Next, vars
<1>3. [Next]_vars => [LifeNext]_lifeVars
  BY DEF Next, vars
<1>4. [Next]_vars => [EnvNext]_<<port, rtosVars>>
  BY DEF Next, vars
<1>5. [Next]_vars => [QueueNext]_queueVars
  BY DEF Next, vars
<1> QED BY <1>1, <1>2, <1>3, <1>4, <1>5, PTL DEF Spec, TeleSpec, LifeSpec, EnvSpec, QueueSpec

\* The invariants of all of them, whichever runs and however many buffers,
\* tasks, queues, messages and initialisations there are: those of the queues
\* until an interrupt overtakes a task's release (QueueSafe).
THEOREM ServicesAreSafe ==
  ASSUME DrainFirst, CreatedOnce
  PROVE  Spec => [](ServicesTypeOK /\ AcceptedArrive /\ LifeSafe /\ PlatformReady /\ QueueSafe)
<1>1. TeleTypeOK /\ EnvTypeOK /\ HandlesLive => ServicesTypeOK
  BY DEF ServicesTypeOK
<1> QED BY <1>1, EachComponent, TelemetryArrives, LifeIsSafe, EnvReady, EnvCounts, QueuesAreSafe, PTL

\* Their action properties: a refused send is refused on time, and a task sees
\* no link up that is not.
THEOREM ServicesKeepTime == Spec => OnTime /\ SeenIsUp
  BY EachComponent, RefusedOnTime, SeenLinkIsUp, PTL
=============================================================================
