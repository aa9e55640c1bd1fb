----------------------------- MODULE SwSpinlock -----------------------------
(***************************************************************************)
(* hal_spinlock.c without the hardware lock: a word in memory that the     *)
(* cores of the chip take with load-exclusive and store-exclusive and wait *)
(* for with WFE.  The main program of a core may call Lock and TryLock; an *)
(* interrupt may call TryLock between any two of its instructions, the way *)
(* HAL_DBG_Printf does wherever it is called.                              *)
(*                                                                         *)
(* The exclusive monitor and the event register belong to the architecture *)
(* a core is built for:                                                    *)
(*   a64   armv8-a, 64 bit        v8   armv8-a 32 bit and armv8-m          *)
(*   v7m   armv7-m                v7a  armv7-a, whose monitor survives the *)
(*   v6m   armv6-m: no code            return from an interrupt unless     *)
(*                                     the handler clears it               *)
(***************************************************************************)
EXTENDS Integers

CONSTANTS Cores,
          Free,     \* the word of a lock nobody holds
          Builds,   \* what runs on the cores
          MaxIrqs   \* bound on the interrupts that print

Archs == {"a64", "v8", "v7m", "v7a", "v6m"}

\* What a core is built for, what its main program calls for this lock, and
\* whether its interrupts print with it.
Programs == [arch : Archs, main : SUBSET {"lock", "try"}, isr : BOOLEAN]

ASSUME FreeAssumption == Free \notin Cores
ASSUME BuildsAssumption == Builds \subseteq [Cores -> Programs]
ASSUME IrqsAssumption == MaxIrqs \in Nat

Kinds == {"main", "isr"}
States == {"out", "wait", "load", "store", "try_load", "try_store", "in",
           "leave"}

VARIABLES
    build,     \* of each core; never changes
    lock,      \* the word: Free, or the core that holds it
    monitor,   \* the core's exclusive monitor is set
    event,     \* the core's event register
    pc,        \* of the main program and of the interrupt of each core
    irqs

swVars == <<build, lock, monitor, event, pc, irqs>>

SwTypeOK == /\ build \in Builds
            /\ lock \in Cores \union {Free}
            /\ monitor \in [Cores -> BOOLEAN]
            /\ event \in [Cores -> BOOLEAN]
            /\ pc \in [Cores -> [Kinds -> States]]
            /\ irqs \in 0..MaxIrqs

SwInit == /\ build \in Builds
          /\ lock = Free
          /\ monitor = [c \in Cores |-> FALSE]
          /\ event = [c \in Cores |-> FALSE]
          /\ pc = [c \in Cores |-> [k \in Kinds |-> "out"]]
          /\ irqs = 0

-----------------------------------------------------------------------------
(* The architecture.                                                       *)

\* The main program runs when no interrupt does.
SwRuns(c, k) == k = "isr" \/ pc[c]["isr"] = "out"

\* A store clears the monitors of the other cores, which wakes armv8 cores.
MonitorAfter(c) == [d \in Cores |-> monitor[d] /\ d = c]
EventAfter(c) ==
    [d \in Cores |-> \/ event[d]
                     \/ d # c /\ monitor[d] /\ build[d].arch \in {"a64", "v8"}]

\* Returning from an interrupt clears the monitor and sets the event register;
\* on armv7-a the handler would have to, and IRQ_Handler does not.
ClearsOnReturn(c) == build[c].arch # "v7a"

\* Where a call that is over leaves its caller.
Done(k) == IF k = "isr" THEN "leave" ELSE "out"

-----------------------------------------------------------------------------
(* Broken variants of the definitions below, for checking that the         *)
(* properties notice; the specification does not use them.                 *)

\* StoreExclusive: an ordinary store.
StoreAlways(c, k) ==
    /\ pc[c][k] \in {"store", "try_store"} /\ SwRuns(c, k)
    /\ lock' = c /\ event' = EventAfter(c)
    /\ monitor' = [MonitorAfter(c) EXCEPT ![c] = FALSE]
    /\ pc' = [pc EXCEPT ![c][k] = "in"]
    /\ UNCHANGED <<build, irqs>>

\* Unlock: an armv7 core does not send the event.
UnlockSilent(c, k) ==
    /\ pc[c][k] = "in" /\ SwRuns(c, k)
    /\ lock' = Free
    /\ monitor' = MonitorAfter(c) /\ event' = EventAfter(c)
    /\ pc' = [pc EXCEPT ![c][k] = Done(k)]
    /\ UNCHANGED <<build, irqs>>

-----------------------------------------------------------------------------
(* HAL_SW_SPINLOCK_Lock, TryLock and Unlock, one action per access.        *)

\* SEVL lets the first WFE of a 64-bit core pass.  On armv6-m it does nothing.
Lock(c) ==
    /\ "lock" \in build[c].main /\ pc[c]["main"] = "out" /\ SwRuns(c, "main")
    /\ event' = [event EXCEPT ![c] = @ \/ build[c].arch = "a64"]
    /\ pc' = [pc EXCEPT ![c]["main"] = CASE build[c].arch = "a64" -> "wait"
                                         [] build[c].arch = "v6m" -> "in"
                                         [] OTHER -> "load"]
    /\ UNCHANGED <<build, lock, monitor, irqs>>

\* On armv6-m it returns HAL_FALSE at once.
TryLock(c) ==
    /\ "try" \in build[c].main /\ build[c].arch # "v6m"
    /\ pc[c]["main"] = "out" /\ SwRuns(c, "main")
    /\ event' = [event EXCEPT ![c] = @ \/ build[c].arch = "a64"]
    /\ pc' = [pc EXCEPT ![c]["main"] = "try_load"]
    /\ UNCHANGED <<build, lock, monitor, irqs>>

Wfe(c) ==
    /\ pc[c]["main"] = "wait" /\ SwRuns(c, "main") /\ event[c]
    /\ event' = [event EXCEPT ![c] = FALSE]
    /\ pc' = [pc EXCEPT ![c]["main"] = "load"]
    /\ UNCHANGED <<build, lock, monitor, irqs>>

LoadExclusive(c, k) ==
    /\ pc[c][k] \in {"load", "try_load"} /\ SwRuns(c, k)
    /\ monitor' = [monitor EXCEPT ![c] = TRUE]
    /\ pc' = [pc EXCEPT ![c][k] =
                IF pc[c][k] = "load"
                  THEN IF lock = Free THEN "store" ELSE "wait"
                  ELSE IF lock = Free THEN "try_store" ELSE Done(k)]
    /\ UNCHANGED <<build, lock, event, irqs>>

\* A failed store starts over: at WFE on a 64-bit core, at the load on others.
StoreExclusive(c, k) ==
    /\ pc[c][k] \in {"store", "try_store"} /\ SwRuns(c, k)
    /\ IF monitor[c]
         THEN /\ lock' = c /\ event' = EventAfter(c)
              /\ monitor' = [MonitorAfter(c) EXCEPT ![c] = FALSE]
              /\ pc' = [pc EXCEPT ![c][k] = "in"]
         ELSE /\ pc' = [pc EXCEPT ![c][k] =
                          IF pc[c][k] = "try_store" THEN Done(k)
                          ELSE IF build[c].arch = "a64" THEN "wait" ELSE "load"]
              /\ UNCHANGED <<lock, monitor, event>>
    /\ UNCHANGED <<build, irqs>>

\* armv7 sends an event to every core; armv6-m does nothing.
Unlock(c, k) ==
    /\ pc[c][k] = "in" /\ SwRuns(c, k)
    /\ pc' = [pc EXCEPT ![c][k] = Done(k)]
    /\ IF build[c].arch = "v6m"
         THEN UNCHANGED <<lock, monitor, event>>
         ELSE /\ lock' = Free
              /\ monitor' = MonitorAfter(c)
              /\ event' = IF build[c].arch \in {"v7m", "v7a"}
                            THEN [d \in Cores |-> TRUE] ELSE EventAfter(c)
    /\ UNCHANGED <<build, irqs>>

-----------------------------------------------------------------------------
(* The interrupt of a core: a call of HAL_DBG_Printf.                      *)

IrqEnter(c) ==
    /\ build[c].isr /\ build[c].arch # "v6m"
    /\ pc[c]["isr"] = "out" /\ irqs < MaxIrqs
    /\ irqs' = irqs + 1
    /\ event' = [event EXCEPT ![c] = @ \/ build[c].arch = "a64"]
    /\ pc' = [pc EXCEPT ![c]["isr"] = "try_load"]
    /\ UNCHANGED <<build, lock, monitor>>

\* Its TryLock failed and its time is not over.
IrqRetry(c) ==
    /\ pc[c]["isr"] = "leave"
    /\ event' = [event EXCEPT ![c] = @ \/ build[c].arch = "a64"]
    /\ pc' = [pc EXCEPT ![c]["isr"] = "try_load"]
    /\ UNCHANGED <<build, lock, monitor, irqs>>

\* IRQ_Handler and the hardware return to the main program.
IrqReturn(c) ==
    /\ pc[c]["isr"] = "leave"
    /\ pc' = [pc EXCEPT ![c]["isr"] = "out"]
    /\ IF ClearsOnReturn(c)
         THEN /\ monitor' = [monitor EXCEPT ![c] = FALSE]
              /\ event' = [event EXCEPT ![c] = TRUE]
         ELSE UNCHANGED <<monitor, event>>
    /\ UNCHANGED <<build, lock, irqs>>

-----------------------------------------------------------------------------
\* What a core does once it is in a call or in the interrupt.
CoreStep(c) == \/ Wfe(c) \/ IrqReturn(c)
               \/ \E k \in Kinds : \/ LoadExclusive(c, k)
                                   \/ StoreExclusive(c, k)
                                   \/ Unlock(c, k)

SwNext == \E c \in Cores :
          CoreStep(c) \/ Lock(c) \/ TryLock(c) \/ IrqEnter(c) \/ IrqRetry(c)

SwSpec == SwInit /\ [][SwNext]_swVars

\* Cores keep running; critical sections and interrupts come to their end.
SwFairSpec == SwSpec /\ \A c \in Cores : WF_swVars(CoreStep(c))

-----------------------------------------------------------------------------
(* Properties.                                                             *)

Inside == {t \in Cores \X Kinds : pc[t[1]][t[2]] = "in"}

\* One caller at most is between a successful Lock or TryLock and its Unlock,
\* the interrupts of the cores included.  It holds on chips whose cores are
\* all Safe, and not on those of the RK3506 when a Cortex-A7 uses the lock in
\* its main program and in interrupts, or the Cortex-M0 calls Lock.
MutualExclusion == \A s, t \in Inside : s = t

\* What a core may do: an armv7-a core takes the lock either in its main
\* program or in interrupts, and an armv6-m core only tries.
Safe(p) == /\ p.arch = "v7a" => p.main = {} \/ ~p.isr
           /\ p.arch = "v6m" => "lock" \notin p.main

\* The word names the core inside, for HAL_SPINLOCK_GetOwner and for the
\* callers that test it before they try.
OwnerNamed == lock = Free <=> Inside = {}

\* The lock implements the abstract one: it is taken only when nobody holds it.
Abstract == INSTANCE Mutex WITH Callers <- Cores \X Kinds, holders <- Inside
ImplementsMutex == Abstract!Spec

\* No wake-up is lost: a core that waits in Lock while the lock is free is not
\* left in WFE; it, or another caller, takes the lock.
FreeIsTaken ==
    (lock = Free /\ \E c \in Cores : pc[c]["main"] \in {"wait", "load", "store"})
      ~> (Inside # {})

=============================================================================
