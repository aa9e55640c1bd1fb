----------------------------- MODULE HwSpinlock -----------------------------
(***************************************************************************)
(* hal_hwspinlock.c: one register of the chip holds the number of the core *)
(* that has the lock; a write is ignored while somebody else has it, and a *)
(* write of 0 releases it.  The main program of a core may call Lock or    *)
(* TryLock; an interrupt of the same core, which has the same number, may  *)
(* call TryLock between any two of its accesses.  HAL_ASRC_TryLock asks    *)
(* for the owner first; HAL_DBG_Printf does not.                           *)
(***************************************************************************)
EXTENDS Integers

CONSTANTS OwnerIDs,   \* numbers of the cores, as HAL_HWSPINLOCK_Init got them
          Uses,       \* who takes the lock on the cores, and how
          HwMaxIrqs   \* bound on the interrupts that try the lock

\* What the main program of a core calls, and its interrupts: HAL_SPINLOCK_Lock,
\* HAL_SPINLOCK_TryLock as HAL_DBG_Printf does, or HAL_ASRC_TryLock.
HwCalls == [main : SUBSET {"lock", "try", "asrc"}, isr : SUBSET {"try", "asrc"}]

ASSUME OwnerAssumption == OwnerIDs \subseteq 0..15
ASSUME UsesAssumption == Uses \subseteq [OwnerIDs -> HwCalls]
ASSUME HwIrqsAssumption == HwMaxIrqs \in Nat

HwKinds == {"main", "isr"}
HwStates == {"out", "owner", "write", "read", "in", "release", "leave"}

VARIABLES
    uses,       \* of each core; never changes
    status,     \* the register
    hw_pc,      \* of the main program and of the interrupt of each core
    locking,    \* the main program of the core is in HAL_SPINLOCK_Lock
    hw_irqs

hwVars == <<uses, status, hw_pc, locking, hw_irqs>>

HwTypeOK == /\ uses \in Uses
            /\ status \in OwnerIDs \union {0}
            /\ hw_pc \in [OwnerIDs -> [HwKinds -> HwStates]]
            /\ locking \in [OwnerIDs -> BOOLEAN]
            /\ hw_irqs \in 0..HwMaxIrqs

HwInit == /\ uses \in Uses
          /\ status = 0
          /\ hw_pc = [c \in OwnerIDs |-> [k \in HwKinds |-> "out"]]
          /\ locking = [c \in OwnerIDs |-> FALSE]
          /\ hw_irqs = 0

HwRuns(c, k) == k = "isr" \/ hw_pc[c]["isr"] = "out"
HwDone(k) == IF k = "isr" THEN "leave" ELSE "out"

-----------------------------------------------------------------------------
(* Broken variants of the definitions below, for checking that the         *)
(* properties notice; the specification does not use them.                 *)

\* ValidOwner: nobody tests it.
AnyOwner(c) == TRUE

\* ReadBack: any owner will do.
ReadAny(c, k) ==
    /\ hw_pc[c][k] = "read" /\ HwRuns(c, k)
    /\ hw_pc' = [hw_pc EXCEPT ![c][k] = IF status # 0 THEN "in" ELSE HwDone(k)]
    /\ UNCHANGED <<uses, status, locking, hw_irqs>>

-----------------------------------------------------------------------------
(* TryLock and Lock, one action per access of the register.                *)

\* A call that did not get the lock: Lock tries again.
HwRefused(c, k) == IF k = "main" /\ locking[c] THEN "write" ELSE HwDone(k)

\* HAL_HWSPINLOCK_Init accepts 1 to 15, and TryLock tests that it did.
ValidOwner(c) == c > 0 /\ c < 16

\* What a call does first.
First(call) == IF call = "asrc" THEN "owner" ELSE "write"

HwLock(c) == /\ "lock" \in uses[c].main
             /\ hw_pc[c]["main"] = "out" /\ HwRuns(c, "main")
             /\ ValidOwner(c)
             /\ locking' = [locking EXCEPT ![c] = TRUE]
             /\ hw_pc' = [hw_pc EXCEPT ![c]["main"] = "write"]
             /\ UNCHANGED <<uses, status, hw_irqs>>

HwTryLock(c) == \E call \in uses[c].main \ {"lock"} :
                /\ hw_pc[c]["main"] = "out" /\ HwRuns(c, "main")
                /\ ValidOwner(c)
                /\ locking' = [locking EXCEPT ![c] = FALSE]
                /\ hw_pc' = [hw_pc EXCEPT ![c]["main"] = First(call)]
                /\ UNCHANGED <<uses, status, hw_irqs>>

\* HAL_ASRC_TryLock gives up when HAL_SPINLOCK_GetOwner names somebody.
GetOwner(c, k) ==
    /\ hw_pc[c][k] = "owner" /\ HwRuns(c, k)
    /\ hw_pc' = [hw_pc EXCEPT ![c][k] = IF status = 0 THEN "write" ELSE HwDone(k)]
    /\ UNCHANGED <<uses, status, locking, hw_irqs>>

WriteOwner(c, k) ==
    /\ hw_pc[c][k] = "write" /\ HwRuns(c, k)
    /\ status' = IF status = 0 THEN c ELSE status
    /\ hw_pc' = [hw_pc EXCEPT ![c][k] = "read"]
    /\ UNCHANGED <<uses, locking, hw_irqs>>

ReadBack(c, k) ==
    /\ hw_pc[c][k] = "read" /\ HwRuns(c, k)
    /\ hw_pc' = [hw_pc EXCEPT ![c][k] = IF status = c THEN "in" ELSE HwRefused(c, k)]
    /\ UNCHANGED <<uses, status, locking, hw_irqs>>

\* Unlock reads the owner, and leaves another core's lock alone.
ReadOwner(c, k) ==
    /\ hw_pc[c][k] = "in" /\ HwRuns(c, k)
    /\ hw_pc' = [hw_pc EXCEPT ![c][k] = IF status = c THEN "release" ELSE HwDone(k)]
    /\ UNCHANGED <<uses, status, locking, hw_irqs>>

\* The register ignores a 0 of a core that does not have the lock.
Release(c, k) ==
    /\ hw_pc[c][k] = "release" /\ HwRuns(c, k)
    /\ status' = IF status = c THEN 0 ELSE status
    /\ hw_pc' = [hw_pc EXCEPT ![c][k] = HwDone(k)]
    /\ UNCHANGED <<uses, locking, hw_irqs>>

-----------------------------------------------------------------------------
(* The interrupt of a core.                                                *)

HwIrqEnter(c) == \E call \in uses[c].isr :
                 /\ hw_pc[c]["isr"] = "out" /\ hw_irqs < HwMaxIrqs
                 /\ ValidOwner(c)
                 /\ hw_irqs' = hw_irqs + 1
                 /\ hw_pc' = [hw_pc EXCEPT ![c]["isr"] = First(call)]
                 /\ UNCHANGED <<uses, status, locking>>

HwIrqReturn(c) == /\ hw_pc[c]["isr"] = "leave"
                  /\ hw_pc' = [hw_pc EXCEPT ![c]["isr"] = "out"]
                  /\ UNCHANGED <<uses, status, locking, hw_irqs>>

-----------------------------------------------------------------------------
CallStep(c, k) == \/ GetOwner(c, k) \/ WriteOwner(c, k) \/ ReadBack(c, k)
                  \/ ReadOwner(c, k) \/ Release(c, k)

HwCoreStep(c) == HwIrqReturn(c) \/ \E k \in HwKinds : CallStep(c, k)

HwNext == \E c \in OwnerIDs : HwCoreStep(c) \/ HwLock(c) \/ HwTryLock(c) \/ HwIrqEnter(c)

HwSpec == HwInit /\ [][HwNext]_hwVars

\* Cores keep running and critical sections end.
HwFairSpec == HwSpec /\ \A c \in OwnerIDs : WF_hwVars(HwCoreStep(c))

-----------------------------------------------------------------------------
(* Properties.                                                             *)

HwInside == {t \in OwnerIDs \X HwKinds : hw_pc[t[1]][t[2]] \in {"in", "release"}}

\* One caller at most is between a call that succeeded and the end of Unlock.
\* It holds where every core is HwSafe, and not where a core prints in its main
\* program and in interrupts.
HwMutualExclusion == \A s, t \in HwInside : s = t

\* What a core may do: an interrupt that does not ask for the owner would take
\* the lock its own main program holds.
HwSafe(u) == "try" \in u.isr => u.main = {}

\* The register names the core of the caller inside until it has released it:
\* no other core's call or Unlock, and no interrupt, takes the lock away.
HeldWhileInside == \A t \in HwInside : status = t[1]

\* The lock implements the abstract one: what a core writes without reading
\* it back has not taken the lock yet.
HwAbstract == INSTANCE Mutex WITH Callers <- OwnerIDs \X HwKinds, holders <- HwInside
HwImplementsMutex == HwAbstract!Spec

\* Nobody keeps the lock for ever: a register that names a core is cleared.
Released == \A c \in OwnerIDs \ {0} : status = c ~> status # c
=============================================================================
