------------------------------ MODULE LocksProof ------------------------------
(***************************************************************************)
(* Mutual exclusion of both locks behind HAL_SPINLOCK_Lock, and that each  *)
(* implements the abstract one.                                            *)
(*                                                                         *)
(* The word in memory: for every number of cores and of interrupts and for *)
(* every mix of the architectures hal_spinlock.c knows, as long as every   *)
(* core is Safe: an armv7-a core takes the lock either in its main program *)
(* or in interrupts, for nothing clears its exclusive monitor when an      *)
(* interrupt returns, and an armv6-m core, which has no such instructions, *)
(* only tries.  The inductive invariant says what a store-exclusive may    *)
(* rely on: when the caller that runs on a core is about to store and the  *)
(* core's monitor is set, nobody has taken the lock since its load         *)
(* (StoreSound); and that a core does what its program says (AsBuilt).     *)
(*                                                                         *)
(* The register: for any cores that are HwSafe: interrupts ask for the     *)
(* owner before they try the lock, as HAL_ASRC_TryLock does, or are the    *)
(* only ones on their core to use it.  The invariant says that an          *)
(* interrupt which goes on did not find its own main program inside        *)
(* (AskedFirst).                                                           *)
(***************************************************************************)
EXTENDS MCDrivers, TLAPS

-----------------------------------------------------------------------------
(* The word in memory.                                                     *)

SafeBuilds == \A b \in Builds, c \in Cores : Safe(b[c])

\* Whoever is inside wrote its core's number, and nobody has changed it since.
LockNamed == \A c \in Cores, k \in Kinds : pc[c][k] = "in" => lock = c

\* A core whose number is in the word has a caller inside.
NamedInside == lock # Free => \E k \in Kinds : pc[lock][k] = "in"

\* The program and the interrupt of a core are not both inside.
OneKind == \A c \in Cores, k, l \in Kinds :
             pc[c][k] = "in" /\ pc[c][l] = "in" => k = l

StoreSound ==
    \A c \in Cores, k \in Kinds :
       /\ pc[c][k] \in {"store", "try_store"}
       /\ monitor[c]
       /\ SwRuns(c, k)
       => lock = Free

\* A core takes the lock where its program says, and an armv6-m core never.
AsBuilt ==
    \A c \in Cores :
       /\ build[c].main = {} \/ build[c].arch = "v6m" => pc[c]["main"] = "out"
       /\ ~build[c].isr \/ build[c].arch = "v6m" => pc[c]["isr"] = "out"

Inv == SwTypeOK /\ LockNamed /\ NamedInside /\ OneKind /\ StoreSound /\ AsBuilt

\* In a state of the invariant the programs are those of a safe chip.
LEMMA SafeNow ==
  ASSUME SwTypeOK, SafeBuilds, NEW c \in Cores
  PROVE  Safe(build[c]) /\ build[c] \in Programs
  BY BuildsAssumption DEF SwTypeOK, SafeBuilds

-----------------------------------------------------------------------------
\* What a state that satisfies the invariant says about who is inside.
LEMMA Consequences == ASSUME Inv PROVE MutualExclusion /\ OwnerNamed
<1>1. MutualExclusion
  BY FreeAssumption DEF Inv, MutualExclusion, Inside, LockNamed, OneKind
<1>2. OwnerNamed
  <2>1. CASE lock = Free
    BY <2>1, FreeAssumption DEF Inv, OwnerNamed, Inside, LockNamed
  <2>2. CASE lock # Free
    <3>1. PICK k \in Kinds : pc[lock][k] = "in"
      BY <2>2 DEF Inv, NamedInside
    <3>2. lock \in Cores
      BY <2>2 DEF Inv, SwTypeOK
    <3>3. <<lock, k>> \in Inside
      BY <3>1, <3>2 DEF Inside
    <3> QED BY <2>2, <3>3 DEF OwnerNamed
  <2> QED BY <2>1, <2>2
<1> QED BY <1>1, <1>2

\* The invariant holds initially.
LEMMA InvInit == ASSUME SwInit PROVE Inv
  BY IrqsAssumption DEF SwInit, Inv, SwTypeOK, LockNamed, NamedInside, OneKind,
     StoreSound, AsBuilt, Kinds, States

\* Calls and waits that neither take nor release the lock.
LEMMA QuietSteps ==
  ASSUME Inv, NEW c \in Cores, Lock(c) \/ TryLock(c) \/ Wfe(c), SafeBuilds
  PROVE  Inv'
<1>0. build[c].arch # "v6m" /\ build[c].main # {}
  BY SafeNow DEF Inv, AsBuilt, Safe, Lock, TryLock, Wfe
<1>1. PICK s \in {"wait", "load", "try_load"} :
         /\ pc' = [pc EXCEPT ![c]["main"] = s]
         /\ pc[c]["main"] # "in" /\ SwRuns(c, "main")
         /\ UNCHANGED <<build, lock, monitor, irqs>>
         /\ event' \in [Cores -> BOOLEAN]
  BY <1>0 DEF Lock, TryLock, Wfe, Inv, SwTypeOK
<1>2. SwTypeOK'
  BY <1>1 DEF Inv, SwTypeOK, Kinds, States
<1>3. \A d \in Cores, k \in Kinds :
         pc'[d][k] = IF d = c /\ k = "main" THEN s ELSE pc[d][k]
  BY <1>1 DEF Inv, SwTypeOK, Kinds
<1>4. LockNamed' /\ OneKind'
  BY <1>1, <1>3 DEF Inv, LockNamed, OneKind
<1>5. NamedInside'
  BY <1>1, <1>3 DEF Inv, NamedInside, SwTypeOK
<1>6. StoreSound'
  BY <1>1, <1>3 DEF Inv, StoreSound, SwRuns, Kinds
<1>7. AsBuilt'
  BY <1>0, <1>1, <1>3 DEF Inv, AsBuilt, Kinds
<1> QED BY <1>2, <1>4, <1>5, <1>6, <1>7 DEF Inv

LEMMA LoadSteps ==
  ASSUME Inv, NEW c \in Cores, NEW k \in Kinds, LoadExclusive(c, k)
  PROVE  Inv'
<1>1. PICK s \in States \ {"in", "load", "try_load"} :
         /\ pc' = [pc EXCEPT ![c][k] = s]
         /\ s \in {"store", "try_store"} => lock = Free
         /\ k = "isr" => s # "out"
  <2> DEFINE x == IF pc[c][k] = "load"
                    THEN IF lock = Free THEN "store" ELSE "wait"
                    ELSE IF lock = Free THEN "try_store" ELSE Done(k)
  <2>1. pc' = [pc EXCEPT ![c][k] = x]
    BY DEF LoadExclusive
  <2>2. x \in States \ {"in", "load", "try_load"}
    BY DEF Done, States
  <2>3. /\ x \in {"store", "try_store"} => lock = Free
        /\ k = "isr" => x # "out"
    BY DEF Done
  <2> HIDE DEF x
  <2> QED BY <2>1, <2>2, <2>3
<1>2. /\ pc[c][k] \notin {"in", "out"} /\ SwRuns(c, k)
      /\ monitor' = [monitor EXCEPT ![c] = TRUE]
      /\ UNCHANGED <<build, lock, event, irqs>>
  BY DEF LoadExclusive
<1>3. SwTypeOK'
  BY <1>1, <1>2 DEF Inv, SwTypeOK
<1>4. \A d \in Cores, l \in Kinds :
         pc'[d][l] = IF d = c /\ l = k THEN s ELSE pc[d][l]
  BY <1>1 DEF Inv, SwTypeOK
<1>5. LockNamed' /\ OneKind'
  BY <1>1, <1>2, <1>4 DEF Inv, LockNamed, OneKind
<1>6. NamedInside'
  BY <1>1, <1>2, <1>4 DEF Inv, NamedInside, SwTypeOK
<1>7. StoreSound'
  <2> SUFFICES ASSUME NEW d \in Cores, NEW l \in Kinds,
                      pc'[d][l] \in {"store", "try_store"}, monitor'[d],
                      SwRuns(d, l)'
               PROVE  lock = Free
    BY <1>2 DEF StoreSound
  <2>1. CASE d # c
    BY <1>2, <1>4, <2>1 DEF Inv, SwTypeOK, StoreSound, SwRuns, Kinds
  <2>2. CASE d = c /\ l = k
    BY <1>1, <1>4, <2>2
  <2>3. CASE d = c /\ l # k
    BY <1>1, <1>2, <1>4, <2>3 DEF SwRuns, Kinds
  <2> QED BY <2>1, <2>2, <2>3
<1>8. AsBuilt'
  BY <1>2, <1>4 DEF Inv, AsBuilt, Kinds
<1> QED BY <1>3, <1>5, <1>6, <1>7, <1>8 DEF Inv

LEMMA StoreSteps ==
  ASSUME Inv, NEW c \in Cores, NEW k \in Kinds, StoreExclusive(c, k)
  PROVE  Inv'
<1>1. CASE monitor[c]
  <2>1. lock = Free
    BY <1>1 DEF Inv, StoreSound, StoreExclusive
  <2>2. \A d \in Cores, l \in Kinds : pc[d][l] # "in"
    BY <2>1, FreeAssumption DEF Inv, LockNamed
  <2>3. /\ lock' = c /\ event' = EventAfter(c)
        /\ monitor' = [MonitorAfter(c) EXCEPT ![c] = FALSE]
        /\ pc' = [pc EXCEPT ![c][k] = "in"]
        /\ UNCHANGED <<build, irqs>>
    BY <1>1 DEF StoreExclusive
  <2>4. SwTypeOK'
    BY <2>3 DEF Inv, SwTypeOK, States, EventAfter, MonitorAfter
  <2>5. \A d \in Cores, l \in Kinds :
           pc'[d][l] = IF d = c /\ l = k THEN "in" ELSE pc[d][l]
    BY <2>3 DEF Inv, SwTypeOK
  <2>6. \A d \in Cores : ~monitor'[d]
    BY <2>3 DEF MonitorAfter
  <2>7. LockNamed' /\ OneKind' /\ NamedInside'
    BY <2>2, <2>3, <2>5 DEF LockNamed, OneKind, NamedInside
  <2>8. StoreSound'
    BY <2>6 DEF StoreSound
  <2>9. pc[c][k] # "out"
    BY DEF StoreExclusive
  <2>10. AsBuilt'
    BY <2>3, <2>5, <2>9 DEF Inv, AsBuilt, Kinds
  <2> QED BY <2>4, <2>7, <2>8, <2>10 DEF Inv
<1>2. CASE ~monitor[c]
  <2>1. PICK s \in {"out", "leave", "wait", "load"} :
           /\ pc' = [pc EXCEPT ![c][k] = s] /\ (k = "isr" => s # "out")
    BY <1>2 DEF StoreExclusive, Done
  <2>2. pc[c][k] \notin {"in", "out"} /\ UNCHANGED <<build, lock, monitor, event, irqs>>
    BY <1>2 DEF StoreExclusive
  <2>3. SwTypeOK'
    BY <2>1, <2>2 DEF Inv, SwTypeOK, States
  <2>4. \A d \in Cores, l \in Kinds :
           pc'[d][l] = IF d = c /\ l = k THEN s ELSE pc[d][l]
    BY <2>1 DEF Inv, SwTypeOK
  <2>5. LockNamed' /\ OneKind'
    BY <2>2, <2>4 DEF Inv, LockNamed, OneKind
  <2>6. NamedInside'
    BY <2>2, <2>4 DEF Inv, NamedInside, SwTypeOK
  <2>7. StoreSound'
    BY <1>2, <2>1, <2>2, <2>4 DEF Inv, StoreSound, SwRuns, Kinds
  <2>8. AsBuilt'
    BY <2>2, <2>4 DEF Inv, AsBuilt, Kinds
  <2> QED BY <2>3, <2>5, <2>6, <2>7, <2>8 DEF Inv
<1> QED BY <1>1, <1>2

LEMMA UnlockSteps ==
  ASSUME Inv, NEW c \in Cores, NEW k \in Kinds, Unlock(c, k)
  PROVE  Inv'
<1>0. build[c].arch # "v6m"
  BY DEF Inv, AsBuilt, Unlock, Kinds
<1>1. /\ pc[c][k] = "in" /\ lock' = Free
      /\ monitor' = MonitorAfter(c) /\ UNCHANGED <<build, irqs>>
      /\ event' \in [Cores -> BOOLEAN]
  BY <1>0 DEF Unlock, EventAfter, Inv, SwTypeOK
<1>2. PICK s \in {"out", "leave"} : pc' = [pc EXCEPT ![c][k] = s]
  BY DEF Unlock, Done
<1>3. SwTypeOK'
  BY <1>1, <1>2 DEF Inv, SwTypeOK, States, MonitorAfter
<1>4. \A d \in Cores, l \in Kinds :
         pc'[d][l] = IF d = c /\ l = k THEN s ELSE pc[d][l]
  BY <1>2 DEF Inv, SwTypeOK
<1>5. \A d \in Cores, l \in Kinds : pc'[d][l] # "in"
  BY <1>1, <1>4 DEF Inv, LockNamed, OneKind
<1>6. LockNamed' /\ OneKind' /\ NamedInside' /\ StoreSound'
  BY <1>1, <1>5 DEF LockNamed, OneKind, NamedInside, StoreSound
<1>7. AsBuilt'
  BY <1>1, <1>4 DEF Inv, AsBuilt, Kinds
<1> QED BY <1>3, <1>6, <1>7 DEF Inv

LEMMA IrqSteps ==
  ASSUME Inv, NEW c \in Cores, IrqEnter(c) \/ IrqRetry(c) \/ IrqReturn(c),
         SafeBuilds
  PROVE  Inv'
<1>0. /\ build[c].isr /\ build[c].arch # "v6m"
      /\ build[c].arch = "v7a" => pc[c]["main"] = "out"
  BY SafeNow DEF Inv, AsBuilt, Safe, IrqEnter, IrqRetry, IrqReturn, Programs
<1>1. PICK s \in {"try_load", "out"} :
         /\ pc' = [pc EXCEPT ![c]["isr"] = s]
         /\ s = "out" => ~monitor'[c] \/ pc[c]["main"] = "out"
  BY <1>0 DEF IrqEnter, IrqRetry, IrqReturn, ClearsOnReturn, Inv, SwTypeOK
<1>2. /\ pc[c]["isr"] # "in" /\ UNCHANGED <<build, lock>>
      /\ \A d \in Cores : monitor'[d] => monitor[d]
      /\ irqs' \in 0..MaxIrqs
      /\ event' \in [Cores -> BOOLEAN] /\ monitor' \in [Cores -> BOOLEAN]
  <2>1. CASE IrqEnter(c)
    <3>1. irqs' \in 0..MaxIrqs
      BY <2>1, IrqsAssumption DEF IrqEnter, Inv, SwTypeOK
    <3> QED BY <2>1, <3>1 DEF IrqEnter, Inv, SwTypeOK
  <2>2. CASE IrqRetry(c)
    BY <2>2 DEF IrqRetry, Inv, SwTypeOK
  <2>3. CASE IrqReturn(c)
    BY <2>3 DEF IrqReturn, ClearsOnReturn, Inv, SwTypeOK
  <2> QED BY <2>1, <2>2, <2>3
<1>3. SwTypeOK'
  BY <1>1, <1>2 DEF Inv, SwTypeOK, Kinds, States
<1>4. \A d \in Cores, k \in Kinds :
         pc'[d][k] = IF d = c /\ k = "isr" THEN s ELSE pc[d][k]
  BY <1>1 DEF Inv, SwTypeOK, Kinds
<1>5. LockNamed' /\ OneKind'
  BY <1>2, <1>4 DEF Inv, LockNamed, OneKind
<1>6. NamedInside'
  BY <1>2, <1>4 DEF Inv, NamedInside, SwTypeOK
<1>7. StoreSound'
  BY <1>1, <1>2, <1>4 DEF Inv, StoreSound, SwRuns, Kinds
<1>8. AsBuilt'
  BY <1>0, <1>2, <1>4 DEF Inv, AsBuilt, Kinds
<1> QED BY <1>3, <1>5, <1>6, <1>7, <1>8 DEF Inv

LEMMA InvStep == ASSUME Inv, [SwNext]_swVars, SafeBuilds PROVE Inv'
<1>1. CASE UNCHANGED swVars
  BY <1>1 DEF swVars, Inv, SwTypeOK, LockNamed, NamedInside, OneKind, StoreSound,
              AsBuilt, SwRuns
<1>2. CASE SwNext
  BY <1>2, QuietSteps, LoadSteps, StoreSteps, UnlockSteps, IrqSteps
     DEF SwNext, CoreStep
<1> QED BY <1>1, <1>2

LEMMA InvHolds == ASSUME SafeBuilds PROVE SwSpec => []Inv
  BY InvInit, InvStep, PTL DEF SwSpec

-----------------------------------------------------------------------------
\* Every variable keeps its type, whatever the cores are and do.
THEOREM LockTypes == SwSpec => []SwTypeOK
<1>1. SwInit => SwTypeOK
  BY IrqsAssumption DEF SwInit, SwTypeOK, Kinds, States
<1>2. ASSUME SwTypeOK, [SwNext]_swVars PROVE SwTypeOK'
  <2> USE <1>2 DEF SwTypeOK
  <2>1. ASSUME NEW c \in Cores PROVE /\ MonitorAfter(c) \in [Cores -> BOOLEAN]
                                    /\ EventAfter(c) \in [Cores -> BOOLEAN]
    BY DEF MonitorAfter, EventAfter
  <2>2. ASSUME NEW c \in Cores, NEW k \in Kinds, NEW s \in States,
               pc' = [pc EXCEPT ![c][k] = s]
        PROVE  pc' \in [Cores -> [Kinds -> States]]
    BY <2>2
  <2>3. \A k \in Kinds : Done(k) \in States
    BY DEF Done, States
  <2>4. ASSUME NEW c \in Cores, NEW k \in Kinds, LoadExclusive(c, k) PROVE SwTypeOK'
    BY <2>2, <2>3, <2>4 DEF LoadExclusive, States
  <2>5. ASSUME NEW c \in Cores, NEW k \in Kinds, StoreExclusive(c, k) PROVE SwTypeOK'
    <3>1. CASE monitor[c]
      BY <2>1, <2>2, <2>5, <3>1 DEF StoreExclusive, States
    <3>2. CASE ~monitor[c]
      BY <2>2, <2>3, <2>5, <3>2 DEF StoreExclusive, States
    <3> QED BY <3>1, <3>2
  <2>6. ASSUME NEW c \in Cores, NEW k \in Kinds, Unlock(c, k) PROVE SwTypeOK'
    BY <2>1, <2>2, <2>3, <2>6 DEF Unlock
  <2>7. ASSUME NEW c \in Cores,
               Lock(c) \/ TryLock(c) \/ Wfe(c) \/ IrqEnter(c) \/ IrqRetry(c) \/ IrqReturn(c)
        PROVE  SwTypeOK'
    <3>1. \E k \in Kinds, s \in States : pc' = [pc EXCEPT ![c][k] = s]
      BY <2>7 DEF Lock, TryLock, Wfe, IrqEnter, IrqRetry, IrqReturn, Kinds, States
    <3>2. /\ monitor' \in [Cores -> BOOLEAN] /\ event' \in [Cores -> BOOLEAN]
          /\ irqs' \in 0..MaxIrqs /\ UNCHANGED <<build, lock>>
      <4>1. /\ irqs' \in 0..MaxIrqs /\ UNCHANGED <<build, lock>>
            /\ UNCHANGED monitor \/ monitor' = [monitor EXCEPT ![c] = FALSE]
        BY <2>7, IrqsAssumption DEF Lock, TryLock, Wfe, IrqEnter, IrqRetry, IrqReturn
      <4>2. \/ event' = [event EXCEPT ![c] = @ \/ build[c].arch = "a64"] \/ UNCHANGED event
            \/ event' = [event EXCEPT ![c] = TRUE] \/ event' = [event EXCEPT ![c] = FALSE]
        BY <2>7 DEF Lock, TryLock, Wfe, IrqEnter, IrqRetry, IrqReturn
      <4>3. event' \in [Cores -> BOOLEAN]
        BY <4>2
      <4> QED BY <4>1, <4>3
    <3> QED BY <2>2, <3>1, <3>2
  <2>8. CASE UNCHANGED swVars
    BY <2>8 DEF swVars
  <2> QED BY <2>4, <2>5, <2>6, <2>7, <2>8, <1>2 DEF SwNext, CoreStep
<1> QED BY <1>1, <1>2, PTL DEF SwSpec

\* HAL_SPINLOCK_Lock and TryLock exclude each other on any number of cores of
\* any architectures, with interrupts that print at any moment, when every core
\* is Safe: on the RK3506, when a Cortex-A7 takes a lock in its main program or
\* in interrupts but not in both, and the Cortex-M0 does not call Lock.
THEOREM LockExcludes == ASSUME SafeBuilds PROVE SwSpec => []MutualExclusion
<1>1. Inv => MutualExclusion
  BY Consequences
<1> QED BY <1>1, InvHolds, PTL

\* HAL_SPINLOCK_GetOwner answers 0 exactly when nobody is inside, on the same
\* chips.
THEOREM OwnerIsNamed == ASSUME SafeBuilds PROVE SwSpec => []OwnerNamed
<1>1. Inv => OwnerNamed
  BY Consequences
<1> QED BY <1>1, InvHolds, PTL

\* Who is inside after a step that changes one place of pc.
LEMMA InsideAfter ==
  ASSUME SwTypeOK, NEW c \in Cores, NEW k \in Kinds, NEW s \in States,
         pc' = [pc EXCEPT ![c][k] = s]
  PROVE  /\ s = "in" => Inside' = Inside \union {<<c, k>>}
         /\ s # "in" => Inside' = Inside \ {<<c, k>>}
<1>1. \A d \in Cores, l \in Kinds :
         pc'[d][l] = IF d = c /\ l = k THEN s ELSE pc[d][l]
  BY DEF SwTypeOK
<1> QED BY <1>1 DEF Inside

\* Every step of the spinlock takes or releases the abstract lock, or leaves
\* it alone.
LEMMA StepImplements ==
  ASSUME Inv, [SwNext]_swVars, SafeBuilds
  PROVE  [Abstract!Next]_Inside
<1> SwTypeOK /\ MutualExclusion
  BY Consequences DEF Inv
<1>1. CASE UNCHANGED swVars
  BY <1>1 DEF swVars, Inside
<1>2. ASSUME NEW c \in Cores, NEW k \in Kinds, StoreExclusive(c, k)
      PROVE  [Abstract!Next]_Inside
  <2>1. CASE monitor[c]
    <3>1. Inside = {}
      <4>1. lock = Free
        BY <1>2, <2>1 DEF Inv, StoreSound, StoreExclusive
      <4> QED BY <4>1, Consequences DEF OwnerNamed
    <3>2. Inside' = {<<c, k>>}
      <4>1. pc' = [pc EXCEPT ![c][k] = "in"]
        BY <1>2, <2>1 DEF StoreExclusive
      <4> QED BY <3>1, <4>1, InsideAfter DEF States
    <3> QED BY <3>1, <3>2 DEF Abstract!Next, Abstract!Acquire
  <2>2. CASE ~monitor[c]
    <3>1. PICK s \in {"out", "leave", "wait", "load"} :
             pc' = [pc EXCEPT ![c][k] = s]
      BY <1>2, <2>2 DEF StoreExclusive, Done
    <3>2. <<c, k>> \notin Inside
      BY <1>2 DEF StoreExclusive, Inside
    <3>3. s \in States /\ s # "in"
      BY DEF States
    <3>4. Inside' = Inside \ {<<c, k>>}
      BY <3>1, <3>3, InsideAfter
    <3> QED BY <3>2, <3>4
  <2> QED BY <2>1, <2>2
<1>3. ASSUME NEW c \in Cores, NEW k \in Kinds, Unlock(c, k)
      PROVE  [Abstract!Next]_Inside
  <2>1. Inside = {<<c, k>>}
    <3>1. <<c, k>> \in Inside
      BY <1>3 DEF Unlock, Inside
    <3> QED BY <3>1 DEF MutualExclusion
  <2>2. PICK s \in {"out", "leave"} : pc' = [pc EXCEPT ![c][k] = s]
    BY <1>3 DEF Unlock, Done
  <2>3. s \in States /\ s # "in"
    BY DEF States
  <2>4. Inside' = Inside \ {<<c, k>>}
    BY <2>2, <2>3, InsideAfter
  <2>5. Inside' = {}
    BY <2>1, <2>4
  <2> QED BY <2>1, <2>5 DEF Abstract!Next, Abstract!Release
<1>4. ASSUME NEW c \in Cores, NEW k \in Kinds, LoadExclusive(c, k)
      PROVE  [Abstract!Next]_Inside
  <2>1. PICK s \in States \ {"in"} : pc' = [pc EXCEPT ![c][k] = s]
    <3> DEFINE x == IF pc[c][k] = "load"
                      THEN IF lock = Free THEN "store" ELSE "wait"
                      ELSE IF lock = Free THEN "try_store" ELSE Done(k)
    <3>1. pc' = [pc EXCEPT ![c][k] = x]
      BY <1>4 DEF LoadExclusive
    <3>2. x \in States \ {"in"}
      BY DEF Done, States
    <3> HIDE DEF x
    <3> QED BY <3>1, <3>2
  <2>2. <<c, k>> \notin Inside
    BY <1>4 DEF LoadExclusive, Inside
  <2>3. Inside' = Inside \ {<<c, k>>}
    BY <2>1, InsideAfter
  <2> QED BY <2>2, <2>3
<1>5. ASSUME NEW c \in Cores, Lock(c) \/ TryLock(c) \/ Wfe(c)
      PROVE  [Abstract!Next]_Inside
  <2>1. build[c].arch # "v6m"
    BY <1>5, SafeNow DEF Inv, AsBuilt, Safe, Lock, TryLock, Wfe
  <2>2. PICK s \in States \ {"in"} : pc' = [pc EXCEPT ![c]["main"] = s]
    BY <1>5, <2>1 DEF Lock, TryLock, Wfe, States
  <2>3. <<c, "main">> \notin Inside
    BY <1>5 DEF Lock, TryLock, Wfe, Inside
  <2>4. "main" \in Kinds
    BY DEF Kinds
  <2>5. Inside' = Inside \ {<<c, "main">>}
    BY <2>2, <2>4, InsideAfter
  <2> QED BY <2>3, <2>5
<1>6. ASSUME NEW c \in Cores, IrqEnter(c) \/ IrqRetry(c) \/ IrqReturn(c)
      PROVE  [Abstract!Next]_Inside
  <2>1. PICK s \in States \ {"in"} : pc' = [pc EXCEPT ![c]["isr"] = s]
    BY <1>6 DEF IrqEnter, IrqRetry, IrqReturn, States
  <2>2. <<c, "isr">> \notin Inside
    BY <1>6 DEF IrqEnter, IrqRetry, IrqReturn, Inside
  <2>3. "isr" \in Kinds
    BY DEF Kinds
  <2>4. Inside' = Inside \ {<<c, "isr">>}
    BY <2>1, <2>3, InsideAfter
  <2> QED BY <2>2, <2>4
<1> QED BY <1>1, <1>2, <1>3, <1>4, <1>5, <1>6 DEF SwNext, CoreStep

\* The spinlock implements the abstract lock on every chip whose cores are Safe.
THEOREM LockImplements == ASSUME SafeBuilds PROVE SwSpec => ImplementsMutex
<1>1. SwInit => Abstract!Init
  BY DEF SwInit, Abstract!Init, Inside
<1> QED BY <1>1, InvHolds, StepImplements, PTL
        DEF SwSpec, ImplementsMutex, Abstract!Spec

-----------------------------------------------------------------------------
(* The register.                                                           *)

\* What a step does to the callers: one of them goes on to s.
Moves(c, k, s) ==
    /\ hw_pc' \in [OwnerIDs -> [HwKinds -> HwStates]]
    /\ \A d \in OwnerIDs, l \in HwKinds :
          hw_pc'[d][l] = IF d = c /\ l = k THEN s ELSE hw_pc[d][l]

LEMMA EveryMove ==
  ASSUME HwTypeOK, NEW c \in OwnerIDs, NEW k \in HwKinds, NEW s \in HwStates,
         hw_pc' = [hw_pc EXCEPT ![c][k] = s]
  PROVE  Moves(c, k, s)
  BY DEF HwTypeOK, Moves

\* Whoever is in a call has a number that the register accepts.
NumbersValid ==
    \A c \in OwnerIDs, k \in HwKinds : hw_pc[c][k] \notin {"out", "leave"} => ValidOwner(c)

\* The register names whoever is inside.
RegisterNames ==
    \A c \in OwnerIDs, k \in HwKinds : hw_pc[c][k] \in {"in", "release"} => status = c

\* An interrupt that tries the lock finds its own main program outside.
AskedFirst ==
    \A c \in OwnerIDs : hw_pc[c]["isr"] \in {"write", "read", "in", "release"} =>
                           hw_pc[c]["main"] \notin {"in", "release"}

\* A main program that does not use the lock is not in a call.
MainAsUsed == \A c \in OwnerIDs : uses[c].main = {} => hw_pc[c]["main"] = "out"

SafeUses == \A u \in Uses, c \in OwnerIDs : HwSafe(u[c])

HwInv == HwTypeOK /\ NumbersValid /\ RegisterNames /\ AskedFirst /\ MainAsUsed

LEMMA HwInvInit == ASSUME HwInit PROVE HwInv
  BY HwIrqsAssumption DEF HwInit, HwInv, HwTypeOK, NumbersValid, RegisterNames, AskedFirst, MainAsUsed,
     HwKinds, HwStates

LEMMA HwConsequences == ASSUME HwInv PROVE HwMutualExclusion /\ HeldWhileInside
<1>1. HeldWhileInside
  BY DEF HwInv, RegisterNames, HeldWhileInside, HwInside
<1>2. ASSUME NEW s \in HwInside, NEW t \in HwInside PROVE s = t
  <2>1. s[1] = t[1] /\ s[1] \in OwnerIDs /\ s[2] \in HwKinds /\ t[2] \in HwKinds
    BY <1>1 DEF HeldWhileInside, HwInside
  <2>2. s[2] = t[2]
    BY <2>1 DEF HwInv, AskedFirst, HwInside, HwKinds
  <2> QED BY <2>1, <2>2 DEF HwInside
<1> QED BY <1>1, <1>2 DEF HwMutualExclusion

\* Steps that leave the register alone and do not enter.
LEMMA HwQuietSteps ==
  ASSUME HwInv, SafeUses, NEW c \in OwnerIDs,
         HwLock(c) \/ HwTryLock(c) \/ HwIrqEnter(c) \/ HwIrqReturn(c)
  PROVE  HwInv'
<1>1. PICK k \in HwKinds, s \in HwStates :
         /\ Moves(c, k, s) /\ s \in {"out", "owner", "write"}
         /\ s = "write" => k = "main" \/ uses[c].main = {}
         /\ s # "out" => ValidOwner(c)
         /\ k = "main" => uses[c].main # {}
  <2>0. HwSafe(uses[c]) /\ uses[c] \in HwCalls
    BY UsesAssumption DEF HwInv, HwTypeOK, SafeUses
  <2> USE DEF HwInv, HwTypeOK, HwKinds, HwStates, First
  <2>1. CASE HwLock(c)
    BY <2>1, EveryMove DEF HwLock
  <2>2. CASE HwTryLock(c)
    BY <2>0, <2>2, EveryMove DEF HwTryLock, HwCalls
  <2>3. CASE HwIrqEnter(c)
    BY <2>0, <2>3, EveryMove DEF HwIrqEnter, HwSafe, HwCalls
  <2>4. CASE HwIrqReturn(c)
    BY <2>4, EveryMove DEF HwIrqReturn
  <2> QED BY <2>1, <2>2, <2>3, <2>4
<1>2. uses' = uses /\ status' = status /\ hw_irqs' \in 0..HwMaxIrqs /\ locking' \in [OwnerIDs -> BOOLEAN]
  <2>1. hw_irqs \in 0..HwMaxIrqs /\ locking \in [OwnerIDs -> BOOLEAN]
    BY DEF HwInv, HwTypeOK
  <2>2. CASE HwIrqEnter(c)
    <3>1. hw_irqs < HwMaxIrqs /\ hw_irqs' = hw_irqs + 1 /\ UNCHANGED <<uses, status, locking>>
      BY <2>2 DEF HwIrqEnter
    <3> QED BY <2>1, <3>1, HwIrqsAssumption
  <2>3. CASE HwLock(c) \/ HwTryLock(c)
    <3>1. \E b \in BOOLEAN : locking' = [locking EXCEPT ![c] = b]
      BY <2>3 DEF HwLock, HwTryLock
    <3>2. UNCHANGED <<uses, status, hw_irqs>>
      BY <2>3 DEF HwLock, HwTryLock
    <3> QED BY <2>1, <3>1, <3>2
  <2>4. CASE HwIrqReturn(c)
    BY <2>1, <2>4 DEF HwIrqReturn
  <2> QED BY <2>2, <2>3, <2>4
<1>3. HwTypeOK'
  BY <1>1, <1>2 DEF HwInv, HwTypeOK, Moves
<1>4. NumbersValid' /\ RegisterNames' /\ AskedFirst' /\ MainAsUsed'
  BY <1>1, <1>2 DEF HwInv, Moves, NumbersValid, RegisterNames, AskedFirst, MainAsUsed, HwKinds
<1> QED BY <1>3, <1>4 DEF HwInv

\* The accesses of the register.
LEMMA HwAccesses ==
  ASSUME HwInv, NEW c \in OwnerIDs, NEW k \in HwKinds, CallStep(c, k)
  PROVE  HwInv'
<1> USE DEF HwInv, HwTypeOK, HwKinds, HwStates, HwDone, HwRefused
<1>0. UNCHANGED <<uses, locking, hw_irqs>> /\ HwRuns(c, k)
  BY DEF CallStep, GetOwner, WriteOwner, ReadBack, ReadOwner, Release
<1>v. ValidOwner(c)
  BY DEF CallStep, GetOwner, WriteOwner, ReadBack, ReadOwner, Release, NumbersValid
<1>1. CASE GetOwner(c, k)
  <2>1. PICK s \in {"write", HwDone(k)} : Moves(c, k, s) /\ (s = "write" => status = 0)
    BY <1>1, EveryMove DEF GetOwner
  <2>2. status' = status
    BY <1>1 DEF GetOwner
  <2>3. s = "write" => hw_pc[c]["main"] \notin {"in", "release"}
    BY <2>1, <1>v DEF RegisterNames, ValidOwner
  <2>4. MainAsUsed'
    BY <1>0, <1>1, <2>1 DEF GetOwner, Moves, MainAsUsed
  <2>5. HwTypeOK'
    BY <1>0, <2>1, <2>2 DEF Moves
  <2>6. NumbersValid' /\ RegisterNames' /\ AskedFirst'
    BY <1>0, <1>v, <2>1, <2>2, <2>3 DEF Moves, NumbersValid, RegisterNames, AskedFirst
  <2> QED BY <2>4, <2>5, <2>6
<1>2. CASE WriteOwner(c, k)
  <2>1. Moves(c, k, "read") /\ hw_pc[c][k] = "write"
    BY <1>2, EveryMove DEF WriteOwner
  <2>2. status' = IF status = 0 THEN c ELSE status
    BY <1>2 DEF WriteOwner
  <2>3. \A d \in OwnerIDs, l \in HwKinds : hw_pc[d][l] \in {"in", "release"} => status # 0
    BY DEF RegisterNames, NumbersValid, ValidOwner
  <2> QED BY <1>0, <1>v, <2>1, <2>2, <2>3 DEF Moves, NumbersValid, RegisterNames, AskedFirst, MainAsUsed
<1>3. CASE ReadBack(c, k)
  <2>1. PICK s \in {"in", HwRefused(c, k)} : Moves(c, k, s) /\ (s = "in" => status = c)
    BY <1>3, EveryMove DEF ReadBack
  <2>2. status' = status /\ hw_pc[c][k] = "read"
    BY <1>3 DEF ReadBack
  <2>3. k = "main" => hw_pc[c]["isr"] = "out"
    BY <1>0 DEF HwRuns
  <2> QED BY <1>0, <1>v, <2>1, <2>2, <2>3 DEF Moves, NumbersValid, RegisterNames, AskedFirst, MainAsUsed
<1>4. CASE ReadOwner(c, k)
  <2>1. PICK s \in {"release", HwDone(k)} : Moves(c, k, s)
    BY <1>4, EveryMove DEF ReadOwner
  <2>2. status' = status /\ hw_pc[c][k] = "in"
    BY <1>4 DEF ReadOwner
  <2> QED BY <1>0, <1>v, <2>1, <2>2 DEF Moves, NumbersValid, RegisterNames, AskedFirst, MainAsUsed
<1>5. CASE Release(c, k)
  <2>1. Moves(c, k, HwDone(k)) /\ hw_pc[c][k] = "release" /\ status' \in {0, status}
    BY <1>5, EveryMove DEF Release
  <2>2. <<c, k>> \in HwInside
    BY <2>1 DEF HwInside
  <2>3. \A d \in OwnerIDs, l \in HwKinds :
           hw_pc[d][l] \in {"in", "release"} => d = c /\ l = k
    <3>1. ASSUME NEW d \in OwnerIDs, NEW l \in HwKinds, hw_pc[d][l] \in {"in", "release"}
          PROVE  d = c /\ l = k
      <4>1. <<d, l>> \in HwInside
        BY <3>1 DEF HwInside
      <4>2. <<d, l>> = <<c, k>>
        BY <2>2, <4>1, HwConsequences DEF HwMutualExclusion
      <4> QED BY <4>2
    <3> QED BY <3>1
  <2> QED BY <1>0, <1>v, <2>1, <2>3 DEF Moves, NumbersValid, RegisterNames, AskedFirst, MainAsUsed
<1> QED BY <1>1, <1>2, <1>3, <1>4, <1>5 DEF CallStep

LEMMA HwInvStep == ASSUME HwInv, [HwNext]_hwVars, SafeUses PROVE HwInv'
<1>1. CASE UNCHANGED hwVars
  BY <1>1 DEF hwVars, HwInv, HwTypeOK, NumbersValid, RegisterNames, AskedFirst, MainAsUsed
<1>2. CASE HwNext
  BY <1>2, HwQuietSteps, HwAccesses DEF HwNext, HwCoreStep
<1> QED BY <1>1, <1>2

LEMMA HwInvHolds == ASSUME SafeUses PROVE HwSpec => []HwInv
  BY HwInvInit, HwInvStep, PTL DEF HwSpec

\* One caller at most is inside the register's lock, and the register names
\* it until it has released it, whatever the other cores and the interrupts
\* do between two accesses - when every core is HwSafe: its interrupts ask for
\* the owner first, or its main program leaves the lock to them.
THEOREM RegisterLocks ==
  ASSUME SafeUses PROVE HwSpec => [](HwTypeOK /\ HwMutualExclusion /\ HeldWhileInside)
<1>1. HwInv => HwTypeOK /\ HwMutualExclusion /\ HeldWhileInside
  BY HwConsequences DEF HwInv
<1> QED BY <1>1, HwInvHolds, PTL

\* What a move of the callers does to the set of callers inside.
LEMMA HwInsideAfter ==
  ASSUME HwTypeOK, NEW c \in OwnerIDs, NEW k \in HwKinds, NEW s \in HwStates,
         Moves(c, k, s)
  PROVE  /\ s \in {"in", "release"} => HwInside' = HwInside \union {<<c, k>>}
         /\ s \notin {"in", "release"} => HwInside' = HwInside \ {<<c, k>>}
  BY DEF Moves, HwInside

\* Steps of a caller that is outside and stays there.
LEMMA HwOutside ==
  ASSUME HwTypeOK, NEW c \in OwnerIDs, NEW k \in HwKinds,
         NEW s \in HwStates \ {"in", "release"}, Moves(c, k, s),
         hw_pc[c][k] \notin {"in", "release"}
  PROVE  UNCHANGED HwInside
<1>1. <<c, k>> \notin HwInside
  BY DEF HwInside
<1>2. HwInside' = HwInside \ {<<c, k>>}
  BY HwInsideAfter
<1> QED BY <1>1, <1>2

\* Every access of the register takes the abstract lock, releases it or
\* leaves it alone.
LEMMA HwAccessImplements ==
  ASSUME HwInv, NEW c \in OwnerIDs, NEW k \in HwKinds, CallStep(c, k)
  PROVE  [HwAbstract!Next]_HwInside
<1> HwTypeOK /\ HwMutualExclusion /\ HeldWhileInside
  BY HwConsequences DEF HwInv
<1>v. ValidOwner(c)
  BY DEF HwInv, CallStep, GetOwner, WriteOwner, ReadBack, ReadOwner, Release, NumbersValid
<1>d. HwDone(k) \in HwStates \ {"in", "release"}
  BY DEF HwDone, HwStates
<1>1. CASE GetOwner(c, k)
  <2>1. PICK s \in {"write", HwDone(k)} : Moves(c, k, s)
    BY <1>1, <1>d, EveryMove DEF GetOwner, HwStates
  <2>2. s \in HwStates \ {"in", "release"} /\ hw_pc[c][k] \notin {"in", "release"}
    BY <1>1, <1>d, <2>1 DEF GetOwner, HwStates
  <2> QED BY <2>1, <2>2, HwOutside
<1>2. CASE WriteOwner(c, k)
  <2>1. Moves(c, k, "read") /\ hw_pc[c][k] \notin {"in", "release"}
    BY <1>2, EveryMove DEF WriteOwner, HwStates
  <2>2. "read" \in HwStates \ {"in", "release"}
    BY DEF HwStates
  <2> QED BY <2>1, <2>2, HwOutside
<1>3. CASE ReadBack(c, k)
  <2>1. CASE status = c
    <3>1. Moves(c, k, "in")
      BY <1>3, <2>1, EveryMove DEF ReadBack, HwStates
    <3>2. HwInside' = HwInside \union {<<c, k>>}
      BY <3>1, HwInsideAfter DEF HwStates
    <3>3. hw_pc[c][k] = "read" /\ (k = "main" => hw_pc[c]["isr"] = "out")
      BY <1>3 DEF ReadBack, HwRuns
    <3>4. HwInside = {}
      <4>1. ASSUME NEW t \in HwInside PROVE FALSE
        <5>1. t[1] = c /\ t[2] \in HwKinds /\ hw_pc[c][t[2]] \in {"in", "release"}
          BY <2>1 DEF HeldWhileInside, HwInside
        <5>2. hw_pc[c]["isr"] = "read" => hw_pc[c]["main"] \notin {"in", "release"}
          BY DEF HwInv, AskedFirst
        <5> QED BY <3>3, <5>1, <5>2 DEF HwKinds
      <4> QED BY <4>1
    <3> QED BY <3>2, <3>4 DEF HwAbstract!Next, HwAbstract!Acquire
  <2>2. CASE status # c
    <3>1. HwRefused(c, k) \in HwStates \ {"in", "release"}
      BY <1>d DEF HwRefused, HwStates
    <3>2. Moves(c, k, HwRefused(c, k)) /\ hw_pc[c][k] \notin {"in", "release"}
      BY <1>3, <2>2, <3>1, EveryMove DEF ReadBack
    <3> QED BY <3>1, <3>2, HwOutside
  <2> QED BY <2>1, <2>2
<1>4. CASE ReadOwner(c, k)
  <2>1. status = c /\ <<c, k>> \in HwInside
    BY <1>4 DEF ReadOwner, HwInside, HeldWhileInside
  <2>2. Moves(c, k, "release")
    BY <1>4, <2>1, EveryMove DEF ReadOwner, HwStates
  <2>3. HwInside' = HwInside \union {<<c, k>>}
    BY <2>2, HwInsideAfter DEF HwStates
  <2> QED BY <2>1, <2>3
<1>5. CASE Release(c, k)
  <2>1. HwInside = {<<c, k>>}
    <3>1. <<c, k>> \in HwInside
      BY <1>5 DEF Release, HwInside
    <3> QED BY <3>1 DEF HwMutualExclusion
  <2>2. Moves(c, k, HwDone(k))
    BY <1>5, <1>d, EveryMove DEF Release
  <2>3. HwInside' = {}
    BY <1>d, <2>1, <2>2, HwInsideAfter
  <2> QED BY <2>1, <2>3 DEF HwAbstract!Next, HwAbstract!Release
<1> QED BY <1>1, <1>2, <1>3, <1>4, <1>5 DEF CallStep

LEMMA HwStepImplements ==
  ASSUME HwInv, [HwNext]_hwVars
  PROVE  [HwAbstract!Next]_HwInside
<1> HwTypeOK
  BY DEF HwInv
<1>1. CASE UNCHANGED hwVars
  BY <1>1 DEF hwVars, HwInside
<1>2. ASSUME NEW c \in OwnerIDs,
             HwLock(c) \/ HwTryLock(c) \/ HwIrqEnter(c) \/ HwIrqReturn(c)
      PROVE  UNCHANGED HwInside
  <2>1. PICK k \in HwKinds, s \in {"out", "owner", "write"} :
           hw_pc' = [hw_pc EXCEPT ![c][k] = s] /\ hw_pc[c][k] \notin {"in", "release"}
    BY <1>2 DEF HwLock, HwTryLock, HwIrqEnter, HwIrqReturn, First, HwKinds
  <2>2. s \in HwStates \ {"in", "release"}
    BY DEF HwStates
  <2>3. Moves(c, k, s)
    BY <2>1, <2>2, EveryMove
  <2> QED BY <2>1, <2>2, <2>3, HwOutside
<1> QED BY <1>1, <1>2, HwAccessImplements DEF HwNext, HwCoreStep

\* The register implements the abstract lock: the call that reads its own
\* number back takes it, the write of 0 releases it, and no other access of
\* any core or interrupt does either.
THEOREM RegisterImplements == ASSUME SafeUses PROVE HwSpec => HwImplementsMutex
<1>1. HwInit => HwAbstract!Init
  BY DEF HwInit, HwAbstract!Init, HwInside
<1> QED BY <1>1, HwInvHolds, HwStepImplements, PTL
        DEF HwSpec, HwImplementsMutex, HwAbstract!Spec

-----------------------------------------------------------------------------
(* Both locks, as the run checks them.                                     *)

\* Both locks keep their invariants in the specification of the run, for every
\* chip whose cores are Safe and HwSafe.
THEOREM LocksAreSafe == ASSUME SafeBuilds, SafeUses PROVE Spec => []LocksSafe
<1>1. Init => Inv /\ HwInv
  BY InvInit, HwInvInit DEF Init, SwRest, HwRest
<1>2. Inv /\ HwInv /\ [Next]_vars => (Inv /\ HwInv)'
  <2>1. Inv /\ HwInv /\ [Next]_vars => [SwNext]_swVars /\ [HwNext]_hwVars
    BY DEF Next, vars, driverVars, lockVars
  <2> QED BY <2>1, InvStep, HwInvStep
<1>3. Inv /\ HwInv => LocksSafe
  BY Consequences, HwConsequences DEF Inv, HwInv, LocksSafe
<1> QED BY <1>1, <1>2, <1>3, PTL DEF Spec
=============================================================================
