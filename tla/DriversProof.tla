---------------------------- MODULE DriversProof ---------------------------
(***************************************************************************)
(* Proofs about the drivers of the HAL that MCDrivers runs side by side:   *)
(* Intmux, SysTimer, GpioIrqGroup and HalI2c, one after the other, and     *)
(* their composition at the end.                                           *)
(*                                                                         *)
(* What is assumed of the constants has a name in the component's module:  *)
(* SourceAssumption, Rates, Divided, FifoAssumption and TypesAssumption.   *)
(***************************************************************************)
EXTENDS MCDrivers, SequenceTheorems, FiniteSetTheorems, TLAPS

-----------------------------------------------------------------------------
(* Intmux: every driver that came up stays connected.                      *)

LEMMA Quotient ==
  ASSUME NEW k \in Nat, NEW d \in Nat \ {0}, NEW n \in Nat, k < n * d
  PROVE  k \div d \in 0..(n - 1)
<1>1. d * (k \div d) <= k /\ k \div d \in Int /\ k \div d >= 0
  OBVIOUS
<1>2. k \div d < n
  OBVIOUS
<1> QED BY <1>1, <1>2

LEMMA OutOfSource == ASSUME NEW s \in Source PROVE OutOf(s) \in Out
<1>1. s \in Nat /\ s < Outs * PerOut /\ Outs \in Nat \ {0} /\ PerOut \in Nat \ {0}
  BY SourceAssumption DEF Source
<1>2. s \div PerOut \in 0..(Outs - 1)
  BY <1>1, Quotient
<1> QED BY <1>2 DEF OutOf, Out

LEMMA CanSources ==
  /\ CanSource \subseteq Source /\ Mbox \in Source /\ Mbox \notin CanSource
  /\ Len(Can) \in Nat /\ \A d \in 1..Len(Can) : Can[d] \in CanSource
<1>1. Can \in Seq(Source) /\ Mbox \in Source /\ Mbox \notin CanSource
  BY SourceAssumption
<1>2. Len(Can) \in Nat /\ DOMAIN Can = 1..Len(Can) /\ \A d \in 1..Len(Can) : Can[d] \in Source
  BY <1>1, LenProperties
<1> QED BY <1>1, <1>2 DEF CanSource

\* Outputs that lines hold are outputs.
LEMMA PendingType ==
  ASSUME nvic_pending \subseteq Out, NEW cleared, NEW lines \in SUBSET Source, NEW on
  PROVE  Pending(cleared, lines, on) \subseteq Out
  BY OutOfSource DEF Pending

\* A controller that came up has its source let through on a configured
\* output, or is the one BSP_CAN_Init is about.
ControllersConnected ==
    \A s \in initialized :
        /\ handler[s] = "can"
        /\ \/ s \in enabled /\ OutOf(s) \in configured
           \/ main_pc = "output" /\ s = Can[dev]
           \/ main_pc = "source" /\ s = Can[dev] /\ OutOf(s) \in configured

StartUp ==
    /\ main_pc # "boot" => nvic_on = Out
    /\ main_pc \in {"boot", "mask"} => initialized = {}
    /\ main_pc \in {"output", "source"} => dev <= Len(Can)
    /\ main_pc = "source" => OutOf(Can[dev]) \in configured
    /\ main_pc \in {"disable", "enable", "loop"} => handler[Mbox] = "mbox"
    /\ main_pc = "loop" => Mbox \in enabled

MuxInv == /\ MuxTypeOK /\ todo \in [Out -> SUBSET Source]
          /\ ControllersConnected /\ StartUp

LEMMA MuxInitInv == MuxInit => MuxInv
<1> SUFFICES ASSUME MuxInit PROVE MuxInv
  OBVIOUS
<1>0. Left \subseteq Source /\ MaxRaises \in Nat
  BY SourceAssumption
<1>1. nvic_pending \subseteq Out
  BY <1>0, OutOfSource DEF MuxInit
<1>2. MuxTypeOK /\ todo \in [Out -> SUBSET Source]
  <2>1. /\ raises \in [Source -> 0..MaxRaises] /\ priority \in [Out -> 0..1]
        /\ dev \in 1..(Len(Can) + 1)
    BY <1>0, CanSources DEF MuxInit
  <2>2. /\ handler \in [Source -> {NoHandler, "can", "mbox"}]
        /\ vector \in [Out -> {"default", "intmux", "can"}]
        /\ todo \in [Out -> SUBSET Source]
    BY DEF MuxInit
  <2>3. active \in Seq(Out)
    BY DEF MuxInit
  <2> QED BY <1>0, <1>1, <2>1, <2>2, <2>3 DEF MuxInit, MuxTypeOK
<1> QED BY <1>2 DEF MuxInit, MuxInv, ControllersConnected, StartUp

\* A step that leaves the registers that connect the drivers alone.
LEMMA ConnectedStill ==
  ASSUME MuxInv, UNCHANGED <<muxVars, nvicVars, canVars, mainVars>>
  PROVE  ControllersConnected' /\ StartUp'
  BY DEF MuxInv, muxVars, nvicVars, canVars, mainVars, ControllersConnected, StartUp

LEMMA RaiseInv == ASSUME MuxInv, NEW s \in Source, Raise(s) PROVE MuxInv'
<1>1. UNCHANGED <<muxVars, nvicVars, canVars, mainVars>>
  BY DEF Raise
<1>2. nvic_pending' \subseteq Out
  BY PendingType DEF Raise, MuxInv, MuxTypeOK
<1>3. raises' \in [Source -> 0..MaxRaises]
  <2>1. raises[s] \in 0..MaxRaises /\ raises[s] < MaxRaises /\ MaxRaises \in Nat
    BY SourceAssumption DEF Raise, MuxInv, MuxTypeOK
  <2>2. raises[s] + 1 \in 0..MaxRaises
    BY <2>1
  <2> QED BY <2>2 DEF Raise, MuxInv, MuxTypeOK
<1>4. MuxTypeOK' /\ todo' \in [Out -> SUBSET Source]
  BY <1>1, <1>2, <1>3 DEF Raise, MuxInv, MuxTypeOK, muxVars, nvicVars, canVars, mainVars, isrVars
<1> QED BY <1>1, <1>4, ConnectedStill DEF MuxInv

LEMMA IsrInv == ASSUME MuxInv, \/ \E o \in Out : IsrTake(o)
                               \/ IsrDispatch \/ IsrReturn
                PROVE  MuxInv'
<1>1. UNCHANGED <<muxVars, nvicVars, canVars, mainVars, raises>>
  BY DEF IsrTake, IsrDispatch, IsrReturn, deviceVars
<1>2. raised' \subseteq Source
  BY DEF IsrTake, IsrDispatch, IsrReturn, deviceVars, MuxInv, MuxTypeOK
<1>3. active # <<>> => Head(active) \in Out /\ Tail(active) \in Seq(Out)
  BY HeadTailProperties DEF MuxInv, MuxTypeOK
<1>4. active' \in Seq(Out) /\ nvic_pending' \subseteq Out
  <2>1. ASSUME NEW o \in Out, IsrTake(o) PROVE active' \in Seq(Out) /\ nvic_pending' \subseteq Out
    <3>1. <<o>> \in Seq(Out)
      OBVIOUS
    <3> QED BY <2>1, <3>1, ConcatProperties DEF IsrTake, MuxInv, MuxTypeOK
  <2>2. CASE IsrDispatch
    BY <2>2 DEF IsrDispatch, MuxInv, MuxTypeOK
  <2>3. CASE IsrReturn
    BY <2>3, <1>3 DEF IsrReturn, MuxInv, MuxTypeOK
  <2> QED BY <2>1, <2>2, <2>3
<1>5. todo' \in [Out -> SUBSET Source]
  BY DEF IsrTake, IsrDispatch, IsrReturn, MuxInv, MuxTypeOK, Flags
<1>6. MuxTypeOK'
  BY <1>1, <1>2, <1>4, <1>5
  DEF MuxInv, MuxTypeOK, muxVars, nvicVars, canVars, mainVars
<1> QED BY <1>1, <1>5, <1>6, ConnectedStill DEF MuxInv

\* The steps of main.c, but for those that configure a controller.
LEMMA MainInv ==
  ASSUME MuxInv, \/ MainIntmuxInit \/ MainMaskCan \/ MainEnableIrq
                 \/ MainMboxHandler \/ MainMboxDisable \/ MainMboxEnable
  PROVE  MuxInv'
<1> USE DEF MuxInv, deviceVars, isrVars
<1>0. UNCHANGED <<deviceVars, canVars, isrVars, dev>> /\ dev \in 1..(Len(Can) + 1)
  BY DEF MainIntmuxInit, MainMaskCan, MainEnableIrq, MainMboxHandler, MainMboxDisable,
         MainMboxEnable, MuxTypeOK
<1> USE <1>0 DEF canVars
<1>1. CASE MainIntmuxInit
  BY <1>1 DEF MainIntmuxInit, MuxTypeOK, muxVars, ControllersConnected, StartUp
<1>2. CASE MainMaskCan
  <2>1. enabled' \subseteq Source /\ nvic_pending' \subseteq Out
    BY <1>2, PendingType DEF MainMaskCan, MuxTypeOK
  <2> QED BY <1>2, <2>1 DEF MainMaskCan, MuxTypeOK, nvicVars, ControllersConnected, StartUp
<1>3. CASE MainEnableIrq
  BY <1>3 DEF MainEnableIrq, MuxTypeOK, muxVars, nvicVars, ControllersConnected, StartUp
<1>4. CASE MainMboxHandler
  <2>1. initialized \subseteq CanSource
    BY DEF MuxTypeOK
  <2>2. \A s \in Source : handler'[s] = IF s = Mbox THEN "mbox" ELSE handler[s]
    BY <1>4 DEF MainMboxHandler, MuxTypeOK
  <2>3. MuxTypeOK'
    BY <1>4 DEF MainMboxHandler, MuxTypeOK, nvicVars
  <2>4. ControllersConnected'
    BY <1>4, <2>1, <2>2, CanSources DEF MainMboxHandler, ControllersConnected
  <2> QED BY <1>4, <2>2, <2>3, <2>4, CanSources DEF MainMboxHandler, StartUp, nvicVars
<1>5. CASE MainMboxDisable
  <2>1. initialized \subseteq CanSource
    BY DEF MuxTypeOK
  <2>2. MuxTypeOK'
    BY <1>5 DEF MainMboxDisable, MuxTypeOK, nvicVars
  <2>3. ControllersConnected'
    BY <1>5, <2>1, CanSources DEF MainMboxDisable, ControllersConnected
  <2> QED BY <1>5, <2>2, <2>3 DEF MainMboxDisable, StartUp, nvicVars
<1>6. CASE MainMboxEnable
  <2>1. enabled' \subseteq Source /\ nvic_pending' \subseteq Out
    BY <1>6, PendingType, CanSources DEF MainMboxEnable, MuxTypeOK
  <2>2. MuxTypeOK'
    BY <1>6, <2>1 DEF MainMboxEnable, MuxTypeOK, nvicVars
  <2> QED BY <1>6, <2>2 DEF MainMboxEnable, StartUp, nvicVars, ControllersConnected
<1> QED BY <1>1, <1>2, <1>3, <1>4, <1>5, <1>6

\* Those that do: an output is emptied only before it is configured.
LEMMA ControllerInv ==
  ASSUME MuxInv, MainController \/ MainConfigOutput \/ MainSource
  PROVE  MuxInv'
<1> USE DEF MuxInv, deviceVars, isrVars
<1> DEFINE s == Can[dev]
           o == OutOf(s)
<1>0. UNCHANGED <<deviceVars, isrVars, irq_on>> /\ dev \in 1..(Len(Can) + 1)
  BY DEF MainController, MainConfigOutput, MainSource, MuxTypeOK
<1>1. dev \in 1..Len(Can)
  BY <1>0, CanSources DEF MainController, MainConfigOutput, MainSource, StartUp
<1>2. s \in CanSource /\ s \in Source /\ o \in Out
  BY <1>1, CanSources, OutOfSource
<1>3. dev \in 1..(Len(Can) + 1) /\ dev + 1 \in 1..(Len(Can) + 1) /\ dev <= Len(Can)
  BY <1>1, CanSources
<1>4. initialized \subseteq CanSource
  BY DEF MuxTypeOK
<1> HIDE DEF s, o
<1>5. CASE MainController
  <2>1. UNCHANGED <<enabled, nvicVars, nvic_pending, configured>>
    BY <1>5 DEF MainController
  <2>2. \/ /\ handler' = [handler EXCEPT ![s] = "can"] /\ initialized' = initialized \union {s}
           /\ main_pc' = "output" /\ dev' = dev
        \/ main_pc' = "controller" /\ dev' = dev + 1 /\ UNCHANGED <<handler, initialized>>
    BY <1>5 DEF MainController, s
  <2>3. main_pc = "controller"
    BY <1>5 DEF MainController
  <2>4. MuxTypeOK'
    BY <1>0, <1>2, <1>3, <2>1, <2>2 DEF MuxTypeOK, nvicVars
  <2>5. ControllersConnected'
    <3>1. CASE main_pc' = "output"
      <4>1. \A q \in Source : handler'[q] = IF q = s THEN "can" ELSE handler[q]
        BY <2>2, <3>1 DEF MuxTypeOK
      <4>3. main_pc' = "output" /\ dev' = dev /\ initialized' = initialized \union {s}
        BY <2>2, <2>3, <3>1
      <4>4. ASSUME NEW q \in initialized'
            PROVE  /\ handler'[q] = "can"
                   /\ q # s => q \in enabled' /\ OutOf(q) \in configured'
        <5>1. q = s => handler'[q] = "can"
          BY <1>2, <4>1
        <5>2. CASE q # s
          <6>1. q \in initialized /\ q \in Source
            BY <4>3, <5>2, <1>4, CanSources
          <6>2. handler[q] = "can" /\ q \in enabled /\ OutOf(q) \in configured
            BY <6>1, <2>3 DEF ControllersConnected
          <6> QED BY <6>1, <6>2, <4>1, <5>2, <2>1
        <5> QED BY <5>1, <5>2
      <4> QED BY <4>3, <4>4 DEF ControllersConnected, s
    <3>2. CASE main_pc' = "controller"
      BY <2>1, <2>2, <2>3, <3>2 DEF ControllersConnected
    <3> QED BY <2>2, <3>1, <3>2
  <2>6. StartUp'
    BY <1>3, <2>1, <2>2, <2>3 DEF StartUp, nvicVars
  <2> QED BY <1>0, <2>4, <2>5, <2>6
<1>6. CASE MainConfigOutput
  <2>1. main_pc = "output" /\ main_pc' = "source" /\ UNCHANGED <<handler, initialized, dev>>
    BY <1>6 DEF MainConfigOutput
  <2>2. CASE o \in configured /\ UNCHANGED <<enabled, nvicVars, nvic_pending, configured>>
    <3>1. MuxTypeOK'
      BY <1>0, <2>1, <2>2 DEF MuxTypeOK, nvicVars
    <3>2. ControllersConnected'
      BY <2>1, <2>2 DEF ControllersConnected, s, o
    <3> QED BY <1>0, <1>3, <2>1, <2>2, <3>1, <3>2 DEF StartUp, nvicVars, s, o
  <2>3. CASE /\ o \notin configured
             /\ enabled' = enabled \ SourcesOf(o)
             /\ vector' = [vector EXCEPT ![o] = "can"]
             /\ nvic_pending' = Pending({o}, raised, enabled')
             /\ priority' = [priority EXCEPT ![o] = 1]
             /\ nvic_on' = nvic_on \union {o}
             /\ configured' = configured \union {o}
    <3>1. nvic_pending' \subseteq Out
      BY <2>3, PendingType DEF MuxTypeOK
    <3>2. MuxTypeOK'
      <4>0. vector \in [Out -> {"default", "intmux", "can"}] /\ priority \in [Out -> 0..1]
        BY DEF MuxTypeOK
      <4>v. vector' \in [Out -> {"default", "intmux", "can"}]
        BY <2>3, <4>0
      <4>p. priority' = [q \in Out |-> IF q = o THEN 1 ELSE priority[q]]
        BY <2>3, <4>0, Zenon
      <4>q. priority' \in [Out -> 0..1]
        <5> DEFINE Priorities == 0..1
        <5>1. 1 \in Priorities /\ priority \in [Out -> Priorities]
          BY <4>0
        <5> HIDE DEF Priorities
        <5>2. priority' \in [Out -> Priorities]
          BY <4>p, <5>1, Zenon
        <5> QED BY <5>2 DEF Priorities
      <4>1. vector' \in [Out -> {"default", "intmux", "can"}] /\ priority' \in [Out -> 0..1]
        BY <4>v, <4>q
      <4>2. enabled' \subseteq Source /\ nvic_on' \subseteq Out /\ configured' \subseteq Out
        BY <1>2, <2>3 DEF MuxTypeOK
      <4> QED BY <1>0, <2>1, <3>1, <4>1, <4>2 DEF MuxTypeOK
    <3>3. ControllersConnected'
      BY <2>1, <2>3 DEF ControllersConnected, SourcesOf, s, o
    <3>4. StartUp'
      BY <1>2, <1>3, <2>1, <2>3 DEF StartUp, s, o
    <3> QED BY <1>0, <3>2, <3>3, <3>4
  <2> QED BY <1>6, <2>2, <2>3 DEF MainConfigOutput, s, o
<1>7. CASE MainSource
  <2>1. /\ main_pc = "source" /\ main_pc' = "controller" /\ dev' = dev + 1
        /\ enabled' = enabled \union {s} /\ UNCHANGED <<handler, nvicVars, canVars>>
    BY <1>7 DEF MainSource, s
  <2>2. nvic_pending' \subseteq Out
    BY <1>7, PendingType DEF MainSource, MuxTypeOK
  <2>3. MuxTypeOK'
    BY <1>0, <1>2, <1>3, <2>1, <2>2 DEF MuxTypeOK, nvicVars, canVars
  <2>4. ControllersConnected'
    BY <2>1 DEF ControllersConnected, canVars, s
  <2>5. StartUp'
    BY <2>1 DEF StartUp, nvicVars, canVars
  <2> QED BY <1>0, <2>3, <2>4, <2>5
<1> QED BY <1>5, <1>6, <1>7

LEMMA MuxNextInv == MuxInv /\ [MuxNext]_intmuxVars => MuxInv'
<1> SUFFICES ASSUME MuxInv, [MuxNext]_intmuxVars PROVE MuxInv'
  OBVIOUS
<1>1. ASSUME NEW s \in Left \union CanSource \union {Mbox}, Raise(s) PROVE MuxInv'
  BY <1>1, RaiseInv, CanSources, SourceAssumption
<1>2. CASE Main
  BY <1>2, MainInv, ControllerInv DEF Main
<1>3. CASE (\E o \in Out : IsrTake(o)) \/ IsrDispatch \/ IsrReturn
  BY <1>3, IsrInv
<1>4. CASE UNCHANGED intmuxVars
  <2>1. MuxTypeOK' /\ todo' \in [Out -> SUBSET Source]
    BY <1>4 DEF intmuxVars, muxVars, deviceVars, nvicVars, canVars, mainVars, isrVars, MuxInv, MuxTypeOK
  <2> QED BY <1>4, <2>1, ConnectedStill DEF intmuxVars, MuxInv
<1> QED BY <1>1, <1>2, <1>3, <1>4 DEF MuxNext

\* When the main loop is reached, every driver that came up is connected,
\* whatever ran before, whichever controllers came up and however the sources
\* share the outputs.
THEOREM DriversStayConnected == MuxInit /\ [][MuxNext]_intmuxVars => []MuxTypeOK /\ []DriversConnected
<1>1. MuxInv => MuxTypeOK /\ DriversConnected
  <2> SUFFICES ASSUME MuxInv, main_pc = "loop", NEW s \in Drivers
               PROVE  s \in enabled /\ handler[s] # NoHandler /\ OutOf(s) \in nvic_on
    BY DEF MuxInv, DriversConnected
  <2>1. s \in Source /\ OutOf(s) \in Out
    BY CanSources, OutOfSource DEF Drivers, MuxInv, MuxTypeOK
  <2>2. nvic_on = Out
    BY DEF MuxInv, StartUp
  <2>3. s \in initialized \/ s = Mbox
    BY DEF Drivers
  <2> QED BY <2>1, <2>2, <2>3 DEF MuxInv, StartUp, ControllersConnected, NoHandler
<1> QED BY <1>1, MuxInitInv, MuxNextInv, PTL

-----------------------------------------------------------------------------
(* HAL_TIMER_GetCount: it never returns a torn value, however wide the     *)
(* registers are, however long the CPU is held up between two accesses and *)
(* whichever way the timer counts.                                         *)

Flip(x) == IF down THEN Half - 1 - x ELSE x

Typed == /\ down \in BOOLEAN /\ reg \in Register \X Register
         /\ step \in {"none", "high", "low", "temp", "got"}
         /\ high \in Register /\ low \in Register /\ entered \in Register \X Register

\* The call began before now.
Entered == step # "none" => NotAfter(Up(entered), Up(reg))

\* The first high part is one of the call.
HighRead == step \in {"low", "temp"} =>
                Up(entered)[1] <= Flip(high) /\ Flip(high) <= Up(reg)[1]

\* The low part stood beside a high part no older than the first one.
LowRead == step = "temp" =>
    \E h \in Register : /\ NotAfter(Up(entered), <<h, Flip(low)>>)
                        /\ NotAfter(<<h, Flip(low)>>, Up(reg))
                        /\ Flip(high) <= h

ReadInv == Typed /\ Entered /\ HighRead /\ LowRead /\ ReadIsCurrent

-----------------------------------------------------------------------------
LEMMA FlipRegister == ASSUME Typed, NEW x \in Register PROVE Flip(x) \in Register
  BY HalfAssumption DEF Typed, Flip, Register

LEMMA UpFlips == ASSUME Typed, NEW r \in Register \X Register
                 PROVE /\ Up(r) \in Register \X Register
                       /\ Up(r)[1] = Flip(r[1]) /\ Up(r)[2] = Flip(r[2])
  BY HalfAssumption DEF Typed, Up, Flip, Register

LEMMA UpBack == ASSUME Typed, NEW r \in Register \X Register
                PROVE Up(Up(r)) = r
  BY HalfAssumption DEF Typed, Up, Register

LEMMA NotAfterItself == ASSUME NEW r \in Register \X Register PROVE NotAfter(r, r)
  BY HalfAssumption DEF NotAfter, Register

LEMMA NotAfterThrough ==
    ASSUME NEW r \in Register \X Register, NEW s \in Register \X Register,
           NEW t \in Register \X Register, NotAfter(r, s), NotAfter(s, t)
    PROVE  NotAfter(r, t)
  BY HalfAssumption DEF NotAfter, Register

\* A tick leaves the time no earlier than it was.
LEMMA TickGoesOn == ASSUME Typed, Tick
                    PROVE reg' \in Register \X Register /\ NotAfter(Up(reg), Up(reg'))
<1> DEFINE u == Up(reg)
           next == IF u[2] + 1 < Half THEN <<u[1], u[2] + 1>> ELSE <<u[1] + 1, 0>>
<1>1. u \in Register \X Register
  BY UpFlips DEF Typed
<1>2. next[1] < Half /\ reg' = Up(next)
  BY DEF Tick
<1>3. next \in Register \X Register /\ NotAfter(u, next)
  BY <1>1, <1>2, HalfAssumption DEF Register, NotAfter
<1>4. reg' \in Register \X Register
  BY <1>2, <1>3, UpFlips
<1>5. Up(reg') = next
  BY <1>2, <1>3, UpBack
<1> QED BY <1>3, <1>4, <1>5

-----------------------------------------------------------------------------
LEMMA ReadInit == TimerInit => ReadInv
<1> SUFFICES ASSUME TimerInit PROVE ReadInv
  OBVIOUS
<1>1. PICK s \in Starts : reg = Up(s)
  BY DEF TimerInit
<1>2. s \in Register \X Register
  BY StartsAssumption DEF Register
<1>3. down \in BOOLEAN
  BY DirectionsAssumption DEF TimerInit
<1>4. reg \in Register \X Register
  BY <1>1, <1>2, <1>3, HalfAssumption DEF Up, Register
<1>5. 0 \in Register
  BY HalfAssumption DEF Register
<1>6. Typed
  BY <1>3, <1>4, <1>5 DEF TimerInit, Typed
<1> QED BY <1>6 DEF TimerInit, ReadInv, Entered, HighRead, LowRead, ReadIsCurrent

\* A step after which no read is under way, or one that has just begun.
LEMMA Afresh ==
    ASSUME Typed, UNCHANGED timer,
           \/ step' = "none" /\ entered' \in Register \X Register
           \/ step' = "high" /\ entered' = reg,
           high' \in Register, low' \in Register
    PROVE  ReadInv'
<1>1. Typed'
  BY DEF Typed, timer
<1>2. Entered'
  <2>1. CASE step' = "none"
    BY <2>1 DEF Entered
  <2>2. CASE step' = "high" /\ entered' = reg
    <3>1. Up(entered)' = Up(reg)'
      BY <2>2 DEF Up, timer
    <3>2. Up(reg) \in Register \X Register
      BY UpFlips DEF Typed
    <3>3. Up(reg)' = Up(reg)
      BY DEF Up, timer
    <3> QED BY <3>1, <3>2, <3>3, NotAfterItself DEF Entered
  <2> QED BY <2>1, <2>2
<1> QED BY <1>1, <1>2 DEF ReadInv, HighRead, LowRead, ReadIsCurrent

LEMMA ReadNext == ReadInv /\ [TimerNext]_timerVars => ReadInv'
<1> SUFFICES ASSUME ReadInv, [TimerNext]_timerVars PROVE ReadInv'
  OBVIOUS
<1> USE DEF ReadInv
<1>r. Up(reg) \in Register \X Register /\ Up(entered) \in Register \X Register
  BY UpFlips DEF Typed
<1>f. Flip(high) \in Register /\ Flip(low) \in Register
  BY FlipRegister DEF Typed
<1>z. 0 \in Register /\ <<0, 0>> \in Register \X Register
  BY HalfAssumption DEF Register
<1>1. CASE Tick
  <2>1. reg' \in Register \X Register /\ NotAfter(Up(reg), Up(reg'))
    BY <1>1, TickGoesOn
  <2>2. UNCHANGED <<down, step, high, low, entered>>
    BY <1>1 DEF Tick
  <2>3. Typed'
    BY <2>1, <2>2 DEF Typed
  <2>4. /\ Up(entered)' = Up(entered) /\ Up(reg)' = Up(reg')
        /\ Flip(high)' = Flip(high) /\ Flip(low)' = Flip(low)
        /\ Up(<<high, low>>)' = Up(<<high, low>>)
    BY <2>2 DEF Up, Flip
  <2>5. Up(reg') \in Register \X Register
    BY <2>1, UpFlips
  <2>6. Entered'
    BY <2>1, <2>2, <2>4, <2>5, <1>r, NotAfterThrough DEF Entered
  <2>7. HighRead'
    BY <2>1, <2>2, <2>4, <2>5, <1>r, <1>f DEF HighRead, NotAfter, Register
  <2>8. LowRead'
    <3> SUFFICES ASSUME step' = "temp" PROVE LowRead'
      BY DEF LowRead
    <3>1. PICK h \in Register : /\ NotAfter(Up(entered), <<h, Flip(low)>>)
                                /\ NotAfter(<<h, Flip(low)>>, Up(reg))
                                /\ Flip(high) <= h
      BY <2>2 DEF LowRead
    <3>2. <<h, Flip(low)>> \in Register \X Register
      BY <1>f
    <3>3. NotAfter(<<h, Flip(low)>>, Up(reg'))
      BY <3>1, <3>2, <2>1, <2>5, <1>r, NotAfterThrough
    <3> QED BY <3>1, <3>3, <2>4 DEF LowRead
  <2>9. ReadIsCurrent'
    <3>1. Up(<<high, low>>) \in Register \X Register
      BY UpFlips DEF Typed
    <3> QED BY <3>1, <2>1, <2>2, <2>4, <2>5, <1>r, NotAfterThrough DEF ReadIsCurrent
  <2> QED BY <2>3, <2>6, <2>7, <2>8, <2>9
<1>2. CASE ReadHigh
  <2>1. /\ step = "high" /\ step' = "low" /\ high' = reg[1]
        /\ UNCHANGED <<down, reg, low, entered>>
    BY <1>2 DEF ReadHigh, Works, timer
  <2>2. Typed'
    BY <2>1 DEF Typed
  <2>3. /\ Up(entered)' = Up(entered) /\ Up(reg)' = Up(reg)
        /\ Flip(high)' = Up(reg)[1]
    BY <2>1, UpFlips DEF Up, Flip, Typed
  <2>4. Entered'
    BY <2>1, <2>3 DEF Entered
  <2>5. HighRead'
    BY <2>1, <2>3, <1>r DEF HighRead, Entered, NotAfter, Register
  <2> QED BY <2>1, <2>2, <2>4, <2>5 DEF LowRead, ReadIsCurrent
<1>3. CASE ReadLow
  <2>1. /\ step = "low" /\ step' = "temp" /\ low' = reg[2]
        /\ UNCHANGED <<down, reg, high, entered>>
    BY <1>3 DEF ReadLow, Works, timer
  <2>2. Typed'
    BY <2>1 DEF Typed
  <2>3. /\ Up(entered)' = Up(entered) /\ Up(reg)' = Up(reg)
        /\ Flip(high)' = Flip(high) /\ Flip(low)' = Up(reg)[2]
    BY <2>1, UpFlips DEF Up, Flip, Typed
  <2>4. Entered' /\ HighRead'
    BY <2>1, <2>3 DEF Entered, HighRead
  <2>5. LowRead'
    <3> DEFINE h == Up(reg)[1]
    <3>1. h \in Register /\ Up(reg) = <<h, Flip(low)'>>
      BY <2>3, <1>r
    <3>2. NotAfter(Up(entered), <<h, Flip(low)'>>)
      BY <2>1, <3>1 DEF Entered
    <3>3. NotAfter(<<h, Flip(low)'>>, Up(reg))
      BY <3>1, <1>r, NotAfterItself
    <3>4. Flip(high) <= h
      BY <2>1 DEF HighRead
    <3> QED BY <3>1, <3>2, <3>3, <3>4, <2>3 DEF LowRead
  <2> QED BY <2>1, <2>2, <2>4, <2>5 DEF ReadIsCurrent
<1>4. CASE ReadTemp
  <2>1. /\ step = "temp" /\ step' = IF reg[1] = high THEN "got" ELSE "high"
        /\ UNCHANGED <<down, reg, high, low, entered>>
    BY <1>4 DEF ReadTemp, Works, timer
  <2>2. Typed'
    BY <2>1 DEF Typed
  <2>3. /\ Up(entered)' = Up(entered) /\ Up(reg)' = Up(reg)
        /\ Up(<<high, low>>)' = Up(<<high, low>>)
    BY <2>1 DEF Up
  <2>4. Entered'
    BY <2>1, <2>3 DEF Entered
  <2>5. ReadIsCurrent'
    <3> SUFFICES ASSUME reg[1] = high PROVE ReadIsCurrent'
      BY <2>1 DEF ReadIsCurrent
    <3>1. PICK h \in Register : /\ NotAfter(Up(entered), <<h, Flip(low)>>)
                                /\ NotAfter(<<h, Flip(low)>>, Up(reg))
                                /\ Flip(high) <= h
      BY <2>1 DEF LowRead
    <3>2. Up(reg)[1] = Flip(high)
      BY UpFlips DEF Typed
    <3>3. h <= Up(reg)[1]
      BY <3>1, <1>r, <1>f DEF NotAfter, Register
    <3>4. h = Flip(high)
      BY <3>1, <3>2, <3>3, <1>f DEF Register
    <3>5. Up(<<high, low>>) = <<h, Flip(low)>>
      BY <3>4 DEF Up, Flip
    <3> QED BY <3>1, <3>5, <2>3 DEF ReadIsCurrent
  <2> QED BY <2>1, <2>2, <2>4, <2>5 DEF HighRead, LowRead
<1>5. ASSUME \/ ReturnTick \/ DelayFrom \/ DelayNow \/ WaitFrom \/ WaitNow \/ Calls
      PROVE ReadInv'
  <2>1. /\ UNCHANGED timer
        /\ high' = 0 /\ low' = 0
        /\ \/ step' = "none" /\ entered' = <<0, 0>>
           \/ step' = "high" /\ entered' = reg
    BY <1>5 DEF ReturnTick, DelayFrom, DelayNow, WaitFrom, WaitNow, Calls, Call,
                Works, Return, GetCount
  <2> QED BY <2>1, <1>z, Afresh
<1>6. CASE UNCHANGED timerVars
  BY <1>6 DEF timerVars, timer, Typed, Entered, HighRead, LowRead, ReadIsCurrent, Up, Flip
<1> QED BY <1>1, <1>2, <1>3, <1>4, <1>5, <1>6 DEF TimerNext, CPU

-----------------------------------------------------------------------------
(* The callers: a delay is long enough, a tick is of its moment, a timeout *)
(* is not early.                                                           *)

LEMMA TimesMore == ASSUME NEW a \in Nat, NEW b \in Nat, NEW n \in Nat, a <= b
                   PROVE  a * n <= b * n
<1>1. PICK k \in Nat : b = a + k
  BY b - a \in Nat
<1>2. b * n = a * n + k * n /\ k * n \in Nat /\ a * n \in Nat
  BY <1>1
<1> QED BY <1>2

LEMMA NumberType == ASSUME NEW r \in Register \X Register
                    PROVE  Number(r) \in Nat /\ Number(r) < Half * Half
<1>1. r[1] \in Nat /\ r[2] \in Nat /\ r[1] + 1 <= Half /\ r[2] < Half /\ Half \in Nat
  BY HalfAssumption DEF Register
<1>2. (r[1] + 1) * Half <= Half * Half
  BY <1>1, TimesMore
<1>3. (r[1] + 1) * Half = r[1] * Half + Half /\ r[1] * Half \in Nat
  BY <1>1
<1> QED BY <1>1, <1>2, <1>3 DEF Number

LEMMA NumberGrows ==
    ASSUME NEW r \in Register \X Register, NEW s \in Register \X Register, NotAfter(r, s)
    PROVE  Number(r) <= Number(s)
<1>1. /\ r[1] \in Nat /\ r[2] \in Nat /\ s[1] \in Nat /\ s[2] \in Nat
      /\ r[2] < Half /\ Half \in Nat
  BY HalfAssumption DEF Register
<1>2. CASE r[1] < s[1]
  <2>1. (r[1] + 1) * Half <= s[1] * Half
    BY <1>1, <1>2, TimesMore
  <2>2. (r[1] + 1) * Half = r[1] * Half + Half /\ r[1] * Half \in Nat /\ s[1] * Half \in Nat
    BY <1>1
  <2> QED BY <1>1, <2>1, <2>2 DEF Number
<1>3. CASE r[1] = s[1] /\ r[2] <= s[2]
  BY <1>1, <1>3 DEF Number
<1> QED BY <1>2, <1>3 DEF NotAfter

\* Counting down, the timer shows what is left of its 64 bits.
Mirror(n) == IF down THEN Half * Half - 1 - n ELSE n

LEMMA TimeIs == ASSUME Typed, NEW r \in Register \X Register
                PROVE  /\ Time(r) = Mirror(Number(r)) /\ Number(r) = Mirror(Time(r))
                       /\ Time(r) \in Nat /\ Time(r) < Half * Half
<1>1. Number(Up(r)) \in Nat /\ Number(Up(r)) < Half * Half
  BY UpFlips, NumberType
<1>2. Number(r) \in Nat
  BY NumberType
<1>3. r[1] \in Int /\ r[2] \in Int /\ Half \in Int
  BY HalfAssumption DEF Register
<1>4. Half * Half \in Int
  BY <1>3
<1>5. CASE down
  <2>1. Number(Up(r)) = (Half - 1 - r[1]) * Half + (Half - 1 - r[2])
    BY <1>5 DEF Up, Number
  <2>2. (Half - 1 - r[1]) * Half + (Half - 1 - r[2]) = Half * Half - 1 - (r[1] * Half + r[2])
    BY <1>3
  <2>3. Number(r) = r[1] * Half + r[2]
    BY DEF Number
  <2> QED BY <1>1, <1>2, <1>4, <1>5, <2>1, <2>2, <2>3 DEF Time, Mirror
<1>6. CASE ~down
  BY <1>1, <1>6 DEF Up, Time, Mirror
<1> QED BY <1>5, <1>6 DEF Typed

-----------------------------------------------------------------------------
\* What a call has measured: the moment from which it measures lies between
\* the call's beginning, after the delays it has been through, and the
\* beginning of the count under way.
Waited == rounds * (PerUs * arg)

CallTyped == /\ op \in {"none", "tick", "delay", "wait"} /\ stage \in {"from", "now"}
             /\ arg \in Nat /\ ms \in Nat /\ rounds \in Nat /\ from \in Nat
             /\ began \in Register \X Register /\ since \in Nat

Since(t) == Time(began) + Waited <= t /\ t <= Time(entered)

CallBegan == /\ op = "none" <=> step = "none"
             /\ op # "none" => Time(began) <= Time(entered)
             /\ op \in {"tick", "wait"} => rounds = 0

Delaying ==
    op = "delay" =>
        /\ <<ms, arg>> \in Delays
        /\ stage = "from" => Since(Time(entered))
        /\ stage = "now" => \E t \in Nat : from = Mirror(t) /\ Since(t)

Waiting ==
    op = "wait" =>
        /\ arg \in Timeouts
        /\ stage = "now" => \E t \in Nat : from = (t \div PerMs) % Half /\ Since(t)

CallInv == /\ CallTyped /\ CallBegan /\ Delaying /\ Waiting
           /\ op \in {"none", "wait"} => from \in Register

TimerInv == ReadInv /\ CallInv /\ Time(reg) <= LastTick

\* What HAL_TIMER_GetCount returns: the number of a moment of the call.
LEMMA CountOf ==
    ASSUME ReadInv, step = "got", Time(reg) <= LastTick, Rates
    PROVE  \E t \in Nat : /\ Count = Mirror(t)
                          /\ Time(entered) <= t /\ t <= Time(reg)
<1> DEFINE c == <<high, low>>
           t == Time(c)
<1>1. Typed /\ c \in Register \X Register /\ entered \in Register \X Register /\ reg \in Register \X Register
  BY DEF ReadInv, Typed
<1>2. Number(c) = Mirror(t) /\ t \in Nat
  BY <1>1, TimeIs
<1>3. NotAfter(Up(entered), Up(c)) /\ NotAfter(Up(c), Up(reg))
  BY DEF ReadInv, ReadIsCurrent
<1>4. Up(entered) \in Register \X Register /\ Up(c) \in Register \X Register /\ Up(reg) \in Register \X Register
  BY <1>1, UpFlips
<1>5. Time(entered) <= t /\ t <= Time(reg)
  BY <1>3, <1>4, NumberGrows DEF Time
<1> QED BY <1>2, <1>5 DEF Count

\* In the first quarter GetSysTimerCount finds out which way it counts.
LEMMA Unmirrored ==
    ASSUME Typed, Rates, NEW t \in Nat, t <= LastTick, Count = Mirror(t)
    PROVE  GetSysTimerCount = t
<1> DEFINE HH == Half * Half
<1>1. Half \in Nat /\ Half >= 2
  BY HalfAssumption
<1>2. HH \in Nat /\ HH >= 4
  <2>1. 2 * Half <= Half * Half
    BY <1>1, TimesMore
  <2> QED BY <1>1, <2>1
<1>3. 4 * t < HH
  BY <1>1 DEF Rates
<1> HIDE DEF HH
<1>4. CASE down
  BY <1>2, <1>3, <1>4 DEF Mirror, GetSysTimerCount, HH
<1>5. CASE ~down
  BY <1>2, <1>3, <1>5 DEF Mirror, GetSysTimerCount, HH
<1> QED BY <1>4, <1>5 DEF Typed

LEMMA DivMod ==
  ASSUME NEW k \in Nat, NEW d \in Nat \ {0}
  PROVE  /\ k \div d \in Nat /\ k % d \in 0..(d - 1)
         /\ k = d * (k \div d) + (k % d)
<1>1. k \div d \in Int /\ k % d \in 0..(d - 1) /\ k = d * (k \div d) + (k % d)
  OBVIOUS
<1>2. k \div d >= 0
  OBVIOUS
<1> QED BY <1>1, <1>2

LEMMA ModOf ==
  ASSUME NEW q \in Nat, NEW d \in Nat \ {0}, NEW r \in 0..(d - 1)
  PROVE  (d * q + r) % d = r
<1> DEFINE k == d * q + r
           p == k \div d
           e == k % d
<1>0. k \in Nat
  OBVIOUS
<1>1. p \in Nat /\ e \in 0..(d - 1) /\ k = d * p + e
  BY <1>0, DivMod
<1> HIDE DEF p, e
<1>2. ~(p + 1 <= q)
  <2> SUFFICES ASSUME p + 1 <= q PROVE FALSE
    OBVIOUS
  <2>1. (p + 1) * d <= q * d
    BY <1>1, TimesMore
  <2>2. (p + 1) * d = d * p + d /\ q * d = d * q
    BY <1>1
  <2> QED BY <1>1, <2>1, <2>2
<1>3. ~(q + 1 <= p)
  <2> SUFFICES ASSUME q + 1 <= p PROVE FALSE
    OBVIOUS
  <2>1. (q + 1) * d <= p * d
    BY <1>1, TimesMore
  <2>2. (q + 1) * d = d * q + d /\ p * d = d * p
    BY <1>1
  <2> QED BY <1>1, <2>1, <2>2
<1>4. p = q
  BY <1>1, <1>2, <1>3
<1>5. e = r
  BY <1>1, <1>4
<1> QED BY <1>5 DEF e

\* Two ticks apart by less than the counter's width, as HAL_GetTick shows them.
LEMMA Apart ==
    ASSUME NEW a \in Nat, NEW b \in Nat, b <= a, NEW n \in Nat \ {0}
    PROVE  (n + (a % n) - (b % n)) % n <= a - b
<1> DEFINE qa == a \div n
           ra == a % n
           qb == b \div n
           rb == b % n
<1>1. qa \in Nat /\ ra \in 0..(n - 1) /\ a = n * qa + ra
  BY DivMod
<1>2. qb \in Nat /\ rb \in 0..(n - 1) /\ b = n * qb + rb
  BY DivMod
<1> HIDE DEF qa, ra, qb, rb
<1>3. CASE ra >= rb
  <2>1. qb <= qa
    <3> SUFFICES ASSUME qa + 1 <= qb PROVE FALSE
      BY <1>1, <1>2
    <3>1. (qa + 1) * n <= qb * n
      BY <1>1, <1>2, TimesMore
    <3>2. (qa + 1) * n = n * qa + n /\ qb * n = n * qb
      BY <1>1, <1>2
    <3> QED BY <1>1, <1>2, <3>1, <3>2
  <2>2. n * qb <= n * qa
    BY <1>1, <1>2, <2>1, TimesMore
  <2>3. ra - rb \in 0..(n - 1)
    BY <1>1, <1>2, <1>3
  <2>4. (n + ra - rb) % n = ra - rb
    <3>1. (n * 1 + (ra - rb)) % n = ra - rb
      BY <2>3, ModOf
    <3>2. n * 1 + (ra - rb) = n + ra - rb
      BY <1>1, <1>2
    <3> QED BY <3>1, <3>2
  <2> QED BY <1>1, <1>2, <2>2, <2>4 DEF ra, rb
<1>4. CASE ra < rb
  <2>1. qb + 1 <= qa
    <3> SUFFICES ASSUME qa <= qb PROVE FALSE
      BY <1>1, <1>2
    <3>1. qa * n <= qb * n
      BY <1>1, <1>2, TimesMore
    <3>2. qa * n = n * qa /\ qb * n = n * qb
      BY <1>1, <1>2
    <3> QED BY <1>1, <1>2, <1>4, <3>1, <3>2
  <2>2. (qb + 1) * n <= qa * n
    BY <1>1, <1>2, <2>1, TimesMore
  <2>3. (qb + 1) * n = n * qb + n /\ qa * n = n * qa
    BY <1>1, <1>2
  <2>4. (n + ra - rb) \in 0..(n - 1)
    BY <1>1, <1>2, <1>4
  <2>5. (n + ra - rb) % n = n + ra - rb
    <3> DEFINE r == n + ra - rb
    <3>1. (n * 0 + r) % n = r
      BY <2>4, ModOf
    <3>2. n * 0 + r = r
      BY <2>4
    <3> QED BY <3>1, <3>2
  <2> QED BY <1>1, <1>2, <2>2, <2>3, <2>5 DEF ra, rb
<1> QED BY <1>1, <1>2, <1>3, <1>4

\* Moments in order have their milliseconds in order; some ticks apart they are
\* that many milliseconds apart.
LEMMA MsApart ==
    ASSUME NEW s \in Nat, NEW t \in Nat, s <= t, NEW p \in Nat \ {0}
    PROVE  /\ s \div p \in Nat /\ t \div p \in Nat /\ s \div p <= t \div p
           /\ \A n \in Nat : t \div p - s \div p > n => s + n * p <= t
<1> DEFINE qs == s \div p
           rs == s % p
           qt == t \div p
           rt == t % p
<1>1. qs \in Nat /\ rs \in 0..(p - 1) /\ s = p * qs + rs
  BY DivMod
<1>2. qt \in Nat /\ rt \in 0..(p - 1) /\ t = p * qt + rt
  BY DivMod
<1> HIDE DEF qs, rs, qt, rt
<1>3. qs <= qt
  <2> SUFFICES ASSUME qt + 1 <= qs PROVE FALSE
    BY <1>1, <1>2
  <2>1. (qt + 1) * p <= qs * p
    BY <1>1, <1>2, TimesMore
  <2>2. (qt + 1) * p = p * qt + p /\ qs * p = p * qs
    BY <1>1, <1>2
  <2> QED BY <1>1, <1>2, <2>1, <2>2
<1>4. ASSUME NEW n \in Nat, qt - qs > n PROVE s + n * p <= t
  <2>1. (qs + (n + 1)) * p <= qt * p
    BY <1>1, <1>2, <1>4, TimesMore
  <2>2. (qs + (n + 1)) * p = p * qs + n * p + p /\ qt * p = p * qt /\ n * p \in Nat
    BY <1>1, <1>2, <1>4
  <2> QED BY <1>1, <1>2, <2>1, <2>2
<1> QED BY <1>1, <1>2, <1>3, <1>4 DEF qs, qt

-----------------------------------------------------------------------------
LEMMA TickOne == ASSUME Typed, Tick PROVE Time(reg)' = Time(reg) + 1
<1> DEFINE u == Up(reg)
           next == IF u[2] + 1 < Half THEN <<u[1], u[2] + 1>> ELSE <<u[1] + 1, 0>>
<1>1. u \in Register \X Register
  BY UpFlips DEF Typed
<1>2. next[1] < Half /\ reg' = Up(next) /\ down' = down
  BY DEF Tick
<1>3. u[1] \in Nat /\ u[2] \in Nat /\ u[2] < Half /\ Half \in Nat
  BY <1>1, HalfAssumption DEF Register
<1>4. next \in Register \X Register
  BY <1>1, <1>2, <1>3 DEF Register
<1>5. Up(reg)' = next
  BY <1>2, <1>4, UpBack DEF Up
<1>6. CASE u[2] + 1 < Half
  <2>1. next = <<u[1], u[2] + 1>>
    BY <1>6
  <2> QED BY <1>3, <1>5, <2>1 DEF Time, Number
<1>7. CASE ~(u[2] + 1 < Half)
  <2>1. next = <<u[1] + 1, 0>> /\ u[2] = Half - 1
    BY <1>3, <1>7
  <2>2. (u[1] + 1) * Half = u[1] * Half + Half
    BY <1>3
  <2> QED BY <1>3, <1>5, <2>1, <2>2 DEF Time, Number
<1> QED BY <1>6, <1>7

\* A step that leaves the call alone.
LEMMA CallStill ==
    ASSUME CallInv, UNCHANGED <<down, entered, call>>, since' \in Nat,
           (step' = "none") <=> (step = "none")
    PROVE  CallInv'
<1>1. UNCHANGED <<op, arg, ms, rounds, stage, from, began, down, entered>>
  BY DEF call
<1>2. /\ Time(began)' = Time(began) /\ Time(entered)' = Time(entered) /\ Waited' = Waited
      /\ \A t : Mirror(t)' = Mirror(t)
      /\ \A t : Since(t)' = Since(t)
  BY <1>1 DEF Time, Up, Mirror, Waited, Since
<1>3. CallTyped' /\ CallBegan'
  BY <1>1, <1>2 DEF CallInv, CallTyped, CallBegan
<1>4. Delaying'
  BY <1>1, <1>2 DEF CallInv, Delaying
<1>5. Waiting'
  BY <1>1, <1>2 DEF CallInv, Waiting
<1> QED BY <1>1, <1>3, <1>4, <1>5 DEF CallInv

LEMMA ReturnInv == ASSUME NEW r, Works, Return(r) PROVE CallInv'
<1>1. 0 \in Register /\ 0 \in Nat
  BY HalfAssumption DEF Register
<1> QED BY <1>1 DEF Works, Return, CallInv, CallTyped, CallBegan, Delaying, Waiting

LEMMA CallBegins ==
    ASSUME ReadInv, Rates, NEW o \in {"tick", "delay", "wait"}, NEW n \in Nat, NEW a \in Nat,
           Call(o, n, a), o = "delay" => <<n, a>> \in Delays, o = "wait" => a \in Timeouts,
           from \in Register
    PROVE  CallInv'
<1>1. /\ op' = o /\ ms' = n /\ arg' = a /\ rounds' = 0 /\ stage' = "from"
      /\ began' = reg /\ entered' = reg /\ step' = "high" /\ reg' = reg /\ since' = 0 /\ from' = from
      /\ down' = down
  BY DEF Call, Works, GetCount, timer
<1>2. PerUs * a \in Nat
  BY DEF Rates
<1>3. Waited' = 0 /\ reg \in Register \X Register
  BY <1>1, <1>2 DEF Waited, ReadInv, Typed
<1>4. Time(began)' = Time(entered)' /\ Time(entered)' \in Nat
  <2>1. Time(entered)' = Time(reg)
    BY <1>1 DEF Time, Up
  <2>2. Time(began)' = Time(reg)
    BY <1>1 DEF Time, Up
  <2> QED BY <2>1, <2>2, <1>3, TimeIs DEF ReadInv
<1>5. CallTyped' /\ CallBegan'
  BY <1>1, <1>3, <1>4, HalfAssumption DEF CallTyped, CallBegan, Register
<1>6. Since(Time(entered))'
  BY <1>3, <1>4 DEF Since
<1>7. Delaying' /\ Waiting'
  BY <1>1, <1>6 DEF Delaying, Waiting
<1> QED BY <1>1, <1>5, <1>7 DEF CallInv

\* The product of TimerDelayUs is what was asked for.
LEMMA WantedAsked ==
    ASSUME Rates, <<ms, arg>> \in Delays
    PROVE  Wanted = PerUs * arg /\ Wanted \in Nat /\ arg \in Nat /\ ms \in Nat
<1>1. arg \in Nat /\ ms \in Nat /\ PerUs \in Nat /\ PerUs * arg < Half
  BY DEF Rates
<1>2. PerUs * arg \in 0..(Half - 1) /\ Half \in Nat \ {0}
  BY <1>1, HalfAssumption
<1>3. (Half * 0 + PerUs * arg) % Half = PerUs * arg
  BY <1>2, ModOf
<1>4. Half * 0 + PerUs * arg = PerUs * arg
  BY <1>2
<1> QED BY <1>1, <1>2, <1>3, <1>4 DEF Wanted

\* The distance between two counts is that of their moments, whichever way the
\* timer counts.
LEMMA PassIs ==
    ASSUME Typed, NEW s \in Nat, NEW t \in Nat, s <= t, t < Half * Half, from = Mirror(s)
    PROVE  Pass(Mirror(t)) = t - s
<1>1. Half * Half \in Nat
  BY HalfAssumption
<1>2. CASE down
  <2>1. from = Half * Half - 1 - s /\ Mirror(t) = Half * Half - 1 - t
    BY <1>2 DEF Mirror
  <2> QED BY <1>1, <2>1 DEF Pass
<1>3. CASE ~down
  BY <1>3 DEF Pass, Mirror
<1> QED BY <1>2, <1>3 DEF Typed

\* A delay that has passed is one more that was waited for.
LEMMA DelayPassed ==
    ASSUME TimerInv, Rates, op = "delay", stage = "now", step = "got", Pass(Count) >= Wanted
    PROVE  Time(began) + (rounds + 1) * (PerUs * arg) <= Time(reg)
<1>1. PICK t \in Nat : Count = Mirror(t) /\ Time(entered) <= t /\ t <= Time(reg)
  BY CountOf DEF TimerInv
<1>2. PICK s \in Nat : from = Mirror(s) /\ Since(s)
  BY DEF TimerInv, CallInv, Delaying
<1>3. /\ Time(reg) \in Nat /\ Time(reg) < Half * Half /\ Time(entered) \in Nat
      /\ Time(began) \in Nat /\ Half * Half \in Nat
  BY TimeIs, HalfAssumption DEF TimerInv, ReadInv, CallInv, CallTyped, Typed
<1>4. <<ms, arg>> \in Delays /\ rounds \in Nat
  BY DEF TimerInv, CallInv, Delaying, CallTyped
<1>5. Wanted = PerUs * arg /\ Wanted \in Nat
  BY <1>4, WantedAsked
<1>6. s <= t /\ Time(began) + rounds * Wanted <= s
  BY <1>1, <1>2, <1>3, <1>5 DEF Since, Waited
<1>7. Pass(Count) = t - s
  BY <1>1, <1>2, <1>3, <1>6, PassIs DEF TimerInv, ReadInv
<1>8. (rounds + 1) * Wanted = rounds * Wanted + Wanted /\ rounds * Wanted \in Nat
  BY <1>4, <1>5
<1> QED BY <1>1, <1>3, <1>5, <1>6, <1>7, <1>8

LEMMA DelayInv == ASSUME TimerInv, Rates, DelayFrom \/ DelayNow PROVE CallInv'
<1> USE DEF TimerInv
<1>0. op = "delay" /\ step = "got" /\ Works /\ CallTyped /\ Typed /\ CallBegan /\ Delaying
  BY DEF DelayFrom, DelayNow, CallInv, ReadInv
<1>1. CASE \E r : Return(r)
  BY <1>0, <1>1, ReturnInv
<1>2. CASE /\ GetCount /\ UNCHANGED <<op, arg, ms, began>>
           /\ \/ stage' = "from" /\ from' = from /\ rounds' = rounds + 1 /\ Pass(Count) >= Wanted /\ stage = "now"
              \/ stage' = "now" /\ from' = Count /\ rounds' = rounds /\ stage = "from"
              \/ stage' = "now" /\ from' = from /\ rounds' = rounds /\ stage = "now"
  <2>1. /\ down' = down /\ reg' = reg /\ since' = 0 /\ step' = "high" /\ entered' = reg
        /\ UNCHANGED <<op, arg, ms, began>> /\ op = "delay"
    BY <1>0, <1>2 DEF Works, timer, GetCount
  <2>2. /\ Time(began)' = Time(began) /\ Time(entered)' = Time(reg)
        /\ \A t : Mirror(t)' = Mirror(t)
    BY <2>1 DEF Time, Up, Mirror
  <2>3. /\ Time(reg) \in Nat /\ Time(reg) < Half * Half /\ Time(entered) \in Nat
        /\ Time(began) \in Nat /\ Half * Half \in Nat
    BY <1>0, TimeIs, HalfAssumption DEF CallTyped, Typed
  <2>4. Time(entered) <= Time(reg) /\ Time(began) <= Time(entered)
    <3>1. PICK t \in Nat : Time(entered) <= t /\ t <= Time(reg)
      BY <1>0, CountOf
    <3> QED BY <1>0, <2>3, <3>1 DEF CallBegan
  <2>5. rounds * (PerUs * arg) \in Nat /\ <<ms, arg>> \in Delays /\ rounds \in Nat
    <3>1. <<ms, arg>> \in Delays /\ rounds \in Nat
      BY <1>0 DEF Delaying, CallTyped
    <3>2. PerUs * arg \in Nat
      BY <3>1, WantedAsked
    <3> QED BY <3>1, <3>2
  <2>6. CallTyped' /\ CallBegan' /\ Delaying'
    <3>1. CASE stage' = "from" /\ from' = from /\ rounds' = rounds + 1 /\ Pass(Count) >= Wanted /\ stage = "now"
      <4>1. Time(began) + (rounds + 1) * (PerUs * arg) <= Time(reg)
        BY <1>0, <3>1, DelayPassed
      <4>2. Since(Time(entered))'
        BY <2>1, <2>2, <2>3, <3>1, <4>1 DEF Since, Waited
      <4> QED BY <1>0, <2>1, <2>2, <2>3, <2>4, <2>5, <3>1, <4>2 DEF CallTyped, CallBegan, Delaying
    <3>2. CASE stage' = "now" /\ from' = Count /\ rounds' = rounds /\ stage = "from"
      <4>1. PICK t \in Nat : Count = Mirror(t) /\ Time(entered) <= t /\ t <= Time(reg)
        BY <1>0, CountOf
      <4>2. Since(Time(entered))
        BY <1>0, <3>2 DEF Delaying
      <4>3. Time(began) + rounds * (PerUs * arg) <= t
        BY <2>3, <2>5, <4>1, <4>2 DEF Since, Waited
      <4>4. Since(t)' /\ from' = Mirror(t)'
        BY <2>1, <2>2, <3>2, <4>1, <4>3 DEF Since, Waited
      <4>5. from' \in Nat
        BY <2>3, <3>2, <4>1 DEF Mirror
      <4> QED BY <1>0, <2>1, <2>2, <2>3, <2>4, <2>5, <3>2, <4>4, <4>5 DEF CallTyped, CallBegan, Delaying
    <3>3. CASE stage' = "now" /\ from' = from /\ rounds' = rounds /\ stage = "now"
      <4>1. PICK t \in Nat : from = Mirror(t) /\ Since(t)
        BY <1>0, <3>3 DEF Delaying
      <4>2. Since(t)' /\ from' = Mirror(t)'
        BY <2>1, <2>2, <2>3, <2>4, <2>5, <3>3, <4>1 DEF Since, Waited
      <4> QED BY <1>0, <2>1, <2>2, <2>3, <2>4, <2>5, <3>3, <4>2 DEF CallTyped, CallBegan, Delaying
    <3> QED BY <1>2, <3>1, <3>2, <3>3
  <2> QED BY <2>1, <2>6 DEF CallInv, Waiting
<1> QED BY <1>1, <1>2 DEF DelayFrom, DelayNow, call

\* What HAL_GetTick returns: the milliseconds of a moment of the call.
LEMMA TickOf ==
    ASSUME TimerInv, Rates, step = "got"
    PROVE  \E t \in Nat : /\ GetTick = (t \div PerMs) % Half /\ GetTick \in Register
                          /\ Time(entered) <= t /\ t <= Time(reg)
<1>1. PICK t \in Nat : Count = Mirror(t) /\ Time(entered) <= t /\ t <= Time(reg)
  BY CountOf DEF TimerInv
<1>2. Time(reg) \in Nat /\ Time(reg) <= LastTick /\ LastTick \in Nat
  BY TimeIs DEF TimerInv, ReadInv, Typed, Rates
<1>3. GetSysTimerCount = t
  BY <1>1, <1>2, Unmirrored DEF TimerInv, ReadInv
<1>4. t \div PerMs \in Nat
  BY DivMod DEF Rates
<1>5. (t \div PerMs) % Half \in 0..(Half - 1)
  BY <1>4, HalfAssumption, DivMod
<1> QED BY <1>1, <1>3, <1>5 DEF GetTick, Register

LEMMA WaitInv == ASSUME TimerInv, Rates, WaitFrom \/ WaitNow PROVE CallInv'
<1> USE DEF TimerInv
<1>0. op = "wait" /\ step = "got" /\ Works /\ CallTyped /\ Typed /\ CallBegan /\ Waiting /\ from \in Register
  BY DEF WaitFrom, WaitNow, CallInv, ReadInv
<1>1. CASE \E r : Return(r)
  BY <1>0, <1>1, ReturnInv
<1>2. CASE /\ GetCount /\ UNCHANGED <<op, arg, ms, rounds, began>> /\ stage' = "now"
           /\ \/ from' = GetTick
              \/ from' = from /\ stage = "now"
  <2>1. /\ down' = down /\ reg' = reg /\ since' = 0 /\ step' = "high" /\ entered' = reg
        /\ UNCHANGED <<op, arg, ms, rounds, began>> /\ op = "wait" /\ stage' = "now"
    BY <1>0, <1>2 DEF Works, timer, GetCount
  <2>2. Time(began)' = Time(began) /\ Time(entered)' = Time(reg) /\ Waited' = Waited
    BY <2>1 DEF Time, Up, Waited
  <2>3. Time(reg) \in Nat /\ Time(entered) \in Nat /\ Time(began) \in Nat
    BY <1>0, TimeIs DEF CallTyped, Typed
  <2>4. PICK u \in Nat : /\ GetTick = (u \div PerMs) % Half /\ GetTick \in Register
                         /\ Time(entered) <= u /\ u <= Time(reg)
    BY <1>0, TickOf
  <2>5. Time(began) <= u /\ Waited = 0
    <3>1. rounds = 0 /\ Time(began) <= Time(entered) /\ arg \in Nat /\ PerUs \in Nat
      BY <1>0 DEF CallBegan, CallTyped, Rates
    <3>2. PerUs * arg \in Nat
      BY <3>1
    <3> QED BY <2>3, <2>4, <3>1, <3>2 DEF Waited
  <2>6. \E t \in Nat : from' = (t \div PerMs) % Half /\ Since(t)'
    <3>1. CASE from' = GetTick
      BY <2>2, <2>3, <2>4, <2>5, <3>1 DEF Since
    <3>2. CASE from' = from /\ stage = "now"
      <4>1. PICK t \in Nat : from = (t \div PerMs) % Half /\ Since(t)
        BY <1>0, <3>2 DEF Waiting
      <4>2. Since(t)'
        BY <2>2, <2>3, <2>4, <2>5, <4>1 DEF Since
      <4> QED BY <3>2, <4>1, <4>2
    <3> QED BY <1>2, <3>1, <3>2
  <2>7. from' \in Register /\ from' \in Nat
    BY <1>0, <1>2, <2>4, HalfAssumption DEF Register
  <2>8. CallTyped' /\ CallBegan'
    BY <1>0, <2>1, <2>2, <2>3, <2>4, <2>5, <2>7 DEF CallTyped, CallBegan
  <2>9. Waiting' /\ Delaying'
    BY <1>0, <2>1, <2>6 DEF Waiting, Delaying
  <2> QED BY <2>7, <2>8, <2>9 DEF CallInv
<1> QED BY <1>1, <1>2 DEF WaitFrom, WaitNow, call

LEMMA TimerInitInv == ASSUME Rates, TimerInit PROVE TimerInv
<1>1. ReadInv
  BY ReadInit
<1>2. PICK s \in Starts : reg = Up(s)
  BY DEF TimerInit
<1>3. s \in Register \X Register /\ Number(s) <= LastTick
  BY StartsAssumption DEF Register, Rates
<1>4. Time(reg) <= LastTick
  BY <1>1, <1>2, <1>3, UpBack DEF Time, ReadInv
<1>5. 0 \in Register /\ 0 \in Nat
  BY HalfAssumption DEF Register
<1>6. CallInv
  BY <1>5 DEF TimerInit, CallInv, CallTyped, CallBegan, Delaying, Waiting
<1> QED BY <1>1, <1>4, <1>6 DEF TimerInv

LEMMA TimerNextInv == ASSUME Rates, TimerInv, [TimerNext]_timerVars PROVE TimerInv'
<1> USE DEF TimerInv
<1>1. ReadInv'
  BY ReadNext
<1>2. CASE Tick
  <2>1. Time(reg)' = Time(reg) + 1 /\ Time(reg) < LastTick /\ Time(reg) \in Nat
    BY <1>2, TickOne, TimeIs DEF ReadInv, Typed, Tick
  <2>2. CallInv'
    BY <1>2, CallStill DEF Tick, CallInv, CallTyped
  <2> QED BY <1>1, <2>1, <2>2 DEF Rates
<1>3. CASE ~Tick
  <2>1. Time(reg)' = Time(reg)
    <3>1. UNCHANGED timer
      BY <1>3 DEF TimerNext, CPU, ReadHigh, ReadLow, ReadTemp, ReturnTick, DelayFrom, DelayNow,
                  WaitFrom, WaitNow, Calls, Call, Works, timerVars
    <3> QED BY <3>1 DEF timer, Time, Up
  <2>2. CASE ReadHigh \/ ReadLow \/ ReadTemp \/ UNCHANGED timerVars
    <3>1. /\ UNCHANGED <<down, entered, call>> /\ since' \in Nat
          /\ (step' = "none") <=> (step = "none")
      BY <2>2 DEF ReadHigh, ReadLow, ReadTemp, timerVars, timer, Works, CallInv, CallTyped
    <3>2. CallInv'
      BY <3>1, CallStill
    <3> QED BY <1>1, <2>1, <3>2
  <2>3. CASE ReturnTick
    BY <1>1, <2>1, <2>3, ReturnInv DEF ReturnTick
  <2>4. CASE DelayFrom \/ DelayNow
    BY <1>1, <2>1, <2>4, DelayInv
  <2>5. CASE WaitFrom \/ WaitNow
    BY <1>1, <2>1, <2>5, WaitInv
  <2>6. CASE Calls
    <3>0. op = "none" /\ from \in Register
      BY <2>6 DEF Calls, Call, CallInv
    <3>1. ASSUME Call("tick", 1, 0) PROVE CallInv'
      BY <3>0, <3>1, CallBegins
    <3>2. ASSUME NEW d \in Delays, Call("delay", d[1], d[2]) PROVE CallInv'
      <4>1. d[1] \in Nat /\ d[2] \in Nat /\ <<d[1], d[2]>> \in Delays
        BY DEF Rates
      <4> QED BY <3>0, <3>2, <4>1, CallBegins
    <3>3. ASSUME NEW t \in Timeouts, Call("wait", 1, t) PROVE CallInv'
      <4>1. t \in Nat
        BY DEF Rates
      <4> QED BY <3>0, <3>3, <4>1, CallBegins
    <3> QED BY <1>1, <2>1, <2>6, <3>1, <3>2, <3>3 DEF Calls
  <2> QED BY <1>3, <2>2, <2>3, <2>4, <2>5, <2>6 DEF TimerNext, CPU
<1> QED BY <1>2, <1>3

LEMMA TimerIsTyped == TimerInv => TimerTypeOK
<1> QED BY DEF TimerInv, ReadInv, CallInv, CallTyped, Typed, TimerTypeOK

-----------------------------------------------------------------------------
\* The promises about time, of one step.
DelayLong == result' = <<"delay">> /\ op = "delay" /\ op' = "none" =>
                 Time(reg) >= Time(began) + ms * PerUs * arg
TickCurrent == op = "tick" /\ op' = "none" =>
    \E t \in Time(began) .. Time(reg) : result'[2] = (t \div PerMs) % Half
WaitLong == result' = <<"wait", "TIMEOUT">> /\ op = "wait" /\ op' = "none" =>
                Time(reg) >= Time(began) + arg * PerMs

LEMMA DelayStep == ASSUME Rates, TimerInv, [TimerNext]_timerVars PROVE DelayLong
<1> SUFFICES ASSUME result' = <<"delay">>, op = "delay", op' = "none"
             PROVE  Time(reg) >= Time(began) + ms * PerUs * arg
  BY DEF DelayLong
<1>1. DelayNow
  BY DEF TimerNext, CPU, Tick, ReadHigh, ReadLow, ReadTemp, ReturnTick, DelayFrom, WaitFrom,
         WaitNow, Calls, Call, timerVars, call
<1>2. stage = "now" /\ step = "got" /\ Pass(Count) >= Wanted /\ rounds + 1 >= ms
  BY <1>1 DEF DelayNow, call
<1>3. Time(began) + (rounds + 1) * (PerUs * arg) <= Time(reg)
  BY <1>2, DelayPassed
<1>4. /\ ms \in Nat /\ PerUs * arg \in Nat /\ rounds \in Nat /\ PerUs \in Nat /\ arg \in Nat
      /\ Time(began) \in Nat /\ Time(reg) \in Nat
  <2>1. <<ms, arg>> \in Delays /\ rounds \in Nat /\ Typed /\ began \in Register \X Register
    BY DEF TimerInv, CallInv, Delaying, CallTyped, ReadInv
  <2> QED BY <2>1, WantedAsked, TimeIs DEF Rates, Typed
<1>5. ms * (PerUs * arg) <= (rounds + 1) * (PerUs * arg)
  BY <1>2, <1>4, TimesMore
<1>6. ms * PerUs * arg = ms * (PerUs * arg) /\ ms * (PerUs * arg) \in Nat /\ (rounds + 1) * (PerUs * arg) \in Nat
  BY <1>4
<1> QED BY <1>3, <1>4, <1>5, <1>6

LEMMA TickStep == ASSUME Rates, TimerInv, [TimerNext]_timerVars PROVE TickCurrent
<1> SUFFICES ASSUME op = "tick", op' = "none"
             PROVE  \E t \in Time(began) .. Time(reg) : result'[2] = (t \div PerMs) % Half
  BY DEF TickCurrent
<1>1. ReturnTick
  BY DEF TimerNext, CPU, Tick, ReadHigh, ReadLow, ReadTemp, DelayFrom, DelayNow, WaitFrom,
         WaitNow, Calls, Call, timerVars, call
<1>2. step = "got" /\ result' = <<"tick", GetTick>>
  BY <1>1 DEF ReturnTick, Return
<1>3. PICK t \in Nat : /\ GetTick = (t \div PerMs) % Half
                       /\ Time(entered) <= t /\ t <= Time(reg)
  BY <1>2, TickOf
<1>4. Time(began) \in Nat /\ Time(entered) \in Nat /\ Time(reg) \in Nat /\ Time(began) <= Time(entered)
  BY TimeIs DEF TimerInv, CallInv, CallTyped, CallBegan, ReadInv, Typed
<1>5. t \in Time(began) .. Time(reg)
  BY <1>3, <1>4
<1>6. result'[2] = GetTick
  BY <1>2
<1> QED BY <1>3, <1>5, <1>6

LEMMA WaitStep == ASSUME Rates, TimerInv, [TimerNext]_timerVars PROVE WaitLong
<1> SUFFICES ASSUME result' = <<"wait", "TIMEOUT">>, op = "wait", op' = "none"
             PROVE  Time(reg) >= Time(began) + arg * PerMs
  BY DEF WaitLong
<1>1. WaitNow
  BY DEF TimerNext, CPU, Tick, ReadHigh, ReadLow, ReadTemp, ReturnTick, DelayFrom, DelayNow,
         WaitFrom, Calls, Call, timerVars, call
<1>2. stage = "now" /\ step = "got" /\ Expired(GetTick)
  BY <1>1 DEF WaitNow, Return, call
<1>3. PICK t \in Nat : /\ GetTick = (t \div PerMs) % Half
                       /\ Time(entered) <= t /\ t <= Time(reg)
  BY <1>2, TickOf
<1>4. PICK s \in Nat : from = (s \div PerMs) % Half /\ Since(s)
  BY <1>2 DEF TimerInv, CallInv, Waiting
<1>5. /\ Time(began) \in Nat /\ Time(entered) \in Nat /\ Time(reg) \in Nat
      /\ arg \in Nat /\ PerMs \in Nat \ {0} /\ PerUs \in Nat /\ rounds = 0
  BY TimeIs DEF TimerInv, CallInv, CallTyped, CallBegan, ReadInv, Typed, Rates
<1>6. Waited = 0
  <2>1. PerUs * arg \in Nat
    BY <1>5
  <2> QED BY <1>5, <2>1 DEF Waited
<1>7. Time(began) <= s /\ s <= t
  BY <1>3, <1>4, <1>5, <1>6 DEF Since
<1> DEFINE a == t \div PerMs
           b == s \div PerMs
<1>8. a \in Nat /\ b \in Nat /\ b <= a /\ \A n \in Nat : a - b > n => s + n * PerMs <= t
  BY <1>5, <1>7, MsApart
<1> HIDE DEF a, b
<1>9. (Half + (a % Half) - (b % Half)) % Half <= a - b
  BY <1>8, HalfAssumption, Apart
<1>10. (Half + (a % Half) - (b % Half)) % Half > arg
  BY <1>2, <1>3, <1>4 DEF Expired, a, b
<1>11. a - b > arg
  <2>1. a % Half \in 0..(Half - 1) /\ b % Half \in 0..(Half - 1) /\ Half \in Nat \ {0}
    BY <1>8, HalfAssumption, DivMod
  <2>2. Half + (a % Half) - (b % Half) \in Nat
    BY <2>1
  <2>3. (Half + (a % Half) - (b % Half)) % Half \in Nat
    BY <2>1, <2>2, DivMod
  <2> QED BY <1>5, <1>8, <1>9, <1>10, <2>3
<1>12. s + arg * PerMs <= t
  BY <1>5, <1>8, <1>11
<1>13. arg * PerMs \in Nat
  BY <1>5
<1> QED BY <1>3, <1>5, <1>7, <1>12, <1>13

-----------------------------------------------------------------------------
(* The theorems about time.                                                *)

\* Every value HAL_TIMER_GetCount returns is one the timer had during the
\* call, for registers of any width, interruptions of any length and any
\* rates of the timer.
THEOREM CountIsCurrent == TimerSpec => []ReadIsCurrent
<1>1. ReadInv => ReadIsCurrent
  BY DEF ReadInv
<1> QED BY <1>1, ReadInit, ReadNext, PTL DEF TimerSpec

\* HAL_DelayUs and HAL_DelayMs last at least what was asked, HAL_GetTick is of
\* a moment of its call, and no timeout is early, the wrap of the milliseconds
\* included.
THEOREM TimeIsKept ==
  ASSUME Rates
  PROVE  TimerSpec => []TimerTypeOK /\ TimeKept
<1>1. TimerInit => TimerInv
  BY TimerInitInv
<1>2. TimerInv /\ [TimerNext]_timerVars => TimerInv'
  BY TimerNextInv
<1>3. TimerInv /\ [TimerNext]_timerVars => [DelayLong]_timerVars
  BY DelayStep
<1>4. TimerInv /\ [TimerNext]_timerVars => [TickCurrent]_timerVars
  BY TickStep
<1>5. TimerInv /\ [TimerNext]_timerVars => [WaitLong]_timerVars
  BY WaitStep
<1>6. TimerSpec => []TimerInv /\ [][DelayLong]_timerVars /\ [][TickCurrent]_timerVars
                              /\ [][WaitLong]_timerVars
  BY <1>1, <1>2, <1>3, <1>4, <1>5, PTL DEF TimerSpec
<1>7. TimerSpec => []TimerTypeOK
  BY <1>6, TimerIsTyped, PTL
<1>8. TimerSpec => DelayIsLong /\ TickIsCurrent /\ TimeoutNotEarly
  BY <1>6 DEF DelayLong, TickCurrent, WaitLong, DelayIsLong, TickIsCurrent, TimeoutNotEarly
<1> QED BY <1>7, <1>8 DEF TimeKept
-----------------------------------------------------------------------------
(* The GPIO interrupt groups: no edge is lost or called for twice.         *)

H(i) == HwIrq[BankOf[i]]
Looping == {"todo", "save", "eoi", "pend"}
Places == {"idle", "raw", "mask", "group", "clear", "level", "pins", "end"} \union Looping
AllPins == UNION {PinsOf(b) : b \in Banks}
AllGroups == UNION {Groups[b] : b \in Banks}

GpioTyped ==
    /\ edges \in [Banks -> SUBSET EdgePins] /\ pin_high \in [Banks -> SUBSET (AllPins \ EdgePins)]
    /\ mask \in [Banks -> SUBSET AllPins] /\ saved \in [Banks -> SUBSET AllPins]
    /\ soft \subseteq Irqs
    /\ gpio_pc \in [Irqs -> Places]
    /\ raw \in [Irqs -> SUBSET AllPins] /\ act \in [Irqs -> SUBSET AllPins]
    /\ gpio_todo \in [Irqs -> SUBSET AllGroups]
    /\ owed \subseteq Edges /\ unheard \in [Edges -> Int]
    /\ \A b \in Banks : /\ edges[b] \subseteq PinsOf(b)
                        /\ mask[b] \subseteq PinsOf(b) /\ saved[b] \subseteq PinsOf(b)

\* The dispatcher of a bank is at a group, between two of its steps.
AtGroup(i, at) == gpio_pc[H(i)] = at /\ At(H(i), Home[i])
InHand(i) == gpio_pc[H(i)] \in {"save", "eoi", "pend"} /\ At(H(i), Home[i])

\* Only a bank's own interrupt dispatches, and it has groups to dispatch only
\* in its loops.
Loops == \A i \in Irqs :
    /\ gpio_todo[i] \subseteq Groups[BankOf[i]]
    /\ gpio_pc[i] \notin Looping => gpio_todo[i] = {}
    /\ i # H(i) => gpio_pc[i] \notin {"raw", "mask"} \union Looping

\* A group is masked from the dispatcher's step to its handler's end.
MaskKept == \A i \in Irqs :
    /\ Home[i] \in gpio_todo[H(i)] /\ ~InHand(i) => PinsServed[i] \intersect mask[BankOf[i]] = {}
    /\ InHand(i) => /\ PinsServed[i] \subseteq mask[BankOf[i]]
                    /\ i # H(i) => i \notin soft
                    /\ gpio_pc[i] \notin {"group", "clear", "level", "pins"}
    /\ gpio_pc[i] \in {"clear", "level", "pins"} => PinsServed[i] \subseteq mask[BankOf[i]]
    /\ i # H(i) /\ (i \in soft \/ gpio_pc[i] = "group") => PinsServed[i] \subseteq mask[BankOf[i]]
    /\ i # H(i) /\ i \in soft => gpio_pc[i] \in {"idle", "end"}

\* A note stands only for a masked group that has not taken it yet.
Notes == \A i \in Irqs :
    /\ saved[BankOf[i]] \intersect PinsServed[i] # {} =>
           /\ PinsServed[i] \subseteq mask[BankOf[i]]
           /\ gpio_pc[i] \notin {"level", "pins"}
           /\ ~AtGroup(i, "save")
    /\ AtGroup(i, "eoi") => saved[BankOf[i]] \intersect PinsServed[i] = PinsServed[i] \intersect raw[H(i)]
    /\ gpio_pc[i] = "clear" => saved[BankOf[i]] \intersect PinsServed[i] \subseteq act[i]
    /\ act[i] \subseteq PinsServed[i]
    /\ act[i] # {} => gpio_pc[i] \in {"clear", "level", "pins"}

\* What the dispatcher has read of a group's edges is still there.
ReadStill == \A i \in Irqs :
    /\ gpio_pc[H(i)] = "mask" =>
           PinsServed[i] \intersect raw[H(i)] \intersect EdgePins \subseteq edges[BankOf[i]]
    /\ Home[i] \in gpio_todo[H(i)] /\ ~AtGroup(i, "pend") =>
           PinsServed[i] \intersect raw[H(i)] \intersect EdgePins \subseteq edges[BankOf[i]]

\* Every edge that is still to be called for is one that came.
Counted == \A i \in Irqs : \A p \in PinsServed[i] \intersect EdgePins :
    LET n == unheard[<<BankOf[i], p>>]
        noted == p \in saved[BankOf[i]] \union act[i]
    IN /\ n >= 0
       /\ p \in edges[BankOf[i]] \/ noted => n >= 1
       /\ p \in edges[BankOf[i]] /\ noted /\ ~AtGroup(i, "eoi") => n >= 2

GpioInv == GpioTyped /\ Loops /\ MaskKept /\ Notes /\ ReadStill /\ Counted /\ EdgeKept

-----------------------------------------------------------------------------
\* Interrupts and groups name each other.
LEMMA HomeOf ==
  ASSUME Divided, NEW b \in Banks, NEW g \in Groups[b]
  PROVE  g.irq \in Irqs /\ BankOf[g.irq] = b /\ Home[g.irq] = g
<1>1. g.irq \in Irqs
  BY DEF Irqs
<1>2. \A a \in Banks : \A h \in Groups[a] : h.irq = g.irq => a = b /\ h = g
  BY DEF Divided
<1>3. BankOf[g.irq] = CHOOSE a \in Banks : \E h \in Groups[a] : h.irq = g.irq
  BY <1>1 DEF BankOf
<1>4. BankOf[g.irq] \in Banks /\ \E h \in Groups[BankOf[g.irq]] : h.irq = g.irq
  BY <1>3, Zenon
<1>5. BankOf[g.irq] = b
  BY <1>2, <1>4
<1>6. Home[g.irq] = CHOOSE h \in Groups[BankOf[g.irq]] : h.irq = g.irq
  BY <1>1 DEF Home
<1>7. Home[g.irq] \in Groups[b] /\ Home[g.irq].irq = g.irq
  BY <1>5, <1>6, Zenon
<1> QED BY <1>1, <1>2, <1>5, <1>7

LEMMA Homes ==
  ASSUME Divided, NEW i \in Irqs
  PROVE  /\ BankOf[i] \in Banks /\ Home[i] \in Groups[BankOf[i]] /\ Home[i].irq = i
         /\ H(i) \in Irqs /\ BankOf[H(i)] = BankOf[i] /\ H(H(i)) = H(i)
         /\ PinsServed[i] = Home[i].pins /\ PinsServed[i] # {}
         /\ PinsServed[i] \subseteq PinsOf(BankOf[i])
<1>0. PICK b \in Banks : \E g \in Groups[b] : g.irq = i
  BY DEF Irqs
<1>1. PICK g \in Groups[b] : g.irq = i
  BY <1>0
<1>2. BankOf[i] = b /\ Home[i] = g
  BY <1>1, HomeOf
<1>3. PICK h \in Groups[b] : h.irq = HwIrq[b]
  BY GroupsAssumption DEF GirqCfgCheck
<1>4. H(i) \in Irqs /\ BankOf[H(i)] = b /\ H(H(i)) = H(i)
  BY <1>2, <1>3, HomeOf DEF H
<1>5. PinsServed[i] = g.pins
  <2>1. CASE i # HwIrq[BankOf[i]]
    BY <1>2, <2>1 DEF PinsServed
  <2>2. CASE i = HwIrq[BankOf[i]]
    <3>1. {k \in Groups[b] : k.level = HwGroup.level /\ k.cpu = HwGroup.cpu} = {g}
      BY <1>1, <1>2, <2>2 DEF Divided
    <3>2. PinsServed[i] = UNION {k.pins : k \in {k \in Groups[b] : k.level = HwGroup.level /\ k.cpu = HwGroup.cpu}}
      BY <1>2, <2>2 DEF PinsServed
    <3>3. {k.pins : k \in {g}} = {g.pins}
      OBVIOUS
    <3> QED BY <3>1, <3>2, <3>3
  <2> QED BY <2>1, <2>2
<1>6. g.pins # {}
  BY <1>1 DEF Divided
<1>7. g.pins \subseteq PinsOf(b)
  BY <1>1 DEF PinsOf
<1> QED BY <1>1, <1>2, <1>4, <1>5, <1>6, <1>7

LEMMA PinsApart ==
  ASSUME Divided, NEW i \in Irqs, NEW j \in Irqs, BankOf[i] = BankOf[j], i # j
  PROVE  PinsServed[i] \intersect PinsServed[j] = {} /\ Home[i] # Home[j]
<1>1. Home[i] \in Groups[BankOf[i]] /\ Home[j] \in Groups[BankOf[i]] /\ Home[i] # Home[j]
  BY Homes
<1>2. Home[i].pins \intersect Home[j].pins = {}
  BY <1>1, Homes DEF Divided
<1> QED BY <1>1, <1>2, Homes

\* The dispatcher is at one group.
LEMMA AtOne ==
  ASSUME Divided, Loops, NEW i \in Irqs, NEW g, NEW k, At(i, g), At(i, k)
  PROVE  g = k /\ g \in Groups[BankOf[i]]
<1>1. g \in Groups[BankOf[i]] /\ k \in Groups[BankOf[i]] /\ BankOf[i] \in Banks
  BY Homes DEF At, Loops
<1>2. g.level \in Nat /\ k.level \in Nat /\ g.cpu \in Nat /\ k.cpu \in Nat
  BY <1>1 DEF Divided
<1>3. g.level = k.level /\ g.cpu = k.cpu
  BY <1>2 DEF At
<1> QED BY <1>1, <1>3 DEF Divided

LEMMA Goes ==
  ASSUME GpioTyped, NEW j \in Irqs, NEW at \in Places, Goto(j, at)
  PROVE  /\ gpio_pc' \in [Irqs -> Places]
         /\ \A i \in Irqs : gpio_pc'[i] = IF i = j THEN at ELSE gpio_pc[i]
<1>1. gpio_pc \in [Irqs -> Places] /\ gpio_pc' = [gpio_pc EXCEPT ![j] = at]
  BY DEF GpioTyped, Goto
<1> QED BY <1>1

LEMMA AtStill == ASSUME gpio_todo' = gpio_todo PROVE \A i, g : At(i, g)' <=> At(i, g)
BY DEF At

LEMMA GpioInitInv == ASSUME Divided, GpioInit PROVE GpioInv
<1>1. GpioTyped
  <2>1. /\ edges \in [Banks -> SUBSET EdgePins] /\ pin_high \in [Banks -> SUBSET (AllPins \ EdgePins)]
        /\ mask \in [Banks -> SUBSET AllPins] /\ saved \in [Banks -> SUBSET AllPins]
        /\ \A b \in Banks : edges[b] = {} /\ mask[b] = {} /\ saved[b] = {}
    BY DEF GpioInit
  <2>2. /\ raw \in [Irqs -> SUBSET AllPins] /\ act \in [Irqs -> SUBSET AllPins]
        /\ gpio_todo \in [Irqs -> SUBSET AllGroups]
    BY DEF GpioInit
  <2>3. gpio_pc \in [Irqs -> Places] /\ unheard \in [Edges -> Int]
    BY DEF GpioInit, Places
  <2> QED BY <2>1, <2>2, <2>3 DEF GpioInit, GpioTyped
<1>2. \A i \in Irqs : /\ gpio_pc[i] = "idle" /\ gpio_todo[i] = {} /\ act[i] = {} /\ saved[BankOf[i]] = {}
                      /\ edges[BankOf[i]] = {} /\ gpio_pc[H(i)] = "idle" /\ gpio_todo[H(i)] = {}
                      /\ i \notin soft
  BY Homes DEF GpioInit
<1>3. Loops
  BY <1>2 DEF Loops, Looping
<1>4. MaskKept
  BY <1>2 DEF MaskKept, InHand
<1>5. Notes
  BY <1>2 DEF Notes, AtGroup
<1>6. ReadStill
  BY <1>2 DEF ReadStill
<1>7. Counted
  <2> SUFFICES ASSUME NEW i \in Irqs, NEW p \in PinsServed[i] \intersect EdgePins
               PROVE  /\ unheard[<<BankOf[i], p>>] = 0
                      /\ p \notin edges[BankOf[i]] /\ p \notin saved[BankOf[i]] \union act[i]
    BY DEF Counted
  <2>1. <<BankOf[i], p>> \in Edges
    BY Homes DEF Edges
  <2> QED BY <1>2, <2>1 DEF GpioInit
<1>8. EdgeKept
  BY DEF EdgeKept, GpioInit
<1> QED BY <1>1, <1>3, <1>4, <1>5, <1>6, <1>7, <1>8 DEF GpioInv

-----------------------------------------------------------------------------
LEMMA PinEventInv ==
  ASSUME Divided, GpioInv, NEW b \in Banks, NEW p \in PinsOf(b), PinEvent(b, p)
  PROVE  GpioInv'
<1> USE DEF GpioInv
<1>0. UNCHANGED <<mask, saved, soft, gpio_pc, raw, gpio_todo, act>>
  BY DEF PinEvent, handlers
<1>a. \A i, g : At(i, g)' <=> At(i, g)
  BY <1>0, AtStill
<1>1. \A c \in Banks : edges[c] \subseteq edges'[c] /\ edges'[c] \subseteq edges[c] \union {p}
  BY DEF PinEvent, GpioTyped
<1>2. CASE p \in EdgePins
  <2>1. /\ edges' = [edges EXCEPT ![b] = @ \union {p}] /\ pin_high' = pin_high
        /\ owed' = owed \union {<<b, p>>} /\ <<b, p>> \in Edges
        /\ unheard' = [unheard EXCEPT ![<<b, p>>] = @ + 1]
    BY <1>2 DEF PinEvent, Edges
  <2>2. \A c \in Banks : edges'[c] = IF c = b THEN edges[c] \union {p} ELSE edges[c]
    BY <2>1 DEF GpioTyped
  <2>3. \A o \in Edges : unheard'[o] = (IF o = <<b, p>> THEN unheard[o] + 1 ELSE unheard[o])
    BY <2>1 DEF GpioTyped
  <2>4. GpioTyped'
    <3>1. edges' \in [Banks -> SUBSET EdgePins] /\ \A c \in Banks : edges'[c] \subseteq PinsOf(c)
      BY <1>2, <2>1, <2>2 DEF GpioTyped
    <3>2. unheard' \in [Edges -> Int]
      BY <2>1 DEF GpioTyped
    <3> QED BY <1>0, <2>1, <3>1, <3>2 DEF GpioTyped
  <2>5. Counted'
    <3> SUFFICES ASSUME NEW i \in Irqs, NEW q \in PinsServed[i] \intersect EdgePins
                 PROVE  LET n == unheard'[<<BankOf[i], q>>]
                            noted == q \in saved'[BankOf[i]] \union act'[i]
                        IN /\ n >= 0
                           /\ q \in edges'[BankOf[i]] \/ noted => n >= 1
                           /\ q \in edges'[BankOf[i]] /\ noted /\ ~AtGroup(i, "eoi")' => n >= 2
      BY DEF Counted
    <3>1. <<BankOf[i], q>> \in Edges /\ BankOf[i] \in Banks
      BY Homes DEF Edges
    <3>2. unheard[<<BankOf[i], q>>] \in Int
      BY <3>1 DEF GpioTyped
    <3>3. AtGroup(i, "eoi")' <=> AtGroup(i, "eoi")
      BY <1>0, <1>a DEF AtGroup
    <3>e. q \in edges'[BankOf[i]] <=> q \in edges[BankOf[i]] \/ (BankOf[i] = b /\ q = p)
      BY <2>2, <3>1
    <3>u. unheard'[<<BankOf[i], q>>] = unheard[<<BankOf[i], q>>] + (IF BankOf[i] = b /\ q = p THEN 1 ELSE 0)
      <4>1. CASE BankOf[i] = b /\ q = p
        BY <2>3, <3>1, <4>1
      <4>2. CASE ~(BankOf[i] = b /\ q = p)
        <5>1. <<BankOf[i], q>> # <<b, p>>
          BY <4>2
        <5> QED BY <2>3, <3>1, <3>2, <4>2, <5>1
      <4> QED BY <4>1, <4>2
    <3>n. q \in saved'[BankOf[i]] \union act'[i] <=> q \in saved[BankOf[i]] \union act[i]
      BY <1>0
    <3>5. LET n == unheard[<<BankOf[i], q>>]
              noted == q \in saved[BankOf[i]] \union act[i]
          IN /\ n >= 0
             /\ q \in edges[BankOf[i]] \/ noted => n >= 1
             /\ q \in edges[BankOf[i]] /\ noted /\ ~AtGroup(i, "eoi") => n >= 2
      BY DEF Counted
    <3> QED BY <3>2, <3>3, <3>e, <3>u, <3>n, <3>5
  <2>6. EdgeKept'
    BY <1>0, <2>1, <2>2 DEF EdgeKept, GpioTyped, Edges
  <2> QED BY <2>4, <2>5, <2>6, <1>0, <1>a, <1>1, Homes
          DEF Loops, MaskKept, Notes, ReadStill, AtGroup, InHand
<1>3. CASE p \notin EdgePins
  <2>1. UNCHANGED <<edges, owed, unheard>>
    BY <1>3 DEF PinEvent
  <2>2. pin_high' \in [Banks -> SUBSET (AllPins \ EdgePins)]
    BY <1>3 DEF PinEvent, GpioTyped, AllPins
  <2>3. GpioTyped'
    BY <1>0, <2>1, <2>2 DEF GpioTyped
  <2>4. Counted'
    BY <1>0, <1>a, <2>1 DEF Counted, AtGroup
  <2> QED BY <2>3, <2>4, <1>0, <1>a, <2>1
          DEF Loops, MaskKept, Notes, ReadStill, AtGroup, InHand, EdgeKept
<1> QED BY <1>2, <1>3

LEMMA TakeInv ==
  ASSUME Divided, GpioInv, NEW j \in Irqs, Take(j)
  PROVE  GpioInv'
<1> USE DEF GpioInv
<1>0. UNCHANGED <<edges, pin_high, mask, saved, raw, gpio_todo, act, owed, unheard>>
  BY DEF Take, registers, observed
<1>a. \A i, g : At(i, g)' <=> At(i, g)
  BY <1>0, AtStill
<1>1. \A i \in Irqs : gpio_pc'[i] = IF i = j THEN (IF j = H(j) THEN "raw" ELSE "group") ELSE gpio_pc[i]
  BY DEF Take, GpioTyped, H
<1>2. gpio_pc' \in [Irqs -> Places]
  BY DEF Take, GpioTyped, Places
<1>3. soft' = soft \ {j} /\ gpio_pc[j] = "idle" /\ gpio_todo[j] = {}
  BY DEF Take, Loops, Looping
<1>4. j # H(j) => j \in soft
  BY DEF Take, Asserted, H
<1>5. \A i \in Irqs : H(i) = j => H(j) = j
  BY Homes
<1>6. GpioTyped'
  BY <1>0, <1>2, <1>3 DEF GpioTyped
<1>7. Loops'
  BY <1>0, <1>1, <1>3 DEF Loops, Looping
<1>h. \A i \in Irqs : H(i) \in Irqs
  BY Homes
<1>8. \A i \in Irqs : /\ (InHand(i)' <=> InHand(i))
                      /\ \A at \in {"save", "eoi", "pend"} : (AtGroup(i, at)' <=> AtGroup(i, at))
  BY <1>1, <1>3, <1>5, <1>a, <1>h DEF InHand, AtGroup
<1>9. MaskKept'
  BY <1>0, <1>1, <1>3, <1>4, <1>5, <1>8, <1>h DEF MaskKept
<1>10. Notes'
  BY <1>0, <1>1, <1>3, <1>8, <1>h DEF Notes
<1>11. ReadStill'
  BY <1>0, <1>1, <1>3, <1>5, <1>8, <1>h DEF ReadStill
<1>12. Counted' /\ EdgeKept'
  BY <1>0, <1>8 DEF Counted, EdgeKept
<1> QED BY <1>6, <1>7, <1>9, <1>10, <1>11, <1>12

\* Who is in the dispatcher is a bank's own interrupt, and the groups of its
\* loops are that bank's.
LEMMA DispatcherIs ==
  ASSUME Divided, GpioInv, NEW j \in Irqs, gpio_pc[j] \in {"raw", "mask"} \union Looping
  PROVE  /\ H(j) = j /\ BankOf[j] \in Banks
         /\ \A i \in Irqs : H(i) = j <=> BankOf[i] = BankOf[j]
         /\ \A g \in gpio_todo[j] : /\ g \in Groups[BankOf[j]] /\ g.irq \in Irqs
                                    /\ H(g.irq) = j /\ Home[g.irq] = g /\ BankOf[g.irq] = BankOf[j]
                                    /\ PinsServed[g.irq] = g.pins
<1>1. H(j) = j
  BY DEF GpioInv, Loops
<1>2. \A i \in Irqs : H(i) = j <=> BankOf[i] = BankOf[j]
  BY <1>1, Homes DEF H
<1>3. ASSUME NEW g \in gpio_todo[j]
      PROVE  /\ g \in Groups[BankOf[j]] /\ g.irq \in Irqs
             /\ H(g.irq) = j /\ Home[g.irq] = g /\ BankOf[g.irq] = BankOf[j]
             /\ PinsServed[g.irq] = g.pins
  <2>1. g \in Groups[BankOf[j]] /\ BankOf[j] \in Banks
    BY Homes DEF GpioInv, Loops
  <2>2. g.irq \in Irqs /\ Home[g.irq] = g /\ BankOf[g.irq] = BankOf[j]
    BY <2>1, HomeOf
  <2> QED BY <1>2, <2>1, <2>2, Homes
<1> QED BY <1>1, <1>2, <1>3, Homes

LEMMA ReadRawStatusInv ==
  ASSUME Divided, GpioInv, NEW j \in Irqs, ReadRawStatus(j)
  PROVE  GpioInv'
<1> USE DEF GpioInv
<1>0. UNCHANGED <<edges, pin_high, mask, saved, soft, gpio_todo, act, owed, unheard>>
  BY DEF ReadRawStatus, registers, observed
<1>a. \A i, g : At(i, g)' <=> At(i, g)
  BY <1>0, AtStill
<1>b. gpio_pc[j] = "raw" /\ Goto(j, "mask")
  BY DEF ReadRawStatus, Runs
<1>1. gpio_pc' \in [Irqs -> Places] /\ \A i \in Irqs : gpio_pc'[i] = IF i = j THEN "mask" ELSE gpio_pc[i]
  BY <1>b, Goes DEF Places
<1>2. H(j) = j /\ BankOf[j] \in Banks /\ gpio_todo[j] = {} /\ \A i \in Irqs : H(i) = j <=> BankOf[i] = BankOf[j]
  BY <1>b, DispatcherIs DEF Loops, Looping
<1>3. /\ raw' \in [Irqs -> SUBSET AllPins]
      /\ \A i \in Irqs : raw'[i] = IF i = j THEN edges[BankOf[j]] \union pin_high[BankOf[j]] ELSE raw[i]
  <2>1. RawStatus(BankOf[j]) \in SUBSET AllPins
    BY <1>2 DEF RawStatus, GpioTyped, AllPins
  <2> QED BY <2>1 DEF ReadRawStatus, RawStatus, GpioTyped
<1>4. GpioTyped'
  BY <1>0, <1>1, <1>3 DEF GpioTyped
<1>5. Loops'
  BY <1>0, <1>1, <1>b, <1>2 DEF Loops, Looping
<1>h. \A i \in Irqs : H(i) \in Irqs
  BY Homes
<1>6. \A i \in Irqs : /\ (InHand(i)' <=> InHand(i))
                      /\ \A at \in {"save", "eoi", "pend"} : (AtGroup(i, at)' <=> AtGroup(i, at))
                      /\ H(i) = j => ~InHand(i) /\ Home[i] \notin gpio_todo[H(i)]
  BY <1>1, <1>2, <1>a, <1>b, <1>h DEF InHand, AtGroup
<1>7. MaskKept'
  BY <1>0, <1>1, <1>b, <1>6 DEF MaskKept
<1>8. Notes'
  <2>1. \A i \in Irqs : AtGroup(i, "eoi")' => AtGroup(i, "eoi") /\ raw'[H(i)] = raw[H(i)]
    BY <1>1, <1>3, <1>6, <1>h DEF AtGroup
  <2> QED BY <1>0, <1>1, <1>b, <1>6, <2>1 DEF Notes
<1>9. ReadStill'
  <2>1. \A i \in Irqs : H(i) = j => raw'[H(i)] \intersect EdgePins \subseteq edges[BankOf[i]]
    BY <1>2, <1>3 DEF GpioTyped
  <2>2. \A i \in Irqs : H(i) # j => raw'[H(i)] = raw[H(i)] /\ gpio_pc'[H(i)] = gpio_pc[H(i)]
    BY <1>1, <1>3, <1>h
  <2> QED BY <1>0, <1>6, <2>1, <2>2 DEF ReadStill
<1>10. Counted' /\ EdgeKept'
  BY <1>0, <1>6 DEF Counted, EdgeKept
<1> QED BY <1>4, <1>5, <1>7, <1>8, <1>9, <1>10

LEMMA ReadMaskInv ==
  ASSUME Divided, GpioInv, NEW j \in Irqs, ReadMask(j)
  PROVE  GpioInv'
<1> USE DEF GpioInv
<1>0. UNCHANGED <<edges, pin_high, mask, saved, soft, raw, act, owed, unheard>>
  BY DEF ReadMask, registers, observed
<1>b. gpio_pc[j] = "mask" /\ Goto(j, "todo")
  BY DEF ReadMask, Runs
<1>1. gpio_pc' \in [Irqs -> Places] /\ \A i \in Irqs : gpio_pc'[i] = IF i = j THEN "todo" ELSE gpio_pc[i]
  BY <1>b, Goes DEF Places, Looping
<1>2. H(j) = j /\ BankOf[j] \in Banks /\ gpio_todo[j] = {} /\ \A i \in Irqs : H(i) = j <=> BankOf[i] = BankOf[j]
  BY <1>b, DispatcherIs DEF Loops, Looping
<1> DEFINE new == Chosen(BankOf[j], raw[j], mask[BankOf[j]])
<1>c. new \subseteq Groups[BankOf[j]] /\ \A g \in new : g.pins \intersect mask[BankOf[j]] = {}
  BY DEF Chosen
<1> HIDE DEF new
<1>3. /\ gpio_todo' \in [Irqs -> SUBSET AllGroups]
      /\ \A i \in Irqs : gpio_todo'[i] = IF i = j THEN new ELSE gpio_todo[i]
  <2>1. new \in SUBSET AllGroups
    BY <1>2, <1>c DEF AllGroups
  <2> QED BY <2>1 DEF ReadMask, GpioTyped, new
<1>4. GpioTyped'
  BY <1>0, <1>1, <1>3 DEF GpioTyped
<1>5. Loops'
  BY <1>0, <1>1, <1>b, <1>2, <1>3, <1>c DEF Loops, Looping
<1>h. \A i \in Irqs : H(i) \in Irqs
  BY Homes
<1>a. \A i \in Irqs : \A g : i # j => (At(i, g)' <=> At(i, g))
  BY <1>3 DEF At
<1>6. \A i \in Irqs : /\ (InHand(i)' <=> InHand(i))
                      /\ \A at \in {"save", "eoi", "pend"} : (AtGroup(i, at)' <=> AtGroup(i, at))
                      /\ H(i) = j => ~InHand(i) /\ ~InHand(i)'
                      /\ H(i) # j => gpio_todo'[H(i)] = gpio_todo[H(i)] /\ gpio_pc'[H(i)] = gpio_pc[H(i)]
  BY <1>1, <1>2, <1>3, <1>a, <1>b, <1>h DEF InHand, AtGroup
<1>7. MaskKept'
  <2>1. \A i \in Irqs : H(i) = j /\ Home[i] \in new => PinsServed[i] \intersect mask[BankOf[i]] = {}
    BY <1>2, <1>c, Homes
  <2> QED BY <1>0, <1>1, <1>b, <1>2, <1>3, <1>6, <2>1 DEF MaskKept
<1>8. Notes'
  BY <1>0, <1>1, <1>b, <1>6 DEF Notes
<1>9. ReadStill'
  BY <1>0, <1>1, <1>b, <1>6 DEF ReadStill
<1>10. Counted' /\ EdgeKept'
  BY <1>0, <1>6 DEF Counted, EdgeKept
<1> QED BY <1>4, <1>5, <1>7, <1>8, <1>9, <1>10

LEMMA DispatchedInv ==
  ASSUME Divided, GpioInv, NEW j \in Irqs, Dispatched(j)
  PROVE  GpioInv'
<1> USE DEF GpioInv
<1>0. UNCHANGED <<edges, pin_high, mask, saved, soft, gpio_todo, act, owed, unheard>>
  BY DEF Dispatched, registers, observed
<1>a. \A i, g : At(i, g)' <=> At(i, g)
  BY <1>0, AtStill
<1>b. gpio_pc[j] = "todo" /\ Goto(j, "group") /\ gpio_todo[j] = {}
  BY DEF Dispatched, Runs
<1>1. gpio_pc' \in [Irqs -> Places] /\ \A i \in Irqs : gpio_pc'[i] = IF i = j THEN "group" ELSE gpio_pc[i]
  BY <1>b, Goes DEF Places
<1>2. H(j) = j /\ BankOf[j] \in Banks /\ \A i \in Irqs : H(i) = j <=> BankOf[i] = BankOf[j]
  BY <1>b, DispatcherIs DEF Looping
<1>3. raw' \in [Irqs -> SUBSET AllPins] /\ \A i \in Irqs : i # j => raw'[i] = raw[i]
  BY DEF Dispatched, GpioTyped
<1>4. GpioTyped'
  BY <1>0, <1>1, <1>3 DEF GpioTyped
<1>5. Loops'
  BY <1>0, <1>1, <1>b, <1>2 DEF Loops, Looping
<1>h. \A i \in Irqs : H(i) \in Irqs
  BY Homes
<1>6. \A i \in Irqs : /\ (InHand(i)' <=> InHand(i))
                      /\ \A at \in {"save", "eoi", "pend"} : (AtGroup(i, at)' <=> AtGroup(i, at))
                      /\ H(i) = j => ~InHand(i) /\ Home[i] \notin gpio_todo[H(i)]
                      /\ H(i) # j => gpio_pc'[H(i)] = gpio_pc[H(i)] /\ raw'[H(i)] = raw[H(i)]
  BY <1>1, <1>2, <1>3, <1>a, <1>b, <1>h DEF InHand, AtGroup
<1>7. MaskKept'
  BY <1>0, <1>1, <1>2, <1>b, <1>6 DEF MaskKept
<1>8. Notes'
  <2>1. \A i \in Irqs : AtGroup(i, "eoi") => H(i) # j
    BY <1>b DEF AtGroup
  <2> QED BY <1>0, <1>1, <1>b, <1>6, <2>1 DEF Notes
<1>9. ReadStill'
  BY <1>0, <1>1, <1>b, <1>6 DEF ReadStill
<1>10. Counted' /\ EdgeKept'
  BY <1>0, <1>6 DEF Counted, EdgeKept
<1> QED BY <1>4, <1>5, <1>7, <1>8, <1>9, <1>10

\* A dispatcher's step at a group.
LEMMA AtOneGroup ==
  ASSUME Divided, GpioInv, NEW j \in Irqs, NEW g, gpio_pc[j] \in Looping, At(j, g)
  PROVE  /\ H(j) = j /\ BankOf[j] \in Banks /\ g \in Groups[BankOf[j]]
         /\ g.irq \in Irqs /\ H(g.irq) = j /\ Home[g.irq] = g /\ BankOf[g.irq] = BankOf[j]
         /\ PinsServed[g.irq] = g.pins /\ g.pins # {} /\ g.pins \subseteq PinsOf(BankOf[j])
         /\ \A i \in Irqs : H(i) = j => BankOf[i] = BankOf[j]
         /\ \A i \in Irqs : BankOf[i] = BankOf[j] => H(i) = j
         /\ \A i \in Irqs : H(i) = j /\ At(j, Home[i]) => i = g.irq
         /\ \A i \in Irqs : i # g.irq /\ BankOf[i] = BankOf[j] => PinsServed[i] \intersect g.pins = {}
<1>1. g \in gpio_todo[j]
  BY DEF At
<1>2. /\ H(j) = j /\ BankOf[j] \in Banks /\ g \in Groups[BankOf[j]]
      /\ g.irq \in Irqs /\ H(g.irq) = j /\ Home[g.irq] = g /\ BankOf[g.irq] = BankOf[j]
      /\ PinsServed[g.irq] = g.pins
      /\ \A i \in Irqs : H(i) = j <=> BankOf[i] = BankOf[j]
  BY <1>1, DispatcherIs
<1>3. g.pins # {} /\ g.pins \subseteq PinsOf(BankOf[j])
  BY <1>2, Homes
<1>4. ASSUME NEW i \in Irqs, H(i) = j, At(j, Home[i]) PROVE i = g.irq
  <2>1. Home[i] = g
    BY <1>4, AtOne DEF GpioInv
  <2> QED BY <2>1, Homes
<1>5. ASSUME NEW i \in Irqs, i # g.irq, BankOf[i] = BankOf[j] PROVE PinsServed[i] \intersect g.pins = {}
  BY <1>2, <1>5, PinsApart
<1> QED BY <1>2, <1>3, <1>4, <1>5

LEMMA MaskGroupInv ==
  ASSUME Divided, GpioInv, NEW j \in Irqs, NEW g, MaskGroup(j, g)
  PROVE  GpioInv'
<1> USE DEF GpioInv
<1>0. UNCHANGED <<edges, pin_high, saved, soft, raw, gpio_todo, act, owed, unheard>>
  BY DEF MaskGroup, observed
<1>a. \A i, k : At(i, k)' <=> At(i, k)
  BY <1>0, AtStill
<1>b. gpio_pc[j] = "todo" /\ Goto(j, "save") /\ At(j, g)
  BY DEF MaskGroup, Runs
<1>1. gpio_pc' \in [Irqs -> Places] /\ \A i \in Irqs : gpio_pc'[i] = IF i = j THEN "save" ELSE gpio_pc[i]
  BY <1>b, Goes DEF Places, Looping
<1>2. /\ H(j) = j /\ BankOf[j] \in Banks /\ g \in Groups[BankOf[j]]
      /\ g.irq \in Irqs /\ H(g.irq) = j /\ Home[g.irq] = g /\ BankOf[g.irq] = BankOf[j]
      /\ PinsServed[g.irq] = g.pins /\ g.pins # {} /\ g.pins \subseteq PinsOf(BankOf[j])
      /\ \A i \in Irqs : H(i) = j => BankOf[i] = BankOf[j]
      /\ \A i \in Irqs : BankOf[i] = BankOf[j] => H(i) = j
      /\ \A i \in Irqs : H(i) = j /\ At(j, Home[i]) => i = g.irq
      /\ \A i \in Irqs : i # g.irq /\ BankOf[i] = BankOf[j] => PinsServed[i] \intersect g.pins = {}
  BY <1>b, AtOneGroup DEF Looping
<1>3. /\ mask' \in [Banks -> SUBSET AllPins]
      /\ \A b \in Banks : mask'[b] = IF b = BankOf[j] THEN mask[b] \union g.pins ELSE mask[b]
  <2>1. mask[BankOf[j]] \union g.pins \in SUBSET AllPins
    BY <1>2 DEF GpioTyped, AllPins
  <2> QED BY <2>1 DEF MaskGroup, GpioTyped
<1>4. GpioTyped'
  <2>1. \A b \in Banks : mask'[b] \subseteq PinsOf(b)
    BY <1>2, <1>3 DEF GpioTyped
  <2> QED BY <1>0, <1>1, <1>3, <2>1 DEF GpioTyped
<1>5. Loops'
  BY <1>0, <1>1, <1>b, <1>2 DEF Loops, Looping
<1>h. \A i \in Irqs : H(i) \in Irqs /\ BankOf[i] \in Banks
  BY Homes
<1>6. \A i \in Irqs : /\ i # g.irq => (InHand(i)' <=> InHand(i)) /\ (AtGroup(i, "save")' <=> AtGroup(i, "save"))
                      /\ (AtGroup(i, "eoi")' <=> AtGroup(i, "eoi"))
                      /\ (AtGroup(i, "pend")' <=> AtGroup(i, "pend"))
  BY <1>1, <1>2, <1>a, <1>b, <1>h DEF InHand, AtGroup
<1>7. \A i \in Irqs : i # g.irq =>
          PinsServed[i] \intersect mask'[BankOf[i]] = PinsServed[i] \intersect mask[BankOf[i]]
  BY <1>2, <1>3, <1>h
<1>g. /\ ~InHand(g.irq) /\ Home[g.irq] \in gpio_todo[H(g.irq)]
      /\ g.pins \intersect mask[BankOf[g.irq]] = {}
      /\ gpio_pc[g.irq] \notin {"clear", "level", "pins"}
      /\ g.irq # j => g.irq \notin soft /\ gpio_pc[g.irq] # "group"
      /\ saved[BankOf[g.irq]] \intersect g.pins = {}
  <2>1. ~InHand(g.irq) /\ Home[g.irq] \in gpio_todo[H(g.irq)]
    BY <1>2, <1>b DEF InHand, At
  <2>2. g.pins \intersect mask[BankOf[g.irq]] = {} /\ ~(g.pins \subseteq mask[BankOf[g.irq]])
    BY <1>2, <2>1 DEF MaskKept
  <2> QED BY <1>2, <2>1, <2>2 DEF MaskKept, Notes
<1>8. MaskKept'
  <2> SUFFICES ASSUME NEW i \in Irqs
      PROVE  /\ Home[i] \in gpio_todo'[H(i)] /\ ~InHand(i)' => PinsServed[i] \intersect mask'[BankOf[i]] = {}
             /\ InHand(i)' => /\ PinsServed[i] \subseteq mask'[BankOf[i]]
                              /\ i # H(i) => i \notin soft'
                              /\ gpio_pc'[i] \notin {"group", "clear", "level", "pins"}
             /\ gpio_pc'[i] \in {"clear", "level", "pins"} => PinsServed[i] \subseteq mask'[BankOf[i]]
             /\ i # H(i) /\ (i \in soft' \/ gpio_pc'[i] = "group") => PinsServed[i] \subseteq mask'[BankOf[i]]
             /\ i # H(i) /\ i \in soft' => gpio_pc'[i] \in {"idle", "end"}
    BY DEF MaskKept
  <2>1. CASE i = g.irq
    <3>1. InHand(i)' /\ PinsServed[i] \subseteq mask'[BankOf[i]]
      BY <1>1, <1>2, <1>3, <1>a, <1>b, <2>1 DEF InHand
    <3> QED BY <3>1, <1>0, <1>1, <1>2, <1>g, <2>1
  <2>2. CASE i # g.irq
    BY <1>0, <1>1, <1>2, <1>6, <1>7, <1>b, <2>2 DEF MaskKept
  <2> QED BY <2>1, <2>2
<1>9. Notes'
  <2>1. \A i \in Irqs : PinsServed[i] \subseteq mask[BankOf[i]] => PinsServed[i] \subseteq mask'[BankOf[i]]
    BY <1>3, <1>h
  <2> SUFFICES ASSUME NEW i \in Irqs
      PROVE  /\ saved'[BankOf[i]] \intersect PinsServed[i] # {} =>
                    /\ PinsServed[i] \subseteq mask'[BankOf[i]]
                    /\ gpio_pc'[i] \notin {"level", "pins"}
                    /\ ~AtGroup(i, "save")'
             /\ AtGroup(i, "eoi")' => saved'[BankOf[i]] \intersect PinsServed[i] = PinsServed[i] \intersect raw'[H(i)]
             /\ gpio_pc'[i] = "clear" => saved'[BankOf[i]] \intersect PinsServed[i] \subseteq act'[i]
             /\ act'[i] \subseteq PinsServed[i]
             /\ act'[i] # {} => gpio_pc'[i] \in {"clear", "level", "pins"}
    BY DEF Notes
  <2>2. CASE i = g.irq
    BY <1>0, <1>1, <1>2, <1>b, <1>6, <1>g, <2>2 DEF Notes
  <2>3. CASE i # g.irq
    BY <1>0, <1>1, <1>b, <1>6, <2>1, <2>3 DEF Notes
  <2> QED BY <2>2, <2>3
<1>10. ReadStill'
  <2>1. \A i \in Irqs : AtGroup(i, "pend") => AtGroup(i, "pend")'
    BY <1>1, <1>a, <1>b, <1>h DEF AtGroup
  <2>2. \A i \in Irqs : gpio_pc'[H(i)] = "mask" => gpio_pc[H(i)] = "mask"
    BY <1>1, <1>h
  <2> QED BY <1>0, <2>1, <2>2 DEF ReadStill
<1>11. Counted' /\ EdgeKept'
  BY <1>0, <1>6 DEF Counted, EdgeKept
<1> QED BY <1>4, <1>5, <1>8, <1>9, <1>10, <1>11

LEMMA SaveInv ==
  ASSUME Divided, GpioInv, NEW j \in Irqs, NEW g, Save(j, g)
  PROVE  GpioInv'
<1> USE DEF GpioInv
<1>0. UNCHANGED <<edges, pin_high, mask, soft, raw, gpio_todo, act, owed, unheard>>
  BY DEF Save, observed
<1>a. \A i, k : At(i, k)' <=> At(i, k)
  BY <1>0, AtStill
<1>b. gpio_pc[j] = "save" /\ Goto(j, "eoi") /\ At(j, g)
  BY DEF Save, Runs
<1>1. gpio_pc' \in [Irqs -> Places] /\ \A i \in Irqs : gpio_pc'[i] = IF i = j THEN "eoi" ELSE gpio_pc[i]
  BY <1>b, Goes DEF Places, Looping
<1>2. /\ H(j) = j /\ BankOf[j] \in Banks /\ g \in Groups[BankOf[j]]
      /\ g.irq \in Irqs /\ H(g.irq) = j /\ Home[g.irq] = g /\ BankOf[g.irq] = BankOf[j]
      /\ PinsServed[g.irq] = g.pins /\ g.pins # {} /\ g.pins \subseteq PinsOf(BankOf[j])
      /\ \A i \in Irqs : H(i) = j => BankOf[i] = BankOf[j]
      /\ \A i \in Irqs : BankOf[i] = BankOf[j] => H(i) = j
      /\ \A i \in Irqs : H(i) = j /\ At(j, Home[i]) => i = g.irq
      /\ \A i \in Irqs : i # g.irq /\ BankOf[i] = BankOf[j] => PinsServed[i] \intersect g.pins = {}
  BY <1>b, AtOneGroup DEF Looping
<1>3. /\ saved' \in [Banks -> SUBSET AllPins]
      /\ \A b \in Banks : saved'[b] = IF b = BankOf[j] THEN (saved[b] \ g.pins) \union (g.pins \intersect raw[j])
                                      ELSE saved[b]
  <2>1. (saved[BankOf[j]] \ g.pins) \union (g.pins \intersect raw[j]) \in SUBSET AllPins
    BY <1>2 DEF GpioTyped, AllPins
  <2> QED BY <2>1 DEF Save, Active, GpioTyped
<1>4. GpioTyped'
  <2>1. \A b \in Banks : saved'[b] \subseteq PinsOf(b)
    BY <1>2, <1>3 DEF GpioTyped
  <2> QED BY <1>0, <1>1, <1>3, <2>1 DEF GpioTyped
<1>5. Loops'
  BY <1>0, <1>1, <1>b, <1>2 DEF Loops, Looping
<1>h. \A i \in Irqs : H(i) \in Irqs /\ BankOf[i] \in Banks
  BY Homes
<1>6. \A i \in Irqs : /\ InHand(i)' <=> InHand(i)
                      /\ AtGroup(i, "pend")' <=> AtGroup(i, "pend")
                      /\ ~(H(i) = j /\ AtGroup(i, "save")')
                      /\ AtGroup(i, "save")' => AtGroup(i, "save")
                      /\ i # g.irq => (AtGroup(i, "eoi")' <=> AtGroup(i, "eoi"))
  BY <1>1, <1>2, <1>a, <1>b, <1>h DEF InHand, AtGroup
<1>7. \A i \in Irqs : i # g.irq =>
          PinsServed[i] \intersect saved'[BankOf[i]] = PinsServed[i] \intersect saved[BankOf[i]]
  BY <1>2, <1>3, <1>h
<1>g. /\ InHand(g.irq) /\ AtGroup(g.irq, "save") /\ AtGroup(g.irq, "eoi")'
      /\ g.pins \subseteq mask[BankOf[g.irq]]
      /\ gpio_pc[g.irq] \notin {"group", "clear", "level", "pins"}
      /\ act[g.irq] = {} /\ saved[BankOf[g.irq]] \intersect g.pins = {}
      /\ g.pins \intersect raw[j] \intersect EdgePins \subseteq edges[BankOf[j]]
  <2>1. InHand(g.irq) /\ AtGroup(g.irq, "save") /\ AtGroup(g.irq, "eoi")'
    BY <1>1, <1>2, <1>a, <1>b DEF InHand, AtGroup
  <2>2. Home[g.irq] \in gpio_todo[H(g.irq)] /\ ~AtGroup(g.irq, "pend")
    BY <1>2, <1>b DEF At, AtGroup
  <2> QED BY <1>2, <2>1, <2>2 DEF MaskKept, Notes, ReadStill
<1>8. MaskKept'
  BY <1>0, <1>1, <1>b, <1>6 DEF MaskKept
<1>9. Notes'
  <2> SUFFICES ASSUME NEW i \in Irqs
      PROVE  /\ saved'[BankOf[i]] \intersect PinsServed[i] # {} =>
                    /\ PinsServed[i] \subseteq mask'[BankOf[i]]
                    /\ gpio_pc'[i] \notin {"level", "pins"}
                    /\ ~AtGroup(i, "save")'
             /\ AtGroup(i, "eoi")' => saved'[BankOf[i]] \intersect PinsServed[i] = PinsServed[i] \intersect raw'[H(i)]
             /\ gpio_pc'[i] = "clear" => saved'[BankOf[i]] \intersect PinsServed[i] \subseteq act'[i]
             /\ act'[i] \subseteq PinsServed[i]
             /\ act'[i] # {} => gpio_pc'[i] \in {"clear", "level", "pins"}
    BY DEF Notes
  <2>1. CASE i = g.irq
    BY <1>0, <1>1, <1>2, <1>3, <1>6, <1>g, <2>1
  <2>2. CASE i # g.irq
    BY <1>0, <1>1, <1>b, <1>6, <1>7, <2>2 DEF Notes
  <2> QED BY <2>1, <2>2
<1>10. ReadStill'
  <2>1. \A i \in Irqs : gpio_pc'[H(i)] = "mask" => gpio_pc[H(i)] = "mask"
    BY <1>1, <1>h
  <2> QED BY <1>0, <1>6, <2>1 DEF ReadStill
<1>11. Counted'
  <2> SUFFICES ASSUME NEW i \in Irqs, NEW p \in PinsServed[i] \intersect EdgePins
               PROVE  LET n == unheard'[<<BankOf[i], p>>]
                          noted == p \in saved'[BankOf[i]] \union act'[i]
                      IN /\ n >= 0
                         /\ p \in edges'[BankOf[i]] \/ noted => n >= 1
                         /\ p \in edges'[BankOf[i]] /\ noted /\ ~AtGroup(i, "eoi")' => n >= 2
    BY DEF Counted
  <2>0. LET n == unheard[<<BankOf[i], p>>]
            noted == p \in saved[BankOf[i]] \union act[i]
        IN /\ n >= 0
           /\ p \in edges[BankOf[i]] \/ noted => n >= 1
           /\ p \in edges[BankOf[i]] /\ noted /\ ~AtGroup(i, "eoi") => n >= 2
    BY DEF Counted
  <2>1. CASE i = g.irq
    BY <1>0, <1>2, <1>3, <1>g, <2>0, <2>1
  <2>2. CASE i # g.irq
    BY <1>0, <1>6, <1>7, <2>0, <2>2
  <2> QED BY <2>1, <2>2
<1>12. EdgeKept'
  <2>1. \A b \in Banks : saved[b] \subseteq saved'[b]
    BY <1>2, <1>3, <1>g
  <2>2. \A o \in Edges : o[1] \in Banks
    BY DEF Edges
  <2> QED BY <1>0, <2>1, <2>2 DEF EdgeKept, GpioTyped
<1> QED BY <1>4, <1>5, <1>8, <1>9, <1>10, <1>11, <1>12

LEMMA EoiInv ==
  ASSUME Divided, GpioInv, NEW j \in Irqs, NEW g, Eoi(j, g)
  PROVE  GpioInv'
<1> USE DEF GpioInv
<1>0. UNCHANGED <<pin_high, mask, saved, soft, raw, gpio_todo, act, owed, unheard>>
  BY DEF Eoi, observed
<1>a. \A i, k : At(i, k)' <=> At(i, k)
  BY <1>0, AtStill
<1>b. gpio_pc[j] = "eoi" /\ Goto(j, "pend") /\ At(j, g)
  BY DEF Eoi, Runs
<1>1. gpio_pc' \in [Irqs -> Places] /\ \A i \in Irqs : gpio_pc'[i] = IF i = j THEN "pend" ELSE gpio_pc[i]
  BY <1>b, Goes DEF Places, Looping
<1>2. /\ H(j) = j /\ BankOf[j] \in Banks /\ g \in Groups[BankOf[j]]
      /\ g.irq \in Irqs /\ H(g.irq) = j /\ Home[g.irq] = g /\ BankOf[g.irq] = BankOf[j]
      /\ PinsServed[g.irq] = g.pins /\ g.pins # {} /\ g.pins \subseteq PinsOf(BankOf[j])
      /\ \A i \in Irqs : H(i) = j => BankOf[i] = BankOf[j]
      /\ \A i \in Irqs : BankOf[i] = BankOf[j] => H(i) = j
      /\ \A i \in Irqs : H(i) = j /\ At(j, Home[i]) => i = g.irq
      /\ \A i \in Irqs : i # g.irq /\ BankOf[i] = BankOf[j] => PinsServed[i] \intersect g.pins = {}
  BY <1>b, AtOneGroup DEF Looping
<1>3. /\ edges' \in [Banks -> SUBSET EdgePins]
      /\ \A b \in Banks : edges'[b] = IF b = BankOf[j] THEN edges[b] \ (g.pins \intersect raw[j]) ELSE edges[b]
  <2>1. edges[BankOf[j]] \ (g.pins \intersect raw[j]) \in SUBSET EdgePins
    BY <1>2 DEF GpioTyped
  <2> QED BY <2>1 DEF Eoi, Active, GpioTyped
<1>4. GpioTyped'
  <2>1. \A b \in Banks : edges'[b] \subseteq PinsOf(b)
    BY <1>3 DEF GpioTyped
  <2> QED BY <1>0, <1>1, <1>3, <2>1 DEF GpioTyped
<1>5. Loops'
  BY <1>0, <1>1, <1>b, <1>2 DEF Loops, Looping
<1>h. \A i \in Irqs : H(i) \in Irqs /\ BankOf[i] \in Banks
  BY Homes
<1>6. \A i \in Irqs : /\ InHand(i)' <=> InHand(i)
                      /\ AtGroup(i, "save")' <=> AtGroup(i, "save")
                      /\ AtGroup(i, "eoi")' => AtGroup(i, "eoi")
                      /\ AtGroup(i, "pend") => AtGroup(i, "pend")'
                      /\ i # g.irq => (AtGroup(i, "eoi")' <=> AtGroup(i, "eoi"))
  BY <1>1, <1>2, <1>a, <1>b, <1>h DEF InHand, AtGroup
<1>7. \A i \in Irqs : i # g.irq =>
          PinsServed[i] \intersect edges'[BankOf[i]] = PinsServed[i] \intersect edges[BankOf[i]]
  BY <1>2, <1>3, <1>h
<1>g. /\ AtGroup(g.irq, "pend")'
      /\ act[g.irq] = {} /\ saved[BankOf[g.irq]] \intersect g.pins = g.pins \intersect raw[j]
  <2>1. InHand(g.irq) /\ AtGroup(g.irq, "eoi") /\ AtGroup(g.irq, "pend")'
    BY <1>1, <1>2, <1>a, <1>b DEF InHand, AtGroup
  <2> QED BY <1>2, <2>1 DEF MaskKept, Notes
<1>8. MaskKept'
  BY <1>0, <1>1, <1>b, <1>6 DEF MaskKept
<1>9. Notes'
  BY <1>0, <1>1, <1>b, <1>6 DEF Notes
<1>10. ReadStill'
  <2>1. \A i \in Irqs : gpio_pc'[H(i)] = "mask" => gpio_pc[H(i)] = "mask" /\ i # g.irq
    BY <1>1, <1>2, <1>h
  <2>2. \A i \in Irqs : ~AtGroup(i, "pend")' => ~AtGroup(i, "pend") /\ i # g.irq
    BY <1>6, <1>g
  <2> QED BY <1>0, <1>7, <2>1, <2>2 DEF ReadStill
<1>11. Counted'
  <2> SUFFICES ASSUME NEW i \in Irqs, NEW p \in PinsServed[i] \intersect EdgePins
               PROVE  LET n == unheard'[<<BankOf[i], p>>]
                          noted == p \in saved'[BankOf[i]] \union act'[i]
                      IN /\ n >= 0
                         /\ p \in edges'[BankOf[i]] \/ noted => n >= 1
                         /\ p \in edges'[BankOf[i]] /\ noted /\ ~AtGroup(i, "eoi")' => n >= 2
    BY DEF Counted
  <2>0. LET n == unheard[<<BankOf[i], p>>]
            noted == p \in saved[BankOf[i]] \union act[i]
        IN /\ n >= 0
           /\ p \in edges[BankOf[i]] \/ noted => n >= 1
           /\ p \in edges[BankOf[i]] /\ noted /\ ~AtGroup(i, "eoi") => n >= 2
    BY DEF Counted
  <2>1. CASE i = g.irq
    <3>1. p \in edges'[BankOf[i]] => p \in edges[BankOf[i]] /\ p \notin saved'[BankOf[i]] \union act'[i]
      BY <1>0, <1>2, <1>3, <1>g, <2>1
    <3> QED BY <1>0, <2>0, <3>1
  <2>2. CASE i # g.irq
    BY <1>0, <1>6, <1>7, <2>0, <2>2
  <2> QED BY <2>1, <2>2
<1>12. EdgeKept'
  <2>1. \A b \in Banks : edges[b] \subseteq edges'[b] \union saved[b]
    BY <1>2, <1>3, <1>g
  <2>2. \A o \in Edges : o[1] \in Banks
    BY DEF Edges
  <2> QED BY <1>0, <2>1, <2>2 DEF EdgeKept, GpioTyped
<1> QED BY <1>4, <1>5, <1>8, <1>9, <1>10, <1>11, <1>12

LEMMA SetPendingInv ==
  ASSUME Divided, GpioInv, NEW j \in Irqs, NEW g, SetPending(j, g)
  PROVE  GpioInv'
<1> USE DEF GpioInv
<1>0. UNCHANGED <<edges, pin_high, mask, saved, raw, act, owed, unheard>>
  BY DEF SetPending, registers, observed
<1>b. gpio_pc[j] = "pend" /\ Goto(j, "todo") /\ At(j, g)
  BY DEF SetPending, Runs
<1>1. gpio_pc' \in [Irqs -> Places] /\ \A i \in Irqs : gpio_pc'[i] = IF i = j THEN "todo" ELSE gpio_pc[i]
  BY <1>b, Goes DEF Places, Looping
<1>2. /\ H(j) = j /\ BankOf[j] \in Banks /\ g \in Groups[BankOf[j]]
      /\ g.irq \in Irqs /\ H(g.irq) = j /\ Home[g.irq] = g /\ BankOf[g.irq] = BankOf[j]
      /\ PinsServed[g.irq] = g.pins /\ g.pins # {} /\ g.pins \subseteq PinsOf(BankOf[j])
      /\ \A i \in Irqs : H(i) = j => BankOf[i] = BankOf[j]
      /\ \A i \in Irqs : BankOf[i] = BankOf[j] => H(i) = j
      /\ \A i \in Irqs : H(i) = j /\ At(j, Home[i]) => i = g.irq
      /\ \A i \in Irqs : i # g.irq /\ BankOf[i] = BankOf[j] => PinsServed[i] \intersect g.pins = {}
  BY <1>b, AtOneGroup DEF Looping
<1>3. /\ gpio_todo' \in [Irqs -> SUBSET AllGroups]
      /\ \A i \in Irqs : gpio_todo'[i] = IF i = j THEN gpio_todo[i] \ {g} ELSE gpio_todo[i]
  BY DEF SetPending, GpioTyped
<1>s. soft' \subseteq Irqs /\ \A i \in Irqs : i # H(i) => (i \in soft' <=> i \in soft \/ i = g.irq)
  BY <1>2 DEF SetPending, GpioTyped, H
<1>4. GpioTyped'
  BY <1>0, <1>1, <1>3, <1>s DEF GpioTyped
<1>5. Loops'
  BY <1>1, <1>3, <1>b, <1>2 DEF Loops, Looping
<1>h. \A i \in Irqs : H(i) \in Irqs /\ BankOf[i] \in Banks
  BY Homes
<1>c. \A i \in Irqs : \A k : i # j => (At(i, k)' <=> At(i, k))
  BY <1>3 DEF At
<1>6. \A i \in Irqs : /\ InHand(i)' <=> InHand(i) /\ i # g.irq
                      /\ AtGroup(i, "save")' <=> AtGroup(i, "save")
                      /\ AtGroup(i, "eoi")' <=> AtGroup(i, "eoi")
                      /\ AtGroup(i, "pend")' <=> AtGroup(i, "pend") /\ i # g.irq
  BY <1>1, <1>2, <1>b, <1>c, <1>h DEF InHand, AtGroup
<1>7. \A i \in Irqs : Home[i] \in gpio_todo'[H(i)] => Home[i] \in gpio_todo[H(i)] /\ i # g.irq
  BY <1>2, <1>3, <1>h
<1>g. /\ g.pins \subseteq mask[BankOf[j]]
      /\ gpio_pc[g.irq] \notin {"group", "clear", "level", "pins"}
      /\ g.irq # j => gpio_pc[g.irq] \in {"idle", "end"}
  <2>1. InHand(g.irq)
    BY <1>2, <1>b DEF InHand
  <2>2. g.irq # j => gpio_pc[g.irq] \notin {"raw", "mask"} \union Looping
    BY <1>2 DEF Loops
  <2> QED BY <1>2, <2>1, <2>2 DEF MaskKept, GpioTyped, Places
<1>8. MaskKept'
  <2> SUFFICES ASSUME NEW i \in Irqs
      PROVE  /\ Home[i] \in gpio_todo'[H(i)] /\ ~InHand(i)' => PinsServed[i] \intersect mask'[BankOf[i]] = {}
             /\ InHand(i)' => /\ PinsServed[i] \subseteq mask'[BankOf[i]]
                              /\ i # H(i) => i \notin soft'
                              /\ gpio_pc'[i] \notin {"group", "clear", "level", "pins"}
             /\ gpio_pc'[i] \in {"clear", "level", "pins"} => PinsServed[i] \subseteq mask'[BankOf[i]]
             /\ i # H(i) /\ (i \in soft' \/ gpio_pc'[i] = "group") => PinsServed[i] \subseteq mask'[BankOf[i]]
             /\ i # H(i) /\ i \in soft' => gpio_pc'[i] \in {"idle", "end"}
    BY DEF MaskKept
  <2>1. CASE i = g.irq
    BY <1>0, <1>1, <1>2, <1>6, <1>7, <1>g, <2>1
  <2>2. CASE i # g.irq
    BY <1>0, <1>1, <1>2, <1>6, <1>7, <1>b, <1>s, <2>2 DEF MaskKept
  <2> QED BY <2>1, <2>2
<1>9. Notes'
  BY <1>0, <1>1, <1>b, <1>6 DEF Notes
<1>10. ReadStill'
  <2>1. \A i \in Irqs : gpio_pc'[H(i)] = "mask" => gpio_pc[H(i)] = "mask"
    BY <1>1, <1>h
  <2> QED BY <1>0, <1>6, <1>7, <2>1 DEF ReadStill
<1>11. Counted' /\ EdgeKept'
  BY <1>0, <1>6 DEF Counted, EdgeKept
<1> QED BY <1>4, <1>5, <1>8, <1>9, <1>10, <1>11

-----------------------------------------------------------------------------
\* A step of a group's handler disturbs no dispatcher.
Serving == {"idle", "group", "clear", "level", "pins", "end"}

LEMMA ServingStep ==
  ASSUME Divided, GpioInv, NEW j \in Irqs, NEW at \in Serving,
         gpio_pc[j] \in Serving, Goto(j, at), gpio_todo' = gpio_todo
  PROVE  /\ gpio_pc' \in [Irqs -> Places] /\ \A i \in Irqs : gpio_pc'[i] = IF i = j THEN at ELSE gpio_pc[i]
         /\ Loops'
         /\ \A i \in Irqs : /\ InHand(i)' <=> InHand(i)
                            /\ AtGroup(i, "save")' <=> AtGroup(i, "save")
                            /\ AtGroup(i, "eoi")' <=> AtGroup(i, "eoi")
                            /\ AtGroup(i, "pend")' <=> AtGroup(i, "pend")
                            /\ gpio_pc'[H(i)] = "mask" <=> gpio_pc[H(i)] = "mask"
<1>1. gpio_pc' \in [Irqs -> Places] /\ \A i \in Irqs : gpio_pc'[i] = IF i = j THEN at ELSE gpio_pc[i]
  BY Goes DEF Serving, Places, GpioInv
<1>2. gpio_todo[j] = {} /\ gpio_todo'[j] = {}
  BY DEF Serving, GpioInv, Loops, Looping
<1>3. Loops'
  BY <1>1, <1>2 DEF GpioInv, Loops, Looping, Serving
<1>4. \A i, k : At(i, k)' <=> At(i, k)
  BY AtStill
<1>5. \A i \in Irqs : H(i) \in Irqs
  BY Homes
<1>6. \A i \in Irqs : /\ InHand(i)' <=> InHand(i)
                      /\ AtGroup(i, "save")' <=> AtGroup(i, "save")
                      /\ AtGroup(i, "eoi")' <=> AtGroup(i, "eoi")
                      /\ AtGroup(i, "pend")' <=> AtGroup(i, "pend")
                      /\ gpio_pc'[H(i)] = "mask" <=> gpio_pc[H(i)] = "mask"
  BY <1>1, <1>4, <1>5 DEF InHand, AtGroup, Serving
<1> QED BY <1>1, <1>3, <1>6

\* Where a handler of a group is, no dispatcher is at that group.
LEMMA ServedAlone ==
  ASSUME Divided, GpioInv, NEW j \in Irqs, gpio_pc[j] \in {"group", "clear", "level", "pins"}
  PROVE  ~InHand(j) /\ ~AtGroup(j, "save") /\ ~AtGroup(j, "eoi") /\ ~AtGroup(j, "pend")
         /\ (j # H(j) => j \notin soft)
<1>1. ~InHand(j)
  BY DEF GpioInv, MaskKept
<1>2. j # H(j) => j \notin soft
  BY DEF GpioInv, MaskKept
<1> QED BY <1>1, <1>2 DEF InHand, AtGroup

LEMMA NotMaskedInv ==
  ASSUME Divided, GpioInv, NEW j \in Irqs, NotMasked(j)
  PROVE  GpioInv'
<1> USE DEF GpioInv
<1>0. UNCHANGED <<edges, pin_high, mask, saved, soft, raw, gpio_todo, act, owed, unheard>>
  BY DEF NotMasked, registers, observed
<1>b. gpio_pc[j] = "group" /\ Goto(j, "idle")
  BY DEF NotMasked, Runs
<1>1. /\ gpio_pc' \in [Irqs -> Places] /\ \A i \in Irqs : gpio_pc'[i] = IF i = j THEN "idle" ELSE gpio_pc[i]
      /\ Loops'
      /\ \A i \in Irqs : /\ InHand(i)' <=> InHand(i)
                         /\ AtGroup(i, "save")' <=> AtGroup(i, "save")
                         /\ AtGroup(i, "eoi")' <=> AtGroup(i, "eoi")
                         /\ AtGroup(i, "pend")' <=> AtGroup(i, "pend")
                         /\ gpio_pc'[H(i)] = "mask" <=> gpio_pc[H(i)] = "mask"
  BY <1>0, <1>b, ServingStep DEF Serving
<1>2. GpioTyped'
  BY <1>0, <1>1 DEF GpioTyped
<1>3. MaskKept'
  BY <1>0, <1>1, <1>b DEF MaskKept
<1>4. Notes'
  BY <1>0, <1>1, <1>b DEF Notes
<1>5. ReadStill' /\ Counted' /\ EdgeKept'
  BY <1>0, <1>1 DEF ReadStill, Counted, EdgeKept
<1> QED BY <1>1, <1>2, <1>3, <1>4, <1>5

LEMMA ReadSavedInv ==
  ASSUME Divided, GpioInv, NEW j \in Irqs, ReadSaved(j)
  PROVE  GpioInv'
<1> USE DEF GpioInv
<1>0. UNCHANGED <<edges, pin_high, mask, saved, soft, raw, gpio_todo, owed, unheard>>
  BY DEF ReadSaved, registers, observed
<1>b. gpio_pc[j] = "group" /\ Goto(j, "clear") /\ PinsServed[j] \subseteq mask[BankOf[j]]
  BY DEF ReadSaved, Runs
<1>1. /\ gpio_pc' \in [Irqs -> Places] /\ \A i \in Irqs : gpio_pc'[i] = IF i = j THEN "clear" ELSE gpio_pc[i]
      /\ Loops'
      /\ \A i \in Irqs : /\ InHand(i)' <=> InHand(i)
                         /\ AtGroup(i, "save")' <=> AtGroup(i, "save")
                         /\ AtGroup(i, "eoi")' <=> AtGroup(i, "eoi")
                         /\ AtGroup(i, "pend")' <=> AtGroup(i, "pend")
                         /\ gpio_pc'[H(i)] = "mask" <=> gpio_pc[H(i)] = "mask"
  BY <1>0, <1>b, ServingStep DEF Serving
<1>2. ~InHand(j) /\ ~AtGroup(j, "save") /\ (j # H(j) => j \notin soft)
  BY <1>b, ServedAlone
<1>3. /\ act' \in [Irqs -> SUBSET AllPins] /\ act[j] = {} /\ act'[j] = saved[BankOf[j]] \intersect PinsServed[j]
      /\ \A i \in Irqs : i # j => act'[i] = act[i]
  <2>1. saved[BankOf[j]] \intersect PinsServed[j] \in SUBSET AllPins
    BY Homes DEF GpioTyped
  <2>2. act[j] = {}
    BY <1>b DEF Notes
  <2> QED BY <2>1, <2>2 DEF ReadSaved, GpioTyped
<1>4. GpioTyped'
  BY <1>0, <1>1, <1>3 DEF GpioTyped
<1>5. MaskKept'
  BY <1>0, <1>1, <1>b, <1>2 DEF MaskKept
<1>6. Notes'
  BY <1>0, <1>1, <1>b, <1>2, <1>3 DEF Notes
<1>7. ReadStill'
  BY <1>0, <1>1 DEF ReadStill
<1>8. \A i \in Irqs : act[i] \subseteq act'[i] /\ act'[i] \subseteq act[i] \union saved[BankOf[i]]
  BY <1>3
<1>9. Counted' /\ EdgeKept'
  BY <1>0, <1>1, <1>8 DEF Counted, EdgeKept
<1> QED BY <1>1, <1>4, <1>5, <1>6, <1>7, <1>9

LEMMA ClearSavedInv ==
  ASSUME Divided, GpioInv, NEW j \in Irqs, ClearSaved(j)
  PROVE  GpioInv'
<1> USE DEF GpioInv
<1>0. UNCHANGED <<edges, pin_high, mask, soft, raw, gpio_todo, act, owed, unheard>>
  BY DEF ClearSaved, observed
<1>b. gpio_pc[j] = "clear" /\ Goto(j, "level")
  BY DEF ClearSaved, Runs
<1>1. /\ gpio_pc' \in [Irqs -> Places] /\ \A i \in Irqs : gpio_pc'[i] = IF i = j THEN "level" ELSE gpio_pc[i]
      /\ Loops'
      /\ \A i \in Irqs : /\ InHand(i)' <=> InHand(i)
                         /\ AtGroup(i, "save")' <=> AtGroup(i, "save")
                         /\ AtGroup(i, "eoi")' <=> AtGroup(i, "eoi")
                         /\ AtGroup(i, "pend")' <=> AtGroup(i, "pend")
                         /\ gpio_pc'[H(i)] = "mask" <=> gpio_pc[H(i)] = "mask"
  BY <1>0, <1>b, ServingStep DEF Serving
<1>2. ~InHand(j) /\ ~AtGroup(j, "save") /\ ~AtGroup(j, "eoi")
  BY <1>b, ServedAlone
<1>h. \A i \in Irqs : BankOf[i] \in Banks
  BY Homes
<1>3. /\ saved' \in [Banks -> SUBSET AllPins]
      /\ \A b \in Banks : saved'[b] = IF b = BankOf[j] THEN saved[b] \ PinsServed[j] ELSE saved[b]
  BY <1>h DEF ClearSaved, GpioTyped
<1>4. GpioTyped'
  <2>1. \A b \in Banks : saved'[b] \subseteq PinsOf(b)
    BY <1>3 DEF GpioTyped
  <2> QED BY <1>0, <1>1, <1>3, <2>1 DEF GpioTyped
<1>5. MaskKept'
  BY <1>0, <1>1, <1>b DEF MaskKept
<1>6. /\ saved'[BankOf[j]] \intersect PinsServed[j] = {} /\ saved[BankOf[j]] \intersect PinsServed[j] \subseteq act[j]
      /\ \A i \in Irqs : i # j => saved'[BankOf[i]] \intersect PinsServed[i] = saved[BankOf[i]] \intersect PinsServed[i]
  <2>1. saved'[BankOf[j]] \intersect PinsServed[j] = {} /\ saved[BankOf[j]] \intersect PinsServed[j] \subseteq act[j]
    BY <1>3, <1>b, <1>h DEF Notes
  <2>2. ASSUME NEW i \in Irqs, i # j
        PROVE  saved'[BankOf[i]] \intersect PinsServed[i] = saved[BankOf[i]] \intersect PinsServed[i]
    <3>1. BankOf[i] = BankOf[j] => PinsServed[i] \intersect PinsServed[j] = {}
      BY <2>2, PinsApart
    <3> QED BY <1>3, <1>h, <3>1
  <2> QED BY <2>1, <2>2
<1>7. Notes'
  BY <1>0, <1>1, <1>b, <1>2, <1>6 DEF Notes
<1>8. ReadStill'
  BY <1>0, <1>1 DEF ReadStill
<1>9. \A i \in Irqs : \A p : p \in PinsServed[i] =>
          (p \in saved'[BankOf[i]] \union act'[i] <=> p \in saved[BankOf[i]] \union act[i])
  BY <1>0, <1>6
<1>10. Counted'
  BY <1>0, <1>1, <1>9 DEF Counted
<1>11. EdgeKept'
  <2>1. \A b \in Banks : \A p : p \in saved[b] => p \in saved'[b] \/ (b = BankOf[j] /\ p \in act'[j])
    BY <1>0, <1>3, <1>6
  <2>2. \A o \in Edges : o[1] \in Banks
    BY DEF Edges
  <2> QED BY <1>0, <2>1, <2>2 DEF EdgeKept, GpioTyped
<1> QED BY <1>1, <1>4, <1>5, <1>7, <1>8, <1>10, <1>11

LEMMA ReadLevelInv ==
  ASSUME Divided, GpioInv, NEW j \in Irqs, ReadLevel(j)
  PROVE  GpioInv'
<1> USE DEF GpioInv
<1>0. UNCHANGED <<edges, pin_high, mask, saved, soft, raw, gpio_todo, owed, unheard>>
  BY DEF ReadLevel, registers, observed
<1>b. gpio_pc[j] = "level" /\ Goto(j, "pins")
  BY DEF ReadLevel, Runs
<1>1. /\ gpio_pc' \in [Irqs -> Places] /\ \A i \in Irqs : gpio_pc'[i] = IF i = j THEN "pins" ELSE gpio_pc[i]
      /\ Loops'
      /\ \A i \in Irqs : /\ InHand(i)' <=> InHand(i)
                         /\ AtGroup(i, "save")' <=> AtGroup(i, "save")
                         /\ AtGroup(i, "eoi")' <=> AtGroup(i, "eoi")
                         /\ AtGroup(i, "pend")' <=> AtGroup(i, "pend")
                         /\ gpio_pc'[H(i)] = "mask" <=> gpio_pc[H(i)] = "mask"
  BY <1>0, <1>b, ServingStep DEF Serving
<1>3. /\ act' \in [Irqs -> SUBSET AllPins]
      /\ act[j] \subseteq act'[j] /\ act'[j] \subseteq PinsServed[j] /\ act'[j] \intersect EdgePins \subseteq act[j]
      /\ \A i \in Irqs : i # j => act'[i] = act[i]
  <2>1. PinsServed[j] \in SUBSET AllPins /\ act[j] \subseteq PinsServed[j]
    BY Homes DEF AllPins, Notes
  <2>2. act[j] \union ((RawStatus(BankOf[j]) \ EdgePins) \intersect PinsServed[j]) \in SUBSET AllPins
    BY <2>1
  <2> QED BY <2>1, <2>2 DEF ReadLevel, GpioTyped
<1>4. GpioTyped'
  BY <1>0, <1>1, <1>3 DEF GpioTyped
<1>5. MaskKept'
  BY <1>0, <1>1, <1>b DEF MaskKept
<1>6. Notes'
  BY <1>0, <1>1, <1>b, <1>3 DEF Notes
<1>7. ReadStill'
  BY <1>0, <1>1 DEF ReadStill
<1>8. \A i \in Irqs : act[i] \subseteq act'[i] /\ act'[i] \intersect EdgePins \subseteq act[i]
  BY <1>3
<1>9. Counted' /\ EdgeKept'
  BY <1>0, <1>1, <1>8 DEF Counted, EdgeKept
<1> QED BY <1>1, <1>4, <1>5, <1>6, <1>7, <1>9

LEMMA DispatchPinInv ==
  ASSUME Divided, GpioInv, NEW j \in Irqs, NEW p, DispatchPin(j, p)
  PROVE  GpioInv'
<1> USE DEF GpioInv
<1>0. UNCHANGED <<edges, mask, saved, soft, gpio_pc, raw, gpio_todo>>
  BY DEF DispatchPin
<1>a. \A i, k : At(i, k)' <=> At(i, k)
  BY <1>0, AtStill
<1>b. gpio_pc[j] = "pins" /\ p \in act[j] /\ p \in PinsServed[j]
  BY DEF DispatchPin, Runs, Notes
<1>1. \A i \in Irqs : /\ InHand(i)' <=> InHand(i)
                      /\ \A at \in {"save", "eoi", "pend"} : AtGroup(i, at)' <=> AtGroup(i, at)
  BY <1>0, <1>a DEF InHand, AtGroup
<1>2. /\ ~AtGroup(j, "eoi") /\ saved[BankOf[j]] \intersect PinsServed[j] = {}
      /\ BankOf[j] \in Banks /\ PinsServed[j] \subseteq PinsOf(BankOf[j])
  BY <1>b, ServedAlone, Homes DEF Notes
<1>3. /\ act' \in [Irqs -> SUBSET AllPins]
      /\ \A i \in Irqs : act'[i] = IF i = j THEN act[i] \ {p} ELSE act[i]
  BY DEF DispatchPin, GpioTyped
<1>4. pin_high' \in [Banks -> SUBSET (AllPins \ EdgePins)]
  <2>1. pin_high[BankOf[j]] \ {p} \in SUBSET (AllPins \ EdgePins)
    BY <1>2 DEF GpioTyped
  <2> QED BY <2>1 DEF DispatchPin, GpioTyped
<1>5. /\ unheard' \in [Edges -> Int] /\ owed' = owed \ {<<BankOf[j], p>>}
      /\ \A o \in Edges : unheard'[o] = IF o = <<BankOf[j], p>> THEN unheard[o] - 1 ELSE unheard[o]
  BY DEF DispatchPin, GpioTyped
<1>6. GpioTyped'
  BY <1>0, <1>3, <1>4, <1>5 DEF GpioTyped
<1>7. Loops' /\ MaskKept'
  BY <1>0, <1>1 DEF Loops, MaskKept
<1>8. Notes'
  BY <1>0, <1>1, <1>b, <1>2, <1>3 DEF Notes
<1>9. ReadStill'
  BY <1>0, <1>1 DEF ReadStill
<1>10. Counted'
  <2> SUFFICES ASSUME NEW i \in Irqs, NEW q \in PinsServed[i] \intersect EdgePins
               PROVE  LET n == unheard'[<<BankOf[i], q>>]
                          noted == q \in saved'[BankOf[i]] \union act'[i]
                      IN /\ n >= 0
                         /\ q \in edges'[BankOf[i]] \/ noted => n >= 1
                         /\ q \in edges'[BankOf[i]] /\ noted /\ ~AtGroup(i, "eoi")' => n >= 2
    BY DEF Counted
  <2>0. LET n == unheard[<<BankOf[i], q>>]
            noted == q \in saved[BankOf[i]] \union act[i]
        IN /\ n >= 0
           /\ q \in edges[BankOf[i]] \/ noted => n >= 1
           /\ q \in edges[BankOf[i]] /\ noted /\ ~AtGroup(i, "eoi") => n >= 2
    BY DEF Counted
  <2>1. <<BankOf[i], q>> \in Edges
    BY Homes DEF Edges
  <2>2. unheard[<<BankOf[i], q>>] \in Int
    BY <2>1 DEF GpioTyped
  <2>3. CASE i = j /\ q = p
    <3>1. unheard'[<<BankOf[i], q>>] = unheard[<<BankOf[i], q>>] - 1
      BY <1>5, <2>1, <2>3
    <3>2. q \in act[i] /\ q \notin saved'[BankOf[i]] \union act'[i] /\ ~AtGroup(i, "eoi")
      BY <1>0, <1>b, <1>2, <1>3, <2>3
    <3> QED BY <1>0, <2>0, <2>2, <3>1, <3>2
  <2>4. CASE ~(i = j /\ q = p)
    <3>1. ~(BankOf[i] = BankOf[j] /\ q = p)
      BY <1>b, <2>4, PinsApart
    <3>2. <<BankOf[i], q>> # <<BankOf[j], p>>
      BY <3>1
    <3>3. unheard'[<<BankOf[i], q>>] = unheard[<<BankOf[i], q>>]
      BY <1>5, <2>1, <3>2
    <3>4. q \in act'[i] <=> q \in act[i]
      BY <1>3, <2>4
    <3> QED BY <1>0, <1>1, <2>0, <3>3, <3>4
  <2> QED BY <2>3, <2>4
<1>11. EdgeKept'
  <2> SUFFICES ASSUME NEW o \in owed'
               PROVE  \/ o[2] \in edges'[o[1]] \union saved'[o[1]]
                      \/ \E i \in Irqs : BankOf[i] = o[1] /\ o[2] \in act'[i]
    BY DEF EdgeKept
  <2>1. o \in owed /\ o # <<BankOf[j], p>>
    BY <1>5
  <2>2. PICK b \in Banks : o \in {b} \X (PinsOf(b) \intersect EdgePins)
    BY <2>1 DEF Edges, GpioTyped
  <2>3. o = <<o[1], o[2]>>
    BY <2>2
  <2>4. CASE \E i \in Irqs : BankOf[i] = o[1] /\ o[2] \in act[i]
    <3>1. PICK i \in Irqs : BankOf[i] = o[1] /\ o[2] \in act[i]
      BY <2>4
    <3>2. ~(i = j /\ o[2] = p)
      BY <2>1, <2>3, <3>1
    <3> QED BY <1>3, <3>1, <3>2
  <2> QED BY <1>0, <2>1, <2>4 DEF EdgeKept
<1> QED BY <1>6, <1>7, <1>8, <1>9, <1>10, <1>11

LEMMA UnmaskInv ==
  ASSUME Divided, GpioInv, NEW j \in Irqs, Unmask(j)
  PROVE  GpioInv'
<1> USE DEF GpioInv
<1>0. UNCHANGED <<edges, pin_high, saved, soft, raw, gpio_todo, act, owed, unheard>>
  BY DEF Unmask, observed
<1>b. gpio_pc[j] = "pins" /\ Goto(j, "end") /\ act[j] = {}
  BY DEF Unmask, Runs
<1>1. /\ gpio_pc' \in [Irqs -> Places] /\ \A i \in Irqs : gpio_pc'[i] = IF i = j THEN "end" ELSE gpio_pc[i]
      /\ Loops'
      /\ \A i \in Irqs : /\ InHand(i)' <=> InHand(i)
                         /\ AtGroup(i, "save")' <=> AtGroup(i, "save")
                         /\ AtGroup(i, "eoi")' <=> AtGroup(i, "eoi")
                         /\ AtGroup(i, "pend")' <=> AtGroup(i, "pend")
                         /\ gpio_pc'[H(i)] = "mask" <=> gpio_pc[H(i)] = "mask"
  BY <1>0, <1>b, ServingStep DEF Serving
<1>2. ~InHand(j) /\ (j # H(j) => j \notin soft) /\ saved[BankOf[j]] \intersect PinsServed[j] = {}
  BY <1>b, ServedAlone DEF Notes
<1>h. \A i \in Irqs : BankOf[i] \in Banks
  BY Homes
<1>3. /\ mask' \in [Banks -> SUBSET AllPins]
      /\ \A b \in Banks : mask'[b] = IF b = BankOf[j] THEN mask[b] \ PinsServed[j] ELSE mask[b]
  BY <1>h DEF Unmask, GpioTyped
<1>4. GpioTyped'
  <2>1. \A b \in Banks : mask'[b] \subseteq PinsOf(b)
    BY <1>3 DEF GpioTyped
  <2> QED BY <1>0, <1>1, <1>3, <2>1 DEF GpioTyped
<1>5. \A i \in Irqs : /\ mask'[BankOf[i]] \subseteq mask[BankOf[i]]
                      /\ i # j /\ PinsServed[i] \subseteq mask[BankOf[i]] => PinsServed[i] \subseteq mask'[BankOf[i]]
  <2> SUFFICES ASSUME NEW i \in Irqs
               PROVE  /\ mask'[BankOf[i]] \subseteq mask[BankOf[i]]
                      /\ i # j /\ PinsServed[i] \subseteq mask[BankOf[i]] => PinsServed[i] \subseteq mask'[BankOf[i]]
    OBVIOUS
  <2>1. i # j /\ BankOf[i] = BankOf[j] => PinsServed[i] \intersect PinsServed[j] = {}
    BY PinsApart
  <2> QED BY <1>3, <1>h, <2>1
<1>6. MaskKept'
  <2> SUFFICES ASSUME NEW i \in Irqs
      PROVE  /\ Home[i] \in gpio_todo'[H(i)] /\ ~InHand(i)' => PinsServed[i] \intersect mask'[BankOf[i]] = {}
             /\ InHand(i)' => /\ PinsServed[i] \subseteq mask'[BankOf[i]]
                              /\ i # H(i) => i \notin soft'
                              /\ gpio_pc'[i] \notin {"group", "clear", "level", "pins"}
             /\ gpio_pc'[i] \in {"clear", "level", "pins"} => PinsServed[i] \subseteq mask'[BankOf[i]]
             /\ i # H(i) /\ (i \in soft' \/ gpio_pc'[i] = "group") => PinsServed[i] \subseteq mask'[BankOf[i]]
             /\ i # H(i) /\ i \in soft' => gpio_pc'[i] \in {"idle", "end"}
    BY DEF MaskKept
  <2>1. Home[i] \in gpio_todo'[H(i)] /\ ~InHand(i)' => PinsServed[i] \intersect mask'[BankOf[i]] = {}
    BY <1>0, <1>1, <1>5 DEF MaskKept
  <2>2. CASE i = j
    BY <1>0, <1>1, <1>2, <2>1, <2>2
  <2>3. CASE i # j
    BY <1>0, <1>1, <1>5, <2>1, <2>3 DEF MaskKept
  <2> QED BY <2>2, <2>3
<1>7. Notes'
  <2> SUFFICES ASSUME NEW i \in Irqs
      PROVE  /\ saved'[BankOf[i]] \intersect PinsServed[i] # {} =>
                    /\ PinsServed[i] \subseteq mask'[BankOf[i]]
                    /\ gpio_pc'[i] \notin {"level", "pins"}
                    /\ ~AtGroup(i, "save")'
             /\ AtGroup(i, "eoi")' => saved'[BankOf[i]] \intersect PinsServed[i] = PinsServed[i] \intersect raw'[H(i)]
             /\ gpio_pc'[i] = "clear" => saved'[BankOf[i]] \intersect PinsServed[i] \subseteq act'[i]
             /\ act'[i] \subseteq PinsServed[i]
             /\ act'[i] # {} => gpio_pc'[i] \in {"clear", "level", "pins"}
    BY DEF Notes
  <2>1. CASE i = j
    BY <1>0, <1>1, <1>b, <1>2, <2>1 DEF Notes
  <2>2. CASE i # j
    BY <1>0, <1>1, <1>5, <2>2 DEF Notes
  <2> QED BY <2>1, <2>2
<1>8. ReadStill' /\ Counted' /\ EdgeKept'
  BY <1>0, <1>1 DEF ReadStill, Counted, EdgeKept
<1> QED BY <1>1, <1>4, <1>6, <1>7, <1>8

LEMMA EndGroupInv ==
  ASSUME Divided, GpioInv, NEW j \in Irqs, EndGroup(j)
  PROVE  GpioInv'
<1> USE DEF GpioInv
<1>0. UNCHANGED <<edges, pin_high, mask, saved, raw, gpio_todo, act, owed, unheard>>
  BY DEF EndGroup, registers, observed
<1>b. gpio_pc[j] = "end" /\ Goto(j, "idle")
  BY DEF EndGroup, Runs
<1>1. /\ gpio_pc' \in [Irqs -> Places] /\ \A i \in Irqs : gpio_pc'[i] = IF i = j THEN "idle" ELSE gpio_pc[i]
      /\ Loops'
      /\ \A i \in Irqs : /\ InHand(i)' <=> InHand(i)
                         /\ AtGroup(i, "save")' <=> AtGroup(i, "save")
                         /\ AtGroup(i, "eoi")' <=> AtGroup(i, "eoi")
                         /\ AtGroup(i, "pend")' <=> AtGroup(i, "pend")
                         /\ gpio_pc'[H(i)] = "mask" <=> gpio_pc[H(i)] = "mask"
  BY <1>0, <1>b, ServingStep DEF Serving
<1>2. soft' \subseteq soft \union {H(j)} /\ H(j) \in Irqs /\ H(H(j)) = H(j)
  BY Homes DEF EndGroup, H
<1>3. GpioTyped'
  BY <1>0, <1>1, <1>2 DEF GpioTyped
<1>4. \A i \in Irqs : i # H(i) /\ i \in soft' => i \in soft
  BY <1>2
<1>5. MaskKept'
  BY <1>0, <1>1, <1>b, <1>4 DEF MaskKept
<1>6. Notes'
  BY <1>0, <1>1, <1>b DEF Notes
<1>7. ReadStill' /\ Counted' /\ EdgeKept'
  BY <1>0, <1>1 DEF ReadStill, Counted, EdgeKept
<1> QED BY <1>1, <1>3, <1>5, <1>6, <1>7

LEMMA GpioNextInv == ASSUME Divided, GpioInv, [GpioNext]_gpioVars PROVE GpioInv'
<1>1. CASE UNCHANGED gpioVars
  <2>1. UNCHANGED <<edges, pin_high, mask, saved, soft, gpio_pc, raw, gpio_todo, act, owed, unheard>>
    BY <1>1 DEF gpioVars, registers, handlers, observed
  <2> QED BY <2>1 DEF GpioInv, GpioTyped, Loops, MaskKept, Notes, ReadStill, Counted, EdgeKept, InHand, AtGroup, At
<1>2. ASSUME NEW b \in Banks, NEW p \in PinsOf(b), PinEvent(b, p) PROVE GpioInv'
  BY <1>2, PinEventInv
<1>3. ASSUME NEW i \in Irqs, Handler(i) PROVE GpioInv'
  BY <1>3, TakeInv, ReadRawStatusInv, ReadMaskInv, MaskGroupInv, SaveInv, EoiInv, SetPendingInv,
     DispatchedInv, NotMaskedInv, ReadSavedInv, ClearSavedInv, ReadLevelInv, DispatchPinInv,
     UnmaskInv, EndGroupInv DEF Handler
<1> QED BY <1>1, <1>2, <1>3 DEF GpioNext

\* A note stands only in a masked pin: every pin of a bank is in a group, and
\* a group's interrupt serves its pins.
LEMMA GpioInvOK == ASSUME Divided, GpioInv PROVE GpioTypeOK /\ EdgeKept /\ MaskedWhileServed /\ CalledForAnEdge
<1> USE DEF GpioInv
<1>1. \A b \in Banks : \A p \in PinsOf(b) : \E i \in Irqs : BankOf[i] = b /\ p \in PinsServed[i]
  <2> SUFFICES ASSUME NEW b \in Banks, NEW p \in PinsOf(b) PROVE \E i \in Irqs : BankOf[i] = b /\ p \in PinsServed[i]
    OBVIOUS
  <2>1. PICK g \in Groups[b] : p \in g.pins
    BY DEF PinsOf
  <2>2. g.irq \in Irqs /\ BankOf[g.irq] = b /\ Home[g.irq] = g
    BY HomeOf
  <2> QED BY <2>1, <2>2, Homes
<1>2. GpioTypeOK
  <2>1. \A b \in Banks : saved[b] \subseteq mask[b]
    <3> SUFFICES ASSUME NEW b \in Banks, NEW p \in saved[b] PROVE p \in mask[b]
      OBVIOUS
    <3>1. PICK i \in Irqs : BankOf[i] = b /\ p \in PinsServed[i]
      BY <1>1 DEF GpioTyped
    <3> QED BY <3>1 DEF Notes
  <2>2. \A b \in Banks : pin_high[b] \intersect EdgePins = {} /\ edges[b] \subseteq EdgePins
    BY DEF GpioTyped
  <2> QED BY <2>1, <2>2 DEF GpioTypeOK, GpioTyped, Notes
<1>3. MaskedWhileServed
  BY DEF MaskedWhileServed, MaskKept
<1>4. CalledForAnEdge
  <2> SUFFICES ASSUME NEW o \in Edges PROVE unheard[o] >= 0
    BY DEF CalledForAnEdge
  <2>1. PICK b \in Banks : o \in {b} \X (PinsOf(b) \intersect EdgePins)
    BY DEF Edges
  <2>2. o = <<b, o[2]>> /\ o[2] \in PinsOf(b) \intersect EdgePins
    BY <2>1
  <2>3. PICK i \in Irqs : BankOf[i] = b /\ o[2] \in PinsServed[i]
    BY <1>1, <2>2
  <2> QED BY <2>2, <2>3 DEF Counted
<1> QED BY <1>2, <1>3, <1>4

\* HAL_GPIO_IRQ_GROUP_DispatchGIRQs and the groups' handlers, without a lock on
\* the registers they share: no edge of a pin is forgotten between the bank's
\* register, the note and the handler that serves it, a group stays masked while
\* it is served, and no pin's handler is called for an edge that did not come.
THEOREM EdgesAreKept ==
  ASSUME Divided
  PROVE  GpioSpec => [](GpioTypeOK /\ EdgeKept /\ MaskedWhileServed /\ CalledForAnEdge)
<1>1. GpioInit => GpioInv
  BY GpioInitInv
<1>2. GpioInv /\ [GpioNext]_gpioVars => GpioInv'
  BY GpioNextInv
<1>3. GpioInv => GpioTypeOK /\ EdgeKept /\ MaskedWhileServed /\ CalledForAnEdge
  BY GpioInvOK
<1> QED BY <1>1, <1>2, <1>3, PTL DEF GpioSpec

-----------------------------------------------------------------------------
(* HalI2c: what the caller of HAL_I2C_Transfer is told is what happened on *)
(* the wire.                                                               *)

\* What a message of n bytes puts on the wire, and what a read gets from it.
Put(n) == <<Address>> \o [k \in 1 .. n |-> Byte(k - 1)]
Got(n) == <<Address>> \o [k \in 1 .. n |-> Answered(k - 1, k < len)]
Taken(n) == [k \in 1 .. n |-> k - 1]

Registers == [en : BOOLEAN, mode : Modes, start : BOOLEAN, stop : BOOLEAN,
              lastack : BOOLEAN, actack : BOOLEAN]

Chunk == Smaller(Fifo, len - processed)

Complete == /\ mode = "tx" => wire = Put(len)
            /\ mode = "trx" => buf = Taken(len) /\ wire = Got(len)

\* Between two messages nothing is left in the controller.
AtRest == /\ i2c_pc = "wait" <=> state # "idle"
          /\ i2c_pc \in {"closed", "next"} => phase = "off" /\ con = Off /\ mtx = <<>> /\ mrx = 0
          /\ isr = "clean" => state = "stop" /\ error = "ERROR"

\* I2C_Start has been called, and the controller has made the START or not.
InStart == state = "start" =>
    /\ ipd \subseteq {"START"} /\ ("START" \in ipd => phase = "open")
    /\ processed = 0 /\ wire = <<>> /\ buf = <<>> /\ ~refused /\ mtx = <<>> /\ mrx = 0
    /\ con.mode = mode /\ (mode = "trx" => len > 0)

\* A refusal stands in IPD until the handler has seen it.
InTransfer == state \in {"start", "write", "read"} =>
    /\ error = "OK" /\ ~con.stop /\ con.actack = ~ignore
    /\ refused <=> "NAKRCV" \in ipd /\ ~ignore
    /\ refused => mtx = <<>> /\ mrx = 0
    /\ state # "start" => phase = "open"

\* A chunk is in TXDATA, or it has gone out.
InWrite == state = "write" =>
    /\ mode = "tx" /\ ipd \subseteq {"BYTE", "MBTF", "NAKRCV"} /\ mrx = 0
    /\ processed > 0 \/ len = 0
    /\ ~refused => \/ mtx # <<>> /\ "MBTF" \notin ipd /\ wire \o mtx = Put(processed)
                   \/ mtx = <<>> /\ wire = Put(processed)

\* A chunk has been asked for, or it is in RXDATA.
InRead == state = "read" =>
    /\ mode = "trx" /\ ipd \subseteq {"BYTE", "MBRF", "NAKRCV"} /\ mtx = <<>>
    /\ processed < len /\ buf = Taken(processed)
    /\ con.mode = IF processed = 0 THEN "trx" ELSE "rx"
    /\ con.lastack <=> len - processed <= Fifo
    /\ ~refused => \/ /\ mrx = Chunk /\ "MBRF" \notin ipd
                      /\ wire = IF processed = 0 THEN <<>> ELSE Got(processed)
                   \/ /\ mrx = 0 /\ rxdata = [k \in 1 .. Chunk |-> processed + k - 1]
                      /\ wire = Got(processed + Chunk)

\* The stop has been asked for: after the last byte, or after a refusal.
InStop == state = "stop" =>
    /\ mtx = <<>> /\ mrx = 0 /\ phase \in {"open", "stopped"}
    /\ error = "OK" => Complete /\ isLast /\ ~refused /\ ipd \subseteq {"BYTE", "STOP"}
    /\ error # "OK" => refused
    /\ "STOP" \in ipd => phase = "stopped" /\ bus = "free"

IsReported == Reported /\ i2c_result # "TIMEOUT" =>
    /\ i2c_result = "OK" => Complete /\ ~refused
    /\ i2c_result # "OK" => refused
    /\ i2c_pc = "done" => phase = "stopped" /\ bus = "free"

I2cInv == /\ I2cTypeOK /\ AtRest /\ InStart /\ InTransfer /\ InWrite /\ InRead /\ InStop
          /\ IsReported

\* Bytes on the wire, one chunk after the other.
Token == {Address} \union {Byte(k) : k \in Nat} \union {Answered(k, a) : k \in Nat, a \in BOOLEAN}

LEMMA FunSeq == ASSUME NEW S, NEW n \in Nat, NEW f \in [1 .. n -> S]
                PROVE  f \in Seq(S) /\ Len(f) = n
OBVIOUS

LEMMA OneAddress == <<Address>> \in Seq(Token) /\ Len(<<Address>>) = 1 /\ <<Address>>[1] = Address
BY DEF Token

LEMMA AfterAddress ==
  ASSUME NEW n \in Nat, NEW f \in [1 .. n -> Token]
  PROVE  /\ <<Address>> \o f \in Seq(Token) /\ Len(<<Address>> \o f) = n + 1
         /\ \A i \in 1 .. n + 1 : (<<Address>> \o f)[i] = IF i = 1 THEN Address ELSE f[i - 1]
<1>1. f \in Seq(Token) /\ Len(f) = n
  BY FunSeq
<1> QED BY <1>1, OneAddress, ConcatProperties

LEMMA ChunkAppended ==
  ASSUME NEW p \in Nat, NEW n \in Nat, NEW f \in [1 .. p + n -> Token], NEW g \in [1 .. p -> Token],
         NEW h \in [1 .. n -> Token], \A k \in 1 .. p : g[k] = f[k], \A k \in 1 .. n : h[k] = f[p + k]
  PROVE  (<<Address>> \o g) \o h = <<Address>> \o f
<1>1. h \in Seq(Token) /\ Len(h) = n
  BY FunSeq
<1>2. /\ <<Address>> \o g \in Seq(Token) /\ Len(<<Address>> \o g) = p + 1
      /\ \A i \in 1 .. p + 1 : (<<Address>> \o g)[i] = IF i = 1 THEN Address ELSE g[i - 1]
  BY AfterAddress
<1>3. p + n \in Nat
  OBVIOUS
<1>4. /\ <<Address>> \o f \in Seq(Token) /\ Len(<<Address>> \o f) = p + n + 1
      /\ \A i \in 1 .. p + n + 1 : (<<Address>> \o f)[i] = IF i = 1 THEN Address ELSE f[i - 1]
  BY <1>3, AfterAddress
<1> DEFINE s == <<Address>> \o g
           t == <<Address>> \o f
<1>5. /\ s \o h \in Seq(Token) /\ Len(s \o h) = p + n + 1
      /\ \A i \in 1 .. p + 1 + n : (s \o h)[i] = IF i <= p + 1 THEN s[i] ELSE h[i - (p + 1)]
  BY <1>1, <1>2, ConcatProperties
<1>6. ASSUME NEW i \in 1 .. p + n + 1 PROVE (s \o h)[i] = t[i]
  <2>1. CASE i = 1
    BY <2>1, <1>2, <1>4, <1>5
  <2>2. CASE i > 1 /\ i <= p + 1
    <3>1. i - 1 \in 1 .. p
      BY <2>2
    <3> QED BY <2>2, <3>1, <1>2, <1>4, <1>5
  <2>3. CASE i > p + 1
    <3>1. i - (p + 1) \in 1 .. n /\ p + (i - (p + 1)) = i - 1
      BY <2>3
    <3>2. h[i - (p + 1)] = f[i - 1]
      BY <3>1
    <3> QED BY <2>3, <3>2, <1>4, <1>5
  <2> QED BY <2>1, <2>2, <2>3
<1> HIDE DEF s, t
<1>7. s \o h = t
  BY <1>4, <1>5, <1>6, SeqEqual DEF t
<1> QED BY <1>7 DEF s, t

LEMMA PutIsSeq ==
  ASSUME NEW n \in Nat
  PROVE  [k \in 1 .. n |-> Byte(k - 1)] \in [1 .. n -> Token] /\ Put(n) \in Seq(Token)
<1>1. [k \in 1 .. n |-> Byte(k - 1)] \in [1 .. n -> Token]
  BY DEF Token
<1> QED BY <1>1, AfterAddress DEF Put

LEMMA PutGrows ==
  ASSUME NEW p \in Nat, NEW n \in Nat
  PROVE  /\ [k \in 1 .. n |-> Byte(p + k - 1)] \in Seq(Token) /\ Len([k \in 1 .. n |-> Byte(p + k - 1)]) = n
         /\ Put(p) \o [k \in 1 .. n |-> Byte(p + k - 1)] = Put(p + n)
<1> DEFINE f == [k \in 1 .. p + n |-> Byte(k - 1)]
           g == [k \in 1 .. p |-> Byte(k - 1)]
           h == [k \in 1 .. n |-> Byte(p + k - 1)]
<1>1. p + n \in Nat /\ \A k \in 1 .. n : p + k \in 1 .. p + n
  OBVIOUS
<1>2. f \in [1 .. p + n -> Token] /\ g \in [1 .. p -> Token]
  BY <1>1, PutIsSeq
<1>3. h \in [1 .. n -> Token]
  BY DEF Token
<1>4. (\A k \in 1 .. p : g[k] = f[k]) /\ \A k \in 1 .. n : h[k] = f[p + k]
  BY <1>1
<1> HIDE DEF f, g, h
<1>5. (<<Address>> \o g) \o h = <<Address>> \o f
  BY <1>2, <1>3, <1>4, ChunkAppended
<1>6. h \in Seq(Token) /\ Len(h) = n
  BY <1>3, FunSeq
<1> QED BY <1>5, <1>6 DEF Put, f, g, h

LEMMA GotIsSeq ==
  ASSUME NEW n \in Nat, len \in Nat
  PROVE  /\ [k \in 1 .. n |-> Answered(k - 1, k < len)] \in [1 .. n -> Token] /\ Got(n) \in Seq(Token)
         /\ Len(Got(n)) = n + 1 /\ Got(n)[1] = Address
         /\ \A i \in 2 .. n + 1 : Got(n)[i] = Answered(i - 2, i - 1 < len)
<1> DEFINE f == [k \in 1 .. n |-> Answered(k - 1, k < len)]
<1>1. f \in [1 .. n -> Token]
  <2> SUFFICES ASSUME NEW k \in 1 .. n PROVE Answered(k - 1, k < len) \in Token
    OBVIOUS
  <2>1. k - 1 \in Nat /\ (k < len) \in BOOLEAN
    OBVIOUS
  <2>2. \A j \in Nat, a \in BOOLEAN : Answered(j, a) \in Token
    BY DEF Token
  <2> QED BY <2>1, <2>2
<1>2. \A i \in 2 .. n + 1 : i - 1 \in 1 .. n /\ f[i - 1] = Answered(i - 2, i - 1 < len)
  <2> SUFFICES ASSUME NEW i \in 2 .. n + 1
               PROVE  i - 1 \in 1 .. n /\ f[i - 1] = Answered(i - 2, i - 1 < len)
    OBVIOUS
  <2>1. i - 1 \in 1 .. n /\ (i - 1) - 1 = i - 2
    OBVIOUS
  <2> QED BY <2>1
<1> HIDE DEF f
<1>3. /\ <<Address>> \o f \in Seq(Token) /\ Len(<<Address>> \o f) = n + 1
      /\ \A i \in 1 .. n + 1 : (<<Address>> \o f)[i] = IF i = 1 THEN Address ELSE f[i - 1]
  BY <1>1, AfterAddress
<1> QED BY <1>1, <1>2, <1>3 DEF Got, f

\* What Received finds on the wire.
LEMMA GotBefore ==
  ASSUME NEW n \in Nat, len \in Nat
  PROVE  Cardinality({k \in DOMAIN Got(n) : Got(n)[k] # Address}) = n
<1>1. \A k \in Nat : \A a : Answered(k, a) # Address
  BY DEF Answered, Address
<1>2. DOMAIN Got(n) = 1 .. n + 1
  BY GotIsSeq, LenProperties
<1>3. {k \in DOMAIN Got(n) : Got(n)[k] # Address} = 2 .. n + 1
  <2>1. \A i \in 2 .. n + 1 : i - 2 \in Nat /\ Got(n)[i] = Answered(i - 2, i - 1 < len)
    BY GotIsSeq
  <2>2. \A i \in 2 .. n + 1 : Got(n)[i] # Address
    BY <1>1, <2>1
  <2>3. Got(n)[1] = Address /\ 1 .. n + 1 = {1} \union (2 .. n + 1)
    BY GotIsSeq
  <2> QED BY <1>2, <2>2, <2>3
<1>4. Cardinality(2 .. n + 1) = n
  BY FS_Interval
<1> QED BY <1>3, <1>4

LEMMA GotGrows ==
  ASSUME len \in Nat, NEW p \in Nat, NEW n \in Nat, NEW h \in [1 .. n -> Token],
         \A k \in 1 .. n : h[k] = Answered(p + k - 1, p + k < len)
  PROVE  Got(p) \o h = Got(p + n)
<1> DEFINE f == [k \in 1 .. p + n |-> Answered(k - 1, k < len)]
           g == [k \in 1 .. p |-> Answered(k - 1, k < len)]
<1>1. p + n \in Nat /\ \A k \in 1 .. n : p + k \in 1 .. p + n
  OBVIOUS
<1>2. f \in [1 .. p + n -> Token] /\ g \in [1 .. p -> Token]
  BY <1>1, GotIsSeq
<1>4. (\A k \in 1 .. p : g[k] = f[k]) /\ \A k \in 1 .. n : h[k] = f[p + k]
  BY <1>1
<1> HIDE DEF f, g
<1>5. (<<Address>> \o g) \o h = <<Address>> \o f
  BY <1>2, <1>4, ChunkAppended
<1> QED BY <1>5 DEF Got, f, g

LEMMA TakenGrows ==
  ASSUME NEW p \in Nat, NEW n \in Nat
  PROVE  Taken(p) \o SubSeq([k \in 1 .. n |-> p + k - 1], 1, n) = Taken(p + n)
<1> DEFINE g == [k \in 1 .. p |-> k - 1]
           h == [k \in 1 .. n |-> p + k - 1]
           f == [k \in 1 .. p + n |-> k - 1]
<1>1. p + n \in Nat /\ \A k \in 1 .. n : p + k \in 1 .. p + n
  OBVIOUS
<1>2. /\ g \in [1 .. p -> Nat] /\ h \in [1 .. n -> Nat] /\ f \in [1 .. p + n -> Nat]
      /\ (\A k \in 1 .. p : g[k] = f[k]) /\ \A k \in 1 .. n : h[k] = f[p + k]
  BY <1>1
<1> HIDE DEF f, g, h
<1>3. g \in Seq(Nat) /\ Len(g) = p /\ h \in Seq(Nat) /\ Len(h) = n /\ f \in Seq(Nat) /\ Len(f) = p + n
  BY <1>1, <1>2, FunSeq
<1>4. SubSeq(h, 1, n) = h
  BY <1>3, SubSeqFull
<1>5. /\ g \o h \in Seq(Nat) /\ Len(g \o h) = p + n
      /\ \A i \in 1 .. p + n : (g \o h)[i] = IF i <= p THEN g[i] ELSE h[i - p]
  BY <1>3, ConcatProperties
<1>6. ASSUME NEW i \in 1 .. p + n PROVE (g \o h)[i] = f[i]
  <2>1. CASE i <= p
    BY <2>1, <1>2, <1>5
  <2>2. CASE i > p
    <3>1. i - p \in 1 .. n /\ p + (i - p) = i
      BY <2>2
    <3> QED BY <2>2, <3>1, <1>2, <1>5
  <2>3. i <= p \/ i > p
    OBVIOUS
  <2> QED BY <2>1, <2>2, <2>3
<1>7. g \o h = f
  BY <1>3, <1>5, <1>6, SeqEqual
<1> QED BY <1>4, <1>7 DEF Taken, f, g, h

-----------------------------------------------------------------------------
LEMMA I2cInitInv == ASSUME I2cInit PROVE I2cInv
<1>1. I2cTypeOK
  <2>1. Off \in Registers
    BY DEF Registers, Off, Modes
  <2>2. Len(buf) = 0 /\ Len(mtx) = 0 /\ Len(rxdata) = 0 /\ Fifo \in Nat
    BY FifoAssumption DEF I2cInit
  <2>3. processed \in 0 .. len /\ mrx \in 0 .. Fifo
    BY FifoAssumption DEF I2cInit
  <2>4. /\ state = "idle" /\ mode = "tx" /\ type = "poll" /\ len = 0
        /\ ignore = FALSE /\ isLast = FALSE /\ error = "OK" /\ con = Off /\ ien = {} /\ ipd = {}
        /\ phase = "off" /\ bus = "free" /\ refused = FALSE
        /\ isr = "none" /\ i2c_pc = "closed" /\ i2c_result = "none"
    BY DEF I2cInit
  <2>5. /\ state \in {"idle", "start", "read", "write", "stop"}
        /\ mode \in {"tx", "trx"} /\ type \in {"poll", "it"} /\ len \in Lens \union {0}
        /\ ignore \in BOOLEAN /\ isLast \in BOOLEAN
    BY <2>4
  <2>6. processed \in 0 .. len /\ error \in Errors /\ Len(buf) <= len
    BY <2>2, <2>3, <2>4 DEF Errors
  <2>7. con \in Registers
    BY <2>1, <2>4
  <2>8. ien \subseteq Bits /\ ipd \subseteq Bits
    BY <2>4
  <2>9. Len(mtx) <= Fifo /\ mrx \in 0 .. Fifo /\ Len(rxdata) <= Fifo
    BY <2>2, <2>3
  <2>10. /\ phase \in {"off", "starting", "open", "stopped"}
         /\ bus \in {"free", "ours"} /\ refused \in BOOLEAN
         /\ isr \in {"none", "clean"} /\ i2c_pc \in {"closed", "wait", "next", "done"}
         /\ i2c_result \in Errors \union {"INVAL", "TIMEOUT", "none"}
    BY <2>4
  <2> QED BY <2>5, <2>6, <2>7, <2>8, <2>9, <2>10 DEF I2cTypeOK, Registers
<1>2. AtRest /\ InStart /\ InTransfer /\ InWrite /\ InRead /\ InStop /\ IsReported
  BY DEF I2cInit, AtRest, InStart, InTransfer, InWrite, InRead, InStop, IsReported, Reported
<1> QED BY <1>1, <1>2 DEF I2cInv

LEMMA TransferInv ==
  ASSUME I2cInv, NEW m \in {"tx", "trx"}, NEW t \in Types, NEW n \in Lens, NEW i \in BOOLEAN, NEW last \in BOOLEAN,
         Transfer(m, t, n, i, last)
  PROVE  I2cInv'
<1> USE DEF I2cInv, Registers
<1>1. /\ mode' = m /\ type' = t /\ len' = n /\ ignore' = i /\ isLast' = last
      /\ processed' = 0 /\ error' = "OK" /\ buf' = <<>> /\ ipd' = {} /\ state' = "start"
      /\ con' = [Off EXCEPT !.en = TRUE, !.mode = m, !.start = TRUE, !.actack = ~i]
      /\ phase' = "starting" /\ wire' = <<>> /\ refused' = FALSE
      /\ i2c_pc' = "wait" /\ i2c_result' = "none"
      /\ UNCHANGED <<mtx, mrx, rxdata, bus, isr>> /\ (m = "trx" => n > 0)
      /\ i2c_pc \in {"closed", "next"}
  BY DEF Transfer, fifos
<1>2. mtx = <<>> /\ mrx = 0 /\ isr # "clean"
  BY <1>1 DEF AtRest
<1>3. con' = [en |-> TRUE, mode |-> m, start |-> TRUE, stop |-> FALSE, lastack |-> FALSE, actack |-> ~i]
  BY <1>1 DEF Off
<1>4. I2cTypeOK'
  <2>1. ien' \subseteq Bits
    BY DEF Transfer, I2cTypeOK, Bits
  <2>2. Len(buf') = 0 /\ n \in Nat /\ type' \in {"poll", "it"}
    BY <1>1, FifoAssumption, TypesAssumption
  <2>3. con' \in Registers
    BY <1>3 DEF Modes
  <2>4. processed' \in 0 .. len' /\ len' \in Lens \union {0} /\ Len(buf') <= len'
    BY <1>1, <2>2
  <2> QED BY <1>1, <2>1, <2>2, <2>3, <2>4 DEF I2cTypeOK, Errors
<1>5. AtRest' /\ InStart'
  BY <1>1, <1>2, <1>3 DEF AtRest, InStart
<1>6. InTransfer'
  <2>1. con'.actack = ~ignore' /\ con'.stop = FALSE
    <3>1. con'.stop = FALSE /\ con'.actack = (~i)
      BY <1>3
    <3> QED BY <1>1, <3>1
  <2> QED BY <1>1, <2>1 DEF InTransfer
<1>7. InWrite' /\ InRead' /\ InStop' /\ IsReported'
  BY <1>1 DEF InWrite, InRead, InStop, IsReported, Reported
<1> QED BY <1>4, <1>5, <1>6, <1>7

LEMMA ForceStopInv == ASSUME I2cInv, ForceStop PROVE I2cInv'
<1> USE DEF I2cInv
<1>1. /\ isr # "clean" /\ ien' = {} /\ state' = "idle" /\ i2c_pc' = "done" /\ i2c_result' = "TIMEOUT"
      /\ con' = [en |-> TRUE, mode |-> "tx", start |-> FALSE, stop |-> TRUE, lastack |-> FALSE, actack |-> FALSE]
      /\ UNCHANGED <<mode, type, len, ignore, isLast, processed, error, buf, ipd, mtx, mrx, rxdata>>
      /\ UNCHANGED <<phase, bus, wire, refused, isr>>
  BY DEF ForceStop, message, fifos, line, Off
<1>2. I2cTypeOK'
  BY <1>1 DEF I2cTypeOK, Modes
<1>3. AtRest' /\ InStart' /\ InTransfer' /\ InWrite' /\ InRead' /\ InStop' /\ IsReported'
  BY <1>1 DEF AtRest, InStart, InTransfer, InWrite, InRead, InStop, IsReported
<1> QED BY <1>2, <1>3

LEMMA CloseInv == ASSUME I2cInv, Close PROVE I2cInv'
<1> USE DEF I2cInv, Registers
<1>1. /\ i2c_pc = "done" /\ ien' = {} /\ i2c_pc' = "closed" /\ phase' = "off" /\ mtx' = <<>> /\ mrx' = 0
      /\ con' = Off
      /\ UNCHANGED <<state, mode, type, len, ignore, isLast, processed, error, buf, ipd, rxdata>>
      /\ UNCHANGED <<bus, wire, refused, isr, i2c_result>>
  BY DEF Close, handle
<1>2. state = "idle" /\ isr # "clean"
  BY <1>1 DEF AtRest, I2cTypeOK
<1>3. I2cTypeOK'
  <2>1. Off \in Registers
    BY DEF Off, Modes
  <2>2. Len(mtx') = 0 /\ Fifo \in Nat
    BY <1>1, FifoAssumption
  <2> QED BY <1>1, <2>1, <2>2 DEF I2cTypeOK
<1>4. AtRest' /\ InStart' /\ InTransfer' /\ InWrite' /\ InRead' /\ InStop' /\ IsReported'
  BY <1>1, <1>2 DEF AtRest, InStart, InTransfer, InWrite, InRead, InStop, IsReported, Reported
<1> QED BY <1>3, <1>4

-----------------------------------------------------------------------------
\* HAL_I2C_IRQHandler works while a caller waits.
LEMMA CalledWaits == ASSUME I2cInv, Called, state # "idle" PROVE i2c_pc = "wait" /\ isr = "none"
BY DEF I2cInv, AtRest, Called

LEMMA ConFields ==
  ASSUME I2cTypeOK
  PROVE  /\ [con EXCEPT !.stop = TRUE] \in Registers
         /\ [con EXCEPT !.stop = FALSE] \in Registers
         /\ [con EXCEPT !.start = FALSE] \in Registers
         /\ Off \in Registers
BY DEF Registers, I2cTypeOK, Off, Modes

\* I2C_Stop after an error: the handle waits for the stop.
LEMMA StopFailed ==
  ASSUME I2cInv, NEW err \in {"ERROR", "NODEV"}, Stop(err), i2c_pc = "wait", refused,
         mtx = <<>>, mrx = 0, phase \in {"open", "stopped"},
         ipd' \subseteq ipd, "STOP" \in ipd => phase = "stopped" /\ bus = "free",
         isr' = "clean" => err = "ERROR", isr' \in {"none", "clean"},
         UNCHANGED <<message, buf, fifos, bus, wire, refused>>
  PROVE  I2cInv'
<1> USE DEF I2cInv, Registers
<1>1. /\ processed' = 0 /\ error' = err /\ state' = "stop" /\ con' = [con EXCEPT !.stop = TRUE]
      /\ UNCHANGED <<i2c_pc, i2c_result, phase>>
      /\ UNCHANGED <<mode, type, len, ignore, isLast, buf, mtx, mrx, rxdata, bus, wire, refused>>
  BY DEF Stop, StopLast, Busy, message, fifos
<1>2. I2cTypeOK'
  <2>1. ien' \subseteq Bits
    BY DEF Stop, StopLast, I2cTypeOK, Bits
  <2>2. processed' \in 0 .. len'
    BY <1>1, FifoAssumption DEF I2cTypeOK
  <2> QED BY <1>1, <2>1, <2>2, ConFields DEF I2cTypeOK, Errors
<1>3. AtRest' /\ InStart' /\ InTransfer' /\ InWrite' /\ InRead' /\ InStop' /\ IsReported'
  BY <1>1 DEF AtRest, InStart, InTransfer, InWrite, InRead, InStop, IsReported, Reported
<1> QED BY <1>2, <1>3

\* I2C_Stop after the last byte: of the last message, or of another.
LEMMA StopDone ==
  ASSUME I2cInv, Stop("OK"), state # "idle", i2c_pc = "wait", isr = "none", ~refused,
         mtx = <<>>, mrx = 0, phase = "open", ipd' \subseteq {"BYTE"},
         Complete', Len(buf') <= len,
         UNCHANGED <<message, mtx, mrx, rxdata, bus, wire, refused, isr>>
  PROVE  I2cInv'
<1> USE DEF I2cInv, Registers
<1>1. /\ processed' = 0 /\ error' = "OK"
      /\ UNCHANGED <<mode, type, len, ignore, isLast, mtx, mrx, rxdata, bus, wire, refused, isr>>
  BY DEF Stop, message
<1>2. processed' \in 0 .. len'
  BY <1>1, FifoAssumption DEF I2cTypeOK
<1>3. CASE isLast
  <2>1. state' = "stop" /\ con' = [con EXCEPT !.stop = TRUE] /\ UNCHANGED <<i2c_pc, i2c_result, phase>>
    BY <1>3 DEF Stop, StopLast, Busy
  <2>2. ien' \subseteq Bits
    BY <1>3 DEF Stop, StopLast, I2cTypeOK, Bits
  <2>3. I2cTypeOK'
    BY <1>1, <1>2, <2>1, <2>2, ConFields DEF I2cTypeOK, Errors, Bits
  <2>4. AtRest' /\ InStart' /\ InTransfer' /\ InWrite' /\ InRead' /\ InStop' /\ IsReported'
    BY <1>1, <1>3, <2>1 DEF AtRest, InStart, InTransfer, InWrite, InRead, InStop, IsReported, Reported
  <2> QED BY <2>3, <2>4
<1>4. CASE ~isLast
  <2>1. /\ state' = "idle" /\ con' = Off /\ phase' = "off" /\ ien' = ien
        /\ i2c_pc' = "next" /\ i2c_result' = "OK"
    BY <1>4 DEF Stop, StopNext, Report
  <2>2. I2cTypeOK'
    BY <1>1, <1>2, <2>1, ConFields DEF I2cTypeOK, Errors, Bits
  <2>3. AtRest' /\ InStart' /\ InTransfer' /\ InWrite' /\ InRead' /\ InStop' /\ IsReported'
    BY <1>1, <2>1 DEF AtRest, InStart, InTransfer, InWrite, InRead, InStop, IsReported, Reported
  <2> QED BY <2>2, <2>3
<1> QED BY <1>3, <1>4

LEMMA RefusedInv == ASSUME I2cInv, Refused PROVE I2cInv'
<1> USE DEF I2cInv
<1>1. /\ Called /\ state # "idle" /\ "NAKRCV" \in ipd /\ ~ignore
      /\ ipd' = ipd \ {"NAKRCV"} /\ Stop("NODEV")
      /\ UNCHANGED <<message, buf, fifos, bus, wire, refused, isr>>
  BY DEF Refused, Refusal, Seen
<1>2. i2c_pc = "wait" /\ isr = "none"
  BY <1>1, CalledWaits
<1>3. state # "start"
  BY <1>1 DEF InStart
<1>4. state \in {"write", "read", "stop"}
  BY <1>1, <1>3 DEF I2cTypeOK
<1>5. refused /\ mtx = <<>> /\ mrx = 0 /\ phase \in {"open", "stopped"}
  BY <1>1, <1>4 DEF InTransfer, InStop
<1>6. "STOP" \in ipd => phase = "stopped" /\ bus = "free"
  BY <1>4 DEF InWrite, InRead, InStop
<1> QED BY <1>1, <1>2, <1>5, <1>6, StopFailed

\* Only after a refusal the handler finds a bit that it does not wait for.
LEMMA UnexpectedInv ==
  ASSUME I2cInv, Called, state = "stop", error # "OK", Unexpected
  PROVE  I2cInv'
<1> USE DEF I2cInv
<1>1. i2c_pc = "wait" /\ isr = "none"
  BY CalledWaits
<1>2. refused /\ mtx = <<>> /\ mrx = 0 /\ phase \in {"open", "stopped"}
      /\ ("STOP" \in ipd => phase = "stopped" /\ bus = "free")
  BY DEF InStop
<1>3. Stop("ERROR") /\ isr' = "clean" /\ ipd' = ipd /\ UNCHANGED <<message, buf, fifos, bus, wire, refused>>
  BY DEF Unexpected
<1> QED BY <1>1, <1>2, <1>3, StopFailed

LEMMA HandleStartInv == ASSUME I2cInv, HandleStart PROVE I2cInv'
<1> USE DEF I2cInv, Registers
<1>1. Called /\ state = "start" /\ Rest # {}
  BY DEF HandleStart, Quiet
<1>2. i2c_pc = "wait" /\ isr = "none"
  BY <1>1, CalledWaits
<1>3. /\ "START" \in Rest /\ ipd \subseteq {"START"} /\ phase = "open"
      /\ processed = 0 /\ wire = <<>> /\ buf = <<>> /\ ~refused /\ mtx = <<>> /\ mrx = 0
      /\ con.mode = mode /\ (mode = "trx" => len > 0)
      /\ error = "OK" /\ ~con.stop /\ con.actack = ~ignore
  BY <1>1 DEF InStart, InTransfer, Rest, Seen
<1>4. /\ ipd' = {} /\ UNCHANGED <<i2c_pc, i2c_result>>
      /\ UNCHANGED <<mode, type, len, ignore, isLast, error, buf, rxdata, phase, bus, wire, refused, isr>>
  BY <1>1, <1>3 DEF HandleStart, Busy, message, line
<1>5. len \in Nat /\ Fifo \in Nat \ {0, 1}
  BY FifoAssumption DEF I2cTypeOK
<1>6. CASE mode = "tx"
  <2>1. /\ state' = "write" /\ con' = [con EXCEPT !.start = FALSE] /\ mrx' = mrx
        /\ FillTransmitBuf
    BY <1>1, <1>3, <1>6 DEF HandleStart
  <2> DEFINE n == Smaller(Fifo - 1, len)
  <2>2. n \in 0 .. len /\ n + 1 <= Fifo /\ (n > 0 \/ len = 0)
    BY <1>5 DEF Smaller
  <2>3. mtx' = Put(n) /\ processed' = n
    <3>1. Fifo - Len(<<Address>>) = Fifo - 1 /\ len - processed = len
      BY <1>3, <1>5, OneAddress
    <3>2. mtx' = <<Address>> \o [k \in 1 .. n |-> Byte(processed + k - 1)] /\ processed' = processed + n
      BY <1>3, <2>1, <3>1 DEF FillTransmitBuf
    <3>3. [k \in 1 .. n |-> Byte(processed + k - 1)] = [k \in 1 .. n |-> Byte(k - 1)]
      BY <1>3
    <3> QED BY <1>3, <2>2, <3>2, <3>3 DEF Put
  <2> HIDE DEF n
  <2>4. mtx' \in Seq(Token) /\ Len(mtx') = n + 1 /\ mtx' # <<>>
    <3>1. n \in Nat
      BY <1>5, <2>2
    <3>2. Put(n) \in Seq(Token) /\ Len(Put(n)) = n + 1
      BY <3>1, PutIsSeq, AfterAddress DEF Put
    <3> QED BY <3>1, <3>2, <2>3, EmptySeq
  <2>5. wire' \o mtx' = Put(processed')
    BY <1>3, <1>4, <2>3, <2>4, ConcatEmptySeq
  <2>6. ien' \subseteq Bits
    BY <1>1, <1>3, <1>6 DEF HandleStart, I2cTypeOK, Bits
  <2>7. con'.stop = con.stop /\ con'.actack = con.actack
    BY <2>1 DEF I2cTypeOK
  <2>8. I2cTypeOK'
    BY <1>4, <2>1, <2>2, <2>3, <2>4, <2>6, ConFields DEF I2cTypeOK
  <2>9. AtRest' /\ InStart' /\ InTransfer'
    BY <1>2, <1>3, <1>4, <2>1, <2>7 DEF AtRest, InStart, InTransfer
  <2>10. InWrite' /\ InRead' /\ InStop' /\ IsReported'
    BY <1>2, <1>3, <1>4, <1>6, <2>1, <2>2, <2>3, <2>4, <2>5 DEF InWrite, InRead, InStop, IsReported, Reported
  <2> QED BY <2>8, <2>9, <2>10
<1>7. CASE mode = "trx"
  <2>0. PrepareRead(0, [con EXCEPT !.start = FALSE])
    BY <1>1, <1>3, <1>7 DEF HandleStart
  <2>1. /\ state' = "read" /\ mtx' = mtx /\ processed' = 0
        /\ con' = [[con EXCEPT !.start = FALSE] EXCEPT !.lastack = len <= Fifo]
        /\ mrx' = Smaller(len, Fifo)
    <3>1. len - 0 = len
      BY <1>5
    <3> QED BY <1>1, <1>3, <1>7, <2>0, <3>1 DEF HandleStart, PrepareRead
  <2>2. mrx' \in 0 .. Fifo /\ mrx' = Smaller(Fifo, len - 0)
    BY <1>5, <2>1 DEF Smaller
  <2>3. ien' \subseteq Bits
    BY <1>1, <1>3, <1>7 DEF HandleStart, I2cTypeOK, Bits
  <2>4. /\ con' \in Registers
        /\ con'.stop = con.stop /\ con'.actack = con.actack /\ con'.mode = con.mode
        /\ con'.lastack = (len <= Fifo)
    <3>1. (len <= Fifo) \in BOOLEAN
      BY <1>5
    <3> QED BY <2>1, <3>1 DEF I2cTypeOK
  <2>5. I2cTypeOK'
    BY <1>3, <1>4, <2>1, <2>2, <2>3, <2>4 DEF I2cTypeOK
  <2>6. AtRest' /\ InStart' /\ InTransfer'
    BY <1>2, <1>3, <1>4, <2>1, <2>4 DEF AtRest, InStart, InTransfer
  <2>7. buf' = Taken(0)
    BY <1>3, <1>4 DEF Taken
  <2>8. InRead'
    <3>1. Chunk' = Smaller(Fifo, len - 0) /\ mrx' = Chunk'
      BY <1>4, <2>1, <2>2 DEF Chunk
    <3>2. (con'.lastack <=> len' - processed' <= Fifo) /\ processed' < len'
      <4>1. len > 0 /\ len' = len /\ processed' = 0
        BY <1>3, <1>4, <1>7, <2>1
      <4>2. len' - processed' = len
        BY <1>5, <4>1
      <4>3. con'.lastack <=> len <= Fifo
        BY <2>4
      <4> QED BY <4>1, <4>2, <4>3
    <3>3. mode' = "trx" /\ con'.mode = "trx" /\ processed' = 0 /\ ipd' = {} /\ mtx' = <<>> /\ wire' = <<>>
      BY <1>3, <1>4, <1>7, <2>1, <2>4
    <3>4. buf' = Taken(processed')
      BY <2>1, <2>7
    <3> QED BY <3>1, <3>2, <3>3, <3>4 DEF InRead, Taken
  <2>9. InWrite' /\ InStop' /\ IsReported'
    BY <1>2, <1>4, <2>1 DEF InWrite, InStop, IsReported, Reported
  <2> QED BY <2>5, <2>6, <2>8, <2>9
<1> QED BY <1>6, <1>7 DEF I2cTypeOK

LEMMA HandleWriteInv == ASSUME I2cInv, HandleWrite PROVE I2cInv'
<1> USE DEF I2cInv
<1>1. Called /\ state = "write" /\ Rest # {} /\ ~Refusal
  BY DEF HandleWrite, Quiet
<1>2. i2c_pc = "wait" /\ isr = "none"
  BY <1>1, CalledWaits
<1>3. /\ "MBTF" \in Rest /\ ipd \subseteq {"BYTE", "MBTF", "NAKRCV"} /\ mode = "tx" /\ mrx = 0
      /\ error = "OK" /\ ~con.stop /\ con.actack = ~ignore /\ phase = "open" /\ ~refused
      /\ mtx = <<>> /\ wire = Put(processed) /\ (processed > 0 \/ len = 0)
  BY <1>1 DEF InWrite, InTransfer, Rest, Seen, Refusal
<1>4. ipd' \subseteq {"BYTE"} /\ UNCHANGED <<mode, type, len, ignore, isLast, buf, mrx, rxdata, bus, wire, refused, isr>>
  BY <1>1, <1>3 DEF HandleWrite, message
<1>5. len \in Nat /\ Fifo \in Nat \ {0, 1} /\ processed \in 0 .. len
  BY FifoAssumption DEF I2cTypeOK
<1>6. CASE processed = len
  <2>1. Stop("OK") /\ mtx' = mtx
    BY <1>1, <1>3, <1>6 DEF HandleWrite
  <2>2. Complete'
    BY <1>3, <1>4, <1>6 DEF Complete, Put
  <2>3. UNCHANGED message
    BY <1>4 DEF message
  <2>4. Len(buf') <= len
    BY <1>4 DEF I2cTypeOK
  <2> QED BY <1>1, <1>2, <1>3, <1>4, <2>1, <2>2, <2>3, <2>4, StopDone
<1>7. CASE processed # len
  <2>1. FillTransmitBuf /\ UNCHANGED <<i2c_pc, i2c_result, state, error, con, ien, phase>>
    BY <1>1, <1>3, <1>7 DEF HandleWrite, Busy
  <2> DEFINE n == Smaller(Fifo, len - processed)
             h == [k \in 1 .. n |-> Byte(processed + k - 1)]
  <2>2. n \in Nat \ {0} /\ n <= Fifo /\ processed + n \in 0 .. len /\ processed \in Nat /\ processed > 0
    BY <1>3, <1>5, <1>7 DEF Smaller
  <2>3. mtx' = h /\ processed' = processed + n
    <3>1. Fifo - Len(<<>>) = Fifo
      BY <1>5
    <3>2. mtx' = <<>> \o h /\ processed' = processed + n
      BY <2>1, <2>2, <3>1 DEF FillTransmitBuf
    <3>3. h \in Seq(Token)
      BY <2>2, PutGrows
    <3> QED BY <3>2, <3>3, ConcatEmptySeq
  <2>4. h \in Seq(Token) /\ Len(h) = n /\ Put(processed) \o h = Put(processed + n)
    BY <2>2, PutGrows
  <2> HIDE DEF n, h
  <2>5. mtx' # <<>> /\ Len(mtx') <= Fifo
    BY <2>2, <2>3, <2>4, EmptySeq
  <2>6. I2cTypeOK'
    BY <1>4, <2>1, <2>2, <2>3, <2>5 DEF I2cTypeOK, Bits
  <2>7. AtRest' /\ InStart' /\ InTransfer'
    BY <1>1, <1>2, <1>3, <1>4, <2>1 DEF AtRest, InStart, InTransfer
  <2>8. InWrite'
    <3>1. wire' \o mtx' = Put(processed')
      BY <1>3, <1>4, <2>3, <2>4
    <3> QED BY <1>3, <1>4, <2>2, <2>3, <2>5, <3>1 DEF InWrite
  <2>9. InRead' /\ InStop' /\ IsReported'
    BY <1>1, <1>2, <1>4, <2>1 DEF InRead, InStop, IsReported, Reported
  <2> QED BY <2>6, <2>7, <2>8, <2>9
<1> QED BY <1>6, <1>7

LEMMA HandleReadInv == ASSUME I2cInv, HandleRead PROVE I2cInv'
<1> USE DEF I2cInv, Registers
<1>1. Called /\ state = "read" /\ Rest # {} /\ ~Refusal
  BY DEF HandleRead, Quiet
<1>2. i2c_pc = "wait" /\ isr = "none"
  BY <1>1, CalledWaits
<1>3. /\ "MBRF" \in Rest /\ ipd \subseteq {"BYTE", "MBRF", "NAKRCV"} /\ mode = "trx" /\ mtx = <<>>
      /\ error = "OK" /\ ~con.stop /\ con.actack = ~ignore /\ phase = "open" /\ ~refused
      /\ mrx = 0 /\ rxdata = [k \in 1 .. Chunk |-> processed + k - 1]
      /\ wire = Got(processed + Chunk) /\ processed < len /\ buf = Taken(processed)
  BY <1>1 DEF InRead, InTransfer, Rest, Seen, Refusal
<1>5. len \in Nat /\ Fifo \in Nat \ {0, 1} /\ processed \in Nat
  BY FifoAssumption DEF I2cTypeOK
<1> DEFINE done == processed + Chunk
<1>6. Chunk \in Nat \ {0} /\ done \in 1 .. len /\ done - processed = Chunk
  BY <1>3, <1>5 DEF Smaller, Chunk
<1>4. /\ ipd' \subseteq {"BYTE"} /\ buf' = buf \o SubSeq(rxdata, 1, done - processed)
      /\ UNCHANGED <<mode, type, len, ignore, isLast, mtx, rxdata, bus, wire, refused, isr>>
  BY <1>1, <1>3 DEF HandleRead, message, Chunk
<1>7. buf' = Taken(done)
  BY <1>3, <1>4, <1>5, <1>6, TakenGrows
<1>8. Len(buf') = done /\ done <= len
  <2>1. Taken(done) \in [1 .. done -> Nat]
    BY <1>6 DEF Taken
  <2> QED BY <1>6, <1>7, <2>1, FunSeq
<1>9. CASE done = len
  <2>1. Stop("OK") /\ mrx' = mrx
    BY <1>1, <1>3, <1>9 DEF HandleRead, Chunk
  <2>2. Complete'
    BY <1>3, <1>4, <1>7, <1>9 DEF Complete, Got, Taken
  <2>3. UNCHANGED message
    BY <1>4 DEF message
  <2> QED BY <1>1, <1>2, <1>3, <1>4, <1>8, <2>1, <2>2, <2>3, StopDone
<1>10. CASE done # len
  <2>1. /\ processed' = done /\ PrepareRead(done, con)
        /\ UNCHANGED <<i2c_pc, i2c_result, state, error, ien, phase>>
    BY <1>1, <1>3, <1>10 DEF HandleRead, Busy, Chunk
  <2>2. /\ con' = [[con EXCEPT !.mode = "rx"] EXCEPT !.lastack = len - done <= Fifo]
        /\ mrx' = Smaller(len - done, Fifo)
    <3>1. done # 0
      BY <1>5, <1>6
    <3> QED BY <3>1, <2>1 DEF PrepareRead
  <2>3. mrx' \in 0 .. Fifo /\ mrx' = Smaller(Fifo, len - done)
    BY <1>5, <1>6, <2>2 DEF Smaller
  <2>4. /\ con' \in Registers
        /\ con'.stop = con.stop /\ con'.actack = con.actack /\ con'.mode = "rx"
        /\ con'.lastack = (len - done <= Fifo)
    <3>1. (len - done <= Fifo) \in BOOLEAN
      BY <1>5, <1>6
    <3> QED BY <2>2, <3>1 DEF I2cTypeOK, Modes
  <2>5. processed' \in 0 .. len /\ processed' < len /\ processed' # 0
    BY <1>5, <1>6, <1>10, <2>1
  <2>6. I2cTypeOK'
    <3>1. Len(buf') <= len' /\ processed' \in 0 .. len'
      BY <1>4, <1>5, <1>6, <1>8, <2>5
    <3>2. ipd' \subseteq Bits
      BY <1>4 DEF Bits
    <3> QED BY <1>4, <2>1, <2>3, <2>4, <3>1, <3>2 DEF I2cTypeOK
  <2>7. AtRest' /\ InStart' /\ InTransfer'
    BY <1>1, <1>2, <1>3, <1>4, <2>1, <2>4 DEF AtRest, InStart, InTransfer
  <2>8. InRead'
    <3>1. wire' = Got(processed)' /\ buf' = Taken(processed)' /\ mrx' = Chunk'
      BY <1>3, <1>4, <1>7, <2>1, <2>3 DEF Got, Taken, Chunk
    <3> QED BY <1>3, <1>4, <2>1, <2>4, <2>5, <3>1 DEF InRead
  <2>9. InWrite' /\ InStop' /\ IsReported'
    BY <1>1, <1>2, <1>4, <2>1 DEF InWrite, InStop, IsReported, Reported
  <2> QED BY <2>6, <2>7, <2>8, <2>9
<1> QED BY <1>9, <1>10

LEMMA HandleStopInv == ASSUME I2cInv, HandleStop PROVE I2cInv'
<1> USE DEF I2cInv, Registers
<1>1. Called /\ state = "stop" /\ Rest # {} /\ ~Refusal
  BY DEF HandleStop, Quiet
<1>2. i2c_pc = "wait" /\ isr = "none"
  BY <1>1, CalledWaits
<1>3. CASE "STOP" \notin Rest
  <2>1. Unexpected
    BY <1>1, <1>3 DEF HandleStop
  <2>2. error # "OK"
    BY <1>1, <1>3 DEF InStop, Rest, Seen
  <2> QED BY <1>1, <2>1, <2>2, UnexpectedInv
<1>4. CASE "STOP" \in Rest
  <2>1. /\ ipd' \subseteq ipd /\ con' = [con EXCEPT !.stop = FALSE] /\ state' = "idle" /\ Report(error)
        /\ UNCHANGED <<mode, type, len, ignore, isLast, processed, error, buf, ien, mtx, mrx, rxdata>>
        /\ UNCHANGED <<phase, bus, wire, refused, isr>>
    BY <1>1, <1>4 DEF HandleStop, message, fifos, line
  <2>2. /\ phase = "stopped" /\ bus = "free" /\ (error = "OK" => Complete /\ isLast /\ ~refused)
        /\ (error # "OK" => refused)
    BY <1>1, <1>4 DEF InStop, Rest, Seen
  <2>3. i2c_pc' = "done" /\ i2c_result' = error
    BY <2>1, <2>2 DEF Report
  <2>4. I2cTypeOK'
    BY <2>1, <2>3, ConFields DEF I2cTypeOK
  <2>5. Complete => Complete'
    BY <2>1 DEF Complete, Got, Taken, Put
  <2>6. AtRest' /\ InStart' /\ InTransfer' /\ InWrite' /\ InRead' /\ InStop'
    BY <1>2, <2>1, <2>3 DEF AtRest, InStart, InTransfer, InWrite, InRead, InStop
  <2>7. IsReported'
    BY <2>1, <2>2, <2>3, <2>5 DEF IsReported, Reported
  <2> QED BY <2>4, <2>6, <2>7
<1> QED BY <1>3, <1>4

\* What a step leaves alone keeps what was complete.
LEMMA CompleteKept == ASSUME Complete, UNCHANGED <<mode, len, buf, wire>> PROVE Complete'
BY DEF Complete, Put, Got, Taken

LEMMA IgnoredInv == ASSUME I2cInv, Ignored PROVE I2cInv'
<1> USE DEF I2cInv
<1>1. /\ Called /\ ~Refusal /\ "NAKRCV" \in ipd /\ ipd' = ipd \ {"NAKRCV"} /\ state # "idle"
      /\ UNCHANGED <<state, mode, type, len, ignore, isLast, processed, error, buf, con, ien>>
      /\ UNCHANGED <<mtx, mrx, rxdata, phase, bus, wire, refused, isr, i2c_pc, i2c_result>>
  BY DEF Ignored, handle, fifos, line
<1>2. ignore
  BY <1>1 DEF Refusal, Seen
<1>3. I2cTypeOK'
  BY <1>1 DEF I2cTypeOK
<1>4. AtRest' /\ InStart' /\ InTransfer'
  BY <1>1, <1>2 DEF AtRest, InStart, InTransfer
<1>5. InWrite'
  BY <1>1 DEF InWrite, Put
<1>6. InRead'
  BY <1>1 DEF InRead, Got, Taken, Chunk
<1>7. InStop' /\ IsReported'
  BY <1>1, CompleteKept DEF InStop, IsReported, Reported
<1> QED BY <1>3, <1>4, <1>5, <1>6, <1>7

LEMMA CleanInv == ASSUME I2cInv, Clean PROVE I2cInv'
<1> USE DEF I2cInv
<1>1. /\ isr = "clean" /\ ipd' = {} /\ isr' = "none"
      /\ UNCHANGED <<state, mode, type, len, ignore, isLast, processed, error, buf, con, ien>>
      /\ UNCHANGED <<mtx, mrx, rxdata, phase, bus, wire, refused, i2c_pc, i2c_result>>
  BY DEF Clean, handle, fifos, line
<1>2. state = "stop" /\ error = "ERROR"
  BY <1>1 DEF AtRest
<1>3. I2cTypeOK'
  BY <1>1 DEF I2cTypeOK
<1>4. AtRest' /\ InStart' /\ InTransfer' /\ InWrite' /\ InRead' /\ InStop'
  BY <1>1, <1>2 DEF AtRest, InStart, InTransfer, InWrite, InRead, InStop
<1>5. IsReported'
  BY <1>1, CompleteKept DEF IsReported, Reported
<1> QED BY <1>3, <1>4, <1>5

-----------------------------------------------------------------------------
\* What the controller and the slave leave alone.
Software == <<state, mode, type, len, ignore, isLast, processed, error, buf, con, ien, isr,
              i2c_pc, i2c_result>>

LEMMA GenStartInv == ASSUME I2cInv, GenStart PROVE I2cInv'
<1> USE DEF I2cInv
<1>1. /\ phase = "starting" /\ phase' = "open" /\ bus' = "ours" /\ ipd' = ipd \union {"START"}
      /\ UNCHANGED Software /\ UNCHANGED <<mtx, mrx, rxdata, wire, refused>>
  BY DEF GenStart, Untouched, handle, Software
<1>2. state \in {"start", "idle"}
  BY <1>1 DEF I2cTypeOK, InTransfer, InStop
<1>3. I2cTypeOK'
  BY <1>1 DEF I2cTypeOK, Bits, Software
<1>4. AtRest' /\ InStart' /\ InTransfer' /\ InWrite' /\ InRead' /\ InStop'
  BY <1>1, <1>2 DEF AtRest, InStart, InTransfer, InWrite, InRead, InStop, Software
<1>5. IsReported'
  BY <1>1 DEF IsReported, Reported, Software, AtRest
<1> QED BY <1>3, <1>4, <1>5

\* Where a chunk is in TXDATA: in a write, or after the caller has given up.
LEMMA Sending ==
  ASSUME I2cInv, mtx # <<>>
  PROVE  \/ state = "write" /\ ~refused
         \/ state = "idle" /\ i2c_pc = "done" /\ (phase = "open" => i2c_result = "TIMEOUT")
BY DEF I2cInv, I2cTypeOK, AtRest, InStart, InTransfer, InWrite, InRead, InStop, IsReported, Reported

LEMMA SentInv == ASSUME I2cInv, Sent PROVE I2cInv'
<1> USE DEF I2cInv
<1>1. /\ phase = "open" /\ mtx # <<>> /\ wire' = wire \o mtx /\ mtx' = <<>>
      /\ ipd' = ipd \union {"BYTE", "MBTF"}
      /\ UNCHANGED Software /\ UNCHANGED <<mrx, rxdata, phase, bus, refused>>
  BY DEF Sent, Untouched, handle, Software
<1>2. I2cTypeOK'
  <2>1. Len(mtx') <= Fifo
    BY <1>1, FifoAssumption
  <2> QED BY <1>1, <2>1 DEF I2cTypeOK, Bits, Software
<1>3. CASE state = "write" /\ ~refused
  <2>1. wire' = Put(processed')
    BY <1>1, <1>3 DEF InWrite, Put, Software
  <2>2. InWrite'
    BY <1>1, <1>3, <2>1 DEF InWrite, Software
  <2>3. AtRest' /\ InStart' /\ InTransfer' /\ InRead' /\ InStop' /\ IsReported'
    BY <1>1, <1>3 DEF AtRest, InStart, InTransfer, InRead, InStop, IsReported, Reported, Software
  <2> QED BY <1>2, <2>2, <2>3
<1>4. CASE state = "idle" /\ i2c_pc = "done" /\ i2c_result = "TIMEOUT"
  BY <1>1, <1>2, <1>4
     DEF AtRest, InStart, InTransfer, InWrite, InRead, InStop, IsReported, Reported, Software
<1> QED BY <1>1, <1>3, <1>4, Sending

LEMMA SentUntilInv == ASSUME I2cInv, NEW k \in 1 .. Fifo, SentUntil(k) PROVE I2cInv'
<1> USE DEF I2cInv
<1>1. /\ phase = "open" /\ k <= Len(mtx) /\ con.actack /\ mtx' = <<>> /\ refused' = TRUE
      /\ "NAKRCV" \in ipd' /\ ipd' \subseteq ipd \union {"BYTE", "NAKRCV", "MBTF"}
      /\ UNCHANGED Software /\ UNCHANGED <<mrx, rxdata, phase, bus>>
  BY DEF SentUntil, Untouched, handle, Software
<1>2. mtx # <<>>
  BY <1>1, FifoAssumption
<1>3. I2cTypeOK'
  <2>1. Len(mtx') <= Fifo
    BY <1>1, FifoAssumption
  <2> QED BY <1>1, <2>1 DEF I2cTypeOK, Bits, Software
<1>4. CASE state = "write" /\ ~refused
  BY <1>1, <1>3, <1>4
     DEF AtRest, InStart, InTransfer, InWrite, InRead, InStop, IsReported, Reported, Software
<1>5. CASE state = "idle" /\ i2c_pc = "done" /\ i2c_result = "TIMEOUT"
  BY <1>1, <1>3, <1>5
     DEF AtRest, InStart, InTransfer, InWrite, InRead, InStop, IsReported, Reported, Software
<1> QED BY <1>1, <1>2, <1>4, <1>5, Sending

\* Where a chunk is asked for: in a read, or after the caller has given up.
LEMMA Asking ==
  ASSUME I2cInv, mrx > 0
  PROVE  \/ state = "read" /\ ~refused
         \/ state = "idle" /\ i2c_pc = "done" /\ (phase = "open" => i2c_result = "TIMEOUT")
BY DEF I2cInv, I2cTypeOK, AtRest, InStart, InTransfer, InWrite, InRead, InStop, IsReported, Reported

LEMMA NackBitInv == ASSUME I2cInv, NackBit PROVE I2cInv'
<1> USE DEF I2cInv
<1>1. /\ phase = "open" /\ ~con.actack /\ (mtx # <<>> \/ mrx > 0) /\ ipd' = ipd \union {"NAKRCV"}
      /\ UNCHANGED Software /\ UNCHANGED <<mtx, mrx, rxdata, phase, bus, wire, refused>>
  BY DEF NackBit, Untouched, handle, Software, line
<1>2. I2cTypeOK'
  BY <1>1 DEF I2cTypeOK, Bits, Software
<1>3. CASE state = "write" /\ ~refused
  <2>1. InWrite'
    BY <1>1, <1>3 DEF InWrite, Put, Software
  <2>2. AtRest' /\ InStart' /\ InTransfer' /\ InRead' /\ InStop' /\ IsReported'
    BY <1>1, <1>3 DEF AtRest, InStart, InTransfer, InRead, InStop, IsReported, Reported, Software
  <2> QED BY <1>2, <2>1, <2>2
<1>4. CASE state = "read" /\ ~refused
  <2>1. InRead'
    BY <1>1, <1>4 DEF InRead, Got, Taken, Chunk, Software
  <2>2. AtRest' /\ InStart' /\ InTransfer' /\ InWrite' /\ InStop' /\ IsReported'
    BY <1>1, <1>4 DEF AtRest, InStart, InTransfer, InWrite, InStop, IsReported, Reported, Software
  <2> QED BY <1>2, <2>1, <2>2
<1>5. CASE state = "idle" /\ i2c_pc = "done" /\ i2c_result = "TIMEOUT"
  BY <1>1, <1>2, <1>5
     DEF AtRest, InStart, InTransfer, InWrite, InRead, InStop, IsReported, Reported, Software
<1> QED BY <1>1, <1>3, <1>4, <1>5, Sending, Asking

\* The chunk that a read has asked for, as it arrives.
LEMMA ChunkArrives ==
  ASSUME I2cInv, Received, state = "read", ~refused
  PROVE  /\ wire' = Got(processed + Chunk)
         /\ rxdata' = [k \in 1 .. Chunk |-> processed + k - 1] /\ mrx' = 0
         /\ Chunk \in Nat \ {0} /\ Chunk <= Fifo
<1> USE DEF I2cInv
<1>1. /\ mrx = Chunk /\ con.mode = (IF processed = 0 THEN "trx" ELSE "rx")
      /\ (con.lastack <=> len - processed <= Fifo) /\ processed < len
      /\ wire = IF processed = 0 THEN <<>> ELSE Got(processed)
  BY DEF InRead, Received
<1>2. len \in Nat /\ Fifo \in Nat \ {0, 1} /\ processed \in Nat
  BY FifoAssumption DEF I2cTypeOK
<1>3. Chunk \in Nat \ {0} /\ Chunk <= Fifo /\ Chunk <= len - processed /\ (Chunk = Fifo \/ Chunk = len - processed)
  BY <1>1, <1>2 DEF Chunk, Smaller
<1> DEFINE first == Cardinality({k \in DOMAIN wire : wire[k] # Address})
           address == IF con.mode = "trx" THEN <<Address>> ELSE <<>>
           h == [k \in 1 .. mrx |-> Answered(first + k - 1, k < mrx \/ ~con.lastack)]
<1>4. /\ rxdata' = [k \in 1 .. mrx |-> first + k - 1] /\ wire' = wire \o address \o h
      /\ mrx' = 0
  BY DEF Received
<1> HIDE DEF h
<1>5. first = processed /\ wire \o address = Got(processed)
  <2>1. CASE processed = 0
    <3>1. wire = <<>> /\ address = <<Address>>
      BY <1>1, <2>1
    <3>2. {k \in DOMAIN wire : wire[k] # Address} = {}
      BY <3>1
    <3>3. first = 0
      BY <3>2, FS_EmptySet
    <3>4. [k \in 1 .. 0 |-> Answered(k - 1, k < len)] = <<>>
      OBVIOUS
    <3>5. Got(0) = <<Address>> /\ <<>> \o <<Address>> = <<Address>>
      BY <3>4, OneAddress, ConcatEmptySeq DEF Got
    <3> QED BY <2>1, <3>1, <3>3, <3>5
  <2>2. CASE processed # 0
    <3>1. wire = Got(processed) /\ address = <<>>
      BY <1>1, <2>2
    <3>2. first = processed
      BY <1>2, <3>1, GotBefore
    <3>3. Got(processed) \o <<>> = Got(processed)
      BY <1>2, GotIsSeq, ConcatEmptySeq
    <3> QED BY <3>1, <3>2, <3>3
  <2> QED BY <2>1, <2>2
<1> HIDE DEF first, address
<1>6. h \in [1 .. Chunk -> Token] /\ \A k \in 1 .. Chunk : h[k] = Answered(processed + k - 1, processed + k < len)
  <2> SUFFICES ASSUME NEW k \in 1 .. Chunk
               PROVE  /\ Answered(first + k - 1, k < mrx \/ ~con.lastack) = Answered(processed + k - 1, processed + k < len)
                      /\ Answered(processed + k - 1, processed + k < len) \in Token
    BY <1>1 DEF h
  <2>1. (k < Chunk \/ ~con.lastack) <=> processed + k < len
    BY <1>1, <1>2, <1>3
  <2>2. processed + k - 1 \in Nat /\ (processed + k < len) \in BOOLEAN /\ first + k - 1 = processed + k - 1
    BY <1>2, <1>5, <1>3
  <2>3. (k < mrx \/ ~con.lastack) = (processed + k < len)
    BY <1>1, <2>1, <2>2
  <2>4. \A j \in Nat, a \in BOOLEAN : Answered(j, a) \in Token
    BY DEF Token
  <2> QED BY <2>2, <2>3, <2>4
<1>7. Got(processed) \o h = Got(processed + Chunk)
  BY <1>2, <1>3, <1>6, GotGrows
<1> QED BY <1>1, <1>3, <1>4, <1>5, <1>7

LEMMA ReceivedInv == ASSUME I2cInv, Received PROVE I2cInv'
<1> USE DEF I2cInv
<1>1. /\ phase = "open" /\ mrx > 0 /\ mrx' = 0 /\ ipd' = ipd \union {"BYTE", "MBRF"}
      /\ UNCHANGED Software /\ UNCHANGED <<mtx, phase, bus, refused>>
  BY DEF Received, handle, Software
<1>2. I2cTypeOK'
  <2>1. Len(rxdata') <= Fifo
    <3> DEFINE first == Cardinality({k \in DOMAIN wire : wire[k] # Address})
    <3>1. rxdata' = [k \in 1 .. mrx |-> first + k - 1] /\ mrx \in Nat /\ mrx <= Fifo
      BY FifoAssumption DEF Received, I2cTypeOK
    <3> HIDE DEF first
    <3>2. rxdata' \in [1 .. mrx -> {first + k - 1 : k \in 1 .. mrx}]
      BY <3>1
    <3>3. Len(rxdata') = mrx
      BY <3>1, <3>2, FunSeq
    <3> QED BY <3>1, <3>3
  <2>2. mrx' \in 0 .. Fifo
    BY <1>1, FifoAssumption
  <2> QED BY <1>1, <2>1, <2>2 DEF I2cTypeOK, Bits, Software
<1>3. CASE state = "read" /\ ~refused
  <2>1. /\ wire' = Got(processed + Chunk)
        /\ rxdata' = [k \in 1 .. Chunk |-> processed + k - 1] /\ mrx' = 0
    BY <1>3, ChunkArrives
  <2>2. InRead'
    <3>1. wire' = Got(processed + Chunk)' /\ rxdata' = [k \in 1 .. Chunk |-> processed + k - 1]'
      BY <1>1, <2>1 DEF Got, Chunk, Software
    <3>2. buf = Taken(processed) /\ buf' = Taken(processed')
      BY <1>1, <1>3 DEF InRead, Taken, Software
    <3> QED BY <1>1, <1>3, <2>1, <3>1, <3>2 DEF InRead, Got, Taken, Chunk, Software
  <2>3. AtRest' /\ InStart' /\ InTransfer' /\ InWrite' /\ InStop' /\ IsReported'
    BY <1>1, <1>3 DEF AtRest, InStart, InTransfer, InWrite, InStop, IsReported, Reported, Software
  <2> QED BY <1>2, <2>2, <2>3
<1>4. CASE state = "idle" /\ i2c_pc = "done" /\ i2c_result = "TIMEOUT"
  BY <1>1, <1>2, <1>4
     DEF AtRest, InStart, InTransfer, InWrite, InRead, InStop, IsReported, Reported, Software
<1> QED BY <1>1, <1>3, <1>4, Asking

LEMMA NoAnswerInv == ASSUME I2cInv, NoAnswer PROVE I2cInv'
<1> USE DEF I2cInv
<1>1. /\ phase = "open" /\ mrx > 0 /\ con.actack /\ mrx' = 0 /\ refused' = TRUE
      /\ ipd' = ipd \union {"BYTE", "NAKRCV"}
      /\ UNCHANGED Software /\ UNCHANGED <<mtx, rxdata, phase, bus>>
  BY DEF NoAnswer, Untouched, handle, Software
<1>2. I2cTypeOK'
  <2>1. mrx' \in 0 .. Fifo
    BY <1>1, FifoAssumption
  <2> QED BY <1>1, <2>1 DEF I2cTypeOK, Bits, Software
<1>3. CASE state = "read" /\ ~refused
  <2>1. InRead'
    BY <1>1, <1>3 DEF InRead, Taken, Software
  <2>2. AtRest' /\ InStart' /\ InTransfer' /\ InWrite' /\ InStop' /\ IsReported'
    BY <1>1, <1>3 DEF AtRest, InStart, InTransfer, InWrite, InRead, InStop, IsReported, Reported, Software
  <2> QED BY <1>2, <2>1, <2>2
<1>4. CASE state = "idle" /\ i2c_pc = "done" /\ i2c_result = "TIMEOUT"
  BY <1>1, <1>2, <1>4
     DEF AtRest, InStart, InTransfer, InWrite, InRead, InStop, IsReported, Reported, Software
<1> QED BY <1>1, <1>3, <1>4, Asking

LEMMA GenStopInv == ASSUME I2cInv, GenStop PROVE I2cInv'
<1> USE DEF I2cInv
<1>1. /\ con.stop /\ phase # "stopped" /\ phase' = "stopped" /\ bus' = "free"
      /\ ipd' = ipd \union {"STOP"}
      /\ UNCHANGED Software /\ UNCHANGED <<mtx, mrx, rxdata, wire, refused>>
  BY DEF GenStop, Untouched, handle, Software
<1>2. ~Off.stop
  BY DEF Off
<1>3. state \in {"stop", "idle"} /\ i2c_pc \notin {"closed", "next"}
  BY <1>1, <1>2 DEF I2cTypeOK, InTransfer, AtRest
<1>4. I2cTypeOK'
  BY <1>1 DEF I2cTypeOK, Bits, Software
<1>5. AtRest' /\ InStart' /\ InTransfer' /\ InWrite' /\ InRead'
  BY <1>1, <1>3 DEF AtRest, InStart, InTransfer, InWrite, InRead, Software
<1>6. InStop'
  BY <1>1, <1>3, CompleteKept DEF InStop, Software
<1>7. IsReported'
  BY <1>1, CompleteKept DEF IsReported, Reported, Software
<1> QED BY <1>4, <1>5, <1>6, <1>7

-----------------------------------------------------------------------------
LEMMA I2cNextInv == ASSUME I2cInv, [I2cNext]_i2cVars PROVE I2cInv'
<1>1. CASE UNCHANGED i2cVars
  <2>1. /\ UNCHANGED <<state, mode, type, len, ignore, isLast, processed, error, buf, con, ien, ipd>>
        /\ UNCHANGED <<mtx, mrx, rxdata, phase, bus, wire, refused, isr, i2c_pc, i2c_result>>
    BY <1>1 DEF i2cVars, handle, fifos, line
  <2>2. I2cTypeOK' /\ AtRest' /\ InStart' /\ InTransfer'
    BY <2>1 DEF I2cInv, I2cTypeOK, AtRest, InStart, InTransfer
  <2>3. InWrite' /\ InRead' /\ InStop' /\ IsReported'
    BY <2>1 DEF I2cInv, InWrite, InRead, InStop, IsReported, Reported, Complete, Put, Got, Taken, Chunk
  <2> QED BY <2>2, <2>3 DEF I2cInv
<1>2. CASE \E m \in {"tx", "trx"}, t \in Types, n \in Lens, i, last \in BOOLEAN : Transfer(m, t, n, i, last)
  BY <1>2, TransferInv
<1>3. CASE ForceStop \/ Close
  BY <1>3, ForceStopInv, CloseInv
<1>4. CASE IRQHandler
  BY <1>4, RefusedInv, HandleStartInv, HandleWriteInv, HandleReadInv, HandleStopInv, IgnoredInv, CleanInv
     DEF IRQHandler
<1>5. CASE Controller
  BY <1>5, GenStartInv, SentInv, ReceivedInv, GenStopInv DEF Controller
<1>6. CASE Slave
  BY <1>6, NackBitInv, NoAnswerInv, SentUntilInv DEF Slave
<1> QED BY <1>1, <1>2, <1>3, <1>4, <1>5, <1>6 DEF I2cNext

\* A caller that is told the result is told what happened.
LEMMA ToldTrue == ASSUME I2cInv PROVE TransferTrue
<1> USE DEF I2cInv
<1>1. Written
  BY DEF Written, IsReported, Complete, Put
<1>2. ReadRight
  BY DEF ReadRight, IsReported, Complete, Got, Taken
<1>3. RefusalReported /\ BusFreed
  BY DEF RefusalReported, BusFreed, IsReported, Reported
<1> QED BY <1>1, <1>2, <1>3 DEF TransferTrue

\* For any fifo, any lengths, polled or with interrupts: what the caller of
\* HAL_I2C_Transfer is told is what happened on the wire.  A message that is
\* reported done went out, or came in, completely, in order and from one
\* selection of the slave, however it fell into chunks; a refusal is reported
\* if and only if there was one; and the bus is free.
THEOREM TransferIsTrue == I2cSpec => [](I2cTypeOK /\ TransferTrue)
<1>1. I2cInit => I2cInv
  BY I2cInitInv
<1>2. I2cInv /\ [I2cNext]_i2cVars => I2cInv'
  BY I2cNextInv
<1>3. I2cInv => I2cTypeOK /\ TransferTrue
  BY ToldTrue DEF I2cInv
<1> QED BY <1>1, <1>2, <1>3, PTL DEF I2cSpec

-----------------------------------------------------------------------------
(* The drivers side by side.                                               *)

LEMMA EachDriver == Spec => /\ MuxInit /\ [][MuxNext]_intmuxVars
                            /\ TimerSpec
                            /\ GpioSpec
                            /\ I2cSpec
<1>1. Init => MuxInit /\ TimerInit /\ GpioInit /\ I2cInit
  BY DEF Init, MuxRest, TimerRest
<1>2. [Next]_vars => [MuxNext]_intmuxVars
  BY DEF Next, vars, driverVars, lockVars
<1>3. [Next]_vars => [TimerNext]_timerVars
  BY DEF Next, vars, driverVars, lockVars
<1>4. [Next]_vars => [GpioNext]_gpioVars
  BY DEF Next, vars, driverVars, lockVars
<1>5. [Next]_vars => [I2cNext]_i2cVars
  BY DEF Next, vars, driverVars, lockVars
<1>6. Spec => Init /\ [][Next]_vars
  BY PTL DEF Spec
<1> QED BY <1>1, <1>2, <1>3, <1>4, <1>5, <1>6, PTL DEF TimerSpec, GpioSpec, I2cSpec

\* The variables of the run keep their types, for any outputs, controllers,
\* rates, delays, groups, FIFO and lengths; the three things that the GPIO
\* groups keep because of the masking are among them.
THEOREM DriversTypes ==
  ASSUME Rates, Divided
  PROVE  Spec => []DriversTypeOK
<1>1. TimerSpec => []TimerTypeOK
  BY TimeIsKept, PTL
<1>2. GpioSpec => [](GpioTypeOK /\ EdgeKept /\ MaskedWhileServed /\ CalledForAnEdge)
  BY EdgesAreKept
<1>3. /\ MuxTypeOK /\ TimerTypeOK /\ I2cTypeOK
      /\ GpioTypeOK /\ MaskedWhileServed /\ CalledForAnEdge
      => DriversTypeOK
  BY DEF DriversTypeOK
<1> QED BY <1>1, <1>2, <1>3, EachDriver, DriversStayConnected, TransferIsTrue, PTL

\* What the run of the drivers checks of the multiplexer, of the timer, of the
\* GPIO groups and of the I2C master, for any outputs, controllers, rates,
\* delays, groups, FIFO and lengths: no driver is disconnected, no time is
\* wrong, no edge is lost, no caller is told what did not happen.
THEOREM DriversAreSafe ==
  ASSUME Rates, Divided
  PROVE  Spec => []DriversConnected /\ []ReadIsCurrent /\ TimeKept /\ []EdgeKept /\ []TransferTrue
<1>1. GpioSpec => []EdgeKept
  BY EdgesAreKept, PTL
<1> QED BY <1>1, EachDriver, DriversStayConnected, CountIsCurrent, TimeIsKept, TransferIsTrue, PTL
=============================================================================
