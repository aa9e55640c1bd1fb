--------------------------- MODULE CanReceiveProof ---------------------------
(***************************************************************************)
(* Proofs about CanReceive, for any identifiers, any number of instances   *)
(* and any depth of the receive FIFO: every frame that is stored for an    *)
(* instance reaches it, and none is left behind without an interrupt.      *)
(***************************************************************************)
EXTENDS CanReceive, SequenceTheorems, TLAPS

\* What the code relies on: nobody turns the receive interrupts off, and the
\* handler drains a whole FIFO.
Receives == \A mask \in BootMasks \union RunMasks : "RX" \in mask
Drained == FifoDepth <= DrainLimit

Booting == main_pc \in {"boot", "started", "cleared", "irqs_off"}

\* The slots behind the last one are empty; the one being published holds its
\* instance or is not counted.
Published == main_pc # "publish" => \A s \in RxSlot : s >= idx => can_instance[s] = NoInstance
Publishing ==
    main_pc = "publish" =>
        /\ reg.slot \in RxSlot /\ reg.id \in Ids \union {AnyId}
        /\ \/ idx = reg.slot + 1 /\ can_instance[reg.slot] = NoInstance
           \/ idx = reg.slot
        /\ \A s \in RxSlot : s > reg.slot => can_instance[s] = NoInstance

\* A frame is due to instances that are in the table still.
DueThere == \A k \in 1..Len(fifo) : fifo[k].due \subseteq Targets(fifo[k].id)

\* Before __enable_irq the handler does not run and no instance is registered;
\* after it receive interrupts are let through.
Phases == /\ ~irq_on <=> Booting
          /\ Booting => isr_pc = "idle" /\ idx = 0
          /\ main_pc \in {"irqs_off", "idle", "publish", "apply"} => "rx" \in unmasked
          /\ "RX" \in s_mask
          /\ isr_pc # "drain" => guard = 0

\* A frame that somebody waits for is announced by a bit that is latched or was
\* read, or the handler that is draining comes to it before its limit.
Announced == \/ "rx" \in INT
             \/ isr_pc = "clear" /\ "rx" \in isr
             \/ isr_pc = "drain" /\ Len(fifo) <= DrainLimit - guard
NoneForgotten == (\E k \in 1..Len(fifo) : fifo[k].due # {}) => Announced

ReceiveInv == /\ RxTypeOK /\ missed = {}
              /\ Published /\ Publishing /\ DueThere /\ Phases /\ NoneForgotten


-----------------------------------------------------------------------------
LEMMA ReceiveInvInit == ASSUME Receives PROVE RxInit => ReceiveInv
<1> SUFFICES ASSUME RxInit PROVE ReceiveInv
  OBVIOUS
<1>1. fifo \in Seq(Frame) /\ Len(fifo) = 0
  BY DEF RxInit
<1>2. s_mask \subseteq {"RX", "TX"} /\ "RX" \in s_mask
  BY MaskAssumption DEF RxInit, Receives
<1>3. RxTypeOK
  <2>1. {FifoDepth, DrainLimit, Slots} \subseteq Nat
    BY DepthAssumption
  <2>2. Len(fifo) <= FifoDepth /\ guard \in 0..DrainLimit /\ idx \in 0..Slots /\ reg.slot \in 0..Slots
    BY <1>1, <2>1 DEF RxInit
  <2>3. can_instance \in [RxSlot -> Ids \cup {AnyId, NoInstance}]
    BY DEF RxInit
  <2> QED BY <1>1, <1>2, <2>2, <2>3 DEF RxInit, RxTypeOK, Bits
<1>4. Published /\ Publishing
  BY DEF RxInit, Published, Publishing
<1>5. DueThere /\ NoneForgotten
  <2>1. ~\E k \in 1..Len(fifo) : TRUE
    BY <1>1
  <2> QED BY <2>1 DEF DueThere, NoneForgotten
<1>6. Phases
  BY <1>2 DEF RxInit, Phases, Booting
<1> QED BY <1>3, <1>4, <1>5, <1>6 DEF ReceiveInv, RxInit

\* An empty slot matches nothing.
LEMMA EmptyMatchesNone == \A id \in Ids \union {Ext} : ~Accepts(NoInstance, id)
  BY NullAssumption DEF Accepts

\* What is due stays due while instances are only added.
LEMMA MoreTargets ==
  ASSUME RxTypeOK, DueThere, UNCHANGED fifo,
         \A s \in RxSlot : s < idx /\ can_instance[s] # NoInstance => s < idx' /\ can_instance'[s] = can_instance[s]
  PROVE  DueThere'
<1> SUFFICES ASSUME NEW k \in 1..Len(fifo), NEW s \in fifo[k].due PROVE s \in Targets(fifo[k].id)'
  BY DEF DueThere
<1>1. fifo[k] \in Frame
  BY DEF RxTypeOK
<1>2. fifo[k].id \in Ids \union {Ext} /\ s \in RxSlot
  BY <1>1 DEF Frame
<1>3. s < idx /\ Accepts(can_instance[s], fifo[k].id)
  BY <1>2 DEF DueThere, Targets
<1>4. can_instance[s] # NoInstance
  BY <1>2, <1>3, EmptyMatchesNone
<1> QED BY <1>2, <1>3, <1>4 DEF Targets

\* The table is the same.
LEMMA SameTargets ==
  ASSUME DueThere, UNCHANGED <<fifo, idx, can_instance>>
  PROVE  DueThere'
  BY DEF DueThere, Targets

-----------------------------------------------------------------------------
(* The bus.                                                                *)

LEMMA ReceiveStep ==
  ASSUME ReceiveInv, NEW id \in Ids \union {Ext}, Receive(id)
  PROVE  ReceiveInv'
<1>1. UNCHANGED <<running, isrVars, tableVars, unmasked, irq_on, s_mask, main_pc>>
  BY DEF Receive
<1>2. INT' = INT \union {"rx"}
  BY DEF Receive
<1>3. fifo \in Seq(Frame) /\ Len(fifo) \in Nat /\ Len(fifo) <= FifoDepth /\ FifoDepth \in Nat
  BY DepthAssumption, LenProperties DEF ReceiveInv, RxTypeOK
<1> DEFINE frame == [id |-> id, due |-> Targets(id)]
<1>4. frame \in Frame
  BY DEF Frame, Targets
<1>5. /\ fifo' \in Seq(Frame) /\ Len(fifo') <= FifoDepth
      /\ \A k \in 1..Len(fifo') : fifo'[k] = frame \/ (k \in 1..Len(fifo) /\ fifo'[k] = fifo[k])
  <2>1. CASE Len(fifo) < FifoDepth
    <3> HIDE DEF frame
    <3>1. fifo' = Append(fifo, frame)
      BY <2>1 DEF Receive, frame
    <3> QED BY <1>3, <1>4, <2>1, <3>1, AppendProperties
  <2>2. CASE ~(Len(fifo) < FifoDepth)
    BY <1>3, <2>2 DEF Receive
  <2> QED BY <2>1, <2>2
<1>6. RxTypeOK'
  BY <1>1, <1>2, <1>5 DEF ReceiveInv, RxTypeOK, isrVars, tableVars, Bits
<1>7. Published' /\ Publishing' /\ Phases' /\ missed' = {}
  BY <1>1, <1>2 DEF ReceiveInv, Published, Publishing, Phases, Booting, isrVars, tableVars
<1>8. \A x : Targets(x)' = Targets(x)
  BY <1>1 DEF Targets, tableVars
<1>9. DueThere'
  BY <1>5, <1>8 DEF ReceiveInv, DueThere
<1>10. NoneForgotten'
  BY <1>2 DEF NoneForgotten, Announced
<1> QED BY <1>6, <1>7, <1>9, <1>10 DEF ReceiveInv

LEMMA EventStep ==
  ASSUME ReceiveInv, NEW bit \in {"str", "tx", "rcy"}, Event(bit)
  PROVE  ReceiveInv'
<1>1. /\ UNCHANGED <<running, fifo, isrVars, tableVars, unmasked, irq_on, s_mask, main_pc>>
      /\ INT' = INT \union {bit}
  BY DEF Event
<1>2. RxTypeOK' /\ Published' /\ Publishing' /\ Phases' /\ missed' = {}
  BY <1>1 DEF ReceiveInv, RxTypeOK, Bits, Published, Publishing, Phases, Booting, isrVars, tableVars
<1>3. DueThere'
  BY <1>1, SameTargets DEF ReceiveInv, tableVars
<1>4. NoneForgotten'
  BY <1>1 DEF ReceiveInv, NoneForgotten, Announced, isrVars
<1> QED BY <1>2, <1>3, <1>4 DEF ReceiveInv

-----------------------------------------------------------------------------
(* The main loop.                                                          *)

LEMMA StartUpStep ==
  ASSUME ReceiveInv, MainStart \/ MainClear \/ MainUnmask \/ MainEnableIrq
  PROVE  ReceiveInv'
<1>1. /\ UNCHANGED <<fifo, isrVars, tableVars, s_mask>> /\ Booting /\ idx = 0 /\ isr_pc = "idle"
      /\ INT' \in {INT, {}} /\ (Booting' \/ main_pc' = "idle")
  BY DEF MainStart, MainClear, MainUnmask, MainEnableIrq, Booting, busVars, ReceiveInv, Phases
<1>2. RxTypeOK'
  BY <1>1 DEF ReceiveInv, RxTypeOK, Bits, isrVars, tableVars, MainStart, MainClear, MainUnmask,
     MainEnableIrq, busVars, UnmaskBits
<1>3. Published' /\ Publishing' /\ missed' = {}
  BY <1>1 DEF ReceiveInv, Published, Publishing, Booting, isrVars, tableVars
<1>4. Phases'
  BY <1>1 DEF ReceiveInv, Phases, Booting, isrVars, tableVars, MainStart, MainClear, MainUnmask,
     MainEnableIrq, UnmaskBits
<1>5. DueThere'
  BY <1>1, SameTargets DEF ReceiveInv, tableVars
<1>6. \A k \in 1..Len(fifo) : fifo[k].due = {}
  <2>1. \A id : Targets(id) = {}
    BY <1>1 DEF Targets, RxSlot
  <2> QED BY <2>1 DEF ReceiveInv, DueThere
<1>7. NoneForgotten'
  BY <1>1, <1>6 DEF NoneForgotten
<1> QED BY <1>2, <1>3, <1>4, <1>5, <1>7 DEF ReceiveInv

LEMMA RegisterStep ==
  ASSUME ReceiveInv, NEW id \in Ids \union {AnyId}, MainRegister(id)
  PROVE  ReceiveInv'
<1>1. /\ UNCHANGED <<busVars, isrVars, unmasked, irq_on, s_mask>>
      /\ main_pc = "idle" /\ main_pc' = "publish" /\ reg' = [slot |-> idx, id |-> id]
      /\ isr_pc = "idle"
  BY DEF MainRegister, MainRuns
<1>2. idx \in RxSlot /\ Slots \in Nat /\ idx \in 0..Slots
  BY DepthAssumption DEF MainRegister, ReceiveInv, RxTypeOK, RxSlot
<1>3. \/ idx' = idx + 1 /\ can_instance' = can_instance
      \/ can_instance' = [can_instance EXCEPT ![idx] = id] /\ idx' = idx
  BY DEF MainRegister
<1>4. can_instance \in [RxSlot -> Ids \union {AnyId, NoInstance}]
      /\ \A s \in RxSlot : s >= idx => can_instance[s] = NoInstance
  BY <1>1 DEF ReceiveInv, RxTypeOK, Published
<1>5. idx' \in 0..Slots /\ can_instance' \in [RxSlot -> Ids \union {AnyId, NoInstance}]
  BY <1>2, <1>3, <1>4 DEF RxSlot
<1>6. reg'.slot = idx /\ reg'.id = id
  BY <1>1
<1>7. RxTypeOK'
  BY <1>1, <1>2, <1>5, <1>6 DEF ReceiveInv, RxTypeOK, busVars, isrVars
<1>8. Publishing'
  BY <1>1, <1>2, <1>3, <1>4, <1>6 DEF Publishing, RxSlot
<1>9. Published' /\ Phases' /\ missed' = {}
  BY <1>1 DEF ReceiveInv, Published, Phases, Booting, isrVars
<1>10. DueThere'
  <2>1. \A s \in RxSlot : s < idx => s < idx' /\ can_instance'[s] = can_instance[s]
    BY <1>2, <1>3, <1>4 DEF RxSlot
  <2> QED BY <1>1, <2>1, MoreTargets DEF ReceiveInv, busVars
<1>11. NoneForgotten'
  BY <1>1 DEF ReceiveInv, NoneForgotten, Announced, busVars, isrVars
<1> QED BY <1>7, <1>8, <1>9, <1>10, <1>11 DEF ReceiveInv

LEMMA PublishStep ==
  ASSUME ReceiveInv, MainPublish
  PROVE  ReceiveInv'
<1>1. /\ UNCHANGED <<busVars, isrVars, unmasked, irq_on, s_mask>>
      /\ main_pc = "publish" /\ main_pc' = "idle" /\ isr_pc = "idle"
      /\ idx' = reg.slot + 1 /\ can_instance' = [can_instance EXCEPT ![reg.slot] = reg.id]
      /\ reg' = [slot |-> 0, id |-> NoInstance]
  BY DEF MainPublish, MainRuns
<1>2. /\ reg.slot \in RxSlot /\ reg.id \in Ids \union {AnyId} /\ Slots \in Nat
      /\ \/ idx = reg.slot + 1 /\ can_instance[reg.slot] = NoInstance
         \/ idx = reg.slot
      /\ \A s \in RxSlot : s > reg.slot => can_instance[s] = NoInstance
  BY <1>1, DepthAssumption DEF ReceiveInv, Publishing
<1>3. can_instance \in [RxSlot -> Ids \union {AnyId, NoInstance}]
  BY DEF ReceiveInv, RxTypeOK
<1>4. idx' \in 0..Slots /\ can_instance' \in [RxSlot -> Ids \union {AnyId, NoInstance}] /\ reg'.slot \in 0..Slots
  BY <1>1, <1>2, <1>3 DEF RxSlot
<1>5. RxTypeOK'
  BY <1>1, <1>4 DEF ReceiveInv, RxTypeOK, busVars, isrVars
<1>6. Published' /\ Publishing'
  BY <1>1, <1>2, <1>3 DEF Published, Publishing, RxSlot
<1>7. Phases' /\ missed' = {}
  BY <1>1 DEF ReceiveInv, Phases, Booting, isrVars
<1>8. DueThere'
  <2>1. \A s \in RxSlot : s < idx /\ can_instance[s] # NoInstance =>
            s < idx' /\ can_instance'[s] = can_instance[s]
    BY <1>1, <1>2, <1>3 DEF RxSlot
  <2> QED BY <1>1, <2>1, MoreTargets DEF ReceiveInv, busVars
<1>9. NoneForgotten'
  BY <1>1 DEF ReceiveInv, NoneForgotten, Announced, busVars, isrVars
<1> QED BY <1>5, <1>6, <1>7, <1>8, <1>9 DEF ReceiveInv

LEMMA MaskStep ==
  ASSUME Receives, ReceiveInv, MainApplyMask \/ \E mask \in RunMasks : MainSetMask(mask)
  PROVE  ReceiveInv'
<1>1. /\ UNCHANGED <<busVars, isrVars, tableVars, irq_on>> /\ isr_pc = "idle"
      /\ main_pc \in {"idle", "apply"} /\ main_pc' \in {"idle", "apply"}
  BY DEF MainApplyMask, MainSetMask, MainRuns
<1>2. s_mask' \subseteq {"RX", "TX"} /\ "RX" \in s_mask'
  BY MaskAssumption DEF MainApplyMask, MainSetMask, Receives, ReceiveInv, RxTypeOK, Phases
<1>3. unmasked' \subseteq Bits /\ "rx" \in unmasked'
  BY <1>1 DEF MainApplyMask, MainSetMask, UnmaskBits, Bits, ReceiveInv, RxTypeOK, Phases
<1>4. RxTypeOK' /\ Published' /\ Publishing' /\ Phases' /\ missed' = {}
  BY <1>1, <1>2, <1>3 DEF ReceiveInv, RxTypeOK, Published, Publishing, Phases, Booting, busVars, isrVars,
     tableVars
<1>5. DueThere'
  BY <1>1, SameTargets DEF ReceiveInv, tableVars, busVars
<1>6. NoneForgotten'
  BY <1>1 DEF ReceiveInv, NoneForgotten, Announced, busVars, isrVars
<1> QED BY <1>4, <1>5, <1>6 DEF ReceiveInv

-----------------------------------------------------------------------------
(* The handler.                                                            *)

LEMMA IsrReadStep ==
  ASSUME ReceiveInv, IsrRead
  PROVE  ReceiveInv'
<1>1. /\ UNCHANGED <<busVars, tableVars, unmasked, irq_on, s_mask, main_pc, guard, missed>>
      /\ isr_pc = "idle" /\ isr_pc' = "clear" /\ isr' = INT /\ irq_on
  BY DEF IsrRead
<1>2. RxTypeOK' /\ Published' /\ Publishing' /\ Phases' /\ missed' = {}
  BY <1>1 DEF ReceiveInv, RxTypeOK, Published, Publishing, Phases, Booting, busVars, tableVars
<1>3. DueThere'
  BY <1>1, SameTargets DEF ReceiveInv, tableVars, busVars
<1>4. NoneForgotten'
  BY <1>1 DEF ReceiveInv, NoneForgotten, Announced, busVars
<1> QED BY <1>2, <1>3, <1>4 DEF ReceiveInv

LEMMA IsrClearStep ==
  ASSUME Drained, ReceiveInv, IsrClear
  PROVE  ReceiveInv'
<1>1. /\ UNCHANGED <<running, fifo, tableVars, irq_on, s_mask, main_pc, guard, missed>>
      /\ isr_pc = "clear" /\ INT' = INT \ isr /\ isr' = {} /\ isr_pc' \in {"drain", "idle"}
      /\ unmasked' = IF "rcy" \in isr THEN Bits \ {"str"} ELSE unmasked
  BY DEF IsrClear
<1>2. "rx" \in isr => isr_pc' = "drain"
  BY DEF IsrClear, ReceiveInv, Phases
<1>3. ~Booting /\ guard = 0
  BY <1>1 DEF ReceiveInv, Phases
<1>4. RxTypeOK' /\ Published' /\ Publishing' /\ Phases' /\ missed' = {}
  BY <1>1, <1>3 DEF ReceiveInv, RxTypeOK, Bits, Published, Publishing, Phases, Booting, tableVars
<1>5. DueThere'
  BY <1>1, SameTargets DEF ReceiveInv, tableVars
<1>6. Len(fifo) <= DrainLimit - guard
  BY <1>3, DepthAssumption, LenProperties DEF Drained, ReceiveInv, RxTypeOK
<1>7. NoneForgotten'
  BY <1>1, <1>2, <1>6 DEF ReceiveInv, NoneForgotten, Announced
<1> QED BY <1>4, <1>5, <1>7 DEF ReceiveInv

LEMMA IsrReceiveStep ==
  ASSUME ReceiveInv, IsrReceive
  PROVE  ReceiveInv'
<1>1. /\ UNCHANGED <<running, INT, tableVars, unmasked, irq_on, s_mask, main_pc, isr_pc, isr>>
      /\ isr_pc = "drain" /\ guard < DrainLimit /\ fifo # <<>>
      /\ guard' = guard + 1 /\ fifo' = Tail(fifo)
      /\ missed' = missed \union (Head(fifo).due \ Targets(Head(fifo).id))
  BY DEF IsrReceive
<1>2. fifo \in Seq(Frame) /\ Len(fifo) \in Nat /\ Len(fifo) <= FifoDepth /\ guard \in 0..DrainLimit
  BY LenProperties DEF ReceiveInv, RxTypeOK
<1>3. /\ fifo' \in Seq(Frame) /\ Len(fifo') = Len(fifo) - 1 /\ Head(fifo) = fifo[1] /\ Len(fifo) > 0
      /\ \A k \in 1..Len(fifo') : fifo'[k] = fifo[k + 1]
  BY <1>1, <1>2, HeadTailProperties, EmptySeq
<1>4. missed' = {}
  BY <1>1, <1>2, <1>3 DEF ReceiveInv, DueThere
<1>5. guard' \in 0..DrainLimit /\ Len(fifo') <= FifoDepth
  BY <1>1, <1>2, <1>3, DepthAssumption
<1>6. RxTypeOK'
  BY <1>1, <1>3, <1>4, <1>5 DEF ReceiveInv, RxTypeOK, tableVars
<1>7. Published' /\ Publishing' /\ Phases'
  BY <1>1 DEF ReceiveInv, Published, Publishing, Phases, Booting, tableVars
<1>8. \A id : Targets(id)' = Targets(id)
  BY <1>1 DEF Targets, tableVars
<1>9. \A k \in 1..Len(fifo') : k + 1 \in 1..Len(fifo)
  BY <1>2, <1>3
<1>10. DueThere'
  BY <1>3, <1>8, <1>9 DEF ReceiveInv, DueThere
<1>11. Announced => Announced'
  BY <1>1, <1>2, <1>3, DepthAssumption DEF Announced
<1>12. NoneForgotten'
  BY <1>3, <1>9, <1>11 DEF ReceiveInv, NoneForgotten
<1> QED BY <1>4, <1>6, <1>7, <1>10, <1>12 DEF ReceiveInv

LEMMA IsrReturnStep ==
  ASSUME ReceiveInv, IsrReturn
  PROVE  ReceiveInv'
<1>1. /\ UNCHANGED <<busVars, tableVars, unmasked, irq_on, s_mask, main_pc, isr, missed>>
      /\ isr_pc = "drain" /\ isr_pc' = "idle" /\ guard' = 0 /\ (guard = DrainLimit \/ fifo = <<>>)
  BY DEF IsrReturn
<1>2. RxTypeOK' /\ Published' /\ Publishing' /\ Phases' /\ missed' = {}
  BY <1>1, DepthAssumption DEF ReceiveInv, RxTypeOK, Published, Publishing, Phases, Booting, busVars, tableVars
<1>3. DueThere'
  BY <1>1, SameTargets DEF ReceiveInv, tableVars, busVars
<1>4. (\E k \in 1..Len(fifo) : fifo[k].due # {}) => "rx" \in INT
  <2>1. Len(fifo) \in Nat /\ guard \in 0..DrainLimit /\ DrainLimit \in Nat
    BY DepthAssumption, LenProperties DEF ReceiveInv, RxTypeOK
  <2>2. (\E k \in 1..Len(fifo) : fifo[k].due # {}) => Len(fifo) > 0 /\ fifo # <<>>
    BY <2>1
  <2> QED BY <1>1, <2>1, <2>2 DEF ReceiveInv, NoneForgotten, Announced
<1>5. NoneForgotten'
  BY <1>1, <1>4 DEF NoneForgotten, Announced, busVars
<1> QED BY <1>2, <1>3, <1>5 DEF ReceiveInv

LEMMA ReceiveInvNext == ASSUME Receives, Drained PROVE ReceiveInv /\ [RxNext]_rxVars => ReceiveInv'
<1> SUFFICES ASSUME ReceiveInv, [RxNext]_rxVars PROVE ReceiveInv'
  OBVIOUS
<1>1. CASE UNCHANGED rxVars
  <2>1. UNCHANGED <<running, fifo, INT, unmasked, irq_on, s_mask, idx, can_instance, main_pc, reg,
                    isr_pc, isr, guard, missed>>
    BY <1>1 DEF rxVars, busVars, isrVars, tableVars
  <2> QED BY <2>1, SameTargets DEF ReceiveInv, RxTypeOK, Published, Publishing, Phases, Booting,
            NoneForgotten, Announced
<1> QED BY <1>1, ReceiveStep, EventStep, StartUpStep, RegisterStep, PublishStep, MaskStep, IsrReadStep,
           IsrClearStep, IsrReceiveStep, IsrReturnStep DEF RxNext, Bus, Main, Isr

\* While nobody turns the receive interrupts off and the handler drains a whole
\* FIFO, every frame that was stored for an instance reaches it, whenever it
\* arrives and whatever the main loop registers meanwhile: ReceiveSafe.
THEOREM FramesAreDelivered == ASSUME Receives, Drained PROVE RxSpec => []ReceiveSafe
<1>1. ReceiveInv => ReceiveSafe
  <2> SUFFICES ASSUME ReceiveInv PROVE ReceiveSafe
    OBVIOUS
  <2>1. Delivered
    <3> SUFFICES ASSUME Quiet PROVE \A k \in 1..Len(fifo) : fifo[k].due = {}
      BY DEF Delivered, ReceiveInv
    <3>1. "rx" \notin INT /\ isr_pc = "idle"
      BY DEF Quiet, ReceiveInv, Phases
    <3> QED BY <3>1 DEF ReceiveInv, NoneForgotten, Announced
  <2> QED BY <2>1 DEF ReceiveSafe, ReceiveInv
<1> QED BY <1>1, ReceiveInvInit, ReceiveInvNext, PTL DEF RxSpec
==============================================================================
