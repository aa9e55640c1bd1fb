---------------------------- MODULE GpioIrqGroup ----------------------------
(***************************************************************************)
(* hal_gpio_irq_group.c: the interrupt of a GPIO bank is taken by one core *)
(* and its pins are handled, group by group, by the cores and at the       *)
(* priorities of a configuration.  The core that takes the bank's          *)
(* interrupt masks a group with an active pin, notes the pins in a spare   *)
(* register and sets the group's own interrupt (DIRQ) pending; that        *)
(* interrupt's handler takes the note, calls the pins' handlers and        *)
(* unmasks the group.  The registers are shared without a lock.            *)
(***************************************************************************)
EXTENDS Naturals

CONSTANTS Groups,       \* of each bank, a set: [level, cpu, pins, irq]
          HwIrq,        \* the interrupt of each bank
          EdgePins,     \* pins that interrupt by an edge; the others by level
          MaxEvents     \* bound: edges and requests in all

Banks == DOMAIN Groups
Irqs == UNION {{g.irq : g \in Groups[b]} : b \in Banks}
BankOf == [i \in Irqs |-> CHOOSE b \in Banks : \E g \in Groups[b] : g.irq = i]
Home == [i \in Irqs |-> CHOOSE g \in Groups[BankOf[i]] : g.irq = i]
PinsOf(b) == UNION {g.pins : g \in Groups[b]}

Edges == UNION {{b} \X (PinsOf(b) \intersect EdgePins) : b \in Banks}

VARIABLES edges, pin_high,      \* edges not yet cleared; requests by level
          mask, saved,          \* INT_MASK, DBCLK_DIV_EN (its spare use)
          soft,                 \* interrupts set pending by software
          gpio_pc, raw, gpio_todo, act, \* the handler of each interrupt
          owed, unheard,        \* edge pins: no call since an edge; edges less calls
          events

registers == <<edges, pin_high, mask, saved>>
handlers == <<gpio_pc, raw, gpio_todo, act>>
observed == <<owed, unheard, events>>
gpioVars == <<registers, soft, handlers, observed>>

(***************************************************************************)
(* s_groupCtrl: written by GPIO_IRQ_GROUP_GirqCfgCheck for one bank after  *)
(* the other, so that it holds what it made of the last one.               *)
(***************************************************************************)
LastBank == CHOOSE b \in Banks : \A a \in Banks : a <= b
prioGroupBits(l) == UNION {g.pins : g \in {h \in Groups[LastBank] : h.level = l}}
nextCpusGroupBits(l, c) ==
    prioGroupBits(l) \ UNION {g.pins : g \in {h \in Groups[LastBank] : h.level = l /\ h.cpu <= c}}
HwGroup == Home[HwIrq[LastBank]]

\* What GirqCfgCheck asks of a bank, on top of the types.
GirqCfgCheck(b) == /\ \E g \in Groups[b] : g.irq = HwIrq[b]
                   /\ \A g, h \in Groups[b] : g.irq = HwIrq[b] => g.level <= h.level

ASSUME GroupsAssumption == Banks \subseteq Nat /\ \A b \in Banks : GirqCfgCheck(b)

\* A configuration that gives each pin and, as GPIO_IRQ_GROUP_GIrqCreate asks
\* for the DIRQs, each interrupt to one group.  As in the arrays of
\* GPIO_IRQ_GROUP_CFG a group has its place by level and core.  The places that
\* the banks' own interrupts serve are the same, as s_groupCtrl holds one.
Divided ==
    /\ \A b \in Banks : \A g \in Groups[b] : g.pins # {} /\ g.level \in Nat /\ g.cpu \in Nat
    /\ \A b \in Banks : \A g, h \in Groups[b] :
           \/ g = h
           \/ g.pins \intersect h.pins = {} /\ ~(g.level = h.level /\ g.cpu = h.cpu)
    /\ \A a, b \in Banks : \A g \in Groups[a], h \in Groups[b] : g.irq = h.irq => a = b /\ g = h
    /\ \A b \in Banks : \A g \in Groups[b] :
           g.irq = HwIrq[b] <=> g.level = HwGroup.level /\ g.cpu = HwGroup.cpu

GpioInit == /\ edges = [b \in Banks |-> {}] /\ pin_high = [b \in Banks |-> {}]
            /\ mask = [b \in Banks |-> {}] /\ saved = [b \in Banks |-> {}]
            /\ soft = {}
            /\ gpio_pc = [i \in Irqs |-> "idle"]
            /\ raw = [i \in Irqs |-> {}] /\ gpio_todo = [i \in Irqs |-> {}]
            /\ act = [i \in Irqs |-> {}]
            /\ owed = {} /\ unheard = [o \in Edges |-> 0] /\ events = 0

RawStatus(b) == edges[b] \union pin_high[b]

(***************************************************************************)
(* The pins and the interrupt controller.                                  *)
(***************************************************************************)
PinEvent(b, p) ==
    /\ events < MaxEvents /\ events' = events + 1
    /\ IF p \in EdgePins
       THEN /\ edges' = [edges EXCEPT ![b] = @ \union {p}]
            /\ owed' = owed \union {<<b, p>>}
            /\ unheard' = [unheard EXCEPT ![<<b, p>>] = @ + 1]
            /\ UNCHANGED pin_high
       ELSE /\ pin_high' = [pin_high EXCEPT ![b] = @ \union {p}]
            /\ UNCHANGED <<edges, owed, unheard>>
    /\ UNCHANGED <<mask, saved, soft, handlers>>

Asserted(i) == /\ i = HwIrq[BankOf[i]]
               /\ RawStatus(BankOf[i]) \ mask[BankOf[i]] # {}

OnSameCore(i) == {j \in Irqs \ {i} : Home[j].cpu = Home[i].cpu /\ gpio_pc[j] # "idle"}

\* Interrupts are enabled before __disable_irq and while pins are handled.
Preemptible(j) == gpio_pc[j] \in {"group", "pins"}

Take(i) ==
    /\ gpio_pc[i] = "idle" /\ (i \in soft \/ Asserted(i))
    /\ \A j \in OnSameCore(i) : Preemptible(j) /\ Home[i].level < Home[j].level
    /\ soft' = soft \ {i}
    /\ gpio_pc' = [gpio_pc EXCEPT ![i] = IF i = HwIrq[BankOf[i]] THEN "raw" ELSE "group"]
    /\ UNCHANGED <<registers, raw, gpio_todo, act, observed>>

\* The handler that is not preempted.
Runs(i, at) == /\ gpio_pc[i] = at
               /\ \A j \in OnSameCore(i) : Home[j].level > Home[i].level

Goto(i, at) == gpio_pc' = [gpio_pc EXCEPT ![i] = at]

(***************************************************************************)
(* HAL_GPIO_IRQ_GROUP_DispatchGIRQs, interrupts disabled                   *)
(***************************************************************************)
ReadRawStatus(i) == /\ Runs(i, "raw")
                    /\ raw' = [raw EXCEPT ![i] = RawStatus(BankOf[i])]
                    /\ Goto(i, "mask")
                    /\ UNCHANGED <<registers, soft, gpio_todo, act, observed>>

\* The groups the two loops come to, by what was read of the registers: the
\* inner one ends after a group when no pin of the next cores is active.
Chosen(b, status, masked) ==
    LET Ready == {g \in Groups[b] : g.pins \intersect status # {} /\ g.pins \intersect masked = {}}
    IN {g \in Ready :
          /\ prioGroupBits(g.level) \intersect status # {}
          /\ \A h \in Ready : h.level = g.level /\ h.cpu < g.cpu =>
                 nextCpusGroupBits(h.level, h.cpu) \intersect status # {}}

ReadMask(i) ==
    /\ Runs(i, "mask")
    /\ gpio_todo' = [gpio_todo EXCEPT ![i] = Chosen(BankOf[i], raw[i], mask[BankOf[i]])]
    /\ Goto(i, "todo")
    /\ UNCHANGED <<registers, soft, raw, act, observed>>

\* The group the loops are at.
At(i, g) == /\ g \in gpio_todo[i]
            /\ \A h \in gpio_todo[i] : \/ g.level < h.level
                                       \/ g.level = h.level /\ g.cpu <= h.cpu

\* GPIO_IRQ_GROUP_GIrqsDispatchCtrl: mask the group, note its active pins, EOI.
Active(i, g) == g.pins \intersect raw[i]

MaskGroup(i, g) ==
    /\ Runs(i, "todo") /\ At(i, g)
    /\ mask' = [mask EXCEPT ![BankOf[i]] = @ \union g.pins]
    /\ Goto(i, "save")
    /\ UNCHANGED <<edges, pin_high, saved, soft, raw, gpio_todo, act, observed>>

Save(i, g) ==
    /\ Runs(i, "save") /\ At(i, g)
    /\ saved' = [saved EXCEPT ![BankOf[i]] = (@ \ g.pins) \union Active(i, g)]
    /\ Goto(i, "eoi")
    /\ UNCHANGED <<edges, pin_high, mask, soft, raw, gpio_todo, act, observed>>

\* Broken variant: EOI for the whole group.
EoiGroup(i, g) == /\ Runs(i, "eoi") /\ At(i, g)
                  /\ edges' = [edges EXCEPT ![BankOf[i]] = @ \ g.pins]
                  /\ Goto(i, "pend")
                  /\ UNCHANGED <<pin_high, mask, saved, soft, raw, gpio_todo, act, observed>>

Eoi(i, g) == /\ Runs(i, "eoi") /\ At(i, g)
             /\ edges' = [edges EXCEPT ![BankOf[i]] = @ \ Active(i, g)]
             /\ Goto(i, "pend")
             /\ UNCHANGED <<pin_high, mask, saved, soft, raw, gpio_todo, act, observed>>

SetPending(i, g) ==
    /\ Runs(i, "pend") /\ At(i, g)
    /\ soft' = soft \union ({g.irq} \ {HwIrq[BankOf[i]]})
    /\ gpio_todo' = [gpio_todo EXCEPT ![i] = @ \ {g}]
    /\ Goto(i, "todo")
    /\ UNCHANGED <<registers, raw, act, observed>>

Dispatched(i) == /\ Runs(i, "todo") /\ gpio_todo[i] = {}
                 /\ raw' = [raw EXCEPT ![i] = {}]
                 /\ Goto(i, "group")
                 /\ UNCHANGED <<registers, soft, gpio_todo, act, observed>>

(***************************************************************************)
(* HAL_GPIO_IRQ_GROUP_HWIRQDispatchIrqs, HAL_GPIO_IRQ_GROUP_DIRQDispatch-  *)
(* Irqs                                                                    *)
(***************************************************************************)
\* A bank's interrupt looks up its group by what s_groupCtrl says.
PinsServed ==
    [i \in Irqs |->
        IF i # HwIrq[BankOf[i]] THEN Home[i].pins
        ELSE UNION {g.pins : g \in {h \in Groups[BankOf[i]] :
                                        h.level = HwGroup.level /\ h.cpu = HwGroup.cpu}}]

NotMasked(i) == /\ Runs(i, "group")
                /\ PinsServed[i] = {} \/ ~(PinsServed[i] \subseteq mask[BankOf[i]])
                /\ Goto(i, "idle")
                /\ UNCHANGED <<registers, soft, raw, gpio_todo, act, observed>>

ReadSaved(i) == /\ Runs(i, "group")
                /\ PinsServed[i] # {} /\ PinsServed[i] \subseteq mask[BankOf[i]]
                /\ act' = [act EXCEPT ![i] = saved[BankOf[i]] \intersect PinsServed[i]]
                /\ Goto(i, "clear")
                /\ UNCHANGED <<registers, soft, raw, gpio_todo, observed>>

ClearSaved(i) == /\ Runs(i, "clear")
                 /\ saved' = [saved EXCEPT ![BankOf[i]] = @ \ PinsServed[i]]
                 /\ Goto(i, "level")
                 /\ UNCHANGED <<edges, pin_high, mask, soft, raw, gpio_todo, act, observed>>

ReadLevel(i) == /\ Runs(i, "level")
                /\ act' = [act EXCEPT ![i] =
                               @ \union ((RawStatus(BankOf[i]) \ EdgePins) \intersect PinsServed[i])]
                /\ Goto(i, "pins")
                /\ UNCHANGED <<registers, soft, raw, gpio_todo, observed>>

\* GPIO_IRQ_GROUP_DispatchPinsIrq, from the lowest pin up; the handler of a
\* pin that interrupts by level makes the device take its request back.
DispatchPin(i, p) ==
    /\ Runs(i, "pins") /\ p \in act[i] /\ \A q \in act[i] : p <= q
    /\ act' = [act EXCEPT ![i] = @ \ {p}]
    /\ owed' = owed \ {<<BankOf[i], p>>}
    /\ unheard' = [o \in Edges |-> IF o = <<BankOf[i], p>> THEN unheard[o] - 1 ELSE unheard[o]]
    /\ pin_high' = [pin_high EXCEPT ![BankOf[i]] = @ \ {p}]
    /\ UNCHANGED <<edges, mask, saved, soft, gpio_pc, raw, gpio_todo, events>>

\* GPIO_IRQ_GROUP_EndGroupIrqs; broken variants: for every group, for none.
UnmaskAll(i) == /\ Runs(i, "pins") /\ act[i] = {}
                /\ mask' = [mask EXCEPT ![BankOf[i]] = {}]
                /\ Goto(i, "end")
                /\ UNCHANGED <<edges, pin_high, saved, soft, raw, gpio_todo, act, observed>>

UnmaskNone(i) == /\ Runs(i, "pins") /\ act[i] = {}
                 /\ Goto(i, "end")
                 /\ UNCHANGED <<registers, soft, raw, gpio_todo, act, observed>>

Unmask(i) == /\ Runs(i, "pins") /\ act[i] = {}
             /\ mask' = [mask EXCEPT ![BankOf[i]] = @ \ PinsServed[i]]
             /\ Goto(i, "end")
             /\ UNCHANGED <<edges, pin_high, saved, soft, raw, gpio_todo, act, observed>>

EndGroup(i) ==
    /\ Runs(i, "end")
    /\ soft' = soft \union
           (IF edges[BankOf[i]] \intersect PinsServed[i] # {} THEN {HwIrq[BankOf[i]]} ELSE {})
    /\ Goto(i, "idle")
    /\ UNCHANGED <<registers, raw, gpio_todo, act, observed>>

Handler(i) == \/ Take(i)
              \/ ReadRawStatus(i) \/ ReadMask(i)
              \/ \E g \in gpio_todo[i] : MaskGroup(i, g) \/ Save(i, g) \/ Eoi(i, g) \/ SetPending(i, g)
              \/ Dispatched(i)
              \/ NotMasked(i) \/ ReadSaved(i) \/ ClearSaved(i) \/ ReadLevel(i)
              \/ \E p \in PinsOf(BankOf[i]) : DispatchPin(i, p)
              \/ Unmask(i) \/ EndGroup(i)

GpioNext == (\E b \in Banks : \E p \in PinsOf(b) : PinEvent(b, p)) \/ \E i \in Irqs : Handler(i)

GpioSpec == GpioInit /\ [][GpioNext]_gpioVars

\* Pending interrupts are taken and handlers run to their end.
GpioFairSpec == GpioSpec /\ \A i \in Irqs : WF_gpioVars(Handler(i))

-----------------------------------------------------------------------------
(***************************************************************************)
(* Properties                                                              *)
(***************************************************************************)
GpioTypeOK == /\ \A b \in Banks : /\ edges[b] \subseteq EdgePins /\ pin_high[b] \intersect EdgePins = {}
                                  /\ mask[b] \subseteq PinsOf(b) /\ saved[b] \subseteq mask[b]
              /\ soft \subseteq Irqs
              /\ \A i \in Irqs : act[i] \subseteq PinsServed[i]

\* No edge is forgotten on its way from the register over the note to the
\* handler's variable, whatever the other cores and the pins do meanwhile.
EdgeKept == \A o \in owed : \/ o[2] \in edges[o[1]] \union saved[o[1]]
                            \/ \E i \in Irqs : BankOf[i] = o[1] /\ o[2] \in act[i]

\* While a core serves a group, all of it stays masked: the dispatcher
\* cannot write a note between this core's read and its clearing.
MaskedWhileServed == \A i \in Irqs : gpio_pc[i] \in {"clear", "level", "pins"} =>
                                         PinsServed[i] \subseteq mask[BankOf[i]]

\* The handler of an edge pin is never called more often than edges came.
CalledForAnEdge == \A o \in Edges : unheard[o] >= 0

\* "any pin irq in a bank can be dispatched to any cpu with different irq
\* priorities": the handler of a pin with an edge is called in the end.
EdgesServed == \A o \in Edges : o \in owed ~> o \notin owed

\* A request by level is handled in the end.
LevelsServed == \A b \in Banks : \A p \in PinsOf(b) \ EdgePins : p \in pin_high[b] ~> p \notin pin_high[b]
=============================================================================
