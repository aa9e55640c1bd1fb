---------------------------- MODULE MotorsProof ---------------------------
(***************************************************************************)
(* Proofs about the components between DJIMotorControl and the CAN bus:    *)
(* CanTransmit, DjiMotor, MotorEncoder, CanPayload and Pid, one after the  *)
(* other, and their composition MCMotors at the end.                       *)
(*                                                                         *)
(* What is assumed of the constants is named where it is first needed:     *)
(* TwoRequests, AllButOne, Bounded and Room.                               *)
(***************************************************************************)
EXTENDS MCMotors, FiniteSetTheorems, SequenceTheorems, TLAPS

-----------------------------------------------------------------------------
(* CanTransmit: what HAL_CANFD_Transmit has accepted is on the bus or on   *)
(* its way.                                                                *)

\* What the code relies on: two requests for at most two enabled groups, and a
\* bus that has sent both before the next period.
TwoRequests == MaxEnabled <= 2 /\ BusKeepsUp

\* Which groups of a controller the loop has passed in this period.
Done(c) == {g \in enabled : controller(g) = c /\ g < i}

\* A pending frame is of a group of its controller that the loop has passed,
\* and is the last one accepted of it.
FramesCurrent ==
    \A c \in Controller, r \in Request : pending[c][r] # NoFrame =>
        /\ pending[c][r].group < i /\ controller(pending[c][r].group) = c
        /\ pending[c][r].period = accepted[pending[c][r].group]

\* The second request is used by the second group of a controller only.
SecondLast ==
    \A c \in Controller : /\ pending[c][0] # NoFrame => Done(c) # {}
                          /\ pending[c][1] # NoFrame =>
                                 \E g, h \in Done(c) : g # h

\* HAL_CANFD_Transmit writes to a request that is free.
WritesToFree ==
    cmd # 2 => /\ i < 6 /\ i \in enabled
               /\ pending[controller(i)][cmd] = NoFrame
               /\ cmd = 1 => Done(controller(i)) # {}

TxInv == TxTypeOK /\ FramesCurrent /\ SecondLast /\ WritesToFree /\ AcceptedKept

\* Of three groups of a controller not all are enabled.
AtMostTwo == \A c \in Controller : \A g, h, k \in enabled :
                 controller(g) = c /\ controller(h) = c /\ controller(k) = c
                     => g = h \/ h = k \/ g = k

LEMMA ControllerOf == \A g \in TxGroup : controller(g) \in Controller
  BY DEF TxGroup, Controller, controller

\* Three values no two of which are equal are three elements.
LEMMA ThreeElements ==
  ASSUME NEW a, NEW b, NEW c, a # b, b # c, a # c
  PROVE  Cardinality({a, b, c}) = 3
<1>1. IsFiniteSet({a}) /\ Cardinality({a}) = 1
  BY FS_Singleton
<1>2. IsFiniteSet({a} \cup {b})
  BY <1>1, FS_AddElement
<1>3. b \notin {a} /\ Cardinality({a} \cup {b}) = IF b \in {a} THEN Cardinality({a}) ELSE Cardinality({a}) + 1
  BY <1>1, FS_AddElement
<1>4. Cardinality({a} \cup {b}) = 2
  BY <1>1, <1>3
<1> DEFINE Pair == {a} \cup {b}
<1>5. IsFiniteSet(Pair) /\ Cardinality(Pair) = 2 /\ c \notin Pair
  BY <1>2, <1>4
<1>6. {a, b, c} = Pair \cup {c}
  OBVIOUS
<1> HIDE DEF Pair
<1>7. Cardinality(Pair \cup {c}) = IF c \in Pair THEN Cardinality(Pair) ELSE Cardinality(Pair) + 1
  BY <1>5, FS_AddElement
<1> QED BY <1>5, <1>6, <1>7

LEMMA TxInvInit == ASSUME TwoRequests PROVE TxInit => TxInv /\ AtMostTwo
<1> SUFFICES ASSUME TxInit PROVE TxInv /\ AtMostTwo
  OBVIOUS
<1>1. TxTypeOK
  BY DEF TxInit, TxTypeOK, TxFrame, TxGroup
<1>2. \A c \in Controller, r \in Request : pending[c][r] = NoFrame
  BY DEF TxInit
<1>3. FramesCurrent /\ SecondLast
  BY <1>2 DEF FramesCurrent, SecondLast, Request
<1>4. WritesToFree /\ AcceptedKept
  BY DEF TxInit, WritesToFree, AcceptedKept
<1>5. AtMostTwo
  <2> SUFFICES ASSUME NEW c \in Controller, NEW g \in enabled, NEW h \in enabled, NEW k \in enabled,
                      controller(g) = c, controller(h) = c, controller(k) = c,
                      g # h, h # k, g # k
               PROVE  FALSE
    BY DEF AtMostTwo
  <2> DEFINE Mine == {x \in enabled : controller(x) = c}
  <2>1. Cardinality({x \in enabled : controller(x) = c}) <= MaxEnabled
    BY DEF TxInit
  <2>2. IsFiniteSet(Mine)
    <3>0. 0 \in Int /\ 5 \in Int
      OBVIOUS
    <3>1. IsFiniteSet(0..5)
      BY <3>0, FS_Interval
    <3>2. Mine \subseteq 0..5
      BY <1>1 DEF TxTypeOK, TxGroup
    <3> QED BY <3>1, <3>2, FS_Subset
  <2>3. {g, h, k} \subseteq Mine
    OBVIOUS
  <2>4. Cardinality({g, h, k}) = 3
    BY ThreeElements
  <2>8. Cardinality({g, h, k}) <= Cardinality(Mine) /\ Cardinality(Mine) \in Nat
    BY <2>2, <2>3, FS_Subset, FS_CardinalityType
  <2>9. Cardinality(Mine) <= 2
    BY <2>1, <2>8, MaxEnabledAssumption DEF TwoRequests
  <2> QED BY <2>4, <2>8, <2>9
<1> QED BY <1>1, <1>3, <1>4, <1>5 DEF TxInv

LEMMA StartPeriodStep == ASSUME TwoRequests, TxInv, StartPeriod PROVE TxInv'
<1>1. \A c \in Controller, r \in Request : pending'[c][r] = NoFrame
  BY DEF TwoRequests, StartPeriod, AllSent
<1>2. TxTypeOK'
  BY DEF TxInv, TxTypeOK, StartPeriod
<1>3. FramesCurrent' /\ SecondLast'
  BY <1>1 DEF FramesCurrent, SecondLast, Request
<1>4. WritesToFree'
  BY DEF TxInv, WritesToFree, StartPeriod
<1>5. AcceptedKept'
  BY DEF TxInv, AcceptedKept, StartPeriod
<1> QED BY <1>2, <1>3, <1>4, <1>5 DEF TxInv

LEMMA SkipGroupStep == ASSUME TxInv, SkipGroup PROVE TxInv'
<1>1. /\ i \in 0..5 /\ i' = i + 1 /\ cmd = 2
      /\ UNCHANGED <<enabled, period, cmd, pending, accepted, on_bus>>
  BY DEF TxInv, TxTypeOK, SkipGroup
<1>2. TxTypeOK'
  BY <1>1 DEF TxInv, TxTypeOK
<1>3. FramesCurrent'
  <2> SUFFICES ASSUME NEW c \in Controller, NEW r \in Request, pending[c][r] # NoFrame
               PROVE  pending[c][r].group < i + 1 /\ controller(pending[c][r].group) = c
                        /\ pending[c][r].period = accepted[pending[c][r].group]
    BY <1>1 DEF FramesCurrent
  <2>1. pending[c][r].group \in TxGroup
    BY DEF TxInv, TxTypeOK, TxFrame
  <2> QED BY <1>1, <2>1 DEF TxInv, FramesCurrent, TxGroup
<1>4. \A c \in Controller : Done(c) \subseteq Done(c)'
  <2> SUFFICES ASSUME NEW c \in Controller, NEW g \in Done(c) PROVE g \in Done(c)'
    OBVIOUS
  <2>1. g \in enabled /\ controller(g) = c /\ g < i /\ g \in Int
    BY DEF Done, TxInv, TxTypeOK, TxGroup
  <2> QED BY <1>1, <2>1 DEF Done
<1>5. SecondLast'
  BY <1>1, <1>4 DEF TxInv, SecondLast
<1>6. WritesToFree' /\ AcceptedKept'
  BY <1>1 DEF TxInv, WritesToFree, AcceptedKept
<1> QED BY <1>2, <1>3, <1>5, <1>6 DEF TxInv

LEMMA SelectRequestStep == ASSUME TxInv, AtMostTwo, SelectRequest PROVE TxInv'
<1>1. /\ i \in 0..5 /\ i \in enabled /\ cmd' \in {0, 1}
      /\ cmd' = 0 <=> pending[controller(i)][0] = NoFrame
      /\ UNCHANGED <<enabled, period, i, pending, accepted, on_bus>>
  BY DEF TxInv, TxTypeOK, SelectRequest
<1>c. controller(i) \in Controller
  BY <1>1, ControllerOf DEF TxGroup
<1>2. TxTypeOK'
  BY <1>1 DEF TxInv, TxTypeOK
<1>3. \A c \in Controller : Done(c)' = Done(c)
  BY <1>1 DEF Done
<1>4. FramesCurrent' /\ AcceptedKept'
  BY <1>1 DEF TxInv, FramesCurrent, AcceptedKept
<1>5. SecondLast'
  BY <1>1, <1>3 DEF TxInv, SecondLast
<1>6. WritesToFree'
  <2>1. CASE cmd' = 0
    BY <1>1, <2>1 DEF WritesToFree
  <2>2. CASE cmd' = 1
    <3>1. Done(controller(i)) # {}
      BY <1>1, <1>c, <2>2 DEF TxInv, SecondLast
    <3>2. pending[controller(i)][1] = NoFrame
      <4> SUFFICES ASSUME NEW g \in Done(controller(i)), NEW h \in Done(controller(i)), g # h
                   PROVE  FALSE
        BY <1>c DEF TxInv, SecondLast
      <4>1. g < i /\ h < i /\ g \in TxGroup /\ h \in TxGroup
        BY DEF Done, TxInv, TxTypeOK
      <4>2. g # i /\ h # i
        BY <1>1, <4>1 DEF TxGroup
      <4> QED BY <1>1, <1>c, <4>2 DEF AtMostTwo, Done
    <3> QED BY <1>1, <1>3, <1>c, <2>2, <3>1, <3>2 DEF WritesToFree
  <2> QED BY <1>1, <2>1, <2>2
<1> QED BY <1>2, <1>4, <1>5, <1>6 DEF TxInv

LEMMA WriteRequestStep == ASSUME TxInv, WriteRequest PROVE TxInv'
<1>0. PICK c : c = controller(i)
  OBVIOUS
<1> DEFINE new == [group |-> i, period |-> period]
<1>1. /\ i \in 0..5 /\ i \in enabled /\ cmd \in Request /\ period \in 0..1
      /\ pending[c][cmd] = NoFrame
  BY <1>0 DEF TxInv, TxTypeOK, WritesToFree, WriteRequest, Request
<1>2. c \in Controller
  BY <1>0, <1>1, ControllerOf DEF TxGroup
<1>3. /\ pending' = [pending EXCEPT ![c][cmd] = new]
      /\ accepted' = [accepted EXCEPT ![i] = period]
      /\ cmd' = 2 /\ i' = i + 1 /\ UNCHANGED <<enabled, period, on_bus>>
  BY <1>0, <1>1 DEF WriteRequest
<1>4. new \in TxFrame /\ new # NoFrame
  BY <1>1 DEF TxFrame, TxGroup, NoFrame
<1>5. /\ pending \in [Controller -> [Request -> TxFrame \union {NoFrame}]]
      /\ accepted \in [TxGroup -> 0..1]
  BY DEF TxInv, TxTypeOK
<1>6. /\ pending'[c][cmd] = new
      /\ \A d \in Controller, r \in Request : d # c \/ r # cmd => pending'[d][r] = pending[d][r]
  BY <1>1, <1>2, <1>3, <1>5
<1>7. accepted'[i] = period /\ \A g \in TxGroup : g # i => accepted'[g] = accepted[g]
  BY <1>1, <1>3, <1>5 DEF TxGroup
<1>8. TxTypeOK'
  <2>1. pending' \in [Controller -> [Request -> TxFrame \union {NoFrame}]]
    BY <1>1, <1>2, <1>3, <1>4, <1>5
  <2>2. accepted' \in [TxGroup -> 0..1]
    BY <1>1, <1>3, <1>5
  <2> QED BY <1>1, <1>3, <2>1, <2>2 DEF TxInv, TxTypeOK
<1>9. FramesCurrent'
  <2> SUFFICES ASSUME NEW d \in Controller, NEW r \in Request, pending'[d][r] # NoFrame
               PROVE  /\ pending'[d][r].group < i + 1 /\ controller(pending'[d][r].group) = d
                      /\ pending'[d][r].period = accepted'[pending'[d][r].group]
    BY <1>3 DEF FramesCurrent
  <2>1. CASE d = c /\ r = cmd
    BY <1>0, <1>1, <1>6, <1>7, <2>1
  <2>2. CASE d # c \/ r # cmd
    <3>1. pending'[d][r] = pending[d][r] /\ pending[d][r] # NoFrame
      BY <1>6, <2>2
    <3>2. pending[d][r].group \in TxGroup
      BY <3>1, <1>5 DEF TxFrame
    <3>3. /\ pending[d][r].group < i /\ controller(pending[d][r].group) = d
          /\ pending[d][r].period = accepted[pending[d][r].group]
      BY <3>1 DEF TxInv, FramesCurrent
    <3>4. pending[d][r].group # i
      BY <3>2, <3>3, <1>1 DEF TxGroup
    <3> QED BY <1>1, <1>7, <3>1, <3>2, <3>3, <3>4 DEF TxGroup
  <2> QED BY <2>1, <2>2
<1>10. /\ \A d \in Controller : Done(d) \subseteq Done(d)'
       /\ i \in Done(c)' /\ i \notin Done(c)
  <2>1. i < i + 1 /\ ~(i < i)
    BY <1>1
  <2>2. i \in Done(c)' /\ i \notin Done(c)
    BY <1>0, <1>1, <1>3, <2>1 DEF Done
  <2>3. ASSUME NEW d \in Controller, NEW g \in Done(d) PROVE g \in Done(d)'
    <3>1. g \in enabled /\ controller(g) = d /\ g < i /\ g \in Int
      BY DEF Done, TxInv, TxTypeOK, TxGroup
    <3> QED BY <1>1, <1>3, <3>1 DEF Done
  <2> QED BY <2>2, <2>3
<1>11. SecondLast'
  <2> SUFFICES ASSUME NEW d \in Controller
               PROVE  /\ pending'[d][0] # NoFrame => Done(d)' # {}
                      /\ pending'[d][1] # NoFrame => \E g, h \in Done(d)' : g # h
    BY DEF SecondLast
  <2>1. pending'[d][0] # NoFrame => Done(d)' # {}
    <3>1. CASE d = c
      <4>1. i \in Done(d)'
        BY <1>10, <3>1
      <4> QED BY <4>1
    <3>2. CASE d # c
      BY <1>6, <1>10, <3>2 DEF TxInv, SecondLast, Request
    <3> QED BY <3>1, <3>2
  <2>2. ASSUME pending'[d][1] # NoFrame PROVE \E g, h \in Done(d)' : g # h
    <3>1. CASE d = c /\ cmd = 1
      <4>1. Done(c) # {}
        BY <1>0, <3>1 DEF TxInv, WritesToFree
      <4>2. PICK g \in Done(c) : TRUE
        BY <4>1
      <4>3. g \in Done(d)' /\ i \in Done(d)' /\ g # i
        BY <1>2, <1>10, <3>1
      <4> QED BY <4>3
    <3>2. CASE d # c \/ cmd # 1
      <4>1. \E g, h \in Done(d) : g # h
        BY <1>6, <2>2, <3>2 DEF TxInv, SecondLast, Request
      <4> QED BY <1>10, <4>1
    <3> QED BY <3>1, <3>2
  <2> QED BY <2>1, <2>2
<1>12. WritesToFree'
  BY <1>3 DEF WritesToFree
<1>13. AcceptedKept'
  <2> SUFFICES ASSUME NEW g \in TxGroup, accepted'[g] # on_bus[g]
               PROVE  \E r \in Request : pending'[controller(g)][r] = [group |-> g, period |-> accepted'[g]]
    BY <1>3 DEF AcceptedKept
  <2>1. CASE g = i
    BY <1>0, <1>1, <1>6, <1>7, <2>1
  <2>2. CASE g # i
    <3>1. PICK r \in Request : pending[controller(g)][r] = [group |-> g, period |-> accepted[g]]
      BY <1>7, <2>2 DEF TxInv, AcceptedKept
    <3>2. pending[controller(g)][r] # NoFrame
      BY <3>1 DEF NoFrame, TxGroup
    <3>3. controller(g) # c \/ r # cmd
      BY <1>1, <3>2
    <3>4. pending'[controller(g)][r] = pending[controller(g)][r]
      BY <1>6, <3>3, ControllerOf
    <3> QED BY <1>7, <2>2, <3>1, <3>4
  <2> QED BY <2>1, <2>2
<1> QED BY <1>8, <1>9, <1>11, <1>12, <1>13 DEF TxInv

LEMMA BusSendsStep == ASSUME TxInv, NEW c \in Controller, BusSends(c) PROVE TxInv'
<1>1. PICK r \in Request :
        /\ pending[c][r] # NoFrame
        /\ on_bus' = [on_bus EXCEPT ![pending[c][r].group] = pending[c][r].period]
        /\ pending' = [pending EXCEPT ![c][r] = NoFrame]
        /\ UNCHANGED <<enabled, period, i, cmd, accepted>>
  BY DEF BusSends
<1>2. /\ pending \in [Controller -> [Request -> TxFrame \union {NoFrame}]]
      /\ on_bus \in [TxGroup -> 0..1]
  BY DEF TxInv, TxTypeOK
<1>3. pending[c][r].group \in TxGroup /\ pending[c][r].period \in 0..1
  BY <1>1, <1>2 DEF TxFrame
<1>4. /\ pending'[c][r] = NoFrame
      /\ \A d \in Controller, s \in Request : d # c \/ s # r => pending'[d][s] = pending[d][s]
  BY <1>1, <1>2
<1>5. TxTypeOK'
  BY <1>1, <1>2, <1>3 DEF TxInv, TxTypeOK
<1>6. \A d \in Controller, s \in Request : pending'[d][s] \in {pending[d][s], NoFrame}
  BY <1>4
<1>7. FramesCurrent'
  BY <1>1, <1>6 DEF TxInv, FramesCurrent
<1>8. \A d \in Controller : Done(d)' = Done(d)
  BY <1>1 DEF Done
<1>9. SecondLast'
  BY <1>6, <1>8 DEF TxInv, SecondLast, Request
<1>10. WritesToFree'
  <2> SUFFICES ASSUME cmd # 2 PROVE WritesToFree'
    BY <1>1 DEF WritesToFree
  <2>1. i \in TxGroup /\ cmd \in Request
    BY DEF TxInv, TxTypeOK, WritesToFree, TxGroup, Request
  <2>2. controller(i) \in Controller
    BY <2>1, ControllerOf
  <2> QED BY <1>1, <1>6, <1>8, <2>1, <2>2 DEF TxInv, WritesToFree
<1>11. AcceptedKept'
  <2> SUFFICES ASSUME NEW g \in TxGroup, accepted[g] # on_bus'[g]
               PROVE  \E s \in Request : pending'[controller(g)][s] = [group |-> g, period |-> accepted[g]]
    BY <1>1 DEF AcceptedKept
  <2>1. CASE g = pending[c][r].group
    BY <1>1, <1>2, <1>3, <2>1 DEF TxInv, FramesCurrent
  <2>2. CASE g # pending[c][r].group
    <3>1. on_bus'[g] = on_bus[g]
      BY <1>1, <1>2, <1>3, <2>2
    <3>2. PICK s \in Request : pending[controller(g)][s] = [group |-> g, period |-> accepted[g]]
      BY <3>1 DEF TxInv, AcceptedKept
    <3>3. controller(g) # c \/ s # r
      BY <2>2, <3>2
    <3> QED BY <1>4, <3>2, <3>3, ControllerOf
  <2> QED BY <2>1, <2>2
<1> QED BY <1>5, <1>7, <1>9, <1>10, <1>11 DEF TxInv

LEMMA TxInvNext ==
  ASSUME TwoRequests PROVE TxInv /\ AtMostTwo /\ [TxNext]_txVars => (TxInv /\ AtMostTwo)'
<1> SUFFICES ASSUME TxInv, AtMostTwo, [TxNext]_txVars PROVE TxInv' /\ AtMostTwo'
  OBVIOUS
<1>1. AtMostTwo'
  BY DEF AtMostTwo, TxNext, Control, StartPeriod, SkipGroup, SelectRequest, WriteRequest, BusSends, txVars
<1>2. CASE UNCHANGED txVars
  <2>1. UNCHANGED <<enabled, period, i, cmd, pending, accepted, on_bus>>
    BY <1>2 DEF txVars
  <2>2. \A c \in Controller : Done(c)' = Done(c)
    BY <2>1 DEF Done
  <2>3. SecondLast'
    BY <2>1, <2>2 DEF TxInv, SecondLast
  <2>4. controller(i) \in Controller \/ cmd = 2
    BY ControllerOf DEF TxInv, TxTypeOK, WritesToFree, TxGroup
  <2>5. WritesToFree'
    BY <2>1, <2>2, <2>4 DEF TxInv, WritesToFree
  <2>6. TxTypeOK' /\ FramesCurrent' /\ AcceptedKept'
    <3>1. TxTypeOK'
      BY <2>1 DEF TxInv, TxTypeOK
    <3>2. FramesCurrent'
      BY <2>1 DEF TxInv, FramesCurrent
    <3> QED BY <2>1, <3>1, <3>2 DEF TxInv, AcceptedKept
  <2> QED BY <1>1, <2>3, <2>5, <2>6 DEF TxInv
<1>3. CASE Control
  <2>1. CASE StartPeriod
    BY <2>1, <1>1, StartPeriodStep
  <2>2. CASE SkipGroup
    BY <2>2, <1>1, SkipGroupStep
  <2>3. CASE SelectRequest
    BY <2>3, <1>1, SelectRequestStep
  <2>4. CASE WriteRequest
    BY <2>4, <1>1, WriteRequestStep
  <2> QED BY <1>3, <2>1, <2>2, <2>3, <2>4 DEF Control
<1>4. CASE \E c \in Controller : BusSends(c)
  BY <1>4, <1>1, BusSendsStep
<1> QED BY <1>1, <1>2, <1>3, <1>4 DEF TxNext

\* With at most two enabled groups to a controller and a bus that keeps up, a
\* frame for which CANTransmit returned 1 is on the bus or pending, whatever
\* HAL_CANFD_Transmit overlooks of its second request.
THEOREM FramesAccepted == ASSUME TwoRequests PROVE TxSpec => [](TxTypeOK /\ AcceptedKept)
<1>1. TxInv => TxTypeOK /\ AcceptedKept
  BY DEF TxInv
<1> QED BY <1>1, TxInvInit, TxInvNext, PTL DEF TxSpec

-----------------------------------------------------------------------------
(* DjiMotor: the assignment of frames agrees with the manual.              *)

LEMMA GroupPlace ==
  ASSUME NEW m \in Motor
  PROVE  SenderGroup(m) \in Group /\ MessageNum(m) \in Place
<1> USE DEF Motor, Buses, Escs
<1>1. Offset(m) \in {0, 3}
  BY DEF Offset
<1>2. m.id \in 1..8 /\ (m.type \in {"M2006", "M3508"} \/ m.type = "GM6020")
  OBVIOUS
<1>3. MessageNum(m) \in Place
  BY <1>2 DEF MessageNum, FirstFour, Place
<1>4. SenderGroup(m) - Offset(m) \in 0..2 /\ SenderGroup(m) \in Int
  BY <1>1, <1>2 DEF SenderGroup
<1> QED BY <1>1, <1>3, <1>4 DEF Group

\* Which frame and place a motor has, by type and number.
LEMMA Assigned ==
  ASSUME NEW m \in Motor
  PROVE  /\ m.type \in Escs /\ m.id \in 1..4 =>
              SenderGroup(m) = Offset(m) + 1 /\ MessageNum(m) = m.id - 1
         /\ m.type \in Escs /\ m.id \in 5..8 =>
              SenderGroup(m) = Offset(m) /\ MessageNum(m) = m.id - 5
         /\ m.type \notin Escs /\ m.id \in 1..4 =>
              SenderGroup(m) = Offset(m) /\ MessageNum(m) = m.id - 1
         /\ m.type \notin Escs /\ m.id \in 5..8 =>
              SenderGroup(m) = Offset(m) + 2 /\ MessageNum(m) = m.id - 5
<1>1. Offset(m) \in {0, 3} /\ m.id \in 1..8 /\ (m.type \in Escs \/ m.type = "GM6020") /\ "GM6020" \notin Escs
  BY DEF Offset, Motor, Escs
<1>2. FirstFour(m) <=> m.id \in 1..4
  BY <1>1 DEF FirstFour
<1>3. FirstFour(m) => MessageNum(m) = m.id - 1
  BY DEF MessageNum
<1>4. ~FirstFour(m) => MessageNum(m) = m.id - 5
  BY DEF MessageNum
<1>5. m.type \in Escs /\ FirstFour(m) => SenderGroup(m) = Offset(m) + 1
  BY <1>1 DEF SenderGroup
<1>6. m.type \in Escs /\ ~FirstFour(m) => SenderGroup(m) = Offset(m)
  BY <1>1 DEF SenderGroup
<1>7. m.type \notin Escs /\ FirstFour(m) => SenderGroup(m) = Offset(m)
  BY <1>1 DEF SenderGroup
<1>8. m.type \notin Escs /\ ~FirstFour(m) => SenderGroup(m) = Offset(m) + 2
  BY <1>1 DEF SenderGroup
<1>9. m.id \in 5..8 => ~FirstFour(m)
  BY <1>2
<1> QED BY <1>2, <1>3, <1>4, <1>5, <1>6, <1>7, <1>8, <1>9

LEMMA OffsetOf ==
  ASSUME NEW m \in Motor
  PROVE  /\ Offset(m) \in {0, 3} /\ m.id \in 1..8
         /\ m.bus \in {"can0", "can1"} /\ (Offset(m) = 0 <=> m.bus = "can0")
  BY DEF Offset, Motor, Buses

\* Two motors with one place in one frame report with one identifier.
LEMMA OnePlaceOneReport ==
  ASSUME NEW m \in Motor, NEW k \in Motor,
         SenderGroup(m) = SenderGroup(k), MessageNum(m) = MessageNum(k)
  PROVE  ReportsAs(m) = ReportsAs(k)
<1>1. m.id \in 1..4 \/ m.id \in 5..8
  BY OffsetOf
<1>2. k.id \in 1..4 \/ k.id \in 5..8
  BY OffsetOf
<1>3. Offset(m) = Offset(k)
  BY <1>1, <1>2, Assigned, OffsetOf
<1>4. m.bus = k.bus
  BY <1>3, OffsetOf
<1>5. (IF m.type \in Escs THEN 512 ELSE 516) + m.id = (IF k.type \in Escs THEN 512 ELSE 516) + k.id
  BY <1>1, <1>2, <1>3, Assigned, OffsetOf
<1> QED BY <1>4, <1>5 DEF ReportsAs

LEMMA FrameOf ==
  ASSUME NEW g \in Group
  PROVE  \/ g = 0 /\ Frame(g) = <<"can0", "0x1FF">>
         \/ g = 1 /\ Frame(g) = <<"can0", "0x200">>
         \/ g = 2 /\ Frame(g) = <<"can0", "0x2FF">>
         \/ g = 3 /\ Frame(g) = <<"can1", "0x1FF">>
         \/ g = 4 /\ Frame(g) = <<"can1", "0x200">>
         \/ g = 5 /\ Frame(g) = <<"can1", "0x2FF">>
<1>1. g \in {0, 1, 2, 3, 4, 5}
  BY DEF Group
<1>2. /\ 0 % 3 = 0 /\ 1 % 3 = 1 /\ 2 % 3 = 2 /\ 3 % 3 = 0 /\ 4 % 3 = 1 /\ 5 % 3 = 2
  OBVIOUS
<1>3. CASE g = 0
  BY <1>2, <1>3 DEF Frame
<1>4. CASE g = 1
  BY <1>2, <1>4 DEF Frame
<1>5. CASE g = 2
  BY <1>2, <1>5 DEF Frame
<1>6. CASE g = 3
  BY <1>2, <1>6 DEF Frame
<1>7. CASE g = 4
  BY <1>2, <1>7 DEF Frame
<1>8. CASE g = 5
  BY <1>2, <1>8 DEF Frame
<1> QED BY <1>1, <1>3, <1>4, <1>5, <1>6, <1>7, <1>8

LEMMA PairParts == ASSUME NEW a, NEW b, NEW c, NEW d, <<a, b>> = <<c, d>> PROVE a = c /\ b = d
  OBVIOUS

LEMMA FrontOfThree ==
  ASSUME NEW a, NEW b, NEW c
  PROVE  SubSeq(<<a, b, c>>, 1, 2) = <<a, b>>
<1>1. SubSeq(<<a, b, c>>, 1, 2) = [n \in 1..2 |-> <<a, b, c>>[n]]
  BY SMT
<1>2. <<a, b>> = [n \in 1..2 |-> <<a, b>>[n]]
  BY SMT
<1>3. \A n \in 1..2 : <<a, b, c>>[n] = <<a, b>>[n]
  BY SMT
<1>4. [n \in 1..2 |-> <<a, b, c>>[n]] = [n \in 1..2 |-> <<a, b>>[n]]
  BY <1>3, Zenon
<1> QED BY <1>1, <1>2, <1>4, Zenon

\* The frame and the place a motor listens to are those it is assigned.
LEMMA ListensToItsOwn ==
  ASSUME NEW m \in Motor, NEW g \in Group, Frame(g) = SubSeq(ListensTo(m), 1, 2)
  PROVE  g = SenderGroup(m) /\ ListensTo(m)[3] = MessageNum(m)
<1> DEFINE name == CASE m.type \in Escs /\ m.id <= 4     -> "0x200"
                     [] m.type \in Escs /\ m.id > 4      -> "0x1FF"
                     [] m.type = "GM6020" /\ m.id <= 4   -> "0x1FF"
                     [] m.type = "GM6020" /\ m.id > 4    -> "0x2FF"
<1>1. ListensTo(m) = <<m.bus, name, (m.id - 1) % 4>>
  BY DEF ListensTo
<1>2. /\ m.type \in Escs /\ m.id \in 1..4 => name = "0x200"
      /\ m.type \in Escs /\ m.id \in 5..8 => name = "0x1FF"
      /\ m.type \notin Escs /\ m.id \in 1..4 => name = "0x1FF"
      /\ m.type \notin Escs /\ m.id \in 5..8 => name = "0x2FF"
  BY DEF Motor, Escs
<1> HIDE DEF name
<1>3. SubSeq(ListensTo(m), 1, 2) = <<m.bus, name>>
  BY <1>1, FrontOfThree
<1>4. \/ g = 0 /\ Frame(g) = <<"can0", "0x1FF">>
      \/ g = 1 /\ Frame(g) = <<"can0", "0x200">>
      \/ g = 2 /\ Frame(g) = <<"can0", "0x2FF">>
      \/ g = 3 /\ Frame(g) = <<"can1", "0x1FF">>
      \/ g = 4 /\ Frame(g) = <<"can1", "0x200">>
      \/ g = 5 /\ Frame(g) = <<"can1", "0x2FF">>
  BY FrameOf
<1>5. <<m.bus, name>> = Frame(g)
  BY <1>3
<1>6. \/ g = 0 /\ m.bus = "can0" /\ name = "0x1FF"
      \/ g = 1 /\ m.bus = "can0" /\ name = "0x200"
      \/ g = 2 /\ m.bus = "can0" /\ name = "0x2FF"
      \/ g = 3 /\ m.bus = "can1" /\ name = "0x1FF"
      \/ g = 4 /\ m.bus = "can1" /\ name = "0x200"
      \/ g = 5 /\ m.bus = "can1" /\ name = "0x2FF"
  <2>1. \A b, f : Frame(g) = <<b, f>> => m.bus = b /\ name = f
    BY <1>5, PairParts, Zenon
  <2> QED BY <1>4, <2>1, Zenon
<1>7. \/ g = Offset(m) /\ name = "0x1FF"
      \/ g = Offset(m) + 1 /\ name = "0x200"
      \/ g = Offset(m) + 2 /\ name = "0x2FF"
  <2>1. m.bus = "can0" => Offset(m) = 0
    BY DEF Offset
  <2>2. m.bus = "can1" => Offset(m) = 3
    BY DEF Offset
  <2> QED BY <1>6, <2>1, <2>2
<1>10. m.id \in 1..4 \/ m.id \in 5..8
  BY OffsetOf
<1>11. g = SenderGroup(m)
  BY <1>2, <1>7, <1>10, Assigned
<1>12. (m.id - 1) % 4 = IF m.id \in 1..4 THEN m.id - 1 ELSE m.id - 5
  BY <1>10
<1>13. MessageNum(m) = IF m.id \in 1..4 THEN m.id - 1 ELSE m.id - 5
  BY <1>10, Assigned
<1> QED BY <1>1, <1>11, <1>12, <1>13

-----------------------------------------------------------------------------
(* A motor without a receive instance escapes the test for a clash, so at  *)
(* most one is allowed, the last.                                          *)
AllButOne == MaxMotors <= Slots + 1

Fewer(a, b) == IF a <= b THEN a ELSE b

\* The instances are the motors in the order of their registration, as far as
\* the table reaches.
TableInOrder ==
    /\ Len(can_instance) =
         Fewer(IF main_pc = "append" THEN Len(motors) + 1 ELSE Len(motors), Slots)
    /\ \A k \in DOMAIN can_instance : can_instance[k] = k
    /\ heard = 1..Fewer(Len(motors), Slots)

\* The motor being registered fits, and reports as no motor before it.
NewFits ==
    /\ main_pc = "idle" => config = <<>>
    /\ main_pc \in {"register", "append"} =>
         /\ Len(config) = 1 /\ Len(motors) < MaxMotors
         /\ \A j \in DOMAIN motors : ReportsAs(motors[j]) # ReportsAs(config[1])
    /\ main_pc = "crash" => Len(config) = 1 /\ Len(motors) < MaxMotors

MotorInv == /\ MotorTypeOK /\ TableInOrder /\ NewFits /\ ClashStops
            /\ stopped \subseteq DOMAIN motors
            /\ NoCrossTalk /\ FeedbackOwn

LEMMA SameReport ==
  ASSUME NEW m \in Motor, NEW k \in Motor
  PROVE  /\ (m.bus = k.bus /\ RxId(m) = RxId(k)) <=> ReportsAs(m) = ReportsAs(k)
         /\ Matches(m, ReportsAs(k)) <=> ReportsAs(m) = ReportsAs(k)
<1>1. ReportsAs(m) = <<m.bus, RxId(m)>> /\ ReportsAs(k) = <<k.bus, RxId(k)>>
  BY DEF ReportsAs, RxId
<1>2. m.bus = k.bus /\ RxId(m) = RxId(k) => ReportsAs(m) = ReportsAs(k)
  BY <1>1
<1>3. ReportsAs(m) = ReportsAs(k) => m.bus = k.bus /\ RxId(m) = RxId(k)
  <2>1. <<m.bus, RxId(m)>> = <<k.bus, RxId(k)>> => m.bus = k.bus /\ RxId(m) = RxId(k)
    BY PairParts
  <2> QED BY <1>1, <2>1, Zenon
<1>4. Matches(m, ReportsAs(k)) <=> ReportsAs(m) = ReportsAs(k)
  BY <1>1, Zenon DEF Matches
<1> QED BY <1>2, <1>3, <1>4

LEMMA OneMore ==
  ASSUME NEW S, NEW s \in Seq(S), NEW c \in Seq(S), Len(c) = 1
  PROVE  /\ s \o c \in Seq(S) /\ Len(s \o c) = Len(s) + 1
         /\ (s \o c)[Len(s) + 1] = c[1] /\ c[1] \in S /\ Head(c) = c[1]
         /\ \A k \in 1..Len(s) : (s \o c)[k] = s[k]
<1>1. Len(s) \in Nat
  BY LenProperties
<1>2. s \o c \in Seq(S) /\ Len(s \o c) = Len(s) + 1
  BY ConcatProperties, <1>1
<1>3. \A k \in 1..(Len(s) + 1) : (s \o c)[k] = IF k <= Len(s) THEN s[k] ELSE c[k - Len(s)]
  <2>1. \A k \in 1..Len(s) + Len(c) : (s \o c)[k] = IF k <= Len(s) THEN s[k] ELSE c[k - Len(s)]
    BY ConcatProperties
  <2> QED BY <2>1, Zenon
<1>4. (s \o c)[Len(s) + 1] = c[1]
  <2>1. ASSUME NEW k \in 1..(Len(s) + 1), k = Len(s) + 1 PROVE (s \o c)[k] = c[1]
    <3>1. ~(k <= Len(s)) /\ k - Len(s) = 1
      BY <1>1, <2>1
    <3>2. (s \o c)[k] = IF k <= Len(s) THEN s[k] ELSE c[k - Len(s)]
      BY <1>3
    <3> QED BY <3>1, <3>2
  <2>2. Len(s) + 1 \in 1..(Len(s) + 1)
    BY <1>1
  <2> QED BY <2>1, <2>2
<1>5. c[1] \in S
  <2>1. c \in [1..1 -> S]
    BY LenProperties
  <2> QED BY <2>1
<1>6. Head(c) = c[1]
  OBVIOUS
<1>7. \A k \in 1..Len(s) : (s \o c)[k] = s[k]
  BY <1>1, <1>3
<1> QED BY <1>2, <1>4, <1>5, <1>6, <1>7

LEMMA MotorShapes ==
  ASSUME MotorTypeOK
  PROVE  /\ motors \in Seq(Requests) /\ Len(motors) \in Nat
         /\ config \in Seq(Requests) /\ Len(config) \in {0, 1}
         /\ can_instance \in Seq(Index) /\ Len(can_instance) \in Nat
<1>1. motors \in Seq(Requests) /\ config \in Seq(Requests) /\ can_instance \in Seq(Index)
  BY DEF MotorTypeOK
<1>2. Len(motors) \in Nat /\ Len(config) \in Nat /\ Len(can_instance) \in Nat
  BY <1>1, LenProperties
<1>3. Len(config) <= 1
  BY DEF MotorTypeOK
<1>4. \A n \in Nat : n <= 1 => n \in {0, 1}
  OBVIOUS
<1>5. Len(config) \in {0, 1}
  BY <1>2, <1>3, <1>4, Zenon
<1> QED BY <1>1, <1>2, <1>5, Zenon

LEMMA RegisteredMotors ==
  ASSUME MotorTypeOK
  PROVE  /\ Len(motors) \in 0..MaxMotors /\ DOMAIN motors = 1..Len(motors)
         /\ DOMAIN motors \subseteq Index
         /\ \A j \in DOMAIN motors : motors[j] \in Motor
BY RequestsAssumption, SlotsAssumption DEF MotorTypeOK, Index

\* A place of a frame is filled for the motor it is assigned to and no other.
LEMMA FilledForOne ==
  ASSUME MotorTypeOK, ClashStops, NEW j \in DOMAIN motors
  PROVE  Fill(SenderGroup(motors[j]))[MessageNum(motors[j])]
           = IF j \in stopped THEN NoMotor ELSE j
<1> DEFINE g == SenderGroup(motors[j])
           p == MessageNum(motors[j])
           here == {k \in DOMAIN motors : SenderGroup(motors[k]) = g
                                            /\ MessageNum(motors[k]) = p}
           last == CHOOSE k \in here : \A h \in here : h <= k
<1>1. j \in here
  OBVIOUS
<1>2. here = {j}
  <2>1. SUFFICES ASSUME NEW k \in here PROVE k = j
    BY <1>1
  <2>2. ReportsAs(motors[k]) = ReportsAs(motors[j])
    BY OnePlaceOneReport, RegisteredMotors
  <2> QED BY <2>2 DEF ClashStops
<1>3. last = j
  <2>1. j <= j
    BY RegisteredMotors
  <2>2. \E k \in here : \A h \in here : h <= k
    BY <1>2, <2>1
  <2>3. last \in here
    BY <2>2
  <2> QED BY <1>2, <2>3
<1>4. p \in Place
  BY GroupPlace, RegisteredMotors
<1>5. Fill(g)[p] = IF here = {} THEN tx_buff[g][p] ELSE IF last \in stopped THEN NoMotor ELSE last
  BY <1>4 DEF Fill
<1> QED BY <1>2, <1>3, <1>5

LEMMA FillType ==
  ASSUME MotorTypeOK, ClashStops, NEW g \in Group
  PROVE  Fill(g) \in [Place -> 0..MaxMotors]
<1>1. SUFFICES ASSUME NEW p \in Place PROVE Fill(g)[p] \in 0..MaxMotors
  BY DEF Fill
<1> DEFINE here == {k \in DOMAIN motors : SenderGroup(motors[k]) = g
                                            /\ MessageNum(motors[k]) = p}
<1>2. CASE here = {}
  <2>1. Fill(g)[p] = tx_buff[g][p]
    BY <1>2 DEF Fill
  <2> QED BY <2>1 DEF MotorTypeOK
<1>3. ASSUME NEW j \in here PROVE Fill(g)[p] \in 0..MaxMotors
  <2>1. Fill(g)[p] = IF j \in stopped THEN NoMotor ELSE j
    BY FilledForOne
  <2>2. j \in 1..MaxMotors /\ 0 \in 0..MaxMotors
    BY RegisteredMotors, SlotsAssumption DEF Index
  <2> QED BY <2>1, <2>2 DEF NoMotor
<1> QED BY <1>2, <1>3

\* What a motor is told in a control period: what it was told before, or what
\* its own place of its own frame says.
LEMMA ToldItsOwn ==
  ASSUME MotorTypeOK, ClashStops, NEW lost, MainControl(lost), NEW j \in Index
  PROVE  \/ current'[j] = current[j]
         \/ j \in DOMAIN motors /\ current'[j] = IF j \in stopped THEN NoMotor ELSE j
<1> DEFINE frames == {g \in sender_enable_flag \ lost :
                         j \in DOMAIN motors
                           /\ Frame(g) = SubSeq(ListensTo(motors[j]), 1, 2)}
           g == CHOOSE g \in frames : TRUE
<1>1. current'[j] = IF frames = {} THEN current[j]
                    ELSE tx_buff'[g][ListensTo(motors[j])[3]]
  BY DEF MainControl
<1>2. SUFFICES ASSUME frames # {} PROVE j \in DOMAIN motors
                  /\ current'[j] = IF j \in stopped THEN NoMotor ELSE j
  BY <1>1
<1>3. g \in frames
  BY <1>2
<1>4. j \in DOMAIN motors /\ g \in Group /\ Frame(g) = SubSeq(ListensTo(motors[j]), 1, 2)
  BY <1>3 DEF MotorTypeOK
<1> HIDE DEF g, frames
<1>5. motors[j] \in Motor
  BY <1>4, RegisteredMotors
<1>6. g = SenderGroup(motors[j]) /\ ListensTo(motors[j])[3] = MessageNum(motors[j])
  BY <1>4, <1>5, ListensToItsOwn
<1>7. tx_buff'[g] = Fill(g)
  BY <1>4 DEF MainControl
<1>8. current'[j] = Fill(SenderGroup(motors[j]))[MessageNum(motors[j])]
  BY <1>1, <1>2, <1>6, <1>7
<1> QED BY <1>4, <1>8, FilledForOne

LEMMA MotorInitInv == AllButOne /\ MotorInit => MotorInv
<1> SUFFICES ASSUME MotorInit PROVE MotorInv
  OBVIOUS
<1> USE SlotsAssumption DEF MotorInit
<1>1. MotorTypeOK
  BY DEF MotorTypeOK, Index, Group, Place, NoMotor
<1>2. TableInOrder
  BY DEF TableInOrder, Fewer
<1>3. NewFits /\ ClashStops /\ stopped \subseteq DOMAIN motors
  BY DEF NewFits, ClashStops
<1>4. NoCrossTalk /\ FeedbackOwn
  BY DEF NoCrossTalk, FeedbackOwn
<1> QED BY <1>1, <1>2, <1>3, <1>4 DEF MotorInv

LEMMA GroupInv ==
  ASSUME AllButOne, MotorInv, NEW m \in Requests, MainGroup(m)
  PROVE  MotorInv'
<1> USE SlotsAssumption, RequestsAssumption DEF MotorInv
<1> USE DEF MainGroup, wireVars
<1>1. MotorTypeOK'
  <2>1. SenderGroup(m) \in Group
    BY GroupPlace
  <2>2. sender_enable_flag' \subseteq Group
    BY <2>1 DEF MotorTypeOK
  <2>3. config' \in Seq(Requests) /\ Len(config') = 1 /\ config'[1] = m
    OBVIOUS
  <2> QED BY <2>2, <2>3 DEF MotorTypeOK
<1>2. TableInOrder'
  BY DEF TableInOrder
<1>3. NewFits'
  <2>1. config' = <<m>> /\ Len(motors) < MaxMotors /\ main_pc' \in {"register", "crash"}
    OBVIOUS
  <2>2. ASSUME main_pc' = "register", NEW j \in DOMAIN motors
        PROVE  ReportsAs(motors[j]) # ReportsAs(m)
    <3>1. ~\E k \in heard : SameRxId(k, m)
      BY <2>2
    <3>2. j \in 1..Len(motors) /\ Len(motors) \in Nat /\ motors[j] \in Motor
      BY RegisteredMotors
    <3>3. j \in heard
      BY <3>2 DEF TableInOrder, Fewer, AllButOne
    <3> QED BY <3>1, <3>2, <3>3, SameReport DEF SameRxId
  <2> QED BY <2>1, <2>2 DEF NewFits
<1>4. ClashStops' /\ stopped' \subseteq DOMAIN motors'
  BY DEF ClashStops
<1>5. NoCrossTalk' /\ FeedbackOwn'
  BY DEF NoCrossTalk, FeedbackOwn
<1> QED BY <1>1, <1>2, <1>3, <1>4, <1>5

\* No motor is refused for its identifier, for the test has been passed.
LEMMA RegisterInv ==
  ASSUME AllButOne, MotorInv, MainRegister
  PROVE  MotorInv'
<1> USE SlotsAssumption, RequestsAssumption DEF MotorInv
<1>0. /\ main_pc = "register" /\ main_pc' = "append"
      /\ UNCHANGED <<motors, heard, sender_enable_flag, stopped, measure,
                     tx_buff, current, config>>
  BY DEF MainRegister, wireVars
<1>1. Len(motors) \in Nat /\ Len(motors) < MaxMotors /\ Len(config) = 1 /\ config \in Seq(Requests)
  BY <1>0, RegisteredMotors DEF NewFits, MotorTypeOK
<1>2. Head(config) = config[1] /\ config[1] \in Motor
  <2>1. Head(config) = config[1] /\ config[1] \in Requests
    BY <1>1, OneMore, Zenon
  <2> QED BY <2>1
<1>3. ~\E k \in DOMAIN can_instance :
           can_instance[k] \in DOMAIN motors /\ SameRxId(can_instance[k], Head(config))
  BY <1>0, <1>2, SameReport, RegisteredMotors DEF NewFits, SameRxId
<1>4. can_instance' = IF Len(can_instance) >= Slots THEN can_instance
                      ELSE Append(can_instance, Len(motors) + 1)
  BY <1>3 DEF MainRegister
<1>5. can_instance \in Seq(Index) /\ Len(can_instance) = Fewer(Len(motors), Slots)
  BY <1>0 DEF TableInOrder, MotorTypeOK
<1>6. can_instance' \in Seq(Index) /\ Len(can_instance') = Fewer(Len(motors) + 1, Slots)
  <2>1. CASE Len(can_instance) >= Slots
    BY <1>1, <1>4, <1>5, <2>1 DEF Fewer
  <2>2. CASE ~(Len(can_instance) >= Slots)
    <3>1. Len(motors) + 1 \in Index
      BY <1>1 DEF Index
    <3>2. can_instance' = Append(can_instance, Len(motors) + 1)
      BY <1>4, <2>2
    <3>3. Len(can_instance') = Len(can_instance) + 1 /\ can_instance' \in Seq(Index)
      BY <1>5, <3>1, <3>2
    <3> QED BY <1>1, <1>5, <2>2, <3>3 DEF Fewer
  <2> QED BY <2>1, <2>2
<1>7. \A k \in DOMAIN can_instance' : can_instance'[k] = k
  BY <1>1, <1>4, <1>5 DEF Fewer, TableInOrder
<1>8. MotorTypeOK'
  BY <1>0, <1>1, <1>6 DEF MotorTypeOK, Fewer
<1>9. TableInOrder'
  BY <1>0, <1>6, <1>7 DEF TableInOrder
<1>10. NewFits' /\ ClashStops' /\ stopped' \subseteq DOMAIN motors'
  BY <1>0 DEF NewFits, ClashStops
<1>11. NoCrossTalk' /\ FeedbackOwn'
  BY <1>0 DEF NoCrossTalk, FeedbackOwn
<1> QED BY <1>8, <1>9, <1>10, <1>11

LEMMA AppendInv ==
  ASSUME AllButOne, MotorInv, MainAppend
  PROVE  MotorInv'
<1> USE SlotsAssumption, RequestsAssumption DEF MotorInv
<1> DEFINE n == Len(motors)
<1>0. /\ main_pc = "append" /\ main_pc' = "idle" /\ config' = <<>>
      /\ motors' = motors \o config /\ stopped' = stopped \ {n + 1}
      /\ heard' = IF \E k \in DOMAIN can_instance : can_instance[k] = n + 1
                  THEN heard \union {n + 1} ELSE heard
      /\ UNCHANGED <<can_instance, sender_enable_flag, measure, tx_buff, current>>
  BY DEF MainAppend, wireVars
<1>1. n \in Nat /\ n < MaxMotors /\ Len(config) = 1 /\ config \in Seq(Requests)
  BY <1>0, RegisteredMotors DEF NewFits, MotorTypeOK
<1>2. motors \in Seq(Requests)
  BY DEF MotorTypeOK
<1>3. /\ motors' \in Seq(Requests) /\ Len(motors') = n + 1
      /\ motors'[n + 1] = config[1] /\ \A j \in 1..n : motors'[j] = motors[j]
  <2>1. /\ motors \o config \in Seq(Requests) /\ Len(motors \o config) = n + 1
        /\ (motors \o config)[n + 1] = config[1]
        /\ \A j \in 1..n : (motors \o config)[j] = motors[j]
    BY <1>1, <1>2, OneMore
  <2> QED BY <1>0, <2>1, Zenon
<1>4. can_instance \in Seq(Index) /\ Len(can_instance) = Fewer(n + 1, Slots)
  BY <1>0 DEF TableInOrder, MotorTypeOK
<1>5. heard' = 1..Fewer(n + 1, Slots)
  <2>1. (\E k \in DOMAIN can_instance : can_instance[k] = n + 1) <=> n + 1 <= Slots
    BY <1>1, <1>4 DEF TableInOrder, Fewer
  <2>2. heard = 1..Fewer(n, Slots)
    BY DEF TableInOrder
  <2>3. CASE n + 1 <= Slots
    <3>1. heard' = (1..n) \union {n + 1}
      BY <1>0, <1>1, <2>1, <2>2, <2>3 DEF Fewer
    <3>2. (1..n) \union {n + 1} = 1..(n + 1)
      BY <1>1
    <3> QED BY <1>1, <2>3, <3>1, <3>2 DEF Fewer
  <2>4. CASE ~(n + 1 <= Slots)
    <3>1. Fewer(n + 1, Slots) = Slots /\ Fewer(n, Slots) = Slots
      BY <1>1, <2>4 DEF Fewer
    <3> QED BY <1>0, <2>1, <2>2, <2>4, <3>1
  <2> QED BY <2>3, <2>4
<1>6. MotorTypeOK'
  <2>1. heard' \subseteq Index
    BY <1>1, <1>5 DEF Index, Fewer
  <2> QED BY <1>0, <1>1, <1>3, <2>1 DEF MotorTypeOK
<1>7. TableInOrder'
  BY <1>0, <1>3, <1>4, <1>5 DEF TableInOrder
<1>8. NewFits'
  BY <1>0 DEF NewFits
<1>9. ClashStops'
  <2>1. \A j \in 1..n : ReportsAs(motors[j]) # ReportsAs(config[1])
    BY <1>0, <1>2 DEF NewFits
  <2>2. \A j, k \in 1..n : j # k => ReportsAs(motors[j]) # ReportsAs(motors[k])
    BY <1>2 DEF ClashStops
  <2>3. SUFFICES ASSUME NEW j \in 1..(n + 1), NEW k \in 1..(n + 1), j # k
                 PROVE  ReportsAs(motors'[j]) # ReportsAs(motors'[k])
    <3>1. DOMAIN motors' = 1..(n + 1)
      BY <1>3
    <3>2. ClashStops' <=> \A j, k \in DOMAIN motors' :
             j # k => ReportsAs(motors'[j]) # ReportsAs(motors'[k])
      BY DEF ClashStops, ReportsAs
    <3> QED BY <3>1, <3>2
  <2>4. /\ j \in 1..n => motors'[j] = motors[j]
        /\ j \notin 1..n => j = n + 1 /\ motors'[j] = config[1]
        /\ k \in 1..n => motors'[k] = motors[k]
        /\ k \notin 1..n => k = n + 1 /\ motors'[k] = config[1]
    BY <1>1, <1>3
  <2>5. CASE j \in 1..n /\ k \in 1..n
    BY <2>2, <2>3, <2>4, <2>5
  <2>6. CASE j \notin 1..n
    BY <2>1, <2>3, <2>4, <2>6
  <2>7. CASE k \notin 1..n
    BY <2>1, <2>3, <2>4, <2>7
  <2> QED BY <2>5, <2>6, <2>7
<1>10. stopped' \subseteq DOMAIN motors'
  BY <1>0, <1>1, <1>2, <1>3
<1>11. NoCrossTalk' /\ FeedbackOwn'
  BY <1>0 DEF NoCrossTalk, FeedbackOwn
<1> QED BY <1>6, <1>7, <1>8, <1>9, <1>10, <1>11

LEMMA StopEnableInv ==
  ASSUME AllButOne, MotorInv, NEW j \in Index, MainStop(j) \/ MainEnable(j)
  PROVE  MotorInv'
<1> USE DEF MotorInv
<1>1. /\ UNCHANGED <<tableVars, measure, wireVars, mainVars>>
      /\ stopped' \subseteq DOMAIN motors
  BY DEF MainStop, MainEnable
<1> USE <1>1 DEF tableVars, wireVars, mainVars
<1>2. MotorTypeOK'
  BY RegisteredMotors DEF MotorTypeOK
<1>3. TableInOrder'
  BY DEF TableInOrder
<1>4. NewFits' /\ ClashStops'
  BY DEF NewFits, ClashStops
<1>5. NoCrossTalk' /\ FeedbackOwn'
  BY DEF NoCrossTalk, FeedbackOwn
<1> QED BY <1>1, <1>2, <1>3, <1>4, <1>5

LEMMA MainControlInv ==
  ASSUME AllButOne, MotorInv, NEW lost, MainControl(lost)
  PROVE  MotorInv'
<1> USE DEF MotorInv
<1>1. UNCHANGED <<tableVars, stopped, measure, mainVars>>
  BY DEF MainControl
<1>2. \A j \in Index : current'[j] = current[j]
         \/ (j \in DOMAIN motors /\ current'[j] = IF j \in stopped THEN NoMotor ELSE j)
  <2>1. TAKE j \in Index
  <2>2. MotorTypeOK /\ ClashStops
    OBVIOUS
  <2> QED BY <2>2, ToldItsOwn
<1>3. NoCrossTalk'
  BY <1>2 DEF NoCrossTalk
<1>4. tx_buff' \in [Group -> [Place -> 0..MaxMotors]]
  BY FillType DEF MainControl
<1>5. current' \in [Index -> 0..MaxMotors]
  <2>1. DOMAIN current' = Index /\ current' = [j \in Index |-> current'[j]]
    BY DEF MainControl
  <2>2. ASSUME NEW j \in Index PROVE current'[j] \in 0..MaxMotors
    <3>1. current[j] \in 0..MaxMotors
      BY DEF MotorTypeOK
    <3>2. j \in 0..MaxMotors /\ NoMotor \in 0..MaxMotors
      BY SlotsAssumption DEF Index, NoMotor
    <3> QED BY <1>2, <3>1, <3>2, Zenon
  <2> QED BY <2>1, <2>2
<1> USE <1>1 DEF tableVars, mainVars
<1>6. MotorTypeOK'
  BY <1>4, <1>5 DEF MotorTypeOK
<1>7. TableInOrder'
  BY DEF TableInOrder
<1>8. NewFits' /\ ClashStops' /\ stopped' \subseteq DOMAIN motors'
  BY DEF NewFits, ClashStops
<1>9. FeedbackOwn'
  BY DEF FeedbackOwn
<1> QED BY <1>3, <1>6, <1>7, <1>8, <1>9

LEMMA FeedbackInv ==
  ASSUME AllButOne, MotorInv, NEW j \in Index, Feedback(j)
  PROVE  MotorInv'
<1> USE DEF MotorInv
<1> DEFINE hit == {k \in Range(can_instance) : Matches(Configured[k], ReportsAs(Configured[j]))}
<1>0. /\ UNCHANGED <<tableVars, stopped, wireVars, mainVars>> /\ j \in DOMAIN Configured
      /\ measure' = [k \in Index |-> IF k \in hit THEN j ELSE measure[k]]
  BY DEF Feedback
<1>1. measure' \in [Index -> 0..MaxMotors]
  BY <1>0, SlotsAssumption DEF MotorTypeOK, Index
<1>2. FeedbackOwn'
  <2>1. SUFFICES ASSUME main_pc # "crash", NEW k \in hit PROVE k = j
    BY <1>0 DEF FeedbackOwn, mainVars
  <2>2. k \in DOMAIN can_instance /\ can_instance[k] = k
    BY DEF TableInOrder, Range
  <2>3. motors \in Seq(Requests) /\ Len(motors) \in Nat
    BY MotorShapes
  <2>4. config \in Seq(Requests) /\ (Len(config) = 0 \/ Len(config) = 1)
    BY MotorShapes
  <2> DEFINE n == Len(motors)
             all == IF Len(config) = 1 THEN n + 1 ELSE n
  <2>5. /\ Configured \in Seq(Requests) /\ Len(Configured) = all
        /\ \A h \in 1..n : Configured[h] = motors[h]
        /\ Len(config) = 1 => Configured[n + 1] = config[1]
    <3>1. CASE Len(config) = 1
      BY <2>3, <2>4, <3>1, OneMore, Zenon DEF Configured
    <3>2. CASE Len(config) = 0
      <4>1. config = <<>>
        BY <2>4, <3>2
      <4>2. Configured = motors
        BY <2>3, <4>1 DEF Configured
      <4> QED BY <2>3, <3>2, <4>2
    <3> QED BY <2>4, <3>1, <3>2
  <2>12. Len(can_instance) <= all /\ Len(can_instance) \in Nat
    <3>1. CASE main_pc = "append"
      BY <2>3, <3>1, SlotsAssumption DEF TableInOrder, Fewer, NewFits
    <3>2. CASE main_pc # "append"
      BY <2>3, <3>2, SlotsAssumption DEF TableInOrder, Fewer
    <3> QED BY <3>1, <3>2
  <2>6. k \in 1..Len(Configured) /\ j \in 1..Len(Configured)
    <3>1. DOMAIN can_instance = 1..Len(can_instance)
      BY MotorShapes, LenProperties
    <3>2. DOMAIN Configured = 1..Len(Configured)
      BY <2>5, LenProperties
    <3>3. all \in Nat
      BY <2>3
    <3> QED BY <1>0, <2>2, <2>5, <2>12, <3>1, <3>2, <3>3
  <2>7. Configured[k] \in Motor /\ Configured[j] \in Motor
    BY <2>5, <2>6, RequestsAssumption
  <2>8. ReportsAs(Configured[k]) = ReportsAs(Configured[j])
    BY <2>7, SameReport
  <2>9. \A h \in 1..Len(Configured) : h \in 1..n \/ (h = n + 1 /\ Len(config) = 1)
    BY <2>3, <2>5
  <2>10. \A h, f \in 1..n : h # f => ReportsAs(Configured[h]) # ReportsAs(Configured[f])
    BY <2>3, <2>5 DEF ClashStops
  <2>11. Len(config) = 1 => \A h \in 1..n : ReportsAs(Configured[h]) # ReportsAs(Configured[n + 1])
    <3> SUFFICES ASSUME Len(config) = 1, NEW h \in 1..n
                 PROVE  ReportsAs(Configured[h]) # ReportsAs(Configured[n + 1])
      OBVIOUS
    <3>1. main_pc \in {"register", "append"}
      <4>1. config # <<>>
        OBVIOUS
      <4> QED BY <2>1, <4>1 DEF NewFits, MotorTypeOK
    <3>2. h \in DOMAIN motors
      BY <2>3, LenProperties
    <3>3. ReportsAs(motors[h]) # ReportsAs(config[1])
      BY <3>1, <3>2 DEF NewFits
    <3> QED BY <2>5, <3>3
  <2> QED BY <2>6, <2>8, <2>9, <2>10, <2>11
<1> USE <1>0 DEF tableVars, wireVars, mainVars
<1>3. MotorTypeOK'
  BY <1>1 DEF MotorTypeOK
<1>4. TableInOrder'
  BY DEF TableInOrder
<1>5. NewFits' /\ ClashStops' /\ stopped' \subseteq DOMAIN motors'
  BY DEF NewFits, ClashStops
<1>6. NoCrossTalk'
  BY DEF NoCrossTalk
<1> QED BY <1>2, <1>3, <1>4, <1>5, <1>6

LEMMA MotorNextInv == AllButOne /\ MotorInv /\ [MotorNext]_motorVars => MotorInv'
<1> SUFFICES ASSUME AllButOne, MotorInv, [MotorNext]_motorVars PROVE MotorInv'
  OBVIOUS
<1>1. ASSUME NEW m \in Requests, MainGroup(m) PROVE MotorInv'
  BY <1>1, GroupInv
<1>2. CASE MainRegister
  BY <1>2, RegisterInv
<1>3. CASE MainAppend
  BY <1>3, AppendInv
<1>4. ASSUME NEW j \in Index, MainStop(j) \/ MainEnable(j) PROVE MotorInv'
  BY <1>4, StopEnableInv
<1>5. ASSUME NEW j \in Index, Feedback(j) PROVE MotorInv'
  BY <1>5, FeedbackInv
<1>6. ASSUME NEW lost, MainControl(lost) PROVE MotorInv'
  BY <1>6, MainControlInv
<1>7. CASE UNCHANGED motorVars
  BY <1>7 DEF MotorInv, MotorTypeOK, TableInOrder, NewFits, ClashStops, NoCrossTalk,
              FeedbackOwn, motorVars, tableVars, wireVars, mainVars
<1> QED BY <1>1, <1>2, <1>3, <1>4, <1>5, <1>6, <1>7 DEF MotorNext

\* A motor that is stopped is told nothing but what it was told already.
LEMMA StoppedStays ==
  MotorInv /\ [MotorNext]_motorVars
    => \A j \in stopped : current'[j] \in {NoMotor, current[j]}
<1> SUFFICES ASSUME MotorInv, [MotorNext]_motorVars, NEW j \in stopped
             PROVE  current'[j] \in {NoMotor, current[j]}
  OBVIOUS
<1>1. CASE UNCHANGED current
  BY <1>1
<1>2. ASSUME NEW lost, MainControl(lost) PROVE current'[j] \in {NoMotor, current[j]}
  BY <1>2, ToldItsOwn DEF MotorInv, MotorTypeOK
<1>3. UNCHANGED current \/ \E lost : MainControl(lost)
  BY DEF MotorNext, motorVars, MainGroup, MainRegister, MainAppend, MainStop, MainEnable,
         Feedback, wireVars
<1> QED BY <1>1, <1>2, <1>3

\* If all motors but one have a receive instance, no motor is told the current
\* of another, none takes the reports of another, and a stopped one stays
\* without current, whatever motors the application configures and in
\* whatever order.
THEOREM OwnFrames == ASSUME AllButOne PROVE MotorSpec => []MotorTypeOK /\ []ClashStops /\ EachItsOwn
<1>1. MotorInit => MotorInv
  BY MotorInitInv
<1>2. MotorInv /\ [MotorNext]_motorVars => MotorInv'
  BY MotorNextInv
<1>3. MotorInv => MotorTypeOK /\ ClashStops /\ (NoCrossTalk /\ FeedbackOwn)
  BY DEF MotorInv
<1>4. ASSUME MotorInv, [MotorNext]_motorVars
      PROVE  [\A j \in stopped : current'[j] \in {NoMotor, current[j]}]_motorVars
  BY <1>4, StoppedStays
<1>5. MotorSpec => []MotorInv
  BY <1>1, <1>2, PTL DEF MotorSpec
<1>6. MotorSpec => StopHolds
  BY <1>4, <1>5, PTL DEF MotorSpec, StopHolds
<1> QED BY <1>3, <1>5, <1>6, PTL DEF EachItsOwn

(***************************************************************************)
(* MotorEncoder: the turn count of DecodeDJIMotor is right for every       *)
(* resolution of the encoder and every sequence of movements and lost      *)
(* reports.  The count alone is not inductive: that a difference of more   *)
(* than half a turn means a crossing follows from where the shaft is,      *)
(* ShaftTracked.                                                           *)
(***************************************************************************)

EncoderInv == EncoderTypeOK /\ RoundsTracked /\ ShaftTracked

\* Initially nothing has been decoded.
LEMMA EncoderInitInv == EncoderInit => EncoderInv
  <1> SUFFICES ASSUME EncoderInit PROVE EncoderInv
    OBVIOUS
  <1>1. ~started /\ started \in BOOLEAN
    BY DEF EncoderInit
  <1>2. /\ turn \in Int /\ moved \in (1 - Half)..(Half - 1)
        /\ tick \in Tick /\ ecd \in Tick /\ last_ecd \in Tick
        /\ total_round \in Int /\ total_angle \in Int
        /\ seen \in Int /\ base \in Int
    BY HalfAssumption DEF EncoderInit, Tick, Ticks
  <1> QED BY <1>1, <1>2 DEF EncoderInv, EncoderTypeOK, RoundsTracked, ShaftTracked

\* A movement of the shaft keeps the invariant: each of the three ways it can
\* lie to the boundary of a turn.
LEMMA MoveInv == ASSUME EncoderInv, NEW d \in Moves, Move(d) PROVE EncoderInv'
  <1> USE HalfAssumption, MovesAssumption, TurnAssumption
  <1>0. d \in Int
    OBVIOUS
  <1>1. EncoderTypeOK'
    BY <1>0 DEF EncoderInv, EncoderTypeOK, Move, measureVars, Tick, Ticks
  <1>2. RoundsTracked'
    BY DEF EncoderInv, RoundsTracked, Move, measureVars
  <1>3. ShaftTracked'
    <2>1. CASE started
      BY <1>0, <2>1 DEF EncoderInv, EncoderTypeOK, ShaftTracked, Move, measureVars, Tick, Ticks
    <2>2. CASE ~started
      BY <2>2 DEF Move, ShaftTracked
    <2> QED BY <2>1, <2>2 DEF EncoderInv, EncoderTypeOK
  <1> QED BY <1>1, <1>2, <1>3 DEF EncoderInv

\* A report adds as many rounds as the shaft has crossed boundaries since the
\* last one.
LEMMA ReportCrossings ==
    ASSUME EncoderInv, started
    PROVE  Rounds(tick, ecd) = turn - seen
  BY HalfAssumption DEF EncoderInv, EncoderTypeOK, ShaftTracked, Rounds, Tick, Ticks

\* A report keeps the invariant.
LEMMA ReportInv == ASSUME EncoderInv, Report PROVE EncoderInv'
  <1> USE HalfAssumption
  <1>1. Rounds(tick, ecd) \in {-1, 0, 1}
    BY DEF Rounds
  <1>2. /\ total_round' = total_round + Rounds(tick, ecd)
        /\ ecd' = tick /\ tick' = tick /\ turn' = turn
    BY DEF Report
  <1>3. total_round' \in Int
    BY <1>1, <1>2 DEF EncoderInv, EncoderTypeOK
  <1>4. EncoderTypeOK'
    BY <1>2, <1>3, DegreesAssumption DEF EncoderInv, EncoderTypeOK, Report, Tick, Ticks
  <1>5. RoundsTracked'
    <2>1. CASE started
      BY <1>2, <2>1, ReportCrossings
      DEF EncoderInv, EncoderTypeOK, RoundsTracked, Report
    <2>2. CASE ~started
      BY <1>2, <1>3, <2>2 DEF EncoderInv, EncoderTypeOK, RoundsTracked, Report
    <2> QED BY <2>1, <2>2 DEF EncoderInv, EncoderTypeOK
  <1>6. ShaftTracked'
    BY <1>2 DEF EncoderInv, EncoderTypeOK, ShaftTracked, Report, Tick
  <1> QED BY <1>4, <1>5, <1>6 DEF EncoderInv

\* Every step keeps the invariant.
LEMMA EncoderNextInv == EncoderInv /\ [EncoderNext]_encoderVars => EncoderInv'
  <1> SUFFICES ASSUME EncoderInv, [EncoderNext]_encoderVars PROVE EncoderInv'
    OBVIOUS
  <1>1. CASE \E d \in Moves : Move(d)
    BY <1>1, MoveInv
  <1>2. CASE Report
    BY <1>2, ReportInv
  <1>3. CASE UNCHANGED encoderVars
    BY <1>3 DEF encoderVars, shaftVars, measureVars, EncoderInv, EncoderTypeOK, RoundsTracked,
                ShaftTracked, Tick, Ticks
  <1> QED BY <1>1, <1>2, <1>3 DEF EncoderNext

\* The invariant always holds.
LEMMA EncoderInvariance == EncoderSpec => []EncoderInv
  BY EncoderInitInv, EncoderNextInv, PTL DEF EncoderSpec

\* The variables of DecodeDJIMotor stay in their ranges.
THEOREM EncoderTypes == EncoderSpec => []EncoderTypeOK
  <1>1. EncoderInv => EncoderTypeOK
    BY DEF EncoderInv
  <1> QED BY <1>1, EncoderInvariance, PTL

\* DecodeDJIMotor counts the turns of the shaft exactly.
THEOREM TurnsCounted == EncoderSpec => []RoundsTracked
  <1>1. EncoderInv => RoundsTracked
    BY DEF EncoderInv
  <1> QED BY <1>1, EncoderInvariance, PTL
-----------------------------------------------------------------------------
(* CanPayload: the byte order.  Both ways of reversing a word, that of     *)
(* CANSwapBytesPerWord and that of the HAL's packing, take a byte to the   *)
(* same place.                                                             *)

\* Where byte k of a message of this length goes when its word is reversed.
Mirror(k, len) ==
    LET first == 4 * (k \div 4)
    IN first + ((IF len - first < 4 THEN len - first ELSE 4) - 1 - (k - first))

LEMMA Words ==
  ASSUME NEW k \in 0..63
  PROVE  \E q \in 0..15, r \in 0..3 : k = 4 * q + r /\ k \div 4 = q /\ k % 4 = r
  OBVIOUS

\* Mirror reverses a word within the bytes that are there.
LEMMA MirrorTwice ==
  ASSUME NEW len \in 0..64, NEW k \in 0..63, k < len
  PROVE  /\ Mirror(k, len) \in 0..63 /\ Mirror(k, len) < len
         /\ Mirror(Mirror(k, len), len) = k
<1>1. PICK q \in 0..15, r \in 0..3 : k = 4 * q + r /\ k \div 4 = q
  BY Words
<1> DEFINE chunk == IF len - 4 * q < 4 THEN len - 4 * q ELSE 4
           m == 4 * q + (chunk - 1 - r)
<1>2. Mirror(k, len) = m
  BY <1>1 DEF Mirror
<1>3. chunk \in 1..4 /\ r < chunk /\ 4 * q + chunk <= len
  BY <1>1
<1>4. m \in 0..63 /\ m < len /\ m \div 4 = q
  <2> HIDE DEF chunk
  <2>1. chunk - 1 - r \in 0..3
    BY <1>3
  <2> QED BY <1>3, <2>1
<1>5. Mirror(m, len) = 4 * q + (chunk - 1 - (m - 4 * q))
  BY <1>4 DEF Mirror
<1>6. 4 * q + (chunk - 1 - (m - 4 * q)) = k
  <2> HIDE DEF chunk
  <2> QED BY <1>1, <1>3
<1> QED BY <1>2, <1>4, <1>5, <1>6

LEMMA SwapMirrors ==
  ASSUME NEW len \in 0..64, NEW src
  PROVE  Swap(src, len) = [k \in Positions |-> IF k < len THEN src[Mirror(k, len)] ELSE Clear]
  BY DEF Swap, Mirror, Positions

LEMMA UnpackMirrors ==
  ASSUME NEW len \in 0..64, NEW lanes
  PROVE  Unpack(lanes, len) = [k \in Positions |-> IF k < len THEN lanes[Mirror(k, len)] ELSE Clear]
<1>1. PICK full \in 0..16, rem \in 0..3 : len = 4 * full + rem /\ len \div 4 = full /\ len % 4 = rem
  OBVIOUS
<1> SUFFICES ASSUME NEW k \in Positions
             PROVE  Unpack(lanes, len)[k] = IF k < len THEN lanes[Mirror(k, len)] ELSE Clear
  BY DEF Unpack
<1>2. Unpack(lanes, len)[k] =
        IF k < 4 * full THEN lanes[4 * (k \div 4) + (3 - (k % 4))]
        ELSE IF k < len THEN lanes[4 * full + (rem - 1 - (k - 4 * full))] ELSE Clear
  BY <1>1 DEF Unpack
<1>3. PICK q \in 0..15, r \in 0..3 : k = 4 * q + r /\ k \div 4 = q /\ k % 4 = r
  BY Words DEF Positions
<1>4. CASE k < 4 * full
  <2>1. q < full /\ ~(len - 4 * q < 4) /\ k < len
    BY <1>1, <1>3, <1>4
  <2>2. Mirror(k, len) = 4 * q + (3 - r)
    BY <1>3, <2>1 DEF Mirror
  <2> QED BY <1>2, <1>3, <1>4, <2>1, <2>2
<1>5. CASE ~(k < 4 * full) /\ k < len
  <2>1. q = full /\ len - 4 * q < 4 /\ len - 4 * q = rem
    BY <1>1, <1>3, <1>5
  <2>2. Mirror(k, len) = 4 * full + (rem - 1 - (k - 4 * full))
    BY <1>3, <2>1 DEF Mirror
  <2> QED BY <1>2, <1>5, <2>2
<1>6. CASE ~(k < 4 * full) /\ ~(k < len)
  BY <1>2, <1>6
<1>7. k < 4 * full => k < len
  BY <1>1, <1>3
<1> QED BY <1>4, <1>5, <1>6, <1>7

\* Words that a message does not reach keep what they hold.
LEMMA PackMirrors ==
  ASSUME NEW len \in 0..64, NEW regs, NEW msg
  PROVE  /\ \A p \in Positions : p < len => Pack(regs, msg, len)[p] = msg[Mirror(p, len)]
         /\ \A p \in Positions : ~(p < len) => Pack(regs, msg, len)[p] \in {Clear, regs[p]}
         /\ DOMAIN Pack(regs, msg, len) = Positions
         /\ Pack(regs, msg, len) = [p \in Positions |-> Pack(regs, msg, len)[p]]
<1>1. PICK full \in 0..16, rem \in 0..3 : len = 4 * full + rem /\ len \div 4 = full /\ len % 4 = rem
  OBVIOUS
<1>2. ASSUME NEW p \in Positions
      PROVE  Pack(regs, msg, len)[p] =
               IF p < 4 * full THEN msg[4 * (p \div 4) + (3 - (p % 4))]
               ELSE IF rem # 0 /\ p \div 4 = full
                    THEN IF p % 4 < rem THEN msg[4 * full + (rem - 1 - (p % 4))] ELSE Clear
                    ELSE regs[p]
  BY <1>1 DEF Pack
<1>3. ASSUME NEW p \in Positions
      PROVE  /\ p < len => Pack(regs, msg, len)[p] = msg[Mirror(p, len)]
             /\ ~(p < len) => Pack(regs, msg, len)[p] \in {Clear, regs[p]}
  <2>1. PICK q \in 0..15, r \in 0..3 : p = 4 * q + r /\ p \div 4 = q /\ p % 4 = r
    BY Words DEF Positions
  <2>2. CASE p < 4 * full
    <3>1. q < full /\ ~(len - 4 * q < 4) /\ p < len
      BY <1>1, <2>1, <2>2
    <3>2. Mirror(p, len) = 4 * q + (3 - r)
      BY <2>1, <3>1 DEF Mirror
    <3> QED BY <1>2, <2>1, <2>2, <3>1, <3>2
  <2>3. CASE ~(p < 4 * full) /\ p < len
    <3>1. q = full /\ len - 4 * q < 4 /\ len - 4 * q = rem /\ rem # 0 /\ r < rem
      BY <1>1, <2>1, <2>3
    <3>2. Mirror(p, len) = 4 * full + (rem - 1 - r)
      BY <2>1, <3>1 DEF Mirror
    <3> QED BY <1>2, <2>1, <2>3, <3>1, <3>2
  <2>4. CASE ~(p < 4 * full) /\ ~(p < len)
    <3>1. ~(q = full /\ r < rem)
      BY <1>1, <2>1, <2>4
    <3> QED BY <1>2, <2>1, <2>4, <3>1
  <2>5. p < 4 * full => p < len
    BY <1>1, <2>1
  <2> QED BY <2>2, <2>3, <2>4, <2>5
<1>4. DOMAIN Pack(regs, msg, len) = Positions
      /\ Pack(regs, msg, len) = [p \in Positions |-> Pack(regs, msg, len)[p]]
  BY DEF Pack
<1> QED BY <1>3, <1>4

-----------------------------------------------------------------------------
(* CanPayload: the lengths.                                                *)

LEMMA DlcValues ==
  /\ \A d \in 0..8 : Dlc2Len(d) = d
  /\ Dlc2Len(9) = 12 /\ Dlc2Len(10) = 16 /\ Dlc2Len(11) = 20 /\ Dlc2Len(12) = 24
  /\ Dlc2Len(13) = 32 /\ Dlc2Len(14) = 48 /\ Dlc2Len(15) = 64
<1>1. \A d \in 0..8 : d \in {0, 1, 2, 3, 4, 5, 6, 7, 8}
  OBVIOUS
<1>2. /\ Dlc2Len(0) = 0 /\ Dlc2Len(1) = 1 /\ Dlc2Len(2) = 2 /\ Dlc2Len(3) = 3 /\ Dlc2Len(4) = 4
      /\ Dlc2Len(5) = 5 /\ Dlc2Len(6) = 6 /\ Dlc2Len(7) = 7 /\ Dlc2Len(8) = 8
  BY DEF Dlc2Len
<1>3. /\ Dlc2Len(9) = 12 /\ Dlc2Len(10) = 16 /\ Dlc2Len(11) = 20 /\ Dlc2Len(12) = 24
      /\ Dlc2Len(13) = 32 /\ Dlc2Len(14) = 48 /\ Dlc2Len(15) = 64
  BY DEF Dlc2Len
<1> QED BY <1>1, <1>2, <1>3

\* A longer DLC stands for more bytes.
LEMMA DlcRises ==
  /\ \A d \in 0..15 : Dlc2Len(d) \in 0..64
  /\ \A c, d \in 0..15 : c < d => Dlc2Len(c) < Dlc2Len(d)
<1>1. \A d \in 0..15 : d \in 0..8 \/ d \in {9, 10, 11, 12, 13, 14, 15}
  OBVIOUS
<1>2. \A d \in 0..15 : Dlc2Len(d) \in 0..64 /\ (d \in 0..8 => Dlc2Len(d) = d)
                        /\ (d \notin 0..8 => Dlc2Len(d) >= 12)
  BY <1>1, DlcValues
<1>3. ASSUME NEW c \in 9..15, NEW d \in 9..15, c < d PROVE Dlc2Len(c) < Dlc2Len(d)
  BY <1>3, DlcValues
<1>4. ASSUME NEW c \in 0..15, NEW d \in 0..15, c < d PROVE Dlc2Len(c) < Dlc2Len(d)
  <2>1. CASE c \in 0..8 /\ d \in 0..8
    BY <1>2, <1>4, <2>1
  <2>2. CASE c \in 0..8 /\ d \in 9..15
    <3>1. Dlc2Len(c) = c /\ Dlc2Len(d) >= 12 /\ Dlc2Len(d) \in 0..64
      BY <1>2, <2>2
    <3> QED BY <2>2, <3>1
  <2>3. CASE c \in 9..15 /\ d \in 9..15
    BY <1>3, <1>4, <2>3
  <2> QED BY <1>4, <2>1, <2>2, <2>3
<1> QED BY <1>2, <1>4

LEMMA LengthsSmall == Lengths \subseteq 0..64 /\ 0 \in Lengths /\ Sent \subseteq Lengths
<1>1. 0 \in 0..15 /\ Dlc2Len(0) = 0
  BY DlcValues
<1> QED BY <1>1, DlcRises, SentAssumption DEF Lengths

\* What HAL_CANFD_Transmit writes into the DLC is the length of the message.
LEMMA LengthKept == ASSUME NEW len \in Lengths PROVE Dlc2Len(Len2Dlc(len)) = len
<1>1. PICK d \in 0..15 : len = Dlc2Len(d)
  BY DEF Lengths
<1> DEFINE Least(e) == Dlc2Len(e) >= len /\ \A c \in 0..15 : Dlc2Len(c) >= len => e <= c
<1>2. Dlc2Len(d) >= len
  <2>1. len \in 0..64
    BY LengthsSmall
  <2> QED BY <1>1, <2>1
<1>3. ASSUME NEW c \in 0..15, Dlc2Len(c) >= len PROVE d <= c
  <2> SUFFICES ASSUME c < d PROVE FALSE
    OBVIOUS
  <2>1. Dlc2Len(c) < Dlc2Len(d) /\ Dlc2Len(c) \in 0..64 /\ Dlc2Len(d) \in 0..64
    BY DlcRises
  <2> QED BY <1>1, <1>3, <2>1
<1>4. Least(d)
  BY <1>2, <1>3
<1> DEFINE e == CHOOSE x \in 0..15 : Least(x)
<1>5. e \in 0..15 /\ Least(e)
  BY <1>4
<1>6. e <= d /\ d <= e
  BY <1>2, <1>3, <1>5
<1>7. Len2Dlc(len) = e
  BY DEF Len2Dlc
<1> HIDE DEF e
<1>8. e = d
  BY <1>5, <1>6
<1> QED BY <1>1, <1>7, <1>8

-----------------------------------------------------------------------------
(* CanPayload: the invariant.                                              *)

\* What a frame of the last sender holds on the bus: HAL_CANFD_Transmit alone
\* sends every word reversed.
OnBus(k) == IF k < given.len THEN IF given.by = "hal" THEN Mirror(k, given.len) ELSE k ELSE Clear

PayloadTyped ==
    /\ txdata \in [Positions -> Bytes]
    /\ given \in [by : {"none", "bsp", "hal", "peer"}, len : Lengths]
    /\ frame \in [len : Lengths, bytes : [Positions -> Bytes]]
    /\ rxdlc \in Lengths /\ rxdata \in [Positions -> Bytes]
    /\ rxlen \in Lengths /\ rxbuff \in [Positions -> Bytes]
    /\ pc \in {"idle", "requested", "bus", "fetched"}

PayloadStages ==
    /\ pc # "idle" => given.by # "none"
    /\ pc = "requested" => /\ given.by # "peer"
                           /\ \A k \in Positions : k < given.len => txdata[k] = OnBus(k)
    /\ pc \in {"bus", "fetched"} => frame = [len |-> given.len, bytes |-> [k \in Positions |-> OnBus(k)]]
    /\ pc = "fetched" => rxdlc = frame.len /\ rxdata = Unpack(frame.bytes, frame.len)
    /\ pc = "idle" /\ given.by # "none" =>
           /\ rxlen = frame.len /\ rxbuff = frame.bytes

PayloadInv == PayloadTyped /\ PayloadStages

LEMMA BlankBytes == Blank \in [Positions -> Bytes] /\ \A k \in Positions : k \in 0..63 /\ k \in Int
  BY DEF Blank, Bytes, Positions

LEMMA AgedBytes == ASSUME NEW b \in [Positions -> Bytes] PROVE Aged(b) \in [Positions -> Bytes]
  BY DEF Aged, Bytes

LEMMA PayloadBytes ==
  ASSUME NEW len PROVE Payload(len) \in [Positions -> Bytes]
  BY DEF Payload, Bytes

LEMMA SwapBytes ==
  ASSUME NEW len \in 0..64, NEW b \in [Positions -> Bytes]
  PROVE  /\ Swap(b, len) \in [Positions -> Bytes]
         /\ Unpack(b, len) \in [Positions -> Bytes]
         /\ \A regs \in [Positions -> Bytes] : Pack(regs, b, len) \in [Positions -> Bytes]
<1>1. \A k \in Positions : k < len => Mirror(k, len) \in Positions
  BY MirrorTwice DEF Positions
<1>2. Swap(b, len) \in [Positions -> Bytes] /\ Unpack(b, len) \in [Positions -> Bytes]
  BY <1>1, SwapMirrors, UnpackMirrors DEF Bytes
<1>3. ASSUME NEW regs \in [Positions -> Bytes] PROVE Pack(regs, b, len) \in [Positions -> Bytes]
  <2>1. \A p \in Positions : Pack(regs, b, len)[p] \in Bytes
    <3> SUFFICES ASSUME NEW p \in Positions PROVE Pack(regs, b, len)[p] \in Bytes
      OBVIOUS
    <3>1. CASE p < len
      BY <1>1, <3>1, PackMirrors
    <3>2. CASE ~(p < len)
      <4>1. Pack(regs, b, len)[p] \in {Clear, regs[p]}
        BY <3>2, PackMirrors
      <4> QED BY <4>1 DEF Bytes
    <3> QED BY <3>1, <3>2
  <2> QED BY <2>1, PackMirrors
<1> QED BY <1>2, <1>3

LEMMA PayloadInvInit == PayloadInit => PayloadInv
<1> SUFFICES ASSUME PayloadInit PROVE PayloadInv
  OBVIOUS
<1>1. PayloadTyped
  BY BlankBytes, LengthsSmall DEF PayloadInit, PayloadTyped, NoneYet
<1>2. PayloadStages
  BY DEF PayloadInit, PayloadStages
<1> QED BY <1>1, <1>2 DEF PayloadInv

\* A sender writes its message.
LEMMA SendStep ==
  ASSUME PayloadInv, NEW len \in Sent, BspSend(len) \/ HalSend(len) \/ PeerSend(len)
  PROVE  PayloadInv'
<1>1. len \in Lengths /\ len \in 0..64
  BY LengthsSmall
<1>2. PICK by \in {"bsp", "hal", "peer"} :
         /\ given' = [by |-> by, len |-> len] /\ rxbuff' = Aged(rxbuff)
         /\ UNCHANGED <<rxdlc, rxdata, rxlen>>
         /\ \/ by = "bsp" /\ BspSend(len)
            \/ by = "hal" /\ HalSend(len)
            \/ by = "peer" /\ PeerSend(len)
  BY DEF BspSend, HalSend, PeerSend, Give
<1>3. rxbuff' \in [Positions -> Bytes] /\ Aged(txdata) \in [Positions -> Bytes]
  BY <1>2, AgedBytes DEF PayloadInv, PayloadTyped
<1>4. given'.len = len /\ given'.by = by
  BY <1>2
<1>5. CASE by = "bsp"
  <2> DEFINE swapped == Swap(Payload(len), len)
  <2>1. /\ txdata' = Pack(Aged(txdata), swapped, len)
        /\ frame' = NoneYet /\ pc' = "requested"
    BY <1>2, <1>5 DEF BspSend
  <2>2. swapped \in [Positions -> Bytes]
    BY <1>1, SwapBytes, PayloadBytes
  <2>3. PayloadTyped'
    <3> HIDE DEF swapped
    <3>1. txdata' \in [Positions -> Bytes]
      BY <1>1, <1>3, <2>1, <2>2, SwapBytes
    <3> QED BY <1>1, <1>2, <1>3, <2>1, <3>1, BlankBytes, LengthsSmall DEF PayloadInv, PayloadTyped, NoneYet
  <2>4. ASSUME NEW k \in Positions, k < len PROVE txdata'[k] = k
    <3>1. Mirror(k, len) \in Positions /\ Mirror(k, len) < len /\ Mirror(Mirror(k, len), len) = k
      BY <1>1, <2>4, MirrorTwice DEF Positions
    <3>2. txdata'[k] = swapped[Mirror(k, len)]
      BY <1>1, <2>1, <2>4, PackMirrors
    <3>3. swapped[Mirror(k, len)] = Payload(len)[Mirror(Mirror(k, len), len)]
      BY <1>1, <3>1, SwapMirrors
    <3> QED BY <2>4, <3>1, <3>2, <3>3 DEF Payload
  <2>5. PayloadStages'
    BY <1>4, <1>5, <2>1, <2>4 DEF PayloadStages, OnBus
  <2> QED BY <2>3, <2>5 DEF PayloadInv
<1>6. CASE by = "hal"
  <2>1. /\ txdata' = Pack(Aged(txdata), Payload(len), len)
        /\ frame' = NoneYet /\ pc' = "requested"
    BY <1>2, <1>6 DEF HalSend
  <2>2. PayloadTyped'
    <3>1. txdata' \in [Positions -> Bytes]
      BY <1>1, <1>3, <2>1, PayloadBytes, SwapBytes
    <3> QED BY <1>1, <1>2, <1>3, <2>1, <3>1, BlankBytes, LengthsSmall DEF PayloadInv, PayloadTyped, NoneYet
  <2>3. ASSUME NEW k \in Positions, k < len PROVE txdata'[k] = Mirror(k, len)
    <3>1. Mirror(k, len) \in Positions /\ Mirror(k, len) < len
      BY <1>1, <2>3, MirrorTwice DEF Positions
    <3>2. txdata'[k] = Payload(len)[Mirror(k, len)]
      BY <1>1, <2>1, <2>3, PackMirrors
    <3> QED BY <3>1, <3>2 DEF Payload
  <2>4. PayloadStages'
    BY <1>4, <1>6, <2>1, <2>3 DEF PayloadStages, OnBus
  <2> QED BY <2>2, <2>4 DEF PayloadInv
<1>7. CASE by = "peer"
  <2>1. frame' = [len |-> len, bytes |-> Payload(len)] /\ pc' = "bus" /\ txdata' = txdata
    BY <1>2, <1>7 DEF PeerSend
  <2>2. PayloadTyped'
    BY <1>1, <1>2, <1>3, <2>1, PayloadBytes DEF PayloadInv, PayloadTyped
  <2>3. Payload(len) = [k \in Positions |-> OnBus(k)']
    BY <1>4, <1>7 DEF Payload, OnBus
  <2>4. PayloadStages'
    BY <1>4, <1>7, <2>1, <2>3 DEF PayloadStages
  <2> QED BY <2>2, <2>4 DEF PayloadInv
<1> QED BY <1>5, <1>6, <1>7

\* The controller puts the words on the bus.
LEMMA ShiftStep == ASSUME PayloadInv, Shift PROVE PayloadInv'
<1>1. pc = "requested" /\ pc' = "bus" /\ UNCHANGED <<txdata, given, rxdlc, rxdata, rxlen, rxbuff>>
  BY DEF Shift
<1>2. given.len \in Lengths /\ given.len \in 0..64
  BY LengthsSmall DEF PayloadInv, PayloadTyped
<1>3. frame' = [len |-> given.len,
                bytes |-> [k \in Positions |-> IF k < given.len THEN txdata[k] ELSE Clear]]
  BY <1>2, LengthKept DEF Shift
<1>4. [k \in Positions |-> IF k < given.len THEN txdata[k] ELSE Clear] = [k \in Positions |-> OnBus(k)]
  BY <1>1 DEF PayloadInv, PayloadStages, OnBus
<1>5. [k \in Positions |-> IF k < given.len THEN txdata[k] ELSE Clear] \in [Positions -> Bytes]
  BY DEF PayloadInv, PayloadTyped, Bytes
<1>6. PayloadTyped'
  BY <1>1, <1>2, <1>3, <1>5 DEF PayloadInv, PayloadTyped
<1>7. \A k : OnBus(k)' = OnBus(k)
  BY <1>1 DEF OnBus
<1>8. PayloadStages'
  BY <1>1, <1>3, <1>4, <1>7 DEF PayloadInv, PayloadStages
<1> QED BY <1>6, <1>8 DEF PayloadInv

LEMMA PayloadReceiveStep == ASSUME PayloadInv, Receive PROVE PayloadInv'
<1> DEFINE lanes == [p \in Positions |-> IF p < frame.len THEN frame.bytes[p] ELSE Stale]
<1>1. /\ pc = "bus" /\ pc' = "fetched" /\ rxdlc' = frame.len /\ rxdata' = Unpack(lanes, frame.len)
      /\ UNCHANGED <<txdata, given, frame, rxlen, rxbuff>>
  BY DEF Receive
<1>2. frame.len \in Lengths /\ frame.len \in 0..64 /\ frame.bytes \in [Positions -> Bytes]
  BY LengthsSmall DEF PayloadInv, PayloadTyped
<1>3. Unpack(lanes, frame.len) = Unpack(frame.bytes, frame.len)
  <2>1. \A k \in Positions : k < frame.len => lanes[Mirror(k, frame.len)] = frame.bytes[Mirror(k, frame.len)]
    BY <1>2, MirrorTwice DEF Positions
  <2> HIDE DEF lanes
  <2> QED BY <1>2, <2>1, UnpackMirrors
<1>4. PayloadTyped'
  <2>1. Unpack(frame.bytes, frame.len) \in [Positions -> Bytes]
    BY <1>2, SwapBytes
  <2> QED BY <1>1, <1>2, <1>3, <2>1 DEF PayloadInv, PayloadTyped
<1>5. \A k : OnBus(k)' = OnBus(k)
  BY <1>1 DEF OnBus
<1>6. PayloadStages'
  <2> HIDE DEF lanes
  <2> QED BY <1>1, <1>3, <1>5 DEF PayloadInv, PayloadStages
<1> QED BY <1>4, <1>6 DEF PayloadInv

LEMMA PayloadDispatchStep == ASSUME PayloadInv, Dispatch PROVE PayloadInv'
<1>1. /\ pc = "fetched" /\ pc' = "idle" /\ rxlen' = rxdlc /\ rxbuff' = Swap(rxdata, rxdlc)
      /\ rxdlc' = 0 /\ rxdata' = Blank /\ UNCHANGED <<txdata, given, frame>>
  BY DEF Dispatch
<1>2. /\ rxdlc = frame.len /\ rxdata = Unpack(frame.bytes, frame.len)
      /\ frame = [len |-> given.len, bytes |-> [k \in Positions |-> OnBus(k)]]
  BY <1>1 DEF PayloadInv, PayloadStages
<1>3. frame.len \in Lengths /\ frame.len \in 0..64 /\ frame.bytes \in [Positions -> Bytes]
  BY LengthsSmall DEF PayloadInv, PayloadTyped
<1>4. Swap(rxdata, rxdlc) = frame.bytes
  <2>1. ASSUME NEW k \in Positions PROVE Swap(rxdata, rxdlc)[k] = frame.bytes[k]
    <3>1. CASE k < frame.len
      <4>1. /\ Mirror(k, frame.len) \in Positions /\ Mirror(k, frame.len) < frame.len
            /\ Mirror(Mirror(k, frame.len), frame.len) = k
        BY <1>3, <3>1, MirrorTwice DEF Positions
      <4>2. Swap(rxdata, rxdlc)[k] = rxdata[Mirror(k, frame.len)]
        BY <1>2, <1>3, <3>1, SwapMirrors
      <4>3. rxdata[Mirror(k, frame.len)] = frame.bytes[Mirror(Mirror(k, frame.len), frame.len)]
        BY <1>2, <1>3, <4>1, UnpackMirrors
      <4> QED BY <4>1, <4>2, <4>3
    <3>2. CASE ~(k < frame.len)
      <4>1. Swap(rxdata, rxdlc)[k] = Clear
        BY <1>2, <1>3, <3>2, SwapMirrors
      <4>2. frame.bytes[k] = OnBus(k) /\ frame.len = given.len
        BY <1>2
      <4>3. frame.bytes[k] = Clear
        BY <3>2, <4>2 DEF OnBus
      <4> QED BY <4>1, <4>3
    <3> QED BY <3>1, <3>2
  <2>2. Swap(rxdata, rxdlc) = [k \in Positions |-> Swap(rxdata, rxdlc)[k]]
    BY DEF Swap
  <2> QED BY <1>3, <2>1, <2>2
<1>5. PayloadTyped'
  BY <1>1, <1>2, <1>3, <1>4, BlankBytes, LengthsSmall DEF PayloadInv, PayloadTyped
<1>6. PayloadStages'
  BY <1>1, <1>2, <1>4 DEF PayloadStages
<1> QED BY <1>5, <1>6 DEF PayloadInv

LEMMA PayloadInvNext == PayloadInv /\ [PayloadNext]_payloadVars => PayloadInv'
<1> SUFFICES ASSUME PayloadInv, [PayloadNext]_payloadVars PROVE PayloadInv'
  OBVIOUS
<1>1. CASE \E len \in Sent : BspSend(len) \/ HalSend(len) \/ PeerSend(len)
  BY <1>1, SendStep
<1>2. CASE Shift
  BY <1>2, ShiftStep
<1>3. CASE Receive
  BY <1>3, PayloadReceiveStep
<1>4. CASE Dispatch
  BY <1>4, PayloadDispatchStep
<1>5. CASE UNCHANGED payloadVars
  <2>1. \A k : OnBus(k)' = OnBus(k)
    BY <1>5 DEF OnBus, payloadVars
  <2>2. PayloadTyped'
    BY <1>5 DEF PayloadInv, PayloadTyped, payloadVars
  <2>3. PayloadStages'
    BY <1>5, <2>1 DEF PayloadInv, PayloadStages, payloadVars
  <2> QED BY <2>2, <2>3 DEF PayloadInv
<1> QED BY <1>1, <1>2, <1>3, <1>4, <1>5 DEF PayloadNext

\* For every length a frame can have, and whatever older messages left in the
\* registers, the bytes stand on the bus in the order CANTransmit was given
\* them, rx_buff is what stood on the bus, and two programs that use the HAL
\* alone agree: BytesKept.
THEOREM BytesAreKept == PayloadSpec => [](PayloadTypeOK /\ BytesKept)
<1>1. ASSUME PayloadInv PROVE PayloadTypeOK /\ BytesKept
  <2>1. PayloadTypeOK
    BY <1>1 DEF PayloadInv, PayloadTyped, PayloadTypeOK
  <2>2. SentInOrder
    <3> SUFFICES ASSUME pc = "bus", given.by = "bsp"
                 PROVE  frame = [len |-> given.len, bytes |-> Payload(given.len)]
      BY DEF SentInOrder
    <3>1. [k \in Positions |-> OnBus(k)] = Payload(given.len)
      BY DEF OnBus, Payload
    <3> QED BY <1>1, <3>1 DEF PayloadInv, PayloadStages
  <2>3. ReceivedInOrder
    BY <1>1 DEF PayloadInv, PayloadStages, ReceivedInOrder
  <2>4. HalAgrees
    <3> SUFFICES ASSUME pc = "fetched", given.by = "hal"
                 PROVE  rxdlc = given.len /\ rxdata = Payload(given.len)
      BY DEF HalAgrees
    <3>1. /\ rxdlc = frame.len /\ rxdata = Unpack(frame.bytes, frame.len)
          /\ frame = [len |-> given.len, bytes |-> [k \in Positions |-> OnBus(k)]]
      BY <1>1 DEF PayloadInv, PayloadStages
    <3>2. given.len \in 0..64
      BY <1>1, LengthsSmall DEF PayloadInv, PayloadTyped
    <3>3. frame.len = given.len /\ \A k \in Positions : frame.bytes[k] = OnBus(k)
      BY <3>1
    <3>4. rxdata = [k \in Positions |-> IF k < given.len THEN frame.bytes[Mirror(k, given.len)] ELSE Clear]
      BY <3>1, <3>2, <3>3, UnpackMirrors
    <3>5. ASSUME NEW k \in Positions, k < given.len PROVE frame.bytes[Mirror(k, given.len)] = k
      <4>1. /\ Mirror(k, given.len) \in Positions /\ Mirror(k, given.len) < given.len
            /\ Mirror(Mirror(k, given.len), given.len) = k
        BY <3>2, <3>5, MirrorTwice DEF Positions
      <4> QED BY <3>3, <4>1 DEF OnBus
    <3> QED BY <3>1, <3>3, <3>4, <3>5 DEF Payload
  <2> QED BY <2>1, <2>2, <2>3, <2>4 DEF BytesKept
<1> QED BY <1>1, PayloadInvInit, PayloadInvNext, PTL DEF PayloadSpec

-----------------------------------------------------------------------------
(* Pid: numbers.                                                           *)

LEMMA QuotientInt ==
  ASSUME NEW n \in Int, NEW d \in Nat \ {0}
  PROVE  Quotient(n, d) \in Int /\ Abs(Quotient(n, d)) <= Abs(n)
<1>1. CASE n >= 0
  <2>1. n \in Nat /\ Quotient(n, d) = n \div d
    BY <1>1 DEF Quotient
  <2>2. n \div d \in Int /\ 0 <= n \div d /\ n \div d <= n
    BY <2>1
  <2> QED BY <2>1, <2>2 DEF Abs
<1>2. CASE n < 0
  <2> DEFINE m == -n
  <2>1. m \in Nat
    BY <1>2
  <2>2. m \div d \in Int /\ 0 <= m \div d /\ m \div d <= m
    BY <2>1
  <2>3. Quotient(n, d) = -(m \div d)
    BY <1>2 DEF Quotient
  <2> QED BY <1>2, <2>2, <2>3 DEF Abs
<1> QED BY <1>1, <1>2

LEMMA AbsZero == \A x \in Int : Abs(x) = 0 <=> x = 0
  BY DEF Abs

LEMMA AbsInt == ASSUME NEW x \in Int PROVE Abs(x) \in Nat
  BY DEF Abs

LEMMA PlusInt == ASSUME NEW x \in Int, NEW y \in Int PROVE Plus(x, y) \in Int
<1>1. NaN \in Int
  BY ConfigsAssumption DEF NaN
<1> QED BY <1>1 DEF Plus, Infinite, IsNumber

\* The sum of two numbers that stay small is a number.
LEMMA PlusNumber ==
  ASSUME NEW x \in Int, NEW y \in Int, Abs(x) + Abs(y) < Inf
  PROVE  Plus(x, y) # NaN
  BY ConfigsAssumption DEF Plus, NaN, Infinite, IsNumber, Abs

LEMMA PerInt == ASSUME NEW n \in Int, NEW t \in Nat PROVE Per(n, t) \in Int
  BY QuotientInt, ConfigsAssumption DEF Per, NaN

LEMMA ShareInt == ASSUME NEW x \in Int, NEW a \in Nat, NEW b \in Nat PROVE Share(x, a, b) \in Int
<1>1. x * a \in Int
  OBVIOUS
<1>2. CASE b = 0
  BY <1>2, ConfigsAssumption DEF Share, NaN
<1>3. CASE b # 0
  BY <1>1, <1>3, QuotientInt, ConfigsAssumption DEF Share, NaN
<1> QED BY <1>2, <1>3

LEMMA ClampInt ==
  ASSUME NEW x \in Int, NEW bound \in Nat
  PROVE  /\ Clamp(x, bound) \in Int
         /\ Clamp(x, bound) = NaN \/ Abs(Clamp(x, bound)) <= bound
         /\ x # NaN /\ bound < Inf => Clamp(x, bound) # NaN
  BY ConfigsAssumption DEF Clamp, Exceeds, Abs, NaN

-----------------------------------------------------------------------------
(* Pid: the stages, whichever of them Improve turns on.                    *)

\* What the instances keep to: a bound that is a number, and an integral that
\* is bounded unless there is none.
Bounded == \A c \in Configs : /\ c.MaxOut < Inf /\ c.IntegralLimit < Inf
                              /\ "Integral_Limit" \in c.Improve \/ c.Ki = 0

\* Inf is larger than what the proportional term, the integral and the
\* derivative of a call can be together.
Room == \A c \in Configs, m, n \in Measures \union {0}, r, q \in Refs \union {0} :
            Abs(c.Kp * (r - m)) + c.IntegralLimit + Abs(c.Kd * ((r - m) - (q - n))) < Inf

PidNumbers == /\ pid \in Configs /\ {Measure, Ref, Iout, Dout, Output} \subseteq Int
              /\ ~Uses("Integral_Limit") => Iout = 0
              /\ Abs(Iout) <= pid.IntegralLimit

LEMMA Parameters ==
  ASSUME pid \in Configs
  PROVE  /\ pid.Kp \in Int /\ pid.Ki \in Int /\ pid.Kd \in Int
         /\ pid.MaxOut \in Nat /\ pid.DeadBand \in Nat /\ pid.IntegralLimit \in Nat
         /\ pid.CoefB \in Nat /\ pid.RC \in Nat /\ pid.CoefA \in Nat \ {0}
  BY ConfigsAssumption

LEMMA DerivativeInt ==
  ASSUME PidNumbers, NEW err \in Int, NEW meas \in Int, NEW t \in Nat
  PROVE  Derivative(err, meas, t) \in Int
<1> DEFINE e == IF Uses("Derivative_On_Measurement") THEN Measure - meas ELSE err - Last_Err
           d == Per(pid.Kd * e, t)
<1>1. e \in Int /\ pid.Kd \in Int /\ pid.RC \in Nat
  BY Parameters DEF PidNumbers, Last_Err
<1>2. pid.Kd * e \in Int
  <2> HIDE DEF e
  <2> QED BY <1>1
<1>3. d \in Int
  BY <1>2, PerInt
<1>4. Low(d, Dout, t) \in Int
  <2> HIDE DEF d
  <2>1. Share(d, t, pid.RC + t) \in Int /\ Share(Dout, pid.RC, pid.RC + t) \in Int
    <3>1. pid.RC + t \in Nat /\ Dout \in Int
      BY <1>1 DEF PidNumbers
    <3> QED BY <1>1, <1>3, <3>1, ShareInt
  <2> QED BY <2>1, PlusInt DEF Low
<1>5. Derivative(err, meas, t) \in {d, Low(d, Dout, t)}
  BY DEF Derivative
<1> QED BY <1>3, <1>4, <1>5

LEMMA LimitedInt ==
  ASSUME PidNumbers, NEW sum \in Int, NEW t \in Nat
  PROVE  /\ Limited(sum, t) \in Int
         /\ Limited(sum, t) = NaN \/ Abs(Limited(sum, t)) <= pid.MaxOut
<1>1. pid.RC \in Nat /\ pid.MaxOut \in Nat
  BY Parameters DEF PidNumbers
<1>2. Share(sum, t, pid.RC + t) \in Int /\ Share(Output, pid.RC, pid.RC + t) \in Int
  <2>1. pid.RC + t \in Nat /\ Output \in Int
    BY <1>1 DEF PidNumbers
  <2> QED BY <1>1, <2>1, ShareInt
<1>3. Filtered(sum, t) \in Int
  BY <1>2, PlusInt DEF Filtered, Low
<1> QED BY <1>1, <1>3, ClampInt DEF Limited

LEMMA TermInt ==
  ASSUME PidNumbers, NEW err \in Int, NEW t \in Nat
  PROVE  /\ Rated(Term(err, t), err) \in Int
         /\ pid.Ki = 0 => Rated(Term(err, t), err) = 0
<1> DEFINE e == IF Uses("Trapezoid_Intergral") THEN Quotient(err + Last_Err, 2) ELSE err
<1>1. pid.Ki \in Int /\ pid.CoefA \in Nat \ {0} /\ pid.CoefB \in Nat
  BY Parameters DEF PidNumbers
<1>2. e \in Int
  <2>1. err + Last_Err \in Int /\ 2 \in Nat \ {0}
    BY DEF PidNumbers, Last_Err
  <2>2. Quotient(err + Last_Err, 2) \in Int
    BY <2>1, QuotientInt
  <2> QED BY <2>2
<1>3. PICK term \in Int : term = Term(err, t) /\ (pid.Ki = 0 => term = 0)
  <2>1. Term(err, t) = pid.Ki * t * e
    BY DEF Term
  <2>2. pid.Ki * t * e \in Int
    <3> HIDE DEF e
    <3> QED BY <1>1, <1>2
  <2>3. pid.Ki = 0 => pid.Ki * t * e = 0
    <3> HIDE DEF e
    <3> QED BY <1>1, <1>2
  <2> QED BY <2>1, <2>2, <2>3
<1> DEFINE w == pid.CoefA - Abs(err) + pid.CoefB
<1>4. w \in Int
  BY <1>1, AbsInt
<1>5. term * w \in Int /\ (term = 0 => term * w = 0)
  <2> HIDE DEF w
  <2> QED BY <1>3, <1>4
<1>6. Quotient(term * w, pid.CoefA) \in Int
  <2> HIDE DEF w
  <2> QED BY <1>1, <1>5, QuotientInt
<1>7. term = 0 => Quotient(term * w, pid.CoefA) = 0
  <2> HIDE DEF w
  <2> SUFFICES ASSUME term = 0 PROVE Quotient(term * w, pid.CoefA) = 0
    OBVIOUS
  <2>1. term * w = 0 /\ Abs(term * w) = 0
    BY <1>5, AbsZero
  <2>2. Abs(Quotient(term * w, pid.CoefA)) <= 0
    BY <1>1, <1>5, <2>1, QuotientInt
  <2>3. Abs(Quotient(term * w, pid.CoefA)) = 0
    BY <1>6, <2>2, AbsInt
  <2> QED BY <1>6, <2>3, AbsZero
<1>8. Rated(term, err) \in {term, 0, Quotient(term * w, pid.CoefA)}
  BY DEF Rated
<1> QED BY <1>3, <1>6, <1>7, <1>8

LEMMA IntegralInt ==
  ASSUME Bounded, PidNumbers, NEW term \in Int, pid.Ki = 0 => term = 0, NEW err \in Int, NEW d \in Int
  PROVE  /\ Integral(term, err, d) \in Int
         /\ ~Uses("Integral_Limit") => Integral(term, err, d) = 0
         /\ Abs(Integral(term, err, d)) <= pid.IntegralLimit
<1>1. pid.IntegralLimit \in Nat
  BY Parameters DEF PidNumbers
<1>2. CASE ~Uses("Integral_Limit")
  <2>1. pid.Ki = 0 /\ Iout = 0
    BY <1>2 DEF Bounded, PidNumbers, Uses
  <2>2. Integral(term, err, d) = Iout + term
    BY <1>2 DEF Integral
  <2> QED BY <1>1, <2>1, <2>2 DEF Abs
<1>3. CASE Uses("Integral_Limit")
  <2> DEFINE next == Iout + term
  <2>1. next \in Int /\ Iout \in Int /\ Abs(Iout) <= pid.IntegralLimit
    BY DEF PidNumbers
  <2>2. \/ Integral(term, err, d) = pid.IntegralLimit
        \/ Integral(term, err, d) = -pid.IntegralLimit
        \/ Integral(term, err, d) = Iout
        \/ /\ Integral(term, err, d) = next
           /\ ~(next > pid.IntegralLimit) /\ ~(next < -pid.IntegralLimit)
    BY <1>3 DEF Integral
  <2> HIDE DEF next
  <2> QED BY <1>1, <1>3, <2>1, <2>2 DEF Abs
<1> QED BY <1>2, <1>3

-----------------------------------------------------------------------------
(* Pid: the invariant.                                                     *)

\* While no blocked motor is reported the count is one behind the calls that
\* left the motor blocked.
CountFollows ==
    Uses("ErrorHandle") /\ ERRORType = "none" =>
        /\ ERRORCount <= MaxCount
        /\ stalled = 0 \/ (Driven /\ Blocked /\ stalled <= ERRORCount + 1)

PidInv == PidTypeOK /\ PidNumbers /\ stalled \in Nat /\ CountFollows

LEMMA PidInvInit == ASSUME Bounded PROVE PidInit => PidInv
<1> SUFFICES ASSUME PidInit PROVE PidInv
  OBVIOUS
<1>1. pid.IntegralLimit \in Nat /\ pid.MaxOut \in Nat /\ pid.MaxOut < Inf /\ Inf \in Nat /\ MaxCount \in Nat
  BY Parameters, ConfigsAssumption DEF PidInit, Bounded
<1>2. Abs(0) = 0
  BY AbsZero
<1> QED BY <1>1, <1>2 DEF PidInit, PidInv, PidTypeOK, PidNumbers, CountFollows, IsNumber

\* The test for a blocked motor, which every call makes first.
LEMMA ErrorHandleStep ==
  ASSUME PidInv, NEW meas, NEW ref, NEW t, Given(meas, ref, t)
  PROVE  /\ ERRORCount' \in 0..MaxCount + 1 /\ ERRORType' \in {"none", "blocked"}
         /\ stalled' \in Nat /\ CountFollows'
<1>1. /\ ERRORCount \in 0..MaxCount + 1 /\ ERRORType \in {"none", "blocked"}
      /\ stalled \in Nat /\ MaxCount \in Nat
  BY ConfigsAssumption DEF PidInv, PidTypeOK
<1>2. pid' = pid /\ \A stage : Uses(stage)' = Uses(stage)
  BY DEF Given, Uses
<1>3. stalled' = IF (Driven /\ Blocked)'
                 THEN IF stalled > MaxCount + 1 THEN stalled ELSE stalled + 1 ELSE 0
  BY DEF Given
<1>4. stalled' \in Nat
  BY <1>1, <1>3
<1>5. CASE ~Watched
  <2>1. UNCHANGED <<ERRORCount, ERRORType>>
    BY <1>5 DEF Given, ErrorHandle
  <2>2. CountFollows'
    BY <1>2, <1>5, <2>1 DEF CountFollows, Watched
  <2> QED BY <1>1, <1>4, <2>1, <2>2
<1>6. CASE Watched
  <2>1. ERRORCount <= MaxCount /\ (stalled = 0 \/ (Driven /\ Blocked /\ stalled <= ERRORCount + 1))
    BY <1>6 DEF PidInv, CountFollows, Watched
  <2>2. Count \in {ERRORCount, ERRORCount + 1, 0}
    BY DEF Count
  <2>3. /\ ERRORCount' = Count
        /\ ERRORType' = IF Count > MaxCount THEN "blocked" ELSE ERRORType
    BY <1>6 DEF Given, ErrorHandle
  <2>4. ERRORCount' \in 0..MaxCount + 1 /\ ERRORType' \in {"none", "blocked"}
    BY <1>1, <2>1, <2>2, <2>3
  <2>5. ASSUME ERRORType' = "none" PROVE ERRORCount' <= MaxCount
    BY <1>1, <2>2, <2>3, <2>5
  <2>6. stalled' = 0 \/ ((Driven /\ Blocked)' /\ stalled' <= ERRORCount' + 1)
    <3>1. CASE stalled = 0
      <4>1. CASE (Driven /\ Blocked)'
        <5>1. stalled' <= 1
          BY <1>1, <1>3, <3>1, <4>1
        <5>2. ERRORCount' \in Nat /\ \A n, m \in Nat : n <= 1 => n <= m + 1
          BY <1>1, <2>4
        <5>3. stalled' <= ERRORCount' + 1
          BY <1>4, <5>1, <5>2
        <5> QED BY <4>1, <5>3
      <4>2. CASE ~(Driven /\ Blocked)'
        BY <1>3, <4>2
      <4> QED BY <4>1, <4>2
    <3>2. CASE stalled # 0
      <4>1. Count = ERRORCount + 1
        BY <2>1, <3>2 DEF Count
      <4> QED BY <1>1, <1>3, <2>1, <2>3, <4>1
    <3> QED BY <3>1, <3>2
  <2>7. CountFollows'
    BY <2>5, <2>6 DEF CountFollows
  <2> QED BY <1>4, <2>4, <2>7
<1> QED BY <1>5, <1>6

\* A call computes numbers again.
LEMMA CalculateStep ==
  ASSUME Bounded, PidInv, NEW meas \in Measures, NEW ref \in Refs, NEW t \in Intervals,
         Calculate(meas, ref, t) \/ DeadZone(meas, ref, t)
  PROVE  PidInv'
<1>1. meas \in Int /\ ref \in Int /\ t \in Nat /\ Inf \in Nat
  BY ConfigsAssumption
<1>2. Given(meas, ref, t)
  BY DEF Calculate, DeadZone
<1>3. pid' = pid /\ Measure' = meas /\ Ref' = ref
  BY <1>2 DEF Given
<1>4. pid.MaxOut \in Nat /\ pid.IntegralLimit \in Nat /\ pid.IntegralLimit < Inf /\ pid \in Configs
  BY Parameters DEF PidInv, PidNumbers, Bounded
<1>5. /\ Dout' \in Int /\ Iout' \in Int /\ Output' \in Int
      /\ ~Uses("Integral_Limit") => Iout' = 0
      /\ Abs(Iout') <= pid.IntegralLimit
      /\ Output' = NaN \/ Abs(Output') <= pid.MaxOut
  <2>1. CASE DeadZone(meas, ref, t)
    BY <1>4, <2>1 DEF DeadZone, PidInv, PidNumbers, Abs
  <2>2. CASE Calculate(meas, ref, t)
    <3> DEFINE err == ref - meas
               d == Derivative(err, meas, t)
               term == Rated(Term(err, t), err)
               int == Integral(term, err, d)
    <3>1. Dout' = d /\ Iout' = int /\ Output' = Limited(Plus(pid.Kp * err + int, d), t)
      BY <2>2 DEF Calculate
    <3>2. err \in Int
      BY <1>1
    <3> HIDE DEF err
    <3>3. d \in Int
      BY <1>1, <3>2, DerivativeInt DEF PidInv
    <3>4. term \in Int /\ (pid.Ki = 0 => term = 0)
      BY <1>1, <3>2, TermInt DEF PidInv
    <3> HIDE DEF d, term
    <3>5. int \in Int /\ (~Uses("Integral_Limit") => int = 0) /\ Abs(int) <= pid.IntegralLimit
      BY <3>2, <3>3, <3>4, IntegralInt DEF PidInv
    <3> HIDE DEF int
    <3>6. pid.Kp * err + int \in Int
      BY <3>2, <3>5, Parameters DEF PidInv, PidNumbers
    <3>7. Plus(pid.Kp * err + int, d) \in Int
      BY <3>3, <3>6, PlusInt
    <3> QED BY <1>1, <3>1, <3>3, <3>5, <3>7, LimitedInt DEF PidInv
  <2> QED BY <2>1, <2>2
<1>6. PidNumbers'
  BY <1>1, <1>3, <1>4, <1>5 DEF PidNumbers, Uses
<1>7. IsNumber(Iout')
  BY <1>1, <1>4, <1>5 DEF IsNumber, Abs
<1> QED BY <1>2, <1>3, <1>4, <1>5, <1>6, <1>7, ErrorHandleStep DEF PidInv, PidTypeOK, IsNumber, NaN

LEMMA PidInvNext == ASSUME Bounded PROVE PidInv /\ [PIDCalculate]_pidVars => PidInv'
<1> SUFFICES ASSUME PidInv, [PIDCalculate]_pidVars PROVE PidInv'
  OBVIOUS
<1>1. CASE PIDCalculate
  BY <1>1, CalculateStep DEF PIDCalculate
<1>2. CASE UNCHANGED pidVars
  BY <1>2 DEF pidVars, PidInv, PidTypeOK, PidNumbers, CountFollows, Uses, Driven, Blocked, IsNumber, NaN
<1> QED BY <1>1, <1>2

\* Whatever stages a configuration turns on and whatever dt is, the output is
\* within MaxOut unless it is no number, the integral is a number within
\* IntegralLimit, and a motor that stays blocked is reported: PidSafe.
THEOREM PidIsSafe == ASSUME Bounded PROVE PidSpec => []PidSafe
<1>1. PidInv => PidSafe
  <2> SUFFICES ASSUME PidInv PROVE PidSafe
    OBVIOUS
  <2>1. IntegralBounded
    BY DEF PidInv, PidNumbers, IntegralBounded
  <2>2. BlockedReported
    BY ConfigsAssumption DEF PidInv, PidTypeOK, CountFollows, BlockedReported
  <2> QED BY <2>1, <2>2 DEF PidInv, PidSafe
<1> QED BY <1>1, PidInvInit, PidInvNext, PTL DEF PidSpec

-----------------------------------------------------------------------------
(* Pid: a call with dt = 0 costs one output.                               *)

PidInputs == Measure \in Measures \union {0} /\ Ref \in Refs \union {0}

LEMMA PidInputsKept == /\ PidInit => PidInputs
                       /\ PidInputs /\ [PIDCalculate]_pidVars => PidInputs'
  BY DEF PidInit, PidInputs, PIDCalculate, Calculate, DeadZone, Given, pidVars

\* The sum of the three terms is a number when dt is not 0 and no filter runs.
LEMMA SumIsNumber ==
  ASSUME Bounded, Room, PidInv, PidInputs,
         NEW meas \in Measures, NEW ref \in Refs, NEW t \in Intervals, t # 0,
         ~Uses("DerivativeFilter"), NEW int \in Int, Abs(int) <= pid.IntegralLimit
  PROVE  LET err == ref - meas
         IN  /\ Plus(pid.Kp * err + int, Derivative(err, meas, t)) \in Int
             /\ Plus(pid.Kp * err + int, Derivative(err, meas, t)) # NaN
<1> DEFINE err == ref - meas
           e == IF Uses("Derivative_On_Measurement") THEN Measure - meas ELSE err - Last_Err
           d == Derivative(err, meas, t)
<1>1. /\ pid \in Configs /\ pid.Kp \in Int /\ pid.Kd \in Int /\ pid.IntegralLimit \in Nat
      /\ meas \in Int /\ ref \in Int /\ t \in Nat \ {0} /\ Measure \in Int /\ Ref \in Int
  BY Parameters, ConfigsAssumption DEF PidInv, PidNumbers
<1>2. err \in Int /\ e \in Int
  BY <1>1 DEF Last_Err
<1>3. d = Quotient(pid.Kd * e, t)
  BY <1>1 DEF Derivative, Per
<1>4. pid.Kp * err \in Int /\ pid.Kd * e \in Int
  <2> HIDE DEF err, e
  <2> QED BY <1>1, <1>2
<1>5. d \in Int /\ Abs(d) <= Abs(pid.Kd * e)
  <2> HIDE DEF e, d
  <2> QED BY <1>1, <1>3, <1>4, QuotientInt
<1>6. Abs(pid.Kp * err) + pid.IntegralLimit + Abs(pid.Kd * e) < Inf
  <2>1. \A n \in Measures \union {0}, q \in Refs \union {0} :
            Abs(pid.Kp * (ref - meas)) + pid.IntegralLimit + Abs(pid.Kd * ((ref - meas) - (q - n))) < Inf
    BY <1>1 DEF Room
  <2>2. CASE Uses("Derivative_On_Measurement")
    <3>1. (ref - meas) - (ref - Measure) = Measure - meas
      BY <1>1
    <3>2. e = (ref - meas) - (ref - Measure)
      BY <2>2, <3>1
    <3> QED BY <2>1, <3>2 DEF PidInputs
  <2>3. CASE ~Uses("Derivative_On_Measurement")
    <3>1. e = (ref - meas) - (Ref - Measure)
      BY <2>3 DEF Last_Err
    <3> QED BY <2>1, <3>1 DEF PidInputs
  <2> QED BY <2>2, <2>3
<1>7. PICK p \in Int : p = pid.Kp * err
  BY <1>4
<1>8. PICK k \in Nat : k = Abs(pid.Kd * e)
  BY <1>4, AbsInt
<1>9. p + int \in Int /\ Abs(p + int) + Abs(d) < Inf
  <2>1. Abs(p + int) <= Abs(p) + Abs(int)
    BY DEF Abs
  <2>2. Abs(p) + pid.IntegralLimit + k < Inf
    BY <1>6, <1>7, <1>8
  <2>3. Abs(d) <= k
    BY <1>5, <1>8
  <2>4. Abs(p) \in Int /\ Abs(int) \in Int /\ Abs(p + int) \in Int /\ Abs(d) \in Int
    <3> HIDE DEF d
    <3> QED BY <1>5, AbsInt
  <2> HIDE DEF d
  <2> QED BY <1>1, <2>1, <2>2, <2>3, <2>4, ConfigsAssumption
<1> HIDE DEF d
<1> QED BY <1>5, <1>7, <1>9, PlusNumber, PlusInt DEF d

\* As long as Inf is as large as it is meant to be, an output is a number
\* whenever dt is not 0 and no filter keeps what an earlier call left:
\* NumberAgain.
THEOREM OutputIsNumberAgain == ASSUME Bounded, Room PROVE PidSpec => NumberAgain
<1>1. ASSUME PidInv, PidInputs, [PIDCalculate]_pidVars
      PROVE  [\/ Output' # NaN \/ dt' = 0
              \/ Uses("OutputFilter") \/ Uses("DerivativeFilter")]_pidVars
  <2> SUFFICES ASSUME NEW meas \in Measures, NEW ref \in Refs, NEW t \in Intervals,
                      Calculate(meas, ref, t) \/ DeadZone(meas, ref, t),
                      dt' # 0, ~Uses("OutputFilter"), ~Uses("DerivativeFilter")
               PROVE  Output' # NaN
    BY <1>1 DEF PIDCalculate
  <2>1. t # 0
    BY DEF Calculate, DeadZone, Given
  <2>2. CASE DeadZone(meas, ref, t)
    BY <2>2, ConfigsAssumption DEF DeadZone, NaN
  <2>3. CASE Calculate(meas, ref, t)
    <3>1. PidInv'
      BY <1>1, CalculateStep
    <3>2. Iout' \in Int /\ Abs(Iout') <= pid.IntegralLimit
      BY <2>3, <3>1 DEF PidInv, PidNumbers, Calculate, Given
    <3> DEFINE err == ref - meas
               sum == Plus(pid.Kp * err + Iout', Derivative(err, meas, t))
    <3>3. Output' = Clamp(sum, pid.MaxOut)
      BY <2>3 DEF Calculate, Limited, Filtered
    <3>4. sum \in Int /\ sum # NaN
      BY <1>1, <2>1, <3>2, SumIsNumber
    <3>5. pid.MaxOut \in Nat /\ pid.MaxOut < Inf
      BY <1>1, Parameters DEF PidInv, PidNumbers, Bounded
    <3> HIDE DEF sum
    <3> QED BY <3>3, <3>4, <3>5, ClampInt
  <2> QED BY <2>2, <2>3
<1> QED BY <1>1, PidInvInit, PidInvNext, PidInputsKept, PTL DEF PidSpec, NumberAgain

-----------------------------------------------------------------------------
(* All of them side by side.                                               *)

\* The components between DJIMotorControl and the bus take their own steps and
\* no other: each of them is implemented.
THEOREM EachPart == Spec => TxSpec /\ MotorSpec /\ EncoderSpec /\ PayloadSpec /\ PidSpec
<1>1. Init => TxInit /\ MotorInit /\ EncoderInit /\ PayloadInit /\ PidInit
  BY DEF Init, TxRest, EncoderRest, PidRest
<1>2. [Next]_vars => [TxNext]_txVars
  BY DEF Next, vars
<1>3. [Next]_vars => [MotorNext]_motorVars
  BY DEF Next, vars, Spins
<1>4. [Next]_vars => [EncoderNext]_encoderVars
  BY DEF Next, vars
<1>5. [Next]_vars => [PayloadNext]_payloadVars
  BY DEF Next, vars
<1>6. [Next]_vars => [PIDCalculate]_pidVars
  BY DEF Next, vars
<1>7. Spec => Init /\ [][Next]_vars
  BY PTL DEF Spec
<1> QED BY <1>1, <1>2, <1>3, <1>4, <1>5, <1>6, <1>7, PTL
        DEF TxSpec, MotorSpec, EncoderSpec, PayloadSpec, PidSpec

\* The invariants of all of them, whatever motors, encoders, frames and
\* controllers there are.
THEOREM MotorsAreSafe ==
  ASSUME TwoRequests, AllButOne, Bounded
  PROVE  Spec => [](MotorsTypeOK /\ AcceptedKept /\ RoundsTracked /\ BytesKept /\ PidSafe)
<1>1. TxTypeOK /\ MotorTypeOK /\ EncoderTypeOK /\ PayloadTypeOK => MotorsTypeOK
  BY DEF MotorsTypeOK
<1> QED BY <1>1, EachPart, FramesAccepted, OwnFrames, EncoderTypes, TurnsCounted, BytesAreKept,
           PidIsSafe, PTL

\* Their action properties: no frame, in either direction, reaches the wrong
\* motor, and the output of a controller becomes a number again.
THEOREM MotorsKeepTheirOwn ==
  ASSUME AllButOne, Bounded, Room
  PROVE  Spec => EachItsOwn /\ NumberAgain
BY EachPart, OwnFrames, OutputIsNumberAgain, PTL
=============================================================================
