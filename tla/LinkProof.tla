------------------------------ MODULE LinkProof -----------------------------
(***************************************************************************)
(* What the link from the application core promises, for every number of   *)
(* buffers and every numbering of the messages: the order and integrity of *)
(* what rpmsg_lite_rx_callback handles and the link that stays up, for any *)
(* master; that no message is stranded and the command of the controllers  *)
(* is the newest one, for a master that starts after the MCU and waits for *)
(* the mailbox before it rings.                                            *)
(***************************************************************************)
EXTENDS MCRpmsgLink, SequenceTheorems, TLAPS

-----------------------------------------------------------------------------
(* Numbers modulo SeqMod.                                                  *)

\* Division with remainder, which is unique.
LEMMA Division ==
  ASSUME NEW a \in Nat
  PROVE  \E q \in Int : a = SeqMod * q + (a % SeqMod) /\ a % SeqMod \in 0..(SeqMod - 1)
<1>1. /\ a = SeqMod * (a \div SeqMod) + (a % SeqMod)
      /\ a \div SeqMod \in Int /\ a % SeqMod \in 0..(SeqMod - 1)
  BY SeqModAssumption, NAssumption
<1> QED BY <1>1

LEMMA RemainderUnique ==
  ASSUME NEW q \in Int, NEW r \in 0..(SeqMod - 1)
  PROVE  (SeqMod * q + r) % SeqMod = r
  BY SeqModAssumption, NAssumption

\* The remainder may be taken before or after a number is added.
LEMMA AddToRemainder ==
  ASSUME NEW a \in Nat, NEW b \in Nat
  PROVE  ((a % SeqMod) + b) % SeqMod = (a + b) % SeqMod
<1>1. SeqMod \in Nat \ {0}
  BY SeqModAssumption, NAssumption
<1>2. PICK q \in Int : a = SeqMod * q + (a % SeqMod) /\ a % SeqMod \in 0..(SeqMod - 1)
  BY Division
<1>3. PICK c \in Nat : c = (a % SeqMod) + b
  BY <1>2
<1>4. PICK p \in Int : c = SeqMod * p + (c % SeqMod) /\ c % SeqMod \in 0..(SeqMod - 1)
  BY Division
<1>5. PICK r \in 0..(SeqMod - 1) : r = c % SeqMod
  BY <1>4
<1>6. SeqMod * (q + p) = SeqMod * q + SeqMod * p
  BY <1>1
<1>7. a + b = SeqMod * (q + p) + r
  BY <1>1, <1>2, <1>3, <1>4, <1>5, <1>6
<1>8. (SeqMod * (q + p) + r) % SeqMod = r
  BY RemainderUnique
<1> QED BY <1>3, <1>5, <1>7, <1>8

\* A remainder is one of the numbers, and each of them is its own.
LEMMA Remainder == /\ \A a \in Nat : a % SeqMod \in Seqno
                   /\ \A a \in Seqno : a % SeqMod = a
  BY SeqModAssumption, NAssumption DEF Seqno

\* The number before the next one.
LEMMA OneBefore == ASSUME NEW a \in Seqno PROVE (((a + 1) % SeqMod) - 1) % SeqMod = a
<1>1. SeqMod \in Nat /\ SeqMod > 1
  BY SeqModAssumption, NAssumption
<1>2. CASE a + 1 < SeqMod
  <2>1. (a + 1) % SeqMod = a + 1
    BY <1>1, <1>2 DEF Seqno
  <2> QED BY <2>1, <1>1, Remainder DEF Seqno
<1>3. CASE a + 1 = SeqMod
  <2>1. (a + 1) % SeqMod = 0
    BY <1>1, <1>3 DEF Seqno
  <2>2. SeqMod * (-1) + a = -1
    BY <1>1, <1>3 DEF Seqno
  <2>3. (SeqMod * (-1) + a) % SeqMod = a
    BY RemainderUnique DEF Seqno
  <2> QED BY <2>1, <2>2, <2>3
<1> QED BY <1>1, <1>2, <1>3 DEF Seqno

-----------------------------------------------------------------------------
(* Queues of buffers, none of which is in a queue twice.                   *)

OnceIn(s) == \A j, k \in 1..Len(s) : s[j] = s[k] => j = k

LEMMA AppendOnce ==
  ASSUME NEW s \in Seq(Desc), NEW b \in Desc
  PROVE  /\ Append(s, b) \in Seq(Desc) /\ Append(s, b) # <<>>
         /\ Range(Append(s, b)) = Range(s) \cup {b}
         /\ OnceIn(s) /\ b \notin Range(s) => OnceIn(Append(s, b))
<1>1. /\ Append(s, b) \in Seq(Desc) /\ Len(Append(s, b)) = Len(s) + 1 /\ Len(s) \in Nat
      /\ \A k \in 1..Len(s) : Append(s, b)[k] = s[k]
      /\ Append(s, b)[Len(s) + 1] = b
  BY AppendProperties, LenProperties
<1>2. DOMAIN s = 1..Len(s) /\ DOMAIN Append(s, b) = 1..(Len(s) + 1)
  BY <1>1, LenProperties
<1>3. Range(Append(s, b)) = Range(s) \cup {b}
  BY <1>1, <1>2 DEF Range
<1>4. OnceIn(s) /\ b \notin Range(s) => OnceIn(Append(s, b))
  BY <1>1, <1>2 DEF OnceIn, Range
<1> QED BY <1>1, <1>3, <1>4

LEMMA TailOnce ==
  ASSUME NEW s \in Seq(Desc), s # <<>>
  PROVE  /\ Tail(s) \in Seq(Desc) /\ Head(s) \in Desc /\ Head(s) \in Range(s)
         /\ Range(Tail(s)) \subseteq Range(s)
         /\ OnceIn(s) => OnceIn(Tail(s)) /\ Head(s) \notin Range(Tail(s))
<1>1. /\ Tail(s) \in Seq(Desc) /\ Head(s) = s[1] /\ Head(s) \in Desc
      /\ Len(s) \in Nat \ {0} /\ Len(Tail(s)) = Len(s) - 1
      /\ \A k \in 1..(Len(s) - 1) : Tail(s)[k] = s[k + 1]
  BY HeadTailProperties, EmptySeq, LenProperties
<1>2. DOMAIN s = 1..Len(s) /\ DOMAIN Tail(s) = 1..(Len(s) - 1)
  BY <1>1, LenProperties
<1>3. Head(s) \in Range(s) /\ Range(Tail(s)) \subseteq Range(s)
  BY <1>1, <1>2 DEF Range
<1>4. OnceIn(s) => OnceIn(Tail(s)) /\ Head(s) \notin Range(Tail(s))
  BY <1>1, <1>2 DEF OnceIn, Range
<1> QED BY <1>1, <1>3, <1>4

-----------------------------------------------------------------------------
(* One step of the link, whatever its master does about the mailbox: when  *)
(* it is ready it may ring or not, and its ring may be dropped or may wait *)
(* until the mailbox is free.                                              *)

ReadyStep == /\ master_pc = "init" /\ master_pc' = "idle"
             /\ a2b_status' \in {a2b_status, TRUE}
             /\ UNCHANGED <<queue, rx_data, next_seq, master_buf, b2a_status, bootVars,
                            isrVars, link_state>>

KickStep == /\ master_pc = "kick" /\ master_pc' = "idle"
            /\ a2b_status' = TRUE
            /\ UNCHANGED <<queue, rx_data, next_seq, master_buf, b2a_status, bootVars,
                           isrVars, link_state>>

LinkStep == \/ ReadyStep \/ MasterAlloc \/ MasterPost \/ KickStep \/ MasterAck
            \/ MainNext \/ IsrNext

LEMMA EveryMasterSteps == (Next => LinkStep) /\ (Lossy!Next => LinkStep)
<1>1. MasterReady => ReadyStep
  BY DEF MasterReady, ReadyStep, Ring
<1>2. MasterKick => KickStep
  BY DEF MasterKick, KickStep, Ring
<1>3. Next => LinkStep
  BY <1>1, <1>2 DEF Next, MasterNext, LinkStep
<1>4. Lossy!MasterReady => ReadyStep
  BY DEF Lossy!MasterReady, ReadyStep, Lossy!Ring, queue, bootVars, isrVars,
         Lossy!queue, Lossy!bootVars, Lossy!isrVars
<1>5. Lossy!MasterKick => KickStep
  BY DEF Lossy!MasterKick, KickStep, Lossy!Ring, queue, bootVars, isrVars,
         Lossy!queue, Lossy!bootVars, Lossy!isrVars
<1>6. /\ Lossy!MasterAlloc => MasterAlloc
      /\ Lossy!MasterPost => MasterPost
      /\ Lossy!MasterAck => MasterAck
  BY DEF MasterAlloc, Lossy!MasterAlloc, MasterPost, Lossy!MasterPost, MasterAck,
         Lossy!MasterAck, RxVq!Reclaim, Lossy!RxVq!Reclaim, RxVq!Post,
         Lossy!RxVq!Post, queue, Lossy!queue, masterVars, Lossy!masterVars, mboxVars,
         Lossy!mboxVars, bootVars, Lossy!bootVars, isrVars, Lossy!isrVars, NoDesc,
         Lossy!NoDesc
<1>7. Lossy!MainNext => MainNext
  BY DEF MainNext, Lossy!MainNext, MainRegister, Lossy!MainRegister, MainResetLink,
         Lossy!MainResetLink, MainEnableIrq, Lossy!MainEnableIrq, MainSeesLink,
         Lossy!MainSeesLink, MainCreateEpt, Lossy!MainCreateEpt, MainRuns,
         Lossy!MainRuns, queue, Lossy!queue, masterVars, Lossy!masterVars, mboxVars,
         Lossy!mboxVars, bootVars, Lossy!bootVars, isrVars, Lossy!isrVars, NoDesc,
         Lossy!NoDesc
<1>8. Lossy!IsrNext => IsrNext
  BY DEF IsrNext, Lossy!IsrNext, IsrEnter, Lossy!IsrEnter, IsrLinkUp,
         Lossy!IsrLinkUp, IsrTake, Lossy!IsrTake, IsrHandle, Lossy!IsrHandle,
         IsrDrained, Lossy!IsrDrained, IsrClear, Lossy!IsrClear, RxVq!Take,
         Lossy!RxVq!Take, RxVq!Return, Lossy!RxVq!Return, queue, Lossy!queue,
         masterVars, Lossy!masterVars, mboxVars, Lossy!mboxVars, bootVars,
         Lossy!bootVars, isrVars, Lossy!isrVars, NoDesc, Lossy!NoDesc
<1> QED BY <1>3, <1>4, <1>5, <1>6, <1>7, <1>8 DEF Lossy!Next, Lossy!MasterNext, LinkStep

-----------------------------------------------------------------------------
(* The inductive invariant of any link.                                    *)

\* A buffer is in one place: waiting for the MCU, on its way back, or with the
\* master, which alone writes into it.
OnePlace ==
    /\ OnceIn(Outstanding) /\ OnceIn(rx_used)
    /\ Range(Outstanding) \cap Range(rx_used) = {}
    /\ master_pc = "fill" => master_buf \notin Range(Outstanding) \cup Range(rx_used)

\* Until rpmsg_lite_remote_init has reset the link no doorbell is handled.
ResetFirst ==
    main_pc \in {"boot", "reset", "enable"} =>
        ~irq_enabled /\ ~first_notify /\ isr_pc = "idle"

LinkInv == LinkSafe /\ OnePlace /\ ResetFirst

LEMMA OutstandingIs ==
  ASSUME TypeOK
  PROVE  /\ Outstanding \in Seq(Desc)
         /\ isr_pc # "msg" => Outstanding = rx_avail
         /\ isr_pc = "msg" => /\ isr_desc \in Desc /\ Outstanding # <<>>
                              /\ Head(Outstanding) = isr_desc
                              /\ Tail(Outstanding) = rx_avail
<1>1. CASE isr_pc # "msg"
  BY <1>1 DEF TypeOK, Outstanding
<1>2. CASE isr_pc = "msg"
  <2>1. isr_desc \in Desc /\ rx_avail \in Seq(Desc)
    BY <1>2 DEF TypeOK
  <2>2. Outstanding = <<isr_desc>> \o rx_avail
    BY <1>2 DEF Outstanding
  <2> QED BY <1>2, <2>1, <2>2
<1> QED BY <1>1, <1>2

LEMMA InitLinkInv == Init => LinkInv
<1> SUFFICES ASSUME Init PROVE LinkInv
  OBVIOUS
<1>1. rx_used \in Seq(Desc) /\ Len(rx_used) = N /\ \A k \in 1..N : rx_used[k] = k - 1
  BY NAssumption DEF Init, Desc
<1>2. 0 \in Seqno /\ 0 % SeqMod = 0
  BY SeqModAssumption, NAssumption DEF Seqno
<1>3. TypeOK
  <2>1. rx_avail \in Seq(Desc) /\ rx_master = {} /\ rx_remote = {}
    BY DEF Init
  <2>2. rx_data \in [Desc -> Seqno] /\ linux_control_cmd \in Seqno \cup {NoCmd}
    BY <1>2 DEF Init
  <2> QED BY <1>1, <1>2, <2>1, <2>2 DEF Init, TypeOK
<1>4. Outstanding = <<>> /\ Len(Outstanding) = 0 /\ Range(Outstanding) = {}
  BY DEF Init, Outstanding, Range
<1>5. InOrder
  BY <1>2, <1>4 DEF Init, InOrder
<1>6. OnePlace
  <2>1. OnceIn(rx_used)
    BY <1>1, NAssumption DEF OnceIn
  <2>2. OnceIn(Outstanding)
    BY <1>4 DEF OnceIn
  <2> QED BY <1>4, <2>1, <2>2 DEF Init, OnePlace
<1> QED BY <1>3, <1>5, <1>6 DEF Init, LinkInv, LinkSafe, LinkKept, ResetFirst

\* A step that moves no message.
Calm == /\ Outstanding' = Outstanding
        /\ UNCHANGED <<rx_used, rx_data, next_seq, handled>>
        /\ master_pc' = "fill" => master_pc = "fill" /\ master_buf' = master_buf

LEMMA CalmKeeps == LinkInv /\ Calm => InOrder' /\ OnePlace'
  BY DEF LinkInv, LinkSafe, Calm, InOrder, OnePlace, OnceIn

\* The master takes a buffer out of the queue towards it.
LEMMA AllocKeeps == LinkInv /\ MasterAlloc => InOrder' /\ OnePlace'
<1> SUFFICES ASSUME LinkInv, MasterAlloc PROVE InOrder' /\ OnePlace'
  OBVIOUS
<1>1. /\ Outstanding' = Outstanding /\ rx_used # <<>>
      /\ rx_used' = Tail(rx_used) /\ master_buf' = Head(rx_used)
      /\ UNCHANGED <<rx_data, next_seq, handled>>
  BY DEF MasterAlloc, RxVq!Reclaim, Outstanding, isrVars
<1>2. rx_used \in Seq(Desc)
  BY DEF LinkInv, LinkSafe, TypeOK
<1>3. OnePlace'
  BY <1>1, <1>2, TailOnce DEF LinkInv, OnePlace, OnceIn
<1> QED BY <1>1, <1>3 DEF LinkInv, LinkSafe, InOrder

\* It hands over a message: the newest of the outstanding ones.
LEMMA PostKeeps == LinkInv /\ MasterPost => InOrder' /\ OnePlace'
<1> SUFFICES ASSUME LinkInv, MasterPost PROVE InOrder' /\ OnePlace'
  OBVIOUS
<1> DEFINE n == Len(Outstanding)
<1>1. /\ TypeOK /\ InOrder /\ OnePlace
      /\ Outstanding \in Seq(Desc) /\ rx_avail \in Seq(Desc)
      /\ master_buf \in Desc /\ n \in Nat
      /\ master_buf \notin Range(Outstanding) \cup Range(rx_used)
  BY OutstandingIs, LenProperties DEF LinkInv, LinkSafe, TypeOK, OnePlace, MasterPost
<1>2. Outstanding' = Append(Outstanding, master_buf)
  BY <1>1 DEF MasterPost, RxVq!Post, Outstanding, isrVars, TypeOK
<1>3. /\ Len(Outstanding') = n + 1 /\ Outstanding'[n + 1] = master_buf
      /\ \A k \in 1..n : Outstanding'[k] = Outstanding[k] /\ Outstanding[k] \in Desc
  BY <1>1, <1>2
<1>4. OnePlace'
  BY <1>1, <1>2, AppendOnce DEF OnePlace, OnceIn, MasterPost, RxVq!Post
<1>5. /\ rx_data' = [rx_data EXCEPT ![master_buf] = next_seq] /\ handled' = handled
      /\ next_seq' = (next_seq + 1) % SeqMod
      /\ rx_data \in [Desc -> Seqno] /\ handled \in Nat
  BY <1>1 DEF MasterPost, isrVars, TypeOK, Seqno
<1>6. \A k \in 1..n : Outstanding[k] # master_buf
  BY <1>1, LenProperties DEF Range
<1>7. \A k \in 1..n : rx_data'[Outstanding'[k]] = (handled' + k - 1) % SeqMod
  BY <1>1, <1>3, <1>5, <1>6 DEF InOrder
<1>8. rx_data'[Outstanding'[n + 1]] = (handled' + (n + 1) - 1) % SeqMod
  BY <1>1, <1>3, <1>5 DEF InOrder
<1>9. next_seq' = (handled' + (n + 1)) % SeqMod
  <2>1. (((handled + n) % SeqMod) + 1) % SeqMod = ((handled + n) + 1) % SeqMod
    BY <1>1, <1>5, AddToRemainder
  <2> QED BY <1>1, <1>5, <2>1 DEF InOrder
<1>10. \A k \in 1..(n + 1) : k \in 1..n \/ k = n + 1
  BY <1>1
<1> HIDE DEF n
<1> QED BY <1>3, <1>4, <1>7, <1>8, <1>9, <1>10 DEF InOrder

\* The MCU takes the oldest buffer; its message stays outstanding.
LEMMA TakeCalm == TypeOK /\ IsrTake => Calm
<1> SUFFICES ASSUME TypeOK, IsrTake PROVE Calm
  OBVIOUS
<1>1. rx_avail \in Seq(Desc) /\ rx_avail # <<>> /\ rx_avail' = Tail(rx_avail)
  BY DEF TypeOK, IsrTake, RxVq!Take
<1>2. <<Head(rx_avail)>> \o Tail(rx_avail) = rx_avail
  BY <1>1
<1>3. Outstanding' = Outstanding
  BY <1>1, <1>2 DEF IsrTake, Outstanding
<1> QED BY <1>3 DEF IsrTake, RxVq!Take, Calm, masterVars

\* It is done with the oldest message.
LEMMA HandleKeeps == LinkInv /\ IsrHandle => InOrder' /\ OnePlace'
<1> SUFFICES ASSUME LinkInv, IsrHandle PROVE InOrder' /\ OnePlace'
  OBVIOUS
<1> DEFINE n == Len(Outstanding)
<1>1. /\ TypeOK /\ InOrder /\ OnePlace /\ rx_used \in Seq(Desc)
      /\ Outstanding \in Seq(Desc) /\ Outstanding # <<>> /\ isr_desc \in Desc
      /\ Head(Outstanding) = isr_desc /\ Tail(Outstanding) = rx_avail
  BY OutstandingIs DEF LinkInv, LinkSafe, TypeOK, IsrHandle
<1>2. Outstanding' = Tail(Outstanding) /\ rx_used' = Append(rx_used, isr_desc)
  BY <1>1 DEF IsrHandle, RxVq!Return, Outstanding
<1>3. isr_desc \in Range(Outstanding) /\ isr_desc \notin Range(rx_used)
  BY <1>1, TailOnce DEF OnePlace
<1>4. OnePlace'
  <2>1. UNCHANGED <<master_pc, master_buf>>
    BY DEF IsrHandle, masterVars
  <2>2. /\ Range(Outstanding)' \subseteq Range(Outstanding)
        /\ isr_desc \notin Range(Outstanding)' /\ OnceIn(Outstanding)'
    BY <1>1, <1>2, TailOnce DEF OnePlace
  <2>3. Range(rx_used)' = Range(rx_used) \cup {isr_desc} /\ OnceIn(rx_used)'
    BY <1>1, <1>2, <1>3, AppendOnce DEF OnePlace
  <2> QED BY <1>1, <1>3, <2>1, <2>2, <2>3 DEF OnePlace
<1>5. /\ n \in Nat \ {0} /\ Len(Outstanding') = n - 1
      /\ \A k \in 1..(n - 1) : Outstanding'[k] = Outstanding[k + 1]
  BY <1>1, <1>2, HeadTailProperties, EmptySeq
<1>6. /\ handled' = (handled + 1) % SeqMod /\ handled \in Nat
      /\ UNCHANGED <<rx_data, next_seq>>
  BY <1>1 DEF IsrHandle, masterVars, TypeOK, Seqno
<1>7. \A j \in Nat : (handled' + j) % SeqMod = (handled + 1 + j) % SeqMod
  BY <1>6, AddToRemainder
<1>8. \A k \in 1..(n - 1) : rx_data'[Outstanding'[k]] = (handled' + k - 1) % SeqMod
  <2> SUFFICES ASSUME NEW k \in 1..(n - 1)
               PROVE  rx_data'[Outstanding'[k]] = (handled' + k - 1) % SeqMod
    OBVIOUS
  <2>1. rx_data[Outstanding[k + 1]] = (handled + (k + 1) - 1) % SeqMod
    BY <1>1, <1>5 DEF InOrder
  <2>2. k - 1 \in Nat /\ handled + (k + 1) - 1 = handled + 1 + (k - 1)
    BY <1>5, <1>6
  <2>3. handled' \in Nat
    BY <1>6, Remainder DEF Seqno
  <2>4. handled' + k - 1 = handled' + (k - 1)
    BY <2>3
  <2> QED BY <1>5, <1>6, <1>7, <2>1, <2>2, <2>4
<1>9. next_seq' = (handled' + (n - 1)) % SeqMod
  <2>1. n - 1 \in Nat /\ handled + n = handled + 1 + (n - 1)
    BY <1>5, <1>6
  <2> QED BY <1>1, <1>6, <1>7, <2>1 DEF InOrder
<1> QED BY <1>4, <1>5, <1>8, <1>9 DEF InOrder

\* Every other step moves no message.
LEMMA OthersCalm ==
  TypeOK /\ (ReadyStep \/ KickStep \/ MasterAck \/ MainNext \/ IsrEnter \/ IsrLinkUp
             \/ IsrDrained \/ IsrClear \/ UNCHANGED vars) => Calm
<1> USE DEF Calm, Outstanding, queue, masterVars, isrVars
<1>1. ReadyStep \/ KickStep \/ MasterAck => Calm
  BY DEF ReadyStep, KickStep, MasterAck
<1>2. MainNext => Calm
  BY DEF MainNext, MainRegister, MainResetLink, MainEnableIrq, MainSeesLink, MainCreateEpt
<1>3. IsrEnter \/ IsrLinkUp \/ IsrDrained \/ IsrClear => Calm
  BY DEF IsrEnter, IsrLinkUp, IsrDrained, IsrClear
<1>4. UNCHANGED vars => Calm
  BY DEF vars
<1> QED BY <1>1, <1>2, <1>3, <1>4

\* The queues are changed by the steps that move a message only.
LEMMA QueueTypes ==
  ASSUME LinkInv, LinkStep \/ UNCHANGED vars
  PROVE  /\ rx_avail' \in Seq(Desc) /\ rx_used' \in Seq(Desc)
         /\ rx_master' = IF master_pc' = "fill" THEN {master_buf'} ELSE {}
         /\ rx_remote' = IF isr_pc' = "msg" THEN {isr_desc'} ELSE {}
         /\ rx_master' \in SUBSET Desc /\ rx_remote' \in SUBSET Desc
<1> USE DEF LinkInv, LinkSafe, TypeOK
<1>1. CASE MasterAlloc
  BY <1>1, TailOnce DEF MasterAlloc, RxVq!Reclaim, isrVars
<1>2. CASE MasterPost
  BY <1>2, AppendOnce DEF MasterPost, RxVq!Post, isrVars
<1>3. CASE IsrTake
  BY <1>3, TailOnce DEF IsrTake, RxVq!Take, masterVars
<1>4. CASE IsrHandle
  BY <1>4, AppendOnce DEF IsrHandle, RxVq!Return, masterVars
<1>5. CASE \/ ReadyStep \/ KickStep \/ MasterAck \/ MainNext \/ IsrEnter \/ IsrLinkUp
           \/ IsrDrained \/ IsrClear \/ UNCHANGED vars
  <2>1. UNCHANGED queue
    BY <1>5 DEF ReadyStep, KickStep, MasterAck, MainNext, MainRegister, MainResetLink,
                MainEnableIrq, MainSeesLink, MainCreateEpt, IsrEnter, IsrLinkUp, IsrDrained,
                IsrClear, vars
  <2>2. CASE ReadyStep \/ KickStep \/ MasterAck
    BY <2>1, <2>2 DEF ReadyStep, KickStep, MasterAck, queue, masterVars, isrVars
  <2>3. CASE MainNext \/ UNCHANGED vars
    BY <2>1, <2>3 DEF MainNext, MainRegister, MainResetLink, MainEnableIrq, MainSeesLink,
                      MainCreateEpt, queue, masterVars, isrVars, vars
  <2>4. CASE IsrEnter \/ IsrLinkUp \/ IsrDrained \/ IsrClear
    BY <2>1, <2>4 DEF IsrEnter, IsrLinkUp, IsrDrained, IsrClear, queue, masterVars
  <2> QED BY <1>5, <2>2, <2>3, <2>4
<1> QED BY <1>1, <1>2, <1>3, <1>4, <1>5 DEF LinkStep, IsrNext

LEMMA NextTypeOK == ASSUME LinkInv, LinkStep \/ UNCHANGED vars PROVE TypeOK'
<1>1. TypeOK
  BY DEF LinkInv, LinkSafe
<1>2. /\ rx_data' \in [Desc -> Seqno] /\ next_seq' \in Seqno
      /\ master_pc' \in {"init", "idle", "fill", "kick"}
      /\ handled' \in Seqno /\ linux_control_cmd' \in Seqno \cup {NoCmd}
      /\ first_notify' \in BOOLEAN /\ rx_freed' \in BOOLEAN
      /\ a2b_status' \in BOOLEAN /\ b2a_status' \in BOOLEAN
      /\ isr_pc' \in {"idle", "link", "rx", "msg", "clear"}
  <2> USE DEF TypeOK
  <2>0. (next_seq + 1) % SeqMod \in Seqno /\ (handled + 1) % SeqMod \in Seqno
    <3>1. next_seq + 1 \in Nat /\ handled + 1 \in Nat
      BY <1>1 DEF Seqno
    <3> QED BY <3>1, Remainder
  <2>1. CASE ReadyStep \/ KickStep \/ MasterAck
    BY <1>1, <2>1 DEF ReadyStep, KickStep, MasterAck, masterVars, isrVars
  <2>2. CASE MasterAlloc
    BY <1>1, <2>2 DEF MasterAlloc, mboxVars, isrVars
  <2>3. CASE MasterPost
    BY <1>1, <2>0, <2>3 DEF MasterPost, mboxVars, isrVars
  <2>4. CASE MainNext \/ UNCHANGED vars
    BY <1>1, <2>4 DEF MainNext, MainRegister, MainResetLink, MainEnableIrq, MainSeesLink,
                      MainCreateEpt, mboxVars, masterVars, isrVars, vars
  <2>5. CASE IsrEnter \/ IsrLinkUp \/ IsrDrained \/ IsrClear
    BY <1>1, <2>5 DEF IsrEnter, IsrLinkUp, IsrDrained, IsrClear, mboxVars, masterVars
  <2>6. CASE IsrTake
    BY <1>1, <2>6 DEF IsrTake, mboxVars, masterVars
  <2>7. CASE IsrHandle
    BY <1>1, <2>0, <2>7 DEF IsrHandle, mboxVars, masterVars
  <2> QED BY <2>1, <2>2, <2>3, <2>4, <2>5, <2>6, <2>7 DEF LinkStep, IsrNext
<1>3. /\ {a2b_inten', irq_enabled', endpoint'} \subseteq BOOLEAN /\ link_state' \in {0, 1}
      /\ main_pc' \in {"boot", "reset", "enable", "wait", "create_ept", "run"}
  <2> USE DEF TypeOK, bootVars
  <2>1. CASE ReadyStep \/ KickStep \/ MasterAlloc \/ MasterPost \/ MasterAck
    BY <1>1, <2>1 DEF ReadyStep, KickStep, MasterAlloc, MasterPost, MasterAck
  <2>2. CASE MainNext \/ UNCHANGED vars
    BY <1>1, <2>2 DEF MainNext, MainRegister, MainResetLink, MainEnableIrq, MainSeesLink,
                      MainCreateEpt, vars
  <2>3. CASE IsrNext
    BY <1>1, <2>3 DEF IsrNext, IsrEnter, IsrLinkUp, IsrTake, IsrHandle, IsrDrained, IsrClear
  <2> QED BY <2>1, <2>2, <2>3 DEF LinkStep
<1> QED BY <1>2, <1>3, QueueTypes DEF TypeOK

\* The link is reported once, after it has been reset.
LEMMA NextLinkKept ==
  ASSUME LinkInv, LinkStep \/ UNCHANGED vars PROVE LinkKept' /\ ResetFirst'
<1> USE DEF LinkInv, LinkSafe, LinkKept, ResetFirst
<1>1. CASE ReadyStep \/ KickStep \/ MasterAlloc \/ MasterPost \/ MasterAck
  <2>1. UNCHANGED <<bootVars, isrVars, link_state>>
    BY <1>1 DEF ReadyStep, KickStep, MasterAlloc, MasterPost, MasterAck
  <2> QED BY <2>1 DEF bootVars, isrVars
<1>2. CASE MainNext \/ UNCHANGED vars
  BY <1>2 DEF MainNext, MainRegister, MainResetLink, MainEnableIrq, MainSeesLink,
              MainCreateEpt, MainRuns, isrVars, bootVars, vars
<1>3. CASE IsrNext
  BY <1>3 DEF IsrNext, IsrEnter, IsrLinkUp, IsrTake, IsrHandle, IsrDrained, IsrClear, bootVars
<1> QED BY <1>1, <1>2, <1>3 DEF LinkStep

LEMMA NextLinkInv == LinkInv /\ (LinkStep \/ UNCHANGED vars) => LinkInv'
<1> SUFFICES ASSUME LinkInv, LinkStep \/ UNCHANGED vars PROVE LinkInv'
  OBVIOUS
<1>1. TypeOK
  BY DEF LinkInv, LinkSafe
<1>2. InOrder' /\ OnePlace'
  BY <1>1, OthersCalm, TakeCalm, CalmKeeps, AllocKeeps, PostKeeps, HandleKeeps
     DEF LinkStep, IsrNext
<1> QED BY <1>2, NextTypeOK, NextLinkKept DEF LinkInv, LinkSafe

\* Whatever doorbells are lost or merged, rpmsg_lite_rx_callback handles the
\* messages of the master in the order in which they were written, each once
\* and intact, and a link once reported is not forgotten.
THEOREM LinkIsSafe == Spec => []LinkSafe
<1>1. LinkInv /\ [Next]_vars => LinkInv'
  BY NextLinkInv, EveryMasterSteps
<1>2. LinkInv => LinkSafe
  BY DEF LinkInv
<1> QED BY InitLinkInv, <1>1, <1>2, PTL DEF Spec

\* The same of both masters of MCRpmsgLink.
THEOREM EitherLinkIsSafe == MCSpec => []LinkSafe
<1>1. MCInit => LinkInv
  BY InitLinkInv DEF MCInit
<1>2. LinkInv /\ [MCNext]_<<kind, vars>> => LinkInv'
  BY NextLinkInv, EveryMasterSteps DEF MCNext
<1>3. LinkInv => LinkSafe
  BY DEF LinkInv
<1> QED BY <1>1, <1>2, <1>3, PTL DEF MCSpec

-----------------------------------------------------------------------------
(* A master that starts once the MCU has registered its client, rings when *)
(* it is ready, and waits for the mailbox before it rings.                 *)

Paced == ReadyRings /\ StartAfterRemote /\ KickRetries

\* The first doorbell is the one of the ready master, and stays pending until
\* it is handled; no message is rung for before.
ReadyFirst ==
    /\ main_pc = "boot" => master_pc = "init"
    /\ master_pc = "init" => rx_avail = <<>> /\ ~first_notify /\ ~a2b_status
    /\ ~first_notify => master_pc = "init" \/ a2b_status

\* While the handler runs its doorbell is pending; the first only reports.
HandlerRung ==
    /\ isr_pc # "idle" => a2b_status
    /\ isr_pc \in {"rx", "msg", "clear"} => first_notify

\* A message waits for its ring, or for the handler that will look for it.
SomebodyComes ==
    rx_avail # <<>> => \/ master_pc = "kick"
                       \/ first_notify /\ a2b_status /\ isr_pc \in {"idle", "rx", "msg"}

\* The command is that of the last message handled.
CommandHandled ==
    linux_control_cmd # NoCmd =>
        first_notify /\ endpoint /\ linux_control_cmd = (handled - 1) % SeqMod

PacedInv == ReadyFirst /\ HandlerRung /\ SomebodyComes /\ CommandHandled
KindInv == LinkInv /\ (kind = "paced" => PacedInv)

LEMMA InitPacedInv == Init => PacedInv
  BY DEF Init, PacedInv, ReadyFirst, HandlerRung, SomebodyComes, CommandHandled

\* What the doorbells do.
LEMMA NextRung ==
  ASSUME Paced, LinkInv, PacedInv, [Next]_vars
  PROVE  ReadyFirst' /\ HandlerRung' /\ SomebodyComes'
<1> USE DEF PacedInv, ReadyFirst, HandlerRung, SomebodyComes
<1>1. CASE MasterReady
  BY <1>1 DEF MasterReady, Paced, MayRing, Ring, queue, bootVars, isrVars
<1>2. CASE MasterAlloc
  BY <1>2 DEF MasterAlloc, RxVq!Reclaim, mboxVars, bootVars, isrVars
<1>3. CASE MasterPost
  BY <1>3 DEF MasterPost, RxVq!Post, mboxVars, bootVars, isrVars
<1>4. CASE MasterKick
  BY <1>4 DEF MasterKick, Paced, MayRing, Ring, queue, bootVars, isrVars
<1>5. CASE MasterAck \/ UNCHANGED vars
  BY <1>5 DEF MasterAck, queue, masterVars, mboxVars, bootVars, isrVars, vars
<1>6. CASE MainNext
  BY <1>6 DEF MainNext, MainRegister, MainResetLink, MainEnableIrq, MainSeesLink,
              MainCreateEpt, MainRuns, queue, masterVars, mboxVars, isrVars
<1>7. CASE IsrEnter \/ IsrLinkUp
  BY <1>7 DEF IsrEnter, IsrLinkUp, queue, masterVars, mboxVars, bootVars
<1>8. CASE IsrTake \/ IsrHandle
  BY <1>8 DEF IsrTake, IsrHandle, RxVq!Take, RxVq!Return, masterVars, mboxVars, bootVars
<1>9. CASE IsrDrained \/ IsrClear
  BY <1>9 DEF IsrDrained, IsrClear, queue, masterVars, bootVars
<1> QED BY <1>1, <1>2, <1>3, <1>4, <1>5, <1>6, <1>7, <1>8, <1>9
        DEF Next, MasterNext, IsrNext

\* What the callback makes of a message.
LEMMA NextCommand ==
  ASSUME LinkInv, PacedInv, [Next]_vars
  PROVE  CommandHandled'
<1> USE DEF CommandHandled
<1>1. CASE IsrHandle
  <2>1. /\ Outstanding # <<>> /\ Head(Outstanding) = isr_desc /\ isr_pc = "msg"
        /\ Outstanding \in Seq(Desc) /\ handled \in Seqno /\ first_notify
    BY <1>1, OutstandingIs DEF IsrHandle, LinkInv, LinkSafe, TypeOK, PacedInv, HandlerRung
  <2>2. Len(Outstanding) \in Nat \ {0} /\ Outstanding[1] = isr_desc
    BY <2>1
  <2>3. 1 \in 1..Len(Outstanding) /\ handled + 1 - 1 = handled
    BY <2>1, <2>2 DEF Seqno
  <2>4. rx_data[isr_desc] = handled % SeqMod
    BY <2>2, <2>3 DEF LinkInv, LinkSafe, InOrder
  <2>5. rx_data[isr_desc] = handled
    BY <2>1, <2>4, Remainder
  <2>6. (((handled + 1) % SeqMod) - 1) % SeqMod = handled
    BY <2>1, OneBefore
  <2> QED BY <1>1, <2>1, <2>5, <2>6 DEF IsrHandle, PacedInv, bootVars
<1>2. CASE IsrEnter \/ IsrLinkUp \/ IsrTake \/ IsrDrained \/ IsrClear
  BY <1>2 DEF IsrEnter, IsrLinkUp, IsrTake, IsrDrained, IsrClear, PacedInv, bootVars
<1>3. CASE MainNext \/ UNCHANGED vars
  BY <1>3 DEF MainNext, MainRegister, MainResetLink, MainEnableIrq, MainSeesLink,
              MainCreateEpt, PacedInv, isrVars, bootVars, vars
<1>4. CASE MasterNext
  <2>1. UNCHANGED <<bootVars, isrVars>>
    BY <1>4 DEF MasterNext, MasterReady, MasterAlloc, MasterPost, MasterKick, MasterAck
  <2> QED BY <2>1 DEF PacedInv, bootVars, isrVars
<1> QED BY <1>1, <1>2, <1>3, <1>4 DEF Next, IsrNext

LEMMA NextPacedInv == Paced /\ LinkInv /\ PacedInv /\ [Next]_vars => PacedInv'
  BY NextRung, NextCommand DEF PacedInv

LEMMA PacedIsCurrent == LinkInv /\ PacedInv => NoStranded /\ CommandCurrent
<1> SUFFICES ASSUME LinkInv, PacedInv PROVE NoStranded /\ CommandCurrent
  OBVIOUS
<1>1. NoStranded
  BY DEF PacedInv, SomebodyComes, NoStranded, Quiet
<1>2. ASSUME Quiet, linux_control_cmd # NoCmd
      PROVE  linux_control_cmd = (next_seq - 1) % SeqMod
  <2>1. rx_avail = <<>> /\ isr_pc = "idle"
    BY <1>1, <1>2 DEF PacedInv, CommandHandled, NoStranded, Quiet
  <2>2. Outstanding = <<>> /\ Len(Outstanding) = 0
    BY <2>1 DEF Outstanding
  <2>3. handled \in Seqno /\ handled + 0 = handled
    BY DEF LinkInv, LinkSafe, TypeOK, Seqno
  <2>4. next_seq = handled
    BY <2>2, <2>3, Remainder DEF LinkInv, LinkSafe, InOrder
  <2> QED BY <1>2, <2>4 DEF PacedInv, CommandHandled
<1> QED BY <1>1, <1>2 DEF CommandCurrent

\* With such a master no message waits in the queue once the link is quiet, and
\* the command the controllers work with is then the newest one.
THEOREM PacedIsServed == ASSUME Paced PROVE Spec => [](NoStranded /\ CommandCurrent)
<1>1. Init => LinkInv /\ PacedInv
  BY InitLinkInv, InitPacedInv
<1>2. LinkInv /\ PacedInv /\ [Next]_vars => (LinkInv /\ PacedInv)'
  BY NextLinkInv, NextPacedInv, EveryMasterSteps, Paced
<1> QED BY <1>1, <1>2, PacedIsCurrent, PTL DEF Spec

\* The same of the waiting master of MCRpmsgLink.
THEOREM PacedCommand == ASSUME Paced PROVE MCSpec => []PacedCommandCurrent
<1>1. MCInit => KindInv
  BY InitLinkInv, InitPacedInv DEF MCInit, KindInv
<1>2. KindInv /\ [MCNext]_<<kind, vars>> => KindInv'
  <2> SUFFICES ASSUME KindInv, [MCNext]_<<kind, vars>> PROVE KindInv'
    OBVIOUS
  <2>1. LinkInv'
    BY NextLinkInv, EveryMasterSteps DEF KindInv, MCNext
  <2>2. ASSUME kind' = "paced" PROVE PacedInv'
    <3>1. kind = "paced" /\ [Next]_vars
      BY <2>2 DEF MCNext
    <3> QED BY <3>1, NextPacedInv, Paced DEF KindInv
  <2> QED BY <2>1, <2>2 DEF KindInv
<1>3. KindInv => PacedCommandCurrent
  BY PacedIsCurrent DEF KindInv, PacedCommandCurrent
<1> QED BY <1>1, <1>2, <1>3, PTL DEF MCSpec
=============================================================================
