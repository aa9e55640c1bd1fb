--------------------------- MODULE VirtqueueProof ---------------------------
(***************************************************************************)
(* Proof that a virtqueue used from one context of the remote core keeps   *)
(* every descriptor and its order, for every ring size and every width of  *)
(* the indices.                                                            *)
(***************************************************************************)
EXTENDS Virtqueue, FiniteSetTheorems, SequenceTheorems, TLAPS

\* The precondition of the comment in rpmsg_env_bm.c ("the API is not shared
\* with ISR context"), per virtqueue.
OneContext == \E c : RemoteCtx = {c}

-----------------------------------------------------------------------------
(* Arithmetic of the free-running indices.                                 *)

\* The number of index values is a multiple of the ring size, two laps at least.
LEMMA Laps == \E q \in Nat : IdxMod = q * N /\ q >= 2
  BY IdxModAssumption, NAssumption

\* Division with remainder by the ring size is unique.
LEMMA DivModUnique ==
  ASSUME NEW q \in Int, NEW r \in 0..(N - 1)
  PROVE  (N * q + r) % N = r
  BY NAssumption

\* An index names a slot of the ring.
LEMMA SlotInDesc == ASSUME NEW i \in Nat PROVE Slot(i) \in Desc
  BY NAssumption DEF Slot, Desc

\* Two indices less than a lap apart name different slots.
LEMMA SlotDistinct ==
  ASSUME NEW i \in Nat, NEW j \in Nat, i < j, j - i < N
  PROVE  Slot(i) # Slot(j)
<1>1. /\ i = N * (i \div N) + (i % N) /\ i \div N \in Int
      /\ j = N * (j \div N) + (j % N) /\ j \div N \in Int
  BY NAssumption
<1>2. SUFFICES ASSUME i % N = j % N PROVE FALSE
  BY DEF Slot
<1>3. j - i = N * ((j \div N) - (i \div N))
  BY <1>1, <1>2, NAssumption
<1>4. PICK d \in Int : j - i = N * d
  BY <1>1, <1>3
<1>5. d >= 1
  <2>1. d <= 0 => N * d <= 0
    BY NAssumption
  <2> QED BY <1>4, <2>1
<1>6. N * d >= N
  BY <1>5, NAssumption
<1> QED BY <1>4, <1>6, NAssumption

\* The wrap of the indices is invisible in the slots: the ring size divides
\* the number of index values.
LEMMA SlotInc ==
  ASSUME NEW i \in Idx, NEW k \in Nat
  PROVE  Inc(i) \in Idx /\ Slot(Inc(i) + k) = Slot(i + 1 + k)
<1>1. PICK q \in Nat : IdxMod = q * N /\ q >= 2
  BY Laps
<1>2. Inc(i) = IF i = IdxMod - 1 THEN 0 ELSE i + 1
  <2>1. i + 1 \in 0..IdxMod /\ IdxMod \in Nat \ {0}
    BY IdxModAssumption DEF Idx
  <2>2. CASE i = IdxMod - 1
    BY <2>1, <2>2 DEF Inc, Idx
  <2>3. CASE i # IdxMod - 1
    <3>1. i + 1 < IdxMod
      BY <2>1, <2>3 DEF Idx
    <3> QED BY <2>1, <2>3, <3>1 DEF Inc
  <2> QED BY <2>2, <2>3
<1>3. Inc(i) \in Idx
  BY <1>2, IdxModAssumption DEF Idx
<1>4. CASE i = IdxMod - 1
  <2>1. i + 1 + k = N * q + k
    BY <1>1, <1>4, NAssumption
  <2>2. k = N * (k \div N) + (k % N) /\ k \div N \in Int /\ k % N \in 0..(N-1)
    BY NAssumption
  <2>3. i + 1 + k = N * (q + (k \div N)) + (k % N)
    BY <2>1, <2>2, <1>1, NAssumption
  <2>4. (i + 1 + k) % N = k % N
    BY <2>2, <2>3, <1>1, DivModUnique
  <2> QED BY <2>4, <1>2, <1>3, <1>4 DEF Slot
<1>5. CASE i # IdxMod - 1
  BY <1>2, <1>3, <1>5
<1> QED BY <1>4, <1>5

\* Publishing and consuming move the distance of two indices by one.
LEMMA DistBasic ==
  ASSUME NEW i \in Idx, NEW j \in Idx
  PROVE  /\ Dist(i, j) \in 0..(IdxMod - 1)
         /\ (Dist(i, j) = 0) <=> (i = j)
         /\ Dist(i, j) < IdxMod - 1 => Dist(Inc(i), j) = Dist(i, j) + 1
         /\ Dist(i, j) > 0 => Dist(i, Inc(j)) = Dist(i, j) - 1
<1>1. Dist(i, j) = IF i >= j THEN i - j ELSE i - j + IdxMod
  BY IdxModAssumption DEF Dist, Idx
<1>2. \A x, y \in Idx : Dist(x, y) = IF x >= y THEN x - y ELSE x - y + IdxMod
  BY IdxModAssumption DEF Dist, Idx
<1>3. \A x \in Idx : Inc(x) = IF x = IdxMod - 1 THEN 0 ELSE x + 1
  BY IdxModAssumption DEF Inc, Idx
<1>4. Inc(i) \in Idx /\ Inc(j) \in Idx
  BY SlotInc DEF Idx
<1>5. /\ Dist(Inc(i), j) = IF Inc(i) >= j THEN Inc(i) - j
                           ELSE Inc(i) - j + IdxMod
      /\ Dist(i, Inc(j)) = IF i >= Inc(j) THEN i - Inc(j)
                           ELSE i - Inc(j) + IdxMod
  BY <1>2, <1>4
<1>6. /\ Inc(i) = IF i = IdxMod - 1 THEN 0 ELSE i + 1
      /\ Inc(j) = IF j = IdxMod - 1 THEN 0 ELSE j + 1
  BY <1>3
<1> QED BY <1>1, <1>5, <1>6, IdxModAssumption DEF Idx

\* The slot of the producer's index is the one after the last in flight.
LEMMA SlotDist ==
  ASSUME NEW i \in Idx, NEW j \in Idx
  PROVE  Slot(j + Dist(i, j)) = Slot(i)
<1>1. PICK q \in Nat : IdxMod = q * N /\ q >= 2
  BY Laps
<1>2. Dist(i, j) = IF i >= j THEN i - j ELSE i - j + IdxMod
  BY IdxModAssumption DEF Dist, Idx
<1>3. CASE i >= j
  BY <1>2, <1>3 DEF Idx
<1>4. CASE i < j
  <2>1. j + Dist(i, j) = N * q + i
    BY <1>1, <1>2, <1>4, NAssumption DEF Idx
  <2>2. i = N * (i \div N) + (i % N) /\ i \div N \in Int /\ i % N \in 0..(N-1)
    BY NAssumption DEF Idx
  <2>3. N * q + i = N * (q + (i \div N)) + (i % N)
    BY <2>2, <1>1, NAssumption
  <2>4. (N * q + i) % N = i % N
    BY <2>2, <2>3, <1>1, DivModUnique
  <2> QED BY <2>1, <2>4 DEF Slot
<1> QED BY <1>3, <1>4 DEF Idx

-----------------------------------------------------------------------------
(* The window of a ring that is in flight, as its producer and its         *)
(* consumer move.                                                          *)

InFlight(ring, idx, head) == Window(ring, head, Dist(idx, head))
InFlightDistinct(ring, idx, head) == Distinct(ring, head, Dist(idx, head))

\* In-flight entries are descriptors; an empty window has none.
LEMMA InFlightDesc ==
  ASSUME NEW ring \in [Desc -> Desc], NEW idx \in Idx, NEW head \in Idx
  PROVE  /\ InFlight(ring, idx, head) \subseteq Desc
         /\ idx = head => /\ InFlight(ring, idx, head) = {}
                          /\ InFlightDistinct(ring, idx, head)
<1>1. \A k \in 0..(Dist(idx, head) - 1) : Slot(head + k) \in Desc
  BY SlotInDesc DEF Idx
<1>2. Dist(idx, head) \in Nat /\ (idx = head => Dist(idx, head) = 0)
  BY DistBasic
<1> QED BY <1>1, <1>2 DEF InFlight, InFlightDistinct, Window, Distinct

\* Writing the next slot leaves the window alone.
LEMMA WriteSlot ==
  ASSUME NEW ring \in [Desc -> Desc], NEW idx \in Idx, NEW head \in Idx,
         Dist(idx, head) < N, NEW r \in [Desc -> Desc],
         \A s \in Desc : s # Slot(idx) => r[s] = ring[s]
  PROVE  /\ InFlight(r, idx, head) = InFlight(ring, idx, head)
         /\ InFlightDistinct(ring, idx, head)
              => InFlightDistinct(r, idx, head)
<1> DEFINE n == Dist(idx, head)
<1>1. n \in Nat /\ Slot(head + n) = Slot(idx) /\ Slot(idx) \in Desc
  BY DistBasic, SlotDist, SlotInDesc DEF Idx
<1>2. \A k \in 0..(n - 1) : /\ Slot(head + k) \in Desc
                            /\ r[Slot(head + k)] = ring[Slot(head + k)]
  <2> SUFFICES ASSUME NEW k \in 0..(n - 1)
               PROVE  /\ Slot(head + k) \in Desc
                      /\ r[Slot(head + k)] = ring[Slot(head + k)]
    OBVIOUS
  <2>1. /\ head + k \in Nat /\ head + n \in Nat
        /\ head + k < head + n /\ (head + n) - (head + k) < N
    BY <1>1, NAssumption DEF Idx
  <2>2. Slot(head + k) # Slot(head + n)
    BY <2>1, <1>1, SlotDistinct
  <2> QED BY <1>1, <2>1, <2>2, SlotInDesc
<1>3. InFlight(r, idx, head) = InFlight(ring, idx, head)
  BY <1>2 DEF InFlight, Window
<1>4. InFlightDistinct(ring, idx, head) => InFlightDistinct(r, idx, head)
  BY <1>2 DEF InFlightDistinct, Distinct
<1> QED BY <1>3, <1>4

\* Publishing appends the slot of the producer's index to the window.
LEMMA Publish ==
  ASSUME NEW ring \in [Desc -> Desc], NEW idx \in Idx, NEW head \in Idx,
         Dist(idx, head) < N
  PROVE  LET b == ring[Slot(idx)]
         IN  /\ Dist(Inc(idx), head) = Dist(idx, head) + 1
             /\ InFlight(ring, Inc(idx), head)
                  = InFlight(ring, idx, head) \cup {b}
             /\ InFlightDistinct(ring, idx, head)
                  /\ b \notin InFlight(ring, idx, head)
                  => InFlightDistinct(ring, Inc(idx), head)
<1> DEFINE n == Dist(idx, head)
           b == ring[Slot(idx)]
<1>1. n \in Nat /\ ring[Slot(head + n)] = b
  BY DistBasic, SlotDist
<1>2. n < IdxMod - 1
  BY <1>1, Laps, NAssumption
<1>3. Dist(Inc(idx), head) = n + 1
  BY <1>2, DistBasic
<1>4. \A k : k \in 0..((n + 1) - 1) <=> k \in 0..(n - 1) \/ k = n
  BY <1>1
<1>5. InFlight(ring, Inc(idx), head) = InFlight(ring, idx, head) \cup {b}
  BY <1>1, <1>3, <1>4 DEF InFlight, Window
<1>6. ASSUME InFlightDistinct(ring, idx, head),
             b \notin InFlight(ring, idx, head)
      PROVE  InFlightDistinct(ring, Inc(idx), head)
  <2>1. \A k \in 0..(n - 1) : ring[Slot(head + k)] # b
    BY <1>6 DEF InFlight, Window
  <2>2. \A j, k \in 0..(n - 1) :
          ring[Slot(head + j)] = ring[Slot(head + k)] => j = k
    BY <1>6 DEF InFlightDistinct, Distinct
  <2>3. \A j, k \in 0..((n + 1) - 1) :
          ring[Slot(head + j)] = ring[Slot(head + k)] => j = k
    BY <1>1, <1>4, <2>1, <2>2
  <2> QED BY <1>3, <2>3 DEF InFlightDistinct, Distinct
<1> QED BY <1>3, <1>5, <1>6

\* Consuming removes the slot of the consumer's cursor from the window.
LEMMA Consume ==
  ASSUME NEW ring \in [Desc -> Desc], NEW idx \in Idx, NEW head \in Idx,
         Dist(idx, head) > 0, InFlightDistinct(ring, idx, head)
  PROVE  LET b == ring[Slot(head)]
         IN  /\ b \in Desc
             /\ Dist(idx, Inc(head)) = Dist(idx, head) - 1
             /\ InFlight(ring, idx, head)
                  = InFlight(ring, idx, Inc(head)) \cup {b}
             /\ b \notin InFlight(ring, idx, Inc(head))
             /\ InFlightDistinct(ring, idx, Inc(head))
<1> DEFINE n == Dist(idx, head)
           b == ring[Slot(head)]
           R(k) == ring[Slot(head + k)]
           S(k) == ring[Slot(Inc(head) + k)]
<1>1. n \in Nat \ {0} /\ Dist(idx, Inc(head)) = n - 1
  BY DistBasic
<1>2. b \in Desc /\ b = R(0)
  BY SlotInDesc DEF Idx
<1>3. \A k \in Nat : S(k) = R(k + 1)
  <2> TAKE k \in Nat
  <2>1. Slot(Inc(head) + k) = Slot(head + 1 + k)
    BY SlotInc
  <2>2. head + 1 + k = head + (k + 1)
    BY DEF Idx
  <2> QED BY <2>1, <2>2
<1>4. \A j, k \in 0..(n - 1) : R(j) = R(k) => j = k
  BY DEF InFlightDistinct, Distinct
<1> HIDE DEF R, S
<1>5. {R(k) : k \in 0..(n - 1)} = {S(k) : k \in 0..((n - 1) - 1)} \cup {b}
  <2>1. ASSUME NEW k \in 0..(n - 1)
        PROVE  R(k) = b \/ \E j \in 0..((n - 1) - 1) : R(k) = S(j)
    <3>1. CASE k = 0
      BY <3>1, <1>2
    <3>2. CASE k # 0
      <4>1. k - 1 \in 0..((n - 1) - 1) /\ k = (k - 1) + 1
        BY <1>1, <3>2
      <4> QED BY <4>1, <1>3
    <3> QED BY <3>1, <3>2
  <2>2. ASSUME NEW k \in 0..((n - 1) - 1)
        PROVE  \E j \in 0..(n - 1) : S(k) = R(j)
    <3>1. k \in Nat /\ k + 1 \in 0..(n - 1)
      BY <1>1
    <3> QED BY <3>1, <1>3
  <2>3. 0 \in 0..(n - 1)
    BY <1>1
  <2> QED BY <1>2, <2>1, <2>2, <2>3
<1>6. b \notin {S(k) : k \in 0..((n - 1) - 1)}
  <2> SUFFICES ASSUME NEW k \in 0..((n - 1) - 1) PROVE S(k) # b
    OBVIOUS
  <2>1. k \in Nat /\ k + 1 \in 0..(n - 1) /\ 0 \in 0..(n - 1) /\ k + 1 # 0
    BY <1>1
  <2> QED BY <2>1, <1>2, <1>3, <1>4
<1>7. \A j, k \in 0..((n - 1) - 1) : S(j) = S(k) => j = k
  <2> SUFFICES ASSUME NEW j \in 0..((n - 1) - 1), NEW k \in 0..((n - 1) - 1),
                      S(j) = S(k)
               PROVE  j = k
    OBVIOUS
  <2>1. /\ j \in Nat /\ k \in Nat
        /\ j + 1 \in 0..(n - 1) /\ k + 1 \in 0..(n - 1)
    BY <1>1
  <2>2. j + 1 = k + 1
    BY <2>1, <1>3, <1>4
  <2> QED BY <2>1, <2>2
<1> USE DEF R, S
<1>8. InFlight(ring, idx, head) = {R(k) : k \in 0..(n - 1)}
  BY DEF InFlight, Window
<1>9. InFlight(ring, idx, Inc(head)) = {S(k) : k \in 0..((n - 1) - 1)}
  BY <1>1 DEF InFlight, Window
<1>10. InFlightDistinct(ring, idx, Inc(head))
  BY <1>1, <1>7 DEF InFlightDistinct, Distinct
<1> QED BY <1>1, <1>2, <1>5, <1>6, <1>8, <1>9, <1>10

-----------------------------------------------------------------------------
(* The inductive invariant.                                                *)

\* Every descriptor has one place: how many there are in each place.
Counting == AvailCount + UsedCount + Cardinality(master_bufs)
              + Cardinality(remote_bufs) = N

\* What a core has established when it is between the two steps of an
\* operation.
MidOperation ==
    /\ ~Filled => /\ master_pc = "idle"
                  /\ remote_bufs = {}
                  /\ \A c \in RemoteCtx : remote_pc[c] = "idle"
                  /\ \A b \in Desc : b >= vq_desc_head_idx => b \in master_bufs
    /\ master_pc = "publish" => /\ master_desc \in master_bufs
                                /\ avail_ring[Slot(avail_idx)] = master_desc
    /\ master_pc = "take" => UsedCount > 0
    /\ \A c \in RemoteCtx :
         /\ remote_pc[c] = "publish" =>
              /\ remote_desc[c] \in remote_bufs
              /\ used_ring[Slot(used_idx)] = remote_desc[c]
         /\ remote_pc[c] = "take" => AvailCount > 0

IInv == TypeOK /\ Conservation /\ Counting /\ MidOperation

\* No more descriptors are in flight than the table has.
LEMMA Cards ==
  ASSUME NEW S \in SUBSET Desc, NEW b \in Desc
  PROVE  /\ Cardinality(S) \in Nat
         /\ b \in S => /\ Cardinality(S) >= 1
                       /\ Cardinality(S \ {b}) = Cardinality(S) - 1
         /\ b \notin S => Cardinality(S \cup {b}) = Cardinality(S) + 1
<1>1. IsFiniteSet(Desc)
  BY FS_Interval, NAssumption DEF Desc
<1>2. IsFiniteSet(S)
  BY <1>1, FS_Subset
<1>3. Cardinality(S) \in Nat
  BY <1>2, FS_CardinalityType
<1>4. IsFiniteSet(S \ {b}) /\ Cardinality(S \ {b}) \in Nat
  BY <1>2, FS_RemoveElement, FS_CardinalityType
<1>5. b \in S => Cardinality(S \ {b}) = Cardinality(S) - 1
  BY <1>2, FS_RemoveElement
<1>6. b \notin S => Cardinality(S \cup {b}) = Cardinality(S) + 1
  BY <1>2, FS_AddElement
<1> QED BY <1>3, <1>4, <1>5, <1>6

\* The parts of the invariant in terms of the windows.
LEMMA Windows ==
  /\ InAvail = InFlight(avail_ring, avail_idx, vq_available_idx)
  /\ InUsed = InFlight(used_ring, used_idx, vq_used_cons_idx)
  /\ Distinct(avail_ring, vq_available_idx, AvailCount)
       <=> InFlightDistinct(avail_ring, avail_idx, vq_available_idx)
  /\ Distinct(used_ring, vq_used_cons_idx, UsedCount)
       <=> InFlightDistinct(used_ring, used_idx, vq_used_cons_idx)
  BY DEF InAvail, InUsed, AvailCount, UsedCount, InFlight, InFlightDistinct

\* virtqueue_create_static and the cleared ring establish the invariant.
LEMMA InitIInv == Init => IInv
<1> SUFFICES ASSUME Init PROVE IInv
  OBVIOUS
<1>1. 0 \in Idx /\ 0 \in Desc
  BY IdxModAssumption, NAssumption, Laps DEF Idx, Desc
<1>2. TypeOK
  BY <1>1, NAssumption DEF TypeOK, Init, NoDesc
<1>3. AvailCount = 0 /\ UsedCount = 0
  BY <1>1, DistBasic DEF Init, AvailCount, UsedCount
<1>4. Conservation
  BY <1>3 DEF Conservation, InAvail, InUsed, Window, Distinct, Init
<1>5. Cardinality(Desc) = N /\ Cardinality({}) = 0
  BY FS_Interval, FS_EmptySet, NAssumption DEF Desc
<1>6. Counting
  BY <1>3, <1>5, NAssumption DEF Counting, Init
<1>7. MidOperation
  BY DEF MidOperation, Init
<1> QED BY <1>2, <1>4, <1>6, <1>7 DEF IInv

\* A core that holds a descriptor finds a free slot in either ring.
LEMMA Room ==
  ASSUME IInv, NEW b \in Desc, b \in master_bufs \/ b \in remote_bufs
  PROVE  AvailCount < N /\ UsedCount < N
<1>1. /\ Cardinality(master_bufs) \in Nat /\ Cardinality(remote_bufs) \in Nat
      /\ Cardinality(master_bufs) >= 1 \/ Cardinality(remote_bufs) >= 1
  BY Cards DEF IInv, TypeOK
<1>2. AvailCount \in Nat /\ UsedCount \in Nat
  BY DistBasic DEF IInv, TypeOK, AvailCount, UsedCount
<1> QED BY <1>1, <1>2, NAssumption DEF IInv, Counting

-----------------------------------------------------------------------------
(* Every step preserves the inductive invariant.                           *)

\* The counts are natural numbers and the rings hold descriptors only.
LEMMA Numbers ==
  ASSUME IInv
  PROVE  /\ AvailCount \in Nat /\ UsedCount \in Nat
         /\ Cardinality(master_bufs) \in Nat
         /\ Cardinality(remote_bufs) \in Nat
         /\ InAvail \subseteq Desc /\ InUsed \subseteq Desc
<1>1. TypeOK
  BY DEF IInv
<1>2. AvailCount \in Nat /\ UsedCount \in Nat
  BY <1>1, DistBasic DEF TypeOK, AvailCount, UsedCount
<1>3. 0 \in Desc
  BY NAssumption DEF Desc
<1>4. Cardinality(master_bufs) \in Nat /\ Cardinality(remote_bufs) \in Nat
  BY <1>1, <1>3, Cards DEF TypeOK
<1> QED BY <1>1, <1>2, <1>4, Windows, InFlightDesc DEF TypeOK

\* Publishing an entry that is already in its slot.
LEMMA PublishAvail ==
  ASSUME IInv, AvailCount < N, NEW b \in Desc, b \notin InAvail,
         avail_ring' \in [Desc -> Desc], avail_ring'[Slot(avail_idx)] = b,
         InFlight(avail_ring', avail_idx, vq_available_idx) = InAvail,
         InFlightDistinct(avail_ring', avail_idx, vq_available_idx),
         avail_idx' = Inc(avail_idx), vq_available_idx' = vq_available_idx
  PROVE  /\ avail_idx' \in Idx
         /\ AvailCount' = AvailCount + 1
         /\ InAvail' = InAvail \cup {b}
         /\ Distinct(avail_ring', vq_available_idx', AvailCount')
<1>1. avail_idx \in Idx /\ vq_available_idx \in Idx
  BY DEF IInv, TypeOK
<1>2. avail_idx' \in Idx
  BY <1>1, SlotInc
<1>3. Dist(avail_idx, vq_available_idx) < N
  BY DEF AvailCount
<1>4. /\ Dist(Inc(avail_idx), vq_available_idx) = AvailCount + 1
      /\ InFlight(avail_ring', Inc(avail_idx), vq_available_idx)
           = InAvail \cup {b}
      /\ InFlightDistinct(avail_ring', Inc(avail_idx), vq_available_idx)
  BY <1>1, <1>3, Publish DEF AvailCount
<1> QED BY <1>2, <1>4 DEF AvailCount, InAvail, InFlight, InFlightDistinct

\* The same for the used ring.
LEMMA PublishUsed ==
  ASSUME IInv, UsedCount < N, NEW b \in Desc, b \notin InUsed,
         used_ring' \in [Desc -> Desc], used_ring'[Slot(used_idx)] = b,
         InFlight(used_ring', used_idx, vq_used_cons_idx) = InUsed,
         InFlightDistinct(used_ring', used_idx, vq_used_cons_idx),
         used_idx' = Inc(used_idx), vq_used_cons_idx' = vq_used_cons_idx
  PROVE  /\ used_idx' \in Idx
         /\ UsedCount' = UsedCount + 1
         /\ InUsed' = InUsed \cup {b}
         /\ Distinct(used_ring', vq_used_cons_idx', UsedCount')
<1>1. used_idx \in Idx /\ vq_used_cons_idx \in Idx
  BY DEF IInv, TypeOK
<1>2. used_idx' \in Idx
  BY <1>1, SlotInc
<1>3. Dist(used_idx, vq_used_cons_idx) < N
  BY DEF UsedCount
<1>4. /\ Dist(Inc(used_idx), vq_used_cons_idx) = UsedCount + 1
      /\ InFlight(used_ring', Inc(used_idx), vq_used_cons_idx)
           = InUsed \cup {b}
      /\ InFlightDistinct(used_ring', Inc(used_idx), vq_used_cons_idx)
  BY <1>1, <1>3, Publish DEF UsedCount
<1> QED BY <1>2, <1>4 DEF UsedCount, InUsed, InFlight, InFlightDistinct

\* Writing the next slot, before its publication.
LEMMA WriteAvail ==
  ASSUME IInv, AvailCount < N, NEW b \in Desc,
         avail_ring' = [avail_ring EXCEPT ![Slot(avail_idx)] = b]
  PROVE  /\ avail_ring' \in [Desc -> Desc]
         /\ avail_ring'[Slot(avail_idx)] = b
         /\ InFlight(avail_ring', avail_idx, vq_available_idx) = InAvail
         /\ InFlightDistinct(avail_ring', avail_idx, vq_available_idx)
<1>1. /\ avail_idx \in Idx /\ vq_available_idx \in Idx
      /\ avail_ring \in [Desc -> Desc]
      /\ InFlightDistinct(avail_ring, avail_idx, vq_available_idx)
  BY Windows DEF IInv, TypeOK, Conservation
<1>2. Dist(avail_idx, vq_available_idx) < N
  BY DEF AvailCount
<1>3. /\ avail_ring' \in [Desc -> Desc] /\ avail_ring'[Slot(avail_idx)] = b
      /\ \A s \in Desc : s # Slot(avail_idx) => avail_ring'[s] = avail_ring[s]
  BY <1>1, SlotInDesc DEF Idx
<1>4. /\ InFlight(avail_ring', avail_idx, vq_available_idx)
           = InFlight(avail_ring, avail_idx, vq_available_idx)
      /\ InFlightDistinct(avail_ring', avail_idx, vq_available_idx)
  <2>1. \A r \in [Desc -> Desc] :
          (\A s \in Desc : s # Slot(avail_idx) => r[s] = avail_ring[s]) =>
          /\ InFlight(r, avail_idx, vq_available_idx) = InFlight(avail_ring, avail_idx, vq_available_idx)
          /\ InFlightDistinct(r, avail_idx, vq_available_idx)
    BY <1>1, <1>2, WriteSlot
  <2> QED BY <1>3, <2>1
<1> QED BY <1>3, <1>4, Windows

\* The same for the used ring.
LEMMA WriteUsed ==
  ASSUME IInv, UsedCount < N, NEW b \in Desc,
         used_ring' = [used_ring EXCEPT ![Slot(used_idx)] = b]
  PROVE  /\ used_ring' \in [Desc -> Desc]
         /\ used_ring'[Slot(used_idx)] = b
         /\ InFlight(used_ring', used_idx, vq_used_cons_idx) = InUsed
         /\ InFlightDistinct(used_ring', used_idx, vq_used_cons_idx)
<1>1. /\ used_idx \in Idx /\ vq_used_cons_idx \in Idx
      /\ used_ring \in [Desc -> Desc]
      /\ InFlightDistinct(used_ring, used_idx, vq_used_cons_idx)
  BY Windows DEF IInv, TypeOK, Conservation
<1>2. Dist(used_idx, vq_used_cons_idx) < N
  BY DEF UsedCount
<1>3. /\ used_ring' \in [Desc -> Desc] /\ used_ring'[Slot(used_idx)] = b
      /\ \A s \in Desc : s # Slot(used_idx) => used_ring'[s] = used_ring[s]
  BY <1>1, SlotInDesc DEF Idx
<1>4. /\ InFlight(used_ring', used_idx, vq_used_cons_idx)
           = InFlight(used_ring, used_idx, vq_used_cons_idx)
      /\ InFlightDistinct(used_ring', used_idx, vq_used_cons_idx)
  <2>1. \A r \in [Desc -> Desc] :
          (\A s \in Desc : s # Slot(used_idx) => r[s] = used_ring[s]) =>
          /\ InFlight(r, used_idx, vq_used_cons_idx) = InFlight(used_ring, used_idx, vq_used_cons_idx)
          /\ InFlightDistinct(r, used_idx, vq_used_cons_idx)
    BY <1>1, <1>2, WriteSlot
  <2> QED BY <1>3, <2>1
<1> QED BY <1>3, <1>4, Windows

\* Taking the oldest entry of a ring.
LEMMA ConsumeAvail ==
  ASSUME IInv, AvailCount > 0, UNCHANGED <<avail_idx, avail_ring>>,
         vq_available_idx' = Inc(vq_available_idx)
  PROVE  LET b == avail_ring[Slot(vq_available_idx)]
         IN  /\ b \in Desc /\ vq_available_idx' \in Idx
             /\ AvailCount' = AvailCount - 1
             /\ InAvail = InAvail' \cup {b} /\ b \notin InAvail'
             /\ Distinct(avail_ring', vq_available_idx', AvailCount')
<1> DEFINE b == avail_ring[Slot(vq_available_idx)]
<1>1. /\ avail_idx \in Idx /\ vq_available_idx \in Idx
      /\ avail_ring \in [Desc -> Desc]
      /\ InFlightDistinct(avail_ring, avail_idx, vq_available_idx)
  BY Windows DEF IInv, TypeOK, Conservation
<1>2. vq_available_idx' \in Idx
  BY <1>1, SlotInc
<1>3. Dist(avail_idx, vq_available_idx) > 0
  BY DEF AvailCount
<1>4. /\ b \in Desc
      /\ Dist(avail_idx, Inc(vq_available_idx)) = AvailCount - 1
      /\ InAvail = InFlight(avail_ring, avail_idx, Inc(vq_available_idx))
                     \cup {b}
      /\ b \notin InFlight(avail_ring, avail_idx, Inc(vq_available_idx))
      /\ InFlightDistinct(avail_ring, avail_idx, Inc(vq_available_idx))
  BY <1>1, <1>3, Consume, Windows DEF AvailCount
<1> QED BY <1>2, <1>4 DEF AvailCount, InAvail, InFlight, InFlightDistinct

\* The same for the used ring.
LEMMA ConsumeUsed ==
  ASSUME IInv, UsedCount > 0, UNCHANGED <<used_idx, used_ring>>,
         vq_used_cons_idx' = Inc(vq_used_cons_idx)
  PROVE  LET b == used_ring[Slot(vq_used_cons_idx)]
         IN  /\ b \in Desc /\ vq_used_cons_idx' \in Idx
             /\ UsedCount' = UsedCount - 1
             /\ InUsed = InUsed' \cup {b} /\ b \notin InUsed'
             /\ Distinct(used_ring', vq_used_cons_idx', UsedCount')
<1> DEFINE b == used_ring[Slot(vq_used_cons_idx)]
<1>1. /\ used_idx \in Idx /\ vq_used_cons_idx \in Idx
      /\ used_ring \in [Desc -> Desc]
      /\ InFlightDistinct(used_ring, used_idx, vq_used_cons_idx)
  BY Windows DEF IInv, TypeOK, Conservation
<1>2. vq_used_cons_idx' \in Idx
  BY <1>1, SlotInc
<1>3. Dist(used_idx, vq_used_cons_idx) > 0
  BY DEF UsedCount
<1>4. /\ b \in Desc
      /\ Dist(used_idx, Inc(vq_used_cons_idx)) = UsedCount - 1
      /\ InUsed = InFlight(used_ring, used_idx, Inc(vq_used_cons_idx)) \cup {b}
      /\ b \notin InFlight(used_ring, used_idx, Inc(vq_used_cons_idx))
      /\ InFlightDistinct(used_ring, used_idx, Inc(vq_used_cons_idx))
  BY <1>1, <1>3, Consume, Windows DEF UsedCount
<1> QED BY <1>2, <1>4 DEF UsedCount, InUsed, InFlight, InFlightDistinct

\* A ring none of whose variables changes.
LEMMA SameAvail ==
  ASSUME IInv, UNCHANGED <<avail_idx, avail_ring, vq_available_idx>>
  PROVE  /\ AvailCount' = AvailCount /\ InAvail' = InAvail
         /\ Distinct(avail_ring', vq_available_idx', AvailCount')
  BY DEF IInv, Conservation, AvailCount, InAvail

\* The same for the used ring.
LEMMA SameUsed ==
  ASSUME IInv, UNCHANGED <<used_idx, used_ring, vq_used_cons_idx>>
  PROVE  /\ UsedCount' = UsedCount /\ InUsed' = InUsed
         /\ Distinct(used_ring', vq_used_cons_idx', UsedCount')
  BY DEF IInv, Conservation, UsedCount, InUsed

\* virtqueue_fill_used_buffers keeps the invariant.
LEMMA FillUsedStep == ASSUME IInv, FillUsedBuffer PROVE IInv'
<1> DEFINE b == vq_desc_head_idx
<1> USE DEF IInv
<1>1. /\ b \in Desc /\ b \in master_bufs /\ ~Filled
      /\ master_pc = "idle" /\ \A c \in RemoteCtx : remote_pc[c] = "idle"
  <2>1. b \in 0..N /\ b < N
    BY DEF FillUsedBuffer, TypeOK
  <2>2. b \in Desc /\ ~Filled /\ b >= vq_desc_head_idx
    BY <2>1, NAssumption DEF Filled, Desc
  <2> QED BY <2>2, Zenon DEF MidOperation
<1>2. b \notin InUsed /\ b \notin InAvail /\ b \notin remote_bufs
  BY <1>1 DEF Conservation
<1>3. AvailCount < N /\ UsedCount < N
  BY <1>1, Room
<1>4. /\ used_ring' \in [Desc -> Desc] /\ used_idx' \in Idx
      /\ UsedCount' = UsedCount + 1 /\ InUsed' = InUsed \cup {b}
      /\ Distinct(used_ring', vq_used_cons_idx', UsedCount')
  BY <1>1, <1>2, <1>3, WriteUsed, PublishUsed DEF FillUsedBuffer
<1>5. /\ AvailCount' = AvailCount /\ InAvail' = InAvail
      /\ Distinct(avail_ring', vq_available_idx', AvailCount')
  BY SameAvail DEF FillUsedBuffer, remoteVars
<1>6. TypeOK'
  <2>1. vq_desc_head_idx' \in 0..N
    BY <1>1, NAssumption DEF FillUsedBuffer, Desc
  <2>2. master_bufs' \in SUBSET Desc
    BY DEF FillUsedBuffer, TypeOK
  <2> QED BY <1>4, <2>1, <2>2 DEF TypeOK, FillUsedBuffer, remoteVars
<1>7. Conservation'
  BY <1>1, <1>2, <1>4, <1>5 DEF Conservation, FillUsedBuffer, remoteVars
<1>8. Counting'
  BY <1>1, <1>4, <1>5, Numbers, Cards DEF Counting, FillUsedBuffer, remoteVars,
                                          TypeOK
<1>9. MidOperation'
  <2>1. ASSUME NEW d \in Desc, d >= vq_desc_head_idx' PROVE d \in master_bufs'
    <3>1. d >= b /\ d # b
      BY <1>1, <2>1, NAssumption DEF FillUsedBuffer, Desc
    <3>2. d \in master_bufs
      BY <1>1, <3>1 DEF MidOperation
    <3> QED BY <3>1, <3>2 DEF FillUsedBuffer
  <2>2. /\ master_pc' = "idle" /\ remote_bufs' = {}
        /\ \A c \in RemoteCtx : remote_pc'[c] = "idle"
    BY <1>1 DEF MidOperation, FillUsedBuffer, remoteVars
  <2> QED BY <2>1, <2>2 DEF MidOperation
<1> QED BY <1>6, <1>7, <1>8, <1>9

\* virtqueue_fill_avail_buffers keeps the invariant.
LEMMA FillAvailStep == ASSUME IInv, FillAvailBuffer PROVE IInv'
<1> DEFINE b == vq_desc_head_idx
<1> USE DEF IInv
<1>1. /\ b \in Desc /\ b \in master_bufs /\ ~Filled
      /\ master_pc = "idle" /\ \A c \in RemoteCtx : remote_pc[c] = "idle"
  <2>1. b \in 0..N /\ b < N
    BY DEF FillAvailBuffer, TypeOK
  <2>2. b \in Desc /\ ~Filled /\ b >= vq_desc_head_idx
    BY <2>1, NAssumption DEF Filled, Desc
  <2> QED BY <2>2, Zenon DEF MidOperation
<1>2. b \notin InUsed /\ b \notin InAvail /\ b \notin remote_bufs
  BY <1>1 DEF Conservation
<1>3. AvailCount < N /\ UsedCount < N
  BY <1>1, Room
<1>4. /\ avail_ring' \in [Desc -> Desc] /\ avail_idx' \in Idx
      /\ AvailCount' = AvailCount + 1 /\ InAvail' = InAvail \cup {b}
      /\ Distinct(avail_ring', vq_available_idx', AvailCount')
  BY <1>1, <1>2, <1>3, WriteAvail, PublishAvail
     DEF FillAvailBuffer, remoteVars
<1>5. /\ UsedCount' = UsedCount /\ InUsed' = InUsed
      /\ Distinct(used_ring', vq_used_cons_idx', UsedCount')
  BY SameUsed DEF FillAvailBuffer
<1>6. TypeOK'
  <2>1. vq_desc_head_idx' \in 0..N
    BY <1>1, NAssumption DEF FillAvailBuffer, Desc
  <2>2. master_bufs' \in SUBSET Desc
    BY DEF FillAvailBuffer, TypeOK
  <2> QED BY <1>4, <2>1, <2>2 DEF TypeOK, FillAvailBuffer, remoteVars
<1>7. Conservation'
  BY <1>1, <1>2, <1>4, <1>5 DEF Conservation, FillAvailBuffer, remoteVars
<1>8. Counting'
  BY <1>1, <1>4, <1>5, Numbers, Cards DEF Counting, FillAvailBuffer, remoteVars,
                                          TypeOK
<1>9. MidOperation'
  <2>1. ASSUME NEW d \in Desc, d >= vq_desc_head_idx' PROVE d \in master_bufs'
    <3>1. d >= b /\ d # b
      BY <1>1, <2>1, NAssumption DEF FillAvailBuffer, Desc
    <3>2. d \in master_bufs
      BY <1>1, <3>1 DEF MidOperation
    <3> QED BY <3>1, <3>2 DEF FillAvailBuffer
  <2>2. /\ master_pc' = "idle" /\ remote_bufs' = {}
        /\ \A c \in RemoteCtx : remote_pc'[c] = "idle"
    BY <1>1 DEF MidOperation, FillAvailBuffer, remoteVars
  <2> QED BY <2>1, <2>2 DEF MidOperation
<1> QED BY <1>6, <1>7, <1>8, <1>9

\* virtqueue_add_buffer, up to the slot of vq_ring_update_avail, keeps it.
LEMMA MasterWriteAvailStep ==
  ASSUME IInv, NEW b \in Desc, MasterWriteAvail(b) PROVE IInv'
<1> USE DEF IInv
<1>1. AvailCount < N
  BY Room DEF MasterWriteAvail
<1>2. /\ avail_ring' \in [Desc -> Desc] /\ avail_ring'[Slot(avail_idx)] = b
      /\ InFlight(avail_ring', avail_idx, vq_available_idx) = InAvail
      /\ InFlightDistinct(avail_ring', avail_idx, vq_available_idx)
  BY <1>1, WriteAvail DEF MasterWriteAvail
<1>3. /\ AvailCount' = AvailCount /\ InAvail' = InAvail
      /\ Distinct(avail_ring', vq_available_idx', AvailCount')
  BY <1>2 DEF MasterWriteAvail, remoteVars, AvailCount, InAvail, InFlight,
              InFlightDistinct
<1>4. /\ UsedCount' = UsedCount /\ InUsed' = InUsed
      /\ Distinct(used_ring', vq_used_cons_idx', UsedCount')
  BY SameUsed DEF MasterWriteAvail
<1>5. TypeOK'
  BY <1>2 DEF TypeOK, MasterWriteAvail, remoteVars
<1>6. Conservation'
  BY <1>3, <1>4 DEF Conservation, MasterWriteAvail, remoteVars
<1>7. Counting'
  BY <1>3, <1>4 DEF Counting, MasterWriteAvail, remoteVars
<1>8. MidOperation'
  BY <1>2, <1>3, <1>4 DEF MidOperation, MasterWriteAvail, remoteVars, Filled
<1> QED BY <1>5, <1>6, <1>7, <1>8

\* vq_ring_update_avail, its index, keeps it.
LEMMA MasterPublishAvailStep ==
  ASSUME IInv, MasterPublishAvail PROVE IInv'
<1> DEFINE b == master_desc
<1> USE DEF IInv
<1>1. Filled /\ b \in master_bufs /\ b \in Desc /\ avail_ring[Slot(avail_idx)] = b
  BY DEF MasterPublishAvail, MidOperation, TypeOK
<1>2. b \notin InUsed /\ b \notin InAvail /\ b \notin remote_bufs
  BY <1>1 DEF Conservation
<1>3. AvailCount < N
  BY <1>1, Room
<1>4. /\ avail_idx' \in Idx
      /\ AvailCount' = AvailCount + 1 /\ InAvail' = InAvail \cup {b}
      /\ Distinct(avail_ring', vq_available_idx', AvailCount')
  <2>1. /\ avail_ring' \in [Desc -> Desc] /\ avail_ring'[Slot(avail_idx)] = b
        /\ InFlight(avail_ring', avail_idx, vq_available_idx) = InAvail
        /\ InFlightDistinct(avail_ring', avail_idx, vq_available_idx)
    BY <1>1, Windows DEF MasterPublishAvail, TypeOK, Conservation
  <2> QED BY <1>1, <1>2, <1>3, <2>1, PublishAvail
          DEF MasterPublishAvail, remoteVars
<1>5. /\ UsedCount' = UsedCount /\ InUsed' = InUsed
      /\ Distinct(used_ring', vq_used_cons_idx', UsedCount')
  BY SameUsed DEF MasterPublishAvail
<1>6. TypeOK'
  BY <1>4 DEF TypeOK, MasterPublishAvail, remoteVars
<1>7. Conservation'
  BY <1>1, <1>2, <1>4, <1>5 DEF Conservation, MasterPublishAvail, remoteVars
<1>8. Counting'
  BY <1>1, <1>4, <1>5, Numbers, Cards
     DEF Counting, MasterPublishAvail, remoteVars, TypeOK
<1>9. MidOperation'
  <2>1. AvailCount > 0 => AvailCount' > 0
    BY <1>4, Numbers
  <2> QED BY <1>1, <1>5, <2>1
          DEF MidOperation, MasterPublishAvail, remoteVars, Filled
<1> QED BY <1>6, <1>7, <1>8, <1>9

\* virtqueue_get_buffer, its test for an empty ring, keeps it.
LEMMA MasterSeesUsedStep == ASSUME IInv, MasterSeesUsed PROVE IInv'
<1> USE DEF IInv
<1>1. UsedCount > 0
  <2>1. UsedCount # 0
    BY DistBasic DEF MasterSeesUsed, TypeOK, UsedCount
  <2> QED BY <2>1, Numbers
<1>2. /\ AvailCount' = AvailCount /\ InAvail' = InAvail
      /\ Distinct(avail_ring', vq_available_idx', AvailCount')
  BY SameAvail DEF MasterSeesUsed, remoteVars, shared
<1>3. /\ UsedCount' = UsedCount /\ InUsed' = InUsed
      /\ Distinct(used_ring', vq_used_cons_idx', UsedCount')
  BY SameUsed DEF MasterSeesUsed, shared
<1>4. TypeOK'
  BY DEF TypeOK, MasterSeesUsed, remoteVars, shared
<1>5. Conservation'
  BY <1>2, <1>3 DEF Conservation, MasterSeesUsed, remoteVars
<1>6. Counting'
  BY <1>2, <1>3 DEF Counting, MasterSeesUsed, remoteVars
<1>7. MidOperation'
  BY <1>1, <1>2, <1>3 DEF MidOperation, MasterSeesUsed, remoteVars, shared,
                          Filled
<1> QED BY <1>4, <1>5, <1>6, <1>7

\* virtqueue_get_buffer, the descriptor it takes, keeps it.
LEMMA MasterGetBufferStep == ASSUME IInv, MasterGetBuffer PROVE IInv'
<1> DEFINE b == used_ring[Slot(vq_used_cons_idx)]
<1> USE DEF IInv
<1>1. Filled /\ UsedCount > 0
  BY DEF MasterGetBuffer, MidOperation
<1>2. /\ b \in Desc /\ vq_used_cons_idx' \in Idx
      /\ UsedCount' = UsedCount - 1
      /\ InUsed = InUsed' \cup {b} /\ b \notin InUsed'
      /\ Distinct(used_ring', vq_used_cons_idx', UsedCount')
  BY <1>1, ConsumeUsed DEF MasterGetBuffer, shared
<1>3. b \notin master_bufs /\ b \notin InAvail /\ b \notin remote_bufs
  BY <1>2 DEF Conservation
<1>4. /\ AvailCount' = AvailCount /\ InAvail' = InAvail
      /\ Distinct(avail_ring', vq_available_idx', AvailCount')
  BY SameAvail DEF MasterGetBuffer, remoteVars, shared
<1>5. TypeOK'
  BY <1>2 DEF TypeOK, MasterGetBuffer, remoteVars, shared
<1>6. Conservation'
  BY <1>2, <1>3, <1>4 DEF Conservation, MasterGetBuffer, remoteVars
<1>7. Counting'
  BY <1>2, <1>3, <1>4, Numbers, Cards
     DEF Counting, MasterGetBuffer, remoteVars, TypeOK
<1>8. MidOperation'
  BY <1>1, <1>4 DEF MidOperation, MasterGetBuffer, remoteVars, shared, Filled
<1> QED BY <1>5, <1>6, <1>7, <1>8

\* virtqueue_get_available_buffer, its test for an empty ring, keeps it.
LEMMA RemoteSeesAvailStep ==
  ASSUME IInv, NEW c \in RemoteCtx, RemoteSeesAvail(c) PROVE IInv'
<1> USE DEF IInv
<1>1. AvailCount > 0
  <2>1. AvailCount # 0
    BY DistBasic DEF RemoteSeesAvail, TypeOK, AvailCount
  <2> QED BY <2>1, Numbers
<1>2. /\ AvailCount' = AvailCount /\ InAvail' = InAvail
      /\ Distinct(avail_ring', vq_available_idx', AvailCount')
  BY SameAvail DEF RemoteSeesAvail, shared
<1>3. /\ UsedCount' = UsedCount /\ InUsed' = InUsed
      /\ Distinct(used_ring', vq_used_cons_idx', UsedCount')
  BY SameUsed DEF RemoteSeesAvail, masterVars, shared
<1>4. TypeOK'
  BY DEF TypeOK, RemoteSeesAvail, masterVars, shared
<1>5. Conservation'
  BY <1>2, <1>3 DEF Conservation, RemoteSeesAvail, masterVars
<1>6. Counting'
  BY <1>2, <1>3 DEF Counting, RemoteSeesAvail, masterVars
<1>7. MidOperation'
  BY <1>1, <1>2, <1>3 DEF MidOperation, RemoteSeesAvail, masterVars, shared,
                          Filled, TypeOK
<1> QED BY <1>4, <1>5, <1>6, <1>7

\* virtqueue_get_available_buffer, the descriptor it takes, keeps it.
LEMMA RemoteGetAvailableStep ==
  ASSUME IInv, NEW c, RemoteCtx = {c}, RemoteGetAvailable(c) PROVE IInv'
<1> DEFINE b == avail_ring[Slot(vq_available_idx)]
<1> USE DEF IInv
<1>1. Filled /\ AvailCount > 0
  BY DEF RemoteGetAvailable, MidOperation
<1>2. /\ b \in Desc /\ vq_available_idx' \in Idx
      /\ AvailCount' = AvailCount - 1
      /\ InAvail = InAvail' \cup {b} /\ b \notin InAvail'
      /\ Distinct(avail_ring', vq_available_idx', AvailCount')
  BY <1>1, ConsumeAvail DEF RemoteGetAvailable, shared
<1>3. b \notin master_bufs /\ b \notin InUsed /\ b \notin remote_bufs
  BY <1>2 DEF Conservation
<1>4. /\ UsedCount' = UsedCount /\ InUsed' = InUsed
      /\ Distinct(used_ring', vq_used_cons_idx', UsedCount')
  BY SameUsed DEF RemoteGetAvailable, masterVars, shared
<1>5. TypeOK'
  BY <1>2 DEF TypeOK, RemoteGetAvailable, masterVars, shared
<1>6. Conservation'
  BY <1>2, <1>3, <1>4 DEF Conservation, RemoteGetAvailable, masterVars
<1>7. Counting'
  <2>1. Cardinality(remote_bufs \cup {b}) = Cardinality(remote_bufs) + 1
    BY <1>2, <1>3, Cards DEF TypeOK
  <2>2. /\ remote_bufs' = remote_bufs \cup {b} /\ master_bufs' = master_bufs
        /\ vq_desc_head_idx' = vq_desc_head_idx
    BY DEF RemoteGetAvailable, masterVars
  <2> QED BY <1>2, <1>4, <2>1, <2>2, Numbers DEF Counting
<1>8. MidOperation'
  BY <1>1, <1>4 DEF MidOperation, RemoteGetAvailable, masterVars, shared,
                    Filled, TypeOK
<1> QED BY <1>5, <1>6, <1>7, <1>8

\* virtqueue_add_consumed_buffer, its slot, keeps it: this step needs one
\* context, since a second one could be between its slot and its index.
LEMMA RemoteWriteUsedStep ==
  ASSUME IInv, NEW c, RemoteCtx = {c}, NEW b \in Desc, RemoteWriteUsed(c, b)
  PROVE  IInv'
<1> USE DEF IInv
<1>0. b \in remote_bufs
  BY DEF RemoteWriteUsed
<1>1. Filled /\ UsedCount < N
  <2>1. UsedCount < N
    BY <1>0, Room
  <2>2. Filled
    BY <1>0 DEF MidOperation
  <2> QED BY <2>1, <2>2
<1>2. /\ used_ring' \in [Desc -> Desc] /\ used_ring'[Slot(used_idx)] = b
      /\ InFlight(used_ring', used_idx, vq_used_cons_idx) = InUsed
      /\ InFlightDistinct(used_ring', used_idx, vq_used_cons_idx)
  BY <1>1, WriteUsed DEF RemoteWriteUsed
<1>3. /\ UsedCount' = UsedCount /\ InUsed' = InUsed
      /\ Distinct(used_ring', vq_used_cons_idx', UsedCount')
  BY <1>2 DEF RemoteWriteUsed, masterVars, UsedCount, InUsed, InFlight,
              InFlightDistinct
<1>4. /\ AvailCount' = AvailCount /\ InAvail' = InAvail
      /\ Distinct(avail_ring', vq_available_idx', AvailCount')
  BY SameAvail DEF RemoteWriteUsed
<1>5. TypeOK'
  BY <1>2 DEF TypeOK, RemoteWriteUsed, masterVars
<1>6. Conservation'
  BY <1>3, <1>4 DEF Conservation, RemoteWriteUsed, masterVars
<1>7. Counting'
  BY <1>3, <1>4 DEF Counting, RemoteWriteUsed, masterVars
<1>8. MidOperation'
  BY <1>1, <1>2, <1>3, <1>4
     DEF MidOperation, RemoteWriteUsed, masterVars, Filled, TypeOK
<1> QED BY <1>5, <1>6, <1>7, <1>8

\* vq_ring_update_used, its index, keeps it.
LEMMA RemotePublishUsedStep ==
  ASSUME IInv, NEW c, RemoteCtx = {c}, RemotePublishUsed(c) PROVE IInv'
<1> DEFINE b == remote_desc[c]
<1> USE DEF IInv
<1>1. Filled /\ b \in remote_bufs /\ b \in Desc /\ used_ring[Slot(used_idx)] = b
  BY DEF RemotePublishUsed, MidOperation, TypeOK
<1>2. b \notin InUsed /\ b \notin InAvail /\ b \notin master_bufs
  BY <1>1 DEF Conservation
<1>3. UsedCount < N
  BY <1>1, Room
<1>4. /\ used_idx' \in Idx
      /\ UsedCount' = UsedCount + 1 /\ InUsed' = InUsed \cup {b}
      /\ Distinct(used_ring', vq_used_cons_idx', UsedCount')
  <2>1. /\ used_ring' \in [Desc -> Desc] /\ used_ring'[Slot(used_idx)] = b
        /\ InFlight(used_ring', used_idx, vq_used_cons_idx) = InUsed
        /\ InFlightDistinct(used_ring', used_idx, vq_used_cons_idx)
    BY <1>1, Windows DEF RemotePublishUsed, TypeOK, Conservation
  <2> QED BY <1>1, <1>2, <1>3, <2>1, PublishUsed
          DEF RemotePublishUsed, masterVars
<1>5. /\ AvailCount' = AvailCount /\ InAvail' = InAvail
      /\ Distinct(avail_ring', vq_available_idx', AvailCount')
  BY SameAvail DEF RemotePublishUsed
<1>6. TypeOK'
  BY <1>4 DEF TypeOK, RemotePublishUsed, masterVars
<1>7. Conservation'
  BY <1>1, <1>2, <1>4, <1>5 DEF Conservation, RemotePublishUsed, masterVars
<1>8. Counting'
  BY <1>1, <1>4, <1>5, Numbers, Cards
     DEF Counting, RemotePublishUsed, masterVars, TypeOK
<1>9. MidOperation'
  <2>1. UsedCount > 0 => UsedCount' > 0
    BY <1>4, Numbers
  <2> QED BY <1>1, <1>5, <2>1
          DEF MidOperation, RemotePublishUsed, masterVars, Filled, TypeOK
<1> QED BY <1>6, <1>7, <1>8, <1>9

\* Every step of the virtqueue keeps the invariant.
LEMMA StepIInv == ASSUME OneContext, IInv, [Next]_vars PROVE IInv'
<1>1. PICK c : RemoteCtx = {c}
  BY DEF OneContext
<1>2. CASE UNCHANGED vars
  BY <1>2 DEF vars, shared, masterVars, remoteVars, IInv, TypeOK, Conservation,
              Counting, MidOperation, AvailCount, UsedCount, InAvail, InUsed,
              Filled
<1>3. CASE MasterNext
  BY <1>3, FillUsedStep, FillAvailStep, MasterWriteAvailStep,
     MasterPublishAvailStep, MasterSeesUsedStep, MasterGetBufferStep
     DEF MasterNext
<1>4. CASE RemoteNext
  <2>1. TakeCtx \subseteq {c} /\ GiveCtx \subseteq {c}
    BY <1>1 DEF RemoteCtx
  <2> QED BY <1>1, <1>4, <2>1, RemoteSeesAvailStep, RemoteGetAvailableStep,
             RemoteWriteUsedStep, RemotePublishUsedStep DEF RemoteNext
<1> QED BY <1>2, <1>3, <1>4 DEF Next

\* The strengthened invariant holds of every behaviour, for every ring size
\* and index width, when one context of the remote core uses the virtqueue.
THEOREM Inductive == ASSUME OneContext PROVE Spec => []IInv
<1>1. Init => IInv
  BY InitIInv
<1>2. IInv /\ [Next]_vars => IInv'
  BY StepIInv
<1> QED BY <1>1, <1>2, PTL DEF Spec

\* vr->avail, vr->used and the private cursors keep their types; every slot
\* always names a descriptor of the table.
THEOREM TypeCorrect == ASSUME OneContext PROVE Spec => []TypeOK
<1>1. IInv => TypeOK
  BY DEF IInv
<1> QED BY <1>1, Inductive, PTL

\* virtqueue.c never loses, duplicates or misplaces a descriptor, whatever
\* the interleaving of the two cores and however often the indices wrap.
THEOREM Conserved == ASSUME OneContext PROVE Spec => []Conservation
<1>1. IInv => Conservation
  BY DEF IInv
<1> QED BY <1>1, Inductive, PTL

\* The assertion of virtqueue_nused, and its mirror for the avail ring.
THEOREM NeverOverrun == ASSUME OneContext PROVE Spec => []NoOverrun
<1>1. IInv => NoOverrun
  BY Numbers, NAssumption DEF IInv, Counting, NoOverrun
<1> QED BY <1>1, Inductive, PTL

\* vq_ring_update_avail and vq_ring_update_used never store into a slot that
\* the other core has still to read.
THEOREM NeverSlotRace == ASSUME OneContext PROVE Spec => []NoSlotRace
<1>1. ASSUME IInv PROVE NoSlotRace
  <2>1. /\ avail_idx \in Idx /\ vq_available_idx \in Idx
        /\ used_idx \in Idx /\ vq_used_cons_idx \in Idx
    BY <1>1 DEF IInv, TypeOK
  <2>2. ASSUME master_pc = "publish", NEW k \in 0..(AvailCount - 1)
        PROVE  Slot(vq_available_idx + k) # Slot(avail_idx)
    <3>1. AvailCount < N /\ AvailCount \in Nat
      BY <1>1, <2>2, Room, Numbers DEF IInv, TypeOK, MidOperation
    <3>2. Slot(vq_available_idx + AvailCount) = Slot(avail_idx)
      BY <2>1, SlotDist DEF AvailCount
    <3>3. /\ vq_available_idx + k \in Nat /\ vq_available_idx + AvailCount \in Nat
          /\ vq_available_idx + k < vq_available_idx + AvailCount
          /\ (vq_available_idx + AvailCount) - (vq_available_idx + k) < N
      BY <2>1, <3>1, NAssumption DEF Idx
    <3> QED BY <3>2, <3>3, SlotDistinct
  <2>3. ASSUME NEW c \in RemoteCtx, remote_pc[c] = "publish",
               NEW k \in 0..(UsedCount - 1)
        PROVE  Slot(vq_used_cons_idx + k) # Slot(used_idx)
    <3>1. UsedCount < N /\ UsedCount \in Nat
      BY <1>1, <2>3, Room, Numbers DEF IInv, TypeOK, MidOperation
    <3>2. Slot(vq_used_cons_idx + UsedCount) = Slot(used_idx)
      BY <2>1, SlotDist DEF UsedCount
    <3>3. /\ vq_used_cons_idx + k \in Nat /\ vq_used_cons_idx + UsedCount \in Nat
          /\ vq_used_cons_idx + k < vq_used_cons_idx + UsedCount
          /\ (vq_used_cons_idx + UsedCount) - (vq_used_cons_idx + k) < N
      BY <2>1, <3>1, NAssumption DEF Idx
    <3> QED BY <3>2, <3>3, SlotDistinct
  <2> QED BY <2>2, <2>3 DEF NoSlotRace
<1> QED BY <1>1, Inductive, PTL

-----------------------------------------------------------------------------
(* The virtqueue implements the buffer exchange: the entries in flight,    *)
(* oldest first, are its queues.                                           *)

Queue(ring, idx, head) == [k \in 1..Dist(idx, head) |-> ring[Slot(head + k - 1)]]

AvailQueue == Queue(avail_ring, avail_idx, vq_available_idx)
UsedQueue == Queue(used_ring, used_idx, vq_used_cons_idx)

LEMMA QueueSeq ==
  ASSUME NEW ring \in [Desc -> Desc], NEW idx \in Idx, NEW head \in Idx
  PROVE  /\ Dist(idx, head) \in Nat
         /\ Queue(ring, idx, head) \in Seq(Desc)
         /\ Len(Queue(ring, idx, head)) = Dist(idx, head)
         /\ \A k \in 1..Dist(idx, head) :
              Queue(ring, idx, head)[k] = ring[Slot(head + k - 1)]
<1>1. Dist(idx, head) \in Nat
  BY DistBasic
<1>2. ASSUME NEW k \in 1..Dist(idx, head) PROVE ring[Slot(head + k - 1)] \in Desc
  <2>1. head + k - 1 \in Nat
    BY <1>1 DEF Idx
  <2> QED BY <2>1, SlotInDesc
<1>3. Queue(ring, idx, head) \in [1..Dist(idx, head) -> Desc]
  BY <1>2 DEF Queue
<1>4. \A n \in Nat : \A f \in [1..n -> Desc] : f \in Seq(Desc) /\ Len(f) = n
  OBVIOUS
<1> QED BY <1>1, <1>3, <1>4 DEF Queue

\* Writing the next slot leaves the queue alone.
LEMMA QueueWrite ==
  ASSUME NEW ring \in [Desc -> Desc], NEW idx \in Idx, NEW head \in Idx,
         Dist(idx, head) < N, NEW r \in [Desc -> Desc],
         \A s \in Desc : s # Slot(idx) => r[s] = ring[s]
  PROVE  Queue(r, idx, head) = Queue(ring, idx, head)
<1> DEFINE n == Dist(idx, head)
<1>1. n \in Nat /\ Slot(head + n) = Slot(idx)
  BY DistBasic, SlotDist
<1>2. ASSUME NEW k \in 1..n PROVE r[Slot(head + k - 1)] = ring[Slot(head + k - 1)]
  <2>1. /\ head + k - 1 \in Nat /\ head + n \in Nat
        /\ head + k - 1 < head + n /\ (head + n) - (head + k - 1) <= n
    BY <1>1 DEF Idx
  <2>2. (head + n) - (head + k - 1) < N
    BY <1>1, <2>1, NAssumption DEF Idx
  <2>3. Slot(head + k - 1) # Slot(head + n)
    BY <2>1, <2>2, SlotDistinct
  <2> QED BY <1>1, <2>1, <2>3, SlotInDesc
<1> QED BY <1>2 DEF Queue

\* Publishing appends the entry that was written.
LEMMA QueuePublish ==
  ASSUME NEW ring \in [Desc -> Desc], NEW idx \in Idx, NEW head \in Idx,
         Dist(idx, head) < N
  PROVE  Queue(ring, Inc(idx), head) = Append(Queue(ring, idx, head), ring[Slot(idx)])
<1> DEFINE n == Dist(idx, head)
           q == Queue(ring, idx, head)
           t == Queue(ring, Inc(idx), head)
           b == ring[Slot(idx)]
<1>1. n \in Nat /\ Inc(idx) \in Idx /\ Slot(head + n) = Slot(idx) /\ b \in Desc
  BY DistBasic, SlotInc, SlotDist, SlotInDesc DEF Idx
<1>2. Dist(Inc(idx), head) = n + 1
  BY Publish
<1>3. /\ q \in Seq(Desc) /\ Len(q) = n
      /\ \A k \in 1..n : q[k] = ring[Slot(head + k - 1)]
  BY QueueSeq
<1>4. /\ t \in Seq(Desc) /\ Len(t) = n + 1
      /\ \A k \in 1..(n + 1) : t[k] = ring[Slot(head + k - 1)]
  BY <1>1, <1>2, QueueSeq
<1> HIDE DEF q, t, b
<1>5. Append(q, b) \in Seq(Desc) /\ Len(Append(q, b)) = n + 1
      /\ Append(q, b)[n + 1] = b /\ \A k \in 1..n : Append(q, b)[k] = q[k]
  BY <1>1, <1>3, AppendProperties
<1>6. ASSUME NEW k \in 1..(n + 1) PROVE t[k] = Append(q, b)[k]
  <2>1. CASE k = n + 1
    <3>1. head + k - 1 = head + n
      BY <1>1, <2>1 DEF Idx
    <3> QED BY <1>1, <1>4, <1>5, <2>1, <3>1 DEF b
  <2>2. CASE k \in 1..n
    BY <1>3, <1>4, <1>5, <2>2
  <2>3. k = n + 1 \/ k \in 1..n
    BY <1>1
  <2> QED BY <2>1, <2>2, <2>3
<1>7. t = Append(q, b)
  BY <1>1, <1>4, <1>5, <1>6, SeqEqual
<1> QED BY <1>7 DEF q, t, b

\* Taking an entry takes the oldest.
LEMMA QueueConsume ==
  ASSUME NEW ring \in [Desc -> Desc], NEW idx \in Idx, NEW head \in Idx,
         Dist(idx, head) > 0
  PROVE  /\ Queue(ring, idx, head) # <<>>
         /\ Head(Queue(ring, idx, head)) = ring[Slot(head)]
         /\ Queue(ring, idx, Inc(head)) = Tail(Queue(ring, idx, head))
<1> DEFINE n == Dist(idx, head)
           q == Queue(ring, idx, head)
           t == Queue(ring, idx, Inc(head))
<1>1. n \in Nat \ {0} /\ Dist(idx, Inc(head)) = n - 1 /\ Inc(head) \in Idx
  BY DistBasic, SlotInc
<1>2. /\ q \in Seq(Desc) /\ Len(q) = n
      /\ \A k \in 1..n : q[k] = ring[Slot(head + k - 1)]
  BY QueueSeq
<1>3. /\ t \in Seq(Desc) /\ Len(t) = n - 1
      /\ \A k \in 1..(n - 1) : t[k] = ring[Slot(Inc(head) + k - 1)]
  <2>1. \A h \in Idx : /\ Queue(ring, idx, h) \in Seq(Desc)
                        /\ Len(Queue(ring, idx, h)) = Dist(idx, h)
                        /\ \A k \in 1..Dist(idx, h) :
                             Queue(ring, idx, h)[k] = ring[Slot(h + k - 1)]
    BY QueueSeq
  <2> QED BY <1>1, <2>1
<1> HIDE DEF q, t
<1>4. q # <<>>
  BY <1>1, <1>2
<1>5. Head(q) = ring[Slot(head)]
  <2>1. 1 \in 1..n /\ head + 1 - 1 = head
    BY <1>1 DEF Idx
  <2> QED BY <1>2, <1>4, <2>1, HeadTailProperties
<1>6. Tail(q) \in Seq(Desc) /\ Len(Tail(q)) = n - 1 /\ \A k \in 1..(n - 1) : Tail(q)[k] = q[k + 1]
  BY <1>2, <1>4, HeadTailProperties
<1>7. ASSUME NEW k \in 1..(n - 1) PROVE t[k] = Tail(q)[k]
  <2>1. k - 1 \in Nat /\ k + 1 \in 1..n
    BY <1>1
  <2>2. Slot(Inc(head) + (k - 1)) = Slot(head + 1 + (k - 1))
    BY <2>1, SlotInc
  <2>3. Inc(head) + (k - 1) = Inc(head) + k - 1 /\ head + 1 + (k - 1) = head + (k + 1) - 1
    BY <1>1 DEF Idx
  <2> QED BY <1>2, <1>3, <1>6, <2>1, <2>2, <2>3
<1>8. t = Tail(q)
  BY <1>1, <1>3, <1>6, <1>7, SeqEqual
<1> QED BY <1>4, <1>5, <1>8 DEF q, t

\* A slot is written and published; the two may be one step, as in the fill
\* loops, or two.
LEMMA AvailHandedOver ==
  ASSUME IInv, AvailCount < N, NEW b \in Desc,
         avail_ring' = [avail_ring EXCEPT ![Slot(avail_idx)] = b],
         vq_available_idx' = vq_available_idx
  PROVE  /\ avail_idx' = avail_idx => AvailQueue' = AvailQueue
         /\ avail_idx' = Inc(avail_idx) => AvailQueue' = Append(AvailQueue, b)
<1>1. /\ avail_idx \in Idx /\ vq_available_idx \in Idx /\ avail_ring \in [Desc -> Desc]
      /\ Dist(avail_idx, vq_available_idx) < N /\ Slot(avail_idx) \in Desc
  BY SlotInDesc DEF IInv, TypeOK, AvailCount, Idx
<1> DEFINE r == [avail_ring EXCEPT ![Slot(avail_idx)] = b]
<1>2. r \in [Desc -> Desc] /\ r[Slot(avail_idx)] = b /\ \A s \in Desc : s # Slot(avail_idx) => r[s] = avail_ring[s]
  BY <1>1
<1> HIDE DEF r
<1>3. Queue(r, avail_idx, vq_available_idx) = AvailQueue
  BY <1>1, <1>2, QueueWrite DEF AvailQueue
<1>4. Queue(r, Inc(avail_idx), vq_available_idx) = Append(AvailQueue, b)
  BY <1>1, <1>2, <1>3, QueuePublish
<1>5. avail_ring' = r
  BY DEF r
<1>6. AvailQueue' = Queue(r, avail_idx', vq_available_idx)
  BY <1>5 DEF AvailQueue, Queue
<1> QED BY <1>3, <1>4, <1>6

LEMMA UsedHandedOver ==
  ASSUME IInv, UsedCount < N, NEW b \in Desc,
         used_ring' = [used_ring EXCEPT ![Slot(used_idx)] = b],
         vq_used_cons_idx' = vq_used_cons_idx
  PROVE  /\ used_idx' = used_idx => UsedQueue' = UsedQueue
         /\ used_idx' = Inc(used_idx) => UsedQueue' = Append(UsedQueue, b)
<1>1. /\ used_idx \in Idx /\ vq_used_cons_idx \in Idx /\ used_ring \in [Desc -> Desc]
      /\ Dist(used_idx, vq_used_cons_idx) < N /\ Slot(used_idx) \in Desc
  BY SlotInDesc DEF IInv, TypeOK, UsedCount, Idx
<1> DEFINE r == [used_ring EXCEPT ![Slot(used_idx)] = b]
<1>2. r \in [Desc -> Desc] /\ r[Slot(used_idx)] = b /\ \A s \in Desc : s # Slot(used_idx) => r[s] = used_ring[s]
  BY <1>1
<1> HIDE DEF r
<1>3. Queue(r, used_idx, vq_used_cons_idx) = UsedQueue
  BY <1>1, <1>2, QueueWrite DEF UsedQueue
<1>4. Queue(r, Inc(used_idx), vq_used_cons_idx) = Append(UsedQueue, b)
  BY <1>1, <1>2, <1>3, QueuePublish
<1>5. used_ring' = r
  BY DEF r
<1>6. UsedQueue' = Queue(r, used_idx', vq_used_cons_idx)
  BY <1>5 DEF UsedQueue, Queue
<1> QED BY <1>3, <1>4, <1>6

\* The two stores of one turn of a fill loop.
LEMMA FillImplements ==
  ASSUME IInv, FillUsedBuffer \/ FillAvailBuffer
  PROVE  [Exchange!Next]_(Exchange!vars)
<1> DEFINE b == vq_desc_head_idx
<1>1. b \in Desc /\ b \in master_bufs
  <2>1. b \in 0..N /\ b < N
    BY DEF FillUsedBuffer, FillAvailBuffer, IInv, TypeOK
  <2>2. b \in Desc /\ ~Filled /\ b >= vq_desc_head_idx
    BY <2>1, NAssumption DEF Filled, Desc
  <2> QED BY <2>2, Zenon DEF IInv, MidOperation
<1>2. AvailCount < N /\ UsedCount < N
  BY <1>1, Room
<1>3. CASE FillUsedBuffer
  <2>1. UsedQueue' = Append(UsedQueue, b)
    BY <1>1, <1>2, <1>3, UsedHandedOver DEF FillUsedBuffer
  <2>2. AvailQueue' = AvailQueue /\ remote_bufs' = remote_bufs /\ master_bufs' = master_bufs \ {b}
    BY <1>3 DEF FillUsedBuffer, remoteVars, AvailQueue, Queue
  <2>3. Exchange!Stock(b)
    BY <1>1, <2>1, <2>2 DEF Exchange!Stock, UsedQueue, AvailQueue, Queue, AvailCount, UsedCount
  <2> QED BY <1>1, <2>3 DEF Exchange!Next
<1>4. CASE FillAvailBuffer
  <2>1. AvailQueue' = Append(AvailQueue, b)
    BY <1>1, <1>2, <1>4, AvailHandedOver DEF FillAvailBuffer, remoteVars
  <2>2. UsedQueue' = UsedQueue /\ remote_bufs' = remote_bufs /\ master_bufs' = master_bufs \ {b}
    BY <1>4 DEF FillAvailBuffer, remoteVars, UsedQueue, Queue
  <2>3. Exchange!Post(b)
    BY <1>1, <2>1, <2>2 DEF Exchange!Post, UsedQueue, AvailQueue, Queue, AvailCount, UsedCount
  <2> QED BY <1>1, <2>3 DEF Exchange!Next
<1> QED BY <1>3, <1>4

\* The other steps of the master: a store or a test is invisible, the store
\* of the index hands over, the read of the slot takes the oldest.
LEMMA MasterImplements ==
  ASSUME IInv, MasterNext
  PROVE  [Exchange!Next]_(Exchange!vars)
<1>1. CASE FillUsedBuffer \/ FillAvailBuffer
  BY <1>1, FillImplements
<1>2. CASE \E b \in Desc : MasterWriteAvail(b)
  <2>1. PICK b \in Desc : MasterWriteAvail(b)
    BY <1>2
  <2>2. AvailCount < N
    BY <2>1, Room DEF MasterWriteAvail
  <2>3. AvailQueue' = AvailQueue
    BY <2>1, <2>2, AvailHandedOver DEF MasterWriteAvail, remoteVars
  <2>4. UsedQueue' = UsedQueue /\ UNCHANGED <<master_bufs, remote_bufs>>
    BY <2>1 DEF MasterWriteAvail, remoteVars, UsedQueue, Queue
  <2>5. UNCHANGED Exchange!vars
    BY <2>3, <2>4 DEF Exchange!vars, UsedQueue, AvailQueue, Queue, AvailCount, UsedCount
  <2> QED BY <2>5
<1>3. CASE MasterPublishAvail
  <2>1. /\ master_desc \in master_bufs /\ master_desc \in Desc
        /\ avail_ring[Slot(avail_idx)] = master_desc
    BY <1>3 DEF MasterPublishAvail, IInv, MidOperation, TypeOK
  <2>2. AvailCount < N
    BY <2>1, Room
  <2>3. /\ avail_idx \in Idx /\ vq_available_idx \in Idx /\ avail_ring \in [Desc -> Desc]
        /\ Dist(avail_idx, vq_available_idx) < N
    BY <2>2 DEF IInv, TypeOK, AvailCount
  <2>4. Queue(avail_ring, Inc(avail_idx), vq_available_idx) = Append(AvailQueue, master_desc)
    BY <2>1, <2>3, QueuePublish DEF AvailQueue
  <2>5. AvailQueue' = Append(AvailQueue, master_desc)
    BY <1>3, <2>4 DEF MasterPublishAvail, remoteVars, AvailQueue, Queue
  <2>6. /\ UsedQueue' = UsedQueue /\ remote_bufs' = remote_bufs
        /\ master_bufs' = master_bufs \ {master_desc}
    BY <1>3 DEF MasterPublishAvail, remoteVars, UsedQueue, Queue
  <2>7. Exchange!Post(master_desc)
    BY <2>1, <2>5, <2>6 DEF Exchange!Post, UsedQueue, AvailQueue, Queue, AvailCount, UsedCount
  <2> QED BY <2>1, <2>7 DEF Exchange!Next
<1>4. CASE MasterSeesUsed
  <2>1. UNCHANGED Exchange!vars
    BY <1>4 DEF MasterSeesUsed, shared, remoteVars, Exchange!vars, AvailCount, UsedCount
  <2> QED BY <2>1
<1>5. CASE MasterGetBuffer
  <2>1. UsedCount > 0
    BY <1>5 DEF MasterGetBuffer, IInv, MidOperation
  <2>2. /\ used_idx \in Idx /\ vq_used_cons_idx \in Idx /\ used_ring \in [Desc -> Desc]
        /\ Dist(used_idx, vq_used_cons_idx) > 0
    BY <2>1 DEF IInv, TypeOK, UsedCount
  <2>3. /\ UsedQueue # <<>> /\ Head(UsedQueue) = used_ring[Slot(vq_used_cons_idx)]
        /\ Queue(used_ring, used_idx, Inc(vq_used_cons_idx)) = Tail(UsedQueue)
    BY <2>2, QueueConsume DEF UsedQueue
  <2>4. UsedQueue' = Tail(UsedQueue) /\ master_bufs' = master_bufs \cup {Head(UsedQueue)}
    BY <1>5, <2>3 DEF MasterGetBuffer, shared, UsedQueue, Queue
  <2>5. AvailQueue' = AvailQueue /\ remote_bufs' = remote_bufs
    BY <1>5 DEF MasterGetBuffer, shared, remoteVars, AvailQueue, Queue
  <2>6. Exchange!Reclaim
    BY <2>3, <2>4, <2>5 DEF Exchange!Reclaim, UsedQueue, AvailQueue, Queue, AvailCount, UsedCount
  <2> QED BY <2>6 DEF Exchange!Next
<1> QED BY <1>1, <1>2, <1>3, <1>4, <1>5 DEF MasterNext

\* The same for the steps of the remote.
LEMMA RemoteImplements ==
  ASSUME IInv, RemoteNext
  PROVE  [Exchange!Next]_(Exchange!vars)
<1>1. ASSUME NEW c \in TakeCtx, RemoteSeesAvail(c) PROVE [Exchange!Next]_(Exchange!vars)
  <2>1. UNCHANGED Exchange!vars
    BY <1>1 DEF RemoteSeesAvail, shared, masterVars, Exchange!vars, AvailCount, UsedCount
  <2> QED BY <2>1
<1>2. ASSUME NEW c \in TakeCtx, RemoteGetAvailable(c) PROVE [Exchange!Next]_(Exchange!vars)
  <2>1. AvailCount > 0
    BY <1>2 DEF RemoteGetAvailable, IInv, MidOperation, RemoteCtx
  <2>2. /\ avail_idx \in Idx /\ vq_available_idx \in Idx /\ avail_ring \in [Desc -> Desc]
        /\ Dist(avail_idx, vq_available_idx) > 0
    BY <2>1 DEF IInv, TypeOK, AvailCount
  <2>3. /\ AvailQueue # <<>> /\ Head(AvailQueue) = avail_ring[Slot(vq_available_idx)]
        /\ Queue(avail_ring, avail_idx, Inc(vq_available_idx)) = Tail(AvailQueue)
    BY <2>2, QueueConsume DEF AvailQueue
  <2>4. AvailQueue' = Tail(AvailQueue) /\ remote_bufs' = remote_bufs \cup {Head(AvailQueue)}
    BY <1>2, <2>3 DEF RemoteGetAvailable, shared, AvailQueue, Queue
  <2>5. UsedQueue' = UsedQueue /\ master_bufs' = master_bufs
    BY <1>2 DEF RemoteGetAvailable, shared, masterVars, UsedQueue, Queue
  <2>6. Exchange!Take
    BY <2>3, <2>4, <2>5 DEF Exchange!Take, UsedQueue, AvailQueue, Queue, AvailCount, UsedCount
  <2> QED BY <2>6 DEF Exchange!Next
<1>3. ASSUME NEW c \in GiveCtx, NEW b \in Desc, RemoteWriteUsed(c, b)
      PROVE  [Exchange!Next]_(Exchange!vars)
  <2>1. UsedCount < N
    BY <1>3, Room DEF RemoteWriteUsed
  <2>2. UsedQueue' = UsedQueue
    BY <1>3, <2>1, UsedHandedOver DEF RemoteWriteUsed, masterVars
  <2>3. AvailQueue' = AvailQueue /\ UNCHANGED <<master_bufs, remote_bufs>>
    BY <1>3 DEF RemoteWriteUsed, masterVars, AvailQueue, Queue
  <2>4. UNCHANGED Exchange!vars
    BY <2>2, <2>3 DEF Exchange!vars, UsedQueue, AvailQueue, Queue, AvailCount, UsedCount
  <2> QED BY <2>4
<1>4. ASSUME NEW c \in GiveCtx, RemotePublishUsed(c) PROVE [Exchange!Next]_(Exchange!vars)
  <2> DEFINE b == remote_desc[c]
  <2>1. b \in remote_bufs /\ b \in Desc /\ used_ring[Slot(used_idx)] = b
    BY <1>4 DEF RemotePublishUsed, IInv, MidOperation, TypeOK, RemoteCtx
  <2>2. UsedCount < N
    BY <2>1, Room
  <2>3. /\ used_idx \in Idx /\ vq_used_cons_idx \in Idx /\ used_ring \in [Desc -> Desc]
        /\ Dist(used_idx, vq_used_cons_idx) < N
    BY <2>2 DEF IInv, TypeOK, UsedCount
  <2>4. Queue(used_ring, Inc(used_idx), vq_used_cons_idx) = Append(UsedQueue, b)
    BY <2>1, <2>3, QueuePublish DEF UsedQueue
  <2>5. UsedQueue' = Append(UsedQueue, b)
    BY <1>4, <2>4 DEF RemotePublishUsed, masterVars, UsedQueue, Queue
  <2>6. /\ AvailQueue' = AvailQueue /\ master_bufs' = master_bufs
        /\ remote_bufs' = remote_bufs \ {b}
    BY <1>4 DEF RemotePublishUsed, masterVars, AvailQueue, Queue
  <2>7. Exchange!Return(b)
    BY <2>1, <2>5, <2>6 DEF Exchange!Return, UsedQueue, AvailQueue, Queue, AvailCount, UsedCount
  <2> QED BY <2>1, <2>7 DEF Exchange!Next
<1> QED BY <1>1, <1>2, <1>3, <1>4 DEF RemoteNext

\* virtqueue.c implements the buffer exchange, for every ring size and index
\* width: whatever the interleaving of the stores and the tests of the two
\* cores, buffers come out of each ring in the order they went in.
THEOREM Implements == ASSUME OneContext PROVE Spec => ImplementsExchange
<1>1. Init => Exchange!Init
  <2> SUFFICES ASSUME Init PROVE Exchange!Init
    OBVIOUS
  <2>1. 0 \in Idx
    BY IdxModAssumption, NAssumption, Laps DEF Idx
  <2>2. AvailCount = 0 /\ UsedCount = 0
    BY <2>1, DistBasic DEF Init, AvailCount, UsedCount
  <2>3. [k \in 1..AvailCount |-> avail_ring[Slot(vq_available_idx + k - 1)]] = <<>>
        /\ [k \in 1..UsedCount |-> used_ring[Slot(vq_used_cons_idx + k - 1)]] = <<>>
    BY <2>2
  <2> QED BY <2>3 DEF Init, Exchange!Init
<1>2. IInv /\ [Next]_vars => [Exchange!Next]_(Exchange!vars)
  <2> SUFFICES ASSUME IInv, [Next]_vars PROVE [Exchange!Next]_(Exchange!vars)
    OBVIOUS
  <2>1. CASE UNCHANGED vars
    <3>1. UNCHANGED Exchange!vars
      BY <2>1 DEF vars, shared, masterVars, remoteVars, Exchange!vars, AvailCount, UsedCount
    <3> QED BY <3>1
  <2> QED BY <2>1, MasterImplements, RemoteImplements DEF Next
<1> QED BY <1>1, <1>2, Inductive, PTL DEF Spec, ImplementsExchange, Exchange!Spec
=============================================================================
