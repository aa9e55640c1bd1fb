------------------------------ MODULE Virtqueue -----------------------------
(***************************************************************************)
(* One virtqueue of middleware/rpmsg-lite/lib/virtio/virtqueue.c: a vring  *)
(* in shared memory (the avail ring, written by the master only, and the   *)
(* used ring, written by the remote once the master has stocked it) and    *)
(* the private cursors of the two cores.                                   *)
(*                                                                         *)
(* The two cores run concurrently.  A publication is two stores with a     *)
(* write barrier between them (the ring slot, then the free-running 16-bit *)
(* index); a reception is a comparison of indices followed by the read of  *)
(* the slot.  Every one of those steps is an action here, so they          *)
(* interleave freely.  On the remote core the virtqueue may be used from   *)
(* the mailbox interrupt and from the main loop; env_lock_mutex does       *)
(* nothing in the bare-metal environment (rpmsg_env_bm.c), so the          *)
(* interrupt preempts the main loop between any two steps.                 *)
(*                                                                         *)
(* A descriptor stands for its buffer: virtqueue_fill_*_buffers bind       *)
(* descriptor i to buffer i for good.                                      *)
(***************************************************************************)
EXTENDS Integers, Sequences, FiniteSets

CONSTANTS N,          \* vq_nentries, RL_BUFFER_COUNT in rpmsg_config.h
          IdxMod,     \* number of values of a ring index, 2^16 in the code
          StockUsed,  \* TRUE: filled by virtqueue_fill_used_buffers (the
                      \* master's transmit queue); FALSE: by
                      \* virtqueue_fill_avail_buffers (its receive queue)
          TakeCtx,    \* contexts of the remote core that take buffers out of
          GiveCtx     \* the virtqueue, and that give them back

\* The indices wrap at a multiple of the ring size: N is a power of two
\* (virtqueue_create_static checks it) no larger than 2^15.
ASSUME NAssumption == N \in Nat \ {0}
ASSUME IdxModAssumption == /\ IdxMod \in Nat
                           /\ \E k \in 2..IdxMod : IdxMod = k * N
ASSUME StockUsedAssumption == StockUsed \in BOOLEAN
ASSUME CtxAssumption == TakeCtx \cup GiveCtx \subseteq {"isr", "thread"}

RemoteCtx == TakeCtx \cup GiveCtx

Desc == 0..(N - 1)
NoDesc == N              \* virtqueue_get_* returned VQ_NULL: no descriptor
Idx == 0..(IdxMod - 1)

\* A broken Inc, for checking that the properties notice: it does not wrap.
IncNoWrap(i) == i + 1

\* uint16_t arithmetic on the free-running indices, and the mask that makes
\* a ring slot of one.
Inc(i) == (i + 1) % IdxMod
Dist(i, j) == (i - j) % IdxMod
Slot(i) == i % N

VARIABLES
    avail_idx, avail_ring,   \* shared: vr->avail
    used_idx, used_ring,     \* shared: vr->used
    vq_available_idx,        \* remote's cursor into the avail ring
    vq_used_cons_idx,        \* master's cursor into the used ring
    vq_desc_head_idx,        \* master: buffers placed by the fill loop
    master_bufs,             \* descriptors whose index the master holds
    remote_bufs,             \* descriptors whose index the remote holds
    master_pc, master_desc,  \* where the master is in an operation
    remote_pc, remote_desc   \* the same for each context of the remote

shared == <<avail_idx, avail_ring, used_idx, used_ring>>
masterVars == <<vq_used_cons_idx, vq_desc_head_idx, master_bufs,
                master_pc, master_desc>>
remoteVars == <<vq_available_idx, remote_bufs, remote_pc, remote_desc>>
vars == <<shared, masterVars, remoteVars>>

\* rpmsg_lite_master_init clears the ring memory; virtqueue_create_static
\* clears the control block on both cores.
Init == /\ avail_idx = 0 /\ avail_ring = [s \in Desc |-> 0]
        /\ used_idx = 0 /\ used_ring = [s \in Desc |-> 0]
        /\ vq_available_idx = 0
        /\ vq_used_cons_idx = 0
        /\ vq_desc_head_idx = 0
        /\ master_bufs = Desc
        /\ remote_bufs = {}
        /\ master_pc = "idle" /\ master_desc = NoDesc
        /\ remote_pc = [c \in RemoteCtx |-> "idle"]
        /\ remote_desc = [c \in RemoteCtx |-> NoDesc]

-----------------------------------------------------------------------------
(* Broken variants of the definitions below, for checking that the         *)
(* properties notice; the specification does not use them.                 *)

\* MasterGetBuffer: the cursor does not move; the slot is read after it moved.
MasterGetBufferStuck ==
    /\ master_pc = "take"
    /\ master_bufs' = master_bufs \cup {used_ring[Slot(vq_used_cons_idx)]}
    /\ master_pc' = "idle"
    /\ UNCHANGED <<shared, vq_used_cons_idx, vq_desc_head_idx, master_desc,
                   remoteVars>>

MasterGetBufferLate ==
    /\ master_pc = "take"
    /\ master_bufs' = master_bufs \cup {used_ring[Slot(vq_used_cons_idx + 1)]}
    /\ vq_used_cons_idx' = Inc(vq_used_cons_idx)
    /\ master_pc' = "idle"
    /\ UNCHANGED <<shared, vq_desc_head_idx, master_desc, remoteVars>>

-----------------------------------------------------------------------------
(* The master.                                                             *)

\* One turn of the fill loop of rpmsg_lite_master_init.  The remote does not
\* look at the ring before the kick that ends the initialisation, so the two
\* stores of a turn are one step.
FillUsedBuffer ==
    /\ StockUsed
    /\ vq_desc_head_idx < N
    /\ used_ring' = [used_ring EXCEPT ![Slot(used_idx)] = vq_desc_head_idx]
    /\ used_idx' = Inc(used_idx)
    /\ master_bufs' = master_bufs \ {vq_desc_head_idx}
    /\ vq_desc_head_idx' = vq_desc_head_idx + 1
    /\ UNCHANGED <<avail_idx, avail_ring, vq_used_cons_idx, master_pc,
                   master_desc, remoteVars>>

FillAvailBuffer ==
    /\ ~StockUsed
    /\ vq_desc_head_idx < N
    /\ avail_ring' = [avail_ring EXCEPT ![Slot(avail_idx)] = vq_desc_head_idx]
    /\ avail_idx' = Inc(avail_idx)
    /\ master_bufs' = master_bufs \ {vq_desc_head_idx}
    /\ vq_desc_head_idx' = vq_desc_head_idx + 1
    /\ UNCHANGED <<used_idx, used_ring, vq_used_cons_idx, master_pc,
                   master_desc, remoteVars>>

Filled == vq_desc_head_idx = N

\* virtqueue_add_buffer / vq_ring_update_avail: the slot, then the index.
MasterWriteAvail(b) ==
    /\ Filled
    /\ master_pc = "idle"
    /\ b \in master_bufs
    /\ avail_ring' = [avail_ring EXCEPT ![Slot(avail_idx)] = b]
    /\ master_pc' = "publish"
    /\ master_desc' = b
    /\ UNCHANGED <<avail_idx, used_idx, used_ring, vq_used_cons_idx,
                   vq_desc_head_idx, master_bufs, remoteVars>>

MasterPublishAvail ==
    /\ master_pc = "publish"
    /\ avail_idx' = Inc(avail_idx)
    /\ master_bufs' = master_bufs \ {master_desc}
    /\ master_pc' = "idle"
    /\ master_desc' = NoDesc
    /\ UNCHANGED <<avail_ring, used_idx, used_ring, vq_used_cons_idx,
                   vq_desc_head_idx, remoteVars>>

\* virtqueue_get_buffer: the test for an empty used ring, then the slot.
MasterSeesUsed ==
    /\ Filled
    /\ master_pc = "idle"
    /\ vq_used_cons_idx # used_idx
    /\ master_pc' = "take"
    /\ UNCHANGED <<shared, vq_used_cons_idx, vq_desc_head_idx, master_bufs,
                   master_desc, remoteVars>>

MasterGetBuffer ==
    /\ master_pc = "take"
    /\ master_bufs' = master_bufs \cup {used_ring[Slot(vq_used_cons_idx)]}
    /\ vq_used_cons_idx' = Inc(vq_used_cons_idx)
    /\ master_pc' = "idle"
    /\ UNCHANGED <<shared, vq_desc_head_idx, master_desc, remoteVars>>

-----------------------------------------------------------------------------
(* The remote.                                                             *)

\* The main loop runs only while no interrupt handler is active on its core;
\* a handler runs to its end.
Runs(c) == c = "thread" /\ "isr" \in RemoteCtx => remote_pc["isr"] = "idle"

\* virtqueue_get_available_buffer: the test for an empty ring, then the slot.
RemoteSeesAvail(c) ==
    /\ Filled
    /\ Runs(c)
    /\ remote_pc[c] = "idle"
    /\ vq_available_idx # avail_idx
    /\ remote_pc' = [remote_pc EXCEPT ![c] = "take"]
    /\ UNCHANGED <<shared, masterVars, vq_available_idx, remote_bufs,
                   remote_desc>>

RemoteGetAvailable(c) ==
    /\ Runs(c)
    /\ remote_pc[c] = "take"
    /\ remote_bufs' = remote_bufs \cup {avail_ring[Slot(vq_available_idx)]}
    /\ vq_available_idx' = Inc(vq_available_idx)
    /\ remote_pc' = [remote_pc EXCEPT ![c] = "idle"]
    /\ UNCHANGED <<shared, masterVars, remote_desc>>

\* virtqueue_add_consumed_buffer / vq_ring_update_used.  No context gives
\* back a buffer that another context of its core is giving back.
RemoteWriteUsed(c, b) ==
    /\ Runs(c)
    /\ remote_pc[c] = "idle"
    /\ b \in remote_bufs
    /\ \A d \in RemoteCtx : remote_desc[d] # b
    /\ used_ring' = [used_ring EXCEPT ![Slot(used_idx)] = b]
    /\ remote_pc' = [remote_pc EXCEPT ![c] = "publish"]
    /\ remote_desc' = [remote_desc EXCEPT ![c] = b]
    /\ UNCHANGED <<avail_idx, avail_ring, used_idx, masterVars,
                   vq_available_idx, remote_bufs>>

RemotePublishUsed(c) ==
    /\ Runs(c)
    /\ remote_pc[c] = "publish"
    /\ used_idx' = Inc(used_idx)
    /\ remote_bufs' = remote_bufs \ {remote_desc[c]}
    /\ remote_pc' = [remote_pc EXCEPT ![c] = "idle"]
    /\ remote_desc' = [remote_desc EXCEPT ![c] = NoDesc]
    /\ UNCHANGED <<avail_idx, avail_ring, used_ring, masterVars,
                   vq_available_idx>>

-----------------------------------------------------------------------------
MasterNext == \/ FillUsedBuffer
              \/ FillAvailBuffer
              \/ \E b \in Desc : MasterWriteAvail(b)
              \/ MasterPublishAvail
              \/ MasterSeesUsed
              \/ MasterGetBuffer

RemoteNext == \/ \E c \in TakeCtx : RemoteSeesAvail(c) \/ RemoteGetAvailable(c)
              \/ \E c \in GiveCtx : \/ \E b \in Desc : RemoteWriteUsed(c, b)
                                     \/ RemotePublishUsed(c)

Next == MasterNext \/ RemoteNext

Spec == Init /\ [][Next]_vars

-----------------------------------------------------------------------------
(* What is in flight.                                                      *)

AvailCount == Dist(avail_idx, vq_available_idx)
UsedCount == Dist(used_idx, vq_used_cons_idx)   \* virtqueue_nused

\* The n entries of a ring from index head on, and that they are distinct.
Window(ring, head, n) == {ring[Slot(head + k)] : k \in 0..(n - 1)}
Distinct(ring, head, n) ==
    \A j, k \in 0..(n - 1) : ring[Slot(head + j)] = ring[Slot(head + k)] => j = k

InAvail == Window(avail_ring, vq_available_idx, AvailCount)
InUsed == Window(used_ring, vq_used_cons_idx, UsedCount)

\* The variables hold values of the types of virtqueue.h and virtio_ring.h,
\* a ring slot always names a descriptor of the table, and the cursors of an
\* operation under way are in one of its three places.
TypeOK == /\ avail_idx \in Idx /\ avail_ring \in [Desc -> Desc]
          /\ used_idx \in Idx /\ used_ring \in [Desc -> Desc]
          /\ vq_available_idx \in Idx
          /\ vq_used_cons_idx \in Idx
          /\ vq_desc_head_idx \in 0..N
          /\ master_bufs \in SUBSET Desc
          /\ remote_bufs \in SUBSET Desc
          /\ master_pc \in {"idle", "publish", "take"}
          /\ master_desc \in Desc \cup {NoDesc}
          /\ remote_pc \in [RemoteCtx -> {"idle", "publish", "take"}]
          /\ remote_desc \in [RemoteCtx -> Desc \cup {NoDesc}]

\* Conservation (virtqueue_add_buffer, virtqueue_add_consumed_buffer and the
\* two get functions): the in-flight parts of the two rings and the buffers
\* the two cores hold are disjoint, no ring names a descriptor twice, and
\* together they account for every descriptor: none leaks, none is
\* delivered twice.
Conservation ==
    /\ InAvail \cap InUsed = {}
    /\ InAvail \cap master_bufs = {} /\ InAvail \cap remote_bufs = {}
    /\ InUsed \cap master_bufs = {} /\ InUsed \cap remote_bufs = {}
    /\ master_bufs \cap remote_bufs = {}
    /\ InAvail \cup InUsed \cup master_bufs \cup remote_bufs = Desc
    /\ Distinct(avail_ring, vq_available_idx, AvailCount)
    /\ Distinct(used_ring, vq_used_cons_idx, UsedCount)

\* The assertion of virtqueue_nused ("used more than available", its
\* VQASSERT is compiled out) and its mirror for the avail ring: whatever
\* the interleaving and the wrap of the 16-bit indices, a ring never has
\* more entries in flight than slots.
NoOverrun == AvailCount <= N /\ UsedCount <= N

\* The stores of vq_ring_update_avail and vq_ring_update_used: the slot a
\* core is about to publish is not one the other core has still to read,
\* even when that core is between its index test and its slot read.
NoSlotRace ==
    /\ master_pc = "publish" =>
         \A k \in 0..(AvailCount - 1) :
             Slot(vq_available_idx + k) # Slot(avail_idx)
    /\ \A c \in RemoteCtx : remote_pc[c] = "publish" =>
         \A k \in 0..(UsedCount - 1) :
             Slot(vq_used_cons_idx + k) # Slot(used_idx)

-----------------------------------------------------------------------------
(* The virtqueue implements the exchange of BufferExchange: the queues are *)
(* the in-flight windows of the rings, oldest entry first.                 *)

Exchange == INSTANCE BufferExchange
    WITH avail <- [k \in 1..AvailCount |->
                      avail_ring[Slot(vq_available_idx + k - 1)]],
         used <- [k \in 1..UsedCount |->
                      used_ring[Slot(vq_used_cons_idx + k - 1)]],
         master <- master_bufs,
         remote <- remote_bufs

\* Every step of the two cores on the shared rings is a step of the buffer
\* exchange or leaves it alone: buffers come out in the order they went in.
ImplementsExchange == Exchange!Spec
=============================================================================
