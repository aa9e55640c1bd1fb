----------------------------- MODULE RpmsgQueue -----------------------------
(***************************************************************************)
(* rpmsg_queue.c on FreeRTOS: the callback of an endpoint, in the          *)
(* interrupt, holds the receive buffer and puts a reference to it on a     *)
(* queue; tasks take it from there, copy or use it, and release it to the  *)
(* virtqueue.  The virtqueue is here the buffers free for the master and   *)
(* the sequence of those it has filled, and the used ring through which    *)
(* they go back: a slot is stored and then the index, which the tasks do   *)
(* under a mutex and the interrupt without, so that it may come between a  *)
(* task's two stores.  The master's side of the ring is Virtqueue's.  A    *)
(* queue belongs to one endpoint of the same name.                         *)
(***************************************************************************)
EXTENDS Naturals, Sequences, SequencesExt, FiniteSets

CONSTANTS Buffers,      \* of the receive virtqueue
          Queues,
          Reads,        \* the queue each task reads
          Owned,        \* queues that are destroyed and created again
          DrainFirst,   \* the owner empties a queue before it destroys it
          MaxMessages   \* bound: messages of the master

Readers == DOMAIN Reads

ASSUME BuffersAssumption == IsFiniteSet(Buffers) /\ Buffers # {}
ASSUME ReadsAssumption == Reads \in [Readers -> Queues] /\ Owned \subseteq Queues

VARIABLES free, avail,          \* the virtqueue
          used_ring, used_slot, \* its slots, and the one the index points at
          overtaken,            \* an interrupt came between a task's two stores
          content,              \* of each buffer: [id, to, long]
          rx_queue,             \* buffers whose message waits
          bound, created,       \* endpoints; queues
          reader_pc, rx_buf, data, \* of a call: its step, its buffer, its copy
          wanted, taken, lost,  \* ids: a call's message, all taken, all dropped
          messages              \* sent so far

used == <<free, used_ring, used_slot, overtaken>>
virtqueue == <<used, avail, content>>
call == <<reader_pc, rx_buf, data, wanted>>
ids == <<taken, lost, messages>>
queueVars == <<virtqueue, rx_queue, bound, created, call, ids>>

None == 0
Capacity == Cardinality(Buffers)
Slots == 0 .. Capacity - 1

\* The master has filled the used ring with its buffers, and taken them from it.
QueueInit == /\ free = Buffers /\ avail = <<>>
             /\ used_ring \in Bijection(Slots, Buffers) /\ used_slot = 0
             /\ overtaken = FALSE
             /\ content = [b \in Buffers |-> [id |-> None, to |-> None, long |-> FALSE]]
             /\ rx_queue = [q \in Queues |-> <<>>]
             /\ bound = Queues /\ created = Queues
             /\ reader_pc = [t \in Readers |-> "idle"] /\ rx_buf = [t \in Readers |-> None]
             /\ data = [t \in Readers |-> None] /\ wanted = [t \in Readers |-> None]
             /\ taken = [q \in Queues |-> <<>>] /\ lost = {}
             /\ messages = 0

(***************************************************************************)
(* The master fills a free buffer; a message may be longer than what the   *)
(* readers have room for.                                                  *)
(***************************************************************************)
Send(b, q, long) ==
    /\ messages < MaxMessages /\ b \in free
    /\ messages' = messages + 1
    /\ free' = free \ {b}
    /\ avail' = Append(avail, b)
    /\ content' = [content EXCEPT ![b] = [id |-> messages', to |-> q, long |-> long]]
    /\ UNCHANGED <<used_ring, used_slot, overtaken, rx_queue, bound, created, call, taken, lost>>

(***************************************************************************)
(* rpmsg_lite_rx_callback with rpmsg_queue_rx_cb, for one buffer of its    *)
(* loop: the queue has room for every buffer of the virtqueue.             *)
(***************************************************************************)
To == content[Head(avail)].to

NextSlot == (used_slot + 1) % Capacity

\* The callback stores slot and index without an interruption, and without the
\* mutex: a task may be between its own two stores.
Release(b) == /\ used_ring' = [used_ring EXCEPT ![used_slot] = b]
              /\ used_slot' = NextSlot
              /\ free' = free \union {b}
              /\ overtaken' = (overtaken \/ \E t \in Readers : reader_pc[t] = "publish")

\* RL_HOLD, or RL_RELEASE of a message for which there is no room.
Put == /\ avail # <<>> /\ To \in bound
       /\ IF Len(rx_queue[To]) < Capacity
          THEN rx_queue' = [rx_queue EXCEPT ![To] = Append(@, Head(avail))] /\ UNCHANGED used
          ELSE Release(Head(avail)) /\ UNCHANGED rx_queue
       /\ avail' = Tail(avail)
       /\ UNCHANGED <<content, bound, created, call, ids>>

\* No endpoint has the address.
Unknown == /\ avail # <<>> /\ To \notin bound
           /\ Release(Head(avail))
           /\ avail' = Tail(avail)
           /\ lost' = lost \union {content[Head(avail)].id}
           /\ UNCHANGED <<content, rx_queue, bound, created, call, taken, messages>>

RxCallback == Put \/ Unknown

(***************************************************************************)
(* The readers.  A call that times out changes nothing.                    *)
(***************************************************************************)
GetQueue(t, next) ==
    LET q == Reads[t]  b == Head(rx_queue[q])
    IN /\ reader_pc[t] = "idle" /\ q \in created /\ rx_queue[q] # <<>>
       /\ rx_queue' = [rx_queue EXCEPT ![q] = Tail(@)]
       /\ rx_buf' = [rx_buf EXCEPT ![t] = b]
       /\ wanted' = [wanted EXCEPT ![t] = content[b].id]
       /\ taken' = [taken EXCEPT ![q] = Append(@, content[b].id)]
       /\ reader_pc' = [reader_pc EXCEPT ![t] = next]
       /\ UNCHANGED <<virtqueue, bound, created, data, lost, messages>>

Recv(t) == GetQueue(t, "copy")
RecvNocopy(t) == GetQueue(t, "held")

Copy(t) ==
    /\ reader_pc[t] = "copy"
    /\ data' = [data EXCEPT ![t] = IF content[rx_buf[t]].long THEN None ELSE content[rx_buf[t]].id]
    /\ reader_pc' = [reader_pc EXCEPT ![t] = "release"]
    /\ UNCHANGED <<virtqueue, rx_queue, bound, created, rx_buf, wanted, ids>>

\* Broken variant of StoreSlot: without the mutex.
StoreUnlocked(t) == /\ reader_pc[t] \in {"release", "held"}
                    /\ used_ring' = [used_ring EXCEPT ![used_slot] = rx_buf[t]]
                    /\ reader_pc' = [reader_pc EXCEPT ![t] = "publish"]
                    /\ UNCHANGED <<free, used_slot, overtaken, avail, content, rx_queue, bound,
                                   created, rx_buf, data, wanted, ids>>

\* rpmsg_queue_recv's last step, and rpmsg_queue_nocopy_free: with the mutex
\* the task stores the buffer in the slot, ...
StoreSlot(t) == /\ reader_pc[t] \in {"release", "held"}
                /\ \A u \in Readers : reader_pc[u] # "publish"
                /\ used_ring' = [used_ring EXCEPT ![used_slot] = rx_buf[t]]
                /\ reader_pc' = [reader_pc EXCEPT ![t] = "publish"]
                /\ UNCHANGED <<free, used_slot, overtaken, avail, content, rx_queue, bound,
                               created, rx_buf, data, wanted, ids>>

\* ... and gives the master whatever is in the slot of the index by then.  The
\* call is over.
ReleaseRxBuffer(t) == /\ reader_pc[t] = "publish"
                      /\ free' = free \union {used_ring[used_slot]}
                      /\ used_slot' = NextSlot
                      /\ reader_pc' = [reader_pc EXCEPT ![t] = "idle"]
                      /\ rx_buf' = [rx_buf EXCEPT ![t] = None]
                      /\ data' = [data EXCEPT ![t] = None]
                      /\ wanted' = [wanted EXCEPT ![t] = None]
                      /\ UNCHANGED <<used_ring, overtaken, avail, content, rx_queue, bound, created, ids>>

(***************************************************************************)
(* The owner of a queue: the endpoint goes first, and no reader is blocked*)
(* on the queue; both may be made again.                                   *)
(***************************************************************************)
DestroyEpt(q) == /\ q \in bound
                 /\ bound' = bound \ {q}
                 /\ UNCHANGED <<virtqueue, rx_queue, created, call, ids>>

DestroyQueue(q) == /\ q \in created \ bound
                   /\ DrainFirst => rx_queue[q] = <<>>
                   /\ created' = created \ {q}
                   /\ rx_queue' = [rx_queue EXCEPT ![q] = <<>>]
                   /\ UNCHANGED <<virtqueue, bound, call, ids>>

CreateQueue(q) == /\ q \notin created
                  /\ created' = created \union {q} /\ bound' = bound \union {q}
                  /\ UNCHANGED <<virtqueue, rx_queue, call, ids>>

Reader(t) == Recv(t) \/ RecvNocopy(t) \/ Copy(t) \/ StoreSlot(t) \/ ReleaseRxBuffer(t)

QueueNext == \/ \E b \in Buffers, q \in Queues, long \in BOOLEAN : Send(b, q, long)
             \/ RxCallback
             \/ \E t \in Readers : Reader(t)
             \/ \E q \in Owned : DestroyEpt(q) \/ DestroyQueue(q) \/ CreateQueue(q)

QueueSpec == QueueInit /\ [][QueueNext]_queueVars

\* The interrupt is served and the readers call again for ever.
QueueFairSpec == QueueSpec /\ WF_queueVars(RxCallback) /\ \A t \in Readers : WF_queueVars(Reader(t))

-----------------------------------------------------------------------------
(***************************************************************************)
(* Properties.  They speak of behaviours in which no interrupt came between *)
(* a task's two stores; what happens otherwise is ReleasedComesBack.       *)
(***************************************************************************)
HeldBy(b) == {t \in Readers : reader_pc[t] # "idle" /\ rx_buf[t] = b}
Places(b) == (IF b \in free THEN 1 ELSE 0)
             + Cardinality({n \in 1 .. Len(avail) : avail[n] = b})
             + Cardinality({p \in Queues \X (1 .. Capacity) :
                               /\ p[2] <= Len(rx_queue[p[1]])
                               /\ rx_queue[p[1]][p[2]] = b})
             + Cardinality(HeldBy(b))

\* "Destroy a queue and clean up": every buffer is in exactly one place from
\* which it can come back: with the master, in the virtqueue, on a queue or
\* with one reader.
Accounted == \A b \in Buffers : Places(b) = 1

QueueTypeOK == bound \subseteq created /\ Accounted

\* "Releases the rx buffer for future reuse in vring": a buffer that a call
\* released has come back to the master, whatever the interrupt released
\* meanwhile; none is lost on the way.
ReleasedComesBack == \A b \in Buffers : Places(b) > 0

\* A buffer keeps the message it was taken for until its reader releases it,
\* and a copy is of that message.
BufferIsMine ==
    \A t \in Readers : /\ reader_pc[t] # "idle" => content[rx_buf[t]].id = wanted[t]
                       /\ data[t] \in {None, wanted[t]}

\* The messages of a queue are taken in the order they were sent.
Pending(q) == [n \in 1 .. Len(rx_queue[q]) |-> content[rx_queue[q][n]].id]
ReadInOrder == \A q \in Queues :
    LET all == taken[q] \o Pending(q)
    IN \A m, n \in 1 .. Len(all) : m < n => all[m] < all[n]

\* No message is dropped but those that find no endpoint: as the queue has a
\* place for each buffer, rpmsg_queue_rx_cb is never refused one.
Lossless == 1 .. messages = lost
    \union (UNION {Range(taken[q]) \union Range(Pending(q)) : q \in Queues})
    \union {content[avail[n]].id : n \in 1 .. Len(avail)}

\* The master always gets buffers back.
QueueFlows == free = {} ~> free # {} \/ overtaken

\* The invariants of the queues together: as long as no interrupt has released
\* a buffer between the two stores of a task's release, no buffer is lost,
\* shared or overwritten under its reader, and no message is lost or overtaken.
QueueSafe == ~overtaken => QueueTypeOK /\ BufferIsMine /\ ReadInOrder /\ Lossless
=============================================================================
