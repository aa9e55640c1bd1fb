--------------------------- MODULE BufferExchange ---------------------------
(***************************************************************************)
(* What a virtqueue promises the two cores that share it, with the ring    *)
(* indices and the two-step publications taken away: a fixed set of        *)
(* buffers moves between two owners through two first-in first-out         *)
(* queues.  A buffer is never lost, never duplicated, and reaches the      *)
(* other side in the order in which it was handed over.                    *)
(***************************************************************************)
EXTENDS Sequences

CONSTANT Desc      \* the buffers (descriptors) of the virtqueue

VARIABLES avail,   \* buffers the master has handed over, oldest first
          used,    \* buffers on their way back to the master, oldest first
          master,  \* buffers the master holds
          remote   \* buffers the remote holds

vars == <<avail, used, master, remote>>

Init == /\ avail = <<>>
        /\ used = <<>>
        /\ master = Desc
        /\ remote = {}

\* The master places one of its buffers in the queue towards itself: this is
\* how rpmsg_lite_master_init stocks its own transmit queue.
Stock(b) == /\ b \in master
            /\ master' = master \ {b}
            /\ used' = Append(used, b)
            /\ UNCHANGED <<avail, remote>>

Post(b) == /\ b \in master
           /\ master' = master \ {b}
           /\ avail' = Append(avail, b)
           /\ UNCHANGED <<used, remote>>

Take == /\ avail # <<>>
        /\ avail' = Tail(avail)
        /\ remote' = remote \cup {Head(avail)}
        /\ UNCHANGED <<used, master>>

Return(b) == /\ b \in remote
             /\ remote' = remote \ {b}
             /\ used' = Append(used, b)
             /\ UNCHANGED <<avail, master>>

Reclaim == /\ used # <<>>
           /\ used' = Tail(used)
           /\ master' = master \cup {Head(used)}
           /\ UNCHANGED <<avail, remote>>

Next == \/ \E b \in Desc : Stock(b) \/ Post(b) \/ Return(b)
        \/ Take
        \/ Reclaim

Spec == Init /\ [][Next]_vars
=============================================================================
