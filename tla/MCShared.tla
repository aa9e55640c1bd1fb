------------------------------ MODULE MCShared -------------------------------
(***************************************************************************)
(* What the firmware shares without a mutex, side by side: the two         *)
(* virtqueues of the link, between two cores, and the receive side of a    *)
(* CAN controller and the list of endpoints, between the main loop and a   *)
(* handler.  They share no variable with one another: `part' says which of *)
(* them this behaviour is about, and the others stay as they begin.        *)
(***************************************************************************)
EXTENDS Virtqueue, CanReceive, EndpointList

\* The ring of the run has two slots and indices that wrap after four laps.  It is
\* used from one context of the remote core, as the firmware uses it: the mailbox
\* interrupt receives, the main loop transmits; what the context is called makes
\* no difference.  The master stocks the ring the MCU receives with through the
\* used ring, and this one, which the MCU transmits with, through the avail ring;
\* the two start alike.
Tx == INSTANCE Virtqueue WITH StockUsed <- FALSE

RxOrAll == {{"RX"}, {"RX", "TX"}}

VARIABLE part

sharedVars == <<part, vars, rxVars, listVars>>

\* A part that begins in one of several ways, when it is not looked at.
RxRest == RxInit /\ s_mask = CHOOSE mask \in BootMasks : TRUE

SharedInit == /\ part \in {"receive_ring", "transmit_ring", "can", "endpoints"}
              /\ Init /\ ListInit
              /\ IF part = "can" THEN RxInit ELSE RxRest

SharedNext ==
    /\ UNCHANGED part
    /\ \/ part = "receive_ring" /\ Next /\ UNCHANGED <<rxVars, listVars>>
       \/ part = "transmit_ring" /\ Tx!Next /\ UNCHANGED <<rxVars, listVars>>
       \/ part = "can" /\ RxNext /\ UNCHANGED <<vars, listVars>>
       \/ part = "endpoints" /\ ListNext /\ UNCHANGED <<vars, rxVars>>

\* The fairness of the CAN handler, when it is looked at.
SharedSpec == SharedInit /\ [][SharedNext]_sharedVars /\ WF_rxVars(part = "can" /\ Isr)
=============================================================================
