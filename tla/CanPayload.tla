----------------------------- MODULE CanPayload -----------------------------
(***************************************************************************)
(* The bytes of a CAN frame between tx_buff, the FD_TXDATA registers, the  *)
(* bus, the words of the receive FIFO and rx_buff: CANSwapBytesPerWord of  *)
(* bsp_can.c, and the packing of HAL_CANFD_Transmit and HAL_CANFD_Receive  *)
(* whose handling of an incomplete last word HAL_ISSUE_LOG.md records.     *)
(*                                                                         *)
(* A register word is four lanes, lane 0 the least significant; lane l of  *)
(* word w is position 4 * w + l.  A byte of the message under way is its   *)
(* number; the bytes of older messages are all called Old.                 *)
(***************************************************************************)
EXTENDS Naturals

CONSTANTS Clear,        \* a byte that is zero
          Old,          \* a byte of an older message
          Stale,        \* what the unused words of the FIFO hold
          Sent          \* lengths of the messages

Positions == 0 .. 63
Bytes == Positions \union {Clear, Old, Stale}
Blank == [k \in Positions |-> Clear]

ClassicMax == 8                         \* CAN_CLASSIC_DLC_MAX

(***************************************************************************)
(* dlc2len and len2dlc                                                     *)
(***************************************************************************)
Dlc2Len(dlc) == <<0, 1, 2, 3, 4, 5, 6, 7, 8, 12, 16, 20, 24, 32, 48, 64>>[dlc + 1]

Len2Dlc(len) == CHOOSE d \in 0 .. 15 :
                   Dlc2Len(d) >= len /\ \A c \in 0 .. 15 : Dlc2Len(c) >= len => d <= c

Lengths == {Dlc2Len(d) : d \in 0 .. 15}  \* the sanitized lengths

ASSUME SentAssumption == Sent \subseteq Lengths

\* Broken variant: the whole last word is reversed, whatever remains of it.
SwapWords(src, len) ==
    [k \in Positions |-> IF k < len THEN src[4 * (k \div 4) + (3 - (k % 4))] ELSE Clear]

(***************************************************************************)
(* CANSwapBytesPerWord into a buffer of zeroes: every word reversed, the   *)
(* last one within the bytes that remain.                                  *)
(***************************************************************************)
Swap(src, len) ==
    [k \in Positions |->
        LET base == 4 * (k \div 4)
            chunk == IF len - base < 4 THEN len - base ELSE 4
        IN IF k < len THEN src[base + (chunk - 1 - (k - base))] ELSE Clear]

(***************************************************************************)
(* HAL_CANFD_Transmit writes the words a message needs, most significant   *)
(* lane first; HAL_CANFD_Receive takes them apart.                         *)
(***************************************************************************)

Pack(regs, msg, len) ==
    LET full == len \div 4
        rem == len % 4
    IN [p \in Positions |->
          IF p < 4 * full THEN msg[4 * (p \div 4) + (3 - (p % 4))]
          ELSE IF rem # 0 /\ p \div 4 = full
               THEN IF p % 4 < rem THEN msg[4 * full + (rem - 1 - (p % 4))] ELSE Clear
               ELSE regs[p]]

Unpack(lanes, len) ==
    LET full == len \div 4
        rem == len % 4
    IN [k \in Positions |->
          IF k < 4 * full THEN lanes[4 * (k \div 4) + (3 - (k % 4))]
          ELSE IF k < len THEN lanes[4 * full + (rem - 1 - (k - 4 * full))]
          ELSE Clear]

-----------------------------------------------------------------------------
VARIABLES txdata,       \* FD_TXDATA
          given,        \* what the last sender gave: [by, len]
          frame,        \* the frame on the bus: [len, bytes]
          rxdlc, rxdata,\* CANFD_MSG after HAL_CANFD_Receive
          rxlen, rxbuff,\* rx_len and rx_buff after the dispatch
          pc

payloadVars == <<txdata, given, frame, rxdlc, rxdata, rxlen, rxbuff, pc>>

NoneYet == [len |-> 0, bytes |-> Blank]
Payload(len) == [k \in Positions |-> IF k < len THEN k ELSE Clear]
Aged(bytes) == [k \in Positions |-> IF bytes[k] \in Positions THEN Old ELSE bytes[k]]

PayloadTypeOK ==
    /\ txdata \in [Positions -> Bytes] /\ rxdata \in [Positions -> Bytes]
    /\ rxbuff \in [Positions -> Bytes]
    /\ given.by \in {"none", "bsp", "hal", "peer"} /\ given.len \in Lengths
    /\ frame.len \in Lengths /\ rxdlc \in Lengths /\ rxlen \in Lengths
    /\ pc \in {"idle", "requested", "bus", "fetched"}

PayloadInit ==
    /\ txdata = Blank
    /\ given = [by |-> "none", len |-> 0]
    /\ frame = NoneYet
    /\ rxdlc = 0 /\ rxdata = Blank /\ rxlen = 0 /\ rxbuff = Blank
    /\ pc = "idle"

Give(by, len) == /\ pc = "idle"
                 /\ given' = [by |-> by, len |-> len]
                 /\ rxbuff' = Aged(rxbuff)
                 /\ UNCHANGED <<rxdlc, rxdata, rxlen>>

\* CANTransmit; CANSetDLC accepts 1 .. CAN_CLASSIC_DLC_MAX.
BspSend(len) == /\ len \in 1 .. ClassicMax
                /\ Give("bsp", len)
                /\ txdata' = Pack(Aged(txdata), Swap(Payload(len), len), len)
                /\ frame' = NoneYet
                /\ pc' = "requested"

\* HAL_CANFD_Transmit by a program that does not use bsp_can.
HalSend(len) == /\ Give("hal", len)
                /\ txdata' = Pack(Aged(txdata), Payload(len), len)
                /\ frame' = NoneYet
                /\ pc' = "requested"

\* The controller: lane after lane, as many bytes as the DLC says.
Shift == /\ pc = "requested"
         /\ LET len == Dlc2Len(Len2Dlc(given.len))
            IN frame' = [len |-> len,
                         bytes |-> [k \in Positions |-> IF k < len THEN txdata[k] ELSE Clear]]
         /\ pc' = "bus"
         /\ UNCHANGED <<txdata, given, rxdlc, rxdata, rxlen, rxbuff>>

\* Another node, with or without a flexible data rate.
PeerSend(len) == /\ Give("peer", len)
                 /\ frame' = [len |-> len, bytes |-> Payload(len)]
                 /\ pc' = "bus"
                 /\ UNCHANGED txdata

\* HAL_CANFD_Receive into the rx_msg of CANDrainRxFifo, zeroes at first.
Receive == /\ pc = "bus"
           /\ rxdlc' = frame.len
           /\ rxdata' = Unpack([p \in Positions |->
                                  IF p < frame.len THEN frame.bytes[p] ELSE Stale], frame.len)
           /\ pc' = "fetched"
           /\ UNCHANGED <<txdata, given, frame, rxlen, rxbuff>>

\* CANDispatchRxMessage
Dispatch == /\ pc = "fetched"
            /\ rxlen' = rxdlc
            /\ rxbuff' = Swap(rxdata, rxdlc)
            /\ pc' = "idle"
            /\ rxdlc' = 0 /\ rxdata' = Blank          \* rx_msg is gone
            /\ UNCHANGED <<txdata, given, frame>>

PayloadNext == \/ \E len \in Sent : BspSend(len) \/ HalSend(len) \/ PeerSend(len)
               \/ Shift \/ Receive \/ Dispatch

PayloadSpec == PayloadInit /\ [][PayloadNext]_payloadVars

-----------------------------------------------------------------------------
(***************************************************************************)
(* Properties                                                              *)
(***************************************************************************)
\* HAL_ISSUE_LOG.md, third entry: "AA BB CC" is sent as AA BB CC for every
\* length, whatever older messages left in the registers: what CANTransmit
\* was given stands on the bus in the same order.
SentInOrder == pc = "bus" /\ given.by = "bsp" =>
                   frame = [len |-> given.len, bytes |-> Payload(given.len)]

\* The receiving half: rx_buff is the frame of the bus, byte by byte and with
\* zeroes behind it, for every length a frame can have.
ReceivedInOrder == pc = "idle" /\ given.by # "none" =>
                       rxlen = frame.len /\ rxbuff = frame.bytes

\* Two programs that use the HAL alone agree about the bytes of a frame: what
\* HAL_CANFD_Transmit took is what HAL_CANFD_Receive returns.
HalAgrees == pc = "fetched" /\ given.by = "hal" =>
                 rxdlc = given.len /\ rxdata = Payload(given.len)

\* The bytes of a frame keep their order through bsp_can and HAL, both ways.
BytesKept == SentInOrder /\ ReceivedInOrder /\ HalAgrees
=============================================================================
