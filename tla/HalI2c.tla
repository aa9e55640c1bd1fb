------------------------------- MODULE HalI2c -------------------------------
(***************************************************************************)
(* The I2C master of hal_i2c.c: HAL_I2C_Transfer starts a message,         *)
(* HAL_I2C_IRQHandler, called by the interrupt or in a polling loop, takes *)
(* it through START, chunks of at most Fifo bytes and STOP.  The           *)
(* controller and the slave run beside it: they raise bits in IPD at any   *)
(* moment, the slave may refuse any byte, the caller may give up.          *)
(***************************************************************************)
EXTENDS Naturals, Sequences, FiniteSets

CONSTANTS Fifo,         \* bytes of TXDATA and of RXDATA, 32 in the controller
          Lens,         \* lengths of the messages
          Types,        \* I2C_POLL, I2C_IT
          BothOnNak     \* types for which the controller may raise MBTF with NAKRCV

ASSUME FifoAssumption == Fifo \in Nat \ {0, 1} /\ Lens \subseteq Nat
ASSUME TypesAssumption == Types \subseteq {"poll", "it"} /\ BothOnNak \subseteq Types

Bits == {"START", "STOP", "MBTF", "MBRF", "NAKRCV", "BYTE"}
Modes == {"tx", "trx", "rx"}            \* TX, REGISTER_TX, RX
Errors == {"OK", "ERROR", "NODEV"}
Off == [en |-> FALSE, mode |-> "tx", start |-> FALSE, stop |-> FALSE,
        lastack |-> FALSE, actack |-> FALSE]

VARIABLES state, mode, type, len, ignore, isLast, processed, error, buf, \* I2C_HANDLE
          con, ien, ipd,                \* the registers
          mtx, mrx, rxdata,             \* TXDATA with MTXCNT; MRXCNT; RXDATA
          phase, bus, wire, refused,    \* the controller and the bus
          isr, i2c_pc, i2c_result       \* the handler, the caller

handle == <<state, mode, type, len, ignore, isLast, processed, error, buf>>
message == <<mode, type, len, ignore, isLast>>
fifos == <<mtx, mrx, rxdata>>
line == <<phase, bus, wire, refused>>
i2cVars == <<handle, con, ien, ipd, fifos, line, isr, i2c_pc, i2c_result>>

\* On the wire: the slave's address, a byte, a byte that the master answers.
Address == <<"addr">>
Byte(k) == <<"byte", k>>
Answered(k, ack) == <<"byte", k, ack>>

Smaller(a, b) == IF a < b THEN a ELSE b

I2cTypeOK ==
    /\ state \in {"idle", "start", "read", "write", "stop"}
    /\ mode \in {"tx", "trx"} /\ type \in {"poll", "it"} /\ len \in Lens \union {0}
    /\ ignore \in BOOLEAN /\ isLast \in BOOLEAN
    /\ processed \in 0 .. len /\ error \in Errors /\ Len(buf) <= len
    /\ con \in [en : BOOLEAN, mode : Modes, start : BOOLEAN, stop : BOOLEAN,
                lastack : BOOLEAN, actack : BOOLEAN]
    /\ ien \subseteq Bits /\ ipd \subseteq Bits
    /\ Len(mtx) <= Fifo /\ mrx \in 0 .. Fifo /\ Len(rxdata) <= Fifo
    /\ phase \in {"off", "starting", "open", "stopped"}
    /\ bus \in {"free", "ours"} /\ refused \in BOOLEAN
    /\ isr \in {"none", "clean"} /\ i2c_pc \in {"closed", "wait", "next", "done"}
    /\ i2c_result \in Errors \union {"INVAL", "TIMEOUT", "none"}

I2cInit ==
    /\ state = "idle" /\ mode = "tx" /\ type = "poll" /\ len = 0
    /\ ignore = FALSE /\ isLast = FALSE /\ processed = 0 /\ error = "OK" /\ buf = <<>>
    /\ con = Off /\ ien = {} /\ ipd = {}
    /\ mtx = <<>> /\ mrx = 0 /\ rxdata = <<>>
    /\ phase = "off" /\ bus = "free" /\ wire = <<>> /\ refused = FALSE
    /\ isr = "none" /\ i2c_pc = "closed" /\ i2c_result = "none"

(***************************************************************************)
(* The caller: one transfer of several messages of one type.               *)
(***************************************************************************)
\* HAL_I2C_ConfigureMode, HAL_I2C_SetupMsg, HAL_I2C_Transfer with I2C_Start
Transfer(m, t, n, i, last) ==
    /\ i2c_pc = "closed" \/ (i2c_pc = "next" /\ t = type)
    /\ m = "trx" => n > 0
    /\ mode' = m /\ type' = t /\ len' = n /\ ignore' = i /\ isLast' = last
    /\ processed' = 0 /\ error' = "OK" /\ buf' = <<>>
    /\ ipd' = {} /\ state' = "start"
    /\ ien' = IF t = "it" THEN {"START"} ELSE ien
    /\ con' = [Off EXCEPT !.en = TRUE, !.mode = m, !.start = TRUE, !.actack = ~i]
    /\ phase' = "starting" /\ wire' = <<>> /\ refused' = FALSE
    /\ i2c_pc' = "wait" /\ i2c_result' = "none"
    /\ UNCHANGED <<fifos, bus, isr>>

\* HAL_I2C_ForceStop, when the caller has waited long enough
ForceStop == /\ i2c_pc = "wait" /\ isr = "none"
             /\ ien' = {}
             /\ con' = [Off EXCEPT !.en = TRUE, !.stop = TRUE]
             /\ state' = "idle"
             /\ i2c_pc' = "done" /\ i2c_result' = "TIMEOUT"
             /\ UNCHANGED <<message, processed, error, buf, ipd, fifos, line, isr>>

\* HAL_I2C_Close; without its enable bit the controller drops what it did.
Close == /\ i2c_pc = "done"
         /\ ien' = {} /\ con' = Off
         /\ phase' = "off" /\ mtx' = <<>> /\ mrx' = 0
         /\ i2c_pc' = "closed"
         /\ UNCHANGED <<handle, ipd, rxdata, bus, wire, refused, isr, i2c_result>>

(***************************************************************************)
(* HAL_I2C_IRQHandler                                                      *)
(***************************************************************************)
Called == /\ isr = "none"
          /\ \/ type = "poll" /\ i2c_pc = "wait"
             \/ type = "it" /\ ipd \intersect ien # {}

Seen == ipd \ {"BYTE"}
Refusal == "NAKRCV" \in Seen /\ ~ignore
Rest == Seen \ {"NAKRCV"}

Busy == UNCHANGED <<i2c_pc, i2c_result>>
Report(r) == i2c_pc' = (IF r = "OK" /\ ~isLast THEN "next" ELSE "done") /\ i2c_result' = r

\* The end of a message that is the last, or has failed; of any other.
StopLast(asked) ==
    /\ ien' = IF type = "it" THEN asked ELSE ien
    /\ state' = "stop"
    /\ con' = [con EXCEPT !.stop = TRUE]
    /\ Busy
    /\ UNCHANGED phase
StopNext(r) == /\ state' = "idle"
               /\ con' = Off /\ phase' = "off"
               /\ Report(r)
               /\ UNCHANGED ien

\* Broken variants: the error is lost; the stop has no interrupt.
StopForgets(err) ==
    /\ processed' = 0 /\ UNCHANGED error
    /\ IF isLast \/ err # "OK" THEN StopLast({"STOP"}) ELSE StopNext("OK")
StopUnheard(err) ==
    /\ processed' = 0 /\ error' = err
    /\ IF isLast \/ err # "OK" THEN StopLast({"NAKRCV"}) ELSE StopNext("OK")

\* I2C_Stop: a stop, or a reset that makes the next START a repeated one.
Stop(err) ==
    /\ processed' = 0 /\ error' = err
    /\ IF isLast \/ err # "OK" THEN StopLast({"STOP"}) ELSE StopNext("OK")

\* NACK; the transfer ends when the stop is handled.
Refused == /\ Called /\ state # "idle" /\ Refusal
           /\ ipd' = ipd \ {"NAKRCV"}
           /\ Stop("NODEV")
           /\ UNCHANGED <<message, buf, fifos, bus, wire, refused, isr>>

FillTransmitBuf ==
    LET address == IF processed = 0 THEN <<Address>> ELSE <<>>
        n == Smaller(Fifo - Len(address), len - processed)
    IN /\ mtx' = address \o [k \in 1 .. n |-> Byte(processed + k - 1)]
       /\ processed' = processed + n

PrepareRead(done, c) ==
    LET n == len - done
        again == IF done # 0 THEN [c EXCEPT !.mode = "rx"] ELSE c
    IN /\ con' = [again EXCEPT !.lastack = n <= Fifo]
       /\ mrx' = Smaller(n, Fifo)

\* A state without its bit: stop with an error, then clean IPD.
Unexpected == /\ Stop("ERROR")
              /\ isr' = "clean"
              /\ UNCHANGED <<message, buf, ipd, fifos, bus, wire, refused>>

Quiet == Called /\ state # "idle" /\ ~Refusal /\ Rest # {}

HandleStart ==
    /\ Quiet /\ state = "start"
    /\ IF "START" \notin Rest THEN Unexpected
       ELSE /\ ipd' = ipd \ {"START", "NAKRCV"}
            /\ IF mode = "tx"
               THEN /\ ien' = IF type = "it" THEN {"MBTF", "NAKRCV"} ELSE ien
                    /\ state' = "write"
                    /\ con' = [con EXCEPT !.start = FALSE]
                    /\ FillTransmitBuf
                    /\ UNCHANGED mrx
               ELSE /\ ien' = IF type = "it" THEN {"MBRF", "NAKRCV"} ELSE ien
                    /\ state' = "read"
                    /\ PrepareRead(processed, [con EXCEPT !.start = FALSE])
                    /\ UNCHANGED <<mtx, processed>>
            /\ Busy
            /\ UNCHANGED <<message, error, buf, rxdata, line, isr>>

HandleWrite ==
    /\ Quiet /\ state = "write"
    /\ IF "MBTF" \notin Rest THEN Unexpected
       ELSE /\ ipd' = ipd \ {"MBTF", "NAKRCV"}
            /\ IF processed = len
               THEN Stop(error) /\ UNCHANGED mtx
               ELSE /\ FillTransmitBuf
                    /\ Busy
                    /\ UNCHANGED <<state, error, con, ien, phase>>
            /\ UNCHANGED <<message, buf, mrx, rxdata, bus, wire, refused, isr>>

HandleRead ==
    /\ Quiet /\ state = "read"
    /\ IF "MBRF" \notin Rest THEN ipd' = ipd \ {"NAKRCV"} /\ UNCHANGED <<handle, con, ien, mrx, phase>> /\ Busy
       ELSE LET done == processed + Smaller(Fifo, len - processed)
            IN /\ ipd' = ipd \ {"MBRF", "NAKRCV"}
               /\ buf' = buf \o SubSeq(rxdata, 1, done - processed)
               /\ IF done = len
                  THEN Stop(error) /\ UNCHANGED mrx
                  ELSE /\ processed' = done
                       /\ PrepareRead(done, con)
                       /\ Busy
                       /\ UNCHANGED <<state, error, ien, phase>>
               /\ UNCHANGED message
    /\ UNCHANGED <<mtx, rxdata, bus, wire, refused, isr>>

HandleStop ==
    /\ Quiet /\ state = "stop"
    /\ IF "STOP" \notin Rest THEN Unexpected
       ELSE /\ ipd' = ipd \ {"STOP", "NAKRCV"}
            /\ con' = [con EXCEPT !.stop = FALSE]
            /\ state' = "idle"
            /\ Report(error)
            /\ UNCHANGED <<message, processed, error, buf, ien, fifos, line, isr>>

\* Nothing left once a NACK is ignored.
Ignored == /\ Called /\ state # "idle" /\ ~Refusal /\ Rest = {} /\ "NAKRCV" \in ipd
           /\ ipd' = ipd \ {"NAKRCV"}
           /\ UNCHANGED <<handle, con, ien, fifos, line, isr, i2c_pc, i2c_result>>

\* I2C_CleanIPD at the end of an unexpected call
Clean == /\ isr = "clean"
         /\ ipd' = {} /\ isr' = "none"
         /\ UNCHANGED <<handle, con, ien, fifos, line, i2c_pc, i2c_result>>

(***************************************************************************)
(* The controller and the slave.                                           *)
(***************************************************************************)
Untouched == UNCHANGED <<handle, con, ien, rxdata, isr, i2c_pc, i2c_result>>

GenStart == /\ phase = "starting" /\ con.start
            /\ phase' = "open" /\ bus' = "ours"
            /\ ipd' = ipd \union {"START"}
            /\ UNCHANGED <<mtx, mrx, wire, refused>> /\ Untouched

Sent == /\ phase = "open" /\ mtx # <<>>
        /\ wire' = wire \o mtx /\ mtx' = <<>>
        /\ ipd' = ipd \union {"BYTE", "MBTF"}
        /\ UNCHANGED <<mrx, phase, bus, refused>> /\ Untouched

\* The slave refuses the k-th byte and the controller gives up the chunk.
SentUntil(k) ==
    /\ phase = "open" /\ k <= Len(mtx) /\ con.actack
    /\ wire' = wire \o SubSeq(mtx, 1, k) /\ mtx' = <<>> /\ refused' = TRUE
    /\ \E also \in {{}} \union (IF type \in BothOnNak /\ k = Len(mtx) THEN {{"MBTF"}} ELSE {}) :
          ipd' = ipd \union {"BYTE", "NAKRCV"} \union also
    /\ UNCHANGED <<mrx, phase, bus>> /\ Untouched

NackBit == /\ phase = "open" /\ ~con.actack /\ (mtx # <<>> \/ mrx > 0)
           /\ ipd' = ipd \union {"NAKRCV"}
           /\ UNCHANGED <<mtx, mrx, line>> /\ Untouched

\* A chunk arrives; in REGISTER_TX mode the address goes out before it.
Received ==
    LET first == Cardinality({k \in DOMAIN wire : wire[k] # Address})
        address == IF con.mode = "trx" THEN <<Address>> ELSE <<>>
    IN /\ phase = "open" /\ mrx > 0
       /\ rxdata' = [k \in 1 .. mrx |-> first + k - 1]
       /\ wire' = wire \o address
                     \o [k \in 1 .. mrx |-> Answered(first + k - 1, k < mrx \/ ~con.lastack)]
       /\ mrx' = 0
       /\ ipd' = ipd \union {"BYTE", "MBRF"}
       /\ UNCHANGED <<handle, con, ien, mtx, phase, bus, refused, isr, i2c_pc, i2c_result>>

NoAnswer == /\ phase = "open" /\ mrx > 0 /\ con.mode = "trx" /\ con.actack
            /\ wire' = wire \o <<Address>> /\ mrx' = 0 /\ refused' = TRUE
            /\ ipd' = ipd \union {"BYTE", "NAKRCV"}
            /\ UNCHANGED <<mtx, phase, bus>> /\ Untouched

GenStop == /\ con.en /\ con.stop /\ phase # "stopped"
           /\ phase' = "stopped" /\ bus' = "free"
           /\ ipd' = ipd \union {"STOP"}
           /\ UNCHANGED <<mtx, mrx, wire, refused>> /\ Untouched

Controller == GenStart \/ Sent \/ Received \/ GenStop
Slave == NackBit \/ NoAnswer \/ \E k \in 1 .. Fifo : SentUntil(k)
IRQHandler == Refused \/ HandleStart \/ HandleWrite \/ HandleRead \/ HandleStop
              \/ Ignored \/ Clean

I2cNext == \/ \E m \in {"tx", "trx"}, t \in Types, n \in Lens, i, last \in BOOLEAN :
                 Transfer(m, t, n, i, last)
           \/ ForceStop \/ Close
           \/ IRQHandler \/ Controller \/ Slave

I2cSpec == I2cInit /\ [][I2cNext]_i2cVars

\* The controller works, the interrupt is taken or the polling loop runs.
I2cFairSpec == I2cSpec /\ WF_i2cVars(Controller) /\ WF_i2cVars(IRQHandler)

-----------------------------------------------------------------------------
(***************************************************************************)
(* Properties                                                              *)
(***************************************************************************)
Reported == i2c_pc \in {"next", "done"}

\* A write that is reported done put the address and every byte of the
\* message on the wire once and in order, however it fell into chunks.
Written == Reported /\ i2c_result = "OK" /\ mode = "tx" =>
               wire = <<Address>> \o [k \in 1 .. len |-> Byte(k - 1)]

\* A read that is reported done filled the buffer in order from one
\* selection of the slave, and only the last byte was answered with a NACK:
\* a slave that gets an ACK there goes on driving the line.
ReadRight == Reported /\ i2c_result = "OK" /\ mode = "trx" =>
                 /\ buf = [k \in 1 .. len |-> k - 1]
                 /\ wire = <<Address>> \o [k \in 1 .. len |-> Answered(k - 1, k < len)]

\* A refusal the message does not ignore is never reported as done, nor
\* success as a failure.
RefusalReported == Reported /\ i2c_result # "TIMEOUT" => (i2c_result # "OK" <=> refused)

\* Whoever is told that the transfer is over finds the bus free.
BusFreed == i2c_pc = "done" /\ i2c_result # "TIMEOUT" => bus = "free"

\* "Still return busy status, and would finish transfer after the stop
\* handled": every message is reported without the caller giving up.
Finishes == i2c_pc = "wait" ~> i2c_pc # "wait"

\* What the caller of HAL_I2C_Transfer is told is what happened on the wire.
TransferTrue == Written /\ ReadRight /\ RefusalReported /\ BusFreed
=============================================================================
