---------------------------- MODULE UartTransmit ----------------------------
(***************************************************************************)
(* The transmit side of PicoUart: write() fills a ring buffer, and the     *)
(* UART interrupt moves bytes from there to the hardware FIFO.  write()    *)
(* and the interrupt interleave statement by statement, except while the   *)
(* interrupt is masked.                                                    *)
(***************************************************************************)
EXTENDS RingBuffer

CONSTANTS
    Depth,       \* places in the hardware FIFO, 32 on the RP2040
    Trigger,     \* the level at which the FIFO asks for more, 4
    MaxWrite     \* bound on the bytes of one write(), for model checking

ASSUME FifoAssumption ==
    Trigger \in Nat /\ Depth \in Nat /\ MaxWrite \in Nat /\ Trigger < Depth

VARIABLES
    ring,        \* tx
    fifo,        \* the hardware's transmit FIFO, oldest byte first
    wire,        \* the byte put on the line last
    txim,        \* the transmit interrupt is enabled in the UART
    txris,       \* the FIFO's raw request for more
    unmasked,    \* the UART's interrupt is enabled in the NVIC
    at,          \* where the main program is in write()
    pending      \* what write() has not put into the ring yet

txVars == <<ring, fifo, wire, txim, txris, unmasked, at, pending>>

Places == {"idle", "test", "put", "store", "advance", "mask", "arm", "unmask"}

TransmitTypeOK ==
    /\ ring \in Rings
    /\ fifo \in Seq(Bytes) /\ Len(fifo) <= Depth
    /\ wire \in {<<>>} \cup {<<b>> : b \in Bytes}
    /\ txim \in BOOLEAN /\ txris \in BOOLEAN /\ unmasked \in BOOLEAN
    /\ at \in Places
    /\ pending \in Seq(Bytes)

TransmitInit ==
    /\ ring = EmptyRing
    /\ fifo = <<>>
    /\ wire = <<>>
    /\ txim = FALSE
    /\ txris = FALSE
    /\ unmasked = TRUE
    /\ at = "idle"
    /\ pending = <<>>

(***************************************************************************)
(* uart_irq_tx(): move bytes while there are any and the FIFO has room,    *)
(* and disable the transmit interrupt if none are left.  It runs with the  *)
(* interrupt masked or in the handler, in one piece either way.  Writing   *)
(* the FIFO above its trigger level withdraws the request.                 *)
(***************************************************************************)
Lesser(a, b) == IF a < b THEN a ELSE b

Moved == Lesser(Len(Contents(ring)), Depth - Len(fifo))

AlwaysDisabled == FALSE                                \* faulty variant
\* TXIM after the call: left as it was while bytes remain in the ring.
StillNeeded == Moved < Len(Contents(ring))

IrqTx(enabled) ==
    /\ ring' = [ring EXCEPT !.tail = (ring.tail + Moved) % Size]
    /\ fifo' = fifo \o SubSeq(Contents(ring), 1, Moved)
    /\ txris' = (txris /\ (Moved = 0 \/ Len(fifo') <= Trigger))
    /\ txim' = (enabled /\ StillNeeded)

\* The handler also runs for received bytes, at any moment, and calls
\* uart_irq_tx() each time.
Interrupt ==
    /\ unmasked
    /\ IrqTx(txim)
    /\ UNCHANGED <<wire, unmasked, at, pending>>

(***************************************************************************)
(* write(), statement by statement.                                        *)
(***************************************************************************)
CallWrite ==
    /\ at = "idle"
    /\ pending' \in UNION {[1..n -> Bytes] : n \in 0..MaxWrite}
    /\ at' = "test"
    /\ UNCHANGED <<ring, fifo, wire, txim, txris, unmasked>>

\* while (count < size && !tx.full())
TestFull ==
    /\ at = "test"
    /\ at' = IF pending # <<>> /\ ~IsFull(ring) THEN "put" ELSE "mask"
    /\ UNCHANGED <<ring, fifo, wire, txim, txris, unmasked, pending>>

\* put() tests again before it stores; an interrupt can only make room.
TestPut ==
    /\ at = "put"
    /\ at' = IF IsFull(ring) THEN "test" ELSE "store"
    /\ pending' = IF IsFull(ring) THEN Tail(pending) ELSE pending
    /\ UNCHANGED <<ring, fifo, wire, txim, txris, unmasked>>

StoreByte ==
    /\ at = "store"
    /\ ring' = Store(ring, Head(pending))
    /\ at' = "advance"
    /\ UNCHANGED <<fifo, wire, txim, txris, unmasked, pending>>

PublishByte ==
    /\ at = "advance"
    /\ ring' = AdvanceHead(ring)
    /\ pending' = Tail(pending)
    /\ at' = "test"
    /\ UNCHANGED <<fifo, wire, txim, txris, unmasked>>

MaskInterrupt ==
    /\ at = "mask"
    /\ unmasked' = FALSE
    /\ at' = "arm"
    /\ UNCHANGED <<ring, fifo, wire, txim, txris, pending>>

ArmUnfilled ==                                         \* faulty variant
    /\ at = "arm"
    /\ txim' = TRUE
    /\ at' = "unmask"
    /\ UNCHANGED <<ring, fifo, txris, wire, unmasked, pending>>

\* If the transmit interrupt is off: enable it and fill the FIFO by hand,
\* because the FIFO only asks when it drains through its trigger level.
Arm ==
    /\ at = "arm"
    /\ IF txim THEN UNCHANGED <<ring, fifo, txim, txris>> ELSE IrqTx(TRUE)
    /\ at' = "unmask"
    /\ UNCHANGED <<wire, unmasked, pending>>

\* write() returns; what the ring had no room for is not sent.
UnmaskInterrupt ==
    /\ at = "unmask"
    /\ unmasked' = TRUE
    /\ at' = "idle"
    /\ pending' = <<>>
    /\ UNCHANGED <<ring, fifo, wire, txim, txris>>

Write ==
    \/ TestFull \/ TestPut \/ StoreByte \/ PublishByte
    \/ MaskInterrupt \/ Arm \/ UnmaskInterrupt

(***************************************************************************)
(* The hardware shifts the oldest byte out, and asks for more when the     *)
(* FIFO drains through the trigger level.                                  *)
(***************************************************************************)
ShiftOut ==
    /\ fifo # <<>>
    /\ wire' = <<Head(fifo)>>
    /\ fifo' = Tail(fifo)
    /\ txris' = (txris \/ Len(fifo') = Trigger)
    /\ UNCHANGED <<ring, txim, unmasked, at, pending>>

TransmitNext == CallWrite \/ Write \/ Interrupt \/ ShiftOut

TransmitSpec == TransmitInit /\ [][TransmitNext]_txVars

\* The program goes on in write() and the line drains.  A requested and
\* enabled interrupt is taken, under strong fairness:
\* write() masks it for a moment in every call, and the processor takes a
\* pending interrupt as soon as it is unmasked.  Interrupts for received
\* bytes are not owed.
Requested == txim /\ txris /\ Interrupt

FairTransmit ==
    /\ TransmitSpec
    /\ WF_txVars(Write) /\ WF_txVars(ShiftOut) /\ SF_txVars(Requested)

(***************************************************************************)
(* Properties.                                                             *)
(***************************************************************************)
\* What is under way: first the FIFO's bytes, then the ring's.
Sending == fifo \o Contents(ring)

Channel == INSTANCE ByteChannel WITH
    Octets <- Bytes, Lossless <- TRUE,
    offered <- pending, queue <- Sending, taken <- wire

\* Bytes leave on the wire in the order write() was given them, each once,
\* whatever statement of write() the interrupt separates.
SendsInOrder == Channel!ChannelSpec

\* Bytes left in the ring when no write() is under way will be fetched: the
\* interrupt is enabled and either asked for or going to be, because the
\* FIFO is above its trigger level (PicoUart.cpp:79-85, 120-130).
NothingStranded ==
    at = "idle" /\ ~IsEmpty(ring) => txim /\ (txris \/ Len(fifo) > Trigger)

\* The line never stays silent while bytes are under way, even if nothing
\* more is written and nothing is received.
KeepsSending == []<>(Sending = <<>>) \/ []<><<ShiftOut>>_txVars
=============================================================================
