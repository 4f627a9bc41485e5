----------------------------- MODULE UartReceive -----------------------------
(***************************************************************************)
(* The receive side of PicoUart: the UART interrupt drains the hardware    *)
(* FIFO into a ring buffer, dropping what the ring has no room for, and    *)
(* read() takes bytes out of it.  The interrupt can separate any two       *)
(* statements of read(), but not the other way round; bytes arrive at any  *)
(* moment.  While write() masks the interrupt the FIFO fills up.           *)
(***************************************************************************)
EXTENDS RingBuffer

CONSTANTS
    Depth,       \* places in the hardware FIFO, 32 on the RP2040
    MaxLine,     \* bound on the bytes a device sends at once
    MaxRead      \* bound on the size asked of one read()

ASSUME ReceiveAssumption == Depth \in Nat /\ MaxLine \in Nat /\ MaxRead \in Nat

VARIABLES
    line,        \* what the device is sending, next byte first
    fifo,        \* the hardware's receive FIFO, oldest byte first
    ring,        \* rx
    inIsr,       \* the processor is in uart_irq_rx()
    at,          \* where the main program is
    wanted,      \* bytes read() may still return: size - count
    value,       \* get()'s local, or <<>>
    got          \* the byte read() handed over last, or <<>>

rxVars == <<line, fifo, ring, inIsr, at, wanted, value, got>>

Places == {"away", "masked", "test", "fetch", "advance"}

ReceiveTypeOK ==
    /\ line \in Seq(Bytes)
    /\ fifo \in Seq(Bytes) /\ Len(fifo) <= Depth
    /\ ring \in Rings
    /\ inIsr \in BOOLEAN
    /\ at \in Places
    /\ wanted \in 0..MaxRead
    /\ value \in {<<>>} \cup {<<b>> : b \in Bytes}
    /\ got \in {<<>>} \cup {<<b>> : b \in Bytes}

ReceiveInit ==
    /\ line = <<>> /\ fifo = <<>>
    /\ ring = EmptyRing
    /\ inIsr = FALSE
    /\ at = "away" /\ wanted = 0
    /\ value = <<>> /\ got = <<>>

(***************************************************************************)
(* The line and the hardware.                                              *)
(***************************************************************************)
DeviceSends ==
    /\ line = <<>>
    /\ line' \in UNION {[1..n -> Bytes] : n \in 1..MaxLine}
    /\ UNCHANGED <<fifo, ring, inIsr, at, wanted, value, got>>

\* A byte that finds the FIFO full is lost (overrun).
Arrive ==
    /\ line # <<>>
    /\ line' = Tail(line)
    /\ fifo' = IF Len(fifo) < Depth THEN Append(fifo, Head(line)) ELSE fifo
    /\ UNCHANGED <<ring, inIsr, at, wanted, value, got>>

(***************************************************************************)
(* uart_irq_rx(): while the FIFO is readable put its byte into the ring,   *)
(* and ignore put()'s answer.                                              *)
(***************************************************************************)
EnterIsr ==
    /\ ~inIsr /\ at # "masked"
    /\ fifo # <<>>
    /\ inIsr' = TRUE
    /\ UNCHANGED <<line, fifo, ring, at, wanted, value, got>>

DrainByte ==
    /\ inIsr /\ fifo # <<>>
    /\ ring' = Put(ring, Head(fifo))
    /\ fifo' = Tail(fifo)
    /\ UNCHANGED <<line, inIsr, at, wanted, value, got>>

LeaveIsr ==
    /\ inIsr /\ fifo = <<>>
    /\ inIsr' = FALSE
    /\ UNCHANGED <<line, fifo, ring, at, wanted, value, got>>

(***************************************************************************)
(* The main program: write()'s masked section, and read(), whose get()     *)
(* fetches the value, tests again and then advances tail.                  *)
(***************************************************************************)
Mask ==
    /\ ~inIsr /\ at \in {"away", "masked"}
    /\ at' = IF at = "away" THEN "masked" ELSE "away"
    /\ UNCHANGED <<line, fifo, ring, inIsr, wanted, value, got>>

CallRead ==
    /\ ~inIsr /\ at = "away"
    /\ wanted' \in 1..MaxRead
    /\ at' = "test"
    /\ UNCHANGED <<line, fifo, ring, inIsr, value, got>>

\* while (count < size && !rx.empty()), or read() returns.
TestEmpty ==
    /\ ~inIsr /\ at = "test"
    /\ IF wanted > 0 /\ ~IsEmpty(ring)
       THEN at' = "fetch" /\ UNCHANGED wanted
       ELSE at' = "away" /\ wanted' = 0
    /\ UNCHANGED <<line, fifo, ring, inIsr, value, got>>

Fetch ==
    /\ ~inIsr /\ at = "fetch"
    /\ value' = <<Oldest(ring)>>
    /\ at' = "advance"
    /\ UNCHANGED <<line, fifo, ring, inIsr, wanted, got>>

Advance ==
    /\ ~inIsr /\ at = "advance"
    /\ ring' = AdvanceTail(ring)
    /\ got' = value
    /\ value' = <<>>
    /\ wanted' = wanted - 1
    /\ at' = "test"
    /\ UNCHANGED <<line, fifo, inIsr>>

ReceiveNext ==
    \/ DeviceSends \/ Arrive
    \/ EnterIsr \/ DrainByte \/ LeaveIsr
    \/ Mask \/ CallRead \/ TestEmpty \/ Fetch \/ Advance

ReceiveSpec == ReceiveInit /\ [][ReceiveNext]_rxVars

(***************************************************************************)
(* Properties.                                                             *)
(***************************************************************************)
Channel == INSTANCE ByteChannel WITH
    Octets <- Bytes, Lossless <- FALSE,
    offered <- line, queue <- Contents(ring) \o fifo, taken <- got

\* read() hands bytes over in the order of the line, none twice and none
\* that never arrived, although the interrupt fills the ring between get()
\* fetching a value and moving tail.  Bytes may be missing.
ReadsInOrder == Channel!ChannelSpec

\* The interrupt throws a byte away only when Size - 1 unread bytes wait: an
\* answer that fits the ring is whole if nothing was left over from earlier
\* ones (PicoUart.cpp:111-116).
DroppedOnlyWhenFull ==
    [][Len(fifo') < Len(fifo) /\ Contents(ring') = Contents(ring)
       => Len(Contents(ring)) = Size - 1]_rxVars
=============================================================================
