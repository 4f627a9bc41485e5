------------------------- MODULE UartTransmit_proofs -------------------------
(***************************************************************************)
(* Proofs about UartTransmit, for every size of the ring and of the FIFO   *)
(* and every trigger level below its depth.                                *)
(***************************************************************************)
EXTENDS UartTransmit, RingBuffer_proofs

(***************************************************************************)
(* The invariant that is inductive.  Between test and store no step but an *)
(* interrupt touches the ring, so that its slot stays free.  The interrupt *)
(* is enabled only while the FIFO has asked or will ask for more, and      *)
(* write() leaves only after it enabled it or emptied the ring.            *)
(***************************************************************************)
RoomForByte ==
    /\ at \in {"put", "store", "advance"} => pending # <<>>
    /\ at \in {"store", "advance"} => ~IsFull(ring)
    /\ at = "advance" => ring.buffer[ring.head] = Head(pending)

WillAsk == txim => txris \/ Len(fifo) > Trigger

Enabled == at \in {"idle", "unmask"} /\ ~IsEmpty(ring) => txim

IInv == TransmitTypeOK /\ RoomForByte /\ WillAsk /\ Enabled

LEMMA FifoTypes ==
    ASSUME TransmitTypeOK
    PROVE  /\ Len(fifo) \in Nat /\ Len(fifo) <= Depth
           /\ Depth \in Nat /\ Trigger \in Nat /\ Trigger < Depth
           /\ Count(ring) \in Nat
           /\ Contents(ring) \in Seq(Bytes) /\ Len(Contents(ring)) = Count(ring)
BY FifoAssumption, CountIs, ContentsAre DEF TransmitTypeOK

\* What uart_irq_tx() moves: everything there is, or as much as fills the FIFO.
LEMMA MovedIs ==
    ASSUME TransmitTypeOK
    PROVE  /\ Moved \in 0..Count(ring)
           /\ Moved = Count(ring) \/ (Moved < Count(ring) /\ Moved = Depth - Len(fifo))
           /\ Len(fifo) + Moved <= Depth
           /\ SubSeq(Contents(ring), 1, Moved) \in Seq(Bytes)
           /\ Len(SubSeq(Contents(ring), 1, Moved)) = Moved
           /\ \A i \in 1..Moved : SubSeq(Contents(ring), 1, Moved)[i] = Contents(ring)[i]
<1>1. /\ Moved \in 0..Count(ring)
      /\ Moved = Count(ring) \/ (Moved < Count(ring) /\ Moved = Depth - Len(fifo))
      /\ Len(fifo) + Moved <= Depth
    BY FifoTypes DEF Moved, Lesser
<1>2. \A i \in 1..Moved : Contents(ring)[i] \in Bytes
    BY <1>1, FifoTypes, ElementOfSeq
<1>3. /\ SubSeq(Contents(ring), 1, Moved) \in Seq(Bytes)
      /\ Len(SubSeq(Contents(ring), 1, Moved)) = IF 1 <= Moved THEN Moved - 1 + 1 ELSE 0
      /\ \A i \in 1..(Moved - 1 + 1) :
            SubSeq(Contents(ring), 1, Moved)[i] = Contents(ring)[1 + i - 1]
    <2>1. Moved \in Int
        BY <1>1, FifoTypes
    <2> QED BY <1>2, <2>1, SubSeqProperties
<1> QED BY <1>1, <1>3, FifoTypes

\* uart_irq_tx() moves bytes from the ring to the FIFO and changes neither
\* their number nor their order.
LEMMA IrqKeepsBytes ==
    ASSUME TransmitTypeOK, NEW enabled \in BOOLEAN, IrqTx(enabled)
    PROVE  /\ ring' \in Rings
           /\ ring'.head = ring.head /\ ring'.buffer = ring.buffer
           /\ fifo' \in Seq(Bytes) /\ Len(fifo') = Len(fifo) + Moved
           /\ Count(ring') = Count(ring) - Moved
           /\ fifo' \o Contents(ring') = fifo \o Contents(ring)
<1>1. ring \in Rings /\ fifo \in Seq(Bytes)
    BY DEF TransmitTypeOK
<1>2. ring' = [ring EXCEPT !.tail = (ring.tail + Moved) % Size]
    BY DEF IrqTx
<1>3. /\ ring' \in Rings
      /\ Count(ring') = Count(ring) - Moved
      /\ \A i \in 1..Count(ring') : Contents(ring')[i] = Contents(ring)[i + Moved]
    BY <1>1, <1>2, MovedIs, Taking
<1>4. ring'.head = ring.head /\ ring'.buffer = ring.buffer
    BY <1>1, <1>2 DEF Rings
<1>5. fifo' = fifo \o SubSeq(Contents(ring), 1, Moved)
    BY DEF IrqTx
<1>6. /\ Contents(ring) \in Seq(Bytes) /\ Len(Contents(ring)) = Count(ring)
      /\ Contents(ring') \in Seq(Bytes) /\ Len(Contents(ring')) = Count(ring')
    BY <1>1, <1>3, ContentsAre
<1>7. /\ fifo' \in Seq(Bytes) /\ Len(fifo') = Len(fifo) + Moved
      /\ fifo' \o Contents(ring') = fifo \o Contents(ring)
    <2> DEFINE old == Contents(ring)
               left == Contents(ring')
               part == SubSeq(Contents(ring), 1, Moved)
               n == Moved
    <2>1. old \in Seq(Bytes) /\ left \in Seq(Bytes) /\ fifo \in Seq(Bytes)
        BY <1>1, <1>6
    <2>2. part \in Seq(Bytes) /\ n \in 0..Len(old)
        BY <1>6, MovedIs
    <2>3. Splits(old, n, part, left)
        BY <1>3, <1>6, MovedIs DEF Splits
    <2>4. fifo' = fifo \o part
        BY <1>5
    <2> HIDE DEF old, left, part, n
    <2>5. /\ fifo \o part \in Seq(Bytes) /\ Len(fifo \o part) = Len(fifo) + n
          /\ (fifo \o part) \o left = fifo \o old
        BY <2>1, <2>2, <2>3, Moving, ZenonT(60)
    <2> QED BY <2>4, <2>5 DEF old, left, n
<1> QED BY <1>3, <1>4, <1>7

\* After the call the interrupt is enabled only with a full FIFO.
LEMMA IrqLeaves ==
    ASSUME TransmitTypeOK, NEW enabled \in BOOLEAN, IrqTx(enabled), WillAsk
    PROVE  /\ Len(fifo') <= Depth
           /\ txim' \in BOOLEAN /\ txris' \in BOOLEAN
           /\ WillAsk'
           /\ ~IsEmpty(ring') /\ enabled => txim'
<1>1. Len(fifo') = Len(fifo) + Moved /\ ring' \in Rings /\ Count(ring') = Count(ring) - Moved
    BY IrqKeepsBytes
<1>2. txim' = (enabled /\ StillNeeded)
    BY DEF IrqTx
<1>3. StillNeeded <=> Moved < Count(ring)
    BY FifoTypes DEF StillNeeded
<1>4. StillNeeded => Len(fifo') > Trigger
    BY <1>1, <1>3, FifoTypes, MovedIs
<1>5. ~IsEmpty(ring') => StillNeeded
    BY <1>1, <1>3, EmptyIsEmpty, FifoTypes, MovedIs
<1>6. Len(fifo') <= Depth
    BY <1>1, MovedIs
<1>7. txim' \in BOOLEAN /\ txris' \in BOOLEAN
    BY DEF IrqTx, TransmitTypeOK, StillNeeded
<1> QED BY <1>2, <1>4, <1>5, <1>6, <1>7 DEF WillAsk

\* A ring is full when Size - 1 bytes are in it.
LEMMA FullIs ==
    ASSUME NEW r \in Rings
    PROVE  IsFull(r) <=> Count(r) = Size - 1
<1>1. NextSlot(r.head) = IF r.head + 1 < Size THEN r.head + 1 ELSE 0
    <2>1. r.head + 1 \in Int /\ 0 <= r.head + 1
          /\ r.head + 1 < 2 * Size
        BY RingTypes
    <2> QED BY <2>1, Sum, RingTypes, SMTT(60) DEF NextSlot
<1> QED BY <1>1, CountIs, RingTypes DEF IsFull

LEMMA WriteArguments ==
    ASSUME NEW p \in UNION {[1..n -> Bytes] : n \in 0..MaxWrite}
    PROVE  p \in Seq(Bytes)
<1>1. PICK n \in 0..MaxWrite : p \in [1..n -> Bytes]
    OBVIOUS
<1>2. n \in Nat
    BY FifoAssumption
<1> QED BY <1>1, <1>2

LEMMA InitIInv == TransmitInit => IInv
<1> SUFFICES ASSUME TransmitInit PROVE IInv
    OBVIOUS
<1> USE DEF TransmitInit
<1>1. EmptyRing \in Rings
    BY RingAssumption DEF EmptyRing, Rings, Slots
<1>2. IsEmpty(ring)
    BY DEF EmptyRing, IsEmpty
<1>3. TransmitTypeOK
    <2>1. fifo \in Seq(Bytes) /\ pending \in Seq(Bytes)
        OBVIOUS
    <2>2. Len(fifo) <= Depth
        BY FifoAssumption
    <2> QED BY <1>1, <2>1, <2>2 DEF TransmitTypeOK, Places
<1> QED BY <1>2, <1>3 DEF IInv, RoomForByte, WillAsk, Enabled

(***************************************************************************)
(* One lemma per kind of step.                                             *)
(***************************************************************************)
\* An interrupt makes room in the ring and leaves the slot being written.
LEMMA InterruptKeepsIInv == IInv /\ Interrupt => IInv'
<1> SUFFICES ASSUME IInv, Interrupt PROVE IInv'
    OBVIOUS
<1> USE DEF IInv
<1>1. /\ IrqTx(txim) /\ txim \in BOOLEAN
      /\ wire' = wire /\ unmasked' = unmasked /\ at' = at /\ pending' = pending
    BY DEF Interrupt, TransmitTypeOK
<1>2. /\ ring' \in Rings /\ ring'.head = ring.head /\ ring'.buffer = ring.buffer
      /\ fifo' \in Seq(Bytes) /\ Count(ring') = Count(ring) - Moved
    BY <1>1, IrqKeepsBytes
<1>3. /\ Len(fifo') <= Depth /\ txim' \in BOOLEAN /\ txris' \in BOOLEAN
      /\ WillAsk' /\ (~IsEmpty(ring') /\ txim => txim')
    BY <1>1, IrqLeaves
<1>4. TransmitTypeOK'
    BY <1>1, <1>2, <1>3 DEF TransmitTypeOK
<1>5. ~IsFull(ring) => ~IsFull(ring')
    <2>1. ring \in Rings /\ Count(ring) < Size /\ Size \in Nat
        BY CountIs, RingAssumption DEF TransmitTypeOK
    <2>2. (IsFull(ring) <=> Count(ring) = Size - 1)
          /\ (IsFull(ring') <=> Count(ring') = Size - 1)
        BY <1>2, <2>1, FullIs
    <2>3. Count(ring) \in Nat /\ Moved \in 0..Count(ring)
        BY FifoTypes, MovedIs
    <2> QED BY <1>2, <2>1, <2>2, <2>3
<1>6. RoomForByte'
    BY <1>1, <1>2, <1>5 DEF RoomForByte
<1>7. ~IsEmpty(ring') => ~IsEmpty(ring)
    BY <1>2, EmptyIsEmpty, MovedIs, FifoTypes DEF TransmitTypeOK
<1>8. Enabled'
    BY <1>1, <1>3, <1>7 DEF Enabled
<1> QED BY <1>3, <1>4, <1>6, <1>8

\* Arm calls uart_irq_tx() itself, unless the interrupt is enabled already.
LEMMA ArmKeepsIInv == IInv /\ Arm => IInv'
<1> SUFFICES ASSUME IInv, Arm PROVE IInv'
    OBVIOUS
<1> USE DEF IInv
<1>1. /\ at = "arm" /\ at' = "unmask"
      /\ wire' = wire /\ unmasked' = unmasked /\ pending' = pending
    BY DEF Arm
<1>2. RoomForByte'
    BY <1>1 DEF RoomForByte
<1>3. CASE txim
    <2>1. ring' = ring /\ fifo' = fifo /\ txim' = txim /\ txris' = txris
        BY <1>3 DEF Arm
    <2>2. TransmitTypeOK'
        BY <1>1, <2>1 DEF TransmitTypeOK, Places
    <2> QED BY <1>1, <1>2, <1>3, <2>1, <2>2 DEF WillAsk, Enabled
<1>4. CASE ~txim
    <2>1. IrqTx(TRUE)
        BY <1>4 DEF Arm
    <2>2. ring' \in Rings /\ fifo' \in Seq(Bytes)
        BY <2>1, IrqKeepsBytes
    <2>3. /\ Len(fifo') <= Depth /\ txim' \in BOOLEAN /\ txris' \in BOOLEAN
          /\ WillAsk' /\ (~IsEmpty(ring') => txim')
        BY <2>1, IrqLeaves
    <2>4. TransmitTypeOK'
        BY <1>1, <2>2, <2>3 DEF TransmitTypeOK, Places
    <2> QED BY <1>2, <2>3, <2>4 DEF Enabled
<1> QED BY <1>3, <1>4

\* Storing and publishing a byte, both in the free slot at head.
LEMMA StoringKeepsIInv == IInv /\ StoreByte => IInv'
<1> SUFFICES ASSUME IInv, StoreByte PROVE IInv'
    OBVIOUS
<1> USE DEF IInv
<1>1. /\ at = "store" /\ at' = "advance" /\ ring' = Store(ring, Head(pending))
      /\ fifo' = fifo /\ wire' = wire /\ txim' = txim /\ txris' = txris
      /\ unmasked' = unmasked /\ pending' = pending
    BY DEF StoreByte
<1>2. ring \in Rings /\ pending \in Seq(Bytes) /\ pending # <<>> /\ ~IsFull(ring)
    BY <1>1 DEF TransmitTypeOK, RoomForByte
<1>3. Head(pending) \in Bytes
    BY <1>2, HeadTailProperties
<1>4. /\ ring' \in Rings /\ ring'.head = ring.head /\ ring'.tail = ring.tail
      /\ ring'.buffer[ring.head] = Head(pending)
    BY <1>1, <1>2, <1>3, Storing
<1>5. TransmitTypeOK'
    BY <1>1, <1>4 DEF TransmitTypeOK, Places
<1>6. RoomForByte'
    BY <1>1, <1>2, <1>4 DEF RoomForByte, IsFull
<1>7. WillAsk' /\ Enabled'
    BY <1>1 DEF WillAsk, Enabled
<1> QED BY <1>5, <1>6, <1>7

LEMMA PublishingKeepsIInv == IInv /\ PublishByte => IInv'
<1> SUFFICES ASSUME IInv, PublishByte PROVE IInv'
    OBVIOUS
<1> USE DEF IInv
<1>1. /\ at = "advance" /\ at' = "test" /\ ring' = AdvanceHead(ring)
      /\ fifo' = fifo /\ wire' = wire /\ txim' = txim /\ txris' = txris
      /\ unmasked' = unmasked /\ pending' = Tail(pending)
    BY DEF PublishByte
<1>2. ring \in Rings /\ pending \in Seq(Bytes) /\ pending # <<>> /\ ~IsFull(ring)
    BY <1>1 DEF TransmitTypeOK, RoomForByte
<1>3. ring' \in Rings /\ pending' \in Seq(Bytes)
    BY <1>1, <1>2, Publishing, HeadTailProperties
<1>4. TransmitTypeOK'
    BY <1>1, <1>3 DEF TransmitTypeOK, Places
<1>5. RoomForByte' /\ WillAsk' /\ Enabled'
    BY <1>1 DEF RoomForByte, WillAsk, Enabled
<1> QED BY <1>4, <1>5

\* The line drains the FIFO: passing the trigger level raises the request.
LEMMA ShiftingKeepsIInv == IInv /\ ShiftOut => IInv'
<1> SUFFICES ASSUME IInv, ShiftOut PROVE IInv'
    OBVIOUS
<1> USE DEF IInv
<1>1. /\ fifo # <<>> /\ wire' = <<Head(fifo)>> /\ fifo' = Tail(fifo)
      /\ ring' = ring /\ txim' = txim /\ unmasked' = unmasked
      /\ at' = at /\ pending' = pending
      /\ txris' = (txris \/ Len(fifo') = Trigger)
    BY DEF ShiftOut
<1>2. fifo \in Seq(Bytes) /\ Len(fifo) \in Nat /\ Len(fifo) <= Depth
      /\ Depth \in Nat /\ Trigger \in Nat
    BY FifoTypes DEF TransmitTypeOK
<1>3. Head(fifo) \in Bytes /\ fifo' \in Seq(Bytes) /\ Len(fifo') = Len(fifo) - 1
    BY <1>1, <1>2, HeadTailProperties
<1>4. TransmitTypeOK'
    <2>1. Len(fifo') <= Depth
        BY <1>2, <1>3
    <2>2. wire' \in {<<>>} \cup {<<b>> : b \in Bytes}
        BY <1>1, <1>3
    <2> QED BY <1>1, <1>3, <2>1, <2>2 DEF TransmitTypeOK
<1>5. WillAsk'
    <2>1. Len(fifo) > Trigger => Len(fifo') > Trigger \/ Len(fifo') = Trigger
        BY <1>2, <1>3
    <2> QED BY <1>1, <2>1 DEF WillAsk
<1>6. RoomForByte' /\ Enabled'
    BY <1>1 DEF RoomForByte, Enabled
<1> QED BY <1>4, <1>5, <1>6

\* The steps of write() that only move its place or its arguments.
LEMMA ControlKeepsIInv ==
    IInv /\ (CallWrite \/ TestFull \/ TestPut \/ MaskInterrupt \/ UnmaskInterrupt)
        => IInv'
<1> SUFFICES ASSUME IInv,
                    CallWrite \/ TestFull \/ TestPut \/ MaskInterrupt \/ UnmaskInterrupt
             PROVE  IInv'
    OBVIOUS
<1> USE DEF IInv
<1>1. /\ ring' = ring /\ fifo' = fifo /\ wire' = wire
      /\ txim' = txim /\ txris' = txris
    BY DEF CallWrite, TestFull, TestPut, MaskInterrupt, UnmaskInterrupt
<1>2. WillAsk'
    BY <1>1 DEF WillAsk
<1>3. /\ unmasked' \in BOOLEAN /\ at' \in Places /\ pending' \in Seq(Bytes)
      /\ RoomForByte' /\ Enabled'
    <2>1. CASE CallWrite
        <3>1. at = "idle" /\ at' = "test" /\ unmasked' = unmasked /\ pending' \in Seq(Bytes)
            BY <2>1, WriteArguments DEF CallWrite
        <3> QED BY <3>1 DEF TransmitTypeOK, Places, RoomForByte, Enabled
    <2>2. CASE TestFull
        <3>1. /\ at = "test" /\ unmasked' = unmasked /\ pending' = pending
              /\ at' = IF pending # <<>> /\ ~IsFull(ring) THEN "put" ELSE "mask"
            BY <2>2 DEF TestFull
        <3> QED BY <1>1, <3>1 DEF TransmitTypeOK, Places, RoomForByte, Enabled
    <2>3. CASE TestPut
        <3>1. /\ at = "put" /\ unmasked' = unmasked
              /\ at' = IF IsFull(ring) THEN "test" ELSE "store"
              /\ pending' = IF IsFull(ring) THEN Tail(pending) ELSE pending
            BY <2>3 DEF TestPut
        <3>2. pending \in Seq(Bytes) /\ pending # <<>>
            BY <3>1 DEF TransmitTypeOK, RoomForByte
        <3>3. pending' \in Seq(Bytes)
            BY <3>1, <3>2, HeadTailProperties
        <3> QED BY <1>1, <3>1, <3>2, <3>3 DEF TransmitTypeOK, Places, RoomForByte, Enabled
    <2>4. CASE MaskInterrupt
        <3>1. at' = "arm" /\ unmasked' = FALSE /\ pending' = pending
            BY <2>4 DEF MaskInterrupt
        <3> QED BY <3>1 DEF TransmitTypeOK, Places, RoomForByte, Enabled
    <2>5. CASE UnmaskInterrupt
        <3>1. at = "unmask" /\ at' = "idle" /\ unmasked' = TRUE /\ pending' = <<>>
            BY <2>5 DEF UnmaskInterrupt
        <3>2. pending' \in Seq(Bytes)
            BY <3>1
        <3> QED BY <1>1, <3>1, <3>2 DEF Places, RoomForByte, Enabled
    <2> QED BY <2>1, <2>2, <2>3, <2>4, <2>5
<1>4. TransmitTypeOK'
    BY <1>1, <1>3 DEF TransmitTypeOK
<1> QED BY <1>2, <1>3, <1>4

LEMMA NextKeepsIInv == IInv /\ [TransmitNext]_txVars => IInv'
<1> SUFFICES ASSUME IInv, [TransmitNext]_txVars PROVE IInv'
    OBVIOUS
<1>1. CASE Interrupt
    BY <1>1, InterruptKeepsIInv
<1>2. CASE Arm
    BY <1>2, ArmKeepsIInv
<1>3. CASE StoreByte
    BY <1>3, StoringKeepsIInv
<1>4. CASE PublishByte
    BY <1>4, PublishingKeepsIInv
<1>5. CASE ShiftOut
    BY <1>5, ShiftingKeepsIInv
<1>6. CASE CallWrite \/ TestFull \/ TestPut \/ MaskInterrupt \/ UnmaskInterrupt
    BY <1>6, ControlKeepsIInv
<1>7. CASE UNCHANGED txVars
    BY <1>7 DEF txVars, IInv, TransmitTypeOK, RoomForByte, WillAsk, Enabled
<1> QED BY <1>1, <1>2, <1>3, <1>4, <1>5, <1>6, <1>7 DEF TransmitNext, Write

LEMMA IInvHolds == TransmitSpec => []IInv
<1> QED BY InitIInv, NextKeepsIInv, PTL DEF TransmitSpec

\* The ring's indices stay inside the ring and the FIFO is never overfilled,
\* whatever statement of write() the UART interrupt separates.
THEOREM TransmitTypes == TransmitSpec => []TransmitTypeOK
<1>1. IInv => TransmitTypeOK
    BY DEF IInv
<1> QED BY IInvHolds, <1>1, PTL

\* When write() has returned with bytes left in the ring, the transmit
\* interrupt is enabled and either asked for or still to be asked for
\* (PicoUart.cpp:79-85, 120-130).
THEOREM BytesNotStranded == TransmitSpec => []NothingStranded
<1>1. IInv => NothingStranded
    BY DEF IInv, WillAsk, Enabled, NothingStranded
<1> QED BY IInvHolds, <1>1, PTL

(***************************************************************************)
(* The byte channel.  A byte is accepted when head moves past it and       *)
(* delivered when it leaves the FIFO; the interrupt only moves bytes from  *)
(* one half of the queue to the other.                                     *)
(***************************************************************************)
LEMMA StutterOrOffer ==
    ASSUME wire' = wire, Sending' = Sending, pending' \in Seq(Bytes)
    PROVE  [Channel!ChannelNext]_(Channel!channelVars)
BY DEF Channel!ChannelNext, Channel!channelVars, Channel!Offer

LEMMA ShiftDelivers == IInv /\ ShiftOut => Channel!Deliver
<1> SUFFICES ASSUME IInv, ShiftOut PROVE Channel!Deliver
    OBVIOUS
<1>1. /\ fifo # <<>> /\ wire' = <<Head(fifo)>> /\ fifo' = Tail(fifo)
      /\ ring' = ring /\ pending' = pending
    BY DEF ShiftOut
<1>2. fifo \in Seq(Bytes) /\ Contents(ring) \in Seq(Bytes)
    BY FifoTypes DEF IInv, TransmitTypeOK
<1>3. Sending # <<>> /\ Head(Sending) = Head(fifo) /\ Tail(Sending) = Tail(fifo) \o Contents(ring)
    BY <1>1, <1>2, Delivering DEF Sending
<1> QED BY <1>1, <1>3 DEF Channel!Deliver, Sending

LEMMA PublishAccepts == IInv /\ PublishByte => Channel!Accept
<1> SUFFICES ASSUME IInv, PublishByte PROVE Channel!Accept
    OBVIOUS
<1>1. /\ at = "advance" /\ ring' = AdvanceHead(ring)
      /\ fifo' = fifo /\ wire' = wire /\ pending' = Tail(pending)
    BY DEF PublishByte
<1>2. /\ ring \in Rings /\ ~IsFull(ring) /\ pending # <<>>
      /\ ring.buffer[ring.head] = Head(pending)
    BY <1>1 DEF IInv, TransmitTypeOK, RoomForByte
<1>3. Contents(ring') = Append(Contents(ring), Head(pending)) /\ Head(pending) \in Bytes
    BY <1>1, <1>2, Publishing
<1>4. fifo \in Seq(Bytes) /\ Contents(ring) \in Seq(Bytes)
    BY FifoTypes DEF IInv, TransmitTypeOK
<1>5. Sending' = Append(Sending, Head(pending))
    BY <1>1, <1>3, <1>4, Accepting DEF Sending
<1> QED BY <1>1, <1>2, <1>5 DEF Channel!Accept

\* Every other step leaves the bytes under way as they are.
LEMMA OthersOffer ==
    ASSUME IInv, [TransmitNext]_txVars, ~ShiftOut, ~PublishByte
    PROVE  wire' = wire /\ Sending' = Sending
<1>1. TransmitTypeOK /\ ring \in Rings /\ pending \in Seq(Bytes)
    BY DEF IInv, TransmitTypeOK
<1>2. CASE Interrupt
    <2>1. IrqTx(txim) /\ txim \in BOOLEAN /\ wire' = wire
        BY <1>1, <1>2 DEF Interrupt, TransmitTypeOK
    <2> QED BY <1>1, <2>1, IrqKeepsBytes DEF Sending
<1>3. CASE Arm
    <2>1. CASE txim
        BY <1>3, <2>1 DEF Arm, Sending
    <2>2. CASE ~txim
        <3>1. IrqTx(TRUE) /\ wire' = wire
            BY <1>3, <2>2 DEF Arm
        <3> QED BY <1>1, <3>1, IrqKeepsBytes DEF Sending
    <2> QED BY <2>1, <2>2
<1>4. CASE StoreByte
    <2>1. /\ ring' = Store(ring, Head(pending)) /\ fifo' = fifo /\ wire' = wire
          /\ at = "store"
        BY <1>4 DEF StoreByte
    <2>2. Head(pending) \in Bytes
        BY <1>1, <2>1, HeadTailProperties DEF IInv, RoomForByte
    <2> QED BY <1>1, <2>1, <2>2, Storing DEF Sending
<1>5. CASE CallWrite \/ TestFull \/ TestPut \/ MaskInterrupt \/ UnmaskInterrupt
    BY <1>5 DEF Sending, CallWrite, TestFull, TestPut, MaskInterrupt, UnmaskInterrupt
<1>6. CASE UNCHANGED txVars
    BY <1>6 DEF txVars, Sending
<1> QED BY <1>2, <1>3, <1>4, <1>5, <1>6 DEF TransmitNext, Write

LEMMA StepRefines ==
    ASSUME IInv, IInv', [TransmitNext]_txVars
    PROVE  [Channel!ChannelNext]_(Channel!channelVars)
<1>1. CASE ShiftOut
    BY <1>1, ShiftDelivers DEF Channel!ChannelNext
<1>2. CASE PublishByte
    BY <1>2, PublishAccepts DEF Channel!ChannelNext
<1>3. CASE ~ShiftOut /\ ~PublishByte
    <2>1. pending' \in Seq(Bytes)
        BY DEF IInv, TransmitTypeOK
    <2> QED BY <1>3, <2>1, OthersOffer, StutterOrOffer
<1> QED BY <1>1, <1>2, <1>3

LEMMA InitRefines == TransmitInit => Channel!ChannelInit
<1> SUFFICES ASSUME TransmitInit PROVE Channel!ChannelInit
    OBVIOUS
<1>1. ring \in Rings /\ IsEmpty(ring)
    BY InitIInv DEF IInv, TransmitTypeOK, TransmitInit, EmptyRing, IsEmpty
<1>2. Contents(ring) = <<>>
    BY <1>1, EmptyIsEmpty
<1> QED BY <1>2 DEF TransmitInit, Channel!ChannelInit, Sending

\* Bytes leave on the wire in the order write() was given them, each once
\* and none invented, for every size of the ring and of the FIFO.
THEOREM TransmitRefinesChannel == TransmitSpec => SendsInOrder
<1> QED BY InitRefines, IInvHolds, StepRefines, PTL
        DEF TransmitSpec, SendsInOrder, Channel!ChannelSpec
=============================================================================
