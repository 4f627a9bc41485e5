-------------------------- MODULE UartReceive_proofs --------------------------
(***************************************************************************)
(* Proofs about UartReceive, for every size of the ring and depth of the   *)
(* FIFO.                                                                   *)
(***************************************************************************)
EXTENDS UartReceive, RingBuffer_proofs

(***************************************************************************)
(* The invariant that is inductive.  Between read()'s test and its two     *)
(* statements only the interrupt touches the ring, and the interrupt moves *)
(* only head: the ring does not become empty, and the byte that was        *)
(* fetched stays the oldest until tail moves.                              *)
(***************************************************************************)
ByteWaits ==
    /\ at \in {"fetch", "advance"} => wanted > 0 /\ ~IsEmpty(ring)
    /\ at = "advance" => value = <<Oldest(ring)>>

IInv == ReceiveTypeOK /\ ByteWaits

\* The two halves of the queue, in the ring and in the FIFO.
Waiting == Contents(ring) \o fifo

LEMMA HalvesAre ==
    ASSUME ReceiveTypeOK
    PROVE  /\ ring \in Rings /\ fifo \in Seq(Bytes) /\ line \in Seq(Bytes)
           /\ Contents(ring) \in Seq(Bytes) /\ Len(Contents(ring)) = Count(ring)
           /\ Len(fifo) \in Nat /\ Count(ring) \in Nat
BY ContentsAre, CountIs DEF ReceiveTypeOK

\* put() without interruption: the byte joins the queue, or the ring is full.
LEMMA Putting ==
    ASSUME NEW r \in Rings, NEW b \in Bytes
    PROVE  /\ Put(r, b) \in Rings
           /\ IsFull(r) => Put(r, b) = r
           /\ ~IsFull(r) => Contents(Put(r, b)) = Append(Contents(r), b)
<1>1. CASE IsFull(r)
    BY <1>1 DEF Put
<1>2. CASE ~IsFull(r)
    <2> DEFINE s == Store(r, b)
    <2>1. /\ s \in Rings /\ Contents(s) = Contents(r)
          /\ s.head = r.head /\ s.tail = r.tail /\ s.buffer[r.head] = b
        BY Storing
    <2>2. Put(r, b) = AdvanceHead(s) /\ ~IsFull(s)
        BY <1>2, <2>1 DEF Put, IsFull
    <2> HIDE DEF s
    <2> QED BY <1>2, <2>1, <2>2, Publishing
<1> QED BY <1>1, <1>2

\* put() touches neither tail nor a byte that waits.
LEMMA PuttingKeepsOldest ==
    ASSUME NEW r \in Rings, NEW b \in Bytes, ~IsEmpty(r)
    PROVE  ~IsEmpty(Put(r, b)) /\ Oldest(Put(r, b)) = Oldest(r)
<1>1. CASE IsFull(r)
    BY <1>1 DEF Put
<1>2. CASE ~IsFull(r)
    <2>1. Put(r, b).head = NextSlot(r.head) /\ Put(r, b).tail = r.tail
          /\ Put(r, b).buffer = [r.buffer EXCEPT ![r.head] = b]
        BY <1>2 DEF Put, AdvanceHead, Store, Rings
    <2>2. r.head # r.tail /\ r.tail \in Slots
        BY RingTypes DEF IsEmpty, Slots
    <2> QED BY <1>2, <2>1, <2>2, RingTypes DEF IsEmpty, IsFull, Oldest
<1> QED BY <1>1, <1>2

\* get()'s second statement takes the oldest byte off the queue.
LEMMA Getting ==
    ASSUME NEW r \in Rings, ~IsEmpty(r)
    PROVE  /\ AdvanceTail(r) \in Rings
           /\ Contents(r) # <<>> /\ Oldest(r) = Head(Contents(r))
           /\ Contents(AdvanceTail(r)) = Tail(Contents(r))
<1> DEFINE q == AdvanceTail(r)
<1>1. Count(r) \in Nat /\ Count(r) > 0 /\ Contents(r) # <<>>
    BY CountIs, EmptyIsEmpty
<1>2. q = [r EXCEPT !.tail = (r.tail + 1) % Size]
    BY DEF AdvanceTail, NextSlot
<1>3. 1 \in 0..Count(r)
    BY <1>1
<1>4. /\ q \in Rings /\ Count(q) = Count(r) - 1
      /\ \A i \in 1..Count(q) : Contents(q)[i] = Contents(r)[i + 1]
    <2> HIDE DEF q
    <2> QED BY <1>2, <1>3, Taking
<1>5. Contents(r) \in Seq(Bytes) /\ Len(Contents(r)) = Count(r)
      /\ Contents(q) \in Seq(Bytes) /\ Len(Contents(q)) = Count(q)
    <2> HIDE DEF q
    <2> QED BY <1>4, ContentsAre
<1>6. Oldest(r) = Head(Contents(r))
    <2>1. 1 \in 1..Count(r)
        BY <1>1
    <2>2. (r.tail + 1 - 1) % Size = r.tail
        BY RingTypes
    <2>3. Contents(r)[1] = r.buffer[r.tail]
        BY <2>1, <2>2, ContentsAre
    <2> QED BY <1>1, <1>5, <2>3 DEF Oldest
<1>7. Contents(q) = Tail(Contents(r))
    <2>1. /\ Tail(Contents(r)) \in Seq(Bytes) /\ Len(Tail(Contents(r))) = Count(r) - 1
          /\ \A i \in 1..Len(Tail(Contents(r))) : Tail(Contents(r))[i] = Contents(r)[i + 1]
        BY <1>1, <1>5, HeadTailProperties
    <2> HIDE DEF q
    <2> QED BY <1>4, <1>5, <2>1, SeqEqual
<1> QED BY <1>1, <1>4, <1>6, <1>7

\* One slot stays free.
LEMMA FullHolds ==
    ASSUME NEW r \in Rings, IsFull(r)
    PROVE  Count(r) = Size - 1
<1>1. NextSlot(r.head) = IF r.head + 1 < Size THEN r.head + 1 ELSE 0
    <2>1. r.head + 1 \in Int /\ 0 <= r.head + 1 /\ r.head + 1 < 2 * Size
        BY RingTypes
    <2> QED BY <2>1, Sum, RingTypes, SMTT(60) DEF NextSlot
<1>2. Count(r) = IF r.tail <= r.head THEN r.head - r.tail
                 ELSE r.head - r.tail + Size
    BY CountIs
<1>3. r.tail = IF r.head + 1 < Size THEN r.head + 1 ELSE 0
    BY <1>1 DEF IsFull
<1>4. /\ Size \in Nat /\ r.head \in Int /\ r.tail \in Int
      /\ 0 <= r.head /\ r.head < Size
    BY RingTypes
<1> QED BY <1>2, <1>3, <1>4

-----------------------------------------------------------------------------
(* The invariant.                                                          *)

LEMMA InitIInv == ReceiveInit => IInv /\ Waiting = <<>>
<1> SUFFICES ASSUME ReceiveInit PROVE IInv /\ Waiting = <<>>
    OBVIOUS
<1>1. ring \in Rings /\ IsEmpty(ring)
    BY RingAssumption DEF ReceiveInit, EmptyRing, Rings, Slots, IsEmpty
<1>2. Contents(ring) = <<>>
    BY <1>1, EmptyIsEmpty
<1>3. Waiting = <<>>
    BY <1>2 DEF Waiting, ReceiveInit
<1>4. inIsr \in BOOLEAN
    BY Zenon DEF ReceiveInit
<1>5. ReceiveTypeOK
    BY <1>1, <1>4, ReceiveAssumption DEF ReceiveInit, ReceiveTypeOK, Places
<1> QED BY <1>3, <1>5 DEF IInv, ByteWaits, ReceiveInit

LEMMA StepDeviceSends == ASSUME IInv, DeviceSends PROVE IInv'
<1>1. line' \in Seq(Bytes)
    BY ReceiveAssumption DEF DeviceSends
<1>2. UNCHANGED <<fifo, ring, inIsr, at, wanted, value, got>>
    BY DEF DeviceSends
<1> QED BY <1>1, <1>2 DEF IInv, ReceiveTypeOK, ByteWaits

LEMMA StepArrive == ASSUME IInv, Arrive PROVE IInv'
<1>1. line \in Seq(Bytes) /\ line # <<>> /\ fifo \in Seq(Bytes) /\ Len(fifo) <= Depth
    BY DEF Arrive, IInv, ReceiveTypeOK
<1>2. line' \in Seq(Bytes) /\ Head(line) \in Bytes
    BY <1>1, HeadTailProperties DEF Arrive
<1>3. fifo' \in Seq(Bytes) /\ Len(fifo') <= Depth
    BY <1>1, <1>2, AppendProperties, ReceiveAssumption DEF Arrive
<1>4. UNCHANGED <<ring, inIsr, at, wanted, value, got>>
    BY DEF Arrive
<1> QED BY <1>2, <1>3, <1>4 DEF IInv, ReceiveTypeOK, ByteWaits

LEMMA StepDrainByte == ASSUME IInv, DrainByte PROVE IInv'
<1>1. ring \in Rings /\ fifo \in Seq(Bytes) /\ fifo # <<>> /\ Len(fifo) <= Depth
    BY DEF DrainByte, IInv, ReceiveTypeOK
<1>2. /\ Head(fifo) \in Bytes /\ fifo' \in Seq(Bytes) /\ Len(fifo') = Len(fifo) - 1
    BY <1>1, HeadTailProperties DEF DrainByte
<1>3. ring' = Put(ring, Head(fifo))
    BY DEF DrainByte
<1>4. ring' \in Rings
    BY <1>1, <1>2, <1>3, Putting
<1>5. ~IsEmpty(ring) => ~IsEmpty(ring') /\ Oldest(ring') = Oldest(ring)
    BY <1>1, <1>2, <1>3, PuttingKeepsOldest
<1>6. Len(fifo') <= Depth
    BY <1>1, <1>2, HalvesAre, ReceiveAssumption DEF IInv
<1>7. UNCHANGED <<line, inIsr, at, wanted, value, got>>
    BY DEF DrainByte
<1> QED BY <1>2, <1>4, <1>5, <1>6, <1>7 DEF IInv, ReceiveTypeOK, ByteWaits

LEMMA StepAdvance == ASSUME IInv, Advance PROVE IInv'
<1>1. ring \in Rings /\ ~IsEmpty(ring) /\ wanted \in 0..MaxRead /\ wanted > 0
    BY DEF Advance, IInv, ReceiveTypeOK, ByteWaits
<1>2. ring' \in Rings
    BY <1>1, Getting DEF Advance
<1>3. wanted' \in 0..MaxRead
    BY <1>1, ReceiveAssumption DEF Advance
<1> QED BY <1>2, <1>3 DEF Advance, IInv, ReceiveTypeOK, ByteWaits, Places

\* What the main program does without touching the ring or the FIFO.
Elsewhere == Mask \/ CallRead \/ TestEmpty \/ Fetch

LEMMA StepElsewhere == ASSUME IInv, Elsewhere PROVE IInv'
<1>1. UNCHANGED <<line, fifo, ring, inIsr, got>>
    BY DEF Elsewhere, Mask, CallRead, TestEmpty, Fetch
<1>2. at' \in Places
    BY DEF Elsewhere, Mask, CallRead, TestEmpty, Fetch, Places
<1>3. wanted' \in 0..MaxRead
    BY ReceiveAssumption
       DEF IInv, ReceiveTypeOK, Elsewhere, Mask, CallRead, TestEmpty, Fetch
<1>4. value' \in {<<>>} \cup {<<b>> : b \in Bytes}
    <2>1. Oldest(ring) \in Bytes
        BY RingTypes DEF IInv, ReceiveTypeOK, Oldest, Slots
    <2> QED BY <2>1 DEF IInv, ReceiveTypeOK, Elsewhere, Mask, CallRead, TestEmpty, Fetch
<1>5. ByteWaits'
    <2>1. CASE Mask \/ CallRead
        BY <1>1, <2>1 DEF Mask, CallRead, ByteWaits
    <2>2. CASE TestEmpty
        BY <1>1, <2>2 DEF TestEmpty, ByteWaits
    <2>3. CASE Fetch
        BY <1>1, <2>3 DEF Fetch, IInv, ByteWaits
    <2> QED BY <2>1, <2>2, <2>3 DEF Elsewhere
<1> QED BY <1>1, <1>2, <1>3, <1>4, <1>5 DEF IInv, ReceiveTypeOK

LEMMA NextIInv == IInv /\ [ReceiveNext]_rxVars => IInv'
<1> SUFFICES ASSUME IInv, [ReceiveNext]_rxVars PROVE IInv'
    OBVIOUS
<1>1. CASE EnterIsr \/ LeaveIsr
    <2>1. inIsr' \in BOOLEAN
        BY <1>1, Zenon DEF EnterIsr, LeaveIsr
    <2> QED BY <1>1, <2>1 DEF EnterIsr, LeaveIsr, IInv, ReceiveTypeOK, ByteWaits
<1>2. CASE UNCHANGED rxVars
    BY <1>2 DEF rxVars, IInv, ReceiveTypeOK, ByteWaits
<1>3. CASE Elsewhere
    BY <1>3, StepElsewhere
<1> QED BY <1>1, <1>2, <1>3, StepDeviceSends, StepArrive, StepDrainByte, StepAdvance
        DEF ReceiveNext, Elsewhere

LEMMA IInvHolds == ReceiveSpec => []IInv
BY InitIInv, NextIInv, PTL DEF ReceiveSpec

-----------------------------------------------------------------------------
(* The byte channel.  A byte is accepted when it enters the FIFO and       *)
(* delivered when tail moves past it; it may be lost in front of the FIFO  *)
(* or between the FIFO and the ring.                                       *)

LEMMA InitChannel == ReceiveInit => Channel!ChannelInit
BY InitIInv DEF ReceiveInit, Channel!ChannelInit, Waiting

LEMMA RemovalIs ==
    ASSUME NEW s, NEW i
    PROVE  Channel!RemoveAt(s, i) = SubSeq(s, 1, i - 1) \o SubSeq(s, i + 1, Len(s))
BY DEF Channel!RemoveAt

\* The first byte of the FIFO is the one behind the ring's.
LEMMA DropIsRemoval ==
    ASSUME NEW c \in Seq(Bytes), NEW f \in Seq(Bytes), f # <<>>
    PROVE  /\ Len(c) + 1 \in DOMAIN (c \o f)
           /\ c \o Tail(f) = Channel!RemoveAt(c \o f, Len(c) + 1)
<1>1. /\ Len(c) \in Nat /\ Len(f) \in Nat /\ Len(f) > 0
      /\ c \o f \in Seq(Bytes) /\ Len(c \o f) = Len(c) + Len(f)
    BY ConcatProperties, EmptySeq
<1>2. Len(c) + 1 \in DOMAIN (c \o f)
    BY <1>1, LenProperties
<1>3. SubSeq(c \o f, 1, Len(c)) = c
    <2>1. CASE Len(c) = 0
        BY <1>1, <2>1, SubSeqEmpty, EmptySeq
    <2>2. CASE Len(c) > 0
        <3>1. 1 \in 1..Len(c) /\ Len(c) \in 1..Len(c)
            BY <1>1, <2>2
        <3>2. SubSeq(c \o f, 1, Len(c)) = SubSeq(c, 1, Len(c))
            BY <3>1, SubSeqOfConcat1
        <3> QED BY <3>2, SubSeqFull
    <2> QED BY <1>1, <2>1, <2>2
<1>4. SubSeq(c \o f, Len(c) + 2, Len(c) + Len(f)) = SubSeq(f, 2, Len(f))
    <2>1. CASE Len(f) = 1
        <3>1. Len(c) + 2 \in Int /\ Len(c) + Len(f) \in Int /\ Len(c) + Len(f) < Len(c) + 2
            BY <1>1, <2>1
        <3>2. SubSeq(c \o f, Len(c) + 2, Len(c) + Len(f)) = <<>>
            BY <3>1, SubSeqEmpty
        <3>3. SubSeq(f, 2, Len(f)) = <<>>
            BY <2>1, SubSeqEmpty
        <3> QED BY <3>2, <3>3
    <2>2. CASE Len(f) > 1
        <3> DEFINE m == Len(c) + 2
                   n == Len(c) + Len(f)
        <3>1. /\ m \in Len(c) + 1 .. Len(c) + Len(f)
              /\ n \in Len(c) + 1 .. Len(c) + Len(f)
              /\ m - Len(c) = 2 /\ n - Len(c) = Len(f)
            BY <1>1, <2>2
        <3> HIDE DEF m, n
        <3>2. SubSeq(c \o f, m, n) = SubSeq(f, m - Len(c), n - Len(c))
            BY <3>1, SubSeqOfConcat2
        <3> QED BY <3>1, <3>2 DEF m, n
    <2> QED BY <1>1, <2>1, <2>2
<1>5. Tail(f) = SubSeq(f, 2, Len(f))
    BY TailIsSubSeq
<1>6. c \o Tail(f) = Channel!RemoveAt(c \o f, Len(c) + 1)
    <2> DEFINE q == c \o f
               k == Len(c) + 1
    <2>1. k - 1 = Len(c) /\ k + 1 = Len(c) + 2 /\ Len(q) = Len(c) + Len(f)
        BY <1>1
    <2>2. SubSeq(q, 1, Len(c)) = c /\ SubSeq(q, Len(c) + 2, Len(c) + Len(f)) = Tail(f)
        BY <1>3, <1>4, <1>5
    <2> HIDE DEF q, k
    <2>3. Channel!RemoveAt(q, k) = SubSeq(q, 1, k - 1) \o SubSeq(q, k + 1, Len(q))
        BY RemovalIs
    <2>4. Channel!RemoveAt(q, k) = c \o Tail(f)
        BY <2>1, <2>2, <2>3
    <2> QED BY <2>4 DEF q, k
<1> QED BY <1>2, <1>6

\* The first byte of the FIFO moves into the ring: the queue is the same.
LEMMA DrainingKeeps ==
    ASSUME NEW c \in Seq(Bytes), NEW f \in Seq(Bytes), f # <<>>
    PROVE  Append(c, Head(f)) \o Tail(f) = c \o f
<1>1. Head(f) \in Bytes /\ Tail(f) \in Seq(Bytes) /\ <<Head(f)>> \in Seq(Bytes)
    BY HeadTailProperties
<1>2. Append(c, Head(f)) = c \o <<Head(f)>>
    BY <1>1, AppendIsConcat
<1>3. (c \o <<Head(f)>>) \o Tail(f) = c \o (<<Head(f)>> \o Tail(f))
    BY <1>1, ConcatAssociative
<1>4. <<Head(f)>> \o Tail(f) = f
    <2>1. /\ <<Head(f)>> \o Tail(f) \in Seq(Bytes)
          /\ Len(<<Head(f)>> \o Tail(f)) = 1 + Len(Tail(f))
          /\ \A i \in 1..(1 + Len(Tail(f))) : (<<Head(f)>> \o Tail(f))[i] =
                  IF i <= 1 THEN <<Head(f)>>[i] ELSE Tail(f)[i - 1]
        BY <1>1, ConcatProperties
    <2>2. /\ Len(Tail(f)) = Len(f) - 1 /\ Len(f) \in Nat /\ Len(f) >= 1
          /\ \A i \in 1..Len(Tail(f)) : Tail(f)[i] = f[i + 1]
        BY HeadTailProperties, EmptySeq
    <2>3. \A i \in 1..Len(f) : (<<Head(f)>> \o Tail(f))[i] = f[i]
        BY <2>1, <2>2
    <2> QED BY <2>1, <2>2, <2>3, SeqEqual
<1> QED BY <1>2, <1>3, <1>4

LEMMA DeviceOffers == ASSUME IInv, DeviceSends PROVE Channel!Offer
<1>1. line' \in Seq(Bytes)
    BY ReceiveAssumption DEF DeviceSends
<1> QED BY <1>1 DEF DeviceSends, Channel!Offer

LEMMA ArriveAccepts == ASSUME IInv, Arrive PROVE Channel!Accept \/ Channel!Offer
<1>1. line \in Seq(Bytes) /\ line # <<>> /\ line' = Tail(line)
    BY HalvesAre DEF Arrive, IInv
<1>2. Head(line) \in Bytes /\ line' \in Seq(Bytes)
    BY <1>1, HeadTailProperties
<1>3. CASE Len(fifo) < Depth
    <2>1. Contents(ring) \o Append(fifo, Head(line)) = Append(Contents(ring) \o fifo, Head(line))
        BY <1>2, HalvesAre, Accepting DEF IInv
    <2> QED BY <1>1, <1>3, <2>1 DEF Arrive, Channel!Accept
<1>4. CASE ~(Len(fifo) < Depth)
    BY <1>2, <1>4 DEF Arrive, Channel!Offer
<1> QED BY <1>3, <1>4

LEMMA DrainKeepsOrLoses ==
    ASSUME IInv, DrainByte
    PROVE  Channel!Lose \/ UNCHANGED Channel!channelVars
<1> DEFINE c == Contents(ring)
<1>1. /\ ring \in Rings /\ c \in Seq(Bytes) /\ fifo \in Seq(Bytes) /\ fifo # <<>>
      /\ Head(fifo) \in Bytes
    BY HalvesAre, HeadTailProperties DEF DrainByte, IInv
<1>2. ring' = Put(ring, Head(fifo)) /\ fifo' = Tail(fifo) /\ UNCHANGED <<line, got>>
    BY DEF DrainByte
<1>3. CASE IsFull(ring)
    <2>1. Contents(ring)' = c
        BY <1>1, <1>2, <1>3, Putting
    <2> HIDE DEF c
    <2>2. Len(c) + 1 \in DOMAIN (c \o fifo)
          /\ c \o fifo' = Channel!RemoveAt(c \o fifo, Len(c) + 1)
        BY <1>1, <1>2, DropIsRemoval
    <2> QED BY <1>2, <2>1, <2>2 DEF c, Channel!Lose
<1>4. CASE ~IsFull(ring)
    <2>1. Contents(ring)' = Append(c, Head(fifo))
        BY <1>1, <1>2, <1>4, Putting
    <2> HIDE DEF c
    <2>2. Append(c, Head(fifo)) \o fifo' = c \o fifo
        BY <1>1, <1>2, DrainingKeeps
    <2> QED BY <1>2, <2>1, <2>2 DEF c, Channel!channelVars
<1> QED BY <1>3, <1>4

LEMMA AdvanceDelivers == ASSUME IInv, Advance PROVE Channel!Deliver
<1>1. /\ ~IsEmpty(ring) /\ value = <<Oldest(ring)>>
      /\ ring' = AdvanceTail(ring) /\ got' = value /\ UNCHANGED <<line, fifo>>
    BY DEF Advance, IInv, ByteWaits
<1>2. /\ Contents(ring) # <<>> /\ Oldest(ring) = Head(Contents(ring))
      /\ Contents(ring)' = Tail(Contents(ring))
    BY <1>1, HalvesAre, Getting DEF IInv
<1>3. /\ Waiting # <<>> /\ Head(Waiting) = Head(Contents(ring))
      /\ Tail(Waiting) = Tail(Contents(ring)) \o fifo
    BY <1>2, HalvesAre, Delivering DEF IInv, Waiting
<1> QED BY <1>1, <1>2, <1>3 DEF Channel!Deliver, Waiting

LEMMA OthersStutter ==
    ASSUME EnterIsr \/ LeaveIsr \/ Elsewhere \/ UNCHANGED rxVars
    PROVE  UNCHANGED Channel!channelVars
BY DEF EnterIsr, LeaveIsr, Elsewhere, Mask, CallRead, TestEmpty, Fetch, rxVars,
       Channel!channelVars

\* Bytes are read in the order of the line, each at most once and none
\* invented, for every size of the ring and of the FIFO, although the
\* interrupt comes between any two statements of get() (RingBuffer.cpp:18-35,
\* PicoUart.cpp:61-68, 111-118).
THEOREM ReceiveRefinesChannel == ReceiveSpec => ReadsInOrder
<1>1. IInv /\ [ReceiveNext]_rxVars => [Channel!ChannelNext]_(Channel!channelVars)
    BY DeviceOffers, ArriveAccepts, DrainKeepsOrLoses, AdvanceDelivers, OthersStutter
       DEF ReceiveNext, Elsewhere, Channel!ChannelNext
<1> QED BY <1>1, InitChannel, IInvHolds, PTL DEF ReceiveSpec, ReadsInOrder, Channel!ChannelSpec

\* A byte that leaves the FIFO without joining the ring found all its slots but
\* the one that stays free taken by unread bytes, for every size of the ring
\* (RingBuffer.cpp:18-27, PicoUart.cpp:111-118).
THEOREM DropsOnlyWhenFull == ReceiveSpec => DroppedOnlyWhenFull
<1> DEFINE Kept == Len(fifo') < Len(fifo) /\ Contents(ring') = Contents(ring)
                       => Len(Contents(ring)) = Size - 1
<1>1. IInv /\ [ReceiveNext]_rxVars => [Kept]_rxVars
    <2> SUFFICES ASSUME IInv, ReceiveNext, Len(fifo') < Len(fifo),
                        Contents(ring') = Contents(ring)
                 PROVE  Len(Contents(ring)) = Size - 1
        BY DEF rxVars
    <2>1. /\ ring \in Rings /\ fifo \in Seq(Bytes) /\ Len(fifo) \in Nat
          /\ Contents(ring) \in Seq(Bytes) /\ Len(Contents(ring)) = Count(ring)
        BY HalvesAre DEF IInv
    <2>2. DrainByte
        <3>1. CASE Arrive
            <4>1. line \in Seq(Bytes) /\ line # <<>>
                BY <3>1 DEF Arrive, IInv, ReceiveTypeOK
            <4>2. Head(line) \in Bytes
                BY <4>1, HeadTailProperties
            <4> QED BY <2>1, <3>1, <4>2, AppendProperties DEF Arrive
        <3>2. CASE fifo' = fifo
            BY <2>1, <3>2
        <3> QED BY <3>1, <3>2
                DEF ReceiveNext, DeviceSends, EnterIsr, LeaveIsr, Mask, CallRead, TestEmpty,
                    Fetch, Advance
    <2>3. Head(fifo) \in Bytes /\ ring' = Put(ring, Head(fifo))
        BY <2>1, <2>2, HeadTailProperties DEF DrainByte
    <2>4. IsFull(ring)
        <3>1. SUFFICES ASSUME ~IsFull(ring) PROVE FALSE
            OBVIOUS
        <3>2. Contents(ring') = Append(Contents(ring), Head(fifo))
            BY <2>1, <2>3, <3>1, Putting
        <3>3. Len(Append(Contents(ring), Head(fifo))) = Len(Contents(ring)) + 1
            BY <2>1, <2>3, AppendProperties
        <3> QED BY <2>1, <3>2, <3>3, CountIs
    <2> QED BY <2>1, <2>4, FullHolds
<1> QED BY <1>1, IInvHolds, PTL DEF ReceiveSpec, DroppedOnlyWhenFull
=============================================================================
