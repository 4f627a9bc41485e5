-------------------------- MODULE RingBuffer_proofs --------------------------
(***************************************************************************)
(* What the ring's indices mean, for every size: lemmas about Contents,    *)
(* the queue a ring stands for.                                            *)
(***************************************************************************)
EXTENDS RingBuffer, SequenceTheorems, TLAPS

\* Sum of the sums and differences that occur.
LEMMA Sum ==
    ASSUME NEW n \in Nat \ {0}, NEW a \in Int, 0 <= a, a < 2 * n
    PROVE  a % n = IF a < n THEN a ELSE a - n
<1>1. CASE a < n
    BY <1>1
<1>2. CASE n <= a
    <2>1. (a - n) % n = a - n
        BY <1>2
    <2> QED BY <2>1, <1>2
<1> QED BY <1>1, <1>2

LEMMA Difference ==
    ASSUME NEW n \in Nat \ {0}, NEW h \in Int, NEW t \in Int,
           0 <= h, h < n, 0 <= t, t < n
    PROVE  (h - t) % n = IF t <= h THEN h - t ELSE h - t + n
<1>1. CASE t <= h
    BY <1>1
<1>2. CASE h < t
    <2>1. (h - t + n) % n = h - t + n
        BY <1>2
    <2> QED BY <2>1, <1>2
<1> QED BY <1>1, <1>2

\* The number of bytes in a ring.
Count(r) == (r.head - r.tail) % Size

LEMMA RingTypes ==
    ASSUME NEW r \in Rings
    PROVE  /\ Size \in Nat \ {0} /\ Size >= 2
           /\ r.head \in Int /\ 0 <= r.head /\ r.head < Size
           /\ r.tail \in Int /\ 0 <= r.tail /\ r.tail < Size
           /\ r.buffer \in [Slots -> Bytes]
BY RingAssumption DEF Rings, Slots

LEMMA CountIs ==
    ASSUME NEW r \in Rings
    PROVE  /\ Count(r) = IF r.tail <= r.head THEN r.head - r.tail
                         ELSE r.head - r.tail + Size
           /\ Count(r) \in Nat /\ Count(r) < Size
<1>1. Count(r) = IF r.tail <= r.head THEN r.head - r.tail
                 ELSE r.head - r.tail + Size
    BY RingTypes, Difference DEF Count
<1> QED BY <1>1, RingTypes

\* Contents is a sequence of bytes, as long as Count says.
LEMMA ContentsAre ==
    ASSUME NEW r \in Rings
    PROVE  /\ Contents(r) \in Seq(Bytes)
           /\ Len(Contents(r)) = Count(r)
           /\ \A i \in 1..Count(r) :
                /\ (r.tail + i - 1) % Size \in Slots
                /\ Contents(r)[i] = r.buffer[(r.tail + i - 1) % Size]
<1>1. \A i \in 1..Count(r) : (r.tail + i - 1) % Size \in Slots
    BY RingTypes, CountIs DEF Slots
<1>2. Contents(r) \in [1..Count(r) -> Bytes]
    BY <1>1, RingTypes DEF Contents, Count
<1>3. Contents(r) \in Seq(Bytes) /\ Len(Contents(r)) = Count(r)
    BY <1>2, CountIs
<1>4. \A i \in 1..Count(r) : Contents(r)[i] = r.buffer[(r.tail + i - 1) % Size]
    BY DEF Contents, Count
<1> QED BY <1>1, <1>3, <1>4

\* empty() is right: nothing is lost from sight.
LEMMA EmptyIsEmpty ==
    ASSUME NEW r \in Rings
    PROVE  /\ IsEmpty(r) <=> Count(r) = 0
           /\ IsEmpty(r) <=> Contents(r) = <<>>
<1>1. IsEmpty(r) <=> Count(r) = 0
    BY RingTypes, CountIs DEF IsEmpty
<1>2. Contents(r) = <<>> <=> Count(r) = 0
    BY ContentsAre, EmptySeq
<1> QED BY <1>1, <1>2

\* Taking k bytes leaves the others, in order.
LEMMA Taking ==
    ASSUME NEW r \in Rings, NEW k \in 0..Count(r),
           NEW q, q = [r EXCEPT !.tail = (r.tail + k) % Size]
    PROVE  /\ q \in Rings
           /\ Count(q) = Count(r) - k
           /\ \A i \in 1..Count(q) : Contents(q)[i] = Contents(r)[i + k]
<1>1. k \in Int /\ 0 <= k /\ k < Size
    BY CountIs, RingTypes
<1>2. (r.tail + k) % Size = IF r.tail + k < Size THEN r.tail + k ELSE r.tail + k - Size
    BY <1>1, RingTypes, Sum
<1>3. q \in Rings
    <2>1. (r.tail + k) % Size \in Slots
        BY <1>1, <1>2, RingTypes, SMTT(60) DEF Slots
    <2> QED BY <2>1 DEF Rings
<1>4. q.tail = (r.tail + k) % Size /\ q.head = r.head /\ q.buffer = r.buffer
    BY DEF Rings
<1>5. Count(q) = Count(r) - k
    <2>1. /\ Count(q) = IF q.tail <= r.head THEN r.head - q.tail
                       ELSE r.head - q.tail + Size
          /\ Count(r) = IF r.tail <= r.head THEN r.head - r.tail
                       ELSE r.head - r.tail + Size
        BY <1>3, <1>4, CountIs
    <2>2. k <= Count(r) /\ Count(r) \in Int
        BY CountIs
    <2>3. q.tail = IF r.tail + k < Size THEN r.tail + k ELSE r.tail + k - Size
        BY <1>2, <1>4
    <2> QED BY <2>1, <2>2, <2>3, <1>1, RingTypes
<1>6. ASSUME NEW i \in 1..Count(q)
      PROVE  Contents(q)[i] = Contents(r)[i + k]
    <2>1. i + k \in 1..Count(r)
        BY <1>1, <1>5, <1>3, CountIs
    <2>2. (q.tail + i - 1) % Size = (r.tail + (i + k) - 1) % Size
        <3>1. i \in Int /\ 1 <= i /\ i + k < Size
            BY <2>1, <1>1, <1>3, CountIs, RingTypes
        <3>2. (r.tail + (i + k) - 1) % Size =
                  IF r.tail + (i + k) - 1 < Size THEN r.tail + (i + k) - 1
                  ELSE r.tail + (i + k) - 1 - Size
            <4>1. r.tail + (i + k) - 1 \in Int
                  /\ r.tail + (i + k) - 1 < 2 * Size /\ 0 <= r.tail + (i + k) - 1
                BY <3>1, <1>1, RingTypes
            <4> QED BY <4>1, Sum, RingTypes
        <3>3. (q.tail + i - 1) % Size =
                  IF q.tail + i - 1 < Size THEN q.tail + i - 1
                  ELSE q.tail + i - 1 - Size
            <4>1. q.tail + i - 1 \in Int
                  /\ q.tail + i - 1 < 2 * Size /\ 0 <= q.tail + i - 1
                BY <3>1, <1>1, <1>3, RingTypes
            <4> QED BY <4>1, Sum, RingTypes
        <3> QED BY <3>1, <3>2, <3>3, <1>1, <1>2, <1>4, RingTypes
    <2> QED BY <2>1, <2>2, <1>3, <1>4, ContentsAre, ZenonT(60)
<1> QED BY <1>3, <1>5, <1>6

\* The first k elements of c are m and the others are d.
Splits(c, k, m, d) ==
    /\ Len(m) = k /\ Len(d) = Len(c) - k
    /\ \A i \in 1..k : m[i] = c[i]
    /\ \A i \in 1..Len(d) : d[i] = c[i + k]

\* What is taken from the front of one queue to the end of another leaves
\* the two queues together as they were.
LEMMA Moving ==
    ASSUME NEW c \in Seq(Bytes), NEW d \in Seq(Bytes), NEW f \in Seq(Bytes),
           NEW m \in Seq(Bytes), NEW k \in 0..Len(c), Splits(c, k, m, d)
    PROVE  /\ f \o m \in Seq(Bytes) /\ Len(f \o m) = Len(f) + k
           /\ (f \o m) \o d = f \o c
<1> USE DEF Splits
<1>1. /\ m \o d \in Seq(Bytes)
      /\ Len(m \o d) = Len(m) + Len(d)
      /\ \A i \in 1..(Len(m) + Len(d)) :
            (m \o d)[i] = IF i <= Len(m) THEN m[i] ELSE d[i - Len(m)]
    BY ConcatProperties
<1>2. Len(m \o d) = Len(c) /\ Len(c) \in Nat
    BY <1>1
<1>3. ASSUME NEW i \in 1..Len(m \o d)
      PROVE  (m \o d)[i] = c[i]
    <2>1. CASE i <= k
        BY <2>1, <1>1
    <2>2. CASE i > k
        <3>1. i - k \in 1..Len(d)
            BY <2>2, <1>1
        <3>2. d[i - k] = c[(i - k) + k]
            BY <3>1
        <3>3. (i - k) + k = i
            OBVIOUS
        <3> QED BY <3>2, <3>3, <2>2, <1>1
    <2> QED BY <2>1, <2>2
<1>4. m \o d = c
    BY <1>1, <1>2, <1>3, SeqEqual
<1>5. (f \o m) \o d = f \o (m \o d)
    BY ConcatAssociative, SMTT(60)
<1>6. f \o m \in Seq(Bytes) /\ Len(f \o m) = Len(f) + Len(m)
    BY ConcatProperties
<1> QED BY <1>4, <1>5, <1>6

\* Two queues in a row: the front of the first is the front of both, and
\* what is appended to the second is appended to both.
LEMMA Delivering ==
    ASSUME NEW f \in Seq(Bytes), NEW c \in Seq(Bytes), f # <<>>
    PROVE  /\ f \o c # <<>> /\ Head(f \o c) = Head(f)
           /\ Tail(f \o c) = Tail(f) \o c
<1>1. /\ f \o c \in Seq(Bytes) /\ Len(f \o c) = Len(f) + Len(c)
      /\ \A i \in 1..(Len(f) + Len(c)) :
            (f \o c)[i] = IF i <= Len(f) THEN f[i] ELSE c[i - Len(f)]
    BY ConcatProperties
<1>2. /\ Tail(f) \in Seq(Bytes) /\ Len(Tail(f)) = Len(f) - 1 /\ Len(f) >= 1
      /\ \A i \in 1..Len(Tail(f)) : Tail(f)[i] = f[i + 1]
    BY HeadTailProperties
<1>3. f \o c # <<>>
    BY <1>1, <1>2
<1>4. Head(f \o c) = Head(f)
    BY <1>1, <1>2
<1>5. Tail(f \o c) = Tail(f) \o c
    <2>1. /\ Tail(f) \o c \in Seq(Bytes)
          /\ Len(Tail(f) \o c) = Len(Tail(f)) + Len(c)
          /\ \A i \in 1..(Len(Tail(f)) + Len(c)) :
                (Tail(f) \o c)[i] = IF i <= Len(Tail(f)) THEN Tail(f)[i]
                                    ELSE c[i - Len(Tail(f))]
        BY <1>2, ConcatProperties
    <2>2. /\ Tail(f \o c) \in Seq(Bytes) /\ Len(Tail(f \o c)) = Len(f \o c) - 1
          /\ \A i \in 1..Len(Tail(f \o c)) : Tail(f \o c)[i] = (f \o c)[i + 1]
        BY <1>1, <1>3, HeadTailProperties
    <2>3. ASSUME NEW i \in 1..Len(Tail(f \o c))
          PROVE  Tail(f \o c)[i] = (Tail(f) \o c)[i]
        <3>1. i \in Int /\ 1 <= i /\ i <= Len(f) + Len(c) - 1
            BY <1>1, <2>2
        <3>2. Tail(f \o c)[i] = IF i + 1 <= Len(f) THEN f[i + 1] ELSE c[i + 1 - Len(f)]
            BY <3>1, <1>1, <2>2
        <3>3. (Tail(f) \o c)[i] = IF i <= Len(f) - 1 THEN f[i + 1]
                                  ELSE c[i - (Len(f) - 1)]
            BY <3>1, <1>2, <2>1
        <3> QED BY <3>1, <3>2, <3>3
    <2>4. Len(Tail(f \o c)) = Len(Tail(f) \o c)
        BY <1>1, <1>2, <2>1, <2>2
    <2> QED BY <2>1, <2>2, <2>3, <2>4, SeqEqual
<1> QED BY <1>3, <1>4, <1>5

LEMMA Accepting ==
    ASSUME NEW f \in Seq(Bytes), NEW c \in Seq(Bytes), NEW b \in Bytes
    PROVE  f \o Append(c, b) = Append(f \o c, b)
<1>1. Append(c, b) = c \o <<b>> /\ <<b>> \in Seq(Bytes)
    BY AppendIsConcat
<1>2. f \o (c \o <<b>>) = (f \o c) \o <<b>>
    BY <1>1, ConcatAssociative
<1>3. f \o c \in Seq(Bytes)
    BY ConcatProperties
<1>4. Append(f \o c, b) = (f \o c) \o <<b>>
    BY <1>3, AppendIsConcat
<1> QED BY <1>1, <1>2, <1>4

\* Storing into the free slot at head does not touch what is queued.
LEMMA Storing ==
    ASSUME NEW r \in Rings, NEW b \in Bytes
    PROVE  /\ Store(r, b) \in Rings
           /\ Contents(Store(r, b)) = Contents(r)
           /\ Store(r, b).head = r.head /\ Store(r, b).tail = r.tail
           /\ Store(r, b).buffer[r.head] = b
<1> DEFINE q == Store(r, b)
<1>1. q.head = r.head /\ q.tail = r.tail /\ q.buffer = [r.buffer EXCEPT ![r.head] = b]
    BY DEF Store, Rings
<1>2. q \in Rings
    BY RingTypes DEF Store, Rings, Slots
<1>3. Count(q) = Count(r)
    BY <1>1 DEF Count
<1>4. ASSUME NEW i \in 1..Count(r)
      PROVE  Contents(q)[i] = Contents(r)[i]
    <2>1. (r.tail + i - 1) % Size # r.head
        <3>1. /\ i \in Int /\ 1 <= i /\ i <= Count(r)
              /\ Count(r) \in Int /\ Count(r) < Size
            BY CountIs
        <3>2. (r.tail + i - 1) % Size =
                  IF r.tail + i - 1 < Size THEN r.tail + i - 1
                  ELSE r.tail + i - 1 - Size
            <4>1. PICK a \in Int : a = r.tail + i - 1
                BY <3>1, RingTypes
            <4>2. a % Size = IF a < Size THEN a ELSE a - Size
                BY <3>1, <4>1, Sum, RingTypes
            <4> QED BY <3>1, <4>1, <4>2, RingTypes
        <3> QED BY <3>1, <3>2, CountIs, RingTypes
    <2>2. (r.tail + i - 1) % Size \in Slots
        BY ContentsAre
    <2>3. q.buffer[(r.tail + i - 1) % Size] = r.buffer[(r.tail + i - 1) % Size]
        BY <1>1, <2>1, <2>2, RingTypes
    <2> QED BY <1>1, <1>2, <1>3, <2>3, ContentsAre
<1>5. Contents(q) = Contents(r)
    BY <1>2, <1>3, <1>4, ContentsAre, SeqEqual
<1>6. q.buffer[r.head] = b
    BY <1>1, RingTypes DEF Slots
<1> QED BY <1>1, <1>2, <1>5, <1>6

\* Moving head publishes the byte stored there, unless the ring is full.
LEMMA Publishing ==
    ASSUME NEW r \in Rings, ~IsFull(r)
    PROVE  /\ AdvanceHead(r) \in Rings
           /\ r.buffer[r.head] \in Bytes
           /\ Contents(AdvanceHead(r)) = Append(Contents(r), r.buffer[r.head])
<1> DEFINE q == AdvanceHead(r)
           b == r.buffer[r.head]
<1>1. NextSlot(r.head) = IF r.head + 1 < Size THEN r.head + 1 ELSE 0
    <2>1. r.head + 1 \in Int /\ 0 <= r.head + 1
          /\ r.head + 1 < 2 * Size
        BY RingTypes
    <2> QED BY <2>1, Sum, RingTypes, SMTT(60) DEF NextSlot
<1>2. q.head = NextSlot(r.head) /\ q.tail = r.tail /\ q.buffer = r.buffer
    BY DEF AdvanceHead, Rings
<1>3. q \in Rings
    BY <1>1, RingTypes DEF AdvanceHead, Rings, Slots
<1>4. Count(q) = Count(r) + 1
    BY <1>1, <1>2, <1>3, CountIs, RingTypes DEF IsFull
<1>5. b \in Bytes
    BY RingTypes DEF Slots
<1>6. \A i \in 1..Count(r) : Contents(q)[i] = Contents(r)[i]
    <2>1. \A i \in 1..Count(r) : i \in 1..Count(q)
        BY <1>4, CountIs
    <2> QED BY <2>1, <1>2, <1>3, ContentsAre
<1>7. Contents(q)[Count(r) + 1] = b
    <2>1. Count(r) + 1 \in 1..Count(q)
        BY <1>4, CountIs
    <2>2. (r.tail + (Count(r) + 1) - 1) % Size = r.head
        <3> DEFINE a == r.tail + Count(r)
        <3>1. a \in Int /\ 0 <= a /\ a < 2 * Size
            BY CountIs, RingTypes
        <3>2. a % Size = IF a < Size THEN a ELSE a - Size
            <4> HIDE DEF a
            <4> QED BY <3>1, Sum, RingTypes
        <3>3. r.tail + (Count(r) + 1) - 1 = a
            BY CountIs, RingTypes
        <3>4. (IF a < Size THEN a ELSE a - Size) = r.head
            BY CountIs, RingTypes
        <3> QED BY <3>2, <3>3, <3>4
    <2> QED BY <2>1, <2>2, <1>2, <1>3, ContentsAre
<1>8. Contents(q) = Append(Contents(r), b)
    <2>1. /\ Append(Contents(r), b) \in Seq(Bytes)
          /\ Len(Append(Contents(r), b)) = Count(r) + 1
          /\ \A i \in 1..Count(r) : Append(Contents(r), b)[i] = Contents(r)[i]
          /\ Append(Contents(r), b)[Count(r) + 1] = b
        BY <1>5, ContentsAre, AppendProperties
    <2>2. Contents(q) \in Seq(Bytes) /\ Len(Contents(q)) = Count(r) + 1
        BY <1>3, <1>4, ContentsAre
    <2>3. \A i \in 1..Len(Contents(q)) : Contents(q)[i] = Append(Contents(r), b)[i]
        BY <2>1, <2>2, <1>6, <1>7, CountIs
    <2> QED BY <2>1, <2>2, <2>3, SeqEqual
<1> QED BY <1>3, <1>5, <1>8
=============================================================================
