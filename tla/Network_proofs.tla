--------------------------- MODULE Network_proofs ---------------------------
(***************************************************************************)
(* What arrives from the network, for every size of the ring.              *)
(*                                                                         *)
(* First, the ring of IPStack implements ByteStream, for every segment and *)
(* read: the two-part copies, the indices and the count keep the order of  *)
(* the bytes, lose none but those that find no room, and hand each out     *)
(* once.                                                                   *)
(*                                                                         *)
(* Then, over that stream, the MQTT client and its broker: the bytes that  *)
(* came through are a sequence of whole packets, and the invariant keeps   *)
(* witnesses for where each ends, how many of them were read and how many  *)
(* commands came before it.                                                *)
(***************************************************************************)
EXTENDS IpStream, MqttSession, SequenceTheorems, TLAPS

-----------------------------------------------------------------------------
\* The ring.

LEMMA SizeIs == Size \in Nat \ {0}
BY SizeAssumption

\* Sums of two indices wrap at most once.
LEMMA WrapIs ==
    ASSUME NEW n \in Nat \ {0}, NEW a \in Nat, a < 2 * n
    PROVE  a % n = IF a < n THEN a ELSE a - n
<1>1. CASE a < n
    BY <1>1
<1>2. CASE n <= a
    <2>1. (a - n) % n = a - n
        BY <1>2
    <2> QED BY <2>1, <1>2
<1> QED BY <1>1, <1>2

\* Where the i-th byte of a ring is.
Place(r, i) == IF r.rd + i - 1 < Size THEN r.rd + i - 1 ELSE r.rd + i - 1 - Size

LEMMA RingTypes ==
    ASSUME NEW r \in Rings
    PROVE  /\ r.count \in Nat /\ r.count <= Size
           /\ r.wr \in Nat /\ r.wr < Size
           /\ r.rd \in Nat /\ r.rd < Size
           /\ r.buffer \in [Slots -> Bytes]
BY SizeIs DEF Rings, Slots

LEMMA ContentsAre ==
    ASSUME NEW r \in Rings
    PROVE  /\ Contents(r) \in Seq(Bytes)
           /\ Len(Contents(r)) = r.count
           /\ \A i \in 1..r.count : /\ Place(r, i) \in Slots
                                    /\ Contents(r)[i] = r.buffer[Place(r, i)]
<1>1. \A i \in 1..r.count : Place(r, i) \in Slots /\ (r.rd + i - 1) % Size = Place(r, i)
    <2> SUFFICES ASSUME NEW i \in 1..r.count
                 PROVE  Place(r, i) \in Slots /\ (r.rd + i - 1) % Size = Place(r, i)
        OBVIOUS
    <2>1. i \in Nat /\ 1 <= i /\ i <= Size
        BY RingTypes, SizeIs
    <2> DEFINE a == r.rd + i - 1
    <2>2. a \in Nat /\ a < 2 * Size
        BY <2>1, RingTypes, SizeIs
    <2>3. a % Size = IF a < Size THEN a ELSE a - Size
        <3> HIDE DEF a
        <3> QED BY <2>2, WrapIs, SizeIs
    <2> QED BY <2>1, <2>2, <2>3, RingTypes, SizeIs, SMTT(60) DEF Place, Slots
<1>2. Contents(r) \in [1..r.count -> Bytes]
    BY <1>1, RingTypes DEF Contents
<1>3. Contents(r) \in Seq(Bytes) /\ Len(Contents(r)) = r.count
    BY <1>2, RingTypes
<1>4. \A i \in 1..r.count : Contents(r)[i] = r.buffer[Place(r, i)]
    BY <1>1 DEF Contents
<1> QED BY <1>1, <1>3, <1>4

\* A place is the i-th of at most one i.
LEMMA PlacesDiffer ==
    ASSUME NEW r \in Rings, NEW i \in 1..Size, NEW j \in 1..Size, i # j
    PROVE  Place(r, i) # Place(r, j)
BY RingTypes, SizeIs DEF Place

LEMMA WriteIndex ==
    ASSUME NEW r \in Rings, Consistent(r)
    PROVE  r.wr = IF r.rd + r.count < Size THEN r.rd + r.count ELSE r.rd + r.count - Size
<1> DEFINE a == r.rd + r.count
<1>1. a \in Nat /\ a < 2 * Size
    BY RingTypes, SizeIs
<1>2. a % Size = IF a < Size THEN a ELSE a - Size
    <2> HIDE DEF a
    <2> QED BY <1>1, WrapIs, SizeIs
<1> QED BY <1>1, <1>2, RingTypes, SizeIs DEF Consistent

----------------------------------------------------------------------------
(* Receiving *)

LEMMA KeptIs ==
    ASSUME NEW r \in Rings, NEW s \in Seq(Bytes)
    PROVE  /\ Kept(r, s) \in Nat /\ Kept(r, s) <= Len(s) /\ r.count + Kept(r, s) <= Size
           /\ Kept(r, s) = IF Len(s) <= Size - r.count THEN Len(s) ELSE Size - r.count
BY RingTypes, SizeIs DEF Kept, Smaller

\* The arithmetic of the two copies, for a ring of n bytes whose c oldest start
\* at d: k new ones go to w, the first f of them up to the end when they pass it.
CopiesGoWell(n, d, c, k, w, f, at) ==
    /\ f <= k /\ at + k - f <= n /\ at + k - f \in Nat /\ w + f <= n
    /\ (IF at + k - f < n THEN at + k - f ELSE at + k - f - n)
         = (IF d + (c + k) < n THEN d + (c + k) ELSE d + (c + k) - n)
    /\ \A i, p \in Nat :
         i \in 1..c /\ p = (IF d + i - 1 < n THEN d + i - 1 ELSE d + i - 1 - n)
         => ~(w <= p /\ p < w + f) /\ ~(at <= p /\ p < at + k - f)
    /\ \A j, p \in Nat :
         j \in 1..k /\ p = (IF d + c + j - 1 < n THEN d + c + j - 1
                            ELSE d + c + j - 1 - n)
         => IF j <= f THEN /\ w <= p /\ p < w + f /\ p - w + 1 = j
                           /\ ~(at <= p /\ p < at + k - f)
            ELSE at <= p /\ p < at + k - f /\ f + p - at + 1 = j

LEMMA CopyPlaces ==
    ASSUME NEW n \in Nat, 0 < n, NEW d \in Nat, d < n, NEW c \in Nat,
           NEW k \in Nat, c + k <= n, NEW w \in Nat,
           w = (IF d + c < n THEN d + c ELSE d + c - n),
           NEW f \in Nat, f = (IF w + k > n THEN n - w ELSE 0),
           NEW at \in Nat, at = (IF f > 0 THEN 0 ELSE w)
    PROVE  CopiesGoWell(n, d, c, k, w, f, at)
BY DEF CopiesGoWell

\* The two copies of a segment put its j-th byte where the ring has room for
\* its j-th new byte, and touch no other slot.
LEMMA Receiving ==
    ASSUME NEW r \in Rings, Consistent(r), NEW s \in Seq(Bytes)
    PROVE  /\ Receive(r, s) \in Rings /\ Consistent(Receive(r, s))
           /\ Receive(r, s).rd = r.rd
           /\ Receive(r, s).count = r.count + Kept(r, s)
           /\ \A i \in 1..r.count :
                Receive(r, s).buffer[Place(r, i)] = r.buffer[Place(r, i)]
           /\ \A j \in 1..Kept(r, s) :
                Receive(r, s).buffer[Place(r, r.count + j)] = s[j]
<1> DEFINE k == Kept(r, s)
           first == FirstPart(r.wr, k)
           at == IF first > 0 THEN 0 ELSE r.wr
           one == Copied(r.buffer, r.wr, s, 0, first)
           both == Copied(one, at, s, first, k)
           q == Receive(r, s)
<1>1. /\ r.count \in Nat /\ r.wr \in Nat /\ r.wr < Size
      /\ r.rd \in Nat /\ r.rd < Size /\ Size \in Nat \ {0} /\ 0 < Size
      /\ r.buffer \in [Slots -> Bytes]
      /\ r.wr = IF r.rd + r.count < Size THEN r.rd + r.count ELSE r.rd + r.count - Size
    BY RingTypes, SizeIs, WriteIndex
<1>2. /\ k \in Nat /\ k <= Len(s) /\ r.count + k <= Size
      /\ Len(s) \in Nat /\ \A i \in 1..Len(s) : s[i] \in Bytes
    BY KeptIs
<1>3. /\ first \in Nat
      /\ first = IF r.wr + k > Size THEN Size - r.wr ELSE 0
    BY <1>1, <1>2 DEF FirstPart
<1>4. at \in Nat /\ at = IF first > 0 THEN 0 ELSE r.wr
    BY <1>1, <1>3
<1>5. /\ q.buffer = both /\ q.rd = r.rd /\ q.count = r.count + k
      /\ q.wr = (at + k - first) % Size
      /\ q = [buffer |-> q.buffer, count |-> q.count, wr |-> q.wr, rd |-> q.rd]
    <2>1. r = [buffer |-> r.buffer, count |-> r.count, wr |-> r.wr, rd |-> r.rd]
        BY DEF Rings
    <2>2. q = [r EXCEPT !.buffer = both, !.wr = (at + k - first) % Size,
                        !.count = r.count + k]
        BY DEF Receive
    <2> HIDE DEF k, first, at, one, both, q
    <2>3. q = [buffer |-> both, count |-> r.count + k, wr |-> (at + k - first) % Size,
               rd |-> r.rd]
        BY <2>1, <2>2
    <2> QED BY <2>3
<1>6. /\ one = [i \in Slots |-> one[i]] /\ both = [i \in Slots |-> both[i]]
      /\ \A i \in Slots : one[i] = IF r.wr <= i /\ i < r.wr + first - 0
                                   THEN s[0 + i - r.wr + 1] ELSE r.buffer[i]
      /\ \A i \in Slots : both[i] = IF at <= i /\ i < at + k - first
                                    THEN s[first + i - at + 1] ELSE one[i]
    BY DEF Copied
<1> HIDE DEF k, first, at, one, both, q
<1>7. CopiesGoWell(Size, r.rd, r.count, k, r.wr, first, at)
    BY <1>1, <1>2, <1>3, <1>4, CopyPlaces
<1>8. one \in [Slots -> Bytes] /\ both \in [Slots -> Bytes]
    <2>1. ASSUME NEW i \in Slots, NEW w \in Nat, NEW f \in Nat, NEW n \in Nat,
                 n <= Len(s), w <= i, i < w + n - f, f <= n
          PROVE  s[f + i - w + 1] \in Bytes
        <3>1. f + i - w + 1 \in 1..Len(s)
            BY <2>1, <1>1, <1>2 DEF Slots
        <3> QED BY <3>1, <1>2
    <2>2. first <= Len(s) /\ first <= k /\ 0 \in Nat /\ 0 <= first
        BY <1>2, <1>3, <1>7 DEF CopiesGoWell
    <2>3. \A i \in Slots : one[i] \in Bytes
        BY <2>1, <2>2, <1>1, <1>3, <1>6, ZenonT(60)
    <2>4. \A i \in Slots : both[i] \in Bytes
        BY <2>1, <2>2, <2>3, <1>2, <1>3, <1>4, <1>6
    <2> QED BY <2>3, <2>4, <1>6
<1>9. q.wr = IF r.rd + (r.count + k) < Size THEN r.rd + (r.count + k)
             ELSE r.rd + (r.count + k) - Size
    <2> DEFINE a == at + k - first
    <2>1. /\ a \in Nat /\ a <= Size
          /\ (IF a < Size THEN a ELSE a - Size)
                = (IF r.rd + (r.count + k) < Size THEN r.rd + (r.count + k)
                   ELSE r.rd + (r.count + k) - Size)
        <3>1. at + k - first <= Size /\ at + k - first \in Nat
            BY <1>7 DEF CopiesGoWell
        <3>2. (IF at + k - first < Size THEN at + k - first ELSE at + k - first - Size)
                = (IF r.rd + (r.count + k) < Size THEN r.rd + (r.count + k)
                   ELSE r.rd + (r.count + k) - Size)
            BY <1>7 DEF CopiesGoWell
        <3> QED BY <3>1, <3>2, <1>1, <1>2, <1>3, <1>4, SMTT(60)
    <2>2. q.wr = a % Size
        BY <1>5
    <2> HIDE DEF a
    <2>3. a < 2 * Size
        BY <2>1, <1>1
    <2>4. a % Size = IF a < Size THEN a ELSE a - Size
        BY <2>1, <2>3, <1>1, WrapIs
    <2> QED BY <2>1, <2>2, <2>4
<1>10. q \in Rings
    <2>1. q.wr \in Slots /\ q.count \in 0..Size
        BY <1>1, <1>2, <1>5, <1>9, SMTT(60) DEF Slots
    <2> QED BY <2>1, <1>5, <1>8 DEF Rings
<1>11. Consistent(q)
    <2> DEFINE a == r.rd + (r.count + k)
    <2>1. a \in Nat /\ a < 2 * Size
        BY <1>1, <1>2
    <2>2. q.rd + q.count = a
        BY <1>5
    <2>3. q.wr = IF a < Size THEN a ELSE a - Size
        BY <1>1, <1>2, <1>9
    <2> HIDE DEF a
    <2>4. a % Size = IF a < Size THEN a ELSE a - Size
        BY <2>1, <1>1, WrapIs
    <2> QED BY <2>2, <2>3, <2>4 DEF Consistent
<1>12. ASSUME NEW i \in 1..r.count
       PROVE  q.buffer[Place(r, i)] = r.buffer[Place(r, i)]
    <2>1. PICK p \in Slots : p = Place(r, i)
        BY ContentsAre
    <2>2. i \in Nat /\ p \in Nat /\ i \in 1..r.count
        BY <1>1 DEF Slots
    <2>3. ~(r.wr <= p /\ p < r.wr + first) /\ ~(at <= p /\ p < at + k - first)
        BY <2>1, <2>2, <1>7 DEF Place, CopiesGoWell
    <2>4. q.buffer[p] = one[p]
        BY <2>3, <1>5, <1>6
    <2>5. r.wr + first - 0 = r.wr + first
        BY <1>1, <1>3
    <2>6. one[p] = r.buffer[p]
        BY <2>3, <2>5, <1>6
    <2> QED BY <2>1, <2>4, <2>6
<1>13. ASSUME NEW j \in 1..k
       PROVE  q.buffer[Place(r, r.count + j)] = s[j]
    <2>1. j \in Nat /\ j \in 1..k
        BY <1>2
    <2>2. PICK p \in Slots : p = IF r.rd + r.count + j - 1 < Size THEN r.rd + r.count + j - 1
                                 ELSE r.rd + r.count + j - 1 - Size
        <3>1. r.count + j - 1 < Size
            BY <2>1, <1>1, <1>2
        <3>2. CASE r.rd + r.count + j - 1 < Size
            BY <3>2, <2>1, <1>1 DEF Slots
        <3>3. CASE ~(r.rd + r.count + j - 1 < Size)
            BY <3>1, <3>3, <2>1, <1>1, SMTT(60) DEF Slots
        <3> QED BY <3>2, <3>3
    <2>3. p \in Nat /\ p = Place(r, r.count + j)
        BY <2>1, <2>2, <1>1, SMTT(60) DEF Place, Slots
    <2>4. IF j <= first THEN /\ r.wr <= p /\ p < r.wr + first /\ p - r.wr + 1 = j
                             /\ ~(at <= p /\ p < at + k - first)
          ELSE at <= p /\ p < at + k - first /\ first + p - at + 1 = j
        BY <2>1, <2>2, <2>3, <1>7 DEF CopiesGoWell
    <2>5. CASE j <= first
        <3>1. q.buffer[p] = one[p]
            BY <2>4, <2>5, <1>5, <1>6
        <3>2. r.wr + first - 0 = r.wr + first /\ 0 + p - r.wr + 1 = j
            <4>1. r.wr + first - 0 = r.wr + first
                BY <1>1, <1>3
            <4>2. p - r.wr + 1 = j
                BY <2>4, <2>5
            <4>3. 0 + p - r.wr + 1 = p - r.wr + 1
                BY <2>3, <1>1
            <4> QED BY <4>1, <4>2, <4>3
        <3>3. one[p] = s[0 + p - r.wr + 1]
            BY <2>4, <2>5, <3>2, <1>6
        <3> QED BY <3>1, <3>2, <3>3, <2>3
    <2>6. CASE ~(j <= first)
        BY <2>3, <2>4, <2>6, <1>5, <1>6
    <2> QED BY <2>5, <2>6
<1> QED BY <1>5, <1>10, <1>11, <1>12, <1>13 DEF k, q

\* What a reader will get after a segment: what it would have got, and as much of
\* the segment as there was room for.
LEMMA ReceivedContents ==
    ASSUME NEW r \in Rings, Consistent(r), NEW s \in Seq(Bytes)
    PROVE  Contents(Receive(r, s)) = Contents(r) \o SubSeq(s, 1, Kept(r, s))
<1> DEFINE k == Kept(r, s)
           q == Receive(r, s)
           c == r.count
<1>1. k \in Nat /\ k <= Len(s) /\ c \in Nat /\ q.count = c + k
    BY KeptIs, RingTypes, Receiving
<1>2. /\ Contents(r) \in Seq(Bytes) /\ Len(Contents(r)) = c
      /\ Contents(q) \in Seq(Bytes) /\ Len(Contents(q)) = c + k
    BY <1>1, ContentsAre, Receiving
<1>3. /\ SubSeq(s, 1, k) \in Seq(Bytes) /\ Len(SubSeq(s, 1, k)) = k
      /\ \A j \in 1..k : SubSeq(s, 1, k)[j] = s[j]
    BY <1>1
<1>4. /\ Contents(r) \o SubSeq(s, 1, k) \in Seq(Bytes)
      /\ Len(Contents(r) \o SubSeq(s, 1, k)) = c + k
    BY <1>1, <1>2, <1>3
<1>5. ASSUME NEW i \in 1..(c + k)
      PROVE  Contents(q)[i] = (Contents(r) \o SubSeq(s, 1, k))[i]
    <2>1. Contents(q)[i] = q.buffer[Place(r, i)]
        <3>1. Contents(q)[i] = q.buffer[Place(q, i)] /\ q.rd = r.rd
            <4>1. q \in Rings /\ i \in 1..q.count
                BY <1>1, Receiving
            <4> HIDE DEF q
            <4>2. Contents(q)[i] = q.buffer[Place(q, i)]
                BY <4>1, ContentsAre
            <4> QED BY <4>2, Receiving DEF q
        <3> QED BY <3>1 DEF Place
    <2>2. CASE i <= c
        <3>1. i \in 1..c
            BY <2>2, <1>1
        <3>2. q.buffer[Place(r, i)] = r.buffer[Place(r, i)]
            BY <3>1, Receiving
        <3>3. Contents(r)[i] = r.buffer[Place(r, i)]
            BY <3>1, ContentsAre
        <3>4. (Contents(r) \o SubSeq(s, 1, k))[i] = Contents(r)[i]
            BY <3>1, <1>1, <1>2, <1>3
        <3> QED BY <2>1, <3>2, <3>3, <3>4
    <2>3. CASE ~(i <= c)
        <3> DEFINE j == i - c
        <3>1. j \in 1..k /\ c + j = i
            BY <2>3, <1>1
        <3>2. (Contents(r) \o SubSeq(s, 1, k))[i] = SubSeq(s, 1, k)[j]
            BY <2>3, <1>1, <1>2, <1>3, SMTT(60)
        <3> HIDE DEF j
        <3>3. q.buffer[Place(r, c + j)] = s[j]
            BY <3>1, Receiving
        <3> QED BY <2>1, <3>1, <3>2, <3>3, <1>3
    <2> QED BY <2>2, <2>3
<1> HIDE DEF k, q, c
<1>6. Contents(q) = Contents(r) \o SubSeq(s, 1, k)
    BY <1>2, <1>4, <1>5, SeqEqual
<1> QED BY <1>6 DEF k, q

----------------------------------------------------------------------------
(* Reading *)

\* The arithmetic of the two copies out: of c bytes from d, k go, the first f of
\* them up to the end; e is where the rest starts.
CopiesOutGoWell(n, d, c, k, f, e) ==
    /\ f <= k /\ e \in Nat /\ e < n
    /\ (IF d + c < n THEN d + c ELSE d + c - n)
         = (IF e + (c - k) < n THEN e + (c - k) ELSE e + (c - k) - n)
    /\ \A i \in Nat : i \in 1..(c - k) =>
         (IF e + i - 1 < n THEN e + i - 1 ELSE e + i - 1 - n)
           = (IF d + (k + i) - 1 < n THEN d + (k + i) - 1 ELSE d + (k + i) - 1 - n)
    /\ \A i \in Nat : i \in 1..k =>
         (IF f = 0 \/ i <= f THEN d + i - 1 ELSE i - f - 1)
           = (IF d + i - 1 < n THEN d + i - 1 ELSE d + i - 1 - n)

LEMMA CopyOutPlaces ==
    ASSUME NEW n \in Nat, 0 < n, NEW d \in Nat, d < n, NEW c \in Nat, c <= n,
           NEW k \in Nat, k <= c,
           NEW f \in Nat, f = (IF d + k > n THEN n - d ELSE 0),
           NEW w \in Nat, w = (IF d + k < n THEN d + k ELSE d + k - n),
           NEW e \in Int, e = (IF f > 0 THEN k - f ELSE w)
    PROVE  CopiesOutGoWell(n, d, c, k, f, e)
BY DEF CopiesOutGoWell

LEMMA TakenByIs ==
    ASSUME NEW r \in Rings, NEW n \in Nat
    PROVE  /\ TakenBy(r, n) \in Nat /\ TakenBy(r, n) <= r.count
           /\ TakenBy(r, n) = IF r.count <= n THEN r.count ELSE n
BY RingTypes DEF TakenBy, Smaller

\* A read of n hands out the oldest bytes, as many as there are up to n, and
\* leaves the others.
LEMMA Reading ==
    ASSUME NEW r \in Rings, Consistent(r), NEW n \in Nat
    PROVE  /\ AfterTaking(r, n) \in Rings /\ Consistent(AfterTaking(r, n))
           /\ Taken(r, n) = SubSeq(Contents(r), 1, TakenBy(r, n))
           /\ Contents(AfterTaking(r, n))
                = SubSeq(Contents(r), TakenBy(r, n) + 1, r.count)
<1> DEFINE k == TakenBy(r, n)
           first == FirstPart(r.rd, k)
           e == IF first > 0 THEN k - first ELSE (r.rd + k) % Size
           q == AfterTaking(r, n)
           c == r.count
<1>1. /\ c \in Nat /\ c <= Size /\ r.wr \in Slots
      /\ r.rd \in Nat /\ r.rd < Size /\ Size \in Nat \ {0} /\ 0 < Size
      /\ r.buffer \in [Slots -> Bytes]
      /\ r.wr = IF r.rd + c < Size THEN r.rd + c ELSE r.rd + c - Size
    BY RingTypes, SizeIs, WriteIndex DEF Rings
<1>2. k \in Nat /\ k <= c
    BY TakenByIs
<1>3. first \in Nat /\ first = IF r.rd + k > Size THEN Size - r.rd ELSE 0
    BY <1>1, <1>2 DEF FirstPart
<1>4. q = [buffer |-> r.buffer, count |-> c - k, wr |-> r.wr, rd |-> e]
    <2>1. r = [buffer |-> r.buffer, count |-> r.count, wr |-> r.wr, rd |-> r.rd]
        BY DEF Rings
    <2>2. q = [r EXCEPT !.rd = e, !.count = c - k]
        BY DEF AfterTaking
    <2> HIDE DEF k, first, e, q, c
    <2>3. q = [buffer |-> r.buffer, count |-> c - k, wr |-> r.wr, rd |-> e]
        BY <2>1, <2>2
    <2> QED BY <2>3
<1>5. Taken(r, n) = [i \in 1..k |-> IF first = 0 \/ i <= first THEN r.buffer[r.rd + i - 1]
                                    ELSE r.buffer[i - first - 1]]
    BY DEF Taken
<1>6. (r.rd + k) % Size = IF r.rd + k < Size THEN r.rd + k ELSE r.rd + k - Size
    <2> DEFINE a == r.rd + k
    <2>1. a \in Nat /\ a < 2 * Size
        BY <1>1, <1>2
    <2>2. a % Size = IF a < Size THEN a ELSE a - Size
        <3> HIDE DEF a
        <3> QED BY <2>1, <1>1, WrapIs
    <2> QED BY <2>2, <1>1, <1>2
<1> DEFINE w == (r.rd + k) % Size
<1>7. w \in Nat /\ w = (IF r.rd + k < Size THEN r.rd + k ELSE r.rd + k - Size)
    BY <1>1, <1>2, <1>6
<1>8. e \in Int /\ e = IF first > 0 THEN k - first ELSE w
    BY <1>1, <1>2, <1>3, <1>7
<1> HIDE DEF k, first, e, q, c, w
<1>9. CopiesOutGoWell(Size, r.rd, c, k, first, e)
    BY <1>1, <1>2, <1>3, <1>7, <1>8, CopyOutPlaces
<1>10. e \in Slots
    BY <1>1, <1>8, <1>9 DEF Slots, CopiesOutGoWell
<1>11. q \in Rings
    BY <1>1, <1>2, <1>4, <1>10 DEF Rings
<1>12. Consistent(q)
    <2> DEFINE a == e + (c - k)
    <2>1. a \in Nat /\ a < 2 * Size
        BY <1>1, <1>2, <1>10 DEF Slots
    <2>2. q.rd + q.count = a /\ q.wr = r.wr
        BY <1>4
    <2>3. r.wr = IF a < Size THEN a ELSE a - Size
        <3>1. (IF r.rd + c < Size THEN r.rd + c ELSE r.rd + c - Size)
                = (IF e + (c - k) < Size THEN e + (c - k) ELSE e + (c - k) - Size)
            BY <1>9 DEF CopiesOutGoWell
        <3> QED BY <3>1, <1>1, <1>2, <1>8
    <2> HIDE DEF a
    <2>4. a % Size = IF a < Size THEN a ELSE a - Size
        BY <2>1, <1>1, WrapIs
    <2> QED BY <2>2, <2>3, <2>4 DEF Consistent
<1>13. /\ Contents(r) \in Seq(Bytes) /\ Len(Contents(r)) = c
       /\ \A i \in 1..c : Contents(r)[i] = r.buffer[Place(r, i)]
    BY ContentsAre DEF c
<1>14. Taken(r, n) = SubSeq(Contents(r), 1, k)
    <2>1. /\ SubSeq(Contents(r), 1, k) \in Seq(Bytes) /\ Len(SubSeq(Contents(r), 1, k)) = k
          /\ \A i \in 1..k : SubSeq(Contents(r), 1, k)[i] = Contents(r)[i]
        BY <1>1, <1>2, <1>13
    <2>2. ASSUME NEW i \in 1..k
          PROVE  Taken(r, n)[i] = SubSeq(Contents(r), 1, k)[i]
        <3>1. i \in Nat /\ i \in 1..c
            BY <1>1, <1>2
        <3>2. Place(r, i) = IF first = 0 \/ i <= first THEN r.rd + i - 1 ELSE i - first - 1
            <4>1. (IF first = 0 \/ i <= first THEN r.rd + i - 1 ELSE i - first - 1)
                    = (IF r.rd + i - 1 < Size THEN r.rd + i - 1 ELSE r.rd + i - 1 - Size)
                BY <3>1, <1>9 DEF CopiesOutGoWell
            <4> QED BY <4>1 DEF Place
        <3>3. Taken(r, n)[i] = r.buffer[Place(r, i)]
            BY <3>2, <1>5
        <3> QED BY <2>1, <3>1, <3>3, <1>13
    <2>3. Taken(r, n) = [i \in 1..k |-> SubSeq(Contents(r), 1, k)[i]]
        BY <2>2, <1>5
    <2>4. SubSeq(Contents(r), 1, k) = [i \in 1..k |-> SubSeq(Contents(r), 1, k)[i]]
        BY <2>1
    <2> QED BY <2>3, <2>4
<1>15. Contents(q) = SubSeq(Contents(r), k + 1, c)
    <2>1. q.count = c - k /\ q.rd = e /\ q.buffer = r.buffer
        BY <1>4
    <2>2. /\ Contents(q) \in Seq(Bytes) /\ Len(Contents(q)) = c - k
          /\ \A i \in 1..(c - k) : Contents(q)[i] = q.buffer[Place(q, i)]
        BY <2>1, <1>11, ContentsAre
    <2>3. /\ SubSeq(Contents(r), k + 1, c) \in Seq(Bytes)
          /\ Len(SubSeq(Contents(r), k + 1, c)) = c - k
          /\ \A i \in 1..(c - k) : SubSeq(Contents(r), k + 1, c)[i] = Contents(r)[k + i]
        BY <1>1, <1>2, <1>13
    <2>4. ASSUME NEW i \in 1..(c - k)
          PROVE  Contents(q)[i] = SubSeq(Contents(r), k + 1, c)[i]
        <3>1. i \in Nat /\ k + i \in 1..c
            BY <1>1, <1>2
        <3>2. Place(q, i) = Place(r, k + i)
            <4>1. (IF e + i - 1 < Size THEN e + i - 1 ELSE e + i - 1 - Size)
                    = (IF r.rd + (k + i) - 1 < Size THEN r.rd + (k + i) - 1
                       ELSE r.rd + (k + i) - 1 - Size)
                BY <3>1, <1>9 DEF CopiesOutGoWell
            <4> QED BY <4>1, <2>1 DEF Place
        <3> QED BY <2>1, <2>2, <2>3, <3>1, <3>2, <1>13
    <2> QED BY <2>2, <2>3, <2>4, SeqEqual
<1> QED BY <1>11, <1>12, <1>14, <1>15 DEF k, q, c

----------------------------------------------------------------------------
(* IpStream *)

LEMMA EmptyContents == EmptyRing \in Rings /\ Consistent(EmptyRing) /\ Contents(EmptyRing) = <<>>
<1>1. EmptyRing \in Rings /\ EmptyRing.count = 0 /\ EmptyRing.rd = 0 /\ EmptyRing.wr = 0
    BY SizeAssumption, SizeIs DEF EmptyRing, Rings, Slots
<1>2. 0 % Size = 0
    BY SizeIs, WrapIs
<1>3. (0 + 0) % Size = 0
    BY <1>2
<1>4. Contents(EmptyRing) \in Seq(Bytes) /\ Len(Contents(EmptyRing)) = 0
    BY <1>1, ContentsAre
<1> QED BY <1>1, <1>3, <1>4 DEF Consistent

\* The types hold and the count agrees with the two indices, whatever arrives
\* and is read, for every size of the ring.
THEOREM TypesInv == Spec => []StreamTypes
<1>1. Init => StreamTypes
    BY EmptyContents DEF Init, StreamTypes
<1>2. StreamTypes /\ [Next]_<<coming, ring>> => StreamTypes'
    <2> SUFFICES ASSUME StreamTypes, [Next]_<<coming, ring>> PROVE StreamTypes'
        OBVIOUS
    <2>1. CASE Send
        BY <2>1 DEF Send, StreamTypes
    <2>2. CASE Segment
        <3>1. PICK n \in 1..Len(coming) :
                /\ ring' = Receive(ring, SubSeq(coming, 1, n))
                /\ coming' = SubSeq(coming, n + 1, Len(coming))
            BY <2>2 DEF Segment
        <3>2. SubSeq(coming, 1, n) \in Seq(Bytes) /\ coming' \in Seq(Bytes)
            BY <3>1 DEF StreamTypes
        <3> QED BY <3>1, <3>2, Receiving DEF StreamTypes
    <2>3. CASE ReadCall
        BY <2>3, Reading DEF ReadCall, StreamTypes
    <2>4. CASE NewStack
        BY <2>4, EmptyContents DEF NewStack, StreamTypes
    <2>5. CASE UNCHANGED <<coming, ring>>
        BY <2>5 DEF StreamTypes
    <2> QED BY <2>1, <2>2, <2>3, <2>4, <2>5 DEF Next
<1> QED BY <1>1, <1>2, PTL DEF Spec

\* The ring of IPStack implements ByteStream: what MqttSession reads is what was
\* sent, in order, each byte once, without those that found no room.
THEOREM IsByteStream == Spec => Stream!StreamSpec
<1>1. Init => Stream!StreamInit
    BY EmptyContents DEF Init, Stream!StreamInit
<1>2. StreamTypes /\ [Next]_<<coming, ring>> =>
        [Stream!Sends \/ Stream!Arrive \/ Stream!Read \/ Stream!Restart]_<<coming, Contents(ring)>>
    <2> SUFFICES ASSUME StreamTypes, [Next]_<<coming, ring>>
                 PROVE  \/ Stream!Sends \/ Stream!Arrive \/ Stream!Read \/ Stream!Restart
                        \/ UNCHANGED <<coming, Contents(ring)>>
        OBVIOUS
    <2>0. /\ coming \in Seq(Bytes) /\ ring \in Rings /\ Consistent(ring)
          /\ ring.count \in Nat /\ ring.count <= Size /\ Size \in Nat
          /\ Contents(ring) \in Seq(Bytes) /\ Len(Contents(ring)) = ring.count
        BY RingTypes, ContentsAre, SizeIs DEF StreamTypes
    <2>1. CASE Send
        BY <2>1 DEF Send, Stream!Sends
    <2>2. CASE Segment
        <3>1. PICK n \in 1..Len(coming) :
                /\ ring' = Receive(ring, SubSeq(coming, 1, n))
                /\ coming' = SubSeq(coming, n + 1, Len(coming))
            BY <2>2 DEF Segment
        <3> DEFINE s == SubSeq(coming, 1, n)
                   room == Size - ring.count
                   kept == IF n <= room THEN n ELSE room
        <3>2. s \in Seq(Bytes) /\ Len(s) = n /\ n \in Nat /\ kept \in Nat /\ kept <= n
            BY <2>0
        <3>3. Kept(ring, s) = kept
            BY <2>0, <3>2, KeptIs
        <3>4. Contents(ring') = Contents(ring) \o SubSeq(s, 1, kept)
            BY <2>0, <3>1, <3>2, <3>3, ReceivedContents
        <3>5. SubSeq(s, 1, kept) = SubSeq(coming, 1, kept)
            <4> HIDE DEF kept
            <4>1. /\ SubSeq(s, 1, kept) = [i \in 1..kept |-> s[i]]
                  /\ SubSeq(coming, 1, kept) = [i \in 1..kept |-> coming[i]]
                BY <2>0, <3>2
            <4>2. \A i \in 1..kept : s[i] = coming[i]
                BY <2>0, <3>2
            <4> QED BY <4>1, <4>2
        <3>6. Contents(ring)' = Contents(ring) \o SubSeq(coming, 1, kept)
            BY <3>4, <3>5
        <3> QED BY <2>0, <3>1, <3>6 DEF Stream!Arrive, Stream!Arrives
    <2>3. CASE ReadCall
        <3>1. PICK n \in Nat \ {0} : ring' = AfterTaking(ring, n) /\ coming' = coming
            BY <2>3 DEF ReadCall
        <3> DEFINE k == TakenBy(ring, n)
        <3>2. /\ k \in Nat /\ k <= ring.count
              /\ k = IF ring.count <= n THEN ring.count ELSE n
            BY <2>0, <3>1, TakenByIs
        <3>3. Contents(ring)' = SubSeq(Contents(ring), k + 1, Len(Contents(ring)))
            BY <2>0, <3>1, Reading
        <3>4. CASE k = 0
            <4>1. Contents(ring)' = Contents(ring)
                BY <3>3, <3>4, <2>0
            <4> QED BY <4>1, <3>1
        <3>5. CASE k # 0
            <4>1. k \in 1..Len(Contents(ring))
                BY <2>0, <3>2, <3>5
            <4> QED BY <4>1, <3>1, <3>3 DEF Stream!Read
        <3> QED BY <3>4, <3>5
    <2>4. CASE NewStack
        BY <2>4, EmptyContents DEF NewStack, Stream!Restart
    <2>5. CASE UNCHANGED <<coming, ring>>
        BY <2>5 DEF Contents
    <2> QED BY <2>1, <2>2, <2>3, <2>4, <2>5 DEF Next
<1> QED BY <1>1, <1>2, TypesInv, PTL DEF Spec, Stream!StreamSpec

-----------------------------------------------------------------------------
\* The session.

\* Types, and what is in the packet buffer at each place of a cycle.
Types ==
    /\ link \in {"up", "down"}
    /\ air \in Seq(Seq(WireBytes)) /\ \A i \in 1..Len(air) : air[i] # <<>>
    /\ requests \in Seq({"CONNECT", "SUBSCRIBE", "PINGREQ"})
    /\ broker \in [accepted : BOOLEAN, granted : BOOLEAN, early : Nat]
    /\ commands \in Seq(Payloads)
    /\ pending \in Seq(WireBytes) /\ Len(pending) <= RingSize
    /\ op \in {"none", "connect", "subscribe", "yield"}
    /\ pc \in {"idle", "check", "header", "length", "rest", "dispatch", "keepalive",
               "cycled", "failed"}
    /\ packet \in [header : WireBytes, remaining : Nat, lengths : 0..4, body : Seq(WireBytes)]
    /\ client \in [connected : BOOLEAN, ping : BOOLEAN, handler : BOOLEAN]
    /\ delivered \in Seq(WireBytes)
    /\ op = "none" <=> pc = "idle"
    /\ pc = "header" => packet = NoPacket
    /\ pc = "length" => packet.lengths <= 3
    /\ pc \in {"length", "rest"} => packet.body = <<>>
    /\ pc = "dispatch" => Len(packet.body) = packet.remaining
    /\ Len(packet.body) \in {0, packet.remaining}

\* What the client has asked for and the broker has not answered.
Has(request) == \E i \in 1..Len(requests) : requests[i] = request

\* A session asks for itself and for its subscription once, for itself first.
Requested ==
    /\ \A i \in 2..Len(requests) : requests[i] # "CONNECT"
    /\ \A i, j \in 1..Len(requests) :
          requests[i] = "SUBSCRIBE" /\ requests[j] = "SUBSCRIBE" => i = j
    /\ Has("SUBSCRIBE") => ~broker.granted
    /\ broker.early <= Len(commands)
    /\ ~broker.granted => broker.early = Len(commands)

\* What each call has found: connect starts from nothing, only yield runs with a
\* handler, and a session believed in is one the broker accepted.
InCall ==
    /\ op = "connect" =>
          /\ ~client.connected /\ ~broker.granted /\ commands = <<>> /\ ~Has("SUBSCRIBE")
    /\ op \in {"connect", "subscribe"} => ~client.handler /\ delivered = <<>>
    /\ op = "yield" /\ pc \notin {"check", "failed"} => client.connected
    /\ pc = "failed" => ~client.connected
    /\ client.connected => broker.accepted /\ ~Has("CONNECT")

\* The kinds of packet that matter.
IsConnack(p) == p[1] = CONNACK * 16
IsSuback(p) == p[1] = SUBACK * 16
IsCommand(p) == p[1] = PUBLISH * 16

\* The bytes b are the first n of the packets q, the i-th of which ends at e[i].
Parses(b, q, n, e) ==
    /\ e[0] = 0 /\ e[n] = Len(b)
    /\ \A i, j \in 0..n : i <= j => e[i] <= e[j]
    /\ \A i \in 1..n : /\ e[i] = e[i - 1] + Len(q[i])
                       /\ \A k \in 1..Len(q[i]) : b[e[i - 1] + k] = q[i][k]

\* How many bytes of the first packet the cycle has read.
Done == CASE pc = "length"   -> 1
          [] pc = "rest"     -> 2
          [] pc = "dispatch" -> 2 + packet.remaining
          [] OTHER           -> 0

\* What has not arrived of the last packet that has begun to.
Rest(b) == SubSeq(b, Done + Len(pending) + 1, Len(b))

\* b are the bytes from the first packet on that is not read yet: what the cycle
\* has read of it, the ring, and the rest of a packet on its way; behind it come
\* the others, unless the link is dead.
Received(b, q, n) ==
    /\ Done + Len(pending) <= Len(b)
    /\ \A k \in 1..Len(pending) : pending[k] = b[Done + k]
    /\ n > 0 => Len(Rest(b)) < Len(q[n])
    /\ link = "up" => air = (IF Rest(b) = <<>> THEN <<>> ELSE <<Rest(b)>>) \o SubSeq(q, n + 1, Len(q))
    /\ link = "down" => air = <<>>

\* The packet in the buffer is the first of q, as far as it has been read.
ReadSoFar(q) ==
    /\ pc \in {"length", "rest", "dispatch"} => packet.header = q[1][1]
    /\ pc = "length" => packet.lengths = 0 /\ packet.remaining = 0
    /\ pc \in {"rest", "dispatch"} => packet.remaining = q[1][2]
    /\ pc = "dispatch" => packet.body = SubSeq(q[1], 3, Len(q[1]))

\* c[i] commands were sent up to the i-th packet, and a command carries the
\* payload of its number.
Numbered(q, c) ==
    /\ \A i \in 1..Len(q) : IF IsCommand(q[i])
                            THEN c[i] = c[i - 1] + 1 /\ q[i][6] = commands[c[i]]
                            ELSE c[i] = c[i - 1]
    /\ \A i, j \in 0..Len(q) : i <= j => c[i] <= c[j]
    /\ link = "up" => c[Len(q)] = Len(commands)

\* What an answer says, behind k commands, is what the broker holds.
Acks(p, k) ==
    /\ IsConnack(p) => (broker.accepted <=> p[4] = 0) /\ ~Has("CONNECT")
    /\ IsSuback(p) => /\ (broker.granted <=> p[5] = 0) /\ ~Has("SUBSCRIBE")
                      /\ op # "connect" /\ k = broker.early

\* Each answer on its way is true, as is the one in the buffer, and at most one
\* accepts or refuses the session.
Acknowledged(q, c) ==
    /\ \A i \in 1..Len(q) : Acks(q[i], c[i])
    /\ \A i, j \in 1..Len(q) : IsConnack(q[i]) /\ IsConnack(q[j]) => i = j
    /\ pc \in {"keepalive", "cycled"} /\ packet # NoPacket =>
          \E p \in Packets : /\ packet.header = p[1] /\ packet.body = SubSeq(p, 3, Len(p))
                             /\ Acks(p, c[0])

\* The handler was given all commands since the grant, up to those in the stream.
Delivers(c) ==
    IF client.handler
    THEN /\ broker.granted /\ broker.early <= c[0]
         /\ delivered = SubSeq(commands, broker.early + 1, c[0])
    ELSE delivered = <<>>

\* The stream is in step: packets with their ends and their numbers exist.
InSync(b, q, n, e, c) ==
    /\ b \in Seq(WireBytes) /\ q \in Seq(Packets) /\ n \in 0..Len(q)
    /\ e \in [0..n -> Nat] /\ c \in [0..Len(q) -> Nat] /\ c[Len(q)] <= Len(commands)
    /\ Parses(b, q, n, e) /\ Received(b, q, n) /\ ReadSoFar(q)
    /\ Numbered(q, c) /\ Acknowledged(q, c) /\ Delivers(c)

Sync == \E b, q, n, e, c : InSync(b, q, n, e, c)

\* After a read that was short in a connect no session begins: what is left are
\* the tail of its CONNACK and answers to pings, in which no byte looks like the
\* first one of a CONNACK or a SUBACK.
Harmless == {0, 2, Refused, PINGRESP * 16}

Garbage ==
    /\ ~Has("CONNECT")
    /\ pending \in Seq(Harmless) /\ air \in Seq(Seq(Harmless)) /\ packet.header \in Harmless

\* What holds as long as nothing was lost and no length was cut.
Followed ==
    /\ Requested /\ InCall /\ CommandsInOrder
    /\ client.connected => Sync
    /\ op = "connect" /\ pc # "failed" => Sync \/ Garbage

IInv == Types /\ (InStep => Followed)

-----------------------------------------------------------------------------
(* Bytes and packets. *)

LEMMA ByteTypes ==
    /\ WireBytes \subseteq 0..255
    /\ Payloads \subseteq WireBytes
    /\ {0, 1, 2, 3, 4, Refused, NotGranted, Topic, CONNACK * 16, SUBACK * 16,
        PUBLISH * 16, PINGRESP * 16} \subseteq WireBytes
BY SessionAssumption DEF WireBytes, Refused, NotGranted, Topic, CONNACK, SUBACK, PUBLISH, PINGRESP

LEMMA FirstAndRest ==
    ASSUME NEW S, NEW x \in S, NEW s \in Seq(S)
    PROVE  Head(<<x>> \o s) = x /\ Tail(<<x>> \o s) = s
<1>1. <<x>> \in Seq(S) /\ Len(<<x>>) = 1 /\ <<x>>[1] = x
  OBVIOUS
<1>2. PICK y \in Seq(S) : y = <<x>> \o s
  BY <1>1, ConcatProperties
<1>3. /\ Len(y) = 1 + Len(s)
      /\ \A i \in 1..(1 + Len(s)) : y[i] = IF i <= 1 THEN x ELSE s[i - 1]
  <2>1. /\ Len(<<x>> \o s) = Len(<<x>>) + Len(s)
        /\ \A i \in 1..(Len(<<x>>) + Len(s)) :
              (<<x>> \o s)[i] = IF i <= Len(<<x>>) THEN <<x>>[i] ELSE s[i - Len(<<x>>)]
    BY ONLY <1>1, ConcatProperties
  <2>2. \A i \in 1..(1 + Len(s)) : i <= 1 => i = 1
    OBVIOUS
  <2> QED BY <1>1, <1>2, <2>1, <2>2
<1>4. y # <<>> /\ Head(y) = x
  BY <1>3
<1>5. /\ Tail(y) \in Seq(S) /\ Len(Tail(y)) = Len(s)
      /\ \A i \in 1..Len(s) : Tail(y)[i] = s[i]
  BY <1>3, <1>4
<1>6. Tail(y) = s
  BY <1>5
<1> QED BY <1>2, <1>4, <1>6

LEMMA PacketFacts ==
    ASSUME NEW p \in Packets
    PROVE  /\ p \in Seq(WireBytes) /\ p[2] = Len(p) - 2
           /\ Len(p) \in Nat /\ Len(p) >= 2 /\ Len(p) <= 6
           /\ p[1] = CONNACK * 16 => Len(p) = 4 /\ p[3] = 0 /\ p[4] \in {0, Refused}
           /\ p[1] = SUBACK * 16 => Len(p) = 5 /\ p[5] \in {0, NotGranted}
           /\ p[1] = PUBLISH * 16 => /\ Len(p) = 6 /\ p[3] = 0 /\ p[4] = 1 /\ p[5] = Topic
                                     /\ p[6] \in Payloads
           /\ p[1] = PINGRESP * 16 => Len(p) = 2
           /\ p[1] \in {CONNACK * 16, SUBACK * 16, PUBLISH * 16, PINGRESP * 16}
<1>1. CASE \E rc \in {0, Refused} : p = Connack(rc)
  BY <1>1, ByteTypes DEF Connack, CONNACK, SUBACK, PUBLISH, PINGRESP, Refused
<1>2. CASE \E g \in {0, NotGranted} : p = Suback(g)
  BY <1>2, ByteTypes DEF Suback, CONNACK, SUBACK, PUBLISH, PINGRESP, NotGranted
<1>3. CASE \E m \in Payloads : p = Command(m)
  BY <1>3, ByteTypes DEF Command, CONNACK, SUBACK, PUBLISH, PINGRESP, Topic
<1>4. CASE p = Pingresp
  BY <1>4, ByteTypes DEF Pingresp, CONNACK, SUBACK, PUBLISH, PINGRESP
<1> QED BY <1>1, <1>2, <1>3, <1>4 DEF Packets

-----------------------------------------------------------------------------
(* The bytes of packets. *)

LEMMA ParsesNothing ==
    ASSUME NEW q, NEW e \in [0..0 -> Nat], e[0] = 0
    PROVE  Parses(<<>>, q, 0, e)
BY DEF Parses

\* Where the first packet is, and where the last one.
LEMMA ParsesEnds ==
    ASSUME NEW b \in Seq(WireBytes), NEW q \in Seq(Packets), NEW n \in 0..Len(q),
           NEW e \in [0..n -> Nat], Parses(b, q, n, e)
    PROVE  /\ n = 0 <=> b = <<>>
           /\ n > 0 => /\ Len(q[1]) <= Len(b) /\ \A k \in 1..Len(q[1]) : b[k] = q[1][k]
                       /\ e[1] = Len(q[1])
                       /\ Len(q[n]) <= Len(b)
                       /\ \A k \in 1..Len(q[n]) : b[Len(b) - Len(q[n]) + k] = q[n][k]
<1>1. ASSUME n > 0 PROVE /\ q[1] \in Packets /\ q[n] \in Packets
                         /\ Len(q[1]) \in Int /\ Len(q[1]) >= 2
                         /\ Len(q[n]) \in Int /\ Len(q[n]) >= 2
  <2>1. q[1] \in Packets /\ q[n] \in Packets
    BY <1>1
  <2> QED BY <2>1, PacketFacts
<1>2. ASSUME n > 0
      PROVE  /\ e[1] = Len(q[1]) /\ e[1] <= Len(b)
             /\ \A k \in 1..Len(q[1]) : b[k] = q[1][k]
  <2>1. e[1] = e[0] + Len(q[1]) /\ e[0] = 0 /\ e[1] <= e[n] /\ e[n] = Len(b)
    BY <1>2 DEF Parses
  <2>2. \A k \in 1..Len(q[1]) : b[e[1 - 1] + k] = q[1][k]
    BY <1>2 DEF Parses
  <2> QED BY <1>1, <1>2, <2>1, <2>2, SMTT(60)
<1>3. ASSUME n > 0
      PROVE  /\ Len(q[n]) <= Len(b)
             /\ \A k \in 1..Len(q[n]) : b[Len(b) - Len(q[n]) + k] = q[n][k]
  <2>1. e[n] = e[n - 1] + Len(q[n]) /\ e[n - 1] \in Nat /\ e[n] = Len(b)
    BY <1>3 DEF Parses
  <2>2. \A k \in 1..Len(q[n]) : b[e[n - 1] + k] = q[n][k]
    BY <1>3 DEF Parses
  <2>3. e[n - 1] = Len(b) - Len(q[n])
    BY <1>1, <1>3, <2>1
  <2>4. Len(b) = e[n - 1] + Len(q[n]) /\ Len(q[n]) <= Len(b)
    BY <1>1, <1>3, <2>1
  <2> QED BY <2>2, <2>3, <2>4
<1>4. n = 0 => b = <<>>
  BY DEF Parses
<1>5. n > 0 => b # <<>>
  BY <1>1, <1>2
<1>6. n = 0 \/ n > 0
  OBVIOUS
<1> QED BY <1>2, <1>3, <1>4, <1>5, <1>6

\* The first packet is done with.
LEMMA ParsesRest ==
    ASSUME NEW b \in Seq(WireBytes), NEW q \in Seq(Packets), NEW n \in 1..Len(q),
           NEW e \in [0..n -> Nat], Parses(b, q, n, e)
    PROVE  Parses(SubSeq(b, Len(q[1]) + 1, Len(b)), Tail(q), n - 1,
                  [i \in 0..(n - 1) |-> e[i + 1] - Len(q[1])])
<1> DEFINE d == Len(q[1])
           r == SubSeq(b, d + 1, Len(b))
           f == [i \in 0..(n - 1) |-> e[i + 1] - d]
<1>1. d \in Nat /\ e[1] = d /\ d <= Len(b)
  <2>1. n > 0 /\ n \in 0..Len(q) /\ q[1] \in Packets
    OBVIOUS
  <2> QED BY <2>1, ParsesEnds, PacketFacts
<1>2. Len(r) = Len(b) - d /\ \A k \in 1..Len(r) : r[k] = b[d + k]
  BY <1>1, SMTT(60)
<1>3. \A i \in 1..(n - 1) : Tail(q)[i] = q[i + 1]
  OBVIOUS
<1>4. f[0] = 0 /\ f[n - 1] = Len(r)
  <2>1. f[0] = e[1] - d /\ f[n - 1] = e[n] - d
    OBVIOUS
  <2>2. e[n] = Len(b)
    BY DEF Parses
  <2> HIDE DEF f, r, d
  <2> QED BY <1>1, <1>2, <2>1, <2>2
<1>5. \A i, j \in 0..(n - 1) : i <= j => f[i] <= f[j]
  BY <1>1, SMTT(60) DEF Parses
<1>6. ASSUME NEW i \in 1..(n - 1)
      PROVE  /\ f[i] = f[i - 1] + Len(Tail(q)[i])
             /\ \A k \in 1..Len(Tail(q)[i]) : r[f[i - 1] + k] = Tail(q)[i][k]
  <2>1. e[i + 1] = e[i] + Len(q[i + 1]) /\ \A k \in 1..Len(q[i + 1]) : b[e[i] + k] = q[i + 1][k]
    <3>1. i + 1 \in 1..n /\ (i + 1) - 1 = i
      OBVIOUS
    <3> QED BY <3>1 DEF Parses
  <2>2. f[i] = e[i + 1] - d /\ f[i - 1] = e[i] - d
    OBVIOUS
  <2>3. q[i + 1] \in Packets /\ Len(q[i + 1]) \in Nat
    BY PacketFacts, SMTT(60)
  <2>4. e[i] \in Nat /\ e[i + 1] \in Nat /\ d <= e[i] /\ e[i + 1] <= Len(b)
    BY <1>1, SMTT(60) DEF Parses
  <2>5. ASSUME NEW k \in 1..Len(q[i + 1]) PROVE r[f[i - 1] + k] = q[i + 1][k]
    <3> HIDE DEF d, r, f
    <3>1. e[i] + k <= e[i + 1] /\ k \in Int /\ k >= 1
      BY <2>1, <2>3, <2>4, SMTT(60)
    <3>2. (e[i] - d) + k \in 1..(Len(b) - d) /\ d + ((e[i] - d) + k) = e[i] + k
      BY <1>1, <2>4, <3>1, SMTT(60)
    <3>3. r[(e[i] - d) + k] = b[d + ((e[i] - d) + k)]
      BY <1>2, <3>2
    <3> QED BY <2>1, <2>2, <3>2, <3>3
  <2>6. e[i + 1] - d = (e[i] - d) + Len(q[i + 1])
    BY <1>1, <2>1, <2>3, <2>4, SMTT(60)
  <2> QED BY <1>3, <2>2, <2>5, <2>6
<1> QED BY <1>4, <1>5, <1>6 DEF Parses

\* The next packet begins to arrive.
LEMMA ParsesMore ==
    ASSUME NEW b \in Seq(WireBytes), NEW q \in Seq(Packets), NEW n \in 0..(Len(q) - 1),
           NEW e \in [0..n -> Nat], Parses(b, q, n, e)
    PROVE  Parses(b \o q[n + 1], q, n + 1,
                  [i \in 0..(n + 1) |-> IF i <= n THEN e[i] ELSE Len(b) + Len(q[n + 1])])
<1> DEFINE p == q[n + 1]
           r == b \o p
           f == [i \in 0..(n + 1) |-> IF i <= n THEN e[i] ELSE Len(b) + Len(p)]
<1>1. p \in Packets /\ p \in Seq(WireBytes) /\ Len(p) \in Nat
  BY PacketFacts
<1>2. /\ r \in Seq(WireBytes) /\ Len(r) = Len(b) + Len(p)
      /\ \A k \in 1..Len(b) : r[k] = b[k]
      /\ \A k \in 1..Len(p) : r[Len(b) + k] = p[k]
  BY <1>1
<1>3. f[0] = 0 /\ f[n + 1] = Len(r)
  BY <1>2 DEF Parses
<1>4. \A i \in 0..n : e[i] <= Len(b)
  BY DEF Parses
<1>5. \A i, j \in 0..(n + 1) : i <= j => f[i] <= f[j]
  BY <1>1, <1>4 DEF Parses
<1>6. ASSUME NEW i \in 1..(n + 1)
      PROVE  f[i] = f[i - 1] + Len(q[i]) /\ \A k \in 1..Len(q[i]) : r[f[i - 1] + k] = q[i][k]
  <2>1. CASE i = n + 1
    <3>1. f[i - 1] = Len(b) /\ f[i] = Len(b) + Len(p)
      BY <2>1 DEF Parses
    <3> QED BY <1>1, <1>2, <2>1, <3>1
  <2>2. CASE i <= n
    <3>1. f[i] = e[i] /\ f[i - 1] = e[i - 1] /\ e[i] = e[i - 1] + Len(q[i])
      BY <2>2 DEF Parses
    <3>2. \A k \in 1..Len(q[i]) : b[e[i - 1] + k] = q[i][k]
      BY <2>2 DEF Parses
    <3>3. e[i - 1] \in Nat /\ e[i] <= Len(b) /\ q[i] \in Packets /\ Len(q[i]) \in Nat
      BY <1>4, <2>2, PacketFacts, SMTT(60)
    <3>4. ASSUME NEW k \in 1..Len(q[i]) PROVE e[i - 1] + k \in 1..Len(b)
      BY <3>1, <3>3, SMTT(60)
    <3> QED BY <1>2, <3>1, <3>2, <3>4
  <2>3. i = n + 1 \/ i <= n
    OBVIOUS
  <2> QED BY <2>1, <2>2, <2>3
<1> QED BY <1>3, <1>5, <1>6 DEF Parses

-----------------------------------------------------------------------------
(* Types. *)

LEMMA TypesInit == SessionInit => Types
<1> SUFFICES ASSUME SessionInit PROVE Types
  OBVIOUS
<1>1. 0 \in WireBytes /\ RingSize >= 0
  BY ByteTypes, SessionAssumption
<1>2. NoPacket \in [header : WireBytes, remaining : Nat, lengths : 0..4, body : Seq(WireBytes)]
      /\ Len(NoPacket.body) = 0
  BY <1>1 DEF NoPacket
<1>3. NewClient \in [connected : BOOLEAN, ping : BOOLEAN, handler : BOOLEAN]
      /\ NoAnswer \in [accepted : BOOLEAN, granted : BOOLEAN, early : Nat]
  BY DEF NewClient, NoAnswer
<1> QED BY <1>1, <1>2, <1>3 DEF SessionInit, Types

\* What ends a call keeps the types.
LEMMA TypesIdle ==
    ASSUME Types, Idle, client' \in [connected : BOOLEAN, ping : BOOLEAN, handler : BOOLEAN],
           requests' \in Seq({"CONNECT", "SUBSCRIBE", "PINGREQ"}),
           UNCHANGED <<link, air, broker, commands, pending, delivered>>
    PROVE  Types'
BY ByteTypes DEF Types, Idle, NoPacket

LEMMA TypesStart ==
    ASSUME Types, NEW o \in {"connect", "subscribe", "yield"}, Start(o),
           client' \in [connected : BOOLEAN, ping : BOOLEAN, handler : BOOLEAN],
           requests' \in Seq({"CONNECT", "SUBSCRIBE", "PINGREQ"}),
           UNCHANGED <<link, air, broker, commands, pending, delivered>>
    PROVE  Types'
BY ByteTypes DEF Types, Start, NoPacket

LEMMA SubscribeTypes ==
    ASSUME Types, NEW c \in [connected : BOOLEAN, ping : BOOLEAN, handler : BOOLEAN],
           Subscribe(c), UNCHANGED <<link, air, broker, commands, pending, delivered>>
    PROVE  Types'
<1>1. Closed(c) \in [connected : BOOLEAN, ping : BOOLEAN, handler : BOOLEAN]
  BY DEF Closed
<1>2. Written("SUBSCRIBE") \in Seq({"CONNECT", "SUBSCRIBE", "PINGREQ"})
  BY DEF Written, Types
<1>3. CASE c.connected /\ Start("subscribe") /\ Sent("SUBSCRIBE") /\ client' = c
  BY <1>2, <1>3, TypesStart DEF Sent
<1>4. CASE Idle /\ client' = Closed(c) /\ UNCHANGED <<requests, expired>>
  BY <1>1, <1>4, TypesIdle DEF Types
<1> QED BY <1>3, <1>4 DEF Subscribe

LEMMA GiveUpTypes ==
    ASSUME Types, GiveUp, UNCHANGED <<link, air, broker, commands, pending, delivered>>
    PROVE  Types'
<1>1. client \in [connected : BOOLEAN, ping : BOOLEAN, handler : BOOLEAN]
  BY DEF Types
<1>2. CASE op = "connect"
  BY <1>1, <1>2, SubscribeTypes DEF GiveUp
<1>3. CASE op = "subscribe"
  <2>1. Closed(client) \in [connected : BOOLEAN, ping : BOOLEAN, handler : BOOLEAN]
    BY <1>1 DEF Closed
  <2> QED BY <1>3, <2>1, TypesIdle DEF GiveUp, Types
<1>4. CASE op \notin {"connect", "subscribe"}
  BY <1>1, <1>4, TypesIdle DEF GiveUp, Types
<1> QED BY <1>2, <1>3, <1>4

LEMMA CloseTypes ==
    ASSUME Types
    PROVE  /\ CloseSession(client) \in [connected : BOOLEAN, ping : BOOLEAN, handler : BOOLEAN]
           /\ ~CloseSession(client).connected
           /\ CloseSession(client).handler => client.handler
BY DEF Types, CloseSession, Closed

\* What readPacket does to the packet.
LEMMA ReadsRestTypes ==
    ASSUME Types, NEW r \in Nat, NEW l \in 0..4, pc = "length",
           ReadsRest([packet EXCEPT !.remaining = r, !.lengths = l]),
           pending' \in Seq(WireBytes), Len(pending') <= RingSize,
           UNCHANGED <<link, air, requests, broker, commands, op, delivered>>
    PROVE  Types'
<1> DEFINE p == [packet EXCEPT !.remaining = r, !.lengths = l]
<1>1. /\ p \in [header : WireBytes, remaining : Nat, lengths : 0..4, body : Seq(WireBytes)]
      /\ p.remaining = r /\ p.body = <<>>
  BY DEF Types
<1>2. packet' = p /\ client' \in [connected : BOOLEAN, ping : BOOLEAN, handler : BOOLEAN]
  BY CloseTypes DEF ReadsRest, Types
<1>3. /\ pc' \in {"dispatch", "rest", "failed"}
      /\ pc' = "dispatch" => r = 0
  BY <1>1 DEF ReadsRest
<1> HIDE DEF p
<1> QED BY <1>1, <1>2, <1>3 DEF Types

LEMMA MultiplierTypes == \A n \in 0..3 : Multiplier(n) \in Nat
<1>1. \A n \in 0..3 : n = 0 \/ n = 1 \/ n = 2 \/ n = 3
  OBVIOUS
<1> QED BY <1>1 DEF Multiplier

LEMMA ReadLengthTypes ==
    ASSUME Types, ReadLength
    PROVE  Types'
<1> DEFINE b == Head(pending)
           r == packet.remaining + (b % 128) * Multiplier(packet.lengths)
           l == packet.lengths + 1
           p == [packet EXCEPT !.remaining = r, !.lengths = l]
<1>0. pc = "length" /\ pending # <<>> /\ pending' = Tail(pending)
  BY DEF ReadLength
<1>1. /\ b \in WireBytes /\ b \in 0..255
      /\ pending' \in Seq(WireBytes) /\ Len(pending') <= RingSize
  <2>1. pending \in Seq(WireBytes) /\ Len(pending) <= RingSize /\ RingSize \in Nat
    BY SessionAssumption DEF Types
  <2>2. b \in WireBytes /\ Tail(pending) \in Seq(WireBytes) /\ Len(Tail(pending)) = Len(pending) - 1
    BY <1>0, <2>1, HeadTailProperties
  <2>3. Len(pending) \in Nat
    BY <2>1
  <2> HIDE DEF b
  <2> QED BY <1>0, <2>1, <2>2, <2>3, ByteTypes
<1>2. Multiplier(packet.lengths) \in Nat /\ packet.lengths \in 0..3 /\ packet.remaining \in Nat
  BY MultiplierTypes, SMTT(60) DEF Types, ReadLength
<1>3. r \in Nat /\ l \in 1..4
  <2>1. \A x, y \in Nat : x * y \in Nat
    OBVIOUS
  <2>2. b % 128 \in Nat
    <3> HIDE DEF b
    <3> QED BY <1>1
  <2>3. (b % 128) * Multiplier(packet.lengths) \in Nat
    BY <1>2, <2>1, <2>2
  <2> QED BY <1>2, <2>3
<1>4. UNCHANGED <<link, air, requests, broker, commands, op, delivered>>
  BY DEF ReadLength, ReadUnchanged, network
<1>5. p = [packet EXCEPT !.remaining = @ + (b % 128) * Multiplier(packet.lengths), !.lengths = @ + 1]
  BY DEF Types
<1>6. p.lengths = l /\ p.body = <<>>
      /\ p \in [header : WireBytes, remaining : Nat, lengths : 0..4, body : Seq(WireBytes)]
  <2>1. packet \in [header : WireBytes, remaining : Nat, lengths : 0..4, body : Seq(WireBytes)]
        /\ packet.body = <<>>
    BY <1>0 DEF Types
  <2>2. l \in 0..4
    BY <1>3
  <2> HIDE DEF r, l
  <2>3. p.lengths = l /\ p.body = packet.body
    BY <2>1
  <2> QED BY <1>3, <2>1, <2>2, <2>3
<1>7. CASE b >= 128 /\ l < 4
  <2>1. packet' = p /\ UNCHANGED <<pc, client>>
    BY <1>5, <1>6, <1>7 DEF ReadLength
  <2>2. l <= 3
    BY <1>3, <1>7, SMTT(60)
  <2> HIDE DEF p, l
  <2> QED BY <1>1, <1>4, <1>6, <2>1, <2>2 DEF Types, ReadLength
<1>8. CASE ~(b >= 128 /\ l < 4)
  <2>1. ReadsRest(p)
    BY <1>5, <1>6, <1>8 DEF ReadLength
  <2>2. l \in 0..4
    BY <1>3
  <2> HIDE DEF r, l
  <2> QED BY <1>0, <1>1, <1>3, <1>4, <2>1, <2>2, ReadsRestTypes
<1> QED BY <1>7, <1>8

ClientRecords == [connected : BOOLEAN, ping : BOOLEAN, handler : BOOLEAN]

LEMMA ReadTypes ==
    ASSUME Types, ReadHeader \/ NoHeader \/ NoLength \/ ReadRest \/ NoRest
    PROVE  Types'
<1>1. CASE ReadHeader
  <2>1. /\ pc = "header" /\ pending # <<>> /\ pending' = Tail(pending) /\ pc' = "length"
        /\ packet' = [packet EXCEPT !.header = Head(pending)]
        /\ UNCHANGED <<link, air, requests, broker, commands, op, delivered, client>>
    BY <1>1 DEF ReadHeader, ReadUnchanged, network
  <2>2. Head(pending) \in WireBytes /\ pending' \in Seq(WireBytes) /\ Len(pending') <= RingSize
    <3>1. pending \in Seq(WireBytes) /\ Len(pending) \in Nat /\ Len(pending) <= RingSize
      BY DEF Types
    <3> QED BY <2>1, <3>1, SessionAssumption, HeadTailProperties
  <2>3. PICK h \in WireBytes : packet' = [NoPacket EXCEPT !.header = h]
    BY <2>1, <2>2 DEF Types
  <2>4. /\ packet' \in [header : WireBytes, remaining : Nat, lengths : 0..4, body : Seq(WireBytes)]
        /\ packet'.lengths = 0 /\ packet'.body = <<>>
    <3>1. packet' = [header |-> h, remaining |-> 0, lengths |-> 0, body |-> <<>>]
      BY <2>3 DEF NoPacket
    <3>2. <<>> \in Seq(WireBytes) /\ 0 \in 0..4
      OBVIOUS
    <3> QED BY <3>1, <3>2
  <2> QED BY <2>1, <2>2, <2>4 DEF Types
<1>2. CASE NoHeader
  BY <1>2 DEF NoHeader, ReadUnchanged, network, Types
<1>3. CASE NoLength
  <2>1. packet = [packet EXCEPT !.remaining = packet.remaining, !.lengths = packet.lengths]
        /\ packet.remaining \in Nat /\ packet.lengths \in 0..4
    BY DEF Types
  <2>2. /\ pc = "length" /\ ReadsRest(packet) /\ pending' = pending
        /\ UNCHANGED <<link, air, requests, broker, commands, op, delivered>>
    BY <1>3 DEF NoLength, ReadUnchanged, network
  <2>3. pending' \in Seq(WireBytes) /\ Len(pending') <= RingSize
    BY <2>2 DEF Types
  <2>4. ReadsRest([packet EXCEPT !.remaining = packet.remaining, !.lengths = packet.lengths])
    BY <2>1, <2>2
  <2> QED BY <2>1, <2>2, <2>3, <2>4, ReadsRestTypes
<1>4. CASE ReadRest
  <2>1. /\ pc = "rest" /\ Len(pending) >= packet.remaining /\ pc' = "dispatch"
        /\ packet' = [packet EXCEPT !.body = SubSeq(pending, 1, packet.remaining)]
        /\ pending' = SubSeq(pending, packet.remaining + 1, Len(pending))
        /\ UNCHANGED <<link, air, requests, broker, commands, op, delivered, client>>
    BY <1>4 DEF ReadRest, ReadUnchanged, network
  <2>2. /\ packet.remaining \in Nat /\ pending \in Seq(WireBytes)
        /\ Len(pending) \in Nat /\ Len(pending) <= RingSize /\ RingSize \in Nat
    BY SessionAssumption DEF Types
  <2>3. /\ SubSeq(pending, 1, packet.remaining) \in Seq(WireBytes)
        /\ Len(SubSeq(pending, 1, packet.remaining)) = packet.remaining
        /\ pending' \in Seq(WireBytes) /\ Len(pending') = Len(pending) - packet.remaining
    BY <2>1, <2>2, SMTT(60)
  <2>4. /\ packet' \in [header : WireBytes, remaining : Nat, lengths : 0..4, body : Seq(WireBytes)]
        /\ Len(packet'.body) = packet'.remaining
    BY <2>1, <2>3 DEF Types
  <2>5. Len(pending') <= RingSize
    BY <2>2, <2>3
  <2> QED BY <2>1, <2>3, <2>4, <2>5 DEF Types
<1>5. CASE NoRest
  <2>1. NoPacket \in [header : WireBytes, remaining : Nat, lengths : 0..4, body : Seq(WireBytes)]
        /\ Len(NoPacket.body) = 0 /\ RingSize >= 0
    BY ByteTypes, SessionAssumption DEF NoPacket
  <2>2. client' \in ClientRecords
    BY <1>5, CloseTypes DEF NoRest, AfterShortRest, ClientRecords
  <2> QED BY <1>5, <2>1, <2>2 DEF NoRest, ReadUnchanged, network, Types, ClientRecords
<1> QED BY <1>1, <1>2, <1>3, <1>4, <1>5

LEMMA CycleTypes ==
    ASSUME Types, Dispatch \/ Keepalive \/ CycleReturns
    PROVE  Types'
<1>1. CASE Dispatch
  <2>1. client' \in ClientRecords
    BY <1>1, CloseTypes DEF Dispatch, ClientRecords, Types
  <2>2. PayloadOf(Body) \in WireBytes
    BY ByteTypes DEF PayloadOf, Body, Types
  <2>3. delivered' \in Seq(WireBytes)
    BY <1>1, <2>2 DEF Dispatch, Types
  <2>4. pc' \in {"keepalive", "check"} /\ pc = "dispatch"
    BY <1>1 DEF Dispatch
  <2> QED BY <1>1, <2>1, <2>3, <2>4 DEF Dispatch, Types, network, ClientRecords
<1>2. CASE Keepalive
  <2>1. client' \in ClientRecords
    BY <1>2, CloseTypes DEF Keepalive, ClientRecords, Types
  <2>2. requests' \in Seq({"CONNECT", "SUBSCRIBE", "PINGREQ"})
    <3>1. Written("PINGREQ") \in Seq({"CONNECT", "SUBSCRIBE", "PINGREQ"})
      BY DEF Types, Written
    <3>2. requests' = requests \/ requests' = Written("PINGREQ")
      BY <1>2 DEF Keepalive
    <3> QED BY <3>1, <3>2 DEF Types
  <2>3. pc' \in {"cycled", "failed"} /\ pc = "keepalive"
    BY <1>2 DEF Keepalive
  <2> QED BY <1>2, <2>1, <2>2, <2>3 DEF Keepalive, Types, ClientRecords
<1>3. CASE CycleReturns
  <2>1. UNCHANGED <<link, air, broker, commands, pending, delivered>> /\ pc = "cycled"
    BY <1>3 DEF CycleReturns
  <2>2. CASE Loop /\ UNCHANGED <<client, requests, expired, publishes>>
    <3>1. NoPacket \in [header : WireBytes, remaining : Nat, lengths : 0..4, body : Seq(WireBytes)]
          /\ Len(NoPacket.body) = 0
      BY ByteTypes DEF NoPacket
    <3> QED BY <2>1, <2>2, <3>1 DEF Loop, Types
  <2>3. CASE ConnectReturns
    <3>1. PICK c \in ClientRecords : Subscribe(c)
      BY <2>3 DEF ConnectReturns, Types, ClientRecords, Accepts, ReturnCode
    <3> QED BY <2>1, <3>1, SubscribeTypes DEF ClientRecords
  <2>4. CASE SubscribeReturns
    <3>1. client' \in ClientRecords
      BY <2>4 DEF SubscribeReturns, Types, ClientRecords, Grants, GrantedQoS
    <3> QED BY <2>1, <2>4, <3>1, TypesIdle DEF SubscribeReturns, ClientRecords, Types
  <2> QED BY <1>3, <2>2, <2>3, <2>4 DEF CycleReturns
<1> QED BY <1>1, <1>2, <1>3

LEMMA MainTypes ==
    ASSUME Types, GoOn \/ LeaveLoop \/ TooLong \/ MenuEvent \/ Yield \/ Connect
    PROVE  Types'
<1>0. /\ NoPacket \in [header : WireBytes, remaining : Nat, lengths : 0..4, body : Seq(WireBytes)]
      /\ Len(NoPacket.body) = 0 /\ RingSize >= 0
  BY ByteTypes, SessionAssumption DEF NoPacket
<1>1. CASE GoOn
  BY <1>0, <1>1 DEF GoOn, Types, network
<1>2. CASE LeaveLoop \/ TooLong
  BY <1>2, GiveUpTypes DEF LeaveLoop, TooLong
<1>3. CASE MenuEvent
  <2>1. client' \in ClientRecords
    BY <1>3 DEF MenuEvent, Publish, WritePublication, Closed, Types, ClientRecords
  <2> QED BY <1>3, <2>1 DEF MenuEvent, Types, ClientRecords, network, call
<1>4. CASE Yield
  BY <1>4, TypesStart DEF Yield, Types, network
<1>5. CASE Connect
  <2>1. /\ client' \in ClientRecords /\ NoAnswer \in [accepted : BOOLEAN, granted : BOOLEAN, early : Nat]
        /\ link' \in {"up", "down"} /\ air' = <<>> /\ broker' = NoAnswer /\ commands' = <<>>
        /\ pending' = <<>> /\ delivered' = <<>>
    BY <1>5 DEF Connect, NewManager, Dial, NewClient, NoAnswer, ClientRecords, Types
  <2>2. requests' \in Seq({"CONNECT", "SUBSCRIBE", "PINGREQ"})
    <3>1. requests' = <<"CONNECT">> \/ requests' = <<>>
      BY <1>5 DEF Connect, ConnectMQTT
    <3>2. \A S : <<>> \in Seq(S) /\ (\A x \in S : <<x>> \in Seq(S))
      OBVIOUS
    <3> QED BY <3>1, <3>2, Zenon
  <2>3. /\ (op' = "none" /\ pc' = "idle") \/ (op' = "connect" /\ pc' = "check")
        /\ packet' = NoPacket
    <3>1. Start("connect") \/ Idle
      BY <1>5 DEF Connect, ConnectMQTT
    <3> QED BY <3>1 DEF Start, Idle
  <2> QED BY <1>0, <2>1, <2>2, <2>3 DEF Types, ClientRecords
<1> QED BY <1>1, <1>2, <1>3, <1>4, <1>5

LEMMA FullPrepended ==
    ASSUME NEW S, NEW s \in Seq(S), NEW x \in S, \A i \in 1..Len(s) : s[i] # <<>>, x # <<>>
    PROVE  <<x>> \o s \in Seq(S) /\ \A i \in 1..Len(<<x>> \o s) : (<<x>> \o s)[i] # <<>>
<1>1. <<x>> \in Seq(S) /\ Len(<<x>>) = 1 /\ <<x>>[1] = x
  OBVIOUS
<1> QED BY <1>1, ConcatProperties

LEMMA ArriveTypes ==
    ASSUME Types, Poll
    PROVE  Types'
<1>1. PICK n \in 1..Len(Head(air)) : Arrive(n)
  BY DEF Poll
<1>2. /\ air \in Seq(Seq(WireBytes)) /\ air # <<>>
      /\ pending \in Seq(WireBytes) /\ Len(pending) \in Nat /\ Len(pending) <= RingSize
      /\ RingSize \in Nat
  BY SessionAssumption DEF Types, Poll
<1>3. PICK first \in Seq(WireBytes) : first = Head(air)
  BY <1>2
<1>4. Tail(air) \in Seq(Seq(WireBytes)) /\ \A i \in 1..Len(Tail(air)) : Tail(air)[i] # <<>>
  BY <1>2 DEF Types
<1>5. PICK k \in 0..n : k = (IF n <= Room THEN n ELSE Room) /\ k <= RingSize - Len(pending)
  <2>1. n \in 1..Len(first) /\ Len(first) \in Nat
    BY <1>3
  <2>2. Room \in Nat /\ Room = RingSize - Len(pending)
    BY <1>2 DEF Room
  <2> QED BY <2>1, <2>2
<1>6. pending' \in Seq(WireBytes) /\ Len(pending') <= RingSize
  <2>1. n \in 1..Len(first) /\ Len(first) \in Nat
    BY <1>3
  <2>2. SubSeq(first, 1, k) \in Seq(WireBytes) /\ Len(SubSeq(first, 1, k)) = k
    BY <1>5, <2>1
  <2>3. pending' = pending \o SubSeq(first, 1, k)
    BY <1>1, <1>3, <1>5 DEF Arrive
  <2> QED BY <1>2, <1>5, <2>2, <2>3
<1>7. air' \in Seq(Seq(WireBytes)) /\ \A i \in 1..Len(air') : air'[i] # <<>>
  <2>1. CASE n = Len(first)
    BY <1>1, <1>3, <1>4, <2>1 DEF Arrive
  <2>2. CASE n # Len(first)
    <3>1. PICK t \in Seq(Seq(WireBytes)) : t = Tail(air) /\ \A i \in 1..Len(t) : t[i] # <<>>
      BY <1>4
    <3>2. PICK r \in Seq(WireBytes) : r = SubSeq(first, n + 1, Len(first)) /\ r # <<>>
      <4>1. n \in 1..Len(first) /\ n # Len(first) /\ Len(first) \in Nat
        BY <1>3, <2>2
      <4>2. SubSeq(first, n + 1, Len(first)) \in Seq(WireBytes)
            /\ Len(SubSeq(first, n + 1, Len(first))) = Len(first) - n
        BY <4>1
      <4>3. PICK r \in Seq(WireBytes) :
                 r = SubSeq(first, n + 1, Len(first)) /\ Len(r) = Len(first) - n
        BY <4>2
      <4>4. Len(r) > 0
        BY <4>1, <4>3
      <4>5. r # <<>>
        BY <4>4
      <4> QED BY <4>3, <4>5
    <3>3. air' = <<r>> \o t
      BY <1>1, <1>3, <2>2, <3>1, <3>2 DEF Arrive
    <3> QED BY <3>1, <3>2, <3>3, FullPrepended, ZenonT(60)
  <2> QED BY <2>1, <2>2
<1> QED BY <1>6, <1>7 DEF Poll, Types, call

\* Segments are never empty.
LEMMA FullAppended ==
    ASSUME NEW S, NEW s \in Seq(S), NEW x \in S, \A i \in 1..Len(s) : s[i] # <<>>, x # <<>>
    PROVE  Append(s, x) \in Seq(S) /\ \A i \in 1..Len(Append(s, x)) : Append(s, x)[i] # <<>>
OBVIOUS

LEMMA WorldTypes ==
    ASSUME Types, TimerRuns \/ Expiry \/ LinkDies \/ Broker
    PROVE  Types'
<1>1. CASE TimerRuns
  BY <1>1 DEF TimerRuns, Types, network
<1>2. CASE Expiry
  BY <1>2 DEF Expiry, Expire, Types, network, call
<1>3. CASE LinkDies
  BY <1>3 DEF LinkDies, Types, call
<1>4. CASE Answer
  <2>1. PICK p \in Packets : air' = Append(air, p)
    BY <1>4 DEF Answer, Packets
  <2>2. p \in Seq(WireBytes) /\ p # <<>>
    BY PacketFacts
  <2>3. air' \in Seq(Seq(WireBytes)) /\ \A i \in 1..Len(air') : air'[i] # <<>>
    <3>1. air \in Seq(Seq(WireBytes)) /\ \A i \in 1..Len(air) : air[i] # <<>>
      BY DEF Types
    <3> QED BY <2>1, <2>2, <3>1, FullAppended
  <2>4. broker' \in [accepted : BOOLEAN, granted : BOOLEAN, early : Nat]
    BY <1>4 DEF Answer, Types
  <2>5. requests' \in Seq({"CONNECT", "SUBSCRIBE", "PINGREQ"})
    BY <1>4 DEF Answer, Types
  <2> QED BY <1>4, <2>3, <2>4, <2>5 DEF Answer, BrokerUnchanged, Types, call
<1>5. ASSUME NEW payload \in Payloads, SendCommand(payload) PROVE Types'
  <2>1. Command(payload) \in Packets
    BY DEF Packets
  <2>2. Command(payload) \in Seq(WireBytes) /\ Command(payload) # <<>>
    BY <2>1, PacketFacts
  <2>3. air' \in Seq(Seq(WireBytes)) /\ \A i \in 1..Len(air') : air'[i] # <<>>
    <3>1. air \in Seq(Seq(WireBytes)) /\ \A i \in 1..Len(air) : air[i] # <<>>
      BY DEF Types
    <3>2. air' = Append(air, Command(payload))
      BY <1>5 DEF SendCommand
    <3> QED BY <2>2, <3>1, <3>2, FullAppended
  <2>4. broker' \in [accepted : BOOLEAN, granted : BOOLEAN, early : Nat]
    <3>1. broker' = [broker EXCEPT !.early = IF broker.granted THEN @ ELSE @ + 1]
      BY <1>5 DEF SendCommand
    <3>2. broker \in [accepted : BOOLEAN, granted : BOOLEAN, early : Nat]
      BY DEF Types
    <3> QED BY <3>1, <3>2
  <2>5. commands' \in Seq(Payloads)
    <3>1. commands' = Append(commands, payload) /\ commands \in Seq(Payloads)
      BY <1>5 DEF SendCommand, Types
    <3> QED BY <3>1
  <2> QED BY <1>5, <2>3, <2>4, <2>5 DEF SendCommand, BrokerUnchanged, Types, call
<1> QED BY <1>1, <1>2, <1>3, <1>4, <1>5 DEF Broker

LEMMA TypesStep ==
    ASSUME Types, [SessionNext]_sessionVars
    PROVE  Types'
<1>1. CASE UNCHANGED sessionVars
  BY <1>1 DEF sessionVars, network, call, Types
<1>2. CASE SessionNext
  BY <1>2, ReadLengthTypes, ReadTypes, CycleTypes, MainTypes, ArriveTypes, WorldTypes
     DEF SessionNext, Device
<1> QED BY <1>1, <1>2

-----------------------------------------------------------------------------
(* Steps that leave the stream alone. *)

LEMMA QuietStream ==
    ASSUME NEW b, NEW q, NEW n, NEW e, NEW c, InSync(b, q, n, e, c),
           UNCHANGED <<link, air, pending, commands, broker>>,
           \/ pc' = pc /\ packet' = packet
           \/ /\ pc \notin {"length", "rest", "dispatch"}
              /\ pc' \notin {"length", "rest", "dispatch"},
           pc' \in {"keepalive", "cycled"} /\ packet' # NoPacket =>
              pc \in {"keepalive", "cycled"} /\ packet' = packet,
           op' = "connect" => op = "connect",
           Has("CONNECT")' => Has("CONNECT"),
           Has("SUBSCRIBE")' => Has("SUBSCRIBE") \/ op = "connect",
           Delivers(c)'
    PROVE  Sync'
<1>1. Done' = Done /\ Rest(b)' = Rest(b)
  BY DEF Done, Rest
<1>2. Received(b, q, n)'
  BY <1>1 DEF Received, InSync
<1>3. ReadSoFar(q)'
  BY DEF ReadSoFar, InSync
<1>4. Numbered(q, c)'
  BY DEF Numbered, InSync
<1>5. ASSUME NEW p, NEW k, Acks(p, k) PROVE Acks(p, k)'
  BY <1>5 DEF Acks
<1>6. Acknowledged(q, c)'
  BY <1>5 DEF Acknowledged, InSync
<1>7. InSync(b, q, n, e, c)'
  BY <1>2, <1>3, <1>4, <1>6 DEF InSync
<1> QED BY <1>7 DEF Sync

\* The same, when the client's handler and what was delivered stay.
LEMMA QuietSync ==
    ASSUME Sync,
           UNCHANGED <<link, air, pending, commands, broker, delivered>>,
           client'.handler = client.handler,
           \/ pc' = pc /\ packet' = packet
           \/ /\ pc \notin {"length", "rest", "dispatch"}
              /\ pc' \notin {"length", "rest", "dispatch"},
           pc' \in {"keepalive", "cycled"} /\ packet' # NoPacket =>
              pc \in {"keepalive", "cycled"} /\ packet' = packet,
           op' = "connect" => op = "connect",
           Has("CONNECT")' => Has("CONNECT"),
           Has("SUBSCRIBE")' => Has("SUBSCRIBE") \/ op = "connect"
    PROVE  Sync'
<1>1. PICK b, q, n, e, c : InSync(b, q, n, e, c)
  BY DEF Sync
<1>2. Delivers(c)'
  BY <1>1 DEF InSync, Delivers
<1> QED BY <1>1, <1>2, QuietStream

LEMMA QuietGarbage ==
    ASSUME Garbage, UNCHANGED <<pending, air>>, packet'.header \in Harmless,
           Has("CONNECT")' => Has("CONNECT")
    PROVE  Garbage'
BY DEF Garbage

LEMMA InOrderKept ==
    ASSUME Followed, InStep, UNCHANGED <<delivered, commands>>, broker'.early = broker.early
    PROVE  CommandsInOrder'
BY DEF CommandsInOrder, Followed

\* What a request that is written adds.
LEMMA RequestAdded ==
    ASSUME Types, NEW r \in {"SUBSCRIBE", "PINGREQ"}, requests' = Written(r)
    PROVE  /\ \A x : Has(x)' => Has(x) \/ x = r
           /\ (\A i \in 2..Len(requests) : requests[i] # "CONNECT") =>
                 \A i \in 2..Len(requests') : requests'[i] # "CONNECT"
           /\ (r = "SUBSCRIBE" => ~Has("SUBSCRIBE")) /\
              (\A i, j \in 1..Len(requests) :
                  requests[i] = "SUBSCRIBE" /\ requests[j] = "SUBSCRIBE" => i = j) =>
                 \A i, j \in 1..Len(requests') :
                    requests'[i] = "SUBSCRIBE" /\ requests'[j] = "SUBSCRIBE" => i = j
<1>1. CASE link # "up"
  BY <1>1 DEF Written, Has
<1>2. CASE link = "up"
  <2>1. PICK s \in Seq({"CONNECT", "SUBSCRIBE", "PINGREQ"}) : s = requests
    BY DEF Types
  <2>2. requests' = Append(s, r)
    BY <1>2, <2>1 DEF Written
  <2>3. /\ Len(requests') = Len(s) + 1 /\ Len(s) \in Nat /\ requests'[Len(s) + 1] = r
        /\ \A i \in 1..Len(s) : requests'[i] = s[i]
    BY <2>1, <2>2
  <2> QED BY <2>1, <2>3 DEF Has
<1> QED BY <1>1, <1>2

LEMMA TypeIs ==
    ASSUME NEW h \in Nat
    PROVE  /\ h = CONNACK * 16 => h \div 16 = CONNACK
           /\ h = SUBACK * 16 => h \div 16 = SUBACK
           /\ h = PUBLISH * 16 => h \div 16 = PUBLISH
           /\ h = PINGRESP * 16 => h \div 16 = PINGRESP
           /\ h \in Harmless => h \div 16 \in {0, PINGRESP}
BY DEF CONNACK, SUBACK, PUBLISH, PINGRESP, Harmless, Refused

LEMMA HeaderIs ==
    ASSUME Types
    PROVE  packet.header \in Nat /\ Type = packet.header \div 16
<1>1. packet.header \in WireBytes
  BY DEF Types
<1>2. packet.header \in 0..255
  BY <1>1, ByteTypes
<1>3. \A h \in 0..255 : h \in Nat
  OBVIOUS
<1> QED BY <1>2, <1>3 DEF Type

LEMMA WaitsFollowed ==
    ASSUME Types, InStep, Followed, GoOn \/ NoHeader \/ TimerRuns \/ Expiry
    PROVE  Followed'
<1>1. CASE GoOn
  <2>1. /\ pc = "check" /\ ~Pointless /\ pc' = "header" /\ packet' = NoPacket
        /\ UNCHANGED <<link, air, requests, broker, commands, pending, op, client, delivered>>
    BY <1>1 DEF GoOn, network
  <2>2. Requested' /\ InCall' /\ CommandsInOrder'
    <3>1. InCall'
      BY <2>1 DEF InCall, Followed, Pointless, Has
    <3>2. Requested'
      BY <2>1 DEF Requested, Followed, Has
    <3> QED BY <2>1, <3>1, <3>2, InOrderKept
  <2>3. Sync => Sync'
    BY <2>1, QuietSync DEF Has
  <2>4. Garbage => Garbage'
    BY <2>1, QuietGarbage DEF NoPacket, Harmless, Has
  <2> QED BY <2>1, <2>2, <2>3, <2>4 DEF Followed
<1>2. CASE NoHeader
  <2>1. /\ pc = "header" /\ pc' = "keepalive" /\ packet' = packet /\ packet = NoPacket
        /\ UNCHANGED <<link, air, requests, broker, commands, pending, op, client, delivered>>
    BY <1>2 DEF NoHeader, ReadUnchanged, network, Types
  <2>2. Requested' /\ InCall' /\ CommandsInOrder'
    <3>1. InCall'
      BY <2>1 DEF InCall, Followed, Has
    <3>2. Requested'
      BY <2>1 DEF Requested, Followed, Has
    <3> QED BY <2>1, <3>1, <3>2, InOrderKept
  <2>3. Sync => Sync'
    BY <2>1, QuietSync DEF Has
  <2>4. Garbage => Garbage'
    BY <2>1, QuietGarbage DEF NoPacket, Harmless, Has
  <2> QED BY <2>1, <2>2, <2>3, <2>4 DEF Followed
<1>3. CASE TimerRuns \/ Expiry
  <2>1. UNCHANGED <<link, air, requests, broker, commands, pending, op, pc, packet, client,
                    delivered>>
    BY <1>3 DEF TimerRuns, Expiry, Expire, network, call
  <2>2. Requested' /\ InCall' /\ CommandsInOrder'
    <3>1. InCall'
      BY <2>1 DEF InCall, Followed, Has
    <3>2. Requested'
      BY <2>1 DEF Requested, Followed, Has
    <3> QED BY <2>1, <3>1, <3>2, InOrderKept
  <2>3. Sync => Sync'
    BY <2>1, QuietSync DEF Has
  <2>4. Garbage => Garbage'
    BY <2>1, QuietGarbage DEF Garbage, Has
  <2> QED BY <2>1, <2>2, <2>3, <2>4 DEF Followed
<1> QED BY <1>1, <1>2, <1>3

\* A call that ends without an answer.
LEMMA IdleFollowed ==
    ASSUME Types, InStep, Followed, Idle, pc \notin {"length", "rest", "dispatch"},
           client' = client \/ client' = Closed(client), op = "subscribe" => client' = Closed(client),
           UNCHANGED <<link, air, requests, broker, commands, pending, delivered>>
    PROVE  Followed'
<1>1. op' = "none" /\ pc' = "idle" /\ packet' = NoPacket
  BY DEF Idle
<1>2. client' # client => ~client'.connected
  BY DEF Closed, Types
<1>3. Requested' /\ CommandsInOrder'
  BY InOrderKept DEF Requested, Followed, Has
<1>4. InCall'
  BY <1>1, <1>2 DEF InCall, Followed, Has
<1>5. client'.connected => Sync'
  <2>1. ASSUME client'.connected PROVE client' = client /\ Sync
    BY <1>2, <2>1 DEF Followed
  <2> QED BY <1>1, <2>1, QuietSync DEF Has
<1> QED BY <1>1, <1>3, <1>4, <1>5 DEF Followed

\* The subscription behind a connect.
LEMMA SubscribeFollowed ==
    ASSUME Types, InStep, Followed, op = "connect", pc \notin {"length", "rest", "dispatch"},
           NEW r, client.connected => r.connected,
           r = [client EXCEPT !.connected = r.connected, !.ping = r.ping],
           r.connected => broker.accepted /\ ~Has("CONNECT") /\ Sync,
           Subscribe(r), UNCHANGED <<link, air, broker, commands, pending, delivered>>
    PROVE  Followed'
<1>1. ~r.handler /\ delivered = <<>> /\ ~broker.granted /\ ~Has("SUBSCRIBE") /\ commands = <<>>
  BY DEF Followed, InCall, Types
<1>2. CASE r.connected /\ Start("subscribe") /\ Sent("SUBSCRIBE") /\ client' = r
  <2>1. op' = "subscribe" /\ pc' = "check" /\ packet' = NoPacket /\ requests' = Written("SUBSCRIBE")
    BY <1>2 DEF Start, Sent
  <2>2. \A x : Has(x)' => Has(x) \/ x = "SUBSCRIBE"
    BY <2>1, RequestAdded
  <2>3. Requested'
    BY <1>1, <2>1, RequestAdded DEF Requested, Followed
  <2>4. InCall'
    BY <1>1, <1>2, <2>1, <2>2 DEF InCall
  <2>5. client'.handler = client.handler
    BY <1>1, <1>2 DEF Types, Followed, InCall
  <2>6. Sync'
    BY <1>2, <2>1, <2>2, <2>5, QuietSync
  <2> QED BY <2>1, <2>3, <2>4, <2>6, InOrderKept DEF Followed
<1>3. CASE Idle /\ client' = Closed(r) /\ UNCHANGED <<requests, expired>>
  <2>1. op' = "none" /\ pc' = "idle" /\ packet' = NoPacket /\ ~client'.connected
    BY <1>3 DEF Idle, Closed
  <2>2. Requested' /\ CommandsInOrder'
    BY <1>3, InOrderKept DEF Requested, Followed, Has
  <2>3. InCall'
    BY <2>1 DEF InCall
  <2> QED BY <2>1, <2>2, <2>3 DEF Followed
<1> QED BY <1>2, <1>3 DEF Subscribe

LEMMA GiveUpFollowed ==
    ASSUME Types, InStep, Followed, LeaveLoop \/ TooLong
    PROVE  Followed'
<1>1. /\ GiveUp /\ pc \in {"check", "failed"}
      /\ UNCHANGED <<link, air, broker, commands, pending, delivered>>
  BY DEF LeaveLoop, TooLong
<1>2. CASE op = "connect"
  <2>1. ~client.connected
    BY <1>2 DEF Followed, InCall
  <2>2. Idle /\ client' = Closed(client) /\ UNCHANGED requests
    BY <1>1, <1>2, <2>1 DEF GiveUp, Subscribe
  <2> QED BY <1>1, <1>2, <2>2, IdleFollowed
<1>3. CASE op = "subscribe"
  <2>1. Idle /\ client' = Closed(client) /\ UNCHANGED requests
    BY <1>1, <1>3 DEF GiveUp
  <2> QED BY <1>1, <2>1, IdleFollowed
<1>4. CASE op \notin {"connect", "subscribe"}
  <2>1. Idle /\ UNCHANGED <<client, requests>>
    BY <1>1, <1>4 DEF GiveUp
  <2> QED BY <1>1, <1>4, <2>1, IdleFollowed
<1> QED BY <1>2, <1>3, <1>4

\* keepalive writes a ping at most.
LEMMA KeepaliveFollowed ==
    ASSUME Types, InStep, Followed, Keepalive
    PROVE  Followed'
<1>1. /\ pc = "keepalive" /\ pc' \in {"cycled", "failed"}
      /\ UNCHANGED <<link, air, broker, commands, pending, op, packet, delivered>>
  BY DEF Keepalive
<1>2. requests' = requests \/ requests' = Written("PINGREQ")
  BY DEF Keepalive
<1>3. (Has("CONNECT")' => Has("CONNECT")) /\ (Has("SUBSCRIBE")' => Has("SUBSCRIBE"))
  BY <1>2, RequestAdded DEF Has
<1>4. Requested' /\ CommandsInOrder'
  <2>1. /\ \A i \in 2..Len(requests') : requests'[i] # "CONNECT"
        /\ \A i, j \in 1..Len(requests') :
              requests'[i] = "SUBSCRIBE" /\ requests'[j] = "SUBSCRIBE" => i = j
    BY <1>2, RequestAdded DEF Followed, Requested
  <2> QED BY <1>1, <1>3, <2>1, InOrderKept DEF Followed, Requested
<1>5. /\ client'.connected => client.connected /\ client'.handler = client.handler
      /\ client'.handler => client.handler
      /\ pc' = "failed" => ~client'.connected
      /\ pc' = "cycled" => client'.connected = client.connected
  BY CloseTypes DEF Keepalive, Types
<1>6. InCall'
  BY <1>1, <1>3, <1>5 DEF Followed, InCall
<1>7. ASSUME Sync, client'.handler = client.handler PROVE Sync'
  BY <1>1, <1>3, <1>7, QuietSync
<1>8. ASSUME op = "connect" PROVE client'.handler = client.handler
  <2>1. ~client.handler /\ ~client'.handler
    BY <1>5, <1>8 DEF Followed, InCall
  <2>2. client'.handler \in BOOLEAN /\ client.handler \in BOOLEAN
    BY CloseTypes DEF Keepalive, Types
  <2> QED BY <2>1, <2>2
<1>9. ASSUME Garbage PROVE Garbage'
  BY <1>1, <1>3, <1>9, QuietGarbage DEF Garbage
<1> QED BY <1>1, <1>4, <1>5, <1>6, <1>7, <1>8, <1>9 DEF Followed

\* The packet a cycle has read is a CONNACK or a SUBACK only as the broker
\* sent it.
LEMMA AwaitedIs ==
    ASSUME Types, InStep, Followed, Sync, pc = "cycled", Awaited
    PROVE  /\ Type = CONNACK => /\ Accepts(Body) <=> broker.accepted
                                /\ ~Has("CONNECT")
           /\ Type = SUBACK => /\ Grants(Body) <=> broker.granted
                               /\ \A b, q, n, e, c : InSync(b, q, n, e, c) => c[0] = broker.early
<1>1. packet.header \in Nat /\ Type = packet.header \div 16
  BY HeaderIs
<1>2. Type \in {CONNACK, SUBACK}
  BY DEF Awaited
<1>3. packet # NoPacket
  BY <1>1, <1>2 DEF NoPacket, CONNACK, SUBACK
<1>4. SUFFICES ASSUME NEW b, NEW q, NEW n, NEW e, NEW c, InSync(b, q, n, e, c)
               PROVE  /\ Type = CONNACK => (Accepts(Body) <=> broker.accepted) /\ ~Has("CONNECT")
                      /\ Type = SUBACK => (Grants(Body) <=> broker.granted) /\ c[0] = broker.early
  BY DEF Sync
<1>5. PICK p \in Packets : /\ packet.header = p[1] /\ packet.body = SubSeq(p, 3, Len(p))
                           /\ Acks(p, c[0])
  BY <1>3, <1>4 DEF InSync, Acknowledged
<1>6. CASE Type = CONNACK
  <2>1. p[1] = CONNACK * 16 /\ Len(p) = 4 /\ p[4] \in {0, Refused} /\ p \in Seq(WireBytes)
    BY <1>1, <1>5, <1>6, PacketFacts, TypeIs DEF CONNACK, SUBACK, PUBLISH, PINGRESP
  <2>2. Len(Body) = 2 /\ Body[2] = p[4]
    BY <1>5, <2>1 DEF Body
  <2>3. Accepts(Body) <=> p[4] = 0
    BY <2>2 DEF Accepts, ReturnCode
  <2> QED BY <1>5, <1>6, <2>1, <2>3 DEF Acks, IsConnack, CONNACK, SUBACK
<1>7. CASE Type = SUBACK
  <2>1. p[1] = SUBACK * 16 /\ Len(p) = 5 /\ p[5] \in {0, NotGranted} /\ p \in Seq(WireBytes)
    BY <1>1, <1>5, <1>7, PacketFacts, TypeIs DEF CONNACK, SUBACK, PUBLISH, PINGRESP
  <2>2. Len(Body) = 3 /\ Body[3] = p[5]
    BY <1>5, <2>1 DEF Body
  <2>3. Grants(Body) <=> p[5] = 0
    BY <2>1, <2>2 DEF Grants, GrantedQoS, NotGranted
  <2> QED BY <1>5, <1>7, <2>1, <2>3 DEF Acks, IsSuback, CONNACK, SUBACK
<1> QED BY <1>2, <1>6, <1>7

LEMMA CycleReturnsFollowed ==
    ASSUME Types, InStep, Followed, CycleReturns
    PROVE  Followed'
<1>1. pc = "cycled" /\ UNCHANGED <<link, air, broker, commands, pending, delivered>>
  BY DEF CycleReturns
<1>2. CASE ~Awaited
  <2>1. /\ pc' = "check" /\ packet' = NoPacket /\ op' = op
        /\ UNCHANGED <<client, requests>>
    BY <1>2 DEF CycleReturns, Loop
  <2>2. Requested' /\ InCall' /\ CommandsInOrder'
    <3>1. InCall'
      BY <1>1, <2>1 DEF InCall, Followed, Has
    <3>2. Requested'
      BY <1>1, <2>1 DEF Requested, Followed, Has
    <3> QED BY <1>1, <2>1, <3>1, <3>2, InOrderKept
  <2>3. Sync => Sync'
    BY <1>1, <2>1, QuietSync DEF Has
  <2>4. Garbage => Garbage'
    BY <1>1, <2>1, QuietGarbage DEF NoPacket, Harmless, Has
  <2> QED BY <1>1, <2>1, <2>2, <2>3, <2>4 DEF Followed
<1>3. CASE Awaited /\ op = "connect"
  <2>1. Type = CONNACK
    BY <1>3 DEF Awaited
  <2>2. Sync
    <3>1. ~Garbage
      BY <2>1, HeaderIs, TypeIs DEF Garbage, CONNACK, PINGRESP
    <3> QED BY <1>1, <1>3, <3>1 DEF Followed
  <2>3. (Accepts(Body) <=> broker.accepted) /\ ~Has("CONNECT")
    BY <1>1, <1>3, <2>1, <2>2, AwaitedIs
  <2>4. PICK r : /\ r = [client EXCEPT !.connected = Accepts(Body), !.ping = @ /\ ~Accepts(Body)]
                 /\ Subscribe(r)
    BY <1>3 DEF CycleReturns, ConnectReturns
  <2>5. /\ r.connected <=> Accepts(Body)
        /\ r = [client EXCEPT !.connected = r.connected, !.ping = r.ping]
    BY <2>4 DEF Types
  <2>6. ~client.connected
    BY <1>3 DEF Followed, InCall
  <2> QED BY <1>1, <1>3, <2>2, <2>3, <2>4, <2>5, <2>6, SubscribeFollowed
<1>4. CASE Awaited /\ op = "subscribe"
  <2>1. /\ Type = SUBACK /\ Idle /\ client' = [client EXCEPT !.handler = Grants(Body)]
        /\ UNCHANGED requests
    BY <1>4 DEF CycleReturns, Awaited, SubscribeReturns
  <2>2. op' = "none" /\ pc' = "idle" /\ packet' = NoPacket
    BY <2>1 DEF Idle
  <2>3. client'.connected = client.connected /\ client'.handler = Grants(Body)
    BY <2>1 DEF Types
  <2>4. Requested' /\ CommandsInOrder'
    BY <1>1, <2>1, InOrderKept DEF Requested, Followed, Has
  <2>5. InCall'
    BY <1>1, <2>1, <2>2, <2>3 DEF InCall, Followed, Has
  <2>6. ASSUME client.connected PROVE Sync'
    <3>1. PICK b, q, n, e, c : InSync(b, q, n, e, c)
      BY <2>6 DEF Followed, Sync
    <3>2. Sync
      BY <2>6 DEF Followed
    <3>3. (Grants(Body) <=> broker.granted) /\ c[0] = broker.early
      BY <1>1, <1>4, <2>1, <3>1, <3>2, AwaitedIs
    <3>4. delivered = <<>>
      BY <1>4 DEF Followed, InCall
    <3>5. c[0] \in Nat
      BY <3>1 DEF InSync
    <3>6. SubSeq(commands, c[0] + 1, c[0]) = <<>>
      BY <3>5, SubSeqEmpty
    <3>7. Delivers(c)'
      BY <1>1, <2>3, <3>3, <3>4, <3>5, <3>6 DEF Delivers
    <3> QED BY <1>1, <2>1, <2>2, <3>1, <3>7, QuietStream DEF Has
  <2> QED BY <2>2, <2>3, <2>4, <2>5, <2>6 DEF Followed
<1> QED BY <1>2, <1>3, <1>4 DEF Awaited

LEMMA MainFollowed ==
    ASSUME Types, InStep, Followed, MenuEvent \/ Yield
    PROVE  Followed'
<1>1. CASE MenuEvent
  <2>1. /\ op = "none" /\ op' = op /\ pc' = pc /\ packet' = packet
        /\ UNCHANGED <<link, air, requests, broker, commands, pending, delivered>>
    BY <1>1 DEF MenuEvent, network, call
  <2>2. client' = client \/ ~client'.connected
    BY <1>1 DEF MenuEvent, Publish, WritePublication, Closed, Types
  <2>3. Requested' /\ CommandsInOrder'
    BY <2>1, InOrderKept DEF Requested, Followed, Has
  <2>4. InCall'
    BY <2>1, <2>2 DEF InCall, Followed, Has, Types
  <2>5. client'.connected => Sync'
    <3>1. ASSUME client'.connected PROVE client' = client /\ Sync
      BY <2>2, <3>1 DEF Followed
    <3> QED BY <2>1, <3>1, QuietSync DEF Has
  <2> QED BY <2>1, <2>3, <2>4, <2>5 DEF Followed
<1>2. CASE Yield
  <2>1. /\ op = "none" /\ pc = "idle" /\ op' = "yield" /\ pc' = "check" /\ packet' = NoPacket
        /\ UNCHANGED <<link, air, requests, broker, commands, pending, delivered, client>>
    BY <1>2 DEF Yield, Start, network, Types
  <2>2. Requested' /\ CommandsInOrder'
    BY <2>1, InOrderKept DEF Requested, Followed, Has
  <2>3. InCall'
    BY <2>1 DEF InCall, Followed, Has
  <2>4. Sync => Sync'
    BY <2>1, QuietSync DEF Has
  <2> QED BY <2>1, <2>2, <2>3, <2>4 DEF Followed
<1> QED BY <1>1, <1>2

\* A new connection.
LEMMA ConnectFollowed ==
    ASSUME Types, Connect
    PROVE  Followed'
<1>1. /\ pending' = <<>> /\ air' = <<>> /\ commands' = <<>> /\ delivered' = <<>>
      /\ broker' = NoAnswer /\ client' = NewClient /\ packet' = NoPacket
      /\ \/ op' = "none" /\ pc' = "idle"
         \/ op' = "connect" /\ pc' = "check"
      /\ requests' = <<>> \/ requests' = <<"CONNECT">>
  <2>1. Start("connect") \/ Idle
    BY DEF Connect, ConnectMQTT
  <2>2. requests' = <<>> \/ requests' = <<"CONNECT">>
    BY DEF Connect, ConnectMQTT
  <2>3. /\ \/ op' = "none" /\ pc' = "idle"
           \/ op' = "connect" /\ pc' = "check"
        /\ packet' = NoPacket
    BY <2>1 DEF Start, Idle
  <2> QED BY <2>2, <2>3 DEF Connect, NewManager, Dial
<1>2. ~Has("SUBSCRIBE")' /\ Requested'
  BY <1>1 DEF Has, Requested, NoAnswer
<1>3. InCall'
  BY <1>1, <1>2 DEF InCall, NoAnswer, NewClient
<1>4. CommandsInOrder'
  BY <1>1 DEF CommandsInOrder, NoAnswer, IsPrefix
<1>5. Sync'
  <2> DEFINE z == [i \in 0..0 |-> 0]
  <2>1. z \in [0..0 -> Nat] /\ z[0] = 0
    OBVIOUS
  <2>2. Parses(<<>>, <<>>, 0, z)
    BY <2>1, ParsesNothing
  <2>3. Done' = 0
    BY <1>1 DEF Done
  <2>4. Received(<<>>, <<>>, 0)'
    BY <1>1, <2>3 DEF Received, Rest
  <2>5. ReadSoFar(<<>>)' /\ Numbered(<<>>, z)' /\ Acknowledged(<<>>, z)' /\ Delivers(z)'
    BY <1>1, <2>1 DEF ReadSoFar, Numbered, Acknowledged, Delivers, NewClient
  <2> HIDE DEF z
  <2>6. InSync(<<>>, <<>>, 0, z, z)'
    BY <1>1, <2>1, <2>2, <2>4, <2>5 DEF InSync
  <2> QED BY <2>6 DEF Sync
<1> QED BY <1>2, <1>3, <1>4, <1>5 DEF Followed

-----------------------------------------------------------------------------
(* readPacket follows the stream. *)

LEMMA DoneTypes ==
    ASSUME Types
    PROVE  Done \in Nat
<1>1. packet.remaining \in Nat
  BY DEF Types
<1>2. CASE pc = "length"
  BY <1>2 DEF Done
<1>3. CASE pc = "rest"
  BY <1>3 DEF Done
<1>4. CASE pc = "dispatch"
  <2>1. Done = 2 + packet.remaining
    BY <1>4 DEF Done
  <2> QED BY <1>1, <2>1
<1>5. CASE pc \notin {"length", "rest", "dispatch"}
  BY <1>5 DEF Done
<1> QED BY <1>2, <1>3, <1>4, <1>5

\* The next k bytes of the ring become part of the packet.
LEMMA TakenFromRing ==
    ASSUME Types, NEW b, NEW q, NEW n, NEW e, NEW c, InSync(b, q, n, e, c),
           NEW k \in 0..Len(pending), pending' = SubSeq(pending, k + 1, Len(pending)),
           Done \in Nat, Done' = Done + k, UNCHANGED <<link, air>>
    PROVE  Received(b, q, n)'
<1>1. /\ b \in Seq(WireBytes) /\ pending \in Seq(WireBytes)
      /\ Len(b) \in Nat /\ Len(pending) \in Nat /\ Received(b, q, n)
  BY SMTT(60) DEF InSync, Types
<1>2. Len(pending') = Len(pending) - k /\ \A i \in 1..Len(pending') : pending'[i] = pending[k + i]
  BY <1>1
<1>3. Done' + Len(pending') = Done + Len(pending)
  <2>1. PICK l \in Nat, m \in Int : l = Len(pending) /\ m = Len(pending') /\ m = l - k
    BY <1>1, <1>2
  <2>2. PICK i \in Nat, d \in Nat : i = k /\ d = Done /\ Done' = d + i
    BY <1>1
  <2>3. (d + i) + (l - i) = d + l
    OBVIOUS
  <2> QED BY <2>1, <2>2, <2>3
<1>4. Rest(b)' = Rest(b)
  BY <1>3 DEF Rest
<1>5. ASSUME NEW i \in 1..Len(pending') PROVE pending'[i] = b[Done' + i]
  <2>1. k + i \in 1..Len(pending) /\ Done + (k + i) = Done' + i
    BY <1>1, <1>2
  <2> QED BY <1>1, <1>2, <2>1 DEF Received
<1> QED BY <1>1, <1>3, <1>4, <1>5 DEF Received

\* The step stays with the same packets.
LEMMA StillInSync ==
    ASSUME NEW b, NEW q, NEW n, NEW e, NEW c, InSync(b, q, n, e, c),
           UNCHANGED <<link, commands, broker, requests, op, delivered>>,
           client'.handler = client.handler, pc' \notin {"keepalive", "cycled"},
           Received(b, q, n)', ReadSoFar(q)'
    PROVE  Sync'
<1>1. Numbered(q, c)' /\ Delivers(c)'
  BY DEF Numbered, Delivers, InSync
<1>2. \A p, k : Acks(p, k) => Acks(p, k)'
  BY DEF Acks, Has
<1>3. Acknowledged(q, c)'
  BY <1>2 DEF Acknowledged, InSync
<1>4. InSync(b, q, n, e, c)'
  BY <1>1, <1>3 DEF InSync
<1> QED BY <1>4 DEF Sync

\* The next byte is the next one of the first packet.
LEMMA NextByte ==
    ASSUME Types, NEW b, NEW q, NEW n, NEW e, NEW c, InSync(b, q, n, e, c),
           Done \in {0, 1}, pending # <<>>
    PROVE  /\ n > 0 /\ n <= Len(q) /\ q[1] \in Packets /\ Head(pending) = q[1][Done + 1]
           /\ pending' = Tail(pending) => pending' = SubSeq(pending, 1 + 1, Len(pending))
<1>1. /\ b \in Seq(WireBytes) /\ pending \in Seq(WireBytes) /\ q \in Seq(Packets)
      /\ n \in 0..Len(q) /\ e \in [0..n -> Nat] /\ Parses(b, q, n, e)
      /\ Received(b, q, n)
  BY DEF InSync, Types
<1>2. Len(pending) > 0 /\ pending[1] = b[Done + 1] /\ Done + Len(pending) <= Len(b)
  <2>1. Len(pending) \in Nat /\ Len(pending) > 0
    BY <1>1
  <2> QED BY <1>1, <2>1 DEF Received
<1>3. b # <<>> /\ Head(pending) = b[Done + 1]
  BY <1>1, <1>2
<1>4. n > 0 /\ n <= Len(q) /\ \A k \in 1..Len(q[1]) : b[k] = q[1][k]
  <2>1. n = 0 <=> b = <<>>
    BY <1>1, ParsesEnds
  <2>2. n > 0
    BY <1>1, <1>3, <2>1
  <2>3. \A k \in 1..Len(q[1]) : b[k] = q[1][k]
    BY ONLY <1>1, <2>2, ParsesEnds
  <2>4. Len(q) \in Nat
    BY <1>1
  <2> QED BY <1>1, <2>2, <2>3, <2>4
<1>5. q[1] \in Packets
  BY <1>1, <1>4
<1>6. Done + 1 \in 1..Len(q[1])
  BY <1>5, PacketFacts
<1>7. Head(pending) = q[1][Done + 1]
  BY <1>3, <1>4, <1>6
<1>8. Tail(pending) = SubSeq(pending, 1 + 1, Len(pending))
  BY <1>1, <1>2
<1> QED BY <1>4, <1>5, <1>7, <1>8

\* A byte of garbage is as harmless as the rest.
LEMMA GarbageHead ==
    ASSUME Types, Garbage, pending # <<>>
    PROVE  Head(pending) \in Harmless /\ Tail(pending) \in Seq(Harmless)
BY HeadTailProperties DEF Garbage

LEMMA ReadHeaderFollowed ==
    ASSUME Types, InStep, Followed, ReadHeader
    PROVE  Followed'
<1>1. /\ pc = "header" /\ pc' = "length" /\ pending # <<>> /\ pending' = Tail(pending)
      /\ packet = NoPacket /\ packet' = [NoPacket EXCEPT !.header = Head(pending)]
      /\ UNCHANGED <<link, air, requests, broker, commands, op, client, delivered>>
  BY DEF ReadHeader, ReadUnchanged, network, Types
<1>2. Requested' /\ CommandsInOrder'
  BY <1>1, InOrderKept DEF Requested, Followed, Has
<1>3. InCall'
  BY <1>1 DEF InCall, Followed, Has
<1>4. ASSUME Sync PROVE Sync'
  <2>1. PICK b, q, n, e, c : InSync(b, q, n, e, c)
    BY <1>4 DEF Sync
  <2>2. Done = 0 /\ Done' = 1
    BY <1>1 DEF Done
  <2>3. /\ n > 0 /\ q[1] \in Packets /\ Head(pending) = q[1][1]
        /\ pending' = SubSeq(pending, 1 + 1, Len(pending))
    BY <1>1, <2>1, <2>2, NextByte
  <2>4. 1 \in 0..Len(pending)
    BY <1>1 DEF Types
  <2>5. Received(b, q, n)'
    BY <1>1, <2>1, <2>2, <2>3, <2>4, TakenFromRing, SMTT(60)
  <2>6. ReadSoFar(q)'
    BY <1>1, <2>3 DEF ReadSoFar, NoPacket
  <2> QED BY <1>1, <2>1, <2>5, <2>6, StillInSync
<1>5. ASSUME Garbage PROVE Garbage'
  BY <1>1, <1>5, GarbageHead DEF Garbage, Has, NoPacket
<1> QED BY <1>1, <1>2, <1>3, <1>4, <1>5 DEF Followed

\* The length's next byte.
LEMMA LengthRead ==
    ASSUME Types, ReadLength, NEW r, NEW l,
           r = packet.remaining + (Head(pending) % 128) * Multiplier(packet.lengths),
           l = packet.lengths + 1
    PROVE  \E p : /\ p.header = packet.header /\ p.remaining = r /\ p.body = packet.body
                  /\ \/ Head(pending) >= 128 /\ packet' = p /\ UNCHANGED <<pc, client>>
                     \/ ReadsRest(p)
<1> DEFINE p == [packet EXCEPT !.remaining = r, !.lengths = l]
<1>1. p = [packet EXCEPT !.remaining = @ + (Head(pending) % 128) * Multiplier(packet.lengths),
                         !.lengths = @ + 1]
  BY SMT DEF Types
<1>2. p.lengths = l /\ p.header = packet.header /\ p.remaining = r /\ p.body = packet.body
  BY SMT DEF Types
<1> HIDE DEF p
<1>3. CASE Head(pending) >= 128 /\ l < 4
  <2>1. packet' = p /\ UNCHANGED <<pc, client>>
    BY SMT, <1>1, <1>2, <1>3 DEF ReadLength
  <2> QED BY SMT, <1>2, <1>3, <2>1
<1>4. CASE ~(Head(pending) >= 128 /\ l < 4)
  <2>1. ReadsRest(p)
    BY SMT, <1>1, <1>2, <1>4 DEF ReadLength
  <2> QED BY SMT, <1>2, <2>1
<1> QED BY SMT, <1>3, <1>4

\* In step, a packet's length is one byte and says what the packet has.
LEMMA ReadLengthFollowed ==
    ASSUME Types, InStep, Followed, ReadLength
    PROVE  Followed'
<1>0. /\ pc = "length" /\ pending # <<>> /\ pending' = Tail(pending)
      /\ UNCHANGED <<link, air, requests, broker, commands, op, delivered>>
  BY DEF ReadLength, ReadUnchanged, network
<1>1. /\ pc' \in {"length", "dispatch", "rest", "failed"} /\ packet'.header = packet.header
      /\ \/ client' = client /\ pc' # "failed"
         \/ client' = CloseSession(client) /\ pc' = "failed"
  <2>1. PICK p : /\ p.header = packet.header
                 /\ \/ packet' = p /\ UNCHANGED <<pc, client>>
                    \/ ReadsRest(p)
    BY LengthRead
  <2> QED BY <1>0, <2>1 DEF ReadsRest
<1>2. Requested' /\ CommandsInOrder'
  BY <1>0, InOrderKept DEF Requested, Followed, Has
<1>3. InCall'
  BY <1>0, <1>1, CloseTypes DEF InCall, Followed, Has, Types
<1>4. ASSUME Sync, pc' # "failed" PROVE Sync'
  <2>1. PICK b, q, n, e, c : InSync(b, q, n, e, c)
    BY <1>4 DEF Sync
  <2>2. Done = 1
    BY <1>0 DEF Done
  <2>3. /\ n > 0 /\ q[1] \in Packets /\ Head(pending) = q[1][2]
        /\ pending' = SubSeq(pending, 1 + 1, Len(pending))
    BY <1>0, <2>1, <2>2, NextByte
  <2>4. 1 \in 0..Len(pending)
    BY <1>0 DEF Types
  <2>5. /\ packet.header = q[1][1] /\ packet.lengths = 0 /\ packet.remaining = 0
        /\ packet.body = <<>>
    BY <1>0, <2>1 DEF InSync, ReadSoFar, Types
  <2>6. PICK r \in Nat : r = Head(pending) /\ r = Len(q[1]) - 2 /\ r <= 4
    BY <2>3, PacketFacts
  <2>7. packet.remaining + (r % 128) * Multiplier(packet.lengths) = r /\ ~(r >= 128)
    <3>1. Multiplier(0) = 1
      BY SMT DEF Multiplier
    <3>2. r % 128 = r /\ ~(r >= 128)
      BY SMT, <2>6
    <3> QED BY SMT, <2>5, <2>6, <3>1, <3>2
  <2>8. PICK p : /\ p.header = packet.header /\ p.remaining = r /\ p.body = packet.body
                 /\ ReadsRest(p)
    BY SMT, <2>6, <2>7, LengthRead
  <2>9. packet' = p /\ (pc' = "rest" \/ (pc' = "dispatch" /\ r = 0))
    BY <1>4, <2>8 DEF ReadsRest
  <2>10. packet'.header = q[1][1] /\ packet'.remaining = r /\ packet'.body = <<>>
    BY <2>5, <2>8, <2>9
  <2>11. Done' = 2
    BY <2>9, <2>10 DEF Done
  <2>12. Received(b, q, n)'
    BY <1>0, <2>1, <2>2, <2>3, <2>4, <2>11, TakenFromRing
  <2>13. pc' = "dispatch" => SubSeq(q[1], 3, Len(q[1])) = <<>>
    BY <2>3, <2>6, <2>9, PacketFacts, SubSeqEmpty
  <2>14. ReadSoFar(q)'
    BY <2>3, <2>6, <2>9, <2>10, <2>13 DEF ReadSoFar
  <2>15. client' = client
    BY <1>1, <1>4
  <2> QED BY <1>0, <2>1, <2>9, <2>12, <2>14, <2>15, StillInSync
<1>5. ASSUME Garbage PROVE Garbage'
  BY <1>0, <1>1, <1>5, GarbageHead DEF Garbage, Has
<1>6. pc' = "failed" => ~client'.connected
  BY <1>1, CloseTypes
<1> QED BY <1>0, <1>1, <1>2, <1>3, <1>4, <1>5, <1>6 DEF Followed

\* Once a packet is begun, it is the first one that is known.
LEMMA BegunPacket ==
    ASSUME Types, NEW b, NEW q, NEW n, NEW e, NEW c, InSync(b, q, n, e, c),
           pc \in {"length", "rest", "dispatch"}
    PROVE  /\ n \in 1..Len(q) /\ q[1] \in Packets /\ Len(q) \in Nat
           /\ Len(q[1]) <= Len(b) /\ \A k \in 1..Len(q[1]) : b[k] = q[1][k]
<1>1. /\ b \in Seq(WireBytes) /\ q \in Seq(Packets) /\ Len(q) \in Nat
      /\ n \in 0..Len(q) /\ e \in [0..n -> Nat] /\ Parses(b, q, n, e)
      /\ Received(b, q, n) /\ Len(pending) \in Nat /\ packet.remaining \in Nat
  BY SMTT(60) DEF InSync, Types
<1>2. Done \in Nat /\ Done >= 1
  BY <1>1 DEF Done
<1>3. Len(b) >= 1
  <2>1. Done + Len(pending) <= Len(b)
    BY <1>1 DEF Received
  <2>2. PICK d \in Nat, l \in Nat, m \in Nat : d = Done /\ l = Len(pending) /\ m = Len(b)
    BY <1>1, <1>2
  <2> QED BY <1>2, <2>1, <2>2
<1>4. b # <<>>
  BY <1>3
<1>5. n = 0 <=> b = <<>>
  BY ONLY <1>1, ParsesEnds
<1>6. n > 0
  BY <1>1, <1>4, <1>5
<1>7. Len(q[1]) <= Len(b) /\ \A k \in 1..Len(q[1]) : b[k] = q[1][k]
  BY ONLY <1>1, <1>6, ParsesEnds
<1>8. n \in 1..Len(q)
  BY <1>1, <1>6
<1> QED BY <1>1, <1>7, <1>8

LEMMA ReadRestFollowed ==
    ASSUME Types, InStep, Followed, ReadRest
    PROVE  Followed'
<1>1. /\ pc = "rest" /\ Len(pending) >= packet.remaining /\ pc' = "dispatch"
      /\ packet' = [packet EXCEPT !.body = SubSeq(pending, 1, packet.remaining)]
      /\ pending' = SubSeq(pending, packet.remaining + 1, Len(pending))
      /\ UNCHANGED <<link, air, requests, broker, commands, op, client, delivered>>
  BY DEF ReadRest, ReadUnchanged, network
<1>2. Requested' /\ CommandsInOrder'
  BY <1>1, InOrderKept DEF Requested, Followed, Has
<1>3. InCall'
  BY <1>1 DEF InCall, Followed, Has
<1>4. /\ packet'.header = packet.header /\ packet'.remaining = packet.remaining
      /\ packet'.body = SubSeq(pending, 1, packet.remaining)
      /\ packet.remaining \in 0..Len(pending) /\ pending \in Seq(WireBytes)
  BY <1>1 DEF Types
<1>5. ASSUME Sync PROVE Sync'
  <2>1. PICK b, q, n, e, c : InSync(b, q, n, e, c)
    BY <1>5 DEF Sync
  <2>2. Done = 2 /\ Done' = 2 + packet.remaining
    BY <1>1, <1>4 DEF Done
  <2>3. Received(b, q, n)'
    BY <1>1, <1>4, <2>1, <2>2, TakenFromRing
  <2>4. /\ q[1] \in Packets /\ \A k \in 1..Len(q[1]) : b[k] = q[1][k]
    BY <1>1, <2>1, BegunPacket
  <2>5. /\ packet.header = q[1][1] /\ packet.remaining = q[1][2]
        /\ \A k \in 1..Len(pending) : pending[k] = b[2 + k]
    BY <1>1, <2>1, <2>2 DEF InSync, ReadSoFar, Received
  <2>6. PICK r \in Nat : r = packet.remaining /\ Len(q[1]) = r + 2 /\ q[1] \in Seq(WireBytes)
    BY <1>4, <2>4, <2>5, PacketFacts
  <2>7. SubSeq(pending, 1, r) = SubSeq(q[1], 3, r + 2)
    <3>1. ASSUME NEW k \in 1..r PROVE pending[k] = q[1][2 + k]
      <4>1. k \in 1..Len(pending) /\ 2 + k \in 1..Len(q[1])
        BY <1>4, <2>6
      <4> QED BY <2>4, <2>5, <4>1
    <3>2. /\ SubSeq(pending, 1, r) \in Seq(WireBytes) /\ Len(SubSeq(pending, 1, r)) = r
          /\ \A k \in 1..r : SubSeq(pending, 1, r)[k] = pending[k]
      BY <1>4, <2>6
    <3>3. /\ SubSeq(q[1], 3, r + 2) \in Seq(WireBytes) /\ Len(SubSeq(q[1], 3, r + 2)) = r
          /\ \A k \in 1..r : SubSeq(q[1], 3, r + 2)[k] = q[1][2 + k]
      BY <2>6
    <3> QED BY <3>1, <3>2, <3>3, SeqEqual
  <2>8. ReadSoFar(q)'
    BY <1>1, <1>4, <2>5, <2>6, <2>7 DEF ReadSoFar
  <2> QED BY <1>1, <2>1, <2>3, <2>8, StillInSync
<1>6. ASSUME Garbage PROVE Garbage'
  <2>1. pending' \in Seq(Harmless)
    BY <1>1, <1>4, <1>6 DEF Garbage
  <2> QED BY <1>1, <1>4, <1>6, <2>1 DEF Garbage, Has
<1> QED BY <1>1, <1>2, <1>3, <1>5, <1>6 DEF Followed

\* What a connect is sent before its answer: behind the first byte of a packet
\* no byte begins one.
LEMMA ConnectPackets ==
    ASSUME Types, InCall, op = "connect",
           NEW b, NEW q, NEW n, NEW e, NEW c, InSync(b, q, n, e, c), NEW i \in 1..Len(q)
    PROVE  /\ q[i] \in Packets /\ q[i][1] \in {CONNACK * 16, PINGRESP * 16}
           /\ \A k \in 2..Len(q[i]) : q[i][k] \in Harmless
           /\ q[i][1] = PINGRESP * 16 => q[i] \in Seq(Harmless)
<1>1. /\ q \in Seq(Packets) /\ Len(q) \in Nat /\ c \in [0..Len(q) -> Nat]
      /\ c[Len(q)] <= Len(commands) /\ Numbered(q, c) /\ Acknowledged(q, c)
  BY DEF InSync
<1>2. q[i] \in Packets
  BY <1>1
<1>3. ~IsCommand(q[i])
  <2>1. Len(commands) = 0
    BY DEF InCall
  <2>2. i \in 0..Len(q) /\ i - 1 \in 0..Len(q) /\ Len(q) \in 0..Len(q) /\ i <= Len(q)
    BY <1>1
  <2>3. c[i] \in Nat /\ c[i - 1] \in Nat /\ c[i] <= c[Len(q)] /\ c[Len(q)] \in Nat
    BY <1>1, <2>2 DEF Numbered
  <2>4. IsCommand(q[i]) => c[i] = c[i - 1] + 1
    BY <1>1 DEF Numbered
  <2> QED BY <1>1, <2>1, <2>3, <2>4
<1>4. ~IsSuback(q[i])
  BY <1>1 DEF Acknowledged, Acks
<1>5. q[i][1] \in {CONNACK * 16, PINGRESP * 16}
  BY <1>2, <1>3, <1>4, PacketFacts DEF IsCommand, IsSuback
<1>6. PICK p \in Packets : p = q[i] /\ p[1] \in {CONNACK * 16, PINGRESP * 16}
  BY <1>2, <1>5
<1>7. CASE \E rc \in {0, Refused} : p = Connack(rc)
  BY <1>6, <1>7 DEF Connack, CONNACK, PINGRESP, Harmless, Refused
<1>8. CASE p = Pingresp
  <2>1. Pingresp \in Seq(Harmless) /\ Len(Pingresp) = 2 /\ Pingresp[2] = 0
    BY DEF Pingresp, PINGRESP, Harmless, Refused
  <2> QED BY <1>5, <1>6, <1>8, <2>1 DEF Harmless
<1>9. CASE \E g \in {0, NotGranted} : p = Suback(g)
  BY <1>6, <1>9 DEF Suback, SUBACK, CONNACK, PINGRESP
<1>10. CASE \E m \in Payloads : p = Command(m)
  BY <1>6, <1>10 DEF Command, PUBLISH, CONNACK, PINGRESP
<1> QED BY <1>6, <1>7, <1>8, <1>9, <1>10 DEF Packets

\* What has not arrived of the last packet that has begun to.
LEMMA RestOfLast ==
    ASSUME Types, NEW b, NEW q, NEW n, NEW e, NEW c, InSync(b, q, n, e, c), Done \in Nat, n > 0
    PROVE  /\ Rest(b) \in Seq(WireBytes) /\ Len(Rest(b)) \in Nat /\ q[n] \in Packets
           /\ Len(Rest(b)) = Len(b) - (Done + Len(pending)) /\ Len(Rest(b)) < Len(q[n])
           /\ \A i \in 1..Len(Rest(b)) : Rest(b)[i] = q[n][Len(q[n]) - Len(Rest(b)) + i]
<1>1. /\ b \in Seq(WireBytes) /\ q \in Seq(Packets) /\ Len(q) \in Nat /\ Len(b) \in Nat
      /\ n \in 0..Len(q) /\ e \in [0..n -> Nat] /\ Parses(b, q, n, e)
      /\ Received(b, q, n)
  BY DEF InSync
<1>0. Len(pending) \in Nat
  BY DEF Types
<1>2. PICK d \in Nat : d = Done + Len(pending) /\ d <= Len(b)
  <2>1. Done + Len(pending) <= Len(b)
    BY <1>1 DEF Received
  <2>2. Done + Len(pending) \in Nat
    BY <1>0
  <2> QED BY <2>1, <2>2
<1>3. PICK r \in Seq(WireBytes) : /\ r = SubSeq(b, d + 1, Len(b)) /\ Len(r) = Len(b) - d
                                  /\ Len(r) \in Nat /\ \A i \in 1..Len(r) : r[i] = b[d + i]
  <2>1. /\ SubSeq(b, d + 1, Len(b)) \in Seq(WireBytes)
        /\ Len(SubSeq(b, d + 1, Len(b))) = Len(b) - d
        /\ \A i \in 1..(Len(b) - d) : SubSeq(b, d + 1, Len(b))[i] = b[d + i]
    BY <1>1, <1>2
  <2>2. Len(b) - d \in Nat
    BY <1>1, <1>2
  <2> QED BY <2>1, <2>2
<1>4. Rest(b) = r
  BY <1>2, <1>3 DEF Rest
<1>5. /\ Len(q[n]) <= Len(b)
      /\ \A k \in 1..Len(q[n]) : b[Len(b) - Len(q[n]) + k] = q[n][k]
  BY ONLY <1>1, n > 0, ParsesEnds
<1>6. q[n] \in Packets /\ Len(q[n]) \in Nat
  <2>1. q[n] \in Packets
    BY <1>1
  <2> QED BY <2>1, PacketFacts
<1>7. Len(r) < Len(q[n])
  BY <1>1, <1>4 DEF Received
<1>8. ASSUME NEW i \in 1..Len(r) PROVE r[i] = q[n][Len(q[n]) - Len(r) + i]
  <2>1. PICK m \in Nat, l \in Nat, v \in Nat : m = Len(q[n]) /\ l = Len(r) /\ v = Len(b)
    BY ONLY <1>1, <1>3, <1>6
  <2>2. PICK k \in Int : k = m - l + i
    <3>1. PICK j \in Int : j = i
      BY <1>3
    <3>2. m - l + j \in Int
      OBVIOUS
    <3> QED BY <3>1, <3>2
  <2>3. k \in 1..m /\ v - m + k = d + i
    <3>1. l < m /\ l = v - d /\ i \in 1..l
      BY <1>3, <1>7, <2>1
    <3> QED BY <2>2, <3>1
  <2>4. b[v - m + k] = q[n][k]
    BY <1>5, <2>1, <2>3
  <2> QED BY <1>3, <2>1, <2>2, <2>3, <2>4
<1>9. Len(r) \in Nat /\ Len(r) = Len(b) - (Done + Len(pending))
  BY <1>2, <1>3
<1> QED BY <1>3, <1>4, <1>6, <1>7, <1>8, <1>9

\* A read that is short of bytes in a connect is in the answer, and what comes
\* of it later holds no more answers.
LEMMA NoRestFollowed ==
    ASSUME Types, InStep, Followed, NoRest
    PROVE  Followed'
<1>1. /\ pc = "rest" /\ Len(pending) < packet.remaining /\ pending' = <<>>
      /\ client' = CloseSession(client) /\ pc' = "check" /\ packet' = NoPacket
      /\ UNCHANGED <<link, air, requests, broker, commands, op, delivered>>
  BY DEF NoRest, AfterShortRest, ReadUnchanged, network
<1>2. Requested' /\ CommandsInOrder'
  BY <1>1, InOrderKept DEF Requested, Followed, Has
<1>3. InCall' /\ ~client'.connected
  BY <1>1, CloseTypes DEF InCall, Followed, Has
<1>4. ASSUME op = "connect", Sync PROVE Garbage'
  <2>1. PICK b, q, n, e, c : InSync(b, q, n, e, c)
    BY <1>4 DEF Sync
  <2>2. InCall
    BY DEF Followed
  <2>3. /\ n \in 1..Len(q) /\ q[1] \in Packets /\ Len(q) \in Nat
    BY <1>1, <2>1, BegunPacket
  <2>4. packet.remaining > 0 /\ packet.remaining = q[1][2]
    <3>1. packet.remaining \in Nat /\ Len(pending) \in Nat
      BY DEF Types
    <3>2. packet.remaining = q[1][2]
      BY <1>1, <2>1 DEF InSync, ReadSoFar
    <3> QED BY <1>1, <3>1, <3>2
  <2>5. IsConnack(q[1])
    <3>1. 1 \in 1..Len(q)
      BY <2>3
    <3>2. q[1][1] \in {CONNACK * 16, PINGRESP * 16}
      BY <1>4, <2>1, <2>2, <3>1, ConnectPackets
    <3>3. q[1][1] # PINGRESP * 16
      <4>1. q[1][2] = Len(q[1]) - 2 /\ (q[1][1] = PINGRESP * 16 => Len(q[1]) = 2)
        BY <2>3, PacketFacts
      <4>2. q[1][1] = PINGRESP * 16 => q[1][2] = 0
        BY <4>1
      <4> QED BY <2>4, <4>2
    <3> QED BY <3>2, <3>3 DEF IsConnack
  <2>6. ~Has("CONNECT")
    BY <2>1, <2>3, <2>5 DEF InSync, Acknowledged, Acks
  <2>7. ASSUME NEW i \in 2..Len(q) PROVE q[i] \in Seq(Harmless)
    <3>1. i \in 1..Len(q) /\ 1 \in 1..Len(q) /\ i # 1
      BY <2>3
    <3>2. ~IsConnack(q[i])
      BY <2>1, <2>5, <3>1 DEF InSync, Acknowledged
    <3> QED BY <1>4, <2>1, <2>2, <3>1, <3>2, ConnectPackets DEF IsConnack
  <2>8. Done = 2
    BY <1>1 DEF Done
  <2>9. Rest(b) \in Seq(Harmless)
    <3>0. n > 0 /\ Done \in Nat
      BY <2>3, <2>8
    <3>1. PICK r \in Seq(WireBytes), p \in Packets :
             /\ r = Rest(b) /\ p = q[n]
             /\ Len(r) \in Nat /\ Len(r) < Len(p)
             /\ \A i \in 1..Len(r) : r[i] = p[Len(p) - Len(r) + i]
      BY <2>1, <3>0, RestOfLast, SMTT(60)
    <3>2. \A k \in 2..Len(p) : p[k] \in Harmless
      BY <1>4, <2>1, <2>2, <2>3, <3>1, ConnectPackets
    <3>3. Len(p) \in Nat
      BY PacketFacts
    <3>4. ASSUME NEW i \in 1..Len(r) PROVE r[i] \in Harmless
      <4>1. Len(p) - Len(r) + i \in 2..Len(p)
        BY <3>1, <3>3
      <4> QED BY <3>1, <3>2, <4>1
    <3> QED BY <3>1, <3>4
  <2>10. air \in Seq(Seq(Harmless))
    <3>1. CASE link = "down"
      BY <2>1, <3>1 DEF InSync, Received
    <3>2. CASE link = "up"
      <4>1. air = (IF Rest(b) = <<>> THEN <<>> ELSE <<Rest(b)>>) \o SubSeq(q, n + 1, Len(q))
        BY <2>1, <3>2 DEF InSync, Received
      <4>2. SubSeq(q, n + 1, Len(q)) \in Seq(Seq(Harmless))
        <5>1. q \in Seq(Packets)
          BY <2>1 DEF InSync
        <5>2. /\ Len(SubSeq(q, n + 1, Len(q))) = Len(q) - n
              /\ \A i \in 1..(Len(q) - n) : SubSeq(q, n + 1, Len(q))[i] = q[n + i]
          BY <2>3, <5>1
        <5>3. \A i \in 1..(Len(q) - n) : n + i \in 2..Len(q)
          BY <2>3
        <5>4. SubSeq(q, n + 1, Len(q)) \in Seq(Packets)
          BY <2>3, <5>1
        <5> QED BY <2>3, <2>7, <5>2, <5>3, <5>4
      <4>3. (IF Rest(b) = <<>> THEN <<>> ELSE <<Rest(b)>>) \in Seq(Seq(Harmless))
        BY <2>9
      <4> QED BY <4>1, <4>2, <4>3, ConcatProperties
    <3> QED BY <3>1, <3>2 DEF Types
  <2> QED BY <1>1, <2>6, <2>10 DEF Garbage, Has, NoPacket, Harmless
<1>5. ASSUME Garbage PROVE Garbage'
  BY <1>1, <1>5 DEF Garbage, Has, NoPacket, Harmless
<1> QED BY <1>1, <1>2, <1>3, <1>4, <1>5 DEF Followed

-----------------------------------------------------------------------------
(* A packet is acted on: it leaves the stream. *)

LEMMA Part ==
    ASSUME NEW S, NEW s \in Seq(S), NEW m \in Nat, m <= Len(s), NEW j \in Nat, j <= m
    PROVE  /\ SubSeq(s, j + 1, m) \in Seq(S) /\ Len(SubSeq(s, j + 1, m)) = m - j
           /\ \A i \in 1..(m - j) : SubSeq(s, j + 1, m)[i] = s[j + i]
OBVIOUS

LEMMA PrefixIs ==
    ASSUME NEW S, NEW x \in Seq(S), NEW y \in Seq(S), Len(x) <= Len(y),
           \A i \in 1..Len(x) : x[i] = y[i]
    PROVE  IsPrefix(x, y)
<1>1. PICK l \in Nat : l = Len(x)
  OBVIOUS
<1>2. PICK z \in Seq(S) : /\ z = SubSeq(y, 1, l) /\ Len(z) = l
                          /\ \A i \in 1..l : z[i] = y[i]
  <2>1. /\ SubSeq(y, 1, l) \in Seq(S) /\ Len(SubSeq(y, 1, l)) = l
        /\ \A i \in 1..l : SubSeq(y, 1, l)[i] = y[i]
    BY <1>1
  <2> QED BY <2>1
<1>3. z = x
  BY <1>1, <1>2, SeqEqual
<1>4. SubSeq(x, 1, l) = x
  BY <1>1
<1> QED BY <1>1, <1>2, <1>3, <1>4 DEF IsPrefix

LEMMA PartPrefix ==
    ASSUME NEW S, NEW s \in Seq(S), NEW m \in Nat, m <= Len(s), NEW k \in Nat, k <= m,
           NEW j \in Nat, j <= k
    PROVE  IsPrefix(SubSeq(s, j + 1, k), SubSeq(s, j + 1, m))
<1>1. PICK x \in Seq(S) : /\ x = SubSeq(s, j + 1, k) /\ Len(x) = k - j
                          /\ \A i \in 1..(k - j) : x[i] = s[j + i]
  <2>1. k <= Len(s)
    OBVIOUS
  <2>2. /\ SubSeq(s, j + 1, k) \in Seq(S) /\ Len(SubSeq(s, j + 1, k)) = k - j
        /\ \A i \in 1..(k - j) : SubSeq(s, j + 1, k)[i] = s[j + i]
    BY <2>1, Part
  <2> QED BY <2>2
<1>2. PICK y \in Seq(S) : /\ y = SubSeq(s, j + 1, m) /\ Len(y) = m - j
                          /\ \A i \in 1..(m - j) : y[i] = s[j + i]
  <2>1. j <= m
    OBVIOUS
  <2>2. /\ SubSeq(s, j + 1, m) \in Seq(S) /\ Len(SubSeq(s, j + 1, m)) = m - j
        /\ \A i \in 1..(m - j) : SubSeq(s, j + 1, m)[i] = s[j + i]
    BY <2>1, Part
  <2> QED BY <2>2
<1>3. \A i \in 1..(k - j) : x[i] = y[i]
  BY <1>1, <1>2
<1>4. Len(x) <= Len(y) /\ Len(x) = k - j
  BY <1>1, <1>2
<1>5. IsPrefix(x, y)
  BY <1>3, <1>4, PrefixIs
<1> QED BY <1>1, <1>2, <1>5

\* The rest of the stream behind the packet is the stream.
LEMMA PoppedReceived ==
    ASSUME Types, NEW b, NEW q, NEW n, NEW e, NEW c, InSync(b, q, n, e, c),
           pc = "dispatch", pc' \in {"keepalive", "check"}, UNCHANGED <<link, air, pending>>
    PROVE  Received(SubSeq(b, Len(q[1]) + 1, Len(b)), Tail(q), n - 1)'
<1>1. /\ b \in Seq(WireBytes) /\ q \in Seq(Packets) /\ Len(b) \in Nat /\ Received(b, q, n)
  BY DEF InSync
<1>2. n \in 1..Len(q) /\ q[1] \in Packets /\ Len(q) \in Nat /\ Len(q[1]) <= Len(b)
  BY BegunPacket
<1>3. PICK d \in Nat : d = Len(q[1]) /\ d <= Len(b)
  BY <1>2, PacketFacts
<1>4. Done = d /\ Done' = 0
  <2>1. q[1][2] = d - 2 /\ packet.remaining = q[1][2]
    BY <1>2, <1>3, PacketFacts DEF InSync, ReadSoFar
  <2>2. 2 + (d - 2) = d
    OBVIOUS
  <2> QED BY <2>1, <2>2 DEF Done
<1>5. PICK l \in Nat : l = Len(pending) /\ d + l <= Len(b)
  <2>1. Len(pending) \in Nat /\ Done + Len(pending) <= Len(b)
    BY <1>1 DEF Types, Received
  <2> QED BY <1>4, <2>1
<1>6. PICK r \in Seq(WireBytes) : /\ r = SubSeq(b, d + 1, Len(b)) /\ Len(r) = Len(b) - d
                                  /\ \A i \in 1..Len(r) : r[i] = b[d + i]
  <2>1. b \in Seq(WireBytes) /\ Len(b) \in Nat /\ Len(b) <= Len(b)
    BY <1>1
  <2>2. /\ SubSeq(b, d + 1, Len(b)) \in Seq(WireBytes)
        /\ Len(SubSeq(b, d + 1, Len(b))) = Len(b) - d
        /\ \A i \in 1..(Len(b) - d) : SubSeq(b, d + 1, Len(b))[i] = b[d + i]
    <3>1. PICK m \in Nat : m = Len(b) /\ m <= Len(b) /\ d <= m
      BY <1>3, <2>1
    <3>2. /\ SubSeq(b, d + 1, m) \in Seq(WireBytes) /\ Len(SubSeq(b, d + 1, m)) = m - d
          /\ \A i \in 1..(m - d) : SubSeq(b, d + 1, m)[i] = b[d + i]
      BY <2>1, <3>1, Part
    <3> QED BY <3>1, <3>2
  <2> QED BY <2>2
<1>7. SubSeq(r, l + 1, Len(r)) = SubSeq(b, d + l + 1, Len(b))
  <2>1. PICK m \in Nat : m = Len(b)
    BY <1>1
  <2>2. /\ SubSeq(b, d + l + 1, m) \in Seq(WireBytes)
        /\ Len(SubSeq(b, d + l + 1, m)) = m - (d + l)
        /\ \A i \in 1..(m - (d + l)) : SubSeq(b, d + l + 1, m)[i] = b[d + l + i]
    BY <1>1, <1>5, <2>1, Part
  <2>3. PICK k \in Nat : k = m - d /\ Len(r) = k /\ l <= k
    <3>1. m - d \in Nat /\ l <= m - d
      BY <1>3, <1>5, <2>1
    <3> QED BY <1>6, <2>1, <3>1
  <2>4. /\ SubSeq(r, l + 1, k) \in Seq(WireBytes)
        /\ Len(SubSeq(r, l + 1, k)) = k - l
        /\ \A i \in 1..(k - l) : SubSeq(r, l + 1, k)[i] = r[l + i]
    BY <2>3, Part
  <2>5. k - l = m - (d + l)
    BY <2>3
  <2>6. ASSUME NEW i \in 1..(k - l) PROVE r[l + i] = b[d + l + i]
    <3>1. l + i \in 1..k /\ d + (l + i) = d + l + i
      BY <2>3
    <3> QED BY <1>6, <2>3, <3>1
  <2>7. SubSeq(r, l + 1, k) = SubSeq(b, d + l + 1, m)
    BY ONLY <2>2, <2>4, <2>5, <2>6, SeqEqual, ZenonT(60)
  <2> QED BY <2>1, <2>3, <2>7
<1>8. Rest(r)' = Rest(b)
  BY <1>4, <1>5, <1>7 DEF Rest
<1>9. \A k \in 1..Len(pending') : pending'[k] = r[Done' + k]
  <2>1. ASSUME NEW k \in 1..l PROVE pending[k] = r[k]
    <3>1. k \in 1..Len(r)
      <4>1. PICK m \in Nat : m = Len(b)
        BY <1>1
      <4> QED BY <1>5, <1>6, <4>1
    <3>2. pending[k] = b[d + k]
      BY <1>1, <1>4, <1>5 DEF Received
    <3> QED BY <1>6, <3>1, <3>2
  <2> QED BY <1>4, <1>5, <2>1
<1>10. Done' + Len(pending') <= Len(r)
  <2>1. PICK m \in Nat : m = Len(b)
    BY <1>1
  <2> QED BY <1>4, <1>5, <1>6, <2>1
<1>11. /\ Tail(q) \in Seq(Packets) /\ Len(Tail(q)) = Len(q) - 1
       /\ \A i \in 1..(Len(q) - 1) : Tail(q)[i] = q[i + 1]
  BY <1>1, <1>2
<1>12. n - 1 > 0 => Tail(q)[n - 1] = q[n]
  BY <1>2, <1>11
<1>13. SubSeq(Tail(q), (n - 1) + 1, Len(Tail(q))) = SubSeq(q, n + 1, Len(q))
  <2>1. PICK m \in Nat : m = Len(q) /\ n \in 1..m
    BY <1>2
  <2>2. /\ SubSeq(q, n + 1, m) \in Seq(Packets) /\ Len(SubSeq(q, n + 1, m)) = m - n
        /\ \A i \in 1..(m - n) : SubSeq(q, n + 1, m)[i] = q[n + i]
    BY <1>1, <2>1
  <2>3. PICK v \in Nat, w \in Nat : v = n - 1 /\ w = m - 1 /\ v <= w /\ v + 1 = n /\ w - v = m - n
    <3>1. n \in Int /\ n >= 1 /\ n <= m
      BY <2>1
    <3>2. n - 1 \in Nat /\ m - 1 \in Nat /\ n - 1 <= m - 1
      BY <3>1
    <3>3. n - 1 + 1 = n /\ (m - 1) - (n - 1) = m - n
      BY <3>1
    <3> QED BY <3>2, <3>3
  <2>4. /\ SubSeq(Tail(q), v + 1, w) \in Seq(Packets)
        /\ Len(SubSeq(Tail(q), v + 1, w)) = w - v
        /\ \A i \in 1..(w - v) : SubSeq(Tail(q), v + 1, w)[i] = Tail(q)[v + i]
    <3>1. w <= Len(Tail(q))
      BY <1>11, <2>1, <2>3
    <3> QED BY <1>11, <2>3, <3>1, Part, SMTT(60)
  <2>5. ASSUME NEW i \in 1..(w - v) PROVE Tail(q)[v + i] = q[n + i]
    <3>1. v + i \in 1..(m - 1) /\ v + i + 1 = n + i
      BY <2>1, <2>3
    <3> QED BY <1>11, <2>1, <3>1
  <2>6. SubSeq(Tail(q), v + 1, w) = SubSeq(q, n + 1, m)
    <3>1. PICK x \in Seq(Packets), y \in Seq(Packets) :
              x = SubSeq(Tail(q), v + 1, w) /\ y = SubSeq(q, n + 1, m)
      BY <2>2, <2>4
    <3>2. Len(x) = Len(y) /\ Len(x) = w - v /\ \A i \in 1..(w - v) : x[i] = y[i]
      BY <2>2, <2>3, <2>4, <2>5, <3>1
    <3>3. x = y
      BY <3>2, SeqEqual
    <3> QED BY <3>1, <3>3
  <2> QED BY <1>11, <2>1, <2>3, <2>6
<1>14. n > 0 /\ n - 1 \in Nat
  BY <1>2
<1>15. Len(Rest(b)) < Len(q[n])
  BY <1>1, <1>14 DEF Received
<1>16. Received(r, Tail(q), n - 1)'
  BY <1>1, <1>8, <1>9, <1>10, <1>12, <1>13, <1>15 DEF Received
<1> QED BY <1>3, <1>6, <1>16

\* So are the commands and the answers in it.
LEMMA PoppedPackets ==
    ASSUME NEW q \in Seq(Packets), NEW c \in [0..Len(q) -> Nat], Len(q) > 0,
           Numbered(q, c), \A i \in 1..Len(q) : Acks(q[i], c[i]),
           \A i, j \in 1..Len(q) : IsConnack(q[i]) /\ IsConnack(q[j]) => i = j,
           NEW d, d = [i \in 0..(Len(q) - 1) |-> c[i + 1]]
    PROVE  /\ Tail(q) \in Seq(Packets) /\ Len(Tail(q)) = Len(q) - 1
           /\ d \in [0..Len(Tail(q)) -> Nat] /\ d[0] = c[1] /\ d[Len(Tail(q))] = c[Len(q)]
           /\ Numbered(Tail(q), d) /\ \A i \in 1..Len(Tail(q)) : Acks(Tail(q)[i], d[i])
           /\ \A i, j \in 1..Len(Tail(q)) :
                 IsConnack(Tail(q)[i]) /\ IsConnack(Tail(q)[j]) => i = j
<1>1. PICK m \in Nat : Len(q) = m + 1
  <2>1. Len(q) - 1 \in Nat /\ Len(q) = (Len(q) - 1) + 1
    OBVIOUS
  <2> QED BY <2>1
<1>2. /\ Tail(q) \in Seq(Packets) /\ Len(Tail(q)) = m
      /\ \A i \in 1..m : Tail(q)[i] = q[i + 1]
  BY <1>1
<1>3. /\ d = [i \in 0..m |-> c[i + 1]] /\ c \in [0..(m + 1) -> Nat]
      /\ d \in [0..m -> Nat] /\ d[0] = c[1] /\ d[m] = c[m + 1]
      /\ \A i \in 0..m : d[i] = c[i + 1]
  BY <1>1
<1>4. ASSUME NEW i \in 1..m
      PROVE  /\ i + 1 \in 1..(m + 1) /\ (i + 1) - 1 = i /\ Tail(q)[i] = q[i + 1]
             /\ d[i] = c[i + 1] /\ d[i - 1] = c[i]
  <2>1. i \in 0..m /\ i - 1 \in 0..m /\ (i - 1) + 1 = i /\ i + 1 \in 1..(m + 1)
    BY <1>1
  <2> QED BY <1>2, <1>3, <2>1
<1>5. ASSUME NEW i \in 1..m
      PROVE  IF IsCommand(Tail(q)[i])
             THEN d[i] = d[i - 1] + 1 /\ Tail(q)[i][6] = commands[d[i]]
             ELSE d[i] = d[i - 1]
  <2>1. i + 1 \in 1..Len(q)
    BY <1>1, <1>4
  <2>2. IF IsCommand(q[i + 1])
        THEN c[i + 1] = c[(i + 1) - 1] + 1 /\ q[i + 1][6] = commands[c[i + 1]]
        ELSE c[i + 1] = c[(i + 1) - 1]
    BY <2>1 DEF Numbered
  <2> QED BY <1>4, <2>2
<1>6. \A i, j \in 0..m : i <= j => d[i] <= d[j]
  <2>1. ASSUME NEW i \in 0..m, NEW j \in 0..m, i <= j PROVE d[i] <= d[j]
    <3>1. i + 1 \in 0..Len(q) /\ j + 1 \in 0..Len(q) /\ i + 1 <= j + 1
      BY <1>1, <2>1
    <3> QED BY <1>3, <3>1 DEF Numbered
  <2> QED BY <2>1
<1>7. Numbered(Tail(q), d)
  <2>1. link = "up" => d[m] = Len(commands)
    BY <1>1, <1>3 DEF Numbered
  <2> QED BY <1>2, <1>5, <1>6, <2>1 DEF Numbered
<1>8. ASSUME NEW i \in 1..m PROVE Acks(Tail(q)[i], d[i])
  BY <1>1, <1>4
<1>9. ASSUME NEW i \in 1..m, NEW j \in 1..m, IsConnack(Tail(q)[i]), IsConnack(Tail(q)[j])
      PROVE  i = j
  <2>1. i + 1 = j + 1
    BY <1>1, <1>4, <1>9
  <2> QED BY <2>1
<1> QED BY <1>1, <1>2, <1>3, <1>7, <1>8, <1>9, SMTT(60)

\* The packet in the buffer is a command for the handler, or none.
LEMMA DispatchDelivers ==
    ASSUME Types, NEW b, NEW q, NEW n, NEW e, NEW c, InSync(b, q, n, e, c), Dispatch
    PROVE  /\ Type \in Known
           /\ client.handler =>
                 /\ broker.granted /\ broker.early <= c[0] /\ c[0] <= c[1]
                 /\ c[1] <= Len(commands)
                 /\ delivered' = SubSeq(commands, broker.early + 1, c[1])
           /\ ~client.handler => delivered' = <<>>
<1>1. /\ pc = "dispatch"
      /\ delivered' = IF IsForHandler THEN Append(delivered, PayloadOf(Body)) ELSE delivered
  BY DEF Dispatch
<1>2. /\ n \in 1..Len(q) /\ q[1] \in Packets /\ Len(q) \in Nat
      /\ c \in [0..Len(q) -> Nat] /\ c[Len(q)] <= Len(commands) /\ Numbered(q, c) /\ Delivers(c)
      /\ packet.header = q[1][1] /\ Body = SubSeq(q[1], 3, Len(q[1]))
  BY <1>1, BegunPacket DEF InSync, ReadSoFar, Body
<1>3. Type \in Known
  <2>1. q[1][1] \in {CONNACK * 16, SUBACK * 16, PUBLISH * 16, PINGRESP * 16}
    BY <1>2, PacketFacts
  <2> QED BY <1>2, <2>1, HeaderIs, TypeIs DEF Known
<1>4. ~client.handler => delivered' = <<>>
  BY <1>1, <1>2 DEF IsForHandler, Delivers
<1>5. PICK c0 \in Nat, c1 \in Nat, early \in Nat, m \in Nat :
         /\ c0 = c[0] /\ c1 = c[1] /\ early = broker.early /\ m = Len(commands)
         /\ c0 <= c1 /\ c1 <= m
  <2>1. 0 \in 0..Len(q) /\ 1 \in 0..Len(q) /\ Len(q) \in 0..Len(q) /\ 1 <= Len(q) /\ 0 <= 1
    BY <1>2
  <2>2. c[0] \in Nat /\ c[1] \in Nat /\ c[Len(q)] \in Nat
    BY <1>2, <2>1
  <2>3. c[0] <= c[1] /\ c[1] <= c[Len(q)]
    BY <1>2, <2>1 DEF Numbered
  <2>4. broker.early \in Nat /\ Len(commands) \in Nat
    BY DEF Types
  <2>5. c[1] <= Len(commands)
    BY <1>2, <2>2, <2>3, <2>4
  <2> QED BY <2>2, <2>3, <2>4, <2>5
<1>6. 1 \in 1..Len(q) /\ 1 - 1 = 0
  BY <1>2
<1>7. ASSUME client.handler
      PROVE  broker.granted /\ early <= c0 /\ delivered' = SubSeq(commands, early + 1, c1)
  <2>1. broker.granted /\ early <= c0 /\ delivered = SubSeq(commands, early + 1, c0)
    BY <1>2, <1>5, <1>7 DEF Delivers
  <2>2. CASE IsCommand(q[1])
    <3>1. c1 = c0 + 1 /\ q[1][6] = commands[c1]
      BY <1>2, <1>5, <1>6, <2>2 DEF Numbered
    <3>2. PICK p \in Seq(WireBytes) : /\ p = q[1] /\ Len(p) = 6 /\ p[3] = 0 /\ p[4] = 1 /\ p[5] = Topic
                                      /\ p[1] = PUBLISH * 16
      BY <1>2, <2>2, PacketFacts DEF IsCommand
    <3>3. Len(SubSeq(p, 3, 6)) = 4 /\ \A i \in 1..4 : SubSeq(p, 3, 6)[i] = p[2 + i]
      BY <3>2
    <3>4. Len(Body) = 4 /\ Body[1] = 0 /\ Body[2] = 1 /\ Body[3] = Topic /\ Body[4] = q[1][6]
      BY <1>2, <3>2, <3>3
    <3>5. Type = PUBLISH
      BY <1>2, <3>2, HeaderIs, TypeIs
    <3>6. IsForHandler /\ PayloadOf(Body) = commands[c1]
      BY <1>7, <3>1, <3>4, <3>5 DEF IsForHandler, HasTopic, PayloadOf
    <3>7. delivered' = Append(SubSeq(commands, early + 1, c0), commands[c0 + 1])
      BY <1>1, <2>1, <3>1, <3>6
    <3>8. Append(SubSeq(commands, early + 1, c0), commands[c0 + 1]) = SubSeq(commands, early + 1, c0 + 1)
      <4>1. commands \in Seq(Payloads) /\ c0 + 1 \in Nat /\ c0 + 1 <= Len(commands)
        BY <1>5, <3>1 DEF Types
      <4>2. commands[c0 + 1] \in Payloads
        BY <4>1
      <4>3. PICK x \in Seq(Payloads) : /\ x = SubSeq(commands, early + 1, c0) /\ Len(x) = c0 - early
                                       /\ \A i \in 1..(c0 - early) : x[i] = commands[early + i]
        <5>1. c0 <= Len(commands)
          BY <1>5
        <5>2. /\ SubSeq(commands, early + 1, c0) \in Seq(Payloads)
              /\ Len(SubSeq(commands, early + 1, c0)) = c0 - early
              /\ \A i \in 1..(c0 - early) : SubSeq(commands, early + 1, c0)[i] = commands[early + i]
          BY <2>1, <4>1, <5>1, Part
        <5> QED BY <5>2
      <4>4. PICK y \in Seq(Payloads) : /\ y = SubSeq(commands, early + 1, c0 + 1)
                                       /\ Len(y) = (c0 + 1) - early
                                       /\ \A i \in 1..((c0 + 1) - early) : y[i] = commands[early + i]
        <5>1. early <= c0 + 1
          BY <2>1
        <5>2. PICK f \in Nat : f = c0 + 1 /\ f <= Len(commands) /\ early <= f
          BY <4>1, <5>1
        <5>3. /\ SubSeq(commands, early + 1, f) \in Seq(Payloads)
              /\ Len(SubSeq(commands, early + 1, f)) = f - early
              /\ \A i \in 1..(f - early) : SubSeq(commands, early + 1, f)[i] = commands[early + i]
          BY <4>1, <5>2, Part
        <5> QED BY <5>2, <5>3
      <4>5. PICK z \in Seq(Payloads) : z = Append(x, commands[c0 + 1])
        <5>1. \A v \in Payloads : Append(x, v) \in Seq(Payloads)
          OBVIOUS
        <5> QED BY <4>2, <5>1
      <4>6. Len(z) = Len(y) /\ \A i \in 1..Len(z) : z[i] = y[i]
        <5>1. PICK k \in Nat : k = c0 - early /\ (c0 + 1) - early = k + 1 /\ early + (k + 1) = c0 + 1
          BY <2>1
        <5>2. Len(z) = k + 1 /\ z[k + 1] = commands[c0 + 1] /\ \A i \in 1..k : z[i] = x[i]
          <6>1. commands[c0 + 1] \in Payloads /\ Len(x) = k
            BY <4>2, <4>3, <5>1
          <6>2. /\ Len(Append(x, commands[c0 + 1])) = Len(x) + 1
                /\ \A i \in 1..Len(x) : Append(x, commands[c0 + 1])[i] = x[i]
                /\ Append(x, commands[c0 + 1])[Len(x) + 1] = commands[c0 + 1]
            BY ONLY <6>1, AppendProperties, SMTT(60)
          <6> QED BY <4>5, <6>1, <6>2
        <5>3. y[k + 1] = commands[c0 + 1] /\ \A i \in 1..k : y[i] = x[i]
          BY <4>3, <4>4, <5>1
        <5> QED BY <4>4, <5>1, <5>2, <5>3, SMTT(60)
      <4>7. z = y
        BY <4>6, SeqEqual
      <4> QED BY <4>3, <4>4, <4>5, <4>7
    <3> QED BY <2>1, <3>1, <3>7, <3>8
  <2>3. CASE ~IsCommand(q[1])
    <3>1. c1 = c0
      BY <1>2, <1>5, <1>6, <2>3 DEF Numbered
    <3>2. Type # PUBLISH
      <4>1. q[1][1] \in {CONNACK * 16, SUBACK * 16, PINGRESP * 16}
        BY <1>2, <2>3, PacketFacts DEF IsCommand
      <4>2. Type \in {CONNACK, SUBACK, PINGRESP}
        BY <1>2, <4>1, HeaderIs, TypeIs
      <4> QED BY <4>2 DEF CONNACK, SUBACK, PINGRESP, PUBLISH
    <3> QED BY <1>1, <2>1, <3>1, <3>2 DEF IsForHandler
  <2> QED BY <2>2, <2>3
<1> QED BY <1>3, <1>4, <1>5, <1>7

LEMMA DispatchSync ==
    ASSUME Types, Dispatch, Sync
    PROVE  /\ Sync' /\ Type \in Known
           /\ client.handler => CommandsInOrder'
<1>1. /\ pc = "dispatch" /\ packet' = packet
      /\ UNCHANGED <<link, air, requests, broker, commands, pending, op>>
      /\ pc' = IF Type \in Known THEN "keepalive" ELSE "check"
  BY DEF Dispatch, network
<1>2. PICK b, q, n, e, c : InSync(b, q, n, e, c)
  BY DEF Sync
<1>3. /\ n \in 1..Len(q) /\ q[1] \in Packets /\ Len(q) \in Nat
      /\ b \in Seq(WireBytes) /\ q \in Seq(Packets) /\ e \in [0..n -> Nat]
      /\ c \in [0..Len(q) -> Nat] /\ c[Len(q)] <= Len(commands) /\ Parses(b, q, n, e)
      /\ Numbered(q, c) /\ Acknowledged(q, c)
      /\ packet.header = q[1][1] /\ packet.body = SubSeq(q[1], 3, Len(q[1]))
  BY <1>1, <1>2, BegunPacket DEF InSync, ReadSoFar
<1>4. Type \in Known /\ pc' = "keepalive"
  BY <1>1, <1>2, DispatchDelivers
<1>5. client'.handler = client.handler
  BY <1>4 DEF Dispatch, Types
<1>6. PICK r, t, d, f :
         /\ r = SubSeq(b, Len(q[1]) + 1, Len(b)) /\ t = Tail(q)
         /\ d = [i \in 0..(Len(q) - 1) |-> c[i + 1]]
         /\ f = [i \in 0..(n - 1) |-> e[i + 1] - Len(q[1])]
  OBVIOUS
<1>7. Parses(r, t, n - 1, f)
  BY <1>3, <1>6, ParsesRest
<1>8. Received(r, t, n - 1)'
  BY <1>1, <1>2, <1>4, <1>6, PoppedReceived
<1>9. /\ t \in Seq(Packets) /\ Len(t) = Len(q) - 1
      /\ d \in [0..Len(t) -> Nat] /\ d[0] = c[1] /\ d[Len(t)] = c[Len(q)]
      /\ Numbered(t, d) /\ \A i \in 1..Len(t) : Acks(t[i], d[i])
      /\ \A i, j \in 1..Len(t) : IsConnack(t[i]) /\ IsConnack(t[j]) => i = j
  <2>1. Len(q) > 0
    BY <1>3
  <2>2. /\ \A i \in 1..Len(q) : Acks(q[i], c[i])
        /\ \A i, j \in 1..Len(q) : IsConnack(q[i]) /\ IsConnack(q[j]) => i = j
    BY <1>3 DEF Acknowledged
  <2>3. q \in Seq(Packets) /\ c \in [0..Len(q) -> Nat] /\ Numbered(q, c)
    BY <1>3
  <2>4. t = Tail(q) /\ d = [i \in 0..(Len(q) - 1) |-> c[i + 1]]
    BY <1>6
  <2>5. /\ Tail(q) \in Seq(Packets) /\ Len(Tail(q)) = Len(q) - 1
        /\ d \in [0..Len(Tail(q)) -> Nat] /\ d[0] = c[1] /\ d[Len(Tail(q))] = c[Len(q)]
        /\ Numbered(Tail(q), d) /\ \A i \in 1..Len(Tail(q)) : Acks(Tail(q)[i], d[i])
        /\ \A i, j \in 1..Len(Tail(q)) :
              IsConnack(Tail(q)[i]) /\ IsConnack(Tail(q)[j]) => i = j
    BY ONLY <2>1, <2>2, <2>3, <2>4, PoppedPackets, Zenon
  <2> QED BY <2>4, <2>5
<1>10. Acks(q[1], d[0])
  <2>1. 1 \in 1..Len(q)
    BY <1>3
  <2> QED BY <1>3, <1>9, <2>1 DEF Acknowledged
<1>11. \A p, k : Acks(p, k) => Acks(p, k)'
  BY <1>1 DEF Acks, Has
<1>12. Acknowledged(t, d)'
  <2>1. \A i \in 1..Len(t) : Acks(t[i], d[i])'
    BY <1>9, <1>11
  <2>2. /\ packet'.header = q[1][1] /\ packet'.body = SubSeq(q[1], 3, Len(q[1]))
        /\ Acks(q[1], d[0])'
    BY <1>1, <1>3, <1>10, <1>11
  <2> QED BY <1>3, <1>9, <2>1, <2>2 DEF Acknowledged
<1>13. Numbered(t, d)' /\ ReadSoFar(t)'
  BY <1>1, <1>4, <1>9 DEF Numbered, ReadSoFar
<1>14. /\ client.handler =>
             /\ broker.granted /\ broker.early <= c[0] /\ c[0] <= c[1]
             /\ c[1] <= Len(commands)
             /\ delivered' = SubSeq(commands, broker.early + 1, c[1])
       /\ ~client.handler => delivered' = <<>>
  BY <1>2, DispatchDelivers
<1>15. broker.early \in Nat /\ c[0] \in Nat /\ c[1] \in Nat /\ Len(commands) \in Nat
  <2>1. 0 \in 0..Len(q) /\ 1 \in 0..Len(q)
    BY <1>3
  <2>2. broker.early \in Nat /\ Len(commands) \in Nat
    BY DEF Types
  <2> QED BY <1>3, <2>1, <2>2
<1>16. Delivers(d)'
  <2>1. client.handler => broker.early <= c[1]
    BY <1>14, <1>15
  <2> QED BY <1>1, <1>5, <1>9, <1>14, <2>1 DEF Delivers
<1>17. r \in Seq(WireBytes) /\ n - 1 \in 0..Len(t) /\ f \in [0..(n - 1) -> Nat]
  <2>1. Len(b) \in Nat /\ Len(q[1]) \in Nat
    BY <1>3, PacketFacts
  <2>2. n - 1 \in 0..Len(t)
    BY <1>3, <1>9
  <2>3. r \in Seq(WireBytes)
    BY <1>3, <1>6, <2>1, SMTT(60)
  <2>4. ASSUME NEW i \in 0..(n - 1) PROVE e[i + 1] - Len(q[1]) \in Nat
    <3>1. 1 \in 0..n /\ i + 1 \in 0..n /\ 1 <= i + 1 /\ 1 \in 1..n
      BY <1>3
    <3>2. e[1] <= e[i + 1] /\ e[1] = e[1 - 1] + Len(q[1]) /\ e[0] = 0
      BY <1>3, <3>1 DEF Parses
    <3>3. e[1] \in Nat /\ e[i + 1] \in Nat
      BY <1>3, <3>1
    <3> QED BY <2>1, <3>2, <3>3
  <2> QED BY <1>6, <2>2, <2>3, <2>4
<1>18. InSync(r, t, n - 1, f, d)'
  BY <1>1, <1>3, <1>7, <1>8, <1>9, <1>12, <1>13, <1>16, <1>17 DEF InSync
<1>19. ASSUME client.handler PROVE CommandsInOrder'
  <2>1. PICK early \in Nat, k \in Nat, m \in Nat :
           /\ early = broker.early /\ k = c[1] /\ m = Len(commands) /\ early <= k /\ k <= m
    BY <1>14, <1>15, <1>19
  <2>2. delivered' = SubSeq(commands, early + 1, k)
    BY <1>14, <1>19, <2>1
  <2>3. commands \in Seq(Payloads)
    BY DEF Types
  <2>4. IsPrefix(SubSeq(commands, early + 1, k), SubSeq(commands, early + 1, m))
    BY <2>1, <2>3, PartPrefix
  <2> QED BY <1>1, <2>1, <2>2, <2>4 DEF CommandsInOrder
<1> QED BY <1>4, <1>18, <1>19 DEF Sync

LEMMA DispatchFollowed ==
    ASSUME Types, InStep, Followed, Dispatch
    PROVE  Followed'
<1>1. /\ pc = "dispatch" /\ packet' = packet /\ pc' \in {"keepalive", "check"}
      /\ UNCHANGED <<link, air, requests, broker, commands, pending, op>>
      /\ delivered' # delivered => client.handler
  BY DEF Dispatch, network, IsForHandler
<1>2. client'.connected => client.connected
  BY CloseTypes DEF Dispatch, Types
<1>3. Requested'
  BY <1>1 DEF Requested, Followed, Has
<1>4. op \in {"connect", "subscribe"} => ~client.handler /\ delivered = <<>> /\ delivered' = <<>>
  BY <1>1 DEF Followed, InCall
<1>5. client.handler => client.connected /\ Sync
  <2>1. client.handler => op = "yield"
    BY <1>1, <1>4 DEF Types
  <2> QED BY <1>1, <2>1 DEF Followed, InCall
<1>6. CommandsInOrder'
  <2>1. CASE delivered' = delivered
    BY <1>1, <2>1, InOrderKept
  <2>2. CASE delivered' # delivered
    BY <1>1, <1>5, <2>2, DispatchSync
  <2> QED BY <2>1, <2>2
<1>7. Sync => Type \in Known
  BY DispatchSync
<1>8. client'.handler => client.handler
  BY CloseTypes DEF Dispatch, Types
<1>9. op = "yield" => client'.connected
  <2>1. op = "yield" => client.connected /\ Type \in Known
    BY <1>1, <1>7 DEF Followed, InCall
  <2> QED BY <2>1 DEF Dispatch, Types
<1>10. InCall'
  BY <1>1, <1>2, <1>4, <1>8, <1>9 DEF InCall, Followed, Has
<1>11. Sync => Sync'
  BY DispatchSync
<1>12. Garbage => Garbage'
  BY <1>1, QuietGarbage DEF Garbage, Has
<1> QED BY <1>1, <1>2, <1>3, <1>6, <1>10, <1>11, <1>12 DEF Followed

-----------------------------------------------------------------------------
(* A piece of the oldest packet arrives. *)

LEMMA ArrivedReceived ==
    ASSUME Types, NEW first \in Seq(WireBytes), NEW rest, NEW a \in 1..Len(first),
           pending' = pending \o SubSeq(first, 1, a),
           air' = (IF a = Len(first) THEN rest
                   ELSE <<SubSeq(first, a + 1, Len(first))>> \o rest),
           link = "up", link' = link, pc' = pc, packet' = packet,
           NEW b \in Seq(WireBytes), NEW q \in Seq(Packets), NEW n \in 1..Len(q),
           Done + Len(pending) + Len(first) = Len(b),
           \A k \in 1..Len(pending) : pending[k] = b[Done + k],
           \A k \in 1..Len(first) : first[k] = b[Done + Len(pending) + k],
           Len(first) <= Len(q[n]), rest = SubSeq(q, n + 1, Len(q))
    PROVE  Received(b, q, n)'
<1>1. PICK d \in Nat : d = Done
  BY DoneTypes
<1>2. PICK l \in Nat, f \in Nat : l = Len(pending) /\ f = Len(first) /\ pending \in Seq(WireBytes)
  BY DEF Types
<1>3. a \in Nat /\ 1 <= a /\ a <= f
  BY <1>2
<1>4. Done' = d
  BY <1>1 DEF Done
<1>5. PICK g \in Seq(WireBytes) : g = SubSeq(first, 1, a) /\ Len(g) = a /\ \A k \in 1..a : g[k] = first[k]
  <2>1. /\ SubSeq(first, 1, a) \in Seq(WireBytes) /\ Len(SubSeq(first, 1, a)) = a
        /\ \A k \in 1..a : SubSeq(first, 1, a)[k] = first[k]
    BY <1>2, <1>3, SMTT(60)
  <2> QED BY <2>1
<1>6. /\ Len(pending') = l + a
      /\ \A k \in 1..l : pending'[k] = pending[k]
      /\ \A k \in 1..a : pending'[l + k] = g[k]
  BY <1>2, <1>3, <1>5
<1>7. Len(b) = d + l + f
  BY <1>1, <1>2
<1>8. Done' + Len(pending') = d + l + a /\ d + l + a <= Len(b)
  <2>1. d + (l + a) = d + l + a /\ d + l + a <= d + l + f
    BY <1>3
  <2> QED BY <1>4, <1>6, <1>7, <2>1
<1>9. ASSUME NEW k \in 1..(l + a) PROVE pending'[k] = b[d + k]
  <2>1. CASE k <= l
    <3>1. k \in 1..l
      BY <2>1
    <3> QED BY <1>1, <1>2, <1>6, <3>1
  <2>2. CASE k > l
    <3>1. PICK j \in 1..a : k = l + j /\ j \in 1..f
      <4>1. k - l \in 1..a /\ k = l + (k - l) /\ k - l \in 1..f
        BY <1>3, <2>2
      <4> QED BY <4>1
    <3>2. pending'[k] = first[j]
      BY <1>5, <1>6, <3>1
    <3>3. first[j] = b[d + l + j]
      BY <1>1, <1>2, <3>1
    <3>4. d + l + j = d + k
      BY <1>3, <3>1
    <3> QED BY <3>2, <3>3, <3>4
  <2>3. k <= l \/ k > l
    BY <1>3
  <2> QED BY <2>1, <2>2, <2>3
<1>10. PICK r \in Seq(WireBytes) : /\ r = SubSeq(b, d + l + a + 1, d + l + f) /\ Len(r) = f - a
                                   /\ \A i \in 1..(f - a) : r[i] = b[d + l + a + i]
  <2>1. PICK j \in Nat, m \in Nat : j = d + l + a /\ m = d + l + f /\ j <= m /\ m - j = f - a
    <3>1. d + l + a \in Nat /\ d + l + f \in Nat /\ d + l + a <= d + l + f
      BY <1>3
    <3>2. (d + l + f) - (d + l + a) = f - a
      BY <1>3
    <3> QED BY <3>1, <3>2
  <2>2. b \in Seq(WireBytes) /\ m <= Len(b) /\ m \in Nat /\ j \in Nat /\ j <= m
    BY <1>7, <2>1
  <2>3. /\ SubSeq(b, j + 1, m) \in Seq(WireBytes) /\ Len(SubSeq(b, j + 1, m)) = m - j
        /\ \A i \in 1..(m - j) : SubSeq(b, j + 1, m)[i] = b[j + i]
    BY ONLY <2>2, Part
  <2> QED BY <2>1, <2>3, ZenonT(60)
<1>11. Rest(b)' = r
  <2>1. Done' + Len(pending') + 1 = d + l + a + 1
    BY <1>3, <1>8
  <2> QED BY <1>7, <1>10, <2>1 DEF Rest
<1>12. SubSeq(first, a + 1, f) = r
  <2>1. PICK u \in Seq(WireBytes) : /\ u = SubSeq(first, a + 1, f) /\ Len(u) = f - a
                                    /\ \A i \in 1..(f - a) : u[i] = first[a + i]
    <3>1. first \in Seq(WireBytes) /\ f <= Len(first) /\ f \in Nat /\ a \in Nat /\ a <= f
      BY <1>2, <1>3
    <3>2. /\ SubSeq(first, a + 1, f) \in Seq(WireBytes) /\ Len(SubSeq(first, a + 1, f)) = f - a
          /\ \A i \in 1..(f - a) : SubSeq(first, a + 1, f)[i] = first[a + i]
      BY ONLY <3>1, Part
    <3> QED BY <3>2
  <2>2. ASSUME NEW i \in 1..(f - a) PROVE u[i] = r[i]
    <3>1. a + i \in 1..f /\ d + l + (a + i) = d + l + a + i
      <4>1. i \in Nat /\ 1 <= i /\ i <= f - a
        BY <1>3, SMTT(60)
      <4>2. a + i \in Nat /\ 1 <= a + i /\ a + i <= f
        BY ONLY <1>3, <4>1
      <4>3. d + l + (a + i) = d + l + a + i
        BY ONLY <1>3, <4>1
      <4> QED BY <1>3, <4>2, <4>3
    <3>2. first[a + i] = b[d + l + (a + i)]
      BY <1>1, <1>2, <3>1
    <3> QED BY <1>10, <2>1, <3>1, <3>2
  <2>3. u = r
    BY <1>10, <2>1, <2>2, SeqEqual
  <2> QED BY <2>1, <2>3
<1>13. r = <<>> <=> a = f
  <2>1. Len(r) = 0 <=> a = f
    BY <1>3, <1>10, SMTT(60)
  <2>2. r = <<>> <=> Len(r) = 0
    OBVIOUS
  <2> QED BY <2>1, <2>2
<1>14. air' = (IF r = <<>> THEN <<>> ELSE <<r>>) \o SubSeq(q, n + 1, Len(q))
  <2>1. CASE a = f
    <3>1. SubSeq(q, n + 1, Len(q)) \in Seq(Packets)
      BY SMT
    <3>2. <<>> \o SubSeq(q, n + 1, Len(q)) = SubSeq(q, n + 1, Len(q))
      BY <3>1, ConcatEmptySeq
    <3> QED BY <1>2, <1>13, <2>1, <3>2
  <2>2. CASE a # f
    BY <1>2, <1>12, <1>13, <2>2
  <2> QED BY <2>1, <2>2
<1>15. Len(r) < Len(q[n])
  <2>1. Len(q[n]) \in Nat
    BY PacketFacts
  <2> QED BY <1>2, <1>3, <1>10, <2>1, SMTT(60)
<1> QED BY <1>4, <1>6, <1>8, <1>9, <1>11, <1>14, <1>15 DEF Received

LEMMA StaysInSync ==
    ASSUME NEW b0, NEW q, NEW n0, NEW e0, NEW c, InSync(b0, q, n0, e0, c),
           NEW b, NEW n, NEW e, b \in Seq(WireBytes), n \in 0..Len(q), e \in [0..n -> Nat],
           Parses(b, q, n, e), Received(b, q, n)',
           UNCHANGED <<link, requests, commands, broker, op, pc, packet, client, delivered>>
    PROVE  Sync'
<1>1. Numbered(q, c)' /\ Delivers(c)' /\ ReadSoFar(q)'
  BY DEF Numbered, Delivers, ReadSoFar, InSync
<1>2. \A p, k : Acks(p, k) => Acks(p, k)'
  BY DEF Acks, Has
<1>3. Acknowledged(q, c)'
  BY <1>2 DEF Acknowledged, InSync
<1>4. InSync(b, q, n, e, c)'
  BY <1>1, <1>3 DEF InSync
<1> QED BY <1>4 DEF Sync

\* What arrives belongs to the packet that has begun to, or begins the next one.
LEMMA ArriveSync ==
    ASSUME Types, Sync, NEW first \in Seq(WireBytes), first = Head(air),
           NEW a \in 1..Len(first),
           pending' = pending \o SubSeq(first, 1, a),
           air' = (IF a = Len(first) THEN Tail(air)
                   ELSE <<SubSeq(first, a + 1, Len(first))>> \o Tail(air)),
           link = "up", air # <<>>,
           UNCHANGED <<link, requests, commands, broker, op, pc, packet, client, delivered>>
    PROVE  Sync'
<1>1. PICK b, q, n, e, c : InSync(b, q, n, e, c)
  BY DEF Sync
<1>2. /\ b \in Seq(WireBytes) /\ q \in Seq(Packets) /\ Len(q) \in Nat /\ Len(b) \in Nat
      /\ n \in 0..Len(q) /\ e \in [0..n -> Nat] /\ Parses(b, q, n, e) /\ Received(b, q, n)
  <2>1. /\ b \in Seq(WireBytes) /\ q \in Seq(Packets)
        /\ n \in 0..Len(q) /\ e \in [0..n -> Nat] /\ Parses(b, q, n, e) /\ Received(b, q, n)
    BY <1>1 DEF InSync
  <2>2. Len(q) \in Nat
    BY <2>1
  <2>3. Len(b) \in Nat
    BY <2>1
  <2> QED BY <2>1, <2>2, <2>3
<1>3. PICK d \in Nat, l \in Nat : d = Done /\ l = Len(pending)
  BY DoneTypes DEF Types
<1>4. /\ d + l <= Len(b) /\ \A k \in 1..l : pending[k] = b[d + k]
      /\ air = (IF Rest(b) = <<>> THEN <<>> ELSE <<Rest(b)>>) \o SubSeq(q, n + 1, Len(q))
      /\ n > 0 => Len(Rest(b)) < Len(q[n])
  BY <1>2, <1>3 DEF Received
<1>5. PICK r \in Seq(WireBytes) : /\ r = Rest(b) /\ Len(r) = Len(b) - (d + l)
                                  /\ \A i \in 1..Len(r) : r[i] = b[d + l + i]
  <2>1. PICK m \in Nat, j \in Nat : m = Len(b) /\ j = d + l /\ j <= m
    <3>1. d + l \in Nat
      OBVIOUS
    <3> QED BY <1>2, <1>4, <3>1
  <2>2. b \in Seq(WireBytes) /\ m <= Len(b) /\ m \in Nat /\ j \in Nat /\ j <= m
    BY <1>2, <2>1
  <2>3. /\ SubSeq(b, j + 1, m) \in Seq(WireBytes) /\ Len(SubSeq(b, j + 1, m)) = m - j
        /\ \A i \in 1..(m - j) : SubSeq(b, j + 1, m)[i] = b[j + i]
    BY ONLY <2>2, Part
  <2>4. Rest(b) = SubSeq(b, j + 1, m)
    BY <1>3, <2>1 DEF Rest
  <2> QED BY <2>1, <2>3, <2>4
<1>6. PICK t \in Seq(Packets) : t = SubSeq(q, n + 1, Len(q)) /\ Len(t) = Len(q) - n
  <2>1. PICK m \in Nat, k \in Nat : m = Len(q) /\ k = n /\ k <= m
    BY <1>2
  <2>2. q \in Seq(Packets) /\ m <= Len(q) /\ m \in Nat /\ k \in Nat /\ k <= m
    BY <1>2, <2>1
  <2>3. SubSeq(q, k + 1, m) \in Seq(Packets) /\ Len(SubSeq(q, k + 1, m)) = m - k
    BY ONLY <2>2, Part
  <2> QED BY <2>1, <2>3
<1>7. CASE r # <<>>
  <2>1. n > 0
    <3>1. b # <<>>
      BY <1>2, <1>3, <1>5, <1>7
    <3>2. n = 0 <=> b = <<>>
      BY ONLY <1>2, ParsesEnds
    <3> QED BY <1>2, <3>1, <3>2
  <2>2. /\ air = <<r>> \o t /\ Head(air) = r /\ Tail(air) = t
    <3>1. air = <<r>> \o t
      BY <1>4, <1>5, <1>6, <1>7
    <3>2. t \in Seq(Seq(WireBytes))
      <4>1. Packets \subseteq Seq(WireBytes)
        BY PacketFacts
      <4> QED BY <4>1
    <3>3. Head(<<r>> \o t) = r /\ Tail(<<r>> \o t) = t
      BY ONLY <3>2, r \in Seq(WireBytes), FirstAndRest
    <3> QED BY <3>1, <3>3
  <2>3. Len(first) <= Len(q[n])
    <3>1. Len(q[n]) \in Nat
      <4>1. q[n] \in Packets
        BY <1>2, <2>1
      <4> QED BY <4>1, PacketFacts
    <3>2. Len(r) < Len(q[n]) /\ first = r
      BY <1>4, <1>5, <2>1, <2>2
    <3>3. Len(r) \in Nat
      OBVIOUS
    <3> QED BY <3>1, <3>2, <3>3
  <2>4. Done + Len(pending) + Len(first) = Len(b)
    <3>1. PICK m \in Nat : m = Len(b)
      BY <1>2
    <3> QED BY <1>3, <1>5, <2>2, <3>1
  <2>5. \A k \in 1..Len(first) : first[k] = b[Done + Len(pending) + k]
    BY <1>3, <1>5, <2>2
  <2>6. n \in 1..Len(q) /\ \A k \in 1..Len(pending) : pending[k] = b[Done + k]
    BY <1>2, <1>3, <1>4, <2>1
  <2>7. Received(b, q, n)'
    BY <1>2, <1>6, <2>2, <2>3, <2>4, <2>5, <2>6, ArrivedReceived
  <2> QED BY <1>1, <1>2, <2>7, StaysInSync
<1>8. CASE r = <<>>
  <2>1. air = t
    BY <1>4, <1>5, <1>6, <1>8
  <2>2. n + 1 \in 1..Len(q) /\ n \in 0..(Len(q) - 1) /\ first = q[n + 1]
    <3>1. PICK m \in Nat, k \in Nat : m = Len(q) /\ k = n /\ Len(t) = m - k /\ Len(t) > 0
      BY <1>2, <1>6, <2>1
    <3>2. t[1] = q[n + 1]
      BY <1>2, <1>6, <3>1
    <3> QED BY <2>1, <3>1, <3>2
  <2>3. Tail(air) = SubSeq(q, n + 1 + 1, Len(q))
    <3>1. PICK m \in Nat, k \in Nat : m = Len(q) /\ k = n /\ k + 1 <= m
      BY <1>2, <2>2
    <3>2. Tail(t) = SubSeq(q, k + 1 + 1, m)
      <4>1. /\ q \in Seq(Packets) /\ m <= Len(q) /\ m \in Nat /\ k \in Nat /\ k <= m
            /\ k + 1 \in Nat /\ k + 1 <= m
        BY <1>2, <3>1
      <4>2. PICK x \in Seq(Packets) : /\ x = SubSeq(q, (k + 1) + 1, m) /\ Len(x) = m - (k + 1)
                                      /\ \A i \in 1..(m - (k + 1)) : x[i] = q[(k + 1) + i]
        <5>1. /\ SubSeq(q, (k + 1) + 1, m) \in Seq(Packets)
              /\ Len(SubSeq(q, (k + 1) + 1, m)) = m - (k + 1)
              /\ \A i \in 1..(m - (k + 1)) : SubSeq(q, (k + 1) + 1, m)[i] = q[(k + 1) + i]
          BY ONLY <4>1, Part, SMTT(60)
        <5> QED BY <5>1
      <4>3. Len(t) = m - k /\ \A i \in 1..(m - k) : t[i] = q[k + i]
        <5>1. /\ Len(SubSeq(q, k + 1, m)) = m - k
              /\ \A i \in 1..(m - k) : SubSeq(q, k + 1, m)[i] = q[k + i]
          BY ONLY <4>1, Part, SMTT(60)
        <5> QED BY <1>6, <3>1, <5>1
      <4>4. PICK y \in Seq(Packets) : /\ y = Tail(t) /\ Len(y) = m - (k + 1)
                                      /\ \A i \in 1..(m - (k + 1)) : y[i] = t[i + 1]
        <5>1. t # <<>> /\ Len(t) - 1 = m - (k + 1)
          BY <3>1, <4>3
        <5>2. /\ Tail(t) \in Seq(Packets) /\ Len(Tail(t)) = Len(t) - 1
              /\ \A i \in 1..(Len(t) - 1) : Tail(t)[i] = t[i + 1]
          BY <5>1
        <5> QED BY <5>1, <5>2
      <4>5. ASSUME NEW i \in 1..(m - (k + 1)) PROVE x[i] = y[i]
        <5>1. i + 1 \in 1..(m - k) /\ k + (i + 1) = (k + 1) + i
          BY <3>1
        <5> QED BY <4>2, <4>3, <4>4, <5>1
      <4>6. x = y
        BY <4>2, <4>4, <4>5, SeqEqual
      <4> QED BY <4>2, <4>4, <4>6
    <3> QED BY <2>1, <3>1, <3>2
  <2>4. PICK bb, ee, nn : /\ bb = b \o q[n + 1] /\ nn = n + 1
                          /\ ee = [i \in 0..(n + 1) |-> IF i <= n THEN e[i]
                                                        ELSE Len(b) + Len(q[n + 1])]
    OBVIOUS
  <2>5. Parses(bb, q, nn, ee)
    BY <1>2, <2>2, <2>4, ParsesMore
  <2>6. PICK f \in Nat : f = Len(first) /\ f = Len(q[n + 1])
    BY <2>2
  <2>7. /\ bb \in Seq(WireBytes) /\ Len(bb) = Len(b) + f
        /\ \A k \in 1..Len(b) : bb[k] = b[k]
        /\ \A k \in 1..f : bb[Len(b) + k] = first[k]
    <3>1. bb = b \o first
      BY <2>2, <2>4
    <3>2. PICK m \in Nat : m = Len(b)
      BY <1>2
    <3>3. /\ bb \in Seq(WireBytes) /\ Len(bb) = m + f
          /\ \A k \in 1..(m + f) : bb[k] = IF k <= m THEN b[k] ELSE first[k - m]
      <4>1. PICK x \in Seq(WireBytes), y \in Seq(WireBytes) : x = b /\ y = first
        BY <1>2
      <4>2. /\ x \o y \in Seq(WireBytes) /\ Len(x \o y) = Len(x) + Len(y)
            /\ \A i \in 1..(Len(x) + Len(y)) : (x \o y)[i] =
                  IF i <= Len(x) THEN x[i] ELSE y[i - Len(x)]
        BY ConcatProperties
      <4> QED BY <2>6, <3>1, <3>2, <4>1, <4>2
    <3>4. \A k \in 1..m : bb[k] = b[k]
      BY <3>3, SMTT(60)
    <3>5. ASSUME NEW k \in 1..f PROVE bb[m + k] = first[k]
      <4>1. m + k \in 1..(m + f) /\ ~(m + k <= m) /\ (m + k) - m = k
        OBVIOUS
      <4> QED BY <3>3, <4>1
    <3> QED BY <3>2, <3>3, <3>4, <3>5
  <2>8. Len(b) = d + l
    <3>1. PICK m \in Nat : m = Len(b)
      BY <1>2
    <3>2. Len(r) = 0
      BY <1>8
    <3> QED BY <1>3, <1>5, <3>1, <3>2
  <2>9. nn \in 0..Len(q) /\ ee \in [0..nn -> Nat] /\ nn \in 1..Len(q)
    <3>1. PICK m \in Nat, k \in Nat : m = Len(q) /\ k = n /\ nn = k + 1 /\ k + 1 <= m
      BY <1>2, <2>2, <2>4
    <3>2. ASSUME NEW i \in 0..(n + 1)
          PROVE  (IF i <= n THEN e[i] ELSE Len(b) + Len(q[n + 1])) \in Nat
      <4>1. Len(b) + f \in Nat
        BY <1>2
      <4>2. i <= n => i \in 0..n
        BY <3>1
      <4> QED BY <1>2, <2>6, <4>1, <4>2
    <3> QED BY <2>4, <3>1, <3>2
  <2>10. Done + Len(pending) + Len(first) = Len(bb)
    BY <1>3, <2>6, <2>7, <2>8
  <2>11. \A k \in 1..Len(first) : first[k] = bb[Done + Len(pending) + k]
    BY <1>3, <2>6, <2>7, <2>8
  <2>12. \A k \in 1..Len(pending) : pending[k] = bb[Done + k]
    <3>1. ASSUME NEW k \in 1..l PROVE pending[k] = bb[d + k]
      <4>1. d + k \in 1..Len(b)
        BY <1>3, <2>8
      <4> QED BY <1>4, <2>7, <4>1
    <3> QED BY <1>3, <3>1
  <2>13. Received(bb, q, nn)'
    <3>1. Tail(air) = SubSeq(q, nn + 1, Len(q)) /\ Len(first) <= Len(q[nn])
      <4>1. nn = n + 1 /\ f <= f
        BY <2>4
      <4>2. Len(first) <= Len(q[nn])
        BY <2>6, <4>1
      <4> QED BY <2>3, <4>1, <4>2
    <3>2. bb \in Seq(WireBytes) /\ q \in Seq(Packets) /\ nn \in 1..Len(q)
      BY <1>2, <2>7, <2>9
    <3>3. link' = link /\ pc' = pc /\ packet' = packet
      OBVIOUS
    <3> QED BY <2>10, <2>11, <2>12, <3>1, <3>2, <3>3, ArrivedReceived
  <2> QED BY <1>1, <2>5, <2>7, <2>9, <2>13, StaysInSync
<1> QED BY <1>7, <1>8

LEMMA ArriveFollowed ==
    ASSUME Types, InStep, InStep', Followed, Poll
    PROVE  Followed'
<1>1. PICK a \in 1..Len(Head(air)) : Arrive(a)
  BY DEF Poll
<1>2. /\ link = "up" /\ air # <<>> /\ air \in Seq(Seq(WireBytes))
      /\ UNCHANGED <<link, requests, broker, commands, op, pc, packet, client, delivered>>
  BY DEF Poll, call, Types
<1>3. PICK first \in Seq(WireBytes) : first = Head(air) /\ a \in 1..Len(first)
  BY <1>2
<1>4. a <= Room
  <2>1. ~(a > Room)
    BY <1>1 DEF Arrive, InStep
  <2>2. Room \in Int
    <3>1. RingSize \in Int /\ Len(pending) \in Int
      BY SessionAssumption DEF Types
    <3> QED BY <3>1 DEF Room
  <2>3. a \in Int
    BY <1>3
  <2> QED BY <2>1, <2>2, <2>3
<1>5. /\ pending' = pending \o SubSeq(first, 1, a)
      /\ air' = (IF a = Len(first) THEN Tail(air)
                 ELSE <<SubSeq(first, a + 1, Len(first))>> \o Tail(air))
  BY <1>1, <1>3, <1>4 DEF Arrive
<1>6. Requested' /\ CommandsInOrder' /\ InCall'
  BY <1>2, InOrderKept DEF Requested, InCall, Followed, Has
<1>7. Sync => Sync'
  BY <1>2, <1>3, <1>5, ArriveSync
<1>8. ASSUME Garbage PROVE Garbage'
  <2>1. PICK g \in Seq(Harmless), p \in Seq(Harmless), t \in Seq(Seq(Harmless)) :
           g = first /\ p = pending /\ t = Tail(air)
    <3>1. pending \in Seq(Harmless) /\ air \in Seq(Seq(Harmless))
      BY <1>8 DEF Garbage
    <3>2. Head(air) \in Seq(Harmless) /\ Tail(air) \in Seq(Seq(Harmless))
      BY <1>2, <3>1, HeadTailProperties
    <3> QED BY <1>3, <3>1, <3>2
  <2>2. SubSeq(g, 1, a) \in Seq(Harmless) /\ SubSeq(g, a + 1, Len(g)) \in Seq(Harmless)
    BY <1>3, <2>1
  <2>3. pending' \in Seq(Harmless)
    BY <1>5, <2>1, <2>2, ConcatProperties
  <2>4. air' \in Seq(Seq(Harmless))
    <3>1. <<SubSeq(g, a + 1, Len(g))>> \in Seq(Seq(Harmless))
      BY <2>2
    <3>2. <<SubSeq(g, a + 1, Len(g))>> \o t \in Seq(Seq(Harmless))
      BY <3>1, ConcatProperties
    <3> QED BY <1>5, <2>1, <3>2
  <2> QED BY <1>2, <1>8, <2>3, <2>4 DEF Garbage, Has
<1> QED BY <1>2, <1>6, <1>7, <1>8 DEF Followed

LEMMA LinkDiesFollowed ==
    ASSUME Types, InStep, Followed, LinkDies
    PROVE  Followed'
<1>1. /\ link' = "down" /\ air' = <<>> /\ requests' = <<>>
      /\ UNCHANGED <<broker, commands, pending, op, pc, packet, client, delivered>>
  BY DEF LinkDies, call
<1>2. \A x : ~Has(x)'
  BY <1>1 DEF Has
<1>3. Requested' /\ CommandsInOrder' /\ InCall'
  BY <1>1, <1>2, InOrderKept DEF Requested, InCall, Followed
<1>4. ASSUME Sync PROVE Sync'
  <2>1. PICK b, q, n, e, c : InSync(b, q, n, e, c)
    BY <1>4 DEF Sync
  <2>2. Received(b, q, n)' /\ Numbered(q, c)' /\ Delivers(c)' /\ ReadSoFar(q)'
    <3>1. Done' = Done /\ Rest(b)' = Rest(b)
      BY <1>1 DEF Done, Rest
    <3> QED BY <1>1, <2>1, <3>1 DEF Received, Numbered, Delivers, ReadSoFar, InSync
  <2>3. \A p, k : Acks(p, k) => Acks(p, k)'
    BY <1>1, <1>2 DEF Acks
  <2>4. Acknowledged(q, c)'
    BY <1>1, <2>1, <2>3 DEF Acknowledged, InSync
  <2>5. InSync(b, q, n, e, c)'
    BY <1>1, <2>1, <2>2, <2>4 DEF InSync
  <2> QED BY <2>5 DEF Sync
<1>5. ASSUME Garbage PROVE Garbage'
  BY <1>1, <1>2, <1>5 DEF Garbage
<1> QED BY <1>1, <1>3, <1>4, <1>5 DEF Followed

-----------------------------------------------------------------------------
(* The broker sends a packet. *)

Longer(c, l, k) == [i \in 0..(l + 1) |-> IF i <= l THEN c[i] ELSE k]

\* It is the last one of the stream, and nothing of it has arrived.
LEMMA AppendedReceived ==
    ASSUME Types, NEW b, NEW q, NEW n, NEW e, NEW c, InSync(b, q, n, e, c),
           NEW p \in Packets, link = "up", air' = Append(air, p),
           UNCHANGED <<link, pending, pc, packet>>
    PROVE  Parses(b, Append(q, p), n, e) /\ Received(b, Append(q, p), n)'
<1>1. /\ b \in Seq(WireBytes) /\ q \in Seq(Packets) /\ n \in 0..Len(q)
      /\ Parses(b, q, n, e) /\ Received(b, q, n)
  BY DEF InSync
<1>2. PICK m \in Nat, k \in Nat : m = Len(q) /\ k = n /\ k <= m
  BY <1>1
<1>3. PICK s \in Seq(Packets) : /\ s = Append(q, p) /\ Len(s) = m + 1 /\ s[m + 1] = p
                                /\ \A i \in 1..m : s[i] = q[i]
  <2>1. /\ Append(q, p) \in Seq(Packets) /\ Len(Append(q, p)) = m + 1 /\ Append(q, p)[m + 1] = p
        /\ \A i \in 1..m : Append(q, p)[i] = q[i]
    BY <1>1, <1>2
  <2> QED BY <2>1
<1>4. \A i \in 1..k : s[i] = q[i]
  BY <1>2, <1>3
<1>5. Parses(b, s, n, e)
  BY <1>1, <1>2, <1>4, SMTT(60) DEF Parses
<1>6. PICK t \in Seq(Packets) : /\ t = SubSeq(q, k + 1, m) /\ Len(t) = m - k
                                /\ \A i \in 1..(m - k) : t[i] = q[k + i]
  <2>1. q \in Seq(Packets) /\ m <= Len(q) /\ m \in Nat /\ k \in Nat /\ k <= m
    BY <1>1, <1>2
  <2>2. /\ SubSeq(q, k + 1, m) \in Seq(Packets) /\ Len(SubSeq(q, k + 1, m)) = m - k
        /\ \A i \in 1..(m - k) : SubSeq(q, k + 1, m)[i] = q[k + i]
    BY ONLY <2>1, Part
  <2> QED BY <2>2
<1>7. PICK u \in Seq(Packets) : /\ u = SubSeq(s, k + 1, m + 1) /\ Len(u) = (m + 1) - k
                                /\ \A i \in 1..((m + 1) - k) : u[i] = s[k + i]
  <2>1. s \in Seq(Packets) /\ m + 1 <= Len(s) /\ m + 1 \in Nat /\ k \in Nat /\ k <= m + 1
    BY <1>2, <1>3
  <2>2. /\ SubSeq(s, k + 1, m + 1) \in Seq(Packets) /\ Len(SubSeq(s, k + 1, m + 1)) = (m + 1) - k
        /\ \A i \in 1..((m + 1) - k) : SubSeq(s, k + 1, m + 1)[i] = s[k + i]
    BY ONLY <2>1, Part
  <2> QED BY <2>2
<1>8. u = Append(t, p)
  <2>1. PICK v \in Seq(Packets) : v = Append(t, p)
    <3>1. \A x \in Packets : Append(t, x) \in Seq(Packets)
      OBVIOUS
    <3> QED BY <3>1
  <2>2. PICK d \in Nat : d = m - k /\ (m + 1) - k = d + 1 /\ k + (d + 1) = m + 1
    <3>1. m - k \in Nat
      BY <1>2
    <3>2. (m + 1) - k = (m - k) + 1 /\ k + ((m - k) + 1) = m + 1
      BY <1>2
    <3> QED BY <3>1, <3>2
  <2>3. Len(v) = d + 1 /\ v[d + 1] = p /\ \A i \in 1..d : v[i] = t[i]
    BY <1>6, <2>1, <2>2
  <2>4. u[d + 1] = p
    <3>1. d + 1 \in 1..((m + 1) - k)
      BY <2>2
    <3>2. u[d + 1] = s[k + (d + 1)]
      BY <1>7, <3>1
    <3> QED BY <1>3, <2>2, <3>2
  <2>5. ASSUME NEW i \in 1..d PROVE u[i] = t[i]
    <3>1. k + i \in 1..m /\ i \in 1..(d + 1)
      BY <1>2, <2>2
    <3> QED BY <1>3, <1>6, <1>7, <2>2, <3>1
  <2>6. Len(u) = Len(v) /\ \A i \in 1..(d + 1) : u[i] = v[i]
    <3>1. \A i \in 1..(d + 1) : i \in 1..d \/ i = d + 1
      OBVIOUS
    <3>2. Len(u) = d + 1
      BY <1>7, <2>2
    <3> QED BY <2>3, <2>4, <2>5, <3>1, <3>2
  <2>7. u = v
    BY <2>3, <2>6, SeqEqual
  <2> QED BY <2>1, <2>7
<1>9. Done' = Done /\ Rest(b)' = Rest(b)
  BY DEF Done, Rest
<1>10. Rest(b) \in Seq(WireBytes)
  <2>1. Done + Len(pending) + 1 \in Nat /\ Len(b) \in Nat /\ 1 <= Done + Len(pending) + 1
    <3>1. Done \in Nat
      BY DoneTypes
    <3>2. Len(pending) \in Nat
      BY DEF Types
    <3> QED BY <1>1, <3>1, <3>2
  <2>2. Done + Len(pending) <= Len(b)
    BY <1>1 DEF Received
  <2>3. \A i \in (Done + Len(pending) + 1)..Len(b) : i \in 1..Len(b)
    BY <2>1
  <2> QED BY <1>1, <2>1, <2>3 DEF Rest
<1>11. air' = (IF Rest(b) = <<>> THEN <<>> ELSE <<Rest(b)>>) \o u
  <2>1. air = (IF Rest(b) = <<>> THEN <<>> ELSE <<Rest(b)>>) \o t
    BY <1>1, <1>2, <1>6 DEF Received
  <2>2. CASE Rest(b) = <<>>
    <3>1. \A z \in Seq(Packets) : <<>> \o z = z
      BY ConcatEmptySeq
    <3> QED BY <1>8, <2>1, <2>2, <3>1
  <2>3. CASE Rest(b) # <<>>
    <3>1. \A x : Append(<<x>> \o t, p) = <<x>> \o Append(t, p)
      OBVIOUS
    <3> QED BY <1>8, <2>1, <2>3, <3>1
  <2> QED BY <2>2, <2>3
<1>12. n > 0 => s[n] = q[n]
  BY <1>2, <1>4
<1>13. Received(b, s, n)'
  BY <1>1, <1>2, <1>3, <1>7, <1>9, <1>11, <1>12 DEF Received
<1> QED BY <1>3, <1>5, <1>13

LEMMA RequestTaken ==
    ASSUME Types, requests # <<>>, requests' = Tail(requests)
    PROVE  /\ Has(Head(requests)) /\ \A x : Has(x)' => Has(x)
           /\ Requested => /\ \A i \in 2..Len(requests') : requests'[i] # "CONNECT"
                           /\ \A i, j \in 1..Len(requests') :
                                 requests'[i] = "SUBSCRIBE" /\ requests'[j] = "SUBSCRIBE" => i = j
                           /\ ~Has("CONNECT")'
                           /\ Head(requests) = "SUBSCRIBE" => ~Has("SUBSCRIBE")'
<1>1. PICK m \in Nat : Len(requests) = m + 1
  <2>1. requests \in Seq({"CONNECT", "SUBSCRIBE", "PINGREQ"})
    BY DEF Types
  <2>2. Len(requests) - 1 \in Nat /\ Len(requests) = (Len(requests) - 1) + 1
    BY <2>1
  <2> QED BY <2>2
<1>2. /\ Len(requests') = m /\ Head(requests) = requests[1]
      /\ \A i \in 1..m : requests'[i] = requests[i + 1]
  BY <1>1 DEF Types
<1>3. \A i \in 1..m : i + 1 \in 2..(m + 1) /\ i + 1 \in 1..(m + 1) /\ i + 1 # 1
  OBVIOUS
<1>4. 1 \in 1..(m + 1)
  OBVIOUS
<1>5. Has(Head(requests)) /\ \A x : Has(x)' => Has(x)
  BY <1>1, <1>2, <1>3, <1>4 DEF Has
<1>6. ASSUME Requested, NEW i \in 1..m PROVE requests'[i] # "CONNECT"
  BY <1>1, <1>2, <1>3, <1>6 DEF Requested
<1>7. Requested => ~Has("CONNECT")' /\ \A i \in 2..Len(requests') : requests'[i] # "CONNECT"
  BY <1>2, <1>6 DEF Has
<1>8. ASSUME Requested, NEW i \in 1..m, NEW j \in 1..m,
             requests'[i] = "SUBSCRIBE", requests'[j] = "SUBSCRIBE"
      PROVE  i = j
  <2>1. i + 1 = j + 1
    BY <1>1, <1>2, <1>3, <1>8 DEF Requested
  <2> QED BY <2>1
<1>9. ASSUME Requested, NEW i \in 1..m, Head(requests) = "SUBSCRIBE"
      PROVE  requests'[i] # "SUBSCRIBE"
  BY <1>1, <1>2, <1>3, <1>4, <1>9 DEF Requested
<1>10. Requested /\ Head(requests) = "SUBSCRIBE" => ~Has("SUBSCRIBE")'
  BY <1>2, <1>9 DEF Has
<1> QED BY <1>2, <1>5, <1>7, <1>8, <1>10, SMTT(60)

LEMMA AppendedSync ==
    ASSUME Types, NEW b, NEW q, NEW n, NEW e, NEW c, InSync(b, q, n, e, c),
           NEW p \in Packets, link = "up", pc = "header", air' = Append(air, p),
           UNCHANGED <<link, pending, pc, packet, op>>,
           NEW k \in Nat, k = Len(commands'), commands' \in Seq(Payloads),
           IF IsCommand(p) THEN k = c[Len(q)] + 1 /\ p[6] = commands'[k] ELSE k = c[Len(q)],
           \A i \in 1..Len(commands) : commands'[i] = commands[i],
           \A i \in 1..Len(q) : Acks(q[i], c[i])', Acks(p, k)',
           IsConnack(p) => \A i \in 1..Len(q) : ~IsConnack(q[i]),
           Delivers(c)'
    PROVE  Sync'
<1>1. /\ b \in Seq(WireBytes) /\ q \in Seq(Packets) /\ n \in 0..Len(q) /\ e \in [0..n -> Nat]
      /\ c \in [0..Len(q) -> Nat] /\ c[Len(q)] <= Len(commands)
      /\ Numbered(q, c) /\ Acknowledged(q, c)
  BY DEF InSync
<1>2. PICK m \in Nat, w \in Nat : m = Len(q) /\ w = Len(commands)
  BY <1>1 DEF Types
<1>3. PICK s \in Seq(Packets) : /\ s = Append(q, p) /\ Len(s) = m + 1 /\ s[m + 1] = p
                                /\ \A i \in 1..m : s[i] = q[i]
  <2>1. /\ Append(q, p) \in Seq(Packets) /\ Len(Append(q, p)) = m + 1 /\ Append(q, p)[m + 1] = p
        /\ \A i \in 1..m : Append(q, p)[i] = q[i]
    BY <1>1, <1>2
  <2> QED BY <2>1
<1>4. Parses(b, s, n, e) /\ Received(b, s, n)'
  BY <1>3, AppendedReceived
<1>5. PICK d : d = Longer(c, m, k)
  OBVIOUS
<1>6. /\ \A i \in 0..m : d[i] = c[i] /\ c[i] \in Nat
      /\ d[m + 1] = k /\ d \in [0..(m + 1) -> Nat]
  <2>1. d = [i \in 0..(m + 1) |-> IF i <= m THEN c[i] ELSE k]
    BY <1>5 DEF Longer
  <2>2. ASSUME NEW i \in 0..m PROVE d[i] = c[i] /\ c[i] \in Nat
    <3>1. i \in 0..(m + 1) /\ i <= m
      OBVIOUS
    <3> QED BY <1>1, <1>2, <2>1, <3>1
  <2>3. d[m + 1] = k
    <3>1. m + 1 \in 0..(m + 1) /\ ~(m + 1 <= m)
      OBVIOUS
    <3> QED BY <2>1, <3>1
  <2>4. \A i \in 0..(m + 1) : (IF i <= m THEN c[i] ELSE k) \in Nat
    <3>1. \A i \in 0..(m + 1) : i <= m => i \in 0..m
      OBVIOUS
    <3> QED BY <2>2, <3>1
  <2> QED BY <2>1, <2>2, <2>3, <2>4
<1>7. \A i \in 1..(m + 1) : i \in 1..m \/ i = m + 1
  OBVIOUS
<1>8. c[m] <= k /\ c[m] \in Nat /\ \A i \in 0..m : c[i] <= c[m] /\ c[i] \in Nat
  <2>1. m \in 0..m /\ \A i \in 0..m : i <= m
    OBVIOUS
  <2>2. c[m] \in Nat
    BY <1>6, <2>1
  <2>3. k = c[m] \/ k = c[m] + 1
    BY <1>2
  <2> QED BY <1>1, <1>2, <1>6, <2>1, <2>2, <2>3, SMTT(60) DEF Numbered
<1>9. ASSUME NEW i \in 1..(m + 1)
      PROVE  IF IsCommand(s[i])
             THEN d[i] = d[i - 1] + 1 /\ s[i][6] = commands'[d[i]]
             ELSE d[i] = d[i - 1]
  <2>1. CASE i \in 1..m
    <3>1. /\ i \in 0..m /\ i - 1 \in 0..m /\ s[i] = q[i]
      BY <1>3, <2>1, SMTT(60)
    <3>2. d[i] = c[i] /\ d[i - 1] = c[i - 1] /\ c[i] \in Nat /\ c[i - 1] \in Nat
          /\ c[i] <= c[m]
      BY <1>6, <1>8, <3>1
    <3>3. IF IsCommand(q[i]) THEN c[i] = c[i - 1] + 1 /\ q[i][6] = commands[c[i]]
          ELSE c[i] = c[i - 1]
      BY <1>1, <1>2, <2>1 DEF Numbered
    <3>4. IsCommand(q[i]) => c[i] \in 1..w
      BY <1>1, <1>2, <1>8, <3>2, <3>3, SMTT(60)
    <3> QED BY <1>2, <3>1, <3>2, <3>3, <3>4
  <2>2. CASE i = m + 1
    <3>1. i - 1 = m /\ m \in 0..m
      BY <2>2
    <3> QED BY <1>2, <1>3, <1>6, <2>2, <3>1
  <2> QED BY <1>7, <2>1, <2>2
<1>10. \A i, j \in 0..(m + 1) : i <= j => d[i] <= d[j]
  <2>1. ASSUME NEW i \in 0..(m + 1), NEW j \in 0..(m + 1), i <= j PROVE d[i] <= d[j]
    <3>1. CASE j \in 0..m
      <4>1. i \in 0..m
        BY <2>1, <3>1
      <4>2. c[i] <= c[j]
        BY <1>1, <1>2, <2>1, <3>1, <4>1 DEF Numbered
      <4> QED BY <1>6, <3>1, <4>1, <4>2
    <3>2. CASE j = m + 1 /\ i \in 0..m
      <4>1. c[i] <= c[m] /\ c[m] <= k /\ c[i] \in Nat /\ c[m] \in Nat
        BY <1>8, <3>2
      <4> QED BY <1>6, <3>2, <4>1
    <3>3. CASE i = m + 1
      <4>1. j = m + 1
        BY <2>1, <3>3
      <4> QED BY <1>6, <3>3, <4>1
    <3> QED BY <3>1, <3>2, <3>3
  <2> QED BY <2>1
<1>11. Numbered(s, d)'
  BY <1>3, <1>6, <1>9, <1>10 DEF Numbered
<1>12. Acknowledged(s, d)'
  <2>1. ASSUME NEW i \in 1..(m + 1) PROVE Acks(s[i], d[i])'
    <3>1. CASE i \in 1..m
      <4>1. s[i] = q[i] /\ d[i] = c[i] /\ Acks(q[i], c[i])'
        BY <1>2, <1>3, <1>6, <3>1
      <4> QED BY <4>1
    <3>2. CASE i = m + 1
      BY <1>3, <1>6, <3>2
    <3> QED BY <1>7, <3>1, <3>2
  <2>2. ASSUME NEW i \in 1..(m + 1), NEW j \in 1..(m + 1), IsConnack(s[i]), IsConnack(s[j])
        PROVE  i = j
    <3>1. i \in 1..m => IsConnack(q[i])
      BY <1>3, <2>2
    <3>2. j \in 1..m => IsConnack(q[j])
      BY <1>3, <2>2
    <3>3. i = m + 1 \/ j = m + 1 => IsConnack(p)
      BY <1>3, <2>2
    <3> QED BY <1>1, <1>2, <1>7, <3>1, <3>2, <3>3 DEF Acknowledged
  <2> QED BY <1>3, <2>1, <2>2 DEF Acknowledged
<1>13. ReadSoFar(s)' /\ Delivers(d)'
  <2>1. d[0] = c[0]
    BY <1>6, SMTT(60)
  <2> QED BY <2>1 DEF ReadSoFar, Delivers
<1>14. n \in 0..Len(s) /\ d \in [0..Len(s) -> Nat] /\ d[Len(s)] <= Len(commands')
  BY <1>1, <1>2, <1>3, <1>6
<1>15. InSync(b, s, n, e, d)'
  BY <1>1, <1>3, <1>4, <1>11, <1>12, <1>13, <1>14 DEF InSync
<1> QED BY <1>15 DEF Sync

\* The answer to the oldest request.
LEMMA AnswerFollowed ==
    ASSUME Types, InStep, Followed, Answer
    PROVE  Followed'
<1>1. /\ link = "up" /\ pc = "header" /\ requests # <<>> /\ requests' = Tail(requests)
      /\ UNCHANGED <<link, pending, op, pc, packet, client, delivered, commands>>
  BY DEF Answer, BrokerUnchanged, call
<1>2. Requested /\ InCall /\ CommandsInOrder
  BY DEF Followed
<1>3. /\ Has(Head(requests)) /\ \A x : Has(x)' => Has(x)
      /\ \A i \in 2..Len(requests') : requests'[i] # "CONNECT"
      /\ \A i, j \in 1..Len(requests') :
            requests'[i] = "SUBSCRIBE" /\ requests'[j] = "SUBSCRIBE" => i = j
      /\ ~Has("CONNECT")'
      /\ Head(requests) = "SUBSCRIBE" => ~Has("SUBSCRIBE")'
  BY <1>1, <1>2, RequestTaken
<1>4. PICK p \in Packets :
         /\ air' = Append(air, p)
         /\ \/ /\ Head(requests) = "CONNECT" /\ p[1] = CONNACK * 16
               /\ broker' = [broker EXCEPT !.accepted = (p[4] = 0)]
            \/ /\ Head(requests) = "SUBSCRIBE" /\ p[1] = SUBACK * 16
               /\ broker' = [broker EXCEPT !.granted = (p[5] = 0)]
            \/ /\ p = Pingresp /\ p[1] = PINGRESP * 16 /\ broker' = broker
               /\ Head(requests) # "CONNECT" /\ Head(requests) # "SUBSCRIBE"
  <2>1. CASE Head(requests) = "CONNECT"
    <3>1. PICK rc \in {0, Refused} :
             air' = Append(air, Connack(rc)) /\ broker' = [broker EXCEPT !.accepted = (rc = 0)]
      BY <2>1 DEF Answer
    <3>2. Connack(rc) \in Packets /\ Connack(rc)[1] = CONNACK * 16 /\ Connack(rc)[4] = rc
      BY DEF Packets, Connack
    <3> QED BY <2>1, <3>1, <3>2
  <2>2. CASE Head(requests) = "SUBSCRIBE"
    <3>1. PICK g \in {0, NotGranted} :
             air' = Append(air, Suback(g)) /\ broker' = [broker EXCEPT !.granted = (g = 0)]
      BY <2>2 DEF Answer
    <3>2. Suback(g) \in Packets /\ Suback(g)[1] = SUBACK * 16 /\ Suback(g)[5] = g
      BY DEF Packets, Suback
    <3> QED BY <2>2, <3>1, <3>2
  <2>3. CASE Head(requests) \notin {"CONNECT", "SUBSCRIBE"}
    <3>1. air' = Append(air, Pingresp) /\ broker' = broker
      BY <2>3 DEF Answer
    <3>2. Pingresp \in Packets /\ Pingresp[1] = PINGRESP * 16
      BY DEF Packets, Pingresp
    <3> QED BY <2>3, <3>1, <3>2
  <2> QED BY <2>1, <2>2, <2>3
<1>5. broker'.early = broker.early
  BY <1>4 DEF Types
<1>6. broker'.granted # broker.granted => Head(requests) = "SUBSCRIBE"
  BY <1>4 DEF Types
<1>7. broker'.accepted # broker.accepted => Head(requests) = "CONNECT"
  BY <1>4 DEF Types
<1>8. Requested'
  <2>1. Has("SUBSCRIBE")' => ~broker'.granted
    BY <1>2, <1>3, <1>6 DEF Requested
  <2>2. ~broker'.granted => broker'.early = Len(commands')
    BY <1>1, <1>2, <1>3, <1>5, <1>6 DEF Requested
  <2> QED BY <1>1, <1>2, <1>3, <1>5, <2>1, <2>2 DEF Requested
<1>9. InCall'
  <2>1. op = "connect" => ~broker'.granted
    BY <1>2, <1>3, <1>6 DEF InCall
  <2>2. client.connected => broker'.accepted
    BY <1>2, <1>3, <1>7 DEF InCall
  <2> QED BY <1>1, <1>2, <1>3, <2>1, <2>2 DEF InCall
<1>10. CommandsInOrder'
  BY <1>1, <1>5, InOrderKept
<1>11. ASSUME Sync PROVE Sync'
  <2>1. PICK b, q, n, e, c : InSync(b, q, n, e, c)
    BY <1>11 DEF Sync
  <2>2. /\ q \in Seq(Packets) /\ c \in [0..Len(q) -> Nat] /\ c[Len(q)] = Len(commands)
        /\ \A i \in 1..Len(q) : Acks(q[i], c[i])
    BY <1>1, <2>1 DEF InSync, Numbered, Acknowledged
  <2>3. PICK k \in Nat : k = Len(commands)
    BY DEF Types
  <2>4. ASSUME NEW i \in 1..Len(q) PROVE Acks(q[i], c[i])'
    <3>1. Acks(q[i], c[i])
      BY <2>2
    <3> QED BY <1>1, <1>3, <1>5, <1>6, <1>7, <3>1 DEF Acks
  <2>5. ~IsCommand(p) /\ (IsConnack(p) => Head(requests) = "CONNECT")
    BY <1>4 DEF IsCommand, IsConnack, CONNACK, SUBACK, PUBLISH, PINGRESP
  <2>6. Acks(p, k)'
    <3>1. CASE Head(requests) = "CONNECT"
      <4>1. ~IsSuback(p) /\ (broker'.accepted <=> p[4] = 0)
        <5>1. p[1] = CONNACK * 16 /\ broker' = [broker EXCEPT !.accepted = (p[4] = 0)]
          BY <1>4, <3>1
        <5>2. ~IsSuback(p)
          BY <5>1 DEF IsSuback, CONNACK, SUBACK
        <5>3. broker'.accepted = (p[4] = 0)
          BY <5>1 DEF Types
        <5> QED BY <5>2, <5>3
      <4> QED BY <1>3, <4>1 DEF Acks
    <3>2. CASE Head(requests) = "SUBSCRIBE"
      <4>1. ~IsConnack(p) /\ (broker'.granted <=> p[5] = 0)
        <5>1. p[1] = SUBACK * 16 /\ broker' = [broker EXCEPT !.granted = (p[5] = 0)]
          BY <1>4, <3>2
        <5>2. ~IsConnack(p)
          BY <5>1 DEF IsConnack, CONNACK, SUBACK
        <5>3. broker'.granted = (p[5] = 0)
          BY <5>1 DEF Types
        <5> QED BY <5>2, <5>3
      <4>2. op # "connect" /\ ~Has("SUBSCRIBE")'
        BY <1>2, <1>3, <3>2 DEF InCall
      <4>3. broker.early = Len(commands)
        BY <1>2, <1>3, <3>2 DEF Requested
      <4> QED BY <1>1, <1>5, <2>3, <4>1, <4>2, <4>3 DEF Acks
    <3>3. CASE Head(requests) \notin {"CONNECT", "SUBSCRIBE"}
      <4>1. ~IsConnack(p) /\ ~IsSuback(p)
        BY <1>4, <3>3 DEF IsConnack, IsSuback, CONNACK, SUBACK, PINGRESP
      <4> QED BY <4>1 DEF Acks
    <3> QED BY <3>1, <3>2, <3>3
  <2>7. IsConnack(p) => \A i \in 1..Len(q) : ~IsConnack(q[i])
    BY <1>3, <2>2, <2>5 DEF Acks
  <2>8. Delivers(c)'
    <3>1. client.handler => broker'.granted = broker.granted
      <4>1. Delivers(c)
        BY <2>1 DEF InSync
      <4> QED BY <1>2, <1>3, <1>6, <4>1 DEF Delivers, Requested
    <3> QED BY <1>1, <1>5, <2>1, <3>1 DEF Delivers, InSync
  <2>9. k = Len(commands') /\ k = c[Len(q)] /\ commands' \in Seq(Payloads)
    BY <1>1, <2>2, <2>3 DEF Types
  <2> QED BY <1>1, <1>4, <2>1, <2>4, <2>5, <2>6, <2>7, <2>8, <2>9, AppendedSync
<1>12. ASSUME Garbage, op = "connect" PROVE Garbage'
  <2>1. Head(requests) \notin {"CONNECT", "SUBSCRIBE"}
    BY <1>2, <1>3, <1>12 DEF Garbage, InCall
  <2>2. p = Pingresp /\ p \in Seq(Harmless)
    <3>1. p = Pingresp
      BY <1>4, <2>1
    <3>2. Pingresp \in Seq(Harmless)
      BY DEF Pingresp, PINGRESP, Harmless, Refused
    <3> QED BY <3>1, <3>2
  <2>3. air' \in Seq(Seq(Harmless))
    BY <1>4, <1>12, <2>2 DEF Garbage
  <2> QED BY <1>1, <1>3, <1>12, <2>3 DEF Garbage
<1> QED BY <1>1, <1>8, <1>9, <1>10, <1>11, <1>12 DEF Followed

LEMMA PrefixOfLonger ==
    ASSUME NEW S, NEW x \in Seq(S), NEW y \in Seq(S), NEW z \in Seq(S),
           IsPrefix(x, y), Len(y) <= Len(z), \A i \in 1..Len(y) : y[i] = z[i]
    PROVE  IsPrefix(x, z)
<1>1. PICK l \in Nat, m \in Nat : l = Len(x) /\ m = Len(y) /\ l <= m /\ SubSeq(x, 1, l) = SubSeq(y, 1, l)
  <2>1. Len(x) \in Nat /\ Len(y) \in Nat
    OBVIOUS
  <2>2. Len(x) <= Len(y) /\ SubSeq(x, 1, Len(x)) = SubSeq(y, 1, Len(x))
    BY DEF IsPrefix
  <2> QED BY <2>1, <2>2
<1>2. SubSeq(x, 1, l) = x
  BY <1>1
<1>3. \A i \in 1..l : SubSeq(y, 1, l)[i] = y[i]
  BY <1>1
<1>4. ASSUME NEW i \in 1..l PROVE x[i] = z[i]
  <2>1. i \in 1..m
    BY <1>1
  <2> QED BY <1>1, <1>2, <1>3, <2>1
<1>5. Len(x) <= Len(z)
  BY <1>1
<1> QED BY <1>1, <1>4, <1>5, PrefixIs

\* A command, which the handler is to see unless it is before its time.
LEMMA SendCommandFollowed ==
    ASSUME Types, InStep, Followed, NEW m \in Payloads, SendCommand(m)
    PROVE  Followed'
<1>1. /\ link = "up" /\ pc = "header" /\ air' = Append(air, Command(m))
      /\ commands' = Append(commands, m)
      /\ broker.granted \/ Has("SUBSCRIBE")
      /\ UNCHANGED <<link, pending, op, pc, packet, client, delivered, requests>>
  <2>1. requests # <<>> => Head(requests) = requests[1] /\ 1 \in 1..Len(requests)
    BY DEF Types
  <2> QED BY <2>1 DEF SendCommand, BrokerUnchanged, call, Has
<1>2. Requested /\ InCall /\ CommandsInOrder
  BY DEF Followed
<1>3. PICK l \in Nat : /\ l = Len(commands) /\ Len(commands') = l + 1 /\ commands'[l + 1] = m
                       /\ \A i \in 1..l : commands'[i] = commands[i]
  <2>1. commands \in Seq(Payloads)
    BY DEF Types
  <2>2. /\ Len(Append(commands, m)) = Len(commands) + 1 /\ Append(commands, m)[Len(commands) + 1] = m
        /\ \A i \in 1..Len(commands) : Append(commands, m)[i] = commands[i]
    BY <2>1
  <2>3. Len(commands) \in Nat
    BY <2>1
  <2> QED BY <1>1, <2>2, <2>3
<1>4. commands \in Seq(Payloads) /\ commands' \in Seq(Payloads)
  BY <1>1 DEF Types
<1>5. PICK early \in Nat : early = broker.early /\ early <= l
  <2>1. broker.early \in Nat
    BY DEF Types
  <2> QED BY <1>2, <1>3, <2>1 DEF Requested
<1>6. /\ broker'.granted = broker.granted /\ broker'.accepted = broker.accepted
      /\ broker'.early = IF broker.granted THEN early ELSE early + 1
  BY <1>5 DEF SendCommand, Types
<1>7. ~broker.granted => Has("SUBSCRIBE") /\ early = l
  BY <1>1, <1>2, <1>3, <1>5 DEF Requested
<1>8. op # "connect"
  BY <1>1, <1>2 DEF InCall
<1>9. \A x : Has(x)' <=> Has(x)
  BY <1>1 DEF Has
<1>10. Requested'
  <2>1. broker'.early <= Len(commands')
    BY <1>3, <1>5, <1>6
  <2>2. ~broker'.granted => broker'.early = Len(commands')
    BY <1>3, <1>6, <1>7
  <2> QED BY <1>1, <1>2, <1>6, <1>9, <2>1, <2>2 DEF Requested
<1>11. InCall'
  BY <1>1, <1>2, <1>6, <1>8, <1>9 DEF InCall
<1>12. CommandsInOrder'
  <2>1. PICK x \in Seq(WireBytes) : x = delivered
    BY DEF Types
  <2>2. IsPrefix(x, SubSeq(commands, early + 1, l))
    BY <1>2, <1>3, <1>5, <2>1 DEF CommandsInOrder
  <2>3. PICK y \in Seq(Payloads) : /\ y = SubSeq(commands, early + 1, l) /\ Len(y) = l - early
                                   /\ \A i \in 1..(l - early) : y[i] = commands[early + i]
    <3>1. commands \in Seq(Payloads) /\ l <= Len(commands) /\ l \in Nat /\ early \in Nat /\ early <= l
      BY <1>3, <1>4, <1>5
    <3>2. /\ SubSeq(commands, early + 1, l) \in Seq(Payloads)
          /\ Len(SubSeq(commands, early + 1, l)) = l - early
          /\ \A i \in 1..(l - early) : SubSeq(commands, early + 1, l)[i] = commands[early + i]
      BY ONLY <3>1, Part
    <3> QED BY <3>2
  <2>4. CASE broker.granted
    <3>1. PICK z \in Seq(Payloads) :
             /\ z = SubSeq(commands', early + 1, l + 1) /\ Len(z) = (l + 1) - early
             /\ \A i \in 1..((l + 1) - early) : z[i] = commands'[early + i]
      <4>1. /\ commands' \in Seq(Payloads) /\ l + 1 <= Len(commands') /\ l + 1 \in Nat
            /\ early \in Nat /\ early <= l + 1
        BY <1>3, <1>4, <1>5
      <4>2. /\ SubSeq(commands', early + 1, l + 1) \in Seq(Payloads)
            /\ Len(SubSeq(commands', early + 1, l + 1)) = (l + 1) - early
            /\ \A i \in 1..((l + 1) - early) : SubSeq(commands', early + 1, l + 1)[i] = commands'[early + i]
        BY ONLY <4>1, Part
      <4> QED BY <4>2
    <3>2. PICK d \in Nat : d = l - early /\ (l + 1) - early = d + 1
      <4>1. l - early \in Nat /\ (l + 1) - early = (l - early) + 1
        BY <1>5
      <4> QED BY <4>1
    <3>3. Len(y) <= Len(z)
      BY <2>3, <3>1, <3>2
    <3>4. ASSUME NEW i \in 1..d PROVE y[i] = z[i]
      <4>1. early + i \in 1..l /\ i \in 1..(d + 1)
        BY <3>2
      <4> QED BY <1>3, <2>3, <3>1, <3>2, <4>1
    <3>5. y \in Seq(WireBytes) /\ z \in Seq(WireBytes)
      <4>1. \A s \in Seq(Payloads) : s \in Seq(WireBytes)
        <5>1. Payloads \subseteq WireBytes
          BY ByteTypes
        <5> QED BY <5>1
      <4> QED BY <4>1
    <3>6. \A i \in 1..Len(y) : y[i] = z[i]
      BY <2>3, <3>2, <3>4
    <3>7. IsPrefix(x, z)
      BY <2>2, <2>3, <3>3, <3>5, <3>6, PrefixOfLonger
    <3> QED BY <1>1, <1>3, <1>6, <2>1, <2>4, <3>1, <3>7 DEF CommandsInOrder
  <2>5. CASE ~broker.granted
    <3>1. early = l /\ broker'.early = l + 1
      BY <1>6, <1>7, <2>5
    <3>2. y = <<>>
      BY <2>3, <3>1
    <3>3. x = <<>>
      BY <2>2, <2>3, <3>2 DEF IsPrefix
    <3>4. SubSeq(commands', l + 1 + 1, l + 1) = <<>>
      BY SubSeqEmpty
    <3>5. IsPrefix(<<>>, <<>>)
      BY DEF IsPrefix
    <3> QED BY <1>1, <1>3, <2>1, <3>1, <3>3, <3>4, <3>5 DEF CommandsInOrder
  <2> QED BY <2>4, <2>5
<1>13. ASSUME Sync PROVE Sync'
  <2>1. PICK b, q, n, e, c : InSync(b, q, n, e, c)
    BY <1>13 DEF Sync
  <2>2. /\ q \in Seq(Packets) /\ c \in [0..Len(q) -> Nat] /\ c[Len(q)] = Len(commands)
        /\ \A i \in 1..Len(q) : Acks(q[i], c[i])
        /\ Delivers(c) /\ Numbered(q, c) /\ Len(q) \in Nat
    <3>1. /\ q \in Seq(Packets) /\ c \in [0..Len(q) -> Nat] /\ Delivers(c)
          /\ Numbered(q, c) /\ Acknowledged(q, c)
      BY <2>1 DEF InSync
    <3>2. c[Len(q)] = Len(commands)
      BY <1>1, <3>1 DEF Numbered
    <3>3. \A i \in 1..Len(q) : Acks(q[i], c[i])
      BY <3>1 DEF Acknowledged
    <3> QED BY <3>1, <3>2, <3>3
  <2>3. PICK p \in Packets : /\ p = Command(m) /\ IsCommand(p) /\ ~IsConnack(p) /\ ~IsSuback(p)
                             /\ p[6] = m
    <3>1. Command(m) \in Packets
      BY DEF Packets
    <3>2. Command(m)[1] = PUBLISH * 16 /\ Command(m)[6] = m
      BY DEF Command
    <3>3. PUBLISH * 16 # CONNACK * 16 /\ PUBLISH * 16 # SUBACK * 16
      BY DEF PUBLISH, CONNACK, SUBACK
    <3> QED BY <3>1, <3>2, <3>3 DEF IsCommand, IsConnack, IsSuback
  <2>4. PICK k \in Nat : k = l + 1
    OBVIOUS
  <2>5. ASSUME NEW i \in 1..Len(q) PROVE Acks(q[i], c[i])'
    <3>1. Acks(q[i], c[i])
      BY <2>2
    <3>2. IsSuback(q[i]) => broker.granted
      BY <1>7, <3>1 DEF Acks
    <3> QED BY <1>1, <1>5, <1>6, <1>9, <3>1, <3>2 DEF Acks
  <2>6. Acks(p, k)'
    BY <2>3 DEF Acks
  <2>7. Delivers(c)'
    <3>1. CASE client.handler
      <4>1. /\ broker.granted /\ early <= c[0]
            /\ delivered = SubSeq(commands, early + 1, c[0])
        BY <1>5, <2>2, <3>1 DEF Delivers
      <4>2. PICK c0 \in Nat : c0 = c[0] /\ c0 <= l
        <5>1. 0 \in 0..Len(q) /\ Len(q) \in 0..Len(q) /\ 0 <= Len(q)
          BY <2>2
        <5> QED BY <1>3, <2>2, <5>1 DEF Numbered
      <4>3. SubSeq(commands', early + 1, c0) = SubSeq(commands, early + 1, c0)
        <5>1. /\ commands \in Seq(Payloads) /\ c0 <= Len(commands) /\ c0 \in Nat
              /\ commands' \in Seq(Payloads) /\ c0 <= Len(commands')
              /\ early \in Nat /\ early <= c0
          BY <1>3, <1>4, <1>5, <4>1, <4>2
        <5>2. PICK x \in Seq(Payloads) : /\ x = SubSeq(commands, early + 1, c0) /\ Len(x) = c0 - early
                                         /\ \A i \in 1..(c0 - early) : x[i] = commands[early + i]
          <6>1. /\ SubSeq(commands, early + 1, c0) \in Seq(Payloads)
                /\ Len(SubSeq(commands, early + 1, c0)) = c0 - early
                /\ \A i \in 1..(c0 - early) : SubSeq(commands, early + 1, c0)[i] = commands[early + i]
            BY ONLY <5>1, Part
          <6> QED BY <6>1
        <5>3. PICK y \in Seq(Payloads) : /\ y = SubSeq(commands', early + 1, c0) /\ Len(y) = c0 - early
                                         /\ \A i \in 1..(c0 - early) : y[i] = commands'[early + i]
          <6>1. /\ SubSeq(commands', early + 1, c0) \in Seq(Payloads)
                /\ Len(SubSeq(commands', early + 1, c0)) = c0 - early
                /\ \A i \in 1..(c0 - early) : SubSeq(commands', early + 1, c0)[i] = commands'[early + i]
            BY ONLY <5>1, Part
          <6> QED BY <6>1
        <5>4. ASSUME NEW i \in 1..(c0 - early) PROVE x[i] = y[i]
          <6>1. early + i \in 1..l
            BY <4>2, <5>1
          <6> QED BY <1>3, <5>2, <5>3, <6>1
        <5>5. x = y
          BY <5>2, <5>3, <5>4, SeqEqual
        <5> QED BY <5>2, <5>3, <5>5
      <4>4. broker'.early = early /\ broker'.granted
        BY <1>6, <4>1
      <4> QED BY <1>1, <3>1, <4>1, <4>2, <4>3, <4>4 DEF Delivers
    <3>2. CASE ~client.handler
      BY <1>1, <2>2, <3>2 DEF Delivers
    <3> QED BY <3>1, <3>2
  <2>8. k = Len(commands') /\ k = c[Len(q)] + 1 /\ p[6] = commands'[k] /\ air' = Append(air, p)
    BY <1>1, <1>3, <2>2, <2>3, <2>4
  <2>9. \A i \in 1..Len(commands) : commands'[i] = commands[i]
    BY <1>3
  <2> QED BY <1>1, <1>4, <2>1, <2>3, <2>5, <2>6, <2>7, <2>8, <2>9, AppendedSync
<1> QED BY <1>1, <1>8, <1>10, <1>11, <1>12, <1>13 DEF Followed

-----------------------------------------------------------------------------
(* The invariant. *)

LEMMA IInvInit == SessionInit => IInv
<1> SUFFICES ASSUME SessionInit PROVE IInv
  OBVIOUS
<1>1. Types
  BY TypesInit
<1>2. /\ requests = <<>> /\ broker = NoAnswer /\ commands = <<>> /\ delivered = <<>>
      /\ op = "none" /\ pc = "idle" /\ client = NewClient
  BY DEF SessionInit
<1>3. Requested /\ InCall
  BY <1>2 DEF Requested, InCall, Has, NoAnswer, NewClient
<1>4. CommandsInOrder
  BY <1>2 DEF CommandsInOrder, NoAnswer, IsPrefix
<1>5. Followed
  BY <1>2, <1>3, <1>4 DEF Followed, NewClient
<1> QED BY <1>1, <1>5 DEF IInv

LEMMA IInvStep == IInv /\ [SessionNext]_sessionVars => IInv'
<1> SUFFICES ASSUME IInv, [SessionNext]_sessionVars PROVE IInv'
  OBVIOUS
<1>1. Types /\ Types' /\ (InStep => Followed)
  BY TypesStep DEF IInv
<1> SUFFICES ASSUME InStep' PROVE Followed'
  BY <1>1 DEF IInv
<1>2. CASE UNCHANGED sessionVars
  <2>1. UNCHANGED <<link, air, requests, broker, commands, pending, op, pc, packet, client,
                    delivered, flaws>>
    BY <1>2 DEF sessionVars, network, call
  <2>2. InStep /\ Followed
    BY <1>1, <2>1 DEF InStep
  <2>3. Requested' /\ InCall' /\ CommandsInOrder'
    BY <2>1, <2>2, InOrderKept DEF Requested, InCall, Followed, Has
  <2>4. Sync => Sync'
    BY <2>1, QuietSync DEF Has
  <2>5. Garbage => Garbage'
    BY <2>1, QuietGarbage DEF Garbage, Has
  <2> QED BY <2>1, <2>2, <2>3, <2>4, <2>5 DEF Followed
<1>3. CASE Connect
  BY <1>1, <1>3, ConnectFollowed
<1>4. CASE Device \/ TimerRuns \/ Expiry \/ Poll \/ LinkDies \/ Broker
  <2>1. InStep
    <3>1. flaws' = {} => flaws = {}
      BY <1>4 DEF Device, GoOn, LeaveLoop, ReadHeader, NoHeader, ReadLength, NoLength, ReadRest,
                  NoRest, TooLong, Dispatch, Keepalive, CycleReturns, MenuEvent, Yield,
                  TimerRuns, Expiry, Expire, Poll, Arrive, LinkDies, Broker, Answer,
                  SendCommand, BrokerUnchanged
    <3> QED BY <3>1 DEF InStep
  <2>2. Followed
    BY <1>1, <2>1
  <2>3. CASE NoLength
    BY <2>3 DEF NoLength, InStep
  <2>4. CASE GoOn \/ NoHeader \/ TimerRuns \/ Expiry
    BY <1>1, <2>1, <2>2, <2>4, WaitsFollowed
  <2>5. CASE LeaveLoop \/ TooLong
    BY <1>1, <2>1, <2>2, <2>5, GiveUpFollowed
  <2>6. CASE ReadHeader \/ ReadLength \/ ReadRest \/ NoRest
    BY <1>1, <2>1, <2>2, <2>6, ReadHeaderFollowed, ReadLengthFollowed, ReadRestFollowed,
       NoRestFollowed
  <2>7. CASE Dispatch \/ Keepalive \/ CycleReturns
    BY <1>1, <2>1, <2>2, <2>7, DispatchFollowed, KeepaliveFollowed, CycleReturnsFollowed
  <2>8. CASE MenuEvent \/ Yield
    BY <1>1, <2>1, <2>2, <2>8, MainFollowed
  <2>9. CASE Poll \/ LinkDies
    BY <1>1, <2>1, <2>2, <2>9, ArriveFollowed, LinkDiesFollowed
  <2>10. CASE Broker
    BY <1>1, <2>1, <2>2, <2>10, AnswerFollowed, SendCommandFollowed DEF Broker
  <2> QED BY <1>4, <2>3, <2>4, <2>5, <2>6, <2>7, <2>8, <2>9, <2>10 DEF Device
<1> QED BY <1>2, <1>3, <1>4 DEF SessionNext

LEMMA IInvHolds == SessionSpec => []IInv
<1>1. IInv /\ [SessionNext]_sessionVars => IInv'
  BY IInvStep
<1> QED BY IInvInit, <1>1, PTL DEF SessionSpec

\* The ring and the packet in the buffer stay in their bounds, and the client
\* believes in a session, and has a handler in it, only if the broker has
\* accepted the one and granted the other (IPStack.cpp:150-231,
\* MQTTClient.h:732-790, 853-888) - for every ring, packet size and number of
\* commands and connections.
THEOREM ClientAndBrokerAgree == SessionSpec => []SessionInv
<1>1. ASSUME IInv PROVE SessionInv
  <2>1. Types /\ (InStep => Followed)
    BY <1>1 DEF IInv
  <2>2. SessionTypes
    BY <2>1 DEF Types, SessionTypes
  <2>3. ASSUME InStep, client.connected
        PROVE  broker.accepted /\ (client.handler => broker.granted)
    <3>1. Followed
      BY <2>1, <2>3
    <3>2. broker.accepted
      BY <2>3, <3>1 DEF Followed, InCall
    <3>3. PICK b, q, n, e, c : InSync(b, q, n, e, c)
      BY <2>3, <3>1 DEF Followed, Sync
    <3> QED BY <3>2, <3>3 DEF InSync, Delivers
  <2> QED BY <2>2, <2>3 DEF SessionInv, SessionAgrees
<1> QED BY IInvHolds, <1>1, PTL

\* As long as nothing was lost, the callback sees the broker's commands each
\* once, in their order, from the granted subscription on
\* (MQTTClient.h:527-554, 579-676).
THEOREM CommandsArriveInOrder == SessionSpec => []CommandsInOrder
<1>1. ASSUME IInv PROVE CommandsInOrder
  <2>1. InStep => CommandsInOrder
    BY <1>1 DEF IInv, Followed
  <2>2. ~InStep => CommandsInOrder
    BY DEF CommandsInOrder
  <2> QED BY <2>1, <2>2
<1> QED BY IInvHolds, <1>1, PTL

LEMMA EitherPrefix ==
    ASSUME NEW S, NEW x \in Seq(S), NEW y \in Seq(S),
           \A k \in 1..Len(x) : k <= Len(y) => x[k] = y[k]
    PROVE  IsPrefix(x, y) \/ IsPrefix(y, x)
<1>1. PICK l \in Nat, m \in Nat : l = Len(x) /\ m = Len(y)
  OBVIOUS
<1>2. CASE l <= m
  <2>1. \A k \in 1..l : k <= m
    BY <1>2
  <2> QED BY <1>1, <1>2, <2>1, PrefixIs
<1>3. CASE m <= l
  <2>1. ASSUME NEW k \in 1..m PROVE y[k] = x[k]
    <3>1. k \in 1..l /\ k <= m
      BY <1>3
    <3> QED BY <1>1, <3>1
  <2> QED BY <1>1, <1>3, <2>1, PrefixIs
<1> QED BY <1>2, <1>3

LEMMA BetweenPackets ==
    ASSUME Types, Sync, pc \in {"check", "idle", "header"},
           NEW rest, rest = IF air = <<>> THEN pending ELSE pending \o Head(air)
    PROVE  rest = <<>> \/ \E p \in Packets : IsPrefix(p, rest) \/ IsPrefix(rest, p)
<1>1. PICK b, q, n, e, c : InSync(b, q, n, e, c)
  BY DEF Sync
<1>2. /\ b \in Seq(WireBytes) /\ q \in Seq(Packets) /\ n \in 0..Len(q)
      /\ e \in [0..n -> Nat] /\ Parses(b, q, n, e) /\ Received(b, q, n)
  BY <1>1 DEF InSync
<1>3. Done = 0
  BY DEF Done
<1>4. PICK l \in Nat, m \in Nat, w \in Nat : l = Len(pending) /\ m = Len(b) /\ w = Len(q)
  BY <1>2 DEF Types
<1>5. l <= m /\ \A k \in 1..l : pending[k] = b[k]
  <2>1. \A k \in 1..l : 0 + k = k
    OBVIOUS
  <2> QED BY <1>2, <1>3, <1>4, <2>1 DEF Received
<1>6. PICK r \in Seq(WireBytes) : /\ r = Rest(b) /\ Len(r) = m - l
                                  /\ \A k \in 1..(m - l) : r[k] = b[l + k]
  <2>1. b \in Seq(WireBytes) /\ m <= Len(b) /\ m \in Nat /\ l \in Nat /\ l <= m
    BY <1>2, <1>4, <1>5
  <2>2. /\ SubSeq(b, l + 1, m) \in Seq(WireBytes) /\ Len(SubSeq(b, l + 1, m)) = m - l
        /\ \A i \in 1..(m - l) : SubSeq(b, l + 1, m)[i] = b[l + i]
    BY ONLY <2>1, Part
  <2>3. Rest(b) = SubSeq(b, l + 1, m)
    BY <1>3, <1>4 DEF Rest
  <2> QED BY <2>2, <2>3
<1>7. PICK x \in Seq(WireBytes) : x = pending
  BY DEF Types
<1>8. CASE air = <<>>
  <2>1. rest = x
    BY <1>7, <1>8
  <2>2. CASE n = 0
    <3>1. m = 0
      BY <1>2, <1>4, <2>2 DEF Parses
    <3>2. x = <<>>
      BY <1>4, <1>5, <1>7, <3>1
    <3> QED BY <2>1, <3>2
  <2>3. CASE n > 0
    <3>1. PICK p \in Packets : p = q[1] /\ p \in Seq(WireBytes)
      BY <1>2, <2>3, PacketFacts, SMTT(60)
    <3>2. \A k \in 1..Len(p) : b[k] = p[k]
      BY <1>2, <2>3, <3>1, ParsesEnds
    <3>3. ASSUME NEW k \in 1..Len(x), k <= Len(p) PROVE x[k] = p[k]
      <4>1. k \in 1..Len(p) /\ k \in 1..l
        BY <1>4, <1>7, <3>1, <3>3
      <4> QED BY <1>5, <1>7, <3>2, <4>1
    <3>4. IsPrefix(x, p) \/ IsPrefix(p, x)
      BY <3>1, <3>3, EitherPrefix
    <3> QED BY <2>1, <3>1, <3>4
  <2> QED BY <1>2, <1>4, <2>2, <2>3
<1>9. CASE air # <<>>
  <2>1. link = "up"
    BY <1>2, <1>9 DEF Received, Types
  <2>2. air = (IF r = <<>> THEN <<>> ELSE <<r>>) \o SubSeq(q, n + 1, Len(q))
    BY <1>2, <1>6, <2>1 DEF Received
  <2>0. air \in Seq(Seq(WireBytes))
    BY DEF Types
  <2>10. Head(air) \in Seq(WireBytes)
    BY ONLY <1>9, <2>0
  <2>3. PICK h \in Seq(WireBytes) : h = Head(air) /\ rest = x \o h
    BY <1>7, <1>9, <2>10
  <2>4. PICK z \in Seq(WireBytes) : z = rest
    BY <2>3, ConcatProperties
  <2>5. PICK f \in Nat : f = Len(h) /\ Len(z) = l + f
    BY <1>4, <1>7, <2>3, <2>4
  <2>6. /\ \A k \in 1..l : z[k] = x[k]
        /\ \A k \in 1..f : z[l + k] = h[k]
    <3>1. \A k \in 1..(l + f) : z[k] = IF k <= l THEN x[k] ELSE h[k - l]
      BY <1>4, <1>7, <2>3, <2>4, <2>5, ConcatProperties
    <3>2. \A k \in 1..l : k \in 1..(l + f) /\ k <= l
      OBVIOUS
    <3>3. \A k \in 1..f : l + k \in 1..(l + f) /\ ~(l + k <= l) /\ (l + k) - l = k
      OBVIOUS
    <3> QED BY <3>1, <3>2, <3>3
  <2>7. PICK p \in Packets : /\ p \in Seq(WireBytes)
                             /\ \A k \in 1..Len(z) : k <= Len(p) => z[k] = p[k]
    <3>1. CASE n = 0
      <4>1. m = 0
        BY <1>2, <1>4, <3>1 DEF Parses
      <4>2. l = 0 /\ r = <<>>
        BY <1>4, <1>5, <1>6, <4>1
      <4>3. air = q /\ w > 0
        <5>1. SubSeq(q, 0 + 1, Len(q)) = q /\ <<>> \o q = q
          BY <1>2, ConcatEmptySeq
        <5>2. air = q
          BY <2>2, <3>1, <4>2, <5>1
        <5> QED BY <1>2, <1>4, <1>9, <5>2
      <4>4. h = q[1] /\ q[1] \in Packets
        BY <1>2, <1>4, <2>3, <4>3
      <4>5. \A k \in 1..f : z[k] = h[k]
        BY <2>6, <4>2
      <4> QED BY <2>5, <4>2, <4>4, <4>5, SMTT(60)
    <3>2. CASE n > 0
      <4>1. PICK p \in Packets : p = q[1] /\ p \in Seq(WireBytes) /\ Len(p) \in Nat
        BY <1>2, <3>2, PacketFacts, SMTT(60)
      <4>2. Len(p) <= m /\ \A k \in 1..Len(p) : b[k] = p[k]
        BY <1>2, <1>4, <3>2, <4>1, ParsesEnds
      <4>3. \A k \in 1..m : k <= Len(z) => z[k] = b[k]
        <5>1. CASE r # <<>>
          <6>1. h = r
            BY <2>2, <2>3, <5>1
          <6>2. ASSUME NEW k \in 1..m, k <= Len(z), k > l PROVE z[k] = b[k]
            <7>1. PICK j \in 1..f : k = l + j
              <8>1. k - l \in 1..f /\ k = l + (k - l)
                BY <2>5, <6>2
              <8> QED BY <8>1
            <7>2. j \in 1..(m - l)
              BY <1>6, <2>5, <6>1, <7>1
            <7> QED BY <1>6, <2>6, <6>1, <7>1, <7>2
          <6>3. ASSUME NEW k \in 1..m, k <= l PROVE z[k] = b[k]
            BY <1>5, <1>7, <2>6, <6>3
          <6> QED BY <6>2, <6>3
        <5>2. CASE r = <<>>
          <6>1. m = l
            BY <1>5, <1>6, <5>2
          <6> QED BY <1>5, <1>7, <2>6, <6>1
        <5> QED BY <5>1, <5>2
      <4>4. ASSUME NEW k \in 1..Len(z), k <= Len(p) PROVE z[k] = p[k]
        <5>1. k \in 1..m /\ k <= Len(z) /\ k \in 1..Len(p)
          BY <2>5, <4>1, <4>2, <4>4
        <5> QED BY <4>2, <4>3, <5>1
      <4> QED BY <4>1, <4>4
    <3>3. n = 0 \/ n > 0
      BY <1>2, <1>4
    <3> QED BY <3>1, <3>2, <3>3
  <2>8. IsPrefix(z, p) \/ IsPrefix(p, z)
    BY <2>7, EitherPrefix
  <2> QED BY <2>4, <2>7, <2>8
<1> QED BY <1>8, <1>9

\* Between two packets of a session what was received, and with it what comes
\* next, starts with a packet: no read that failed inside one leaves a session
\* behind (MQTTClient.h:448-490, 579-592).
THEOREM StreamStaysInStep == SessionSpec => []InStepOrClosed
<1>1. ASSUME IInv PROVE InStepOrClosed
  <2>1. ASSUME InStep, client.connected PROVE Types /\ Sync
    BY <1>1, <2>1 DEF IInv, Followed
  <2> QED BY <2>1, BetweenPackets DEF InStepOrClosed
<1> QED BY IInvHolds, <1>1, PTL
=============================================================================
