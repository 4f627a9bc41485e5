---------------------------- MODULE Codec_proofs ----------------------------
(***************************************************************************)
(* Proofs about the encodings of Codecs for every input, where its runs    *)
(* draw some: the sensors' scales, the EEPROM's texts, MQTT's packets, the *)
(* pieces they arrive in, and the handlers a message of MQTT is for.       *)
(***************************************************************************)
EXTENDS Codecs, SequenceTheorems, FiniteSetTheorems, WellFoundedInduction, TLAPS

\* The pressure of a reading of n in 1/240 Pa.
LEMMA Scaled ==
    ASSUME NEW n \in 0..65535
    PROVE  LET p == ((n \div 240) * 95) \div 100
           IN  /\ p \in Nat
               /\ 24000 * p <= 95 * n /\ 95 * n < 24000 * (p + 2)
               /\ p <= 126 <=> n < 32160
<1> DEFINE q == n \div 240
           p == (q * 95) \div 100
<1>1. q \in Nat /\ 240 * q <= n /\ n < 240 * (q + 1)
    BY SMTT(90)
<1>2. p \in Nat /\ 100 * p <= 95 * q /\ 95 * q < 100 * (p + 1)
    BY <1>1, SMTT(60)
<1> HIDE DEF q, p
<1>3. 24000 * p <= 95 * n
    <2>1. 24000 * p = 240 * (100 * p) /\ 240 * (100 * p) <= 240 * (95 * q)
        BY <1>1, <1>2, SMTT(90)
    <2>2. 240 * (95 * q) = 95 * (240 * q) /\ 95 * (240 * q) <= 95 * n
        BY <1>1, <1>2, SMTT(60)
    <2> QED BY <1>1, <1>2, <2>1, <2>2, SMTT(90)
<1>4. 95 * n < 24000 * (p + 2)
    <2>1. 95 * n <= 95 * (240 * q + 239)
        BY <1>1, <1>2, SMTT(60)
    <2>2. 240 * (95 * q) <= 240 * (100 * p + 99)
        BY <1>1, <1>2, SMTT(90)
    <2> QED BY <1>1, <1>2, <2>1, <2>2, SMTT(90)
<1>5. p <= 126 <=> n < 32160
    <2>1. p <= 126 <=> q <= 133
        BY <1>1, <1>2, SMTT(90)
    <2>2. q <= 133 <=> n < 32160
        BY <1>1, SMTT(60)
    <2> QED BY <2>1, <2>2, SMTT(60)
<1> QED BY <1>2, <1>3, <1>4, <1>5, SMTT(90) DEF p, q

LEMMA FanScaled ==
    ASSUME NEW n \in 0..65535
    PROVE  ((10 * n) % 65536) \div 10 = n <=> n <= 6553
<1>1. CASE n <= 6553
    <2>1. (10 * n) % 65536 = 10 * n
        BY <1>1, SMTT(90)
    <2> DEFINE t == 10 * n
    <2>2. t \in Nat /\ 10 * n <= t /\ t < 10 * (n + 1)
        BY SMTT(90)
    <2> HIDE DEF t
    <2>3. t \div 10 = n
        BY <2>2, SMTT(90)
    <2> QED BY <1>1, <2>1, <2>3, SMTT(60) DEF t
<1>2. CASE n > 6553
    <2> DEFINE m == (10 * n) % 65536
    <2>2. m \in 0..65535
        BY SMTT(90)
    <2> HIDE DEF m
    <2>3. m \div 10 <= 6553
        BY <2>2, SMTT(90)
    <2> QED BY <1>2, <2>3, SMTT(60) DEF m
<1> QED BY <1>1, <1>2, SMTT(90)

LEMMA ReadingIsRight == ASSUME NEW high \in 0..255, NEW low \in 0..255 PROVE ReadingRight(high, low)
<1> DEFINE word == 256 * high + low
           raw  == ((word \div 240) * 95) \div 100
           p    == Air!Pressure(high, low)
           sent == Air!FanCommand(word)
           got  == Air!ReadAllSensors([fan |-> sent, co2 |-> word, rh |-> word, t |-> word], high, low)
<1>1. word \in 0..65535
    BY SMTT(90)
<1>2. p = IF raw <= 0 THEN 0 ELSE IF raw >= 127 THEN 0 ELSE raw
    BY DEF Air!Pressure, Air!Limited
<1>3. /\ got.pressure = p /\ got.currentFanSpeed = sent \div 10 /\ got.temp = word \div 10
      /\ sent = (10 * word) % 65536
    BY DEF Air!ReadAllSensors, Air!FanCommand
<1> HIDE DEF word, p, sent, got
<1>5. /\ raw \in Nat
      /\ 24000 * raw <= 95 * word /\ 95 * word < 24000 * (raw + 2)
      /\ raw <= 126 <=> word < 32160
    BY <1>1, Scaled, SMTT(90)
<1> HIDE DEF raw
<1>6. (got.currentFanSpeed = word) = (word <= 6553)
    BY <1>1, <1>3, FanScaled, SMTT(90)
<1>7. IF Signed(word) \in 0..32159
      THEN 24000 * p <= 95 * word /\ 95 * word < 24000 * (p + 2)
      ELSE p = 0
    <2>1. Signed(word) \in 0..32159 <=> word < 32160
        BY <1>1, SMTT(90) DEF Signed
    <2>2. raw <= 126 => p = raw
        BY <1>2, <1>5
    <2>3. raw > 126 => p = 0
        BY <1>2, <1>5
    <2> QED BY <1>5, <2>1, <2>2, <2>3, SMTT(90)
<1>8. p \in 0..126
    BY <1>2, <1>5
<1>9. Signed(word) < 0 => got.temp > 3000
    <2>1. Signed(word) < 0 => word \div 10 > 3000
        BY <1>1, SMTT(90) DEF Signed
    <2> QED BY <1>3, <2>1
<1>10. ScaledRight(word, p, got)
    BY <1>3, <1>6, <1>7, <1>8, <1>9, SMTT(90) DEF ScaledRight
<1> QED BY <1>10 DEF ReadingRight, word, p, sent, got

\* Whatever the sensors' registers hold: the pressure is in whole pascals of
\* its scale, at most two too few, and 0 below it and beyond 126; a
\* percentage is read back from the fan as it was sent; no temperature is
\* read as one below zero (main.cpp:195-203, PressureSensor.cpp:20-44).
THEOREM ReadingsScaled ==
    ASSUME input.kind = "sensor" => input.high \in 0..255
    PROVE  PressureRight
BY ReadingIsRight DEF PressureRight

-----------------------------------------------------------------------------
(* The EEPROM's records.  S is any set with the bytes and with the two of  *)
(* each checksum: what they are does not matter to the texts.              *)

LEMMA Wider ==
    ASSUME NEW S, NEW T, S \subseteq T, NEW s \in Seq(S)
    PROVE  s \in Seq(T)
OBVIOUS

\* What stands where in a sequence of two or three parts, and in a part.
LEMMA TwoParts ==
    ASSUME NEW S, NEW a \in Seq(S), NEW b \in Seq(S)
    PROVE  /\ a \o b \in Seq(S) /\ Len(a) + Len(b) = Len(a \o b)
           /\ \A i \in 1..Len(a) : (a \o b)[i] = a[i]
           /\ \A i \in 1..Len(b) : (a \o b)[Len(a) + i] = b[i]
OBVIOUS

LEMMA ThreeParts ==
    ASSUME NEW S, NEW a \in Seq(S), NEW b \in Seq(S), NEW c \in Seq(S)
    PROVE  /\ a \o b \o c \in Seq(S) /\ Len(a) + Len(b) + Len(c) = Len(a \o b \o c)
           /\ \A i \in 1..Len(a) : (a \o b \o c)[i] = a[i]
           /\ \A i \in 1..Len(b) : (a \o b \o c)[Len(a) + i] = b[i]
           /\ \A i \in 1..Len(c) : (a \o b \o c)[Len(a) + Len(b) + i] = c[i]
<1>1. PICK ab : ab = a \o b
    OBVIOUS
<1>2. /\ ab \in Seq(S) /\ Len(a) + Len(b) = Len(ab)
      /\ \A i \in 1..Len(a) : ab[i] = a[i]
      /\ \A i \in 1..Len(b) : ab[Len(a) + i] = b[i]
    BY <1>1, TwoParts
<1>3. PICK all : all = ab \o c
    OBVIOUS
<1>4. /\ all \in Seq(S) /\ Len(ab) + Len(c) = Len(all)
      /\ \A i \in 1..Len(ab) : all[i] = ab[i]
      /\ \A i \in 1..Len(c) : all[Len(ab) + i] = c[i]
    BY <1>2, <1>3, TwoParts
<1>5. ASSUME NEW i \in 1..Len(a) PROVE all[i] = a[i]
    <2>1. i \in 1..Len(ab)
        BY <1>2
    <2> QED BY <1>2, <1>4, <2>1
<1>6. ASSUME NEW i \in 1..Len(b) PROVE all[Len(a) + i] = b[i]
    <2>1. Len(a) + i \in 1..Len(ab)
        BY <1>2
    <2> QED BY <1>2, <1>4, <2>1
<1>7. ASSUME NEW i \in 1..Len(c) PROVE all[Len(a) + Len(b) + i] = c[i]
    BY <1>2, <1>4
<1>8. Len(a) + Len(b) + Len(c) = Len(all)
    BY <1>2, <1>4
<1> QED BY <1>1, <1>3, <1>4, <1>5, <1>6, <1>7, <1>8

LEMMA Part ==
    ASSUME NEW S, NEW s \in Seq(S), NEW m \in Nat, m <= Len(s), NEW j \in Nat, j <= m
    PROVE  /\ SubSeq(s, j + 1, m) \in Seq(S) /\ m - j = Len(SubSeq(s, j + 1, m))
           /\ \A i \in 1..(m - j) : SubSeq(s, j + 1, m)[i] = s[j + i]
OBVIOUS

LEMMA MinIs ==
    ASSUME NEW T \in SUBSET Int, NEW m \in T, \A x \in T : m <= x
    PROVE  Min(T) = m
<1>1. \E x \in T : \A y \in T : x <= y
    OBVIOUS
<1>2. Min(T) \in T /\ \A y \in T : Min(T) <= y
    BY <1>1, Zenon DEF Min
<1>3. m \in Int /\ Min(T) \in Int /\ m <= Min(T) /\ Min(T) <= m
    BY <1>2
<1> QED BY <1>3

LEMMA CStringIs ==
    ASSUME NEW S, NEW bytes \in Seq(S), NEW n \in Nat, n < Len(bytes), bytes[n + 1] = 0,
           \A i \in 1..n : bytes[i] # 0
    PROVE  CString(bytes) = SubSeq(bytes, 1, n)
<1> DEFINE ends == {i \in DOMAIN bytes : bytes[i] = 0}
<1>1. n + 1 \in ends /\ ends \in SUBSET Int /\ \A x \in ends : n + 1 <= x
    OBVIOUS
<1>2. Min(ends) = n + 1
    <2> HIDE DEF ends
    <2> QED BY <1>1, MinIs
<1>3. ends # {} /\ (n + 1) - 1 = n
    BY <1>1
<1> QED BY <1>2, <1>3 DEF CString

LEMMA ReadBytesIs ==
    ASSUME NEW S, NEW mem \in Seq(S), NEW addr \in Nat, NEW n \in Nat, addr + n <= Len(mem)
    PROVE  LET bytes == ReadBytes(mem, addr, n)
           IN  bytes \in Seq(S) /\ n = Len(bytes) /\ \A i \in 1..n : bytes[i] = mem[addr + i]
<1>1. \A i \in (addr + 1)..(addr + n) : mem[i] \in S
    OBVIOUS
<1> QED BY <1>1, SubSeqProperties DEF ReadBytes

LEMMA WriteBytesIs ==
    ASSUME NEW S, NEW mem \in Seq(S), NEW addr \in Nat, NEW values \in Seq(S)
    PROVE  LET after == WriteBytes(mem, addr, values)
           IN  /\ after \in Seq(S) /\ Len(mem) = Len(after)
               /\ \A i \in 1..Len(mem) :
                     after[i] = IF i - addr \in 1..Len(values) THEN values[i - addr] ELSE mem[i]
<1>1. DOMAIN mem = 1..Len(mem) /\ DOMAIN values = 1..Len(values) /\ Len(mem) \in Nat
    OBVIOUS
<1>2. WriteBytes(mem, addr, values) =
          [i \in 1..Len(mem) |-> IF i - addr \in 1..Len(values) THEN values[i - addr] ELSE mem[i]]
    BY <1>1 DEF WriteBytes
<1>3. \A i \in 1..Len(mem) : (IF i - addr \in 1..Len(values) THEN values[i - addr] ELSE mem[i]) \in S
    OBVIOUS
<1> QED BY <1>1, <1>2, <1>3

Chars == 1..255

LEMMA Sizes == RecordSize \in Nat /\ RecordSize > 3 /\ \A c \in Chars : c # 0
BY DEF RecordSize, Chars

Held(text, S) ==
    /\ text \in Seq(Chars) /\ 1 <= Len(text) /\ Len(text) <= RecordSize - 3
    /\ 0 \in S /\ Chars \subseteq S
    /\ RecordCrc(text) \div 256 \in S /\ RecordCrc(text) % 256 \in S

LEMMA RecordIs ==
    ASSUME NEW S, NEW text, Held(text, S)
    PROVE  LET r == TextRecord(text, Zeros(RecordSize))
           IN  /\ r \in Seq(S) /\ RecordSize = Len(r) /\ r[Len(text) + 1] = 0
               /\ \A i \in 1..Len(text) : r[i] = text[i]
<1>1. PICK high, low : high = RecordCrc(text) \div 256 /\ low = RecordCrc(text) % 256
    OBVIOUS
<1>2. /\ text \in Seq(Chars) /\ 1 <= Len(text) /\ Len(text) <= RecordSize - 3
      /\ 0 \in S /\ Chars \subseteq S /\ high \in S /\ low \in S
    BY <1>1, Zenon DEF Held
<1>3. text \in Seq(S) /\ 1 <= Len(text) /\ Len(text) <= RecordSize - 3
    BY <1>2, Wider
<1>4. PICK tail : tail = <<0, high, low>>
    OBVIOUS
<1>5. tail \in Seq(S) /\ 3 = Len(tail) /\ tail[1] = 0
    BY <1>2, <1>4
<1>6. PICK rest : rest = Zeros(RecordSize)
    OBVIOUS
<1>7. rest \in Seq(S) /\ RecordSize = Len(rest)
    BY <1>2, <1>6, Sizes DEF Zeros
<1>8. PICK all : all = text \o tail \o rest
    OBVIOUS
<1>9. /\ all \in Seq(S) /\ Len(text) + Len(tail) + Len(rest) = Len(all)
      /\ \A i \in 1..Len(text) : all[i] = text[i]
      /\ \A i \in 1..Len(tail) : all[Len(text) + i] = tail[i]
    BY <1>3, <1>5, <1>7, <1>8, ThreeParts, SMTT(90)
<1>10. all[Len(text) + 1] = 0
    <2>1. 1 \in 1..Len(tail)
        BY <1>5
    <2> QED BY <1>5, <1>9, <2>1
<1>11. all \in Seq(S) /\ RecordSize <= Len(all)
    BY <1>3, <1>5, <1>7, <1>9, Sizes
<1>12. PICK r : r = SubSeq(all, 1, RecordSize)
    OBVIOUS
<1>13. r \in Seq(S) /\ RecordSize = Len(r) /\ \A i \in 1..RecordSize : r[i] = all[i]
    BY <1>11, <1>12, Sizes
<1>14. r[Len(text) + 1] = 0
    <2>1. Len(text) + 1 \in 1..RecordSize
        BY <1>3, Sizes
    <2> QED BY <1>10, <1>13, <2>1
<1>15. ASSUME NEW i \in 1..Len(text) PROVE r[i] = text[i]
    <2>1. i \in 1..RecordSize
        BY <1>3, Sizes
    <2> QED BY <1>9, <1>13, <2>1
<1>16. TextRecord(text, Zeros(RecordSize)) = r
    BY <1>1, <1>4, <1>6, <1>8, <1>12 DEF TextRecord
<1> QED BY <1>13, <1>14, <1>15, <1>16

LEMMA StringIs ==
    ASSUME NEW S, NEW mem \in Seq(S), NEW addr \in Nat, addr + RecordSize <= Len(mem),
           NEW text, Held(text, S)
    PROVE  LET after == WriteString(mem, addr, text)
           IN  /\ after \in Seq(S) /\ Len(mem) = Len(after)
               /\ ReadString(after, addr) = text
               /\ \A i \in 1..Len(mem) :
                     i \notin (addr + 1)..(addr + RecordSize) => after[i] = mem[i]
<1>1. text \in Seq(Chars) /\ 1 <= Len(text) /\ Len(text) <= RecordSize - 3
    BY DEF Held
<1>2. PICK r : r = TextRecord(text, Zeros(RecordSize))
    OBVIOUS
<1>0. r \in Seq(S)
    BY <1>2, RecordIs
<1>3. r \in Seq(S) /\ RecordSize = Len(r)
    BY <1>2, RecordIs
<1>4. r[Len(text) + 1] = 0 /\ \A i \in 1..Len(text) : r[i] = text[i]
    BY <1>2, RecordIs
<1>5. PICK after : after = WriteBytes(mem, addr, r)
    OBVIOUS
<1>6. after \in Seq(S) /\ Len(mem) = Len(after)
    BY <1>3, <1>5, WriteBytesIs
<1>7. \A i \in 1..Len(mem) : after[i] = IF i - addr \in 1..RecordSize THEN r[i - addr] ELSE mem[i]
    <2>1. \A i \in 1..Len(mem) : after[i] = IF i - addr \in 1..Len(r) THEN r[i - addr] ELSE mem[i]
        BY <1>0, <1>5 DEF WriteBytes
    <2> QED BY <1>3, <2>1, Zenon
<1>8. PICK bytes : bytes = ReadBytes(after, addr, RecordSize)
    OBVIOUS
<1>9. bytes \in Seq(S) /\ RecordSize = Len(bytes)
    BY <1>6, <1>8, ReadBytesIs, Sizes
<1>10. \A i \in 1..RecordSize : bytes[i] = after[addr + i]
    BY <1>6, <1>8, ReadBytesIs, Sizes
<1>11. ASSUME NEW i \in 1..RecordSize PROVE bytes[i] = r[i]
    <2>1. addr + i \in 1..Len(mem) /\ (addr + i) - addr = i
        BY Sizes
    <2> QED BY <1>7, <1>10, <2>1
<1>12. bytes[Len(text) + 1] = 0
    <2>1. Len(text) + 1 \in 1..RecordSize
        BY <1>1, Sizes
    <2> QED BY <1>4, <1>11, <2>1
<1>13. ASSUME NEW i \in 1..Len(text) PROVE bytes[i] = text[i] /\ bytes[i] # 0
    <2>1. i \in 1..RecordSize /\ text[i] \in Chars
        BY <1>1, Sizes
    <2> QED BY <1>4, <1>11, <2>1, Sizes
<1>14. CString(bytes) = SubSeq(bytes, 1, Len(text))
    <2>1. Len(text) \in Nat /\ Len(text) < Len(bytes)
        BY <1>1, <1>9, Sizes
    <2> QED BY <1>9, <1>12, <1>13, <2>1, CStringIs
<1>15. SubSeq(bytes, 1, Len(text)) = text
    BY <1>1, <1>9, <1>13, Sizes
<1>16. WriteString(mem, addr, text) = after /\ ReadString(after, addr) = text
    <2>1. Len(text) \in 1..(RecordSize - 3)
        BY <1>1, Sizes
    <2> QED BY <1>2, <1>5, <1>8, <1>14, <1>15, <2>1 DEF WriteString, ReadString
<1>17. ASSUME NEW i \in 1..Len(mem), i \notin (addr + 1)..(addr + RecordSize)
       PROVE  after[i] = mem[i]
    <2>1. i - addr \notin 1..RecordSize
        BY <1>17, Sizes
    <2> QED BY <1>7, <2>1
<1> QED BY <1>6, <1>16, <1>17

\* What is read from a record depends on its own bytes.
LEMMA OthersKept ==
    ASSUME NEW S, NEW mem \in Seq(S), NEW after \in Seq(S), NEW addr \in Nat,
           addr + RecordSize <= Len(mem), addr + RecordSize <= Len(after),
           \A i \in 1..RecordSize : mem[addr + i] = after[addr + i]
    PROVE  ReadString(after, addr) = ReadString(mem, addr)
<1>1. PICK x : x = ReadBytes(mem, addr, RecordSize)
    OBVIOUS
<1>2. PICK y : y = ReadBytes(after, addr, RecordSize)
    OBVIOUS
<1>3. x \in Seq(S) /\ RecordSize = Len(x) /\ \A i \in 1..RecordSize : x[i] = mem[addr + i]
    BY <1>1, ReadBytesIs, Sizes, ZenonT(60)
<1>4. y \in Seq(S) /\ RecordSize = Len(y) /\ \A i \in 1..RecordSize : y[i] = after[addr + i]
    BY <1>2, ReadBytesIs, Sizes, ZenonT(60)
<1>5. \A i \in 1..RecordSize : x[i] = y[i]
    BY <1>3, <1>4
<1>6. x = y
    BY <1>3, <1>4, <1>5, SeqEqual
<1> QED BY <1>1, <1>2, <1>6 DEF ReadString

ByteSet == {n \in Nat : n <= 255}

LEMMA NumberIs ==
    ASSUME NEW S, NEW mem \in Seq(S), NEW addr \in Nat, addr + RecordSize <= Len(mem),
           NEW n \in Nat, n < 65536, ByteSet \subseteq S
    PROVE  LET after == WriteNumber(mem, addr, n)
           IN  /\ after \in Seq(S) /\ Len(mem) = Len(after)
               /\ ReadNumber(after, addr) = n
               /\ \A i \in 1..Len(mem) :
                     i \notin (addr + 1)..(addr + RecordSize) => after[i] = mem[i]
<1>1. PICK high, low : high = n \div 256 /\ low = n % 256
    OBVIOUS
<1>2. high \in S /\ low \in S /\ 256 * high + low = n
    <2>1. high \in Nat /\ high <= 255 /\ low \in Nat /\ low <= 255 /\ 256 * high + low = n
        BY <1>1
    <2>2. high \in ByteSet /\ low \in ByteSet
        BY <2>1 DEF ByteSet
    <2> QED BY <2>1, <2>2
<1> DEFINE b == <<high, low>>
<1>0. b \in Seq(S)
    BY <1>2
<1>4. b \in Seq(S) /\ Len(b) <= 2 /\ 2 <= Len(b) /\ b[1] = high /\ b[2] = low
    BY <1>2
<1>3. WriteNumber(mem, addr, n) = WriteBytes(mem, addr, b)
    BY <1>1 DEF WriteNumber
<1> HIDE DEF b
<1>5. PICK after : after = WriteBytes(mem, addr, b)
    OBVIOUS
<1>6. after \in Seq(S) /\ Len(mem) = Len(after)
    BY <1>0, <1>5, WriteBytesIs
<1>7. \A i \in 1..Len(mem) : after[i] = IF i - addr \in 1..Len(b) THEN b[i - addr] ELSE mem[i]
    BY <1>0, <1>5 DEF WriteBytes
<1>8. after[addr + 1] = high
    <2>1. addr + 1 \in 1..Len(mem) /\ (addr + 1) - addr = 1 /\ 1 \in 1..Len(b)
        BY <1>4, Sizes
    <2> QED BY <1>4, <1>7, <2>1
<1>9. after[addr + 2] = low
    <2>1. addr + 2 \in 1..Len(mem) /\ (addr + 2) - addr = 2 /\ 2 \in 1..Len(b)
        BY <1>4, Sizes
    <2> QED BY <1>4, <1>7, <2>1
<1>10. ASSUME NEW i \in 1..Len(mem), i \notin (addr + 1)..(addr + RecordSize)
       PROVE  after[i] = mem[i]
    <2>1. i - addr \notin 1..Len(b)
        BY <1>4, <1>10, Sizes
    <2> QED BY <1>7, <2>1
<1>11. WriteNumber(mem, addr, n) = after
    BY <1>3, <1>5
<1>12. ReadNumber(after, addr) = n
    BY <1>2, <1>8, <1>9 DEF ReadNumber
<1> QED BY <1>6, <1>10, <1>11, <1>12

RecordPlaces == {0, 64, 128, 192}

\* Two different records, or twice the same.
LEMMA Apart ==
    ASSUME NEW a \in RecordPlaces, NEW b \in RecordPlaces
    PROVE  /\ a \in Nat /\ a + RecordSize <= 256
           /\ a # b => \A i \in 1..RecordSize : a + i \notin (b + 1)..(b + RecordSize)
<1>1. a # b => a + 64 <= b \/ b + 64 <= a
    BY DEF RecordPlaces
<1> QED BY <1>1 DEF RecordSize, RecordPlaces

LEMMA KeptApart ==
    ASSUME NEW S, NEW mem \in Seq(S), NEW after \in Seq(S), 256 <= Len(mem), Len(mem) = Len(after),
           NEW a \in RecordPlaces, NEW b \in RecordPlaces, a # b,
           \A i \in 1..Len(mem) : i \notin (b + 1)..(b + RecordSize) => after[i] = mem[i]
    PROVE  ReadString(after, a) = ReadString(mem, a)
<1>1. /\ a \in Nat /\ a + RecordSize <= Len(mem) /\ a + RecordSize <= Len(after)
      /\ \A i \in 1..RecordSize : a + i \notin (b + 1)..(b + RecordSize)
    BY Apart, Sizes
<1>2. ASSUME NEW i \in 1..RecordSize PROVE mem[a + i] = after[a + i]
    <2>1. a + i \in 1..Len(mem)
        BY <1>1, Sizes
    <2>2. a + i \notin (b + 1)..(b + RecordSize)
        BY <1>1
    <2> QED BY <2>1, <2>2
<1> QED BY <1>1, <1>2, OthersKept

\* What TextsKept says of one input.
LEMMA RecordsHold ==
    ASSUME NEW at \in RecordPlaces, NEW other \in RecordPlaces,
           NEW text \in Seq(Chars), NEW was \in Seq(Chars),
           1 <= Len(was), Len(was) <= RecordSize - 3
    PROVE  LET old   == WriteString(Zeros(LogEnd), at, was)
               new   == WriteString(old, at, text)
               after == WriteString(new, other, was)
               num   == WriteNumber(new, other, 1883)
               kept  == IF Len(text) \in 1..(RecordSize - 3) THEN text ELSE was
           IN  /\ ReadString(new, at) = kept
               /\ ReadString(after, at) = IF other = at THEN was ELSE kept
               /\ ReadNumber(num, other) = 1883
               /\ other # at => ReadString(num, at) = kept
<1>1. PICK S : /\ ByteSet \subseteq S
               /\ \A t \in {text, was} : RecordCrc(t) \div 256 \in S /\ RecordCrc(t) % 256 \in S
    <2> DEFINE U == ByteSet \cup {RecordCrc(text) \div 256, RecordCrc(text) % 256,
                                 RecordCrc(was) \div 256, RecordCrc(was) % 256}
    <2>1. /\ ByteSet \subseteq U
          /\ \A t \in {text, was} : RecordCrc(t) \div 256 \in U /\ RecordCrc(t) % 256 \in U
        BY ZenonT(90)
    <2> HIDE DEF U
    <2> QED BY <2>1, Zenon
<1>2. 0 \in S /\ Chars \subseteq S
    <2>1. 0 \in ByteSet
        BY DEF ByteSet
    <2>2. Chars \subseteq ByteSet
        BY DEF ByteSet, Chars
    <2> QED BY <1>1, <2>1, <2>2
<1>3. Held(was, S)
    BY <1>1, <1>2, Zenon DEF Held
<1>4. PICK zero : zero = Zeros(LogEnd)
    OBVIOUS
<1>5. zero \in Seq(S) /\ 256 <= Len(zero)
    BY <1>2, <1>4 DEF Zeros, LogEnd
<1>6. at \in Nat /\ at + RecordSize <= 256 /\ other \in Nat /\ other + RecordSize <= 256
    BY Apart
<1>7. PICK old : old = WriteString(zero, at, was)
    OBVIOUS
<1>8. old \in Seq(S) /\ 256 <= Len(old) /\ ReadString(old, at) = was
    <2>1. at + RecordSize <= Len(zero)
        BY <1>5, <1>6, Sizes
    <2> QED BY <1>3, <1>5, <1>6, <1>7, <2>1, StringIs
<1>9. PICK new : new = WriteString(old, at, text)
    OBVIOUS
<1>10. PICK kept : kept = IF Len(text) \in 1..(RecordSize - 3) THEN text ELSE was
    OBVIOUS
<1>11. new \in Seq(S) /\ 256 <= Len(new) /\ ReadString(new, at) = kept
    <2>1. CASE Len(text) \in 1..(RecordSize - 3)
        <3>1. 1 <= Len(text) /\ Len(text) <= RecordSize - 3
            BY <2>1, Sizes
        <3>2. Held(text, S)
            BY <1>1, <1>2, <3>1, Zenon DEF Held
        <3>3. at + RecordSize <= Len(old)
            BY <1>6, <1>8, Sizes
        <3> QED BY <1>6, <1>8, <1>9, <1>10, <2>1, <3>2, <3>3, StringIs
    <2>2. CASE Len(text) \notin 1..(RecordSize - 3)
        <3>1. new = old
            BY <1>9, <2>2 DEF WriteString
        <3> QED BY <1>8, <1>10, <2>2, <3>1
    <2> QED BY <2>1, <2>2
<1>12. at + RecordSize <= Len(new) /\ other + RecordSize <= Len(new)
    BY <1>6, <1>11, Sizes
<1>13. PICK after : after = WriteString(new, other, was)
    OBVIOUS
<1>14. /\ after \in Seq(S) /\ Len(new) = Len(after) /\ ReadString(after, other) = was
       /\ \A i \in 1..Len(new) : i \notin (other + 1)..(other + RecordSize) => after[i] = new[i]
    BY <1>3, <1>6, <1>11, <1>12, <1>13, StringIs
<1>15. other # at => ReadString(after, at) = kept
    <2>1. new \in Seq(S) /\ 256 <= Len(new) /\ ReadString(new, at) = kept
        BY <1>11
    <2> QED BY <1>14, <2>1, KeptApart
<1>16. PICK num : num = WriteNumber(new, other, 1883)
    OBVIOUS
<1>17. /\ num \in Seq(S) /\ Len(new) = Len(num) /\ ReadNumber(num, other) = 1883
       /\ \A i \in 1..Len(new) : i \notin (other + 1)..(other + RecordSize) => num[i] = new[i]
    <2>1. ByteSet \subseteq S /\ other \in Nat /\ new \in Seq(S)
        BY <1>1, <1>6, <1>11
    <2>2. 1883 \in Nat /\ 1883 < 65536
        OBVIOUS
    <2>3. PICK k \in Nat : k = 1883 /\ k < 65536
        BY <2>2
    <2> QED BY <1>12, <1>16, <2>1, <2>3, NumberIs
<1>18. other # at => ReadString(num, at) = kept
    <2>1. new \in Seq(S) /\ 256 <= Len(new) /\ ReadString(new, at) = kept
        BY <1>11
    <2> QED BY <1>17, <2>1, KeptApart
<1> QED BY <1>4, <1>7, <1>9, <1>10, <1>11, <1>13, <1>14, <1>15, <1>16, <1>17, <1>18

\* Whatever text is written to whichever record over whichever other one: it
\* is read back as it was when it has 1 to 61 bytes and else changes nothing;
\* a text or a number written to another record leaves it alone.
THEOREM TextsReadBack ==
    ASSUME input.kind = "record" =>
               /\ input.at \in {0, 64, 128, 192} /\ input.other \in {0, 64, 128, 192}
               /\ input.text \in Seq(1..255) /\ input.was \in Seq(1..255)
               /\ Len(input.was) \in 1..(RecordSize - 3)
    PROVE  TextsKept
<1> SUFFICES ASSUME input.kind = "record" PROVE TextsKept
    BY DEF TextsKept
<1>1. PICK at, other, text, was : /\ at = input.at /\ other = input.other
                                  /\ text = input.text /\ was = input.was
    OBVIOUS
<1>2. /\ at \in RecordPlaces /\ other \in RecordPlaces /\ text \in Seq(Chars) /\ was \in Seq(Chars)
    BY <1>1 DEF Chars, RecordPlaces
<1>3. 1 <= Len(was) /\ Len(was) <= RecordSize - 3
    BY <1>1, <1>2, Sizes
<1> QED BY <1>1, <1>2, <1>3, RecordsHold DEF TextsKept

-----------------------------------------------------------------------------
(* MQTT's packets. *)

LEMMA DigitCountIs ==
    ASSUME NEW n \in Nat
    PROVE  /\ n < 128 => Mqtt!DigitCount(n) = 1
           /\ 128 <= n /\ n < 16384 => Mqtt!DigitCount(n) = 2
           /\ 16384 <= n /\ n < 2097152 => Mqtt!DigitCount(n) = 3
           /\ 2097152 <= n /\ n < 268435456 => Mqtt!DigitCount(n) = 4
<1> DEFINE counts == {k \in 1..5 : k = 5 \/ n < Mqtt!Weights[k + 1]}
<1>1. /\ Mqtt!Weights[2] = 128 /\ Mqtt!Weights[3] = 16384
      /\ Mqtt!Weights[4] = 2097152 /\ Mqtt!Weights[5] = 268435456
    BY DEF Mqtt!Weights
<1>2. counts = {k \in 1..5 : (k = 1 /\ n < 128) \/ (k = 2 /\ n < 16384) \/ (k = 3 /\ n < 2097152)
                             \/ (k = 4 /\ n < 268435456) \/ k = 5}
    BY <1>1
<1>3. counts \in SUBSET Int
    OBVIOUS
<1>4. Mqtt!DigitCount(n) = Min(counts)
    BY DEF Mqtt!DigitCount, Mqtt!Min, Min
<1> HIDE DEF counts
<1>5. n < 128 => 1 \in counts /\ \A x \in counts : 1 <= x
    BY <1>2
<1>6. 128 <= n /\ n < 16384 => 2 \in counts /\ \A x \in counts : 2 <= x
    BY <1>2
<1>7. 16384 <= n /\ n < 2097152 => 3 \in counts /\ \A x \in counts : 3 <= x
    BY <1>2
<1>8. 2097152 <= n /\ n < 268435456 => 4 \in counts /\ \A x \in counts : 4 <= x
    BY <1>2
<1> QED BY <1>3, <1>4, <1>5, <1>6, <1>7, <1>8, MinIs

\* The digits of a length in base 128.
LEMMA DigitsAddUp ==
    ASSUME NEW n \in Nat, n < 268435456
    PROVE  /\ (n % 128) + 128 * ((n \div 128) % 128) + 16384 * ((n \div 16384) % 128)
                  + 2097152 * ((n \div 2097152) % 128) = n
           /\ n < 128 => n % 128 = n
           /\ n < 16384 => (n % 128) + 128 * ((n \div 128) % 128) = n
           /\ n < 2097152 => (n % 128) + 128 * ((n \div 128) % 128)
                                 + 16384 * ((n \div 16384) % 128) = n
<1>1. PICK a, q1 \in Nat : a = n % 128 /\ q1 = n \div 128 /\ n = 128 * q1 + a /\ a <= 127
    <2>1. n % 128 \in Nat /\ n \div 128 \in Nat /\ n = 128 * (n \div 128) + (n % 128) /\ n % 128 <= 127
        BY SMT
    <2> QED BY <2>1, SMT
<1>2. PICK b, q2 \in Nat : b = q1 % 128 /\ q2 = q1 \div 128 /\ q1 = 128 * q2 + b /\ b <= 127
    <2>1. /\ q1 % 128 \in Nat /\ q1 \div 128 \in Nat /\ q1 = 128 * (q1 \div 128) + (q1 % 128)
          /\ q1 % 128 <= 127
        BY SMT
    <2> QED BY <2>1, SMT
<1>3. PICK c, q3 \in Nat : c = q2 % 128 /\ q3 = q2 \div 128 /\ q2 = 128 * q3 + c /\ c <= 127
    <2>1. /\ q2 % 128 \in Nat /\ q2 \div 128 \in Nat /\ q2 = 128 * (q2 \div 128) + (q2 % 128)
          /\ q2 % 128 <= 127
        BY SMT
    <2> QED BY <2>1, SMT
<1>4. q2 = n \div 16384
    <2>1. n = 16384 * q2 + (128 * b + a) /\ 128 * b + a < 16384
        BY <1>1, <1>2, SMT
    <2> QED BY <2>1, <1>1, <1>2, SMT
<1>5. q3 = n \div 2097152
    <2>1. PICK r \in Nat : r = 16384 * c + 128 * b + a
        BY <1>1, <1>2, <1>3, SMT
    <2>2. n = 2097152 * q3 + r /\ r < 2097152
        BY <1>1, <1>2, <1>3, <2>1, SMT
    <2> QED BY <1>3, <2>2, SMT
<1>6. q3 <= 127 /\ q3 % 128 = q3
    BY <1>1, <1>2, <1>3, SMT
<1>7. a + 128 * b + 16384 * c + 2097152 * q3 = n
    BY <1>1, <1>2, <1>3, SMT
<1>8. (n < 2097152 => q3 = 0) /\ (n < 16384 => q2 = 0) /\ (n < 128 => q1 = 0)
    BY <1>1, <1>2, <1>3, SMT
<1>9. n < 2097152 => a + 128 * b + 16384 * c = n
    BY <1>7, <1>8, SMT
<1>10. n < 16384 => a + 128 * b = n
    BY <1>1, <1>2, <1>8, SMT
<1>11. n < 128 => a = n
    BY <1>1, <1>8, SMT
<1> QED BY <1>1, <1>2, <1>3, <1>4, <1>5, <1>6, <1>7, <1>9, <1>10, <1>11, SMT

LEMMA EncodedIs ==
    ASSUME NEW n \in Nat
    PROVE  /\ n < 128 => Mqtt!EncodedLength(n) = <<n % 128>>
           /\ 128 <= n /\ n < 16384 =>
                Mqtt!EncodedLength(n) = <<(n % 128) + 128, (n \div 128) % 128>>
           /\ 16384 <= n /\ n < 2097152 =>
                Mqtt!EncodedLength(n) = <<(n % 128) + 128, ((n \div 128) % 128) + 128,
                                          (n \div 16384) % 128>>
           /\ 2097152 <= n /\ n < 268435456 =>
                Mqtt!EncodedLength(n) = <<(n % 128) + 128, ((n \div 128) % 128) + 128,
                                          ((n \div 16384) % 128) + 128, (n \div 2097152) % 128>>
<1>1. /\ Mqtt!Weights[1] = 1 /\ Mqtt!Weights[2] = 128 /\ Mqtt!Weights[3] = 16384
      /\ Mqtt!Weights[4] = 2097152 /\ n \div 1 = n
    BY DEF Mqtt!Weights
<1>2. n < 128 => Mqtt!EncodedLength(n) = <<n % 128>>
    BY <1>1, DigitCountIs, SMT DEF Mqtt!EncodedLength
<1>3. 128 <= n /\ n < 16384 =>
          Mqtt!EncodedLength(n) = <<(n % 128) + 128, (n \div 128) % 128>>
    BY <1>1, DigitCountIs, SMT DEF Mqtt!EncodedLength
<1>4. 16384 <= n /\ n < 2097152 =>
          Mqtt!EncodedLength(n) = <<(n % 128) + 128, ((n \div 128) % 128) + 128,
                                    (n \div 16384) % 128>>
    BY <1>1, DigitCountIs, SMT DEF Mqtt!EncodedLength
<1>5. 2097152 <= n /\ n < 268435456 =>
          Mqtt!EncodedLength(n) = <<(n % 128) + 128, ((n \div 128) % 128) + 128,
                                    ((n \div 16384) % 128) + 128, (n \div 2097152) % 128>>
    BY <1>1, DigitCountIs, SMT DEF Mqtt!EncodedLength
<1> QED BY <1>2, <1>3, <1>4, <1>5, SMT

LengthLimit == 268435456

\* The bytes of a length: k of them, all but the last marked, each with its
\* digit.
Coded(c, n, k) ==
    /\ c \in Seq(ByteSet) /\ k = Len(c) /\ k \in {1, 2, 3, 4}
    /\ \A i \in 1..k : c[i] < 128 <=> i = k
    /\ (c[1] % 128) + (IF k > 1 THEN 128 * (c[2] % 128) ELSE 0)
          + (IF k > 2 THEN 16384 * (c[3] % 128) ELSE 0)
          + (IF k > 3 THEN 2097152 * (c[4] % 128) ELSE 0) = n

LEMMA CodedIs ==
    ASSUME NEW n \in Nat, n < LengthLimit
    PROVE  LET c == Mqtt!EncodedLength(n)
           IN  /\ n < 128 => Coded(c, n, 1)
               /\ 128 <= n /\ n < 16384 => Coded(c, n, 2)
               /\ 16384 <= n /\ n < 2097152 => Coded(c, n, 3)
               /\ 2097152 <= n => Coded(c, n, 4)
<1>1. PICK d1, d2, d3, d4 : /\ d1 = n % 128 /\ d2 = (n \div 128) % 128
                            /\ d3 = (n \div 16384) % 128 /\ d4 = (n \div 2097152) % 128
    BY SMT
<1>2. /\ d1 \in Nat /\ d1 <= 127 /\ d2 \in Nat /\ d2 <= 127
      /\ d3 \in Nat /\ d3 <= 127 /\ d4 \in Nat /\ d4 <= 127
    BY <1>1, SMT
<1>3. /\ d1 \in ByteSet /\ d2 \in ByteSet /\ d3 \in ByteSet /\ d4 \in ByteSet
      /\ d1 + 128 \in ByteSet /\ d2 + 128 \in ByteSet /\ d3 + 128 \in ByteSet
      /\ (d1 + 128) % 128 = d1 /\ (d2 + 128) % 128 = d2 /\ (d3 + 128) % 128 = d3
      /\ d1 % 128 = d1 /\ d2 % 128 = d2 /\ d3 % 128 = d3 /\ d4 % 128 = d4
    BY <1>2, SMT DEF ByteSet
<1>4. n < LengthLimit => d1 + 128 * d2 + 16384 * d3 + 2097152 * d4 = n
    BY <1>1, DigitsAddUp, SMT DEF LengthLimit
<1> DEFINE c == Mqtt!EncodedLength(n)
<1>5. n < 128 => Coded(c, n, 1)
    <2> SUFFICES ASSUME n < 128 PROVE Coded(c, n, 1)
        OBVIOUS
    <2>1. PICK x : x = c /\ x = <<d1>>
        BY <1>1, EncodedIs, SMT
    <2>2. d1 = n
        BY <1>1, DigitsAddUp, SMT
    <2>3. x \in Seq(ByteSet) /\ Len(x) = 1 /\ x[1] = d1
        BY <1>3, <2>1, SMT
    <2> QED BY <1>2, <1>3, <2>1, <2>2, <2>3, SMT DEF Coded
<1>6. 128 <= n /\ n < 16384 => Coded(c, n, 2)
    <2> SUFFICES ASSUME 128 <= n, n < 16384 PROVE Coded(c, n, 2)
        OBVIOUS
    <2>1. PICK x : x = c /\ x = <<d1 + 128, d2>>
        BY <1>1, EncodedIs, SMT
    <2>2. d1 + 128 * d2 = n
        BY <1>1, DigitsAddUp, SMT
    <2>3. x \in Seq(ByteSet) /\ Len(x) = 2 /\ x[1] = d1 + 128 /\ x[2] = d2
        BY <1>3, <2>1, SMT
    <2> QED BY <1>2, <1>3, <2>1, <2>2, <2>3, SMT DEF Coded
<1>7. 16384 <= n /\ n < 2097152 => Coded(c, n, 3)
    <2> SUFFICES ASSUME 16384 <= n, n < 2097152 PROVE Coded(c, n, 3)
        OBVIOUS
    <2>1. PICK x : x = c /\ x = <<d1 + 128, d2 + 128, d3>>
        BY <1>1, EncodedIs, SMT
    <2>2. d1 + 128 * d2 + 16384 * d3 = n
        BY <1>1, DigitsAddUp, SMT
    <2>3. x \in Seq(ByteSet) /\ Len(x) = 3 /\ x[1] = d1 + 128 /\ x[2] = d2 + 128 /\ x[3] = d3
        BY <1>3, <2>1, SMT
    <2> QED BY <1>2, <1>3, <2>1, <2>2, <2>3, SMT DEF Coded
<1>8. 2097152 <= n => Coded(c, n, 4)
    <2> SUFFICES ASSUME 2097152 <= n PROVE Coded(c, n, 4)
        OBVIOUS
    <2>1. PICK x : x = c /\ x = <<d1 + 128, d2 + 128, d3 + 128, d4>>
        BY <1>1, EncodedIs, SMT DEF LengthLimit
    <2>2. d1 + 128 * d2 + 16384 * d3 + 2097152 * d4 = n
        BY <1>4, SMT
    <2>3. /\ x \in Seq(ByteSet) /\ Len(x) = 4
          /\ x[1] = d1 + 128 /\ x[2] = d2 + 128 /\ x[3] = d3 + 128 /\ x[4] = d4
        BY <1>3, <2>1, SMT
    <2> QED BY <1>2, <1>3, <2>1, <2>2, <2>3, SMT DEF Coded
<1> QED BY <1>5, <1>6, <1>7, <1>8

\* Bytes that begin with those of a length.
Begins(s, c) == s \in Seq(ByteSet) /\ Len(c) <= Len(s) /\ \A i \in 1..Len(c) : s[i] = c[i]

LEMMA DecodedIs ==
    ASSUME NEW n \in Nat, NEW k, NEW c, Coded(c, n, k), NEW s, Begins(s, c)
    PROVE  Mqtt!LengthBytes(s) = k /\ Mqtt!DecodedLength(s) = n
<1>1. /\ k \in {1, 2, 3, 4} /\ s \in Seq(ByteSet) /\ k <= Len(s)
      /\ \A i \in 1..k : s[i] = c[i] /\ s[i] \in ByteSet /\ (s[i] < 128 <=> i = k)
    BY DEF Coded, Begins
<1>2. Mqtt!LengthBytes(s) = k
    <2> DEFINE ends == {i \in DOMAIN s : i <= Mqtt!MaxLengthBytes /\ s[i] < 128}
    <2>1. k \in ends /\ ends \in SUBSET Int
        BY <1>1 DEF Mqtt!MaxLengthBytes
    <2>2. \A x \in ends : k <= x
        <3>1. ASSUME NEW x \in ends, x < k PROVE FALSE
            <4>1. x \in 1..k /\ s[x] < 128
                BY <1>1, <3>1
            <4> QED BY <1>1, <3>1, <4>1
        <3> QED BY <1>1, <2>1, <3>1
    <2>3. Mqtt!LengthBytes(s) = IF ends = {} THEN Mqtt!MaxLengthBytes + 1 ELSE Min(ends)
        BY DEF Mqtt!LengthBytes, Mqtt!Min, Min
    <2> HIDE DEF ends
    <2> QED BY <2>1, <2>2, <2>3, MinIs
<1>3. /\ Mqtt!Weights[1] = 1 /\ Mqtt!Weights[2] = 128 /\ Mqtt!Weights[3] = 16384
      /\ Mqtt!Weights[4] = 2097152
    BY DEF Mqtt!Weights
<1>4. PICK e1, e2, e3, e4 : /\ e1 = c[1] % 128 /\ e2 = c[2] % 128
                            /\ e3 = c[3] % 128 /\ e4 = c[4] % 128
    OBVIOUS
<1>5. e1 + (IF k > 1 THEN 128 * e2 ELSE 0) + (IF k > 2 THEN 16384 * e3 ELSE 0)
          + (IF k > 3 THEN 2097152 * e4 ELSE 0) = n
    BY <1>4, SMT DEF Coded
<1>6. \A i \in 1..k : c[i] \in Int
    BY <1>1 DEF ByteSet
<1>7. /\ e1 \in Nat /\ (k > 1 => e2 \in Nat) /\ (k > 2 => e3 \in Nat) /\ (k > 3 => e4 \in Nat)
    <2>1. ASSUME NEW x \in Int PROVE x % 128 \in Nat
        BY <2>1, SMT
    <2>2. c[1] \in Int /\ (k > 1 => c[2] \in Int) /\ (k > 2 => c[3] \in Int) /\ (k > 3 => c[4] \in Int)
        BY <1>1, <1>6
    <2> QED BY <1>4, <2>1, <2>2
<1>8. /\ Mqtt!DigitAt(s, 1) = e1
      /\ Mqtt!DigitAt(s, 2) = IF k > 1 THEN 128 * e2 ELSE 0
      /\ Mqtt!DigitAt(s, 3) = IF k > 2 THEN 16384 * e3 ELSE 0
      /\ Mqtt!DigitAt(s, 4) = IF k > 3 THEN 2097152 * e4 ELSE 0
    <2>1. Mqtt!DigitAt(s, 1) = e1
        BY <1>1, <1>2, <1>3, <1>4, <1>7, SMT DEF Mqtt!DigitAt
    <2>2. Mqtt!DigitAt(s, 2) = IF k > 1 THEN 128 * e2 ELSE 0
        BY <1>1, <1>2, <1>3, <1>4, <1>7, SMT DEF Mqtt!DigitAt
    <2>3. Mqtt!DigitAt(s, 3) = IF k > 2 THEN 16384 * e3 ELSE 0
        BY <1>1, <1>2, <1>3, <1>4, <1>7, SMT DEF Mqtt!DigitAt
    <2>4. Mqtt!DigitAt(s, 4) = IF k > 3 THEN 2097152 * e4 ELSE 0
        BY <1>1, <1>2, <1>3, <1>4, <1>7, SMT DEF Mqtt!DigitAt
    <2> QED BY <2>1, <2>2, <2>3, <2>4
<1> QED BY <1>2, <1>5, <1>8, SMT DEF Mqtt!DecodedLength

LEMMA CodedSomehow ==
    ASSUME NEW n \in Nat, n < LengthLimit
    PROVE  /\ Coded(Mqtt!EncodedLength(n), n, Len(Mqtt!EncodedLength(n)))
           /\ Mqtt!EncodedLength(n) \in Seq(ByteSet)
           /\ Len(Mqtt!EncodedLength(n)) \in Nat
           /\ 1 <= Len(Mqtt!EncodedLength(n)) /\ Len(Mqtt!EncodedLength(n)) <= 4
           /\ LET rest == 1 + Len(Mqtt!EncodedLength(n)) + n
              IN  Mqtt!PacketLength(n) \in {rest, rest + 1}
<1>1. PICK c : c = Mqtt!EncodedLength(n)
    OBVIOUS
<1>2. ASSUME NEW k, Coded(c, n, k)
      PROVE  /\ Coded(c, n, Len(c)) /\ c \in Seq(ByteSet) /\ k = Len(c)
             /\ Len(c) \in Nat /\ 1 <= Len(c) /\ Len(c) <= 4
    <2>1. c \in Seq(ByteSet) /\ k = Len(c) /\ k \in {1, 2, 3, 4}
        BY <1>2 DEF Coded
    <2>2. Coded(c, n, Len(c))
        BY <1>2, <2>1
    <2>3. k \in Nat /\ 1 <= k /\ k <= 4
        BY <2>1
    <2> QED BY <2>1, <2>2, <2>3
<1>3. PICK k : /\ Coded(c, n, k) /\ (n < 128 => k = 1) /\ (128 <= n /\ n < 16384 => k = 2)
               /\ (16384 <= n /\ n < 2097152 => k = 3) /\ (2097152 <= n => k = 4)
    <2>1. CASE n < 128
        BY <1>1, <2>1, CodedIs
    <2>2. CASE 128 <= n /\ n < 16384
        BY <1>1, <2>2, CodedIs
    <2>3. CASE 16384 <= n /\ n < 2097152
        BY <1>1, <2>3, CodedIs
    <2>4. CASE 2097152 <= n
        BY <1>1, <2>4, CodedIs
    <2> QED BY <2>1, <2>2, <2>3, <2>4, SMT
<1>4. PICK len : len = Mqtt!PacketLength(n)
    OBVIOUS
<1>5. len = n + 1 + k \/ len = n + 1 + k + 1
    <2>1. len = n + 1 + (IF n + 1 < 128 THEN 1 ELSE IF n + 1 < 16384 THEN 2
                         ELSE IF n + 1 < 2097151 THEN 3 ELSE 4)
        BY <1>4, SMT DEF Mqtt!PacketLength
    <2> QED BY <1>3, <2>1, SMT
<1>6. k = Len(c) /\ Len(c) \in Nat
    BY <1>2, <1>3
<1>7. len \in {1 + Len(c) + n, 1 + Len(c) + n + 1}
    BY <1>5, <1>6
<1> QED BY <1>1, <1>2, <1>3, <1>4, <1>7

LEMMA Same ==
    ASSUME NEW S, NEW s \in Seq(S), NEW t \in Seq(S), Len(s) = Len(t),
           \A i \in 1..Len(s) : s[i] = t[i]
    PROVE  s = t
OBVIOUS

LEMMA Regrouped ==
    ASSUME NEW S, NEW a \in Seq(S), NEW b \in Seq(S), NEW c \in Seq(S)
    PROVE  a \o (b \o c) = a \o b \o c
OBVIOUS

LEMMA LastPart ==
    ASSUME NEW S, NEW a \in Seq(S), NEW b \in Seq(S)
    PROVE  /\ SubSeq(a \o b, Len(a) + 1, Len(a) + Len(b)) = b
           /\ SubSeq(a \o b, 1, Len(a)) = a
<1>1. PICK s : s = a \o b
    OBVIOUS
<1>2. /\ s \in Seq(S) /\ Len(a) + Len(b) = Len(s)
      /\ \A i \in 1..Len(a) : s[i] = a[i]
      /\ \A i \in 1..Len(b) : s[Len(a) + i] = b[i]
    BY <1>1, TwoParts
<1>3. SubSeq(s, Len(a) + 1, Len(a) + Len(b)) = b
    <2>1. PICK m \in Nat : m = Len(a) + Len(b)
        OBVIOUS
    <2>2. PICK t : t = SubSeq(s, Len(a) + 1, m)
        OBVIOUS
    <2>3. /\ t \in Seq(S) /\ m - Len(a) = Len(t)
          /\ \A i \in 1..(m - Len(a)) : t[i] = s[Len(a) + i]
        BY <1>2, <2>1, <2>2, Part
    <2>4. Len(t) = Len(b) /\ \A i \in 1..Len(t) : t[i] = b[i]
        BY <1>2, <2>1, <2>3
    <2> QED BY <2>1, <2>2, <2>3, <2>4, Same
<1>4. SubSeq(s, 1, Len(a)) = a
    <2>1. PICK t : t = SubSeq(s, 0 + 1, Len(a))
        OBVIOUS
    <2>2. /\ t \in Seq(S) /\ Len(a) - 0 = Len(t)
          /\ \A i \in 1..(Len(a) - 0) : t[i] = s[0 + i]
        BY <1>2, <2>1, Part
    <2>3. Len(t) = Len(a) /\ \A i \in 1..Len(t) : t[i] = a[i]
        BY <1>2, <2>2
    <2> QED BY <2>1, <2>2, <2>3, Same
<1> QED BY <1>1, <1>3, <1>4

LEMMA Middle ==
    ASSUME NEW S, NEW a \in Seq(S), NEW b \in Seq(S), NEW c \in Seq(S)
    PROVE  SubSeq(a \o b \o c, Len(a) + 1, Len(a) + Len(b)) = b
<1>1. PICK s : s = a \o b \o c
    OBVIOUS
<1>2. /\ s \in Seq(S) /\ Len(a) + Len(b) + Len(c) = Len(s)
      /\ \A i \in 1..Len(b) : s[Len(a) + i] = b[i]
    BY <1>1, ThreeParts
<1>3. PICK m \in Nat : m = Len(a) + Len(b)
    OBVIOUS
<1>4. PICK t : t = SubSeq(s, Len(a) + 1, m)
    OBVIOUS
<1>5. /\ t \in Seq(S) /\ m - Len(a) = Len(t)
      /\ \A i \in 1..(m - Len(a)) : t[i] = s[Len(a) + i]
    BY <1>2, <1>3, <1>4, Part, SMTT(60)
<1>6. Len(t) = Len(b) /\ \A i \in 1..Len(t) : t[i] = b[i]
    BY <1>2, <1>3, <1>5, SMTT(60)
<1> QED BY <1>1, <1>3, <1>4, <1>5, <1>6, Same

LEMMA Headed ==
    ASSUME NEW S, NEW h \in S, NEW x \in Seq(S)
    PROVE  LET s == <<h>> \o x
           IN  /\ s \in Seq(S) /\ s[1] = h /\ s # <<>> /\ Len(x) + 1 = Len(s)
               /\ Tail(s) = x
<1>1. PICK s : s = <<h>> \o x
    OBVIOUS
<1>2. <<h>> \in Seq(S) /\ Len(<<h>>) = 1 /\ <<h>>[1] = h
    OBVIOUS
<1>3. /\ s \in Seq(S) /\ Len(x) + 1 = Len(s) /\ s[1] = h
      /\ \A i \in 1..Len(x) : s[1 + i] = x[i]
    BY <1>1, <1>2, TwoParts
<1>4. s # <<>>
    BY <1>3
<1>5. PICK t : t = Tail(s)
    OBVIOUS
<1>6. t \in Seq(S) /\ Len(t) = Len(x) /\ \A i \in 1..Len(t) : t[i] = x[i]
    BY <1>3, <1>4, <1>5
<1> QED BY <1>1, <1>3, <1>4, <1>5, <1>6, Same

\* A packet with its first byte and its body, and what a reader finds in one
\* that is followed by more bytes.
Packet(head, rest) == <<head>> \o Mqtt!EncodedLength(Len(rest)) \o rest

Packable(head, rest) == head \in ByteSet /\ rest \in Seq(ByteSet) /\ Len(rest) < LengthLimit

Parted(head, rest, more, c, p, s) ==
    /\ p \in Seq(ByteSet) /\ s \in Seq(ByteSet)
    /\ 1 + Len(c) + Len(rest) = Len(p)
    /\ s[1] = head
    /\ Mqtt!LengthBytes(Tail(s)) = Len(c) /\ Mqtt!DecodedLength(Tail(s)) = Len(rest)
    /\ SubSeq(s, Len(c) + 2, Len(c) + 1 + Len(rest)) = rest
    /\ SubSeq(s, Len(c) + 2 + Len(rest), Len(s)) = more

LEMMA PacketIs ==
    ASSUME NEW head, NEW rest, Packable(head, rest), NEW more \in Seq(ByteSet)
    PROVE  Parted(head, rest, more, Mqtt!EncodedLength(Len(rest)), Packet(head, rest),
                  Packet(head, rest) \o more)
<1>1. PICK c, n : c = Mqtt!EncodedLength(Len(rest)) /\ n = Len(rest)
    OBVIOUS
<1>2. head \in ByteSet /\ rest \in Seq(ByteSet) /\ n \in Nat /\ n < LengthLimit
    BY <1>1 DEF Packable
<1>3. c \in Seq(ByteSet) /\ Len(c) \in Nat /\ Coded(c, n, Len(c))
    BY <1>1, <1>2, CodedSomehow
<1>4. PICK begun : begun = <<head>> \o c
    OBVIOUS
<1>5. <<head>> \in Seq(ByteSet)
    BY <1>2
<1>6. begun \in Seq(ByteSet) /\ Len(c) + 1 = Len(begun)
    BY <1>2, <1>3, <1>4, Headed
<1>7. PICK p : p = begun \o rest
    OBVIOUS
<1>8. p = Packet(head, rest)
    BY <1>1, <1>4, <1>7 DEF Packet
<1>9. p \in Seq(ByteSet) /\ Len(begun) + Len(rest) = Len(p)
    BY <1>2, <1>6, <1>7, TwoParts
<1>10. PICK s : s = p \o more
    OBVIOUS
<1>11. s \in Seq(ByteSet) /\ Len(p) + Len(more) = Len(s)
    BY <1>9, <1>10, TwoParts
<1>12. SubSeq(s, Len(begun) + 1, Len(begun) + Len(rest)) = rest
    BY <1>2, <1>6, <1>7, <1>10, Middle
<1>13. SubSeq(s, Len(p) + 1, Len(p) + Len(more)) = more
    BY <1>9, <1>10, LastPart
<1>14. PICK after : after = c \o (rest \o more)
    OBVIOUS
<1>15. rest \o more \in Seq(ByteSet)
    BY <1>2, TwoParts
<1>16. s = <<head>> \o after
    <2>1. begun \o (rest \o more) = s
        BY <1>2, <1>6, <1>7, <1>10, Regrouped, SMTT(60)
    <2>2. <<head>> \o after = begun \o (rest \o more)
        BY <1>3, <1>4, <1>5, <1>14, <1>15, Regrouped, SMTT(90)
    <2> QED BY <2>1, <2>2
<1>17. /\ after \in Seq(ByteSet) /\ Len(c) + Len(rest \o more) = Len(after)
       /\ \A i \in 1..Len(c) : after[i] = c[i]
    BY <1>3, <1>14, <1>15, TwoParts
<1>18. s[1] = head /\ Tail(s) = after
    BY <1>2, <1>16, <1>17, Headed
<1>19. Len(c) <= Len(after)
    <2>1. Len(rest \o more) \in Nat
        BY <1>15
    <2> QED BY <1>3, <1>17, <2>1
<1>20. Begins(after, c)
    BY <1>17, <1>19 DEF Begins
<1>21. Mqtt!LengthBytes(after) = Len(c) /\ Mqtt!DecodedLength(after) = n
    BY <1>2, <1>3, <1>20, DecodedIs
<1>22. /\ Len(begun) + 1 = Len(c) + 2 /\ Len(begun) + Len(rest) = Len(c) + 1 + Len(rest)
       /\ Len(p) + 1 = Len(c) + 2 + Len(rest) /\ Len(p) + Len(more) = Len(s)
       /\ 1 + Len(c) + Len(rest) = Len(p)
    <2>1. Len(rest) \in Nat /\ Len(begun) \in Nat
        BY <1>2, <1>6
    <2>2. Len(begun) = Len(c) + 1 /\ Len(p) = Len(c) + 1 + Len(rest)
        BY <1>3, <1>6, <1>9
    <2> QED BY <1>3, <1>11, <2>1, <2>2
<1>23. SubSeq(s, Len(c) + 2, Len(c) + 1 + Len(rest)) = rest
    BY <1>12, <1>22
<1>24. SubSeq(s, Len(c) + 2 + Len(rest), Len(s)) = more
    BY <1>13, <1>22
<1>25. Parted(head, rest, more, c, p, s)
    BY <1>1, <1>9, <1>11, <1>18, <1>21, <1>22, <1>23, <1>24, Zenon DEF Parted
<1> QED BY <1>1, <1>8, <1>10, <1>25

\* MQTTPacket_read takes exactly the packet, whatever comes behind it.
LEMMA ReadTakes ==
    ASSUME NEW head, NEW rest, Packable(head, rest), NEW more \in Seq(ByteSet),
           NEW buflen \in Nat, Len(Packet(head, rest)) <= buflen
    PROVE  Mqtt!Read(buflen, Packet(head, rest) \o more)
               = [rc |-> head \div 16, packet |-> Packet(head, rest), left |-> more]
<1>1. PICK c, p, s : c = Mqtt!EncodedLength(Len(rest)) /\ p = Packet(head, rest) /\ s = p \o more
    OBVIOUS
<1>2. /\ p \in Seq(ByteSet) /\ s \in Seq(ByteSet)
      /\ 1 + Len(c) + Len(rest) = Len(p)
      /\ s[1] = head
      /\ Mqtt!LengthBytes(Tail(s)) = Len(c) /\ Mqtt!DecodedLength(Tail(s)) = Len(rest)
      /\ SubSeq(s, Len(c) + 2, Len(c) + 1 + Len(rest)) = rest
      /\ SubSeq(s, Len(c) + 2 + Len(rest), Len(s)) = more
    <2>1. Parted(head, rest, more, c, p, s)
        BY <1>1, PacketIs
    <2> QED BY <2>1, Zenon DEF Parted
<1>3. Len(c) \in Nat /\ Len(c) <= 4
    BY <1>1, CodedSomehow DEF Packable
<1>4. Min({Len(c), Mqtt!MaxLengthBytes}) = Len(c)
    <2>1. PICK two : two = {Len(c), Mqtt!MaxLengthBytes}
        OBVIOUS
    <2>2. two \in SUBSET Int /\ Len(c) \in two /\ \A x \in two : Len(c) <= x
        BY <1>3, <2>1 DEF Mqtt!MaxLengthBytes
    <2> QED BY <2>1, <2>2, MinIs
<1>5. Mqtt!Min({Mqtt!LengthBytes(Tail(s)), Mqtt!MaxLengthBytes}) = Len(c)
    BY <1>2, <1>4 DEF Mqtt!Min, Min
<1>6. <<s[1]>> \o Mqtt!EncodedLength(Len(rest)) \o SubSeq(s, Len(c) + 2, Len(c) + 1 + Len(rest)) = p
    BY <1>1, <1>2 DEF Packet
<1>7. ~(1 + Len(c) + Len(rest) > buflen)
    BY <1>1, <1>2
<1>8. Mqtt!TypeOf(s) = head \div 16
    BY <1>2 DEF Mqtt!TypeOf
<1>9. Mqtt!Read(buflen, s) = [rc |-> Mqtt!TypeOf(s), packet |-> p, left |-> more]
    BY <1>1, <1>2, <1>5, <1>6, <1>7 DEF Mqtt!Read, Mqtt!From
<1> QED BY <1>1, <1>8, <1>9

LEMMA BodyIs ==
    ASSUME NEW head, NEW rest, Packable(head, rest)
    PROVE  LET p == Packet(head, rest)
           IN  p \in Seq(ByteSet) /\ p[1] = head /\ Mqtt!BodyOf(p) = rest
<1>1. PICK c, p : c = Mqtt!EncodedLength(Len(rest)) /\ p = Packet(head, rest)
    OBVIOUS
<1>2. <<>> \in Seq(ByteSet)
    OBVIOUS
<1>3. Parted(head, rest, <<>>, c, p, p \o <<>>)
    BY <1>1, <1>2, PacketIs
<1>4. p \in Seq(ByteSet) /\ p \o <<>> = p
    <2>1. p \in Seq(ByteSet)
        BY <1>3 DEF Parted
    <2> QED BY <2>1
<1>5. /\ p[1] = head
      /\ Mqtt!LengthBytes(Tail(p)) = Len(c) /\ Mqtt!DecodedLength(Tail(p)) = Len(rest)
      /\ SubSeq(p, Len(c) + 2, Len(c) + 1 + Len(rest)) = rest
    BY <1>3, <1>4, Zenon DEF Parted
<1>6. Len(c) \in Nat /\ Len(rest) \in Nat
    BY <1>1, CodedSomehow DEF Packable
<1>7. (1 + Len(c)) + 1 = Len(c) + 2 /\ (1 + Len(c)) + Len(rest) = Len(c) + 1 + Len(rest)
    BY <1>6
<1>8. Mqtt!BodyOf(p) = rest
    BY <1>5, <1>7 DEF Mqtt!BodyOf
<1> QED BY <1>1, <1>4, <1>5, <1>8

\* Numbers of two bytes, and texts whose length is one.
WordSet == {n \in Nat : n < 65536}
Strings == {t \in Seq(ByteSet) : Len(t) \in WordSet}

LEMMA WordIs ==
    ASSUME NEW n \in WordSet
    PROVE  /\ n \in Nat /\ Mqtt!TwoBytes(n) \in Seq(ByteSet) /\ 2 = Len(Mqtt!TwoBytes(n))
           /\ 256 * Mqtt!TwoBytes(n)[1] + Mqtt!TwoBytes(n)[2] = n
<1>1. n \in Nat /\ n < 65536
    BY SMT DEF WordSet
<1>2. PICK high, low : high = n \div 256 /\ low = n % 256
    OBVIOUS
<1>3. high \in ByteSet /\ low \in ByteSet /\ 256 * high + low = n
    BY <1>1, <1>2, SMT DEF ByteSet
<1>4. PICK two : two = Mqtt!TwoBytes(n) /\ two = <<high, low>>
    BY <1>2 DEF Mqtt!TwoBytes
<1>5. two \in Seq(ByteSet) /\ 2 = Len(two) /\ two[1] = high /\ two[2] = low
    BY <1>3, <1>4
<1> QED BY <1>1, <1>3, <1>4, <1>5

\* The number in the middle of a sequence.
NumberThere(s, i, n) == Mqtt!IntAt(s, i) = n

LEMMA IntIs ==
    ASSUME NEW a \in Seq(ByteSet), NEW n \in WordSet, NEW b \in Seq(ByteSet)
    PROVE  NumberThere(a \o Mqtt!TwoBytes(n) \o b, Len(a) + 1, n)
<1>1. PICK two, s : two = Mqtt!TwoBytes(n) /\ s = a \o two \o b
    OBVIOUS
<1>2. /\ two \in Seq(ByteSet) /\ 2 = Len(two) /\ 256 * two[1] + two[2] = n
    BY <1>1, WordIs
<1>3. \A i \in 1..Len(two) : s[Len(a) + i] = two[i]
    BY <1>1, <1>2, ThreeParts
<1>4. 1 \in 1..Len(two) /\ 2 \in 1..Len(two) /\ (Len(a) + 1) + 1 = Len(a) + 2
    <2>1. Len(two) = 2
        BY <1>2
    <2>2. Len(a) \in Nat
        OBVIOUS
    <2> QED BY <2>1, <2>2
<1>5. s[Len(a) + 1] = two[1] /\ s[(Len(a) + 1) + 1] = two[2]
    BY <1>3, <1>4
<1> QED BY <1>1, <1>2, <1>5, Zenon DEF NumberThere, Mqtt!IntAt

\* A text in the middle of a sequence.
TextThere(s, i, text) ==
    /\ Mqtt!StrFits(s, i) /\ Mqtt!StrAt(s, i) = text
    /\ Mqtt!AfterStr(s, i) = i + Len(text) + 2

LEMMA StrIs ==
    ASSUME NEW text \in Strings
    PROVE  /\ text \in Seq(ByteSet) /\ Len(text) \in WordSet /\ Len(text) \in Nat
           /\ Mqtt!Str(text) \in Seq(ByteSet) /\ Len(text) + 2 = Len(Mqtt!Str(text))
<1>1. text \in Seq(ByteSet) /\ Len(text) \in WordSet
    BY DEF Strings
<1>2. PICK two : two = Mqtt!TwoBytes(Len(text))
    OBVIOUS
<1>3. two \in Seq(ByteSet) /\ 2 = Len(two)
    BY <1>1, <1>2, WordIs
<1>4. Mqtt!Str(text) = two \o text
    BY <1>2 DEF Mqtt!Str
<1>5. two \o text \in Seq(ByteSet) /\ Len(two) + Len(text) = Len(two \o text)
    BY <1>1, <1>3, TwoParts
<1>6. Len(text) \in Nat
    BY <1>1
<1>7. Len(text) + 2 = Len(two \o text)
    <2>1. Len(two) = 2
        BY <1>3
    <2>2. PICK m \in Nat : m = Len(text)
        BY <1>6
    <2>3. Len(two \o text) = Len(two) + m
        BY <1>5, <2>2
    <2>4. Len(two \o text) = m + 2
        BY <2>1, <2>2, <2>3
    <2> QED BY <2>2, <2>4
<1> QED BY <1>1, <1>4, <1>5, <1>6, <1>7

LEMMA StrRead ==
    ASSUME NEW a \in Seq(ByteSet), NEW text \in Strings, NEW b \in Seq(ByteSet)
    PROVE  TextThere(a \o Mqtt!Str(text) \o b, Len(a) + 1, text)
<1>1. PICK two, str, s, i : /\ two = Mqtt!TwoBytes(Len(text)) /\ str = Mqtt!Str(text)
                            /\ s = a \o str \o b /\ i = Len(a) + 1
    OBVIOUS
<1>2. /\ text \in Seq(ByteSet) /\ Len(text) \in WordSet /\ Len(text) \in Nat
      /\ str \in Seq(ByteSet) /\ Len(text) + 2 = Len(str)
    BY <1>1, StrIs
<1>3. two \in Seq(ByteSet) /\ 2 = Len(two) /\ str = two \o text
    BY <1>1, <1>2, WordIs DEF Mqtt!Str
<1>4. s \in Seq(ByteSet) /\ Len(a) + Len(str) + Len(b) = Len(s)
    BY <1>1, <1>2, ThreeParts
<1>5. s = a \o two \o (text \o b)
    <2>1. text \o b \in Seq(ByteSet) /\ two \o (text \o b) = str \o b
        BY <1>2, <1>3, Regrouped, TwoParts, SMTT(60)
    <2>2. a \o (str \o b) = s
        BY <1>1, <1>2, Regrouped, SMTT(60)
    <2>3. a \o (two \o (text \o b)) = a \o two \o (text \o b)
        BY <1>3, <2>1, Regrouped, SMTT(90)
    <2> QED BY <2>1, <2>2, <2>3
<1>6. Mqtt!IntAt(s, i) = Len(text)
    <2>1. text \o b \in Seq(ByteSet)
        BY <1>2, TwoParts
    <2>2. NumberThere(s, i, Len(text))
        BY <1>1, <1>2, <1>5, <2>1, IntIs
    <2> QED BY <2>2 DEF NumberThere
<1>7. SubSeq(s, Len(a) + 2 + 1, Len(a) + 2 + Len(text)) = text
    <2>1. PICK front : front = a \o two
        OBVIOUS
    <2>2. front \in Seq(ByteSet) /\ Len(a) + 2 = Len(front)
        BY <1>3, <2>1, TwoParts, ZenonT(90)
    <2>3. s = front \o text \o b
        BY <1>2, <1>5, <2>1, <2>2, Regrouped, SMTT(90)
    <2>4. SubSeq(s, Len(front) + 1, Len(front) + Len(text)) = text
        BY <1>2, <2>2, <2>3, Middle
    <2> QED BY <2>2, <2>4
<1>8. Len(a) \in Nat /\ Len(b) \in Nat
    OBVIOUS
<1>9. /\ i < Len(s) /\ i + 1 + Len(text) <= Len(s)
      /\ Len(a) + 2 + 1 = i + 2 /\ Len(a) + 2 + Len(text) = i + 1 + Len(text)
      /\ i + 2 + Len(text) = i + Len(text) + 2
    <2>1. Len(a) + Len(text) + 2 + Len(b) = Len(s)
        <3>1. Len(str) = Len(text) + 2
            BY <1>2
        <3>2. Len(s) = Len(a) + Len(str) + Len(b)
            BY <1>4
        <3>3. Len(text) \in Nat
            BY <1>2
        <3> QED BY <1>8, <3>1, <3>2, <3>3
    <2> QED BY <1>1, <1>2, <1>8, <2>1
<1>10. Mqtt!StrFits(s, i)
    BY <1>6, <1>9 DEF Mqtt!StrFits
<1>11. Mqtt!StrAt(s, i) = text
    BY <1>6, <1>7, <1>9 DEF Mqtt!StrAt
<1>12. Mqtt!AfterStr(s, i) = i + Len(text) + 2
    BY <1>6, <1>9 DEF Mqtt!AfterStr
<1> QED BY <1>1, <1>10, <1>11, <1>12, Zenon DEF TextThere

LEMMA HeaderIs ==
    ASSUME NEW type \in Nat, 1 <= type, type <= 14, NEW dup \in {0, 1}, NEW qos \in {0, 1, 2},
           NEW retained \in {0, 1}
    PROVE  LET h == Mqtt!Header(type, dup, qos, retained)
           IN  /\ h \in ByteSet /\ h \div 16 = type /\ (h \div 8) % 2 = dup
               /\ (h \div 2) % 4 = qos /\ h % 2 = retained
<1>1. PICK h : h = 16 * type + 8 * dup + 2 * qos + retained
    OBVIOUS
<1>2. Mqtt!Header(type, dup, qos, retained) = h
    BY <1>1 DEF Mqtt!Header
<1>3. h \in ByteSet
    BY <1>1, SMT DEF ByteSet
<1>4. h \div 16 = type
    BY <1>1, SMT
<1>5. h \div 8 = 2 * type + dup /\ h \div 2 = 8 * type + 4 * dup + qos
    BY <1>1, SMT
<1>6. (2 * type + dup) % 2 = dup /\ (8 * type + 4 * dup + qos) % 4 = qos /\ h % 2 = retained
    BY <1>1, SMT
<1> QED BY <1>2, <1>3, <1>4, <1>5, <1>6

LEMMA SerializedIs ==
    ASSUME NEW head, NEW rest, Packable(head, rest), NEW buflen \in Nat
    PROVE  /\ Len(Packet(head, rest)) + 1 <= buflen =>
                  Mqtt!Serialized(buflen, head, Len(rest), rest) = Packet(head, rest)
           /\ buflen < Len(Packet(head, rest)) =>
                  Mqtt!Serialized(buflen, head, Len(rest), rest) = <<>>
           /\ Len(Packet(head, rest)) \in Nat /\ Len(Packet(head, rest)) > 1
           /\ Len(Packet(head, rest)) <= 5 + Len(rest)
<1>1. PICK n, c, p, len : /\ n = Len(rest) /\ c = Mqtt!EncodedLength(n) /\ p = Packet(head, rest)
                          /\ len = Mqtt!PacketLength(n)
    OBVIOUS
<1>2. n \in Nat /\ n < LengthLimit
    BY <1>1 DEF Packable
<1>3. Parted(head, rest, <<>>, c, p, p \o <<>>)
    <2>1. <<>> \in Seq(ByteSet)
        OBVIOUS
    <2> QED BY <1>1, <2>1, PacketIs
<1>4. 1 + Len(c) + n = Len(p)
    BY <1>1, <1>3 DEF Parted
<1>5. /\ Len(c) \in Nat /\ 1 <= Len(c) /\ Len(c) <= 4
      /\ len \in {1 + Len(c) + n, 1 + Len(c) + n + 1}
    BY <1>1, <1>2, CodedSomehow
<1>6. /\ Len(p) \in Nat /\ Len(p) > 1 /\ Len(p) <= 5 + n
      /\ len \in Nat /\ Len(p) <= len /\ len <= Len(p) + 1
    BY <1>2, <1>4, <1>5
<1>7. Mqtt!Serialized(buflen, head, n, rest) = IF len > buflen THEN <<>> ELSE p
    BY <1>1 DEF Mqtt!Serialized, Packet
<1>8. (Len(p) + 1 <= buflen => ~(len > buflen)) /\ (buflen < Len(p) => len > buflen)
    BY <1>6
<1> QED BY <1>1, <1>6, <1>7, <1>8

Publishable(m) ==
    /\ m.dup \in {0, 1} /\ m.qos \in {0, 1, 2} /\ m.retained \in {0, 1} /\ m.id \in WordSet
    /\ m.topic \in Strings /\ m.payload \in Seq(ByteSet)
    /\ Len(m.topic) + Len(m.payload) + 4 < LengthLimit

PublishHead(m) == Mqtt!Header(Mqtt!PUBLISH, m.dup, m.qos, m.retained)
PublishId(m) == IF m.qos > 0 THEN Mqtt!TwoBytes(m.id) ELSE <<>>
PublishBody(m) == Mqtt!Str(m.topic) \o PublishId(m) \o m.payload

LEMMA PublishPacked ==
    ASSUME NEW m, Publishable(m)
    PROVE  /\ Packable(PublishHead(m), PublishBody(m))
           /\ Len(PublishBody(m)) <= Len(m.topic) + Len(m.payload) + 4
           /\ \A buflen \in Nat :
                  Mqtt!SerializePublish(buflen, m)
                      = Mqtt!Serialized(buflen, PublishHead(m), Len(PublishBody(m)), PublishBody(m))
<1>1. PICK str, mid, pay, body : /\ str = Mqtt!Str(m.topic) /\ mid = PublishId(m) /\ pay = m.payload
                                 /\ body = str \o mid \o pay
    OBVIOUS
<1>2. body = PublishBody(m)
    BY <1>1 DEF PublishBody
<1>3. str \in Seq(ByteSet) /\ Len(m.topic) \in Nat /\ Len(m.topic) + 2 = Len(str)
    BY <1>1, StrIs DEF Publishable
<1>4. mid \in Seq(ByteSet) /\ Len(mid) = IF m.qos > 0 THEN 2 ELSE 0
    <2>1. CASE m.qos > 0
        BY <1>1, <2>1, WordIs DEF PublishId, Publishable
    <2>2. CASE ~(m.qos > 0)
        BY <1>1, <2>2 DEF PublishId, Publishable
    <2> QED BY <2>1, <2>2
<1>5. pay \in Seq(ByteSet) /\ Len(pay) \in Nat
    BY <1>1 DEF Publishable
<1>6. body \in Seq(ByteSet) /\ Len(str) + Len(mid) + Len(pay) = Len(body)
    <2>1. str \in Seq(ByteSet) /\ mid \in Seq(ByteSet) /\ pay \in Seq(ByteSet) /\ body = str \o mid \o pay
        BY <1>1, <1>3, <1>4, <1>5
    <2> QED BY <2>1, ThreeParts
<1>7. PICK t, l \in Nat : t = Len(m.topic) /\ l = Len(m.payload)
    BY <1>1, <1>3, <1>5
<1>8. Len(body) = t + l + 2 + (IF m.qos > 0 THEN 2 ELSE 0)
    <2>1. Len(str) = t + 2 /\ Len(pay) = l
        BY <1>1, <1>3, <1>7
    <2>2. Len(body) = Len(str) + Len(mid) + Len(pay)
        BY <1>6
    <2>3. Len(body) = (t + 2) + (IF m.qos > 0 THEN 2 ELSE 0) + l
        BY <1>4, <2>1, <2>2
    <2> QED BY <1>4, <2>3
<1>13. Len(body) = Mqtt!PublishLength(m.qos, m.topic, m.payload)
    <2>1. Mqtt!PublishLength(m.qos, m.topic, m.payload) = 2 + t + l + (IF m.qos > 0 THEN 2 ELSE 0)
        BY <1>7 DEF Mqtt!PublishLength
    <2> QED BY <1>8, <2>1
<1>14. Len(body) <= t + l + 4
    BY <1>8
<1>9. PublishHead(m) \in ByteSet
    BY HeaderIs DEF PublishHead, Publishable, Mqtt!PUBLISH
<1>10. Len(body) < LengthLimit
    <2>1. Len(m.topic) + Len(m.payload) + 4 < LengthLimit
        BY DEF Publishable
    <2>2. t + l + 4 < LengthLimit
        BY <1>7, <2>1
    <2>3. LengthLimit \in Nat
        BY SMT DEF LengthLimit
    <2>4. Len(body) \in Nat
        BY <1>6
    <2> QED BY <1>14, <2>2, <2>3, <2>4
<1>11. Packable(PublishHead(m), body)
    BY <1>6, <1>9, <1>10 DEF Packable
<1>12. \A buflen : Mqtt!SerializePublish(buflen, m)
                      = Mqtt!Serialized(buflen, PublishHead(m), Len(body), body)
    BY <1>1, <1>13, Zenon DEF Mqtt!SerializePublish, PublishHead, PublishId
<1> QED BY <1>1, <1>2, <1>7, <1>11, <1>12, <1>14

LEMMA PublishIsRead ==
    ASSUME NEW m, Publishable(m)
    PROVE  Mqtt!DeserializePublish(Packet(PublishHead(m), PublishBody(m)))
               = [rc |-> 1, dup |-> m.dup, qos |-> m.qos, retained |-> m.retained,
                  id |-> IF m.qos > 0 THEN m.id ELSE 0, topic |-> m.topic, payload |-> m.payload]
<1>1. PICK str, mid, pay, s, p : /\ str = Mqtt!Str(m.topic) /\ mid = PublishId(m) /\ pay = m.payload
                                 /\ s = str \o mid \o pay
                                 /\ p = Packet(PublishHead(m), s)
    OBVIOUS
<1>2. s = PublishBody(m)
    BY <1>1 DEF PublishBody
<1>3. p[1] = PublishHead(m) /\ Mqtt!BodyOf(p) = s
    BY <1>1, <1>2, BodyIs, PublishPacked
<1>4. Mqtt!TypeOf(p) = 3 /\ Mqtt!DupOf(p) = m.dup /\ Mqtt!QosOf(p) = m.qos /\ Mqtt!RetainedOf(p) = m.retained
    BY <1>3, HeaderIs DEF Publishable, PublishHead, Mqtt!PUBLISH, Mqtt!TypeOf, Mqtt!DupOf, Mqtt!QosOf, Mqtt!RetainedOf
<1>5. str \in Seq(ByteSet) /\ Len(m.topic) \in Nat /\ Len(m.topic) + 2 = Len(str) /\ m.topic \in Strings
    BY <1>1, StrIs DEF Publishable
<1>6. mid \in Seq(ByteSet) /\ Len(mid) = IF m.qos > 0 THEN 2 ELSE 0
    <2>1. CASE m.qos > 0
        BY <1>1, <2>1, WordIs DEF PublishId, Publishable
    <2>2. CASE ~(m.qos > 0)
        BY <1>1, <2>2 DEF PublishId, Publishable
    <2> QED BY <2>1, <2>2
<1>7. pay \in Seq(ByteSet)
    BY <1>1 DEF Publishable
<1>8. TextThere(s, 1, m.topic)
    <2>1. <<>> \in Seq(ByteSet) /\ Len(<<>>) + 1 = 1 /\ <<>> \o str = str /\ mid \o pay \in Seq(ByteSet)
        BY <1>5, <1>6, <1>7, TwoParts
    <2>2. s = <<>> \o str \o (mid \o pay)
        <3>1. str \in Seq(ByteSet) /\ mid \in Seq(ByteSet) /\ pay \in Seq(ByteSet)
            BY <1>5, <1>6, <1>7
        <3>2. str \o (mid \o pay) = str \o mid \o pay
            BY <3>1, Regrouped
        <3> QED BY <1>1, <2>1, <3>2
    <2>3. TextThere(<<>> \o str \o (mid \o pay), Len(<<>>) + 1, m.topic)
        BY <1>1, <1>5, <2>1, StrRead
    <2> QED BY <2>1, <2>2, <2>3
<1>9. Mqtt!AfterStr(s, 1) = Len(str) + 1 /\ Mqtt!StrFits(s, 1) /\ Mqtt!StrAt(s, 1) = m.topic
    <2>1. Mqtt!AfterStr(s, 1) = 1 + Len(m.topic) + 2 /\ Mqtt!StrFits(s, 1) /\ Mqtt!StrAt(s, 1) = m.topic
        BY <1>8 DEF TextThere
    <2>2. Len(str) = Len(m.topic) + 2
        BY <1>5
    <2> QED BY <1>5, <2>1, <2>2
<1>10. m.qos > 0 => Mqtt!IntAt(s, Len(str) + 1) = m.id
    <2>1. ASSUME m.qos > 0 PROVE NumberThere(s, Len(str) + 1, m.id)
        <3>1. m.id \in WordSet /\ s = str \o Mqtt!TwoBytes(m.id) \o pay
            BY <1>1, <2>1 DEF Publishable, PublishId
        <3> QED BY <1>5, <1>7, <3>1, IntIs
    <2> QED BY <2>1 DEF NumberThere
<1>11. SubSeq(s, Len(str) + Len(mid) + 1, Len(s)) = pay
    <2>1. PICK front : front = str \o mid
        OBVIOUS
    <2>2. front \in Seq(ByteSet) /\ Len(str) + Len(mid) = Len(front)
        BY <1>5, <1>6, <2>1, TwoParts
    <2>3. SubSeq(front \o pay, Len(front) + 1, Len(front) + Len(pay)) = pay
        BY <1>7, <2>2, LastPart
    <2>4. Len(front) + Len(pay) = Len(front \o pay)
        BY <1>7, <2>2, TwoParts
    <2> QED BY <1>1, <2>1, <2>2, <2>3, <2>4
<1>12. Len(str) + 1 + (IF m.qos > 0 THEN 2 ELSE 0) = Len(str) + Len(mid) + 1
    BY <1>5, <1>6
<1> HIDE DEF Mqtt!StrFits
<1>13. Mqtt!DeserializePublish(p)
           = [rc |-> 1, dup |-> m.dup, qos |-> m.qos, retained |-> m.retained,
              id |-> IF m.qos > 0 THEN m.id ELSE 0, topic |-> m.topic, payload |-> pay]
    BY <1>3, <1>4, <1>9, <1>10, <1>11, <1>12 DEF Mqtt!DeserializePublish, Mqtt!PUBLISH
<1> QED BY <1>1, <1>2, <1>13

\* Any message of a publisher, with any topic, contents and number: a PUBLISH
\* that fits the buffer is read from the stream as it was written and says
\* the same (MQTTSerializePublish.c:50-92, MQTTDeserializePublish.c:38-68,
\* MQTTPacket.c).
THEOREM PublicationsReadBack ==
    ASSUME input.kind = "publish" => /\ Publishable(input)
                                     /\ Len(input.topic) + Len(input.payload) + 10 <= Room
    PROVE  PublishReadBack
<1> SUFFICES ASSUME input.kind = "publish" PROVE PublishReadBack
    BY DEF PublishReadBack
<1>1. PICK m : m = input
    OBVIOUS
<1>2. Publishable(m) /\ Len(m.topic) + Len(m.payload) + 10 <= Room
    BY <1>1
<1>3. PICK head, body : head = PublishHead(m) /\ body = PublishBody(m)
    OBVIOUS
<1>4. PICK p : p = Packet(head, body)
    OBVIOUS
<1>5. /\ Packable(head, body) /\ Len(body) <= Len(m.topic) + Len(m.payload) + 4
      /\ \A buflen \in Nat :
            Mqtt!SerializePublish(buflen, m) = Mqtt!Serialized(buflen, head, Len(body), body)
    BY <1>2, <1>3, PublishPacked
<1>6. p \in Seq(ByteSet) /\ Len(p) \in Nat /\ Len(p) > 1 /\ Len(p) <= 5 + Len(body)
    BY <1>4, <1>5, BodyIs, SerializedIs
<1>7. Room \in Nat
    BY SMT DEF Room
<1>8. Len(p) + 1 <= Room
    <2>1. Len(m.topic) \in Nat /\ Len(m.payload) \in Nat /\ Len(body) \in Nat
        BY <1>2, <1>5 DEF Publishable, Strings, Packable
    <2>2. PICK t, l, b \in Nat : t = Len(m.topic) /\ l = Len(m.payload) /\ b = Len(body)
        BY <2>1
    <2>3. t + l + 10 <= Room /\ b <= t + l + 4 /\ Len(p) <= 5 + b
        BY <1>2, <1>5, <1>6, <2>2
    <2> QED BY <1>6, <1>7, <2>3
<1>9. Mqtt!SerializePublish(Room, m) = p
    BY <1>4, <1>5, <1>7, <1>8, SerializedIs
<1>10. Mqtt!SerializePublish(Len(p) + 1, m) = p
    <2>1. Len(p) + 1 \in Nat /\ Len(p) + 1 <= Len(p) + 1
        BY <1>6
    <2> QED BY <1>4, <1>5, <2>1, SerializedIs
<1>11. Mqtt!SerializePublish(Len(p) - 1, m) = <<>>
    <2>1. Len(p) - 1 \in Nat /\ Len(p) - 1 < Len(p)
        BY <1>6
    <2> QED BY <1>4, <1>5, <2>1, SerializedIs
<1>12. Mqtt!Read(Room, p) = [rc |-> 3, packet |-> p, left |-> <<>>]
    <2>1. head \div 16 = 3
        BY <1>2, <1>3, HeaderIs DEF Publishable, PublishHead, Mqtt!PUBLISH
    <2>2. p \o <<>> = p /\ <<>> \in Seq(ByteSet) /\ Len(p) <= Room
        BY <1>6, <1>7, <1>8
    <2>3. Mqtt!Read(Room, p \o <<>>) = [rc |-> head \div 16, packet |-> p, left |-> <<>>]
        BY <1>4, <1>5, <1>7, <2>2, ReadTakes
    <2> QED BY <2>1, <2>2, <2>3
<1>13. Mqtt!DeserializePublish(p)
           = [rc |-> 1, dup |-> m.dup, qos |-> m.qos, retained |-> m.retained,
              id |-> IF m.qos > 0 THEN m.id ELSE 0, topic |-> m.topic, payload |-> m.payload]
    BY <1>2, <1>3, <1>4, PublishIsRead
<1>14. PICK r : r = Mqtt!DeserializePublish(p)
    OBVIOUS
<1>15. r.rc = 1 /\ r.id = IF m.qos > 0 THEN m.id ELSE 0
    BY <1>13, <1>14
<1>16. Fields(r, {"dup", "qos", "retained", "topic", "payload"})
           = Fields(m, {"dup", "qos", "retained", "topic", "payload"})
    <2>1. /\ r["dup"] = m["dup"] /\ r["qos"] = m["qos"] /\ r["retained"] = m["retained"]
          /\ r["topic"] = m["topic"] /\ r["payload"] = m["payload"]
        BY <1>13, <1>14
    <2> QED BY <2>1, Zenon DEF Fields
<1> QED BY <1>1, <1>9, <1>10, <1>11, <1>12, <1>14, <1>15, <1>16, Zenon DEF PublishReadBack

\* Every length up to the largest is decoded to what was encoded, and
\* MQTTPacket_len estimates its packet right or one too long
\* (MQTTPacket.c:29-120, 241-259).
THEOREM LengthsReadBack ==
    ASSUME input.kind = "length" => input.n \in Nat /\ input.n < LengthLimit
    PROVE  LengthsRight
<1> SUFFICES ASSUME input.kind = "length" PROVE LengthsRight
    BY DEF LengthsRight
<1>1. PICK n, c : n = input.n /\ c = Mqtt!EncodedLength(n)
    OBVIOUS
<1>2. n \in Nat /\ n < LengthLimit
    BY <1>1
<1>3. /\ Coded(c, n, Len(c)) /\ c \in Seq(ByteSet) /\ Len(c) \in Nat
      /\ Mqtt!PacketLength(n) \in {1 + Len(c) + n, 1 + Len(c) + n + 1}
    BY <1>1, <1>2, CodedSomehow
<1>4. Begins(c, c)
    BY <1>3 DEF Begins
<1>5. Mqtt!LengthBytes(c) = Len(c) /\ Mqtt!DecodedLength(c) = n
    BY <1>2, <1>3, <1>4, DecodedIs
<1> QED BY <1>1, <1>3, <1>5, Zenon DEF LengthsRight

-----------------------------------------------------------------------------
(* The acknowledgements. *)

LEMMA SmallPackets ==
    ASSUME NEW head \in ByteSet, NEW rest \in Seq(ByteSet), Len(rest) = 2
    PROVE  /\ Packable(head, rest)
           /\ <<head>> \o Mqtt!EncodedLength(2) \o rest = Packet(head, rest)
           /\ Packet(head, rest)[1] = head
           /\ Mqtt!BodyOf(Packet(head, rest)) = rest
<1>1. Packable(head, rest)
    BY SMT DEF Packable, LengthLimit
<1>2. <<head>> \o Mqtt!EncodedLength(2) \o rest = Packet(head, rest)
    BY DEF Packet
<1> QED BY <1>1, <1>2, BodyIs

LEMMA AckIsRead ==
    ASSUME NEW type \in {4, 5, 6, 7}, NEW dup \in {0, 1}, NEW id \in WordSet
    PROVE  Mqtt!DeserializeAck(Mqtt!SerializeAck(4, type, dup, id))
               = [rc |-> 1, type |-> type, dup |-> dup, id |-> id]
<1>1. PICK head, two, p : /\ head = Mqtt!Header(type, dup, IF type = Mqtt!PUBREL THEN 1 ELSE 0, 0)
                          /\ two = Mqtt!TwoBytes(id) /\ p = Packet(head, two)
    OBVIOUS
<1>2. head \in ByteSet /\ head \div 16 = type /\ (head \div 8) % 2 = dup
    BY <1>1, HeaderIs
<1>3. two \in Seq(ByteSet) /\ Len(two) = 2 /\ 256 * two[1] + two[2] = id
    <2>1. two \in Seq(ByteSet) /\ 2 = Len(two) /\ 256 * two[1] + two[2] = id
        BY <1>1, WordIs
    <2> QED BY <2>1
<1>4. p[1] = head /\ Mqtt!BodyOf(p) = two /\ Mqtt!SerializeAck(4, type, dup, id) = p
    <2>1. <<head>> \o Mqtt!EncodedLength(2) \o two = p /\ p[1] = head /\ Mqtt!BodyOf(p) = two
        BY <1>1, <1>2, <1>3, SmallPackets
    <2> QED BY <1>1, <2>1 DEF Mqtt!SerializeAck
<1>5. Mqtt!TypeOf(p) = type /\ Mqtt!DupOf(p) = dup /\ Mqtt!IntAt(two, 1) = id
    BY <1>2, <1>3, <1>4 DEF Mqtt!TypeOf, Mqtt!DupOf, Mqtt!IntAt
<1>6. ~(Len(two) < 2)
    BY <1>3
<1> QED BY <1>4, <1>5, <1>6 DEF Mqtt!DeserializeAck

LEMMA UnsubackIsRead ==
    ASSUME NEW id \in WordSet
    PROVE  Mqtt!DeserializeUnsuback(Mqtt!SerializeUnsuback(4, id)).id = id
<1>1. PICK head, two, p : /\ head = Mqtt!Header(Mqtt!UNSUBACK, 0, 0, 0)
                          /\ two = Mqtt!TwoBytes(id) /\ p = Packet(head, two)
    OBVIOUS
<1>2. head \in ByteSet /\ head \div 16 = Mqtt!UNSUBACK
    BY <1>1, HeaderIs DEF Mqtt!UNSUBACK
<1>3. two \in Seq(ByteSet) /\ Len(two) = 2 /\ 256 * two[1] + two[2] = id
    <2>1. two \in Seq(ByteSet) /\ 2 = Len(two) /\ 256 * two[1] + two[2] = id
        BY <1>1, WordIs
    <2> QED BY <2>1
<1>4. p[1] = head /\ Mqtt!BodyOf(p) = two /\ Mqtt!SerializeUnsuback(4, id) = p
    <2>1. <<head>> \o Mqtt!EncodedLength(2) \o two = p /\ p[1] = head /\ Mqtt!BodyOf(p) = two
        BY <1>1, <1>2, <1>3, SmallPackets
    <2> QED BY <1>1, <2>1 DEF Mqtt!SerializeUnsuback
<1>5. Mqtt!TypeOf(p) = Mqtt!UNSUBACK /\ Mqtt!IntAt(two, 1) = id
    BY <1>2, <1>3, <1>4 DEF Mqtt!TypeOf, Mqtt!IntAt
<1>6. ~(Len(two) < 2)
    BY <1>3
<1>7. Mqtt!DeserializeAck(p) = [rc |-> 1, type |-> Mqtt!UNSUBACK, dup |-> Mqtt!DupOf(p), id |-> id]
    BY <1>4, <1>5, <1>6 DEF Mqtt!DeserializeAck
<1> QED BY <1>4, <1>5, <1>7 DEF Mqtt!DeserializeUnsuback

LEMMA ConnackIsRead ==
    ASSUME NEW code \in ByteSet, NEW session \in {0, 1}
    PROVE  Mqtt!DeserializeConnack(Mqtt!SerializeConnack(4, code, session))
               = [rc |-> 1, session |-> session, code |-> code]
<1>1. PICK head, two, p : /\ head = Mqtt!Header(Mqtt!CONNACK, 0, 0, 0)
                          /\ two = <<session, code>> /\ p = Packet(head, two)
    OBVIOUS
<1>2. head \in ByteSet /\ head \div 16 = Mqtt!CONNACK
    BY <1>1, HeaderIs DEF Mqtt!CONNACK
<1>3. session \in ByteSet /\ session % 2 = session
    BY DEF ByteSet
<1>4. two \in Seq(ByteSet) /\ Len(two) = 2 /\ two[1] = session /\ two[2] = code
    BY <1>1, <1>3
<1>5. p[1] = head /\ Mqtt!BodyOf(p) = two /\ Mqtt!SerializeConnack(4, code, session) = p
    <2>1. <<head>> \o Mqtt!EncodedLength(2) \o two = p /\ p[1] = head /\ Mqtt!BodyOf(p) = two
        BY <1>1, <1>2, <1>4, SmallPackets
    <2>2. ~(4 < 2)
        OBVIOUS
    <2>3. Mqtt!SerializeConnack(4, code, session) = <<head>> \o Mqtt!EncodedLength(2) \o two
        BY <1>1, <2>2, Zenon DEF Mqtt!SerializeConnack
    <2> QED BY <2>1, <2>3
<1>6. Mqtt!TypeOf(p) = Mqtt!CONNACK
    BY <1>2, <1>5 DEF Mqtt!TypeOf
<1>7. ~(Len(two) < 2)
    BY <1>4
<1> QED BY <1>3, <1>4, <1>5, <1>6, <1>7 DEF Mqtt!DeserializeConnack

LEMMA SubackIsRead ==
    ASSUME NEW id \in WordSet, NEW granted \in Seq(ByteSet), NEW n, n = Len(granted), n + 2 < LengthLimit,
           NEW buflen \in Nat, n + 2 <= buflen
    PROVE  LET a == Mqtt!SerializeSuback(buflen, id, granted)
           IN  /\ Mqtt!DeserializeSuback(a, n) = [rc |-> 1, id |-> id, granted |-> granted]
               /\ n > 1 => Mqtt!DeserializeSuback(a, n - 2).rc = -1
<1>1. PICK head, two, body, p : /\ head = Mqtt!Header(Mqtt!SUBACK, 0, 0, 0) /\ two = Mqtt!TwoBytes(id)
                                /\ body = two \o granted /\ p = Packet(head, body)
    OBVIOUS
<1>2. head \in ByteSet /\ head \div 16 = Mqtt!SUBACK
    BY <1>1, HeaderIs DEF Mqtt!SUBACK
<1>3. two \in Seq(ByteSet) /\ Len(two) = 2 /\ n \in Nat
    <2>1. two \in Seq(ByteSet) /\ 2 = Len(two)
        BY <1>1, WordIs
    <2> QED BY <2>1
<1>4. body \in Seq(ByteSet) /\ Len(body) = n + 2
    <2>1. body \in Seq(ByteSet) /\ Len(two) + Len(granted) = Len(body)
        BY <1>1, <1>3, TwoParts
    <2>2. Len(body) = 2 + n
        BY <1>3, <2>1
    <2>3. body \in Seq(ByteSet)
        BY <2>1
    <2> QED BY <1>3, <2>2, <2>3
<1>5. Packable(head, body)
    BY <1>2, <1>4 DEF Packable
<1>6. p[1] = head /\ Mqtt!BodyOf(p) = body
    BY <1>1, <1>5, BodyIs
<1>7. Mqtt!SerializeSuback(buflen, id, granted) = p
    <2>1. /\ ~(buflen < 2 + Len(granted)) /\ 2 + Len(granted) = Len(body)
        BY <1>3, <1>4
    <2>2. <<head>> \o Mqtt!EncodedLength(Len(body)) \o two \o granted
              = <<head>> \o Mqtt!EncodedLength(Len(body)) \o body
        <3>1. PICK front : front = <<head>> \o Mqtt!EncodedLength(Len(body))
            OBVIOUS
        <3>2. front \in Seq(ByteSet)
            BY <1>2, <1>5, <3>1, CodedSomehow, TwoParts DEF Packable
        <3>3. front \o (two \o granted) = front \o two \o granted
            BY <1>3, <3>2, Regrouped, SMTT(60)
        <3> QED BY <1>1, <3>1, <3>3
    <2> QED BY <1>1, <2>1, <2>2 DEF Mqtt!SerializeSuback, Packet
<1>8. Mqtt!TypeOf(p) = Mqtt!SUBACK
    BY <1>2, <1>6 DEF Mqtt!TypeOf
<1>9. Mqtt!IntAt(body, 1) = id
    <2>1. <<>> \in Seq(ByteSet) /\ Len(<<>>) + 1 = 1 /\ <<>> \o two \o granted = body
        BY <1>1, <1>3
    <2>2. NumberThere(<<>> \o two \o granted, Len(<<>>) + 1, id)
        BY <1>1, <2>1, IntIs
    <2> QED BY <2>1, <2>2 DEF NumberThere
<1>10. SubSeq(body, 3, Len(body)) = granted
    <2>1. SubSeq(two \o granted, Len(two) + 1, Len(two) + Len(granted)) = granted
        BY <1>3, LastPart
    <2>2. Len(two) + 1 = 3
        BY <1>3
    <2>3. Len(two) + Len(granted) = Len(body)
        BY <1>1, <1>3, TwoParts
    <2> QED BY <1>1, <2>1, <2>2, <2>3
<1>11. ~(Len(body) < 2) /\ ~(Len(body) - 2 > n + 1)
    BY <1>3, <1>4
<1>12. Mqtt!DeserializeSuback(p, n) = [rc |-> 1, id |-> id, granted |-> granted]
    BY <1>6, <1>8, <1>9, <1>10, <1>11 DEF Mqtt!DeserializeSuback
<1>13. Mqtt!DeserializeSuback(p, n - 2).rc = -1
    <2>1. Len(body) - 2 > (n - 2) + 1
        BY <1>3, <1>4
    <2> QED BY <1>6, <1>8, <1>11, <2>1 DEF Mqtt!DeserializeSuback
<1> QED BY <1>7, <1>12, <1>13

-----------------------------------------------------------------------------
(* A body read from front to back: from i on, s is rest. *)

Here(s, i, rest) ==
    /\ rest \in Seq(ByteSet)
    /\ \E front \in Seq(ByteSet) : s = front \o rest /\ i = Len(front) + 1

LEMMA HereWhole ==
    ASSUME NEW s \in Seq(ByteSet)
    PROVE  Here(s, 1, s)
<1>1. <<>> \in Seq(ByteSet) /\ s = <<>> \o s /\ 1 = Len(<<>>) + 1
    OBVIOUS
<1> QED BY <1>1, Zenon DEF Here

LEMMA HereLength ==
    ASSUME NEW s, NEW i, NEW rest, Here(s, i, rest)
    PROVE  /\ s \in Seq(ByteSet) /\ i \in Nat /\ i >= 1 /\ Len(rest) \in Nat /\ Len(s) \in Nat
           /\ Len(s) = i + Len(rest) - 1
<1>1. PICK front \in Seq(ByteSet) : s = front \o rest /\ i = Len(front) + 1
    BY DEF Here
<1>2. rest \in Seq(ByteSet)
    BY DEF Here
<1>3. s \in Seq(ByteSet) /\ Len(front) + Len(rest) = Len(s)
    BY <1>1, <1>2, TwoParts
<1>4. Len(front) \in Nat /\ Len(rest) \in Nat /\ Len(s) \in Nat
    BY <1>2, <1>3
<1>5. PICK f, r, n \in Nat : f = Len(front) /\ r = Len(rest) /\ n = Len(s)
    BY <1>4
<1>6. f + r = n /\ i = f + 1
    BY <1>1, <1>3, <1>5
<1>7. i \in Nat /\ i >= 1 /\ n = i + r - 1
    BY <1>6
<1> QED BY <1>3, <1>4, <1>5, <1>7

LEMMA HereRest ==
    ASSUME NEW s, NEW i, NEW rest, Here(s, i, rest)
    PROVE  SubSeq(s, i, Len(s)) = rest
<1>1. PICK front \in Seq(ByteSet) : s = front \o rest /\ i = Len(front) + 1
    BY DEF Here
<1>2. rest \in Seq(ByteSet)
    BY DEF Here
<1>3. Len(front) + Len(rest) = Len(s)
    BY <1>1, <1>2, TwoParts
<1>4. SubSeq(front \o rest, Len(front) + 1, Len(front) + Len(rest)) = rest
    BY <1>2, LastPart
<1> QED BY <1>1, <1>3, <1>4

\* Past a part.
LEMMA HerePast ==
    ASSUME NEW a \in Seq(ByteSet), NEW rest \in Seq(ByteSet), NEW s, NEW i, Here(s, i, a \o rest),
           NEW n, n = i + Len(a)
    PROVE  Here(s, n, rest)
<1>1. PICK front \in Seq(ByteSet) : s = front \o (a \o rest) /\ i = Len(front) + 1
    BY DEF Here
<1>2. PICK more : more = front \o a
    OBVIOUS
<1>3. more \in Seq(ByteSet) /\ Len(front) + Len(a) = Len(more)
    BY <1>2, TwoParts
<1>4. s = more \o rest
    BY <1>1, <1>2, Regrouped, SMTT(60)
<1>5. n = Len(more) + 1
    <2>1. PICK f, k, m \in Nat : f = Len(front) /\ k = Len(a) /\ m = Len(more)
        BY <1>3
    <2>2. f + k = m /\ n = f + 1 + k
        BY <1>1, <1>3, <2>1
    <2> QED BY <2>1, <2>2
<1> QED BY <1>3, <1>4, <1>5, Zenon DEF Here

LEMMA HereByte ==
    ASSUME NEW b \in ByteSet, NEW rest \in Seq(ByteSet), NEW s, NEW i, Here(s, i, <<b>> \o rest)
    PROVE  s[i] = b /\ Here(s, i + 1, rest)
<1>1. PICK front \in Seq(ByteSet) : s = front \o (<<b>> \o rest) /\ i = Len(front) + 1
    BY DEF Here
<1>2. PICK x : x = <<b>> \o rest
    OBVIOUS
<1>3. x \in Seq(ByteSet) /\ x[1] = b /\ Len(rest) + 1 = Len(x)
    BY <1>2, Headed
<1>4. \A j \in 1..Len(x) : (front \o x)[Len(front) + j] = x[j]
    BY <1>3, TwoParts
<1>5. 1 \in 1..Len(x)
    <2>1. Len(rest) \in Nat
        OBVIOUS
    <2> QED BY <1>3, <2>1
<1>6. s[i] = b
    BY <1>1, <1>2, <1>3, <1>4, <1>5
<1>7. <<b>> \in Seq(ByteSet) /\ Len(<<b>>) = 1
    OBVIOUS
<1>8. i + 1 = i + Len(<<b>>)
    BY <1>7
<1>9. Here(s, i + 1, rest)
    BY <1>7, <1>8, HerePast
<1> QED BY <1>6, <1>9

LEMMA HereWord ==
    ASSUME NEW n \in WordSet, NEW rest \in Seq(ByteSet), NEW s, NEW i, Here(s, i, Mqtt!TwoBytes(n) \o rest)
    PROVE  Mqtt!IntAt(s, i) = n /\ Here(s, i + 2, rest)
<1>1. PICK two : two = Mqtt!TwoBytes(n)
    OBVIOUS
<1>2. two \in Seq(ByteSet) /\ 2 = Len(two)
    BY <1>1, WordIs
<1>3. PICK front \in Seq(ByteSet) : s = front \o (two \o rest) /\ i = Len(front) + 1
    BY <1>1 DEF Here
<1>4. s = front \o two \o rest
    BY <1>2, <1>3, Regrouped
<1>5. NumberThere(s, i, n)
    BY <1>1, <1>3, <1>4, IntIs
<1>6. i + 2 = i + Len(two)
    BY <1>2
<1>7. Here(s, i + 2, rest)
    BY <1>1, <1>2, <1>6, HerePast
<1> QED BY <1>5, <1>7 DEF NumberThere

LEMMA HereText ==
    ASSUME NEW t \in Strings, NEW rest \in Seq(ByteSet), NEW s, NEW i, Here(s, i, Mqtt!Str(t) \o rest)
    PROVE  TextThere(s, i, t) /\ Here(s, i + Len(t) + 2, rest)
<1>1. PICK str : str = Mqtt!Str(t)
    OBVIOUS
<1>2. str \in Seq(ByteSet) /\ Len(t) + 2 = Len(str) /\ Len(t) \in Nat
    BY <1>1, StrIs
<1>3. PICK front \in Seq(ByteSet) : s = front \o (str \o rest) /\ i = Len(front) + 1
    BY <1>1 DEF Here
<1>4. s = front \o str \o rest
    BY <1>2, <1>3, Regrouped
<1>5. TextThere(s, i, t)
    BY <1>1, <1>3, <1>4, StrRead
<1>6. i + Len(t) + 2 = i + Len(str)
    <2>1. Len(str) = Len(t) + 2
        BY <1>2
    <2>2. i \in Nat
        BY <1>3
    <2> QED BY <1>2, <2>1, <2>2
<1>7. Here(s, i + Len(t) + 2, rest)
    BY <1>1, <1>2, <1>6, HerePast
<1> QED BY <1>5, <1>7

-----------------------------------------------------------------------------
(* CONNECT. *)

Maybe(S) == {<<>>} \cup {<<x>> : x \in S}
SomeWills == [qos : {0, 1, 2}, retained : {0, 1}, topic : Strings, message : Strings]

Connectable(o) ==
    /\ o.version \in {3, 4} /\ o.clean \in {0, 1} /\ o.keepAlive \in WordSet /\ o.clientID \in Strings
    /\ o.will \in Maybe(SomeWills) /\ o.username \in Maybe(Strings) /\ o.password \in Maybe(Strings)

LEMMA FlagsAre ==
    ASSUME NEW o, Connectable(o)
    PROVE  LET flags == Mqtt!ConnectFlags(o)
           IN  /\ flags \in ByteSet /\ Mqtt!Bit(flags, 2) = o.clean
               /\ Mqtt!Bit(flags, 4) = IF Mqtt!Present(o.will) THEN 1 ELSE 0
               /\ Mqtt!Bit(flags, 128) = IF Mqtt!Present(o.username) THEN 1 ELSE 0
               /\ Mqtt!Bit(flags, 64) = IF Mqtt!Present(o.password) THEN 1 ELSE 0
               /\ Mqtt!Present(o.will) => /\ (flags \div 8) % 4 = o.will[1].qos
                                          /\ Mqtt!Bit(flags, 32) = o.will[1].retained
<1>1. PICK u, p, w, q, r, c :
          /\ u = (IF Mqtt!Present(o.username) THEN 1 ELSE 0)
          /\ p = (IF Mqtt!Present(o.password) THEN 1 ELSE 0)
          /\ w = (IF Mqtt!Present(o.will) THEN 1 ELSE 0)
          /\ q = (IF Mqtt!Present(o.will) THEN o.will[1].qos ELSE 0)
          /\ r = (IF Mqtt!Present(o.will) THEN o.will[1].retained ELSE 0)
          /\ c = o.clean
    OBVIOUS
<1>2. u \in {0, 1} /\ p \in {0, 1} /\ w \in {0, 1}
    BY <1>1
<1>3. q \in {0, 1, 2} /\ r \in {0, 1} /\ c \in {0, 1}
    <2>1. CASE Mqtt!Present(o.will)
        <3>1. PICK x \in SomeWills : o.will = <<x>>
            BY <2>1 DEF Connectable, Maybe, Mqtt!Present
        <3>2. o.will[1] = x
            BY <3>1
        <3> QED BY <1>1, <2>1, <3>2 DEF SomeWills, Connectable
    <2>2. CASE ~Mqtt!Present(o.will)
        BY <1>1, <2>2 DEF Connectable
    <2> QED BY <2>1, <2>2
<1>4. PICK flags : flags = 2 * c + 128 * u + 64 * p + 4 * w + 8 * q + 32 * r
    OBVIOUS
<1>5. Mqtt!ConnectFlags(o) = flags
    <2>1. /\ Mqtt!Flag(Mqtt!Present(o.username), 128) = 128 * u
          /\ Mqtt!Flag(Mqtt!Present(o.password), 64) = 64 * p
        BY <1>1 DEF Mqtt!Flag
    <2>2. (IF Mqtt!Present(o.will) THEN 4 + 8 * o.will[1].qos + 32 * o.will[1].retained ELSE 0)
              = 4 * w + 8 * q + 32 * r
        BY <1>1, <1>3
    <2>3. Mqtt!ConnectFlags(o) = 2 * c + 128 * u + 64 * p + (4 * w + 8 * q + 32 * r)
        BY <1>1, <2>1, <2>2 DEF Mqtt!ConnectFlags
    <2> QED BY <1>2, <1>3, <1>4, <2>3
<1>6. flags \in ByteSet
    BY <1>2, <1>3, <1>4 DEF ByteSet
<1>7. /\ flags \div 2 = c + 2 * (32 * u + 16 * p + w + 2 * q + 8 * r)
      /\ flags \div 4 = w + 2 * (16 * u + 8 * p + q + 4 * r)
      /\ flags \div 8 = q + 4 * (4 * u + 2 * p + r)
    BY <1>2, <1>3, <1>4
<1>8. flags \div 32 = r + 2 * (2 * u + p) /\ flags \div 64 = p + 2 * u /\ flags \div 128 = u
    BY <1>2, <1>3, <1>4
<1>9. ASSUME NEW x \in {0, 1}, NEW y \in Nat PROVE (x + 2 * y) % 2 = x
    OBVIOUS
<1>10. ASSUME NEW x \in {0, 1, 2}, NEW y \in Nat PROVE (x + 4 * y) % 4 = x
    OBVIOUS
<1>11. /\ (flags \div 2) % 2 = c /\ (flags \div 4) % 2 = w /\ (flags \div 8) % 4 = q
    <2>1. /\ 32 * u + 16 * p + w + 2 * q + 8 * r \in Nat
          /\ 16 * u + 8 * p + q + 4 * r \in Nat /\ 4 * u + 2 * p + r \in Nat
        BY <1>2, <1>3
    <2> QED BY <1>2, <1>3, <1>7, <1>9, <1>10, <2>1
<1>12. (flags \div 32) % 2 = r /\ (flags \div 64) % 2 = p /\ (flags \div 128) % 2 = u
    <2>1. 2 * u + p \in Nat /\ u \in Nat /\ u % 2 = u
        BY <1>2
    <2> QED BY <1>2, <1>3, <1>8, <1>9, <2>1
<1> QED BY <1>1, <1>5, <1>6, <1>11, <1>12 DEF Mqtt!Bit

OptionalThere(s, i, u, j) ==
    /\ Mqtt!Present(u) => TextThere(s, i, u[1]) /\ j = i + Len(u[1]) + 2 /\ j \in Nat
    /\ ~Mqtt!Present(u) => j = i

LEMMA TextsAre ==
    ASSUME NEW u \in Maybe(Strings)
    PROVE  /\ Mqtt!Texts(u) \in Seq(ByteSet) /\ Len(Mqtt!Texts(u)) = Mqtt!LengthOf(u)
           /\ Mqtt!LengthOf(u) \in Nat
           /\ Mqtt!Present(u) => /\ u = <<u[1]>> /\ u[1] \in Strings /\ Mqtt!Texts(u) = Mqtt!Str(u[1])
                                 /\ Mqtt!LengthOf(u) = Len(u[1]) + 2 /\ Len(u[1]) \in Nat
                                 /\ u = <<<<>>>> <=> Len(u[1]) = 0
           /\ ~Mqtt!Present(u) => u = <<>> /\ Mqtt!Texts(u) = <<>> /\ Mqtt!LengthOf(u) = 0
<1>1. CASE u = <<>>
    BY <1>1 DEF Mqtt!Texts, Mqtt!LengthOf, Mqtt!Present
<1>2. ASSUME NEW t \in Strings, u = <<t>>
      PROVE  /\ Mqtt!Present(u) /\ u[1] = t
             /\ Mqtt!Texts(u) = Mqtt!Str(t) /\ Mqtt!LengthOf(u) = 2 + Len(t)
             /\ u = <<<<>>>> <=> t = <<>>
    <2>1. u # <<>> /\ u[1] = t
        BY <1>2
    <2>2. u = <<<<>>>> <=> t = <<>>
        BY <1>2, <2>1
    <2> QED BY <2>1, <2>2 DEF Mqtt!Texts, Mqtt!LengthOf, Mqtt!Present
<1>3. CASE u # <<>>
    <2>1. PICK t \in Strings : u = <<t>>
        BY <1>3 DEF Maybe
    <2>2. t \in Seq(ByteSet) /\ Len(t) \in Nat /\ Mqtt!Str(t) \in Seq(ByteSet) /\ Len(t) + 2 = Len(Mqtt!Str(t))
        BY StrIs
    <2>3. t = <<>> <=> Len(t) = 0
        BY <2>2
    <2>4. Len(Mqtt!Str(t)) = 2 + Len(t) /\ 2 + Len(t) \in Nat /\ 2 + Len(t) = Len(t) + 2
        BY <2>2
    <2>5. /\ Mqtt!Present(u) /\ u[1] = t
          /\ Mqtt!Texts(u) = Mqtt!Str(t) /\ Mqtt!LengthOf(u) = 2 + Len(t)
          /\ u = <<<<>>>> <=> t = <<>>
        BY <1>2, <2>1
    <2> QED BY <2>1, <2>2, <2>3, <2>4, <2>5
<1> QED BY <1>1, <1>3

LEMMA HereOptional ==
    ASSUME NEW u \in Maybe(Strings), NEW rest \in Seq(ByteSet), NEW s, NEW i,
           Here(s, i, Mqtt!Texts(u) \o rest)
    PROVE  LET j == IF Mqtt!Present(u) THEN i + Len(u[1]) + 2 ELSE i
           IN  OptionalThere(s, i, u, j) /\ Here(s, j, rest)
<1>1. CASE Mqtt!Present(u)
    <2>1. PICK j : j = i + Len(u[1]) + 2
        OBVIOUS
    <2>2. TextThere(s, i, u[1]) /\ Here(s, j, rest)
        BY <1>1, <2>1, TextsAre, HereText
    <2>3. j \in Nat
        BY <2>2, HereLength
    <2> QED BY <1>1, <2>1, <2>2, <2>3 DEF OptionalThere
<1>2. CASE ~Mqtt!Present(u)
    <2>1. Mqtt!Texts(u) \o rest = rest
        BY <1>2, TextsAre
    <2> QED BY <1>2, <2>1 DEF OptionalThere
<1> QED BY <1>1, <1>2

\* A will's two texts, and the seven parts of the body.
WillTexts(will) ==
    IF Mqtt!Present(will) THEN Mqtt!Str(will[1].topic) \o Mqtt!Str(will[1].message) ELSE <<>>

LevelOf(version) == IF version = 4 THEN 4 ELSE 3

ConnectBody(o) ==
    Mqtt!Str(Mqtt!Protocol(o.version)) \o <<LevelOf(o.version), Mqtt!ConnectFlags(o)>>
    \o Mqtt!TwoBytes(o.keepAlive) \o Mqtt!Str(o.clientID) \o WillTexts(o.will)
    \o Mqtt!Texts(o.username) \o Mqtt!Texts(o.password)

WillLength(will) ==
    IF Mqtt!Present(will) THEN 4 + Len(will[1].topic) + Len(will[1].message) ELSE 0

LEMMA WillIs ==
    ASSUME NEW will \in Maybe(SomeWills)
    PROVE  /\ WillTexts(will) \in Seq(ByteSet) /\ Len(WillTexts(will)) = WillLength(will)
           /\ WillLength(will) \in Nat
           /\ Mqtt!Present(will) => /\ will = <<will[1]>> /\ will[1] \in SomeWills
                                    /\ will[1].topic \in Strings /\ will[1].message \in Strings
           /\ ~Mqtt!Present(will) => will = <<>> /\ WillTexts(will) = <<>>
<1>1. CASE will = <<>>
    BY <1>1 DEF WillTexts, WillLength, Mqtt!Present
<1>2. CASE will # <<>>
    <2>1. PICK w \in SomeWills : will = <<w>>
        BY <1>2 DEF Maybe
    <2>2. will[1] = w
        BY <2>1
    <2>3. w.topic \in Strings /\ w.message \in Strings
        BY DEF SomeWills
    <2>4. PICK a, b : a = Mqtt!Str(w.topic) /\ b = Mqtt!Str(w.message)
        OBVIOUS
    <2>5. /\ a \in Seq(ByteSet) /\ b \in Seq(ByteSet) /\ Len(w.topic) \in Nat /\ Len(w.message) \in Nat
          /\ Len(w.topic) + 2 = Len(a) /\ Len(w.message) + 2 = Len(b)
        BY <2>3, <2>4, StrIs
    <2>6. a \o b \in Seq(ByteSet) /\ Len(a) + Len(b) = Len(a \o b)
        BY <2>5, TwoParts
    <2>7. Len(a \o b) = 4 + Len(w.topic) + Len(w.message)
        <3>1. PICK x, y \in Nat : x = Len(w.topic) /\ y = Len(w.message)
            BY <2>5
        <3>2. Len(a) = x + 2 /\ Len(b) = y + 2
            BY <2>5, <3>1
        <3>3. Len(a \o b) = (x + 2) + (y + 2)
            BY <2>6, <3>2
        <3>4. Len(a \o b) = 4 + x + y
            BY <3>3
        <3> QED BY <3>1, <3>4
    <2>8. 4 + Len(w.topic) + Len(w.message) \in Nat
        <3>1. PICK x, y \in Nat : x = Len(w.topic) /\ y = Len(w.message)
            BY <2>5
        <3>2. 4 + x + y \in Nat
            OBVIOUS
        <3> QED BY <3>1, <3>2
    <2>9. WillTexts(will) = a \o b /\ WillLength(will) = 4 + Len(w.topic) + Len(w.message) /\ Mqtt!Present(will)
        BY <1>2, <2>2, <2>4 DEF WillTexts, WillLength, Mqtt!Present
    <2> QED BY <2>1, <2>2, <2>3, <2>6, <2>7, <2>8, <2>9
<1> QED BY <1>1, <1>2

\* Brackets around the parts of a sequence.
IsSeq(S, a) == a \in Seq(S)
Nested3(a, b, c) == a \o b \o c = a \o (b \o c)
Nested4(a, b, c, d) == a \o b \o c \o d = a \o (b \o (c \o d))
Nested7(a, b, c, d, e, f, g) ==
    a \o b \o c \o d \o e \o f \o g = a \o (b \o (c \o (d \o (e \o (f \o g)))))

LEMMA NestedTwo ==
    ASSUME NEW S, NEW a, NEW b, IsSeq(S, a), IsSeq(S, b)
    PROVE  IsSeq(S, a \o b)
BY DEF IsSeq

LEMMA NestedThree ==
    ASSUME NEW S, NEW a, NEW b, NEW c, IsSeq(S, a), IsSeq(S, b), IsSeq(S, c)
    PROVE  Nested3(a, b, c) /\ IsSeq(S, a \o b \o c)
BY DEF IsSeq, Nested3

LEMMA NestedFour ==
    ASSUME NEW S, NEW a, NEW b, NEW c, NEW d, IsSeq(S, a), IsSeq(S, b), IsSeq(S, c), IsSeq(S, d)
    PROVE  Nested4(a, b, c, d)
BY SMTT(60) DEF IsSeq, Nested4

LEMMA SevenParts ==
    ASSUME NEW S, NEW a, NEW b, NEW c, NEW d, NEW e, NEW f, NEW g, IsSeq(S, a), IsSeq(S, b),
           IsSeq(S, c), IsSeq(S, d), IsSeq(S, e), IsSeq(S, f), IsSeq(S, g)
    PROVE  Nested7(a, b, c, d, e, f, g)
<1>1. PICK x : x = a \o b \o c
    OBVIOUS
<1>2. PICK z : z = f \o g
    OBVIOUS
<1>3. PICK y : y = d \o e \o z
    OBVIOUS
<1>4. IsSeq(S, x) /\ IsSeq(S, z)
    BY <1>1, <1>2, NestedTwo, NestedThree
<1>5. Nested3(d, e, z) /\ IsSeq(S, y)
    BY <1>3, <1>4, NestedThree
<1>6. PICK w : w = x \o d \o e
    OBVIOUS
<1>7. IsSeq(S, w)
    BY <1>4, <1>6, NestedThree
<1>8. Nested4(a, b, c, y)
    BY <1>5, NestedFour
<1>9. Nested4(x, d, e, z)
    BY <1>4, NestedFour
<1>10. Nested3(w, f, g)
    BY <1>7, NestedThree
<1> QED BY <1>1, <1>2, <1>3, <1>5, <1>6, <1>8, <1>9, <1>10, Zenon DEF Nested3, Nested4, Nested7

LengthsAdd(a, b, c, d, e, f, g) ==
    Len(a \o b \o c \o d \o e \o f \o g)
        = Len(a) + Len(b) + Len(c) + Len(d) + Len(e) + Len(f) + Len(g)

LEMMA SevenLengths ==
    ASSUME NEW S, NEW a, NEW b, NEW c, NEW d, NEW e, NEW f, NEW g, IsSeq(S, a), IsSeq(S, b),
           IsSeq(S, c), IsSeq(S, d), IsSeq(S, e), IsSeq(S, f), IsSeq(S, g)
    PROVE  /\ IsSeq(S, a \o b \o c \o d \o e \o f \o g)
           /\ LengthsAdd(a, b, c, d, e, f, g)
<1>1. IsSeq(S, a \o b \o c \o d \o e \o f \o g)
    BY DEF IsSeq
<1>2. LengthsAdd(a, b, c, d, e, f, g)
    BY DEF IsSeq, LengthsAdd
<1> QED BY <1>1, <1>2

LEMMA ProtocolIs ==
    ASSUME NEW v \in {3, 4}
    PROVE  /\ Mqtt!Protocol(v) \in Strings /\ Len(Mqtt!Protocol(v)) = IF v = 3 THEN 6 ELSE 4
           /\ LevelOf(v) = v /\ v \in ByteSet
<1>1. v = 3 => Mqtt!Protocol(v) = <<77, 81, 73, 115, 100, 112>>
    BY DEF Mqtt!Protocol
<1>2. v = 4 => Mqtt!Protocol(v) = <<77, 81, 84, 84>>
    BY DEF Mqtt!Protocol
<1>3. 77 \in ByteSet /\ 81 \in ByteSet /\ 73 \in ByteSet /\ 115 \in ByteSet /\ 100 \in ByteSet
      /\ 112 \in ByteSet /\ 84 \in ByteSet /\ v \in ByteSet
    BY DEF ByteSet
<1>4. 6 \in WordSet /\ 4 \in WordSet
    BY SMT DEF WordSet
<1>5. v = 3 => Mqtt!Protocol(v) \in Seq(ByteSet) /\ Len(Mqtt!Protocol(v)) = 6
    <2>1. PICK t : t = <<77, 81, 73, 115, 100, 112>>
        OBVIOUS
    <2>2. t \in Seq(ByteSet) /\ Len(t) = 6
        BY <1>3, <2>1
    <2> QED BY <1>1, <2>1, <2>2
<1>6. v = 4 => Mqtt!Protocol(v) \in Seq(ByteSet) /\ Len(Mqtt!Protocol(v)) = 4
    <2>1. PICK t : t = <<77, 81, 84, 84>>
        OBVIOUS
    <2>2. t \in Seq(ByteSet) /\ Len(t) = 4
        BY <1>3, <2>1
    <2> QED BY <1>2, <2>1, <2>2
<1> QED BY <1>3, <1>4, <1>5, <1>6 DEF Strings, LevelOf

\* The seven parts of o's body.
PartsOf(o, a, b, c, d, e, f, g) ==
    /\ a = Mqtt!Str(Mqtt!Protocol(o.version)) /\ b = <<LevelOf(o.version), Mqtt!ConnectFlags(o)>>
    /\ c = Mqtt!TwoBytes(o.keepAlive) /\ d = Mqtt!Str(o.clientID) /\ e = WillTexts(o.will)
    /\ f = Mqtt!Texts(o.username) /\ g = Mqtt!Texts(o.password)

LEMMA PartsTyped ==
    ASSUME NEW o, Connectable(o), NEW a, NEW b, NEW c, NEW d, NEW e, NEW f, NEW g,
           PartsOf(o, a, b, c, d, e, f, g)
    PROVE  /\ IsSeq(ByteSet, a) /\ IsSeq(ByteSet, b) /\ IsSeq(ByteSet, c) /\ IsSeq(ByteSet, d)
           /\ IsSeq(ByteSet, e) /\ IsSeq(ByteSet, f) /\ IsSeq(ByteSet, g)
           /\ Len(a) = (IF o.version = 3 THEN 8 ELSE 6) /\ Len(b) = 2 /\ Len(c) = 2
           /\ Len(d) = Len(o.clientID) + 2 /\ Len(e) = WillLength(o.will)
           /\ Len(f) = Mqtt!LengthOf(o.username) /\ Len(g) = Mqtt!LengthOf(o.password)
           /\ Len(o.clientID) \in Nat /\ WillLength(o.will) \in Nat
           /\ Mqtt!LengthOf(o.username) \in Nat /\ Mqtt!LengthOf(o.password) \in Nat
<1>1. /\ o.version \in {3, 4} /\ o.keepAlive \in WordSet /\ o.clientID \in Strings
      /\ o.will \in Maybe(SomeWills) /\ o.username \in Maybe(Strings) /\ o.password \in Maybe(Strings)
    BY DEF Connectable
<1>2. /\ a = Mqtt!Str(Mqtt!Protocol(o.version)) /\ b = <<LevelOf(o.version), Mqtt!ConnectFlags(o)>>
      /\ c = Mqtt!TwoBytes(o.keepAlive) /\ d = Mqtt!Str(o.clientID) /\ e = WillTexts(o.will)
      /\ f = Mqtt!Texts(o.username) /\ g = Mqtt!Texts(o.password)
    BY DEF PartsOf
<1>3. IsSeq(ByteSet, a) /\ Len(a) = IF o.version = 3 THEN 8 ELSE 6
    <2>1. PICK t : t = Mqtt!Protocol(o.version)
        OBVIOUS
    <2>2. t \in Strings /\ Len(t) = IF o.version = 3 THEN 6 ELSE 4
        BY <1>1, <2>1, ProtocolIs
    <2>3. a \in Seq(ByteSet) /\ Len(t) + 2 = Len(a)
        BY <1>2, <2>1, <2>2, StrIs
    <2> QED BY <2>2, <2>3 DEF IsSeq
<1>4. IsSeq(ByteSet, b) /\ Len(b) = 2
    <2>1. LevelOf(o.version) \in ByteSet /\ Mqtt!ConnectFlags(o) \in ByteSet
        BY <1>1, ProtocolIs, FlagsAre
    <2> QED BY <1>2, <2>1 DEF IsSeq
<1>5. IsSeq(ByteSet, c) /\ Len(c) = 2
    <2>1. c \in Seq(ByteSet) /\ 2 = Len(c)
        BY <1>1, <1>2, WordIs
    <2> QED BY <2>1 DEF IsSeq
<1>6. IsSeq(ByteSet, d) /\ Len(d) = Len(o.clientID) + 2 /\ Len(o.clientID) \in Nat
    <2>1. d \in Seq(ByteSet) /\ Len(o.clientID) + 2 = Len(d) /\ Len(o.clientID) \in Nat
        BY <1>1, <1>2, StrIs
    <2> QED BY <2>1 DEF IsSeq
<1>7. IsSeq(ByteSet, e) /\ Len(e) = WillLength(o.will) /\ WillLength(o.will) \in Nat
    BY <1>1, <1>2, WillIs DEF IsSeq
<1>8. /\ IsSeq(ByteSet, f) /\ Len(f) = Mqtt!LengthOf(o.username) /\ Mqtt!LengthOf(o.username) \in Nat
      /\ IsSeq(ByteSet, g) /\ Len(g) = Mqtt!LengthOf(o.password) /\ Mqtt!LengthOf(o.password) \in Nat
    BY <1>1, <1>2, TextsAre DEF IsSeq
<1> QED BY <1>3, <1>4, <1>5, <1>6, <1>7, <1>8

ConnectHead == Mqtt!Header(Mqtt!CONNECT, 0, 0, 0)

LEMMA ConnectPacked ==
    ASSUME NEW o, Connectable(o), Mqtt!ConnectLength(o) < LengthLimit
    PROVE  /\ Packable(ConnectHead, ConnectBody(o))
           /\ Len(ConnectBody(o)) = Mqtt!ConnectLength(o)
           /\ \A buflen \in Nat :
                 Mqtt!SerializeConnect(buflen, o)
                     = Mqtt!Serialized(buflen, ConnectHead, Len(ConnectBody(o)), ConnectBody(o))
<1>1. PICK a, b, c, d, e, f, g : PartsOf(o, a, b, c, d, e, f, g)
    BY Zenon DEF PartsOf
<1>2. PICK s : s = a \o b \o c \o d \o e \o f \o g
    OBVIOUS
<1>3. s = ConnectBody(o)
    BY <1>1, <1>2, Zenon DEF PartsOf, ConnectBody
<1>4. /\ IsSeq(ByteSet, a) /\ IsSeq(ByteSet, b) /\ IsSeq(ByteSet, c) /\ IsSeq(ByteSet, d)
      /\ IsSeq(ByteSet, e) /\ IsSeq(ByteSet, f) /\ IsSeq(ByteSet, g)
    BY <1>1, PartsTyped
<1>5. IsSeq(ByteSet, s) /\ LengthsAdd(a, b, c, d, e, f, g)
    BY <1>2, <1>4, SevenLengths
<1>6. Len(s) = Mqtt!ConnectLength(o)
    <2>1. PICK i, w, u, p \in Nat : /\ i = Len(o.clientID) /\ w = WillLength(o.will)
                                    /\ u = Mqtt!LengthOf(o.username) /\ p = Mqtt!LengthOf(o.password)
        BY <1>1, PartsTyped
    <2>2. /\ Len(a) = (IF o.version = 3 THEN 8 ELSE 6) /\ Len(b) = 2 /\ Len(c) = 2
          /\ Len(d) = i + 2 /\ Len(e) = w /\ Len(f) = u /\ Len(g) = p
        BY <1>1, <2>1, PartsTyped
    <2>3. Len(s) = (IF o.version = 3 THEN 8 ELSE 6) + 2 + 2 + (i + 2) + w + u + p
        BY <1>2, <1>5, <2>2, Zenon DEF LengthsAdd
    <2>4. o.version \in {3, 4}
        BY DEF Connectable
    <2>5. Mqtt!ConnectLength(o) = (IF o.version = 3 THEN 12 ELSE 10) + i + 2 + w + u + p
        BY <2>1, <2>4 DEF Mqtt!ConnectLength, WillLength
    <2>6. CASE o.version = 3
        BY <2>1, <2>3, <2>5, <2>6
    <2>7. CASE o.version = 4
        BY <2>1, <2>3, <2>5, <2>7
    <2> QED BY <2>4, <2>6, <2>7
<1>7. ConnectHead \in ByteSet
    BY HeaderIs DEF ConnectHead, Mqtt!CONNECT
<1>8. Packable(ConnectHead, s)
    BY <1>5, <1>6, <1>7 DEF Packable, IsSeq
<1>9. \A buflen : Mqtt!SerializeConnect(buflen, o) = Mqtt!Serialized(buflen, ConnectHead, Len(s), s)
    BY <1>3, <1>6, Zenon DEF Mqtt!SerializeConnect, ConnectBody, ConnectHead, WillTexts, LevelOf
<1> QED BY <1>3, <1>6, <1>8, <1>9

\* Where the parts of o's body are: from at, where the version is, to last,
\* where the password is.
PlacesOf(o, s, at, id, will, message, name, last) ==
    /\ TextThere(s, 1, Mqtt!Protocol(o.version)) /\ at = Mqtt!AfterStr(s, 1)
    /\ at \in Nat /\ s[at] = o.version /\ s[at + 1] = Mqtt!ConnectFlags(o)
    /\ Mqtt!IntAt(s, at + 2) = o.keepAlive
    /\ id = at + 4 /\ TextThere(s, id, o.clientID) /\ will = Mqtt!AfterStr(s, id)
    /\ IF Mqtt!Present(o.will)
       THEN /\ TextThere(s, will, o.will[1].topic) /\ message = Mqtt!AfterStr(s, will)
            /\ TextThere(s, message, o.will[1].message) /\ name = Mqtt!AfterStr(s, message)
       ELSE message = will /\ name = will
    /\ Here(s, name, Mqtt!Texts(o.username) \o Mqtt!Texts(o.password))
    /\ Here(s, last, Mqtt!Texts(o.password))
    /\ IF Mqtt!Present(o.username)
       THEN TextThere(s, name, o.username[1]) /\ last = Mqtt!AfterStr(s, name)
       ELSE last = name
    /\ Mqtt!Present(o.password) => TextThere(s, last, o.password[1])

LEMMA ConnectPlaces ==
    ASSUME NEW o, Connectable(o)
    PROVE  \E at, id, will, message, name, last :
               PlacesOf(o, ConnectBody(o), at, id, will, message, name, last)
<1>0. /\ o.version \in {3, 4} /\ o.keepAlive \in WordSet /\ o.clientID \in Strings
      /\ o.will \in Maybe(SomeWills) /\ o.username \in Maybe(Strings) /\ o.password \in Maybe(Strings)
    BY DEF Connectable
<1>1. PICK a, b, c, d, e, f, g : PartsOf(o, a, b, c, d, e, f, g)
    BY Zenon DEF PartsOf
<1>2. /\ IsSeq(ByteSet, a) /\ IsSeq(ByteSet, b) /\ IsSeq(ByteSet, c) /\ IsSeq(ByteSet, d)
      /\ IsSeq(ByteSet, e) /\ IsSeq(ByteSet, f) /\ IsSeq(ByteSet, g)
    BY <1>1, PartsTyped
<1>3. PICK fg, efg, dg, cg, bg : /\ fg = f \o g /\ efg = e \o fg /\ dg = d \o efg
                                 /\ cg = c \o dg /\ bg = b \o cg
    OBVIOUS
<1>4. IsSeq(ByteSet, fg) /\ IsSeq(ByteSet, efg) /\ IsSeq(ByteSet, dg)
    BY <1>2, <1>3, NestedTwo
<1>5. IsSeq(ByteSet, cg) /\ IsSeq(ByteSet, bg)
    BY <1>2, <1>3, <1>4, NestedTwo
<1>6. PICK s : s = ConnectBody(o)
    OBVIOUS
<1>7. s = a \o bg
    <2>1. s = a \o b \o c \o d \o e \o f \o g
        BY <1>1, <1>6, Zenon DEF PartsOf, ConnectBody
    <2>2. Nested7(a, b, c, d, e, f, g)
        BY <1>2, SevenParts
    <2> QED BY <1>3, <2>1, <2>2, Zenon DEF Nested7
<1>8. Here(s, 1, s)
    <2>1. IsSeq(ByteSet, s)
        BY <1>2, <1>5, <1>7, NestedTwo
    <2> QED BY <2>1, HereWhole DEF IsSeq
<1>9. PICK at : at = 1 + Len(Mqtt!Protocol(o.version)) + 2
    OBVIOUS
<1>10. TextThere(s, 1, Mqtt!Protocol(o.version)) /\ Here(s, at, bg) /\ at = Mqtt!AfterStr(s, 1)
    <2>1. PICK t : t = Mqtt!Protocol(o.version)
        OBVIOUS
    <2>2. t \in Strings /\ a = Mqtt!Str(t)
        BY <1>0, <1>1, <2>1, ProtocolIs DEF PartsOf
    <2>3. bg \in Seq(ByteSet) /\ Here(s, 1, Mqtt!Str(t) \o bg)
        BY <1>5, <1>7, <1>8, <2>2 DEF IsSeq
    <2>4. TextThere(s, 1, t) /\ Here(s, 1 + Len(t) + 2, bg)
        BY <2>2, <2>3, HereText
    <2> QED BY <1>9, <2>1, <2>4 DEF TextThere
<1>11. at \in Nat
    BY <1>10, HereLength
<1>12. s[at] = o.version /\ s[at + 1] = Mqtt!ConnectFlags(o) /\ Here(s, at + 2, cg)
    <2>1. PICK v, fl : v = o.version /\ fl = Mqtt!ConnectFlags(o)
        OBVIOUS
    <2>2. v \in ByteSet /\ fl \in ByteSet /\ b = <<v, fl>>
        BY <1>0, <1>1, <2>1, ProtocolIs, FlagsAre DEF PartsOf
    <2>3. bg = <<v>> \o (<<fl>> \o cg) /\ <<fl>> \o cg \in Seq(ByteSet) /\ cg \in Seq(ByteSet)
        <3>1. cg \in Seq(ByteSet) /\ <<v>> \in Seq(ByteSet) /\ <<fl>> \in Seq(ByteSet)
            BY <1>5, <2>2 DEF IsSeq
        <3>2. <<v>> \o <<fl>> = b
            <4>1. PICK x, y : x = <<v>> /\ y = <<fl>>
                OBVIOUS
            <4>2. /\ x \in Seq(ByteSet) /\ Len(x) = 1 /\ x[1] = v
                  /\ y \in Seq(ByteSet) /\ Len(y) = 1 /\ y[1] = fl
                  /\ b \in Seq(ByteSet) /\ Len(b) = 2 /\ b[1] = v /\ b[2] = fl
                BY <2>2, <4>1
            <4>3. PICK z : z = x \o y
                OBVIOUS
            <4>4. z \in Seq(ByteSet) /\ Len(z) = 2 /\ z[1] = v /\ z[2] = fl
                <5>1. /\ z \in Seq(ByteSet) /\ Len(x) + Len(y) = Len(z)
                      /\ \A i \in 1..Len(x) : z[i] = x[i]
                      /\ \A i \in 1..Len(y) : z[Len(x) + i] = y[i]
                    <6>1. x \in Seq(ByteSet) /\ y \in Seq(ByteSet)
                        BY <4>2
                    <6> QED BY <4>3, <6>1, TwoParts
                <5>2. 1 \in 1..Len(x) /\ 1 \in 1..Len(y) /\ Len(x) + 1 = 2 /\ Len(x) + Len(y) = 2
                    BY <4>2
                <5>3. Len(z) = 2
                    BY <5>1, <5>2
                <5>4. z[1] = x[1] /\ z[2] = y[1]
                    BY <5>1, <5>2
                <5> QED BY <4>2, <5>1, <5>3, <5>4
            <4>5. Len(z) = Len(b) /\ \A i \in 1..Len(z) : z[i] = b[i]
                BY <4>2, <4>4
            <4>6. z = b
                BY <4>2, <4>4, <4>5, Same
            <4> QED BY <4>1, <4>3, <4>6, Zenon
        <3>3. <<v>> \o (<<fl>> \o cg) = <<v>> \o <<fl>> \o cg
            BY <3>1, Regrouped
        <3>4. <<fl>> \o cg \in Seq(ByteSet)
            BY <3>1, TwoParts
        <3> QED BY <1>3, <3>1, <3>2, <3>3, <3>4
    <2>4. s[at] = v /\ Here(s, at + 1, <<fl>> \o cg)
        <3>1. PICK x : x = <<fl>> \o cg
            OBVIOUS
        <3>2. x \in Seq(ByteSet) /\ Here(s, at, <<v>> \o x)
            BY <1>10, <2>3, <3>1, Zenon
        <3>3. s[at] = v /\ Here(s, at + 1, x)
            BY <2>2, <3>2, HereByte
        <3> QED BY <3>1, <3>3, Zenon
    <2>5. s[at + 1] = fl /\ Here(s, (at + 1) + 1, cg)
        BY <2>2, <2>3, <2>4, HereByte
    <2>6. (at + 1) + 1 = at + 2
        BY <1>11
    <2> QED BY <2>1, <2>4, <2>5, <2>6
<1>13. Mqtt!IntAt(s, at + 2) = o.keepAlive /\ Here(s, at + 4, dg)
    <2>1. dg \in Seq(ByteSet) /\ Here(s, at + 2, Mqtt!TwoBytes(o.keepAlive) \o dg)
        BY <1>1, <1>3, <1>4, <1>12 DEF PartsOf, IsSeq
    <2>2. Mqtt!IntAt(s, at + 2) = o.keepAlive /\ Here(s, (at + 2) + 2, dg)
        BY <1>0, <2>1, HereWord
    <2>3. (at + 2) + 2 = at + 4
        BY <1>11
    <2> QED BY <2>2, <2>3
<1>14. PICK id : id = at + 4
    OBVIOUS
<1>15. PICK will : will = id + Len(o.clientID) + 2
    OBVIOUS
<1>16. TextThere(s, id, o.clientID) /\ Here(s, will, efg) /\ will = Mqtt!AfterStr(s, id)
    <2>1. efg \in Seq(ByteSet) /\ Here(s, id, Mqtt!Str(o.clientID) \o efg)
        BY <1>1, <1>3, <1>4, <1>13, <1>14 DEF PartsOf, IsSeq
    <2>2. TextThere(s, id, o.clientID) /\ Here(s, id + Len(o.clientID) + 2, efg)
        BY <1>0, <2>1, HereText
    <2> QED BY <1>15, <2>2 DEF TextThere
<1>17. PICK message, name :
           /\ Here(s, name, fg)
           /\ IF Mqtt!Present(o.will)
              THEN /\ TextThere(s, will, o.will[1].topic) /\ message = Mqtt!AfterStr(s, will)
                   /\ TextThere(s, message, o.will[1].message) /\ name = Mqtt!AfterStr(s, message)
              ELSE message = will /\ name = will
    <2>1. CASE Mqtt!Present(o.will)
        <3>1. PICK t, m : t = o.will[1].topic /\ m = o.will[1].message
            OBVIOUS
        <3>2. t \in Strings /\ m \in Strings
            BY <1>0, <2>1, <3>1, WillIs
        <3>3. PICK ts, ms : ts = Mqtt!Str(t) /\ ms = Mqtt!Str(m)
            OBVIOUS
        <3>4. ts \in Seq(ByteSet) /\ ms \in Seq(ByteSet) /\ fg \in Seq(ByteSet)
            BY <1>4, <3>2, <3>3, StrIs DEF IsSeq
        <3>5. e = ts \o ms
            BY <1>1, <2>1, <3>1, <3>3 DEF PartsOf, WillTexts
        <3>6. ts \o (ms \o fg) = ts \o ms \o fg /\ ms \o fg \in Seq(ByteSet)
            BY <3>4, Regrouped, TwoParts
        <3>7. Here(s, will, ts \o (ms \o fg))
            BY <1>3, <1>16, <3>5, <3>6
        <3>8. TextThere(s, will, t) /\ Here(s, will + Len(t) + 2, ms \o fg)
            BY <3>2, <3>3, <3>6, <3>7, HereText
        <3>9. PICK message : message = will + Len(t) + 2
            OBVIOUS
        <3>10. TextThere(s, message, m) /\ Here(s, message + Len(m) + 2, fg)
            BY <3>2, <3>3, <3>4, <3>8, <3>9, HereText
        <3>11. PICK name : name = message + Len(m) + 2
            OBVIOUS
        <3>12. message = Mqtt!AfterStr(s, will) /\ name = Mqtt!AfterStr(s, message)
            BY <3>8, <3>9, <3>10, <3>11 DEF TextThere
        <3>13. Here(s, name, fg)
            BY <3>10, <3>11
        <3> QED BY <2>1, <3>1, <3>8, <3>10, <3>12, <3>13, Zenon
    <2>2. CASE ~Mqtt!Present(o.will)
        <3>1. e = <<>>
            BY <1>1, <2>2 DEF PartsOf, WillTexts
        <3>2. fg \in Seq(ByteSet)
            BY <1>4 DEF IsSeq
        <3>3. efg = fg
            BY <1>3, <3>1, <3>2
        <3> QED BY <1>16, <2>2, <3>3, Zenon
    <2> QED BY <2>1, <2>2
<1>18. PICK last : last = IF Mqtt!Present(o.username) THEN name + Len(o.username[1]) + 2 ELSE name
    OBVIOUS
<1>19. OptionalThere(s, name, o.username, last) /\ Here(s, last, g)
    <2>1. Here(s, name, Mqtt!Texts(o.username) \o g) /\ g \in Seq(ByteSet)
        BY <1>1, <1>2, <1>3, <1>17 DEF PartsOf, IsSeq
    <2> QED BY <1>0, <1>18, <2>1, HereOptional
<1>20. Mqtt!Present(o.password) => TextThere(s, last, o.password[1])
    <2>1. g = Mqtt!Texts(o.password) /\ g \in Seq(ByteSet) /\ <<>> \in Seq(ByteSet)
        BY <1>1, <1>2 DEF PartsOf, IsSeq
    <2>2. g \o <<>> = g
        BY <2>1
    <2>3. PICK j : j = IF Mqtt!Present(o.password) THEN last + Len(o.password[1]) + 2 ELSE last
        OBVIOUS
    <2>4. OptionalThere(s, last, o.password, j)
        BY <1>0, <1>19, <2>1, <2>2, <2>3, HereOptional, ZenonT(60)
    <2> QED BY <2>4 DEF OptionalThere
<1>21. IF Mqtt!Present(o.username)
       THEN TextThere(s, name, o.username[1]) /\ last = Mqtt!AfterStr(s, name)
       ELSE last = name
    BY <1>18, <1>19, Zenon DEF OptionalThere, TextThere
<1>22. /\ Here(s, name, Mqtt!Texts(o.username) \o Mqtt!Texts(o.password))
       /\ Here(s, last, Mqtt!Texts(o.password))
    BY <1>1, <1>3, <1>17, <1>19, Zenon DEF PartsOf
<1>23. PlacesOf(o, s, at, id, will, message, name, last)
    BY <1>10, <1>11, <1>12, <1>13, <1>14, <1>16, <1>17, <1>20, <1>21, <1>22, Zenon DEF PlacesOf
<1> QED BY <1>6, <1>23, Zenon

\* What a server refuses: a password without a name, and an empty text at
\* the end.
ConnectRefused(o) ==
    \/ o.password # <<>> /\ (o.username = <<>> \/ o.password = <<<<>>>>)
    \/ o.password = <<>> /\ o.username = <<<<>>>>

LEMMA VersionIsKnown ==
    ASSUME NEW v \in {3, 4}
    PROVE  Mqtt!VersionKnown(Mqtt!Protocol(v), v)
<1>1. PICK t, n : t = Mqtt!Protocol(v) /\ n = Len(t)
    OBVIOUS
<1>2. t \in Seq(ByteSet) /\ n \in Nat
    BY <1>1, ProtocolIs DEF Strings
<1>3. Mqtt!Min({n, n}) = n
    <2>1. PICK one : one = {n, n}
        OBVIOUS
    <2>2. one \in SUBSET Int /\ n \in one /\ \A x \in one : n <= x
        BY <1>2, <2>1
    <2>3. Min(one) = n
        BY <2>2, MinIs
    <2> QED BY <2>1, <2>3 DEF Mqtt!Min, Min
<1>4. SubSeq(t, 1, n) = t
    BY <1>1, <1>2
<1>5. Mqtt!IsPrefix(t, t)
    <2>1. Len(t) <= Len(t)
        BY <1>1, <1>2
    <2> QED BY <2>1, Zenon DEF Mqtt!IsPrefix
<1>6. Mqtt!IsPrefix(SubSeq(t, 1, Mqtt!Min({n, n})), t)
    BY <1>3, <1>4, <1>5
<1> QED BY <1>1, <1>6, Zenon DEF Mqtt!VersionKnown

LEMMA TextsFitUnlessRefused ==
    ASSUME NEW o, Connectable(o), NEW s, NEW at, NEW id, NEW will, NEW message, NEW name, NEW last,
           PlacesOf(o, s, at, id, will, message, name, last)
    PROVE  Mqtt!TextsFit(s, Mqtt!ConnectFlags(o),
               [clientID |-> id, topic |-> will, message |-> message, name |-> name, password |-> last])
               = ~ConnectRefused(o)
<1>1. PICK u, p, place : /\ u = o.username /\ p = o.password
                         /\ place = [clientID |-> id, topic |-> will, message |-> message,
                                     name |-> name, password |-> last]
    OBVIOUS
<1>2. /\ Mqtt!StrFits(s, id)
      /\ Mqtt!Present(o.will) => Mqtt!StrFits(s, will) /\ Mqtt!StrFits(s, message)
      /\ Mqtt!Present(u) => Mqtt!StrFits(s, name)
      /\ Mqtt!Present(p) => Mqtt!StrFits(s, last)
    BY <1>1, Zenon DEF PlacesOf, TextThere
<1>3. u \in Maybe(Strings) /\ p \in Maybe(Strings)
    BY <1>1 DEF Connectable
<1>4. PICK lu, lp \in Nat : lu = Mqtt!LengthOf(u) /\ lp = Mqtt!LengthOf(p)
    BY <1>3, TextsAre
<1>5. name \in Nat /\ last \in Nat /\ Len(s) \in Nat
    BY HereLength DEF PlacesOf
<1>6. Len(s) - name + 1 = lu + lp
    <2>1. PICK tu, tp : tu = Mqtt!Texts(u) /\ tp = Mqtt!Texts(p)
        OBVIOUS
    <2>2. tu \in Seq(ByteSet) /\ tp \in Seq(ByteSet)
        BY <1>3, <2>1, TextsAre
    <2>3. Len(tu) + Len(tp) = Len(tu \o tp)
        BY <2>2, TwoParts
    <2>4. Len(tu) = lu /\ Len(tp) = lp
        BY <1>3, <1>4, <2>1, TextsAre
    <2>5. Len(tu \o tp) = lu + lp
        BY <2>3, <2>4
    <2>6. Here(s, name, tu \o tp)
        BY <1>1, <2>1, Zenon DEF PlacesOf
    <2>7. Len(s) = name + Len(tu \o tp) - 1
        BY <2>6, HereLength, ZenonT(90)
    <2> QED BY <1>5, <2>5, <2>7
<1>7. Len(s) - last + 1 = lp
    <2>1. PICK tp : tp = Mqtt!Texts(p)
        OBVIOUS
    <2>2. Len(tp) = lp
        BY <1>3, <1>4, <2>1, TextsAre
    <2>3. Here(s, last, tp)
        BY <1>1, <2>1, Zenon DEF PlacesOf
    <2>4. Len(s) = last + Len(tp) - 1
        BY <2>3, HereLength
    <2> QED BY <1>5, <2>2, <2>4
<1>8. /\ ~Mqtt!Present(u) <=> u = <<>>
      /\ ~Mqtt!Present(p) <=> p = <<>>
      /\ ~Mqtt!Present(p) => lp = 0
      /\ Mqtt!Present(u) => lu >= 2 /\ (lu = 2 <=> u = <<<<>>>>)
      /\ Mqtt!Present(p) => lp >= 2 /\ (lp = 2 <=> p = <<<<>>>>)
    <2>1. ASSUME NEW x \in Maybe(Strings), Mqtt!Present(x)
          PROVE  Mqtt!LengthOf(x) >= 2 /\ (Mqtt!LengthOf(x) = 2 <=> x = <<<<>>>>)
        <3>1. /\ Mqtt!LengthOf(x) = Len(x[1]) + 2 /\ Len(x[1]) \in Nat
              /\ x = <<<<>>>> <=> Len(x[1]) = 0
            BY <2>1, TextsAre
        <3> QED BY <3>1
    <2>2. (~Mqtt!Present(u) <=> u = <<>>) /\ (~Mqtt!Present(p) <=> p = <<>>)
        BY DEF Mqtt!Present
    <2>3. ~Mqtt!Present(p) => lp = 0
        BY <1>3, <1>4, TextsAre
    <2>4. Mqtt!Present(u) => lu >= 2 /\ (lu = 2 <=> u = <<<<>>>>)
        BY <1>3, <1>4, <2>1
    <2>5. Mqtt!Present(p) => lp >= 2 /\ (lp = 2 <=> p = <<<<>>>>)
        BY <1>3, <1>4, <2>1
    <2> QED BY <2>2, <2>3, <2>4, <2>5
<1>9. Mqtt!Present(u) => (Mqtt!LongEnough(s, name) <=> ~(u = <<<<>>>> /\ p = <<>>))
    <2>1. Mqtt!Present(u) => (lu + lp >= 3 <=> ~(u = <<<<>>>> /\ p = <<>>))
        <3>1. CASE p = <<>>
            BY <1>8, <3>1
        <3>2. CASE p # <<>>
            BY <1>8, <3>2
        <3> QED BY <3>1, <3>2
    <2> QED BY <1>2, <1>6, <2>1, Zenon DEF Mqtt!LongEnough
<1>10. Mqtt!Present(p) => (Mqtt!LongEnough(s, last) <=> p # <<<<>>>>)
    <2>1. Mqtt!Present(p) => (lp >= 3 <=> p # <<<<>>>>)
        BY <1>8
    <2> QED BY <1>2, <1>7, <2>1, Zenon DEF Mqtt!LongEnough
<1>11. PICK flags : flags = Mqtt!ConnectFlags(o)
    OBVIOUS
<1>12. /\ Mqtt!Bit(flags, 4) = 1 <=> Mqtt!Present(o.will)
       /\ Mqtt!Bit(flags, 128) = 1 <=> Mqtt!Present(u)
       /\ Mqtt!Bit(flags, 64) = 1 <=> Mqtt!Present(p)
    BY <1>1, <1>11, FlagsAre
<1>13. /\ place.clientID = id /\ place.topic = will /\ place.message = message
       /\ place.name = name /\ place.password = last
    BY <1>1
<1>14. Mqtt!TextsFit(s, flags, place) <=>
           /\ Mqtt!Present(u) => ~(u = <<<<>>>> /\ p = <<>>)
           /\ Mqtt!Present(p) => Mqtt!Present(u) /\ p # <<<<>>>>
    BY <1>2, <1>9, <1>10, <1>12, <1>13, Zenon DEF Mqtt!TextsFit
<1>15. Mqtt!TextsFit(s, flags, place) <=> ~ConnectRefused(o)
    BY <1>1, <1>8, <1>14 DEF ConnectRefused
<1>16. Mqtt!TextsFit(s, flags, place) \in BOOLEAN /\ (~ConnectRefused(o)) \in BOOLEAN
    BY DEF Mqtt!TextsFit, ConnectRefused
<1> QED BY <1>1, <1>11, <1>15, <1>16, Zenon

LEMMA ConnectIsRead ==
    ASSUME NEW o, Connectable(o), Mqtt!ConnectLength(o) < LengthLimit
    PROVE  Mqtt!DeserializeConnect(Packet(ConnectHead, ConnectBody(o)))
               = IF ConnectRefused(o) THEN [rc |-> 0]
                 ELSE [rc |-> 1, clean |-> o.clean, keepAlive |-> o.keepAlive, clientID |-> o.clientID,
                       will |-> o.will, username |-> o.username, password |-> o.password]
<1>1. PICK s, p, flags : /\ s = ConnectBody(o) /\ p = Packet(ConnectHead, s)
                         /\ flags = Mqtt!ConnectFlags(o)
    OBVIOUS
<1>2. p[1] = ConnectHead /\ Mqtt!BodyOf(p) = s
    BY <1>1, ConnectPacked, BodyIs
<1>3. Mqtt!TypeOf(p) = Mqtt!CONNECT
    BY <1>2, HeaderIs DEF ConnectHead, Mqtt!CONNECT, Mqtt!TypeOf
<1>4. PICK at, id, will, message, name, last : PlacesOf(o, s, at, id, will, message, name, last)
    BY <1>1, ConnectPlaces
<1>5. PICK place : place = [clientID |-> id, topic |-> will, message |-> message,
                            name |-> name, password |-> last]
    OBVIOUS
<1>6. /\ flags \in ByteSet /\ Mqtt!Bit(flags, 2) = o.clean
      /\ Mqtt!Bit(flags, 4) = IF Mqtt!Present(o.will) THEN 1 ELSE 0
      /\ Mqtt!Bit(flags, 128) = IF Mqtt!Present(o.username) THEN 1 ELSE 0
      /\ Mqtt!Bit(flags, 64) = IF Mqtt!Present(o.password) THEN 1 ELSE 0
      /\ Mqtt!Present(o.will) => /\ (flags \div 8) % 4 = o.will[1].qos
                                 /\ Mqtt!Bit(flags, 32) = o.will[1].retained
    BY <1>1, FlagsAre
<1>7. /\ TextThere(s, 1, Mqtt!Protocol(o.version)) /\ at = Mqtt!AfterStr(s, 1)
      /\ s[at] = o.version /\ s[at + 1] = flags /\ Mqtt!IntAt(s, at + 2) = o.keepAlive
      /\ id = at + 4 /\ TextThere(s, id, o.clientID) /\ will = Mqtt!AfterStr(s, id)
      /\ Mqtt!Present(o.will) =>
            /\ TextThere(s, will, o.will[1].topic) /\ message = Mqtt!AfterStr(s, will)
            /\ TextThere(s, message, o.will[1].message) /\ name = Mqtt!AfterStr(s, message)
      /\ ~Mqtt!Present(o.will) => message = will /\ name = will
      /\ Mqtt!Present(o.username) =>
            TextThere(s, name, o.username[1]) /\ last = Mqtt!AfterStr(s, name)
      /\ ~Mqtt!Present(o.username) => last = name
      /\ Mqtt!Present(o.password) => TextThere(s, last, o.password[1])
    BY <1>1, <1>4, Zenon DEF PlacesOf
<1>8. Mqtt!TextPlaces(s, at + 4, flags) = place
    <2>1. message = IF Mqtt!Bit(flags, 4) = 1 THEN Mqtt!AfterStr(s, will) ELSE will
        BY <1>6, <1>7
    <2>2. name = IF Mqtt!Bit(flags, 4) = 1 THEN Mqtt!AfterStr(s, message) ELSE message
        BY <1>6, <1>7
    <2>3. last = IF Mqtt!Bit(flags, 128) = 1 THEN Mqtt!AfterStr(s, name) ELSE name
        BY <1>6, <1>7
    <2> QED BY <1>5, <1>7, <2>1, <2>2, <2>3, Zenon DEF Mqtt!TextPlaces
<1>9. Mqtt!TextsFit(s, flags, place) = ~ConnectRefused(o)
    BY <1>1, <1>4, <1>5, TextsFitUnlessRefused
<1>10. Mqtt!StrFits(s, 1) /\ Mqtt!VersionKnown(Mqtt!StrAt(s, 1), s[at])
    <2>1. o.version \in {3, 4}
        BY DEF Connectable
    <2>2. Mqtt!VersionKnown(Mqtt!Protocol(o.version), o.version)
        BY <2>1, VersionIsKnown
    <2> QED BY <1>7, <2>2, Zenon DEF TextThere
<1>11. CASE ConnectRefused(o)
    <2>1. Mqtt!DeserializeConnect(p) = [rc |-> 0]
        BY <1>2, <1>7, <1>8, <1>9, <1>11, Zenon DEF Mqtt!DeserializeConnect
    <2> QED BY <1>1, <1>11, <2>1
<1>12. CASE ~ConnectRefused(o)
    <2>1. /\ place.clientID = id /\ place.topic = will /\ place.message = message
          /\ place.name = name /\ place.password = last
        BY <1>5
    <2>2. Mqtt!StrAt(s, place.clientID) = o.clientID
        BY <1>7, <2>1, Zenon DEF TextThere
    <2>3. (IF Mqtt!Bit(flags, 4) = 0 THEN <<>>
           ELSE <<[qos |-> (flags \div 8) % 4, retained |-> Mqtt!Bit(flags, 32),
                   topic |-> Mqtt!StrAt(s, place.topic),
                   message |-> Mqtt!StrAt(s, place.message)]>>) = o.will
        <3>1. o.will \in Maybe(SomeWills)
            BY DEF Connectable
        <3>2. CASE Mqtt!Present(o.will)
            <4>1. o.will = <<o.will[1]>> /\ o.will[1] \in SomeWills
                BY <3>1, <3>2, WillIs
            <4>2. PICK w : w = o.will[1]
                OBVIOUS
            <4>3. w = [qos |-> w.qos, retained |-> w.retained, topic |-> w.topic, message |-> w.message]
                BY <4>1, <4>2 DEF SomeWills
            <4>4. /\ (flags \div 8) % 4 = w.qos /\ Mqtt!Bit(flags, 32) = w.retained
                  /\ Mqtt!StrAt(s, place.topic) = w.topic /\ Mqtt!StrAt(s, place.message) = w.message
                BY <1>6, <1>7, <2>1, <3>2, <4>2, Zenon DEF TextThere
            <4>5. ~(Mqtt!Bit(flags, 4) = 0)
                BY <1>6, <3>2
            <4> QED BY <4>1, <4>2, <4>3, <4>4, <4>5, Zenon
        <3>3. CASE ~Mqtt!Present(o.will)
            <4>1. o.will = <<>> /\ Mqtt!Bit(flags, 4) = 0
                BY <1>6, <3>1, <3>3, WillIs
            <4> QED BY <4>1, Zenon
        <3> QED BY <3>2, <3>3
    <2>4. (IF Mqtt!Bit(flags, 128) = 0 THEN <<>> ELSE <<Mqtt!StrAt(s, place.name)>>) = o.username
        <3>1. o.username \in Maybe(Strings)
            BY DEF Connectable
        <3>2. CASE Mqtt!Present(o.username)
            <4>1. o.username = <<o.username[1]>> /\ ~(Mqtt!Bit(flags, 128) = 0)
                BY <1>6, <3>1, <3>2, TextsAre
            <4>2. Mqtt!StrAt(s, place.name) = o.username[1]
                BY <1>7, <2>1, <3>2, Zenon DEF TextThere
            <4> QED BY <4>1, <4>2, Zenon
        <3>3. CASE ~Mqtt!Present(o.username)
            <4>1. o.username = <<>> /\ Mqtt!Bit(flags, 128) = 0
                BY <1>6, <3>1, <3>3, TextsAre
            <4> QED BY <4>1, Zenon
        <3> QED BY <3>2, <3>3
    <2>5. (IF Mqtt!Bit(flags, 64) = 0 THEN <<>> ELSE <<Mqtt!StrAt(s, place.password)>>) = o.password
        <3>1. o.password \in Maybe(Strings)
            BY DEF Connectable
        <3>2. CASE Mqtt!Present(o.password)
            <4>1. o.password = <<o.password[1]>> /\ ~(Mqtt!Bit(flags, 64) = 0)
                BY <1>6, <3>1, <3>2, TextsAre
            <4>2. Mqtt!StrAt(s, place.password) = o.password[1]
                BY <1>7, <2>1, <3>2, Zenon DEF TextThere
            <4> QED BY <4>1, <4>2, Zenon
        <3>3. CASE ~Mqtt!Present(o.password)
            <4>1. o.password = <<>> /\ Mqtt!Bit(flags, 64) = 0
                BY <1>6, <3>1, <3>3, TextsAre
            <4> QED BY <4>1, Zenon
        <3> QED BY <3>2, <3>3
    <2>6. Mqtt!TextsFit(s, flags, place)
        BY <1>9, <1>12
    <2>7. Mqtt!DeserializeConnect(p)
              = [rc |-> 1, clean |-> o.clean, keepAlive |-> o.keepAlive, clientID |-> o.clientID,
                 will |-> o.will, username |-> o.username, password |-> o.password]
        BY <1>2, <1>3, <1>6, <1>7, <1>8, <1>10, <2>2, <2>3, <2>4, <2>5, <2>6, ZenonT(60)
           DEF Mqtt!DeserializeConnect
    <2> QED BY <1>1, <1>12, <2>7
<1> QED BY <1>11, <1>12

\* Any CONNECT, of either version and with any texts that fit the buffer,
\* with or without a will, a name and a password, is read as it was written:
\* the server finds what the client said, and refuses exactly a password
\* without a name and an empty text at the end (MQTTConnectClient.c:32-134,
\* MQTTConnectServer.c:41-115).
THEOREM ConnectionsReadBack ==
    ASSUME input.kind = "connect" => Connectable(input) /\ Mqtt!ConnectLength(input) + 6 <= Room
    PROVE  ConnectReadBack
<1> SUFFICES ASSUME input.kind = "connect" PROVE ConnectReadBack
    BY DEF ConnectReadBack
<1>1. PICK o, body, p : o = input /\ body = ConnectBody(o) /\ p = Packet(ConnectHead, body)
    OBVIOUS
<1>2. Connectable(o) /\ Mqtt!ConnectLength(o) + 6 <= Room
    BY <1>1
<1>3. Room \in Nat /\ Room < LengthLimit /\ LengthLimit \in Nat
    BY SMT DEF Room, LengthLimit
<1>4. Mqtt!ConnectLength(o) < LengthLimit /\ Mqtt!ConnectLength(o) \in Nat
    <2>1. /\ Len(o.clientID) \in Nat /\ WillLength(o.will) \in Nat
          /\ Mqtt!LengthOf(o.username) \in Nat /\ Mqtt!LengthOf(o.password) \in Nat
        BY <1>2, StrIs, WillIs, TextsAre DEF Connectable
    <2>2. PICK i, w, u, q \in Nat : /\ i = Len(o.clientID) /\ w = WillLength(o.will)
                                    /\ u = Mqtt!LengthOf(o.username) /\ q = Mqtt!LengthOf(o.password)
        BY <2>1
    <2>3. PICK n : n = Mqtt!ConnectLength(o)
        OBVIOUS
    <2>4. n = (IF o.version = 3 THEN 12 ELSE IF o.version = 4 THEN 10 ELSE 0) + i + 2 + w + u + q
        BY <2>2, <2>3 DEF Mqtt!ConnectLength, WillLength
    <2>5. n \in Nat
        BY <2>4
    <2>6. n < LengthLimit
        BY <1>2, <1>3, <2>3, <2>5
    <2> QED BY <2>3, <2>5, <2>6
<1>5. /\ Packable(ConnectHead, body) /\ Len(body) = Mqtt!ConnectLength(o)
      /\ \A buflen \in Nat :
            Mqtt!SerializeConnect(buflen, o) = Mqtt!Serialized(buflen, ConnectHead, Len(body), body)
    BY <1>1, <1>2, <1>4, ConnectPacked
<1>6. p \in Seq(ByteSet) /\ Len(p) \in Nat /\ Len(p) <= 5 + Len(body)
    BY <1>1, <1>5, BodyIs, SerializedIs
<1>7. Len(p) + 1 <= Room
    BY <1>2, <1>3, <1>4, <1>5, <1>6
<1>8. Mqtt!SerializeConnect(Room, o) = p
    BY <1>1, <1>3, <1>5, <1>7, SerializedIs
<1>9. Mqtt!Read(Room, p) = [rc |-> 1, packet |-> p, left |-> <<>>]
    <2>1. ConnectHead \div 16 = 1
        BY HeaderIs DEF ConnectHead, Mqtt!CONNECT
    <2>2. p \o <<>> = p /\ <<>> \in Seq(ByteSet) /\ Len(p) <= Room
        BY <1>3, <1>6, <1>7
    <2>3. Mqtt!Read(Room, p \o <<>>) = [rc |-> ConnectHead \div 16, packet |-> p, left |-> <<>>]
        BY <1>1, <1>3, <1>5, <2>2, ReadTakes, ZenonT(90)
    <2> QED BY <2>1, <2>2, <2>3
<1>10. PICK r : r = Mqtt!DeserializeConnect(p)
    OBVIOUS
<1>11. r = IF ConnectRefused(o) THEN [rc |-> 0]
           ELSE [rc |-> 1, clean |-> o.clean, keepAlive |-> o.keepAlive, clientID |-> o.clientID,
                 will |-> o.will, username |-> o.username, password |-> o.password]
    BY <1>1, <1>2, <1>4, <1>10, ConnectIsRead
<1> DEFINE said == {"clean", "keepAlive", "clientID", "will", "username", "password"}
<1>12. ~ConnectRefused(o) => r.rc = 1 /\ Fields(r, said) = Fields(o, said)
    <2>1. ASSUME ~ConnectRefused(o) PROVE r.rc = 1 /\ Fields(r, said) = Fields(o, said)
        <3>1. /\ r.rc = 1
              /\ r["clean"] = o["clean"] /\ r["keepAlive"] = o["keepAlive"]
              /\ r["clientID"] = o["clientID"] /\ r["will"] = o["will"]
              /\ r["username"] = o["username"] /\ r["password"] = o["password"]
            BY <1>11, <2>1
        <3> QED BY <3>1, Zenon DEF Fields
    <2> QED BY <2>1
<1>13. ConnectRefused(o) => r = [rc |-> 0]
    BY <1>11
<1> QED BY <1>1, <1>8, <1>9, <1>10, <1>12, <1>13, Zenon DEF ConnectReadBack, ConnectRefused

-----------------------------------------------------------------------------
(* Induction, and the recursive functions of the lists of filters.         *)

\* A set with 0 and with the successor of each of its numbers has them all.
LEMMA Induction ==
    ASSUME NEW S, 0 \in S, \A n \in Nat : n \in S => n + 1 \in S
    PROVE  \A n \in Nat : n \in S
<1>1. SUFFICES ASSUME NEW m \in Nat, m \notin S PROVE FALSE
    OBVIOUS
<1> DEFINE T == {n \in Nat : n \notin S}
           R == {ss \in Nat \X Nat : ss[1] < ss[2]}
<1>2. T \subseteq Nat /\ T # {}
    BY <1>1
<1>3. IsWellFoundedOn(R, Nat)
    BY NatLessThanWellFounded, Zenon DEF OpToRel
<1>4. PICK x \in T : \A y \in T : ~(<<y, x>> \in R)
    <2> HIDE DEF T, R
    <2> QED BY <1>2, <1>3, WFMin
<1>5. x # 0 /\ x \in Nat /\ x \notin S
    OBVIOUS
<1>6. x - 1 \in Nat /\ x - 1 < x
    BY <1>5
<1>7. x - 1 \notin T
    BY <1>4, <1>5, <1>6
<1> QED BY <1>5, <1>6, <1>7

\* Sequences put together, one after the other.
FlattenedIn(S, p, f) ==
    /\ f[0] = <<>> /\ Mqtt!FlattenSeq(p) = f[Len(p)]
    /\ \A k \in 0..Len(p) : f[k] \in Seq(S)
    /\ \A k \in 1..Len(p) : f[k] = f[k - 1] \o p[k]

FlatNext(p, f, i) == IF i = 1 THEN p[i] ELSE f[i - 1] \o p[i]
FlatUpTo(p, f, d) ==
    /\ f = [i \in 1..Len(p) |-> f[i]]
    /\ \A i \in 1..Len(p) : i <= d => f[i] = FlatNext(p, f, i)

LEMMA FlatExists ==
    ASSUME NEW S, NEW p \in Seq(Seq(S))
    PROVE  \E f : FlatUpTo(p, f, Len(p))
<1>1. Len(p) \in Nat
    OBVIOUS
<1> DEFINE Good == {d \in Nat : \E f : FlatUpTo(p, f, d)}
<1>2. 0 \in Good
    <2>1. PICK f : f = [i \in 1..Len(p) |-> 0]
        OBVIOUS
    <2>2. f = [i \in 1..Len(p) |-> f[i]] /\ \A i \in 1..Len(p) : ~(i <= 0)
        BY <2>1
    <2>3. FlatUpTo(p, f, 0)
        BY <2>2, Zenon DEF FlatUpTo
    <2> QED BY <2>3
<1>3. ASSUME NEW d \in Nat, d \in Good PROVE d + 1 \in Good
    <2>1. PICK f : FlatUpTo(p, f, d)
        BY <1>3
    <2>2. PICK g : g = [i \in 1..Len(p) |-> FlatNext(p, f, i)]
        OBVIOUS
    <2>3. ASSUME NEW i \in 1..Len(p), i <= d + 1 PROVE g[i] = FlatNext(p, g, i)
        <3>1. CASE i = 1
            BY <2>2, <3>1 DEF FlatNext
        <3>2. CASE i # 1
            <4>1. i - 1 \in 1..Len(p) /\ i - 1 <= d
                BY <1>1, <2>3, <3>2
            <4>2. g[i - 1] = FlatNext(p, f, i - 1) /\ f[i - 1] = FlatNext(p, f, i - 1)
                BY <2>1, <2>2, <4>1, ZenonT(60) DEF FlatUpTo
            <4>3. g[i] = f[i - 1] \o p[i] /\ FlatNext(p, g, i) = g[i - 1] \o p[i]
                BY <2>2, <3>2 DEF FlatNext
            <4> QED BY <4>2, <4>3
        <3> QED BY <3>1, <3>2
    <2>4. g = [i \in 1..Len(p) |-> g[i]]
        BY <2>2
    <2>5. FlatUpTo(p, g, d + 1)
        BY <2>3, <2>4, Zenon DEF FlatUpTo
    <2> QED BY <2>5
<1>4. \A d \in Nat : d \in Good
    <2> HIDE DEF Good
    <2> QED BY <1>2, <1>3, Induction
<1> QED BY <1>1, <1>4

LEMMA FlattenInIs ==
    ASSUME NEW S, NEW p \in Seq(Seq(S))
    PROVE  \E f : FlattenedIn(S, p, f)
<1>1. PICK n \in Nat : n = Len(p) /\ \A i \in 1..n : p[i] \in Seq(S)
    OBVIOUS
<1>2. CASE n = 0
    <2>1. p = <<>> /\ Mqtt!FlattenSeq(p) = <<>>
        <3>1. p = <<>>
            BY <1>1, <1>2, EmptySeq
        <3>2. Mqtt!FlattenSeq(p) = p
            BY <1>1, <1>2, Zenon DEF Mqtt!FlattenSeq
        <3> QED BY <3>1, <3>2
    <2>2. PICK f : f = [k \in {0} |-> <<>>]
        OBVIOUS
    <2>3. f[0] = <<>> /\ <<>> \in Seq(S)
        BY <2>2
    <2>4. \A k \in 0..n : f[k] \in Seq(S)
        <3>1. ASSUME NEW k \in 0..n PROVE f[k] \in Seq(S)
            <4>1. k = 0
                BY <1>2
            <4> QED BY <2>3, <4>1
        <3> QED BY <3>1
    <2>5. \A k \in 1..n : FALSE
        BY <1>2
    <2>6. FlattenedIn(S, p, f)
        BY <1>1, <1>2, <2>1, <2>3, <2>4, <2>5, Zenon DEF FlattenedIn
    <2> QED BY <2>6
<1>3. CASE n # 0
    <2>1. PICK h : FlatUpTo(p, h, n)
        BY <1>1, FlatExists
    <2>2. h = [i \in 1..Len(p) |-> IF i = 1 THEN p[i] ELSE h[i - 1] \o p[i]]
        <3>1. \A i \in 1..Len(p) : h[i] = FlatNext(p, h, i)
            BY <1>1, <2>1 DEF FlatUpTo
        <3>2. h = [i \in 1..Len(p) |-> h[i]]
            BY <2>1, Zenon DEF FlatUpTo
        <3>3. [i \in 1..Len(p) |-> h[i]] = [i \in 1..Len(p) |-> IF i = 1 THEN p[i] ELSE h[i - 1] \o p[i]]
            BY <3>1, Zenon DEF FlatNext
        <3> QED BY <3>2, <3>3, Zenon
    <2> DEFINE g == CHOOSE f : f = [i \in 1..Len(p) |-> IF i = 1 THEN p[i] ELSE f[i - 1] \o p[i]]
    <2>3. g = [i \in 1..Len(p) |-> IF i = 1 THEN p[i] ELSE g[i - 1] \o p[i]]
        BY <2>2, Zenon
    <2>4. Mqtt!FlattenSeq(p) = g[n]
        BY <1>1, <1>3, Zenon DEF Mqtt!FlattenSeq
    <2> HIDE DEF g
    <2>5. \A i \in 1..n : g[i] = IF i = 1 THEN p[i] ELSE g[i - 1] \o p[i]
        BY <1>1, <2>3
    <2>6. PICK f : f = [k \in 0..n |-> IF k = 0 THEN <<>> ELSE g[k]]
        OBVIOUS
    <2>7. f[0] = <<>> /\ f[n] = g[n] /\ <<>> \in Seq(S)
        BY <1>1, <1>3, <2>6
    <2>8. ASSUME NEW k \in 1..n PROVE f[k] = f[k - 1] \o p[k]
        <3>1. k \in 0..n /\ k # 0 /\ k - 1 \in 0..n /\ p[k] \in Seq(S)
            BY <1>1
        <3>2. f[k] = g[k] /\ f[k - 1] = IF k = 1 THEN <<>> ELSE g[k - 1]
            BY <2>6, <3>1
        <3>3. CASE k = 1
            <4>1. <<>> \o p[k] = p[k]
                BY <3>1
            <4> QED BY <2>5, <3>2, <3>3, <4>1
        <3>4. CASE k # 1
            BY <2>5, <3>2, <3>4
        <3> QED BY <3>3, <3>4
    <2>9. \A k \in 0..n : f[k] \in Seq(S)
        <3> DEFINE Typed == {k \in Nat : k <= n => f[k] \in Seq(S)}
        <3>1. 0 \in Typed
            <4>1. f[0] \in Seq(S)
                BY <2>7, Zenon
            <4> QED BY <4>1
        <3>2. ASSUME NEW k \in Nat, k \in Typed PROVE k + 1 \in Typed
            <4>1. ASSUME k + 1 <= n PROVE f[k + 1] \in Seq(S)
                <5>1. k + 1 \in 1..n /\ (k + 1) - 1 = k /\ k <= n
                    BY <1>1, <4>1
                <5>2. f[k] \in Seq(S) /\ p[k + 1] \in Seq(S)
                    BY <1>1, <3>2, <5>1
                <5>3. f[k + 1] = f[k] \o p[k + 1]
                    BY <2>8, <5>1
                <5> QED BY <5>2, <5>3, TwoParts
            <4> QED BY <4>1
        <3>3. \A k \in Nat : k \in Typed
            <4> HIDE DEF Typed
            <4> QED BY <3>1, <3>2, Induction
        <3> QED BY <1>1, <3>3
    <2>10. FlattenedIn(S, p, f)
        BY <1>1, <2>4, <2>7, <2>8, <2>9, Zenon DEF FlattenedIn
    <2> QED BY <2>10
<1> QED BY <1>2, <1>3

\* Of bytes.
Flattened(p, f) == FlattenedIn(ByteSet, p, f)

LEMMA FlattenIs ==
    ASSUME NEW p \in Seq(Seq(ByteSet))
    PROVE  \E f : Flattened(p, f)
BY FlattenInIs DEF Flattened

-----------------------------------------------------------------------------
(* A SUBSCRIBE's filters, each with its QoS, and an UNSUBSCRIBE's without. *)

\* What the functions of FiltersFrom and of FilterLengths are.
FromNext(s, each, f, i) ==
    IF i > Len(s) THEN <<>>
    ELSE IF ~Mqtt!StrFits(s, i) \/ Mqtt!AfterStr(s, i) + each - 1 > Len(s) THEN <<Mqtt!Misfit>>
    ELSE <<[filter |-> Mqtt!StrAt(s, i), qos |-> IF each = 1 THEN s[Mqtt!AfterStr(s, i)] ELSE 0]>>
         \o f[Mqtt!AfterStr(s, i) + each]

ListReads(s, each, f) ==
    /\ \A i \in Nat \ {0} : f[i] = FromNext(s, each, f, i)
    /\ \A i : Mqtt!FiltersFrom(s, i, each) = f[i]

FromUpTo(s, each, f, d) ==
    /\ f = [i \in Nat \ {0} |-> f[i]]
    /\ \A i \in Nat \ {0} : i + d > Len(s) => f[i] = FromNext(s, each, f, i)

LEMMA FromStep ==
    ASSUME NEW s \in Seq(ByteSet), NEW each \in {0, 1}, NEW d \in Nat, NEW f, FromUpTo(s, each, f, d)
    PROVE  \E g : FromUpTo(s, each, g, d + 1)
<1>1. PICK g : g = [i \in Nat \ {0} |-> FromNext(s, each, f, i)]
    OBVIOUS
<1>2. ASSUME NEW i \in Nat \ {0}, i + (d + 1) > Len(s) PROVE g[i] = FromNext(s, each, g, i)
    <2>1. g[i] = FromNext(s, each, f, i)
        BY <1>1
    <2>2. CASE i > Len(s)
        BY <2>1, <2>2, Zenon DEF FromNext
    <2>3. CASE ~(i > Len(s)) /\ (~Mqtt!StrFits(s, i) \/ Mqtt!AfterStr(s, i) + each - 1 > Len(s))
        BY <2>1, <2>3, Zenon DEF FromNext
    <2>4. CASE ~(i > Len(s)) /\ Mqtt!StrFits(s, i) /\ ~(Mqtt!AfterStr(s, i) + each - 1 > Len(s))
        <3>1. PICK j : j = Mqtt!AfterStr(s, i) + each
            OBVIOUS
        <3>2. j \in Nat \ {0} /\ j + d > Len(s)
            <4>1. i \in 1..Len(s) /\ i + 1 \in 1..Len(s) /\ Len(s) \in Nat
                BY <2>4 DEF Mqtt!StrFits
            <4>2. s[i] \in Nat /\ s[i + 1] \in Nat
                <5>1. s[i] \in ByteSet /\ s[i + 1] \in ByteSet
                    BY <4>1
                <5> QED BY <5>1 DEF ByteSet
            <4>3. Mqtt!AfterStr(s, i) = i + 2 + (256 * s[i] + s[i + 1])
                BY DEF Mqtt!AfterStr, Mqtt!IntAt
            <4>4. PICK m \in Nat : m = 256 * s[i] + s[i + 1]
                BY <4>2
            <4>5. j = i + 2 + m + each
                BY <3>1, <4>3, <4>4
            <4> QED BY <1>2, <4>1, <4>5
        <3>3. g[j] = f[j]
            <4>1. f[j] = FromNext(s, each, f, j)
                BY <3>2, Zenon DEF FromUpTo
            <4>2. g[j] = FromNext(s, each, f, j)
                BY <1>1, <3>2
            <4> QED BY <4>1, <4>2
        <3> QED BY <2>1, <2>4, <3>1, <3>3, Zenon DEF FromNext
    <2> QED BY <2>2, <2>3, <2>4
<1>3. g = [i \in Nat \ {0} |-> g[i]]
    BY <1>1
<1>4. FromUpTo(s, each, g, d + 1)
    BY <1>2, <1>3, Zenon DEF FromUpTo
<1> QED BY <1>4

LEMMA FromExists ==
    ASSUME NEW s \in Seq(ByteSet), NEW each \in {0, 1}
    PROVE  \E f : FromUpTo(s, each, f, Len(s))
<1>1. Len(s) \in Nat
    OBVIOUS
<1> DEFINE Good == {d \in Nat : \E f : FromUpTo(s, each, f, d)}
<1>2. 0 \in Good
    <2>1. PICK f : f = [i \in Nat \ {0} |-> <<>>]
        OBVIOUS
    <2>2. ASSUME NEW i \in Nat \ {0}, i + 0 > Len(s) PROVE f[i] = FromNext(s, each, f, i)
        <3>1. i > Len(s)
            BY <1>1, <2>2
        <3>2. f[i] = <<>>
            BY <2>1
        <3> QED BY <3>1, <3>2, Zenon DEF FromNext
    <2>3. f = [i \in Nat \ {0} |-> f[i]]
        BY <2>1
    <2>4. FromUpTo(s, each, f, 0)
        BY <2>2, <2>3, Zenon DEF FromUpTo
    <2> QED BY <2>4
<1>3. ASSUME NEW d \in Nat, d \in Good PROVE d + 1 \in Good
    <2>1. PICK f : FromUpTo(s, each, f, d)
        BY <1>3
    <2>2. PICK g : FromUpTo(s, each, g, d + 1)
        BY <2>1, FromStep
    <2> QED BY <2>2
<1>4. \A d \in Nat : d \in Good
    <2> HIDE DEF Good
    <2> QED BY <1>2, <1>3, Induction
<1> QED BY <1>1, <1>4

LEMMA FromIs ==
    ASSUME NEW s \in Seq(ByteSet), NEW each \in {0, 1}
    PROVE  \E f : ListReads(s, each, f)
<1>1. PICK h : FromUpTo(s, each, h, Len(s))
    BY FromExists
<1>2. h = [i \in Nat \ {0} |-> FromNext(s, each, h, i)]
    <2>1. \A i \in Nat \ {0} : i + Len(s) > Len(s)
        OBVIOUS
    <2>2. \A i \in Nat \ {0} : h[i] = FromNext(s, each, h, i)
        BY <1>1, <2>1, Zenon DEF FromUpTo
    <2>3. h = [i \in Nat \ {0} |-> h[i]]
        BY <1>1, Zenon DEF FromUpTo
    <2>4. [i \in Nat \ {0} |-> h[i]] = [i \in Nat \ {0} |-> FromNext(s, each, h, i)]
        BY <2>2, Zenon
    <2> QED BY <2>3, <2>4, Zenon
<1> DEFINE g == CHOOSE f : f = [i \in Nat \ {0} |-> FromNext(s, each, f, i)]
<1>3. g = [i \in Nat \ {0} |-> FromNext(s, each, g, i)]
    BY <1>2, Zenon
<1>4. \A i : Mqtt!FiltersFrom(s, i, each) = g[i]
    BY Zenon DEF Mqtt!FiltersFrom, FromNext
<1> HIDE DEF g
<1>5. \A i \in Nat \ {0} : g[i] = FromNext(s, each, g, i)
    BY <1>3
<1>6. ListReads(s, each, g)
    BY <1>4, <1>5, Zenon DEF ListReads
<1> QED BY <1>6

\* What stands for the filter t in a list, and what is read there.
Piece(t, q, each) == IF each = 1 THEN Mqtt!Str(t) \o <<q>> ELSE Mqtt!Str(t)
Entry(t, q, each) == [filter |-> t, qos |-> IF each = 1 THEN q ELSE 0]

LEMMA PieceIs ==
    ASSUME NEW t \in Strings, NEW q \in ByteSet, NEW each \in {0, 1}
    PROVE  /\ Piece(t, q, each) \in Seq(ByteSet)
           /\ Len(t) + 2 + each = Len(Piece(t, q, each))
<1>1. PICK str : str = Mqtt!Str(t)
    OBVIOUS
<1>2. str \in Seq(ByteSet) /\ Len(t) + 2 = Len(str) /\ Len(t) \in Nat
    BY <1>1, StrIs
<1>3. PICK n \in Nat : n = Len(t)
    BY <1>2
<1>4. CASE each = 1
    <2>1. <<q>> \in Seq(ByteSet) /\ Len(<<q>>) = 1
        OBVIOUS
    <2>2. PICK x : x = str \o <<q>>
        OBVIOUS
    <2>3. x \in Seq(ByteSet) /\ Len(str) + Len(<<q>>) = Len(x)
        BY <1>2, <2>1, <2>2, TwoParts
    <2>4. Len(x) = n + 2 + each
        BY <1>2, <1>3, <1>4, <2>1, <2>3
    <2> QED BY <1>1, <1>3, <1>4, <2>2, <2>3, <2>4, Zenon DEF Piece
<1>5. CASE each = 0
    <2>1. Len(t) + 2 + each = Len(str) /\ each # 1
        BY <1>2, <1>3, <1>5
    <2> QED BY <1>1, <1>2, <2>1, Zenon DEF Piece
<1> QED BY <1>4, <1>5

ReadThere(f, i, e, j) == f[i] = <<e>> \o f[j]

LEMMA EntryRead ==
    ASSUME NEW t \in Strings, NEW q \in ByteSet, NEW each \in {0, 1}, NEW rest \in Seq(ByteSet),
           NEW s \in Seq(ByteSet), NEW i, Here(s, i, Piece(t, q, each) \o rest), NEW f, ListReads(s, each, f)
    PROVE  ReadThere(f, i, Entry(t, q, each), i + Len(t) + 2 + each)
<1>1. PICK piece, str : piece = Piece(t, q, each) /\ str = Mqtt!Str(t)
    OBVIOUS
<1>2. /\ piece \in Seq(ByteSet) /\ Len(t) + 2 + each = Len(piece)
      /\ str \in Seq(ByteSet) /\ Len(t) \in Nat
    BY <1>1, PieceIs, StrIs
<1>3. PICK more, n, j : /\ more = (IF each = 1 THEN <<q>> ELSE <<>>) \o rest
                        /\ n = i + Len(t) + 2 /\ j = n + each
    OBVIOUS
<1>4. more \in Seq(ByteSet) /\ piece \o rest = str \o more
    <2>1. CASE each = 1
        <3>1. <<q>> \in Seq(ByteSet) /\ more = <<q>> \o rest
            BY <1>3, <2>1
        <3>2. more \in Seq(ByteSet)
            BY <3>1, TwoParts
        <3>3. piece = str \o <<q>>
            BY <1>1, <2>1, Zenon DEF Piece
        <3>4. str \o (<<q>> \o rest) = str \o <<q>> \o rest
            BY <1>2, <3>1, Regrouped, SMTT(90)
        <3> QED BY <3>1, <3>2, <3>3, <3>4
    <2>2. CASE each = 0
        <3>1. more = rest
            BY <1>3, <2>2
        <3>2. each # 1
            BY <2>2
        <3>3. piece = str
            BY <1>1, <3>2, Zenon DEF Piece
        <3> QED BY <3>1, <3>3
    <2> QED BY <2>1, <2>2
<1>5. Here(s, i, Mqtt!Str(t) \o more)
    BY <1>1, <1>4
<1>6. TextThere(s, i, t) /\ Here(s, n, more)
    BY <1>3, <1>4, <1>5, HereText
<1>7. /\ Mqtt!StrFits(s, i) /\ Mqtt!StrAt(s, i) = t /\ Mqtt!AfterStr(s, i) = n
    BY <1>3, <1>6, Zenon DEF TextThere
<1>8. i \in Nat /\ i >= 1 /\ Len(s) \in Nat /\ Len(s) = i + Len(piece \o rest) - 1 /\ Len(rest) \in Nat
    <2>1. Here(s, i, piece \o rest)
        BY <1>1
    <2>2. i \in Nat /\ i >= 1 /\ Len(s) \in Nat /\ Len(s) = i + Len(piece \o rest) - 1
        BY <2>1, HereLength, ZenonT(90)
    <2>3. Len(rest) \in Nat
        OBVIOUS
    <2> QED BY <2>2, <2>3
<1>9. Len(piece) + Len(rest) = Len(piece \o rest)
    BY <1>2, TwoParts
<1>10. i \in Nat \ {0} /\ ~(i > Len(s)) /\ ~(n + each - 1 > Len(s))
    <2>1. PICK k, r, l, m \in Nat : k = Len(t) /\ r = Len(rest) /\ l = Len(s) /\ m = Len(piece)
        BY <1>2, <1>8
    <2>2. m = k + 2 + each /\ Len(piece \o rest) = m + r
        BY <1>2, <1>9, <2>1
    <2>3. l = i + m + r - 1 /\ n = i + k + 2
        BY <1>3, <1>8, <2>1, <2>2
    <2> QED BY <1>8, <2>1, <2>2, <2>3
<1>11. each = 1 => s[n] = q
    <2>1. ASSUME each = 1 PROVE s[n] = q
        <3>1. Here(s, n, <<q>> \o rest)
            BY <1>3, <1>6, <2>1
        <3> QED BY <3>1, HereByte
    <2> QED BY <2>1
<1>12. f[i] = FromNext(s, each, f, i)
    BY <1>10, Zenon DEF ListReads
<1>13. FromNext(s, each, f, i) = <<[filter |-> t, qos |-> IF each = 1 THEN s[n] ELSE 0]>> \o f[j]
    BY <1>3, <1>7, <1>10, Zenon DEF FromNext
<1>14. (IF each = 1 THEN s[n] ELSE 0) = (IF each = 1 THEN q ELSE 0)
    BY <1>11
<1>15. f[i] = <<Entry(t, q, each)>> \o f[j]
    BY <1>12, <1>13, <1>14, Zenon DEF Entry
<1> QED BY <1>3, <1>15, Zenon DEF ReadThere

\* The list from its k-th place on, one longer at the front.
LEMMA Longer ==
    ASSUME NEW S, NEW n \in Nat, NEW g \in [1..n -> S], NEW k \in 1..n
    PROVE  <<g[k]>> \o [j \in 1..(n - k) |-> g[k + j]] = [j \in 1..(n - (k - 1)) |-> g[(k - 1) + j]]
<1>1. PICK x, y, z : /\ x = [j \in 1..(n - k) |-> g[k + j]] /\ y = [j \in 1..(n - (k - 1)) |-> g[(k - 1) + j]]
                     /\ z = <<g[k]>> \o x
    OBVIOUS
<1>2. n - k \in Nat /\ n - (k - 1) \in Nat /\ g[k] \in S
    OBVIOUS
<1>3. x \in Seq(S) /\ Len(x) = n - k /\ \A j \in 1..(n - k) : x[j] = g[k + j]
    <2>1. \A j \in 1..(n - k) : k + j \in 1..n
        OBVIOUS
    <2>2. \A j \in 1..(n - k) : g[k + j] \in S
        BY <2>1
    <2> QED BY <1>1, <1>2, <2>2
<1>4. y \in Seq(S) /\ Len(y) = n - (k - 1) /\ \A j \in 1..(n - (k - 1)) : y[j] = g[(k - 1) + j]
    <2>1. \A j \in 1..(n - (k - 1)) : (k - 1) + j \in 1..n
        OBVIOUS
    <2>2. \A j \in 1..(n - (k - 1)) : g[(k - 1) + j] \in S
        BY <2>1
    <2> QED BY <1>1, <1>2, <2>2
<1>5. <<g[k]>> \in Seq(S) /\ Len(<<g[k]>>) = 1 /\ <<g[k]>>[1] = g[k]
    BY <1>2
<1>6. /\ z \in Seq(S) /\ Len(<<g[k]>>) + Len(x) = Len(z)
      /\ \A i \in 1..Len(<<g[k]>>) : z[i] = <<g[k]>>[i]
      /\ \A i \in 1..Len(x) : z[Len(<<g[k]>>) + i] = x[i]
    BY <1>1, <1>3, <1>5, TwoParts
<1>7. z[1] = g[k] /\ \A i \in 1..Len(x) : z[1 + i] = x[i]
    BY <1>5, <1>6
<1>8. Len(z) = Len(y)
    BY <1>3, <1>4, <1>5, <1>6
<1>9. ASSUME NEW i \in 1..Len(z) PROVE z[i] = y[i]
    <2>1. CASE i = 1
        <3>1. 1 \in 1..(n - (k - 1)) /\ (k - 1) + 1 = k
            OBVIOUS
        <3>2. y[1] = g[k]
            BY <1>4, <3>1
        <3> QED BY <1>7, <2>1, <3>2
    <2>2. CASE i # 1
        <3>1. PICK j \in Nat : i = 1 + j
            BY <2>2
        <3>2. j \in 1..(n - k) /\ i \in 1..(n - (k - 1)) /\ (k - 1) + i = k + j
            BY <1>4, <1>8, <2>2, <3>1
        <3>3. z[i] = x[j]
            BY <1>3, <1>7, <3>1, <3>2
        <3>4. x[j] = g[k + j] /\ y[i] = g[k + j]
            BY <1>3, <1>4, <3>2
        <3> QED BY <3>3, <3>4
    <2> QED BY <2>1, <2>2
<1>10. z = y
    BY <1>4, <1>6, <1>8, <1>9, Same
<1> QED BY <1>1, <1>10

\* A list of filters with their qualities, and its pieces.
Listable(filters, q, each) ==
    /\ each \in {0, 1} /\ filters \in Seq(Strings) /\ q \in Seq(ByteSet) /\ Len(q) = Len(filters)

Pieces(filters, q, each) == [k \in 1..Len(filters) |-> Piece(filters[k], q[k], each)]
Entries(filters, q, each) == [k \in 1..Len(filters) |-> Entry(filters[k], q[k], each)]

LEMMA PiecesAre ==
    ASSUME NEW filters, NEW q, NEW each, Listable(filters, q, each)
    PROVE  LET p == Pieces(filters, q, each)
               n == Len(filters)
           IN  /\ p \in Seq(Seq(ByteSet)) /\ Len(p) = n /\ n \in Nat
               /\ \A k \in 1..n : /\ p[k] = Piece(filters[k], q[k], each) /\ p[k] \in Seq(ByteSet)
                                  /\ filters[k] \in Strings /\ q[k] \in ByteSet
                                  /\ Len(p[k]) = Len(filters[k]) + 2 + each /\ Len(filters[k]) \in Nat
<1>1. PICK p, n : p = Pieces(filters, q, each) /\ n = Len(filters)
    OBVIOUS
<1>2. n \in Nat /\ Len(q) = n /\ each \in {0, 1}
    BY <1>1 DEF Listable
<1>3. ASSUME NEW k \in 1..n PROVE filters[k] \in Strings /\ q[k] \in ByteSet
    <2>1. filters \in Seq(Strings) /\ q \in Seq(ByteSet)
        BY DEF Listable
    <2>2. filters[k] \in Strings
        BY <1>1, <2>1
    <2>3. q[k] \in ByteSet
        BY <1>2, <2>1
    <2> QED BY <2>2, <2>3
<1>4. p = [k \in 1..n |-> Piece(filters[k], q[k], each)]
    BY <1>1, Zenon DEF Pieces
<1>5. ASSUME NEW k \in 1..n
      PROVE  /\ Piece(filters[k], q[k], each) \in Seq(ByteSet)
             /\ Len(Piece(filters[k], q[k], each)) = Len(filters[k]) + 2 + each
             /\ Len(filters[k]) \in Nat
    <2>1. filters[k] \in Strings /\ q[k] \in ByteSet
        BY <1>3
    <2>2. /\ Piece(filters[k], q[k], each) \in Seq(ByteSet)
          /\ Len(filters[k]) + 2 + each = Len(Piece(filters[k], q[k], each))
        BY <1>2, <2>1, PieceIs
    <2>3. Len(filters[k]) \in Nat
        BY <2>1, StrIs
    <2> QED BY <2>2, <2>3
<1>6. p \in Seq(Seq(ByteSet)) /\ Len(p) = n
    BY <1>2, <1>4, <1>5
<1>7. \A k \in 1..n : p[k] = Piece(filters[k], q[k], each)
    BY <1>4
<1> QED BY <1>1, <1>2, <1>3, <1>5, <1>6, <1>7, Zenon

\* The length in front is that of the list and of the identifier.
LEMMA FilterLengthsAre ==
    ASSUME NEW filters, NEW q, NEW each, Listable(filters, q, each)
    PROVE  LET list == Mqtt!FlattenSeq(Pieces(filters, q, each))
           IN  /\ list \in Seq(ByteSet) /\ Mqtt!FilterLengths(filters, each) = 2 + Len(list)
               /\ Len(filters) <= Mqtt!FilterLengths(filters, each)
<1>1. PICK p, n : p = Pieces(filters, q, each) /\ n = Len(filters)
    OBVIOUS
<1>2. /\ p \in Seq(Seq(ByteSet)) /\ Len(p) = n /\ n \in Nat
      /\ \A k \in 1..n : /\ p[k] \in Seq(ByteSet) /\ Len(filters[k]) \in Nat
                         /\ Len(p[k]) = Len(filters[k]) + 2 + each
    BY <1>1, PiecesAre
<1>3. PICK f : Flattened(p, f)
    BY <1>2, FlattenIs
<1>4. /\ f[0] = <<>> /\ Mqtt!FlattenSeq(p) = f[n]
      /\ \A k \in 0..n : f[k] \in Seq(ByteSet)
      /\ \A k \in 1..n : f[k] = f[k - 1] \o p[k]
    BY <1>2, <1>3, Zenon DEF Flattened, FlattenedIn
<1>5. each \in {0, 1}
    BY DEF Listable
<1>6. ASSUME NEW k \in 1..n
      PROVE  2 + Len(f[k]) = (2 + Len(f[k - 1])) + 2 + Len(filters[k]) + each
    <2>1. k - 1 \in 0..n
        BY <1>2
    <2>2. PICK a, b : a = f[k - 1] /\ b = p[k]
        OBVIOUS
    <2>3. a \in Seq(ByteSet) /\ b \in Seq(ByteSet) /\ f[k] = a \o b
        BY <1>2, <1>4, <2>1, <2>2
    <2>4. Len(a) + Len(b) = Len(a \o b) /\ Len(a) \in Nat /\ Len(b) \in Nat
        BY <2>3, TwoParts
    <2>5. Len(b) = Len(filters[k]) + 2 + each /\ Len(filters[k]) \in Nat
        BY <1>2, <2>2
    <2>6. PICK x, y, m \in Nat : x = Len(a) /\ y = Len(b) /\ m = Len(filters[k])
        BY <2>4, <2>5
    <2>7. Len(f[k]) = x + y /\ y = m + 2 + each
        BY <2>3, <2>4, <2>5, <2>6
    <2>8. 2 + (x + y) = (2 + x) + 2 + m + each
        BY <1>5, <2>7
    <2> QED BY <2>2, <2>6, <2>7, <2>8
<1>7. PICK h : h = [k \in 0..n |-> 2 + Len(f[k])]
    OBVIOUS
<1>8. h = [k \in 0..Len(filters) |-> IF k = 0 THEN 2 ELSE h[k - 1] + 2 + Len(filters[k]) + each]
    <2>1. ASSUME NEW k \in 0..n
          PROVE  h[k] = IF k = 0 THEN 2 ELSE h[k - 1] + 2 + Len(filters[k]) + each
        <3>1. CASE k = 0
            <4>1. h[0] = 2 + Len(f[0])
                BY <1>7, <1>2, <3>1
            <4>2. Len(f[0]) = 0
                BY <1>4
            <4> QED BY <3>1, <4>1, <4>2
        <3>2. CASE k # 0
            <4>1. k \in 1..n /\ k - 1 \in 0..n
                BY <1>2, <3>2
            <4>2. h[k] = 2 + Len(f[k]) /\ h[k - 1] = 2 + Len(f[k - 1])
                BY <1>7, <4>1
            <4> QED BY <1>6, <3>2, <4>1, <4>2
        <3> QED BY <3>1, <3>2
    <2>2. h = [k \in 0..n |-> h[k]]
        BY <1>7
    <2>3. [k \in 0..n |-> h[k]]
              = [k \in 0..n |-> IF k = 0 THEN 2 ELSE h[k - 1] + 2 + Len(filters[k]) + each]
        BY <2>1, Zenon
    <2> QED BY <1>1, <2>2, <2>3, Zenon
<1> DEFINE g == CHOOSE e : e = [k \in 0..Len(filters) |->
                                   IF k = 0 THEN 2 ELSE e[k - 1] + 2 + Len(filters[k]) + each]
<1>9. g = [k \in 0..Len(filters) |-> IF k = 0 THEN 2 ELSE g[k - 1] + 2 + Len(filters[k]) + each]
    BY <1>8, Zenon
<1>10. Mqtt!FilterLengths(filters, each) = g[n]
    BY <1>1, Zenon DEF Mqtt!FilterLengths
<1> HIDE DEF g
<1>11. \A k \in 0..n : g[k] = IF k = 0 THEN 2 ELSE g[k - 1] + 2 + Len(filters[k]) + each
    BY <1>1, <1>9
<1> DEFINE Equal == {k \in Nat : k <= n => g[k] = h[k]}
<1>12. 0 \in Equal
    <2>1. 0 \in 0..n
        BY <1>2
    <2>2. g[0] = 2
        BY <1>11, <2>1
    <2>3. h[0] = 2
        BY <1>1, <1>8, <2>1
    <2> QED BY <2>2, <2>3
<1>13. ASSUME NEW k \in Nat, k \in Equal PROVE k + 1 \in Equal
    <2>1. ASSUME k + 1 <= n PROVE g[k + 1] = h[k + 1]
        <3>1. k + 1 \in 0..n /\ k + 1 # 0 /\ (k + 1) - 1 = k /\ k <= n
            BY <1>2, <2>1
        <3>2. g[k] = h[k]
            BY <1>13, <3>1
        <3>3. g[k + 1] = g[k] + 2 + Len(filters[k + 1]) + each
            BY <1>11, <3>1
        <3>4. h[k + 1] = h[k] + 2 + Len(filters[k + 1]) + each
            BY <1>1, <1>8, <3>1
        <3> QED BY <3>2, <3>3, <3>4
    <2> QED BY <2>1
<1>14. \A k \in Nat : k \in Equal
    <2> HIDE DEF Equal
    <2> QED BY <1>12, <1>13, Induction
<1>15. g[n] = 2 + Len(f[n])
    <2>1. n \in 0..n
        BY <1>2
    <2>2. n \in Equal
        BY <1>2, <1>14, Zenon
    <2>3. g[n] = h[n]
        BY <1>2, <2>2
    <2>4. h[n] = 2 + Len(f[n])
        BY <1>7, <2>1
    <2> QED BY <2>3, <2>4
<1>16. f[n] \in Seq(ByteSet)
    BY <1>2, <1>4
<1>17. n <= g[n]
    <2> DEFINE Enough == {k \in Nat : k <= n => k <= h[k]}
    <2>1. \A k \in 0..n : h[k] = 2 + Len(f[k]) /\ Len(f[k]) \in Nat
        BY <1>4, <1>7
    <2>2. 0 \in Enough
        <3>1. 0 \in 0..n
            BY <1>2
        <3>2. h[0] = 2 + Len(f[0]) /\ Len(f[0]) \in Nat
            BY <2>1, <3>1
        <3> QED BY <3>2
    <2>3. ASSUME NEW k \in Nat, k \in Enough PROVE k + 1 \in Enough
        <3>1. ASSUME k + 1 <= n PROVE k + 1 <= h[k + 1]
            <4>1. k + 1 \in 0..n /\ k \in 0..n /\ k + 1 \in 1..n /\ k + 1 # 0 /\ (k + 1) - 1 = k /\ k <= n
                BY <1>2, <3>1
            <4>2. k <= h[k] /\ h[k] \in Nat
                BY <2>1, <2>3, <4>1
            <4>3. h[k + 1] = h[k] + 2 + Len(filters[k + 1]) + each
                BY <1>1, <1>8, <4>1
            <4>4. Len(filters[k + 1]) \in Nat
                BY <1>2, <4>1
            <4> QED BY <1>5, <4>2, <4>3, <4>4
        <3> QED BY <3>1
    <2>4. \A k \in Nat : k \in Enough
        <3> HIDE DEF Enough
        <3> QED BY <2>2, <2>3, Induction
    <2>5. n \in Enough
        BY <1>2, <2>4, Zenon
    <2>6. n <= h[n] /\ n \in 0..n
        BY <1>2, <2>5
    <2>7. h[n] = 2 + Len(f[n])
        BY <2>1, <2>6
    <2> QED BY <1>15, <2>6, <2>7
<1> QED BY <1>1, <1>4, <1>10, <1>15, <1>16, <1>17

\* From the identifier on, a body's list is read entry by entry.
LEMMA EntriesRead ==
    ASSUME NEW filters, NEW q, NEW each, Listable(filters, q, each), NEW id \in WordSet
    PROVE  LET s == Mqtt!TwoBytes(id) \o Mqtt!FlattenSeq(Pieces(filters, q, each))
           IN  /\ s \in Seq(ByteSet) /\ Mqtt!IntAt(s, 1) = id
               /\ Mqtt!FiltersFrom(s, 3, each) = Entries(filters, q, each)
<1>1. PICK p, n, two : p = Pieces(filters, q, each) /\ n = Len(filters) /\ two = Mqtt!TwoBytes(id)
    OBVIOUS
<1>2. /\ p \in Seq(Seq(ByteSet)) /\ Len(p) = n /\ n \in Nat
      /\ \A k \in 1..n : /\ p[k] = Piece(filters[k], q[k], each) /\ p[k] \in Seq(ByteSet)
                         /\ filters[k] \in Strings /\ q[k] \in ByteSet
                         /\ Len(p[k]) = Len(filters[k]) + 2 + each /\ Len(filters[k]) \in Nat
    BY <1>1, PiecesAre
<1>3. PICK f : Flattened(p, f)
    BY <1>2, FlattenIs
<1>4. /\ f[0] = <<>> /\ Mqtt!FlattenSeq(p) = f[n]
      /\ \A k \in 0..n : f[k] \in Seq(ByteSet)
      /\ \A k \in 1..n : f[k] = f[k - 1] \o p[k]
    BY <1>2, <1>3, Zenon DEF Flattened, FlattenedIn
<1>5. two \in Seq(ByteSet) /\ 2 = Len(two) /\ each \in {0, 1}
    BY <1>1, WordIs DEF Listable
<1>6. f[n] \in Seq(ByteSet)
    BY <1>2, <1>4
<1>7. PICK s : s = two \o f[n]
    OBVIOUS
<1>8. s \in Seq(ByteSet) /\ Mqtt!IntAt(s, 1) = id
    <2>1. <<>> \in Seq(ByteSet) /\ Len(<<>>) + 1 = 1 /\ <<>> \o two \o f[n] = s
        BY <1>5, <1>6, <1>7
    <2>2. NumberThere(<<>> \o two \o f[n], Len(<<>>) + 1, id)
        BY <1>1, <1>6, <2>1, IntIs
    <2>3. s \in Seq(ByteSet)
        BY <1>5, <1>6, <1>7, TwoParts
    <2> QED BY <2>1, <2>2, <2>3 DEF NumberThere
<1>9. PICK r : ListReads(s, each, r)
    BY <1>5, <1>8, FromIs
<1>10. PICK g : g = Entries(filters, q, each)
    OBVIOUS
<1>11. /\ g = [k \in 1..n |-> Entry(filters[k], q[k], each)]
       /\ \A k \in 1..n : g[k] = Entry(filters[k], q[k], each)
    BY <1>1, <1>10 DEF Entries
<1>12. PICK S : g \in [1..n -> S]
    <2>1. PICK S : S = {Entry(filters[k], q[k], each) : k \in 1..n}
        OBVIOUS
    <2>2. g \in [1..n -> S]
        BY <1>11, <2>1
    <2> QED BY <2>2
<1> DEFINE Rest(k, rest) == /\ rest \in Seq(ByteSet) /\ s = (two \o f[k]) \o rest
                            /\ r[3 + Len(f[k])] = [j \in 1..(n - k) |-> g[k + j]]
           Good == {d \in Nat : d <= n => \E rest : Rest(n - d, rest)}
<1>13. ASSUME NEW k \in 0..n, NEW rest \in Seq(ByteSet), s = (two \o f[k]) \o rest
       PROVE  Here(s, 3 + Len(f[k]), rest)
    <2>1. PICK front : front = two \o f[k]
        OBVIOUS
    <2>2. f[k] \in Seq(ByteSet)
        BY <1>4
    <2>3. front \in Seq(ByteSet) /\ Len(two) + Len(f[k]) = Len(front) /\ Len(f[k]) \in Nat
        BY <1>5, <2>1, <2>2, TwoParts
    <2>4. 3 + Len(f[k]) = Len(front) + 1
        <3>1. PICK m \in Nat : m = Len(f[k])
            BY <2>3
        <3>2. Len(two) = 2
            BY <1>5
        <3>3. Len(front) = 2 + m
            BY <2>3, <3>1, <3>2
        <3> QED BY <3>1, <3>3
    <2>5. s = front \o rest
        BY <1>13, <2>1
    <2> QED BY <2>3, <2>4, <2>5, Zenon DEF Here
<1>14. 0 \in Good
    <2>1. n - 0 = n /\ n \in 0..n /\ <<>> \in Seq(ByteSet) /\ s = (two \o f[n]) \o <<>>
        <3>1. n - 0 = n /\ n \in 0..n
            BY <1>2
        <3>2. s = s \o <<>>
            BY <1>8
        <3> QED BY <1>7, <3>1, <3>2
    <2>2. Here(s, 3 + Len(f[n]), <<>>)
        BY <1>13, <2>1
    <2>3. PICK i : i = 3 + Len(f[n])
        OBVIOUS
    <2>4. i \in Nat \ {0} /\ i > Len(s)
        <3>1. /\ i \in Nat /\ i >= 1 /\ Len(s) \in Nat
              /\ Len(s) = i + Len(<<>>) - 1
            BY <2>2, <2>3, HereLength
        <3> QED BY <3>1
    <2>5. r[i] = <<>>
        <3>1. r[i] = FromNext(s, each, r, i)
            BY <1>9, <2>4, Zenon DEF ListReads
        <3> QED BY <2>4, <3>1, Zenon DEF FromNext
    <2>6. [j \in 1..(n - n) |-> g[n + j]] = <<>>
        <3>1. \A j \in 1..(n - n) : FALSE
            BY <1>2
        <3>2. n - n = 0
            BY <1>2
        <3> QED BY <3>2
    <2>7. Rest(n - 0, <<>>)
        BY <2>1, <2>3, <2>5, <2>6
    <2> HIDE DEF Rest
    <2> QED BY <2>7
<1>15. ASSUME NEW d \in Nat, d \in Good PROVE d + 1 \in Good
    <2>1. ASSUME d + 1 <= n PROVE \E rest : Rest(n - (d + 1), rest)
        <3>1. PICK k : k = n - d
            OBVIOUS
        <3>2. k \in 1..n /\ k - 1 \in 0..n /\ k - 1 = n - (d + 1) /\ d <= n /\ k \in 0..n
            BY <1>2, <2>1, <3>1
        <3>3. PICK rest : Rest(k, rest)
            BY <1>15, <3>1, <3>2
        <3>4. /\ rest \in Seq(ByteSet) /\ s = (two \o f[k]) \o rest
              /\ r[3 + Len(f[k])] = [j \in 1..(n - k) |-> g[k + j]]
            BY <3>3
        <3>5. PICK a, b, more : a = f[k - 1] /\ b = p[k] /\ more = b \o rest
            OBVIOUS
        <3>6. a \in Seq(ByteSet) /\ b \in Seq(ByteSet) /\ f[k] = a \o b
            BY <1>2, <1>4, <3>2, <3>5
        <3>7. more \in Seq(ByteSet) /\ s = (two \o a) \o more
            <4>1. PICK x, y : x = two \o a /\ y = x \o b
                OBVIOUS
            <4>2. x \in Seq(ByteSet)
                BY <1>5, <3>6, <4>1, TwoParts
            <4>3. two \o (a \o b) = y
                BY <1>5, <3>6, <4>1, Regrouped, SMTT(90)
            <4>4. x \o (b \o rest) = y \o rest
                BY <3>4, <3>6, <4>1, <4>2, Regrouped, SMTT(90)
            <4>5. more \in Seq(ByteSet)
                BY <3>4, <3>5, <3>6, TwoParts
            <4> QED BY <3>4, <3>5, <3>6, <4>1, <4>3, <4>4, <4>5
        <3>8. Here(s, 3 + Len(a), more)
            BY <1>13, <3>2, <3>5, <3>7
        <3>9. PICK t, c, i : t = filters[k] /\ c = q[k] /\ i = 3 + Len(a)
            OBVIOUS
        <3>10. /\ t \in Strings /\ c \in ByteSet /\ b = Piece(t, c, each) /\ Len(b) = Len(t) + 2 + each
               /\ Len(t) \in Nat
            BY <1>2, <3>2, <3>5, <3>9
        <3>11. Here(s, i, Piece(t, c, each) \o rest)
            BY <3>5, <3>8, <3>9, <3>10
        <3>12. r[i] = <<Entry(t, c, each)>> \o r[i + Len(t) + 2 + each]
            <4>1. t \in Strings /\ c \in ByteSet /\ rest \in Seq(ByteSet) /\ s \in Seq(ByteSet)
                BY <1>8, <3>4, <3>10
            <4>2. ReadThere(r, i, Entry(t, c, each), i + Len(t) + 2 + each)
                BY <1>5, <1>9, <3>11, <4>1, EntryRead
            <4> QED BY <4>2, Zenon DEF ReadThere
        <3>13. i + Len(t) + 2 + each = 3 + Len(f[k])
            <4>1. Len(a) + Len(b) = Len(a \o b) /\ Len(a) \in Nat
                BY <3>6, TwoParts
            <4>2. PICK x, m \in Nat : x = Len(a) /\ m = Len(t)
                BY <3>10, <4>1
            <4>3. Len(f[k]) = x + (m + 2 + each)
                BY <3>6, <3>10, <4>1, <4>2
            <4>4. i = 3 + x
                BY <3>9, <4>2
            <4>5. i + m + 2 + each = 3 + (x + (m + 2 + each))
                BY <1>5, <4>4
            <4> QED BY <4>2, <4>3, <4>5
        <3>14. Entry(t, c, each) = g[k]
            BY <1>11, <3>2, <3>9
        <3>15. <<g[k]>> \o [j \in 1..(n - k) |-> g[k + j]] = [j \in 1..(n - (k - 1)) |-> g[(k - 1) + j]]
            BY <1>2, <1>12, <3>2, Longer
        <3>16. r[3 + Len(f[k - 1])] = [j \in 1..(n - (k - 1)) |-> g[(k - 1) + j]]
            BY <3>4, <3>5, <3>9, <3>12, <3>13, <3>14, <3>15, Zenon
        <3>17. Rest(k - 1, more)
            BY <3>5, <3>7, <3>16
        <3> HIDE DEF Rest
        <3> QED BY <3>2, <3>17
    <2>2. d + 1 \in Nat
        OBVIOUS
    <2> HIDE DEF Rest
    <2> QED BY <2>1, <2>2
<1>16. \A d \in Nat : d \in Good
    <2> HIDE DEF Good
    <2> QED BY <1>14, <1>15, Induction
<1>17. r[3] = g
    <2>1. n \in Good
        BY <1>2, <1>16, Zenon
    <2>2. n - n = 0 /\ n <= n
        BY <1>2
    <2>3. PICK rest : Rest(0, rest)
        BY <2>1, <2>2
    <2>4. r[3 + Len(f[0])] = [j \in 1..(n - 0) |-> g[0 + j]]
        BY <2>3
    <2>5. 3 + Len(f[0]) = 3
        BY <1>4
    <2>6. [j \in 1..(n - 0) |-> g[0 + j]] = g
        <3>1. n - 0 = n /\ \A j \in 1..n : 0 + j = j
            BY <1>2
        <3>2. [j \in 1..(n - 0) |-> g[0 + j]] = [j \in 1..n |-> g[j]]
            BY <3>1
        <3>3. [j \in 1..n |-> g[j]] = g
            BY <1>12
        <3> QED BY <3>2, <3>3
    <2> QED BY <2>4, <2>5, <2>6
<1>18. Mqtt!FiltersFrom(s, 3, each) = g
    <2>1. Mqtt!FiltersFrom(s, 3, each) = r[3]
        BY <1>9, Zenon DEF ListReads
    <2> QED BY <1>17, <2>1
<1> QED BY <1>1, <1>4, <1>7, <1>8, <1>10, <1>18

LEMMA RequestPacked ==
    ASSUME NEW filters, NEW q, NEW each, Listable(filters, q, each), NEW id \in WordSet,
           NEW head \in ByteSet, NEW buflen \in Nat, Mqtt!FilterLengths(filters, each) + 6 <= buflen,
           Mqtt!FilterLengths(filters, each) < LengthLimit
    PROVE  LET body == Mqtt!TwoBytes(id) \o Mqtt!FlattenSeq(Pieces(filters, q, each))
           IN  /\ Packable(head, body)
               /\ Mqtt!Serialized(buflen, head, Mqtt!FilterLengths(filters, each), body)
                      = Packet(head, body)
<1>1. PICK list, two, body, n : /\ list = Mqtt!FlattenSeq(Pieces(filters, q, each))
                                /\ two = Mqtt!TwoBytes(id) /\ body = two \o list
                                /\ n = Mqtt!FilterLengths(filters, each)
    OBVIOUS
<1>2. list \in Seq(ByteSet) /\ n = 2 + Len(list)
    BY <1>1, FilterLengthsAre
<1>3. two \in Seq(ByteSet) /\ 2 = Len(two)
    BY <1>1, WordIs
<1>4. body \in Seq(ByteSet) /\ Len(two) + Len(list) = Len(body) /\ Len(list) \in Nat
    BY <1>1, <1>2, <1>3, TwoParts
<1>5. Len(body) = n /\ n \in Nat
    <2>1. PICK m \in Nat : m = Len(list)
        BY <1>4
    <2>2. Len(two) = 2
        BY <1>3
    <2>3. Len(body) = 2 + m
        BY <1>4, <2>1, <2>2
    <2> QED BY <1>2, <2>1, <2>3
<1>6. Packable(head, body)
    BY <1>1, <1>4, <1>5, Zenon DEF Packable
<1>7. PICK p : p = Packet(head, body)
    OBVIOUS
<1>8. /\ Len(p) + 1 <= buflen => Mqtt!Serialized(buflen, head, n, body) = p
      /\ Len(p) \in Nat /\ Len(p) <= 5 + n
    BY <1>5, <1>6, <1>7, SerializedIs
<1>9. Len(p) + 1 <= buflen
    BY <1>1, <1>5, <1>8
<1> QED BY <1>1, <1>6, <1>7, <1>8, <1>9

\* None of the entries is taken for a misfit, and there are as many as filters.
LEMMA EntriesFit ==
    ASSUME NEW filters, NEW q, NEW each, Listable(filters, q, each)
    PROVE  LET all == Entries(filters, q, each)
           IN  Len(all) = Len(filters) /\ ~Mqtt!Contains(all, Mqtt!Misfit)
<1>1. PICK all, n : all = Entries(filters, q, each) /\ n = Len(filters)
    OBVIOUS
<1>2. all = [k \in 1..n |-> Entry(filters[k], q[k], each)]
    BY <1>1, Zenon DEF Entries
<1>3. n \in Nat /\ \A k \in 1..n : q[k] \in ByteSet
    BY <1>1, PiecesAre
<1>4. Len(all) = n
    BY <1>2, <1>3
<1>5. ASSUME NEW k \in 1..n PROVE all[k] # Mqtt!Misfit
    <2>1. all[k] = Entry(filters[k], q[k], each)
        BY <1>2
    <2>2. Entry(filters[k], q[k], each).qos \in Nat
        <3>1. q[k] \in ByteSet
            BY <1>3
        <3>2. q[k] \in Nat
            BY <3>1 DEF ByteSet
        <3> QED BY <3>2 DEF Entry
    <2>3. Mqtt!Misfit.qos = -1
        BY DEF Mqtt!Misfit
    <2>4. -1 \notin Nat
        OBVIOUS
    <2> QED BY <2>1, <2>2, <2>3, <2>4
<1>6. ~Mqtt!Contains(all, Mqtt!Misfit)
    BY <1>4, <1>5, Zenon DEF Mqtt!Contains
<1> QED BY <1>1, <1>4, <1>6

LEMMA SubscribeIsRead ==
    ASSUME NEW filters, NEW q, Listable(filters, q, 1), NEW id \in WordSet, NEW dup \in {0, 1},
           NEW buflen \in Nat, Mqtt!FilterLengths(filters, 1) + 6 <= buflen,
           Mqtt!FilterLengths(filters, 1) < LengthLimit
    PROVE  LET s == Mqtt!SerializeSubscribe(buflen, dup, id, filters, q)
               n == Len(filters)
           IN  /\ Mqtt!DeserializeSubscribe(s, n)
                      = [rc |-> 1, dup |-> dup, id |-> id, filters |-> Entries(filters, q, 1)]
               /\ n > 0 => Mqtt!DeserializeSubscribe(s, n - 1).rc = -1
<1>1. PICK head, body, p, n, all :
          /\ head = Mqtt!Header(Mqtt!SUBSCRIBE, dup, 1, 0) /\ n = Len(filters)
          /\ body = Mqtt!TwoBytes(id) \o Mqtt!FlattenSeq(Pieces(filters, q, 1))
          /\ p = Packet(head, body) /\ all = Entries(filters, q, 1)
    OBVIOUS
<1>2. head \in ByteSet /\ head \div 16 = Mqtt!SUBSCRIBE /\ (head \div 8) % 2 = dup
    BY <1>1, HeaderIs DEF Mqtt!SUBSCRIBE
<1>3. /\ Packable(head, body)
      /\ Mqtt!Serialized(buflen, head, Mqtt!FilterLengths(filters, 1), body) = p
    BY <1>1, <1>2, RequestPacked
<1>4. Mqtt!SerializeSubscribe(buflen, dup, id, filters, q) = p
    <2>1. filters \in Seq(Strings)
        BY DEF Listable
    <2>2. DOMAIN filters = 1..Len(filters)
        BY <2>1
    <2>3. [i \in DOMAIN filters |-> Mqtt!Str(filters[i]) \o <<q[i]>>] = Pieces(filters, q, 1)
        BY <2>2, Zenon DEF Pieces, Piece
    <2> QED BY <1>1, <1>3, <2>3, Zenon DEF Mqtt!SerializeSubscribe, Mqtt!SubscribeLength
<1>5. p[1] = head /\ Mqtt!BodyOf(p) = body
    BY <1>1, <1>3, BodyIs
<1>6. Mqtt!IntAt(body, 1) = id /\ Mqtt!FiltersFrom(body, 3, 1) = all
    BY <1>1, EntriesRead
<1>7. Mqtt!TypeOf(p) = Mqtt!SUBSCRIBE /\ Mqtt!DupOf(p) = dup
    BY <1>2, <1>5 DEF Mqtt!TypeOf, Mqtt!DupOf
<1>8. Len(all) = n /\ ~Mqtt!Contains(all, Mqtt!Misfit)
    BY <1>1, EntriesFit
<1>9. n \in Nat
    BY <1>1, PiecesAre
<1>10. Mqtt!Request(p, all) = [rc |-> 1, dup |-> dup, id |-> id, filters |-> all]
    BY <1>5, <1>6, <1>7 DEF Mqtt!Request
<1>11. Mqtt!DeserializeSubscribe(p, n) = Mqtt!Request(p, all)
    <2>1. ~(Len(all) > n)
        BY <1>8, <1>9
    <2> QED BY <1>5, <1>6, <1>7, <1>8, <2>1 DEF Mqtt!DeserializeSubscribe
<1>12. Mqtt!DeserializeSubscribe(p, n - 1) = [rc |-> -1]
    <2>1. Len(all) > n - 1
        BY <1>8, <1>9
    <2> QED BY <1>5, <1>6, <1>7, <2>1 DEF Mqtt!DeserializeSubscribe
<1>13. Mqtt!DeserializeSubscribe(p, n - 1).rc = -1
    BY <1>12
<1> QED BY <1>1, <1>4, <1>10, <1>11, <1>13

LEMMA UnsubscribeIsRead ==
    ASSUME NEW filters, NEW q, Listable(filters, q, 0), NEW id \in WordSet, NEW dup \in {0, 1},
           NEW buflen \in Nat, Mqtt!FilterLengths(filters, 0) + 6 <= buflen,
           Mqtt!FilterLengths(filters, 0) < LengthLimit
    PROVE  Mqtt!DeserializeUnsubscribe(Mqtt!SerializeUnsubscribe(buflen, dup, id, filters))
               = [rc |-> 1, dup |-> dup, id |-> id, filters |-> Entries(filters, q, 0)]
<1>1. PICK head, body, p, all :
          /\ head = Mqtt!Header(Mqtt!UNSUBSCRIBE, dup, 1, 0)
          /\ body = Mqtt!TwoBytes(id) \o Mqtt!FlattenSeq(Pieces(filters, q, 0))
          /\ p = Packet(head, body) /\ all = Entries(filters, q, 0)
    OBVIOUS
<1>2. head \in ByteSet /\ head \div 16 = Mqtt!UNSUBSCRIBE /\ (head \div 8) % 2 = dup
    BY <1>1, HeaderIs DEF Mqtt!UNSUBSCRIBE
<1>3. /\ Packable(head, body)
      /\ Mqtt!Serialized(buflen, head, Mqtt!FilterLengths(filters, 0), body) = p
    BY <1>1, <1>2, RequestPacked
<1>4. Mqtt!SerializeUnsubscribe(buflen, dup, id, filters) = p
    <2>1. filters \in Seq(Strings)
        BY DEF Listable
    <2>2. DOMAIN filters = 1..Len(filters)
        BY <2>1
    <2>3. 0 # 1
        OBVIOUS
    <2>4. [i \in DOMAIN filters |-> Mqtt!Str(filters[i])] = Pieces(filters, q, 0)
        BY <2>2, <2>3, Zenon DEF Pieces, Piece
    <2> QED BY <1>1, <1>3, <2>4, Zenon DEF Mqtt!SerializeUnsubscribe, Mqtt!UnsubscribeLength
<1>5. p[1] = head /\ Mqtt!BodyOf(p) = body
    BY <1>1, <1>3, BodyIs
<1>6. Mqtt!IntAt(body, 1) = id /\ Mqtt!FiltersFrom(body, 3, 0) = all
    BY <1>1, EntriesRead
<1>7. Mqtt!TypeOf(p) = Mqtt!UNSUBSCRIBE /\ Mqtt!DupOf(p) = dup
    BY <1>2, <1>5 DEF Mqtt!TypeOf, Mqtt!DupOf
<1>8. ~Mqtt!Contains(all, Mqtt!Misfit)
    BY <1>1, EntriesFit
<1>9. Mqtt!DeserializeUnsubscribe(p) = Mqtt!Request(p, all)
    BY <1>5, <1>6, <1>7, <1>8 DEF Mqtt!DeserializeUnsubscribe
<1>10. Mqtt!Request(p, all) = [rc |-> 1, dup |-> dup, id |-> id, filters |-> all]
    BY <1>5, <1>6, <1>7 DEF Mqtt!Request
<1> QED BY <1>1, <1>4, <1>9, <1>10

\* A list of filters, all asked for with one QoS, that fits the buffer with
\* the bytes in front of it, as a SUBSCRIBE and as an UNSUBSCRIBE.
Requestable(i) ==
    /\ i.dup \in {0, 1} /\ i.id \in WordSet /\ i.filters \in Seq(Strings) /\ i.qos \in {0, 1, 2}
    /\ Mqtt!SubscribeLength(i.filters) + 6 <= Room
    /\ Mqtt!UnsubscribeLength(i.filters) + 6 <= Room

\* Any list of topics that fits: the server finds in a SUBSCRIBE and in an
\* UNSUBSCRIBE the topics and qualities that the client listed, and says so
\* when it has no room for all; the client reads the answers, a CONNACK and
\* the four steps of a delivery as they were sent (MQTTSubscribeClient.c:50-83,
\* MQTTSubscribeServer.c:36-70, MQTTUnsubscribeClient.c:44-75,
\* MQTTUnsubscribeServer.c:34-66, MQTTDeserializePublish.c:80-100).
THEOREM RequestsAreReadBack ==
    ASSUME input.kind = "request" => Requestable(input)
    PROVE  RequestsReadBack
<1> SUFFICES ASSUME input.kind = "request" PROVE RequestsReadBack
    BY DEF RequestsReadBack
<1>1. PICK i, n, qs : i = input /\ n = Len(i.filters) /\ qs = [k \in 1..n |-> i.qos]
    OBVIOUS
<1>2. PICK filters, dup, id, qos :
          filters = i.filters /\ dup = i.dup /\ id = i.id /\ qos = i.qos
    OBVIOUS
<1>3. /\ filters \in Seq(Strings) /\ dup \in {0, 1} /\ id \in WordSet /\ qos \in {0, 1, 2}
      /\ Mqtt!FilterLengths(filters, 1) + 6 <= Room /\ Mqtt!FilterLengths(filters, 0) + 6 <= Room
    BY <1>1, <1>2, Zenon DEF Requestable, Mqtt!SubscribeLength, Mqtt!UnsubscribeLength
<1>4. n = Len(filters) /\ n \in Nat /\ qos \in ByteSet
    <2>1. qos \in ByteSet
        BY <1>3 DEF ByteSet
    <2> QED BY <1>1, <1>2, <1>3, <2>1
<1>5. qs \in Seq(ByteSet) /\ Len(qs) = n /\ \A k \in 1..n : qs[k] = qos
    BY <1>1, <1>2, <1>4
<1>6. Listable(filters, qs, 1) /\ Listable(filters, qs, 0)
    BY <1>3, <1>4, <1>5 DEF Listable
<1>7. Room \in Nat /\ Room < LengthLimit
    BY SMT DEF Room, LengthLimit
<1>8. /\ Mqtt!FilterLengths(filters, 1) < LengthLimit /\ Mqtt!FilterLengths(filters, 0) < LengthLimit
      /\ n + 2 < LengthLimit /\ n + 2 <= Room
    <2>1. PICK l \in Nat : l = Mqtt!FilterLengths(filters, 1)
        <3>1. PICK list : list = Mqtt!FlattenSeq(Pieces(filters, qs, 1))
            OBVIOUS
        <3>2. list \in Seq(ByteSet) /\ Mqtt!FilterLengths(filters, 1) = 2 + Len(list)
            BY <1>6, <3>1, FilterLengthsAre
        <3> QED BY <3>2
    <2>2. PICK m \in Nat : m = Mqtt!FilterLengths(filters, 0)
        <3>1. PICK list : list = Mqtt!FlattenSeq(Pieces(filters, qs, 0))
            OBVIOUS
        <3>2. list \in Seq(ByteSet) /\ Mqtt!FilterLengths(filters, 0) = 2 + Len(list)
            BY <1>6, <3>1, FilterLengthsAre
        <3> QED BY <3>2
    <2>3. n <= l
        BY <1>4, <1>6, <2>1, FilterLengthsAre
    <2>4. LengthLimit \in Nat
        BY SMT DEF LengthLimit
    <2> QED BY <1>3, <1>4, <1>7, <2>1, <2>2, <2>3, <2>4
<1>9. PICK s, u, a : /\ s = Mqtt!SerializeSubscribe(Room, dup, id, filters, qs)
                     /\ u = Mqtt!SerializeUnsubscribe(Room, dup, id, filters)
                     /\ a = Mqtt!SerializeSuback(Room, id, qs)
    OBVIOUS
<1>10. /\ Mqtt!DeserializeSubscribe(s, n)
              = [rc |-> 1, dup |-> dup, id |-> id, filters |-> Entries(filters, qs, 1)]
       /\ n > 0 => Mqtt!DeserializeSubscribe(s, n - 1).rc = -1
    BY <1>3, <1>4, <1>6, <1>7, <1>8, <1>9, SubscribeIsRead
<1>11. Mqtt!DeserializeUnsubscribe(u)
           = [rc |-> 1, dup |-> dup, id |-> id, filters |-> Entries(filters, qs, 0)]
    BY <1>3, <1>6, <1>7, <1>8, <1>9, UnsubscribeIsRead
<1>12. /\ Mqtt!DeserializeSuback(a, n) = [rc |-> 1, id |-> id, granted |-> qs]
       /\ n > 1 => Mqtt!DeserializeSuback(a, n - 2).rc = -1
    BY <1>3, <1>5, <1>7, <1>8, <1>9, SubackIsRead
<1>13. ASSUME NEW type \in Mqtt!PUBACK..Mqtt!PUBCOMP
       PROVE  Mqtt!DeserializeAck(Mqtt!SerializeAck(4, type, dup, id))
                  = [rc |-> 1, type |-> type, dup |-> dup, id |-> id]
    <2>1. type \in {4, 5, 6, 7}
        BY DEF Mqtt!PUBACK, Mqtt!PUBCOMP
    <2> QED BY <1>3, <2>1, AckIsRead
<1>14. Mqtt!DeserializeUnsuback(Mqtt!SerializeUnsuback(4, id)).id = id
    BY <1>3, UnsubackIsRead
<1>15. Mqtt!DeserializeConnack(Mqtt!SerializeConnack(4, qos, dup))
           = [rc |-> 1, session |-> dup, code |-> qos]
    BY <1>3, <1>4, ConnackIsRead
<1>16. ASSUME NEW each \in {0, 1}
       PROVE  Entries(filters, qs, each)
                  = [k \in 1..n |-> [filter |-> filters[k], qos |-> IF each = 1 THEN qos ELSE 0]]
    <2>1. Entries(filters, qs, each)
              = [k \in 1..n |-> [filter |-> filters[k], qos |-> IF each = 1 THEN qs[k] ELSE 0]]
        BY <1>4, Zenon DEF Entries, Entry
    <2>2. \A k \in 1..n : (IF each = 1 THEN qs[k] ELSE 0) = (IF each = 1 THEN qos ELSE 0)
        BY <1>5
    <2> QED BY <2>1, <2>2, Zenon
<1>17. /\ Entries(filters, qs, 1)
              = [k \in 1..n |-> [filter |-> filters[k], qos |-> IF 1 = 1 THEN qos ELSE 0]]
       /\ Entries(filters, qs, 0)
              = [k \in 1..n |-> [filter |-> filters[k], qos |-> IF 0 = 1 THEN qos ELSE 0]]
    <2>1. 0 \in {0, 1} /\ 1 \in {0, 1}
        OBVIOUS
    <2> QED BY <1>16, <2>1, Zenon
<1> QED BY <1>1, <1>2, <1>9, <1>10, <1>11, <1>12, <1>13, <1>14, <1>15, <1>17, ZenonT(90)
       DEF RequestsReadBack

\* What the four kinds of cases may be, not only those that the runs draw.
Sendable(i) ==
    /\ i.kind = "connect" => Connectable(i) /\ Mqtt!ConnectLength(i) + 6 <= Room
    /\ i.kind = "publish" => Publishable(i) /\ Len(i.topic) + Len(i.payload) + 10 <= Room
    /\ i.kind = "length" => i.n \in Nat /\ i.n < LengthLimit
    /\ i.kind = "request" => Requestable(i)

\* Client and broker read every packet, whatever its texts, lists, flags and
\* numbers, as the other wrote it (the four theorems above).
THEOREM PacketsAreReadBack ==
    ASSUME Sendable(input)
    PROVE  PacketsReadBack
BY ConnectionsReadBack, PublicationsReadBack, LengthsReadBack, RequestsAreReadBack
   DEF Sendable, PacketsReadBack

-----------------------------------------------------------------------------
(* A packet that arrives in pieces.  The bytes of s from q on, up to h.    *)

Between(s, q, h) == SubSeq(s, q + 1, h)

LEMMA BetweenIs ==
    ASSUME NEW s \in Seq(ByteSet), NEW q \in Nat, NEW h \in Nat, q <= h, h <= Len(s)
    PROVE  /\ Between(s, q, h) \in Seq(ByteSet) /\ Len(Between(s, q, h)) = h - q
           /\ \A i \in 1..(h - q) : Between(s, q, h)[i] = s[q + i]
<1>1. PICK x : x = SubSeq(s, q + 1, h)
    OBVIOUS
<1>2. x \in Seq(ByteSet) /\ h - q = Len(x) /\ \A i \in 1..(h - q) : x[i] = s[q + i]
    BY <1>1, Part
<1>3. x = Between(s, q, h)
    BY <1>1 DEF Between
<1>4. Len(x) = h - q
    BY <1>2
<1> QED BY <1>2, <1>3, <1>4

LEMMA BetweenNone ==
    ASSUME NEW s \in Seq(ByteSet), NEW h \in Nat, h <= Len(s)
    PROVE  Between(s, h, h) = <<>>
<1>1. PICK x : x = Between(s, h, h)
    OBVIOUS
<1>2. x \in Seq(ByteSet) /\ Len(x) = 0
    <2>1. h <= h /\ h - h = 0
        OBVIOUS
    <2>2. x \in Seq(ByteSet) /\ Len(x) = h - h
        BY <1>1, <2>1, BetweenIs
    <2> QED BY <2>1, <2>2
<1> QED BY <1>1, <1>2, EmptySeq

LEMMA BetweenNext ==
    ASSUME NEW s \in Seq(ByteSet), NEW q \in Nat, NEW h \in Nat, q < h, h <= Len(s)
    PROVE  /\ Between(s, q, h) # <<>> /\ Between(s, q, h)[1] = s[q + 1] /\ s[q + 1] \in ByteSet
           /\ Tail(Between(s, q, h)) = Between(s, q + 1, h)
<1>1. PICK x, y : x = Between(s, q, h) /\ y = Between(s, q + 1, h)
    OBVIOUS
<1>2. x \in Seq(ByteSet) /\ Len(x) = h - q /\ \A i \in 1..(h - q) : x[i] = s[q + i]
    <2>1. q <= h
        OBVIOUS
    <2> QED BY <1>1, <2>1, BetweenIs
<1>3. y \in Seq(ByteSet) /\ Len(y) = h - (q + 1) /\ \A i \in 1..(h - (q + 1)) : y[i] = s[(q + 1) + i]
    <2>1. q + 1 \in Nat /\ q + 1 <= h
        OBVIOUS
    <2> QED BY <1>1, <2>1, BetweenIs
<1>4. x # <<>> /\ x[1] = s[q + 1] /\ s[q + 1] \in ByteSet
    <2>1. 1 \in 1..(h - q) /\ q + 1 \in 1..Len(s)
        OBVIOUS
    <2>2. Len(x) # 0
        BY <1>2
    <2>3. x # <<>>
        BY <2>2
    <2> QED BY <1>2, <2>1, <2>3
<1>5. PICK t : t = Tail(x)
    OBVIOUS
<1>6. t \in Seq(ByteSet) /\ Len(t) = Len(x) - 1 /\ \A i \in 1..Len(t) : t[i] = x[i + 1]
    BY <1>2, <1>4, <1>5
<1>7. Len(t) = Len(y)
    BY <1>2, <1>3, <1>6
<1>8. ASSUME NEW i \in 1..Len(t) PROVE t[i] = y[i]
    <2>1. i + 1 \in 1..(h - q) /\ i \in 1..(h - (q + 1)) /\ q + (i + 1) = (q + 1) + i
        BY <1>2, <1>6
    <2>2. t[i] = x[i + 1]
        BY <1>6
    <2>3. x[i + 1] = s[q + (i + 1)] /\ y[i] = s[(q + 1) + i]
        BY <1>2, <1>3, <2>1
    <2> QED BY <2>1, <2>2, <2>3
<1>9. t = y
    BY <1>3, <1>6, <1>7, <1>8, Same
<1> QED BY <1>1, <1>4, <1>5, <1>9

\* What is between three places, in two.
CutAt(s, q, m, h) ==
    /\ SubSeq(Between(s, q, h), 1, m - q) = Between(s, q, m)
    /\ SubSeq(Between(s, q, h), (m - q) + 1, h - q) = Between(s, m, h)
    /\ Between(s, q, m) \o Between(s, m, h) = Between(s, q, h)

LEMMA BetweenCut ==
    ASSUME NEW s \in Seq(ByteSet), NEW q \in Nat, NEW m \in Nat, NEW h \in Nat, q <= m, m <= h,
           h <= Len(s)
    PROVE  CutAt(s, q, m, h)
<1>1. PICK x, y, z : x = Between(s, q, h) /\ y = Between(s, q, m) /\ z = Between(s, m, h)
    OBVIOUS
<1>2. x \in Seq(ByteSet) /\ Len(x) = h - q /\ \A i \in 1..(h - q) : x[i] = s[q + i]
    <2>1. q <= h
        OBVIOUS
    <2> QED BY <1>1, <2>1, BetweenIs
<1>3. y \in Seq(ByteSet) /\ Len(y) = m - q /\ \A i \in 1..(m - q) : y[i] = s[q + i]
    <2>1. m <= Len(s)
        OBVIOUS
    <2> QED BY <1>1, <2>1, BetweenIs
<1>4. z \in Seq(ByteSet) /\ Len(z) = h - m /\ \A i \in 1..(h - m) : z[i] = s[m + i]
    BY <1>1, BetweenIs
<1>5. PICK yz : yz = y \o z
    OBVIOUS
<1>6. /\ yz \in Seq(ByteSet) /\ Len(y) + Len(z) = Len(yz)
      /\ \A i \in 1..Len(y) : yz[i] = y[i]
      /\ \A i \in 1..Len(z) : yz[Len(y) + i] = z[i]
    <2>1. y \in Seq(ByteSet) /\ z \in Seq(ByteSet)
        BY <1>3, <1>4
    <2> QED BY <1>5, <2>1, TwoParts
<1>7. Len(yz) = Len(x)
    <2>1. Len(y) = m - q /\ Len(z) = h - m /\ Len(x) = h - q
        BY <1>2, <1>3, <1>4
    <2>2. Len(yz) = Len(y) + Len(z)
        BY <1>6
    <2> QED BY <2>1, <2>2
<1>8. ASSUME NEW i \in 1..Len(yz) PROVE yz[i] = x[i]
    <2>1. i \in 1..(h - q) /\ i \in Nat
        BY <1>2, <1>7
    <2>2. CASE i <= m - q
        <3>1. i \in 1..(m - q)
            BY <2>1, <2>2
        <3>2. yz[i] = y[i]
            BY <1>3, <1>6, <3>1
        <3> QED BY <1>2, <1>3, <2>1, <3>1, <3>2
    <2>3. CASE ~(i <= m - q)
        <3>1. PICK j \in Nat : i = (m - q) + j
            BY <2>1, <2>3
        <3>2. j \in 1..(h - m) /\ q + i = m + j
            BY <2>1, <2>3, <3>1
        <3>3. yz[i] = z[j]
            <4>1. j \in 1..Len(z) /\ i = Len(y) + j
                BY <1>3, <1>4, <3>1, <3>2
            <4> QED BY <1>6, <4>1
        <3>4. z[j] = s[m + j] /\ x[i] = s[q + i]
            BY <1>2, <1>4, <2>1, <3>2
        <3> QED BY <3>2, <3>3, <3>4
    <2> QED BY <2>2, <2>3
<1>9. yz = x
    BY <1>2, <1>6, <1>7, <1>8, Same
<1>10. SubSeq(y \o z, Len(y) + 1, Len(y) + Len(z)) = z /\ SubSeq(y \o z, 1, Len(y)) = y
    BY <1>3, <1>4, LastPart
<1>11. Len(y) + Len(z) = h - q
    BY <1>3, <1>4
<1>12. SubSeq(x, (m - q) + 1, h - q) = z /\ SubSeq(x, 1, m - q) = y
    BY <1>3, <1>5, <1>9, <1>10, <1>11
<1> QED BY <1>1, <1>5, <1>9, <1>12, Zenon DEF CutAt

\* What the first j digits of a length are worth, and the next one.
Weight(j) == IF j = 0 THEN 1 ELSE IF j = 1 THEN 128 ELSE IF j = 2 THEN 16384
             ELSE IF j = 3 THEN 2097152 ELSE 268435456
Worth(c, j) ==
    (IF j > 0 THEN c[1] % 128 ELSE 0) + (IF j > 1 THEN 128 * (c[2] % 128) ELSE 0)
    + (IF j > 2 THEN 16384 * (c[3] % 128) ELSE 0) + (IF j > 3 THEN 2097152 * (c[4] % 128) ELSE 0)

LEMMA NextWorth ==
    ASSUME NEW n \in Nat, NEW k, NEW c, Coded(c, n, k), NEW j \in Nat, j < k
    PROVE  /\ Worth(c, j) \in Nat /\ Weight(j) \in Nat
           /\ Worth(c, j + 1) = Worth(c, j) + (c[j + 1] % 128) * Weight(j)
           /\ Weight(j + 1) = Weight(j) * 128
<1>1. /\ k \in {1, 2, 3, 4} /\ \A i \in 1..k : c[i] \in ByteSet
    BY SMTT(60) DEF Coded
<1>2. ASSUME NEW x \in ByteSet PROVE x % 128 \in Nat
    BY <1>2, SMT DEF ByteSet
<1>3. PICK d1, d2, d3, d4 : /\ d1 = c[1] % 128 /\ d2 = c[2] % 128 /\ d3 = c[3] % 128 /\ d4 = c[4] % 128
    OBVIOUS
<1>4. d1 \in Nat /\ (k > 1 => d2 \in Nat) /\ (k > 2 => d3 \in Nat) /\ (k > 3 => d4 \in Nat)
    <2>1. /\ c[1] \in ByteSet /\ (k > 1 => c[2] \in ByteSet) /\ (k > 2 => c[3] \in ByteSet)
          /\ (k > 3 => c[4] \in ByteSet)
        BY <1>1
    <2> QED BY <1>2, <1>3, <2>1
<1>5. /\ Worth(c, j) = (IF j > 0 THEN d1 ELSE 0) + (IF j > 1 THEN 128 * d2 ELSE 0)
                       + (IF j > 2 THEN 16384 * d3 ELSE 0) + (IF j > 3 THEN 2097152 * d4 ELSE 0)
      /\ Worth(c, j + 1) = (IF j + 1 > 0 THEN d1 ELSE 0) + (IF j + 1 > 1 THEN 128 * d2 ELSE 0)
                       + (IF j + 1 > 2 THEN 16384 * d3 ELSE 0) + (IF j + 1 > 3 THEN 2097152 * d4 ELSE 0)
    BY <1>3, SMT DEF Worth
<1>6. CASE j = 0
    <2>1. Weight(j) = 1 /\ Weight(j + 1) = 128 /\ c[j + 1] % 128 = d1
        BY <1>3, <1>6, SMT DEF Weight
    <2> QED BY <1>4, <1>5, <1>6, <2>1, SMT
<1>7. CASE j = 1
    <2>1. Weight(j) = 128 /\ Weight(j + 1) = 16384 /\ c[j + 1] % 128 = d2
        BY <1>3, <1>7, SMT DEF Weight
    <2> QED BY <1>1, <1>4, <1>5, <1>7, <2>1, SMT
<1>8. CASE j = 2
    <2>1. Weight(j) = 16384 /\ Weight(j + 1) = 2097152 /\ c[j + 1] % 128 = d3
        BY <1>3, <1>8, SMT DEF Weight
    <2> QED BY <1>1, <1>4, <1>5, <1>8, <2>1, SMT
<1>9. CASE j = 3
    <2>1. Weight(j) = 2097152 /\ Weight(j + 1) = 268435456 /\ c[j + 1] % 128 = d4
        BY <1>3, <1>9, SMT DEF Weight
    <2> QED BY <1>1, <1>4, <1>5, <1>9, <2>1, SMT
<1>10. j \in {0, 1, 2, 3}
    BY <1>1
<1> QED BY <1>6, <1>7, <1>8, <1>9, <1>10

LEMMA WholeWorth ==
    ASSUME NEW n \in Nat, NEW k, NEW c, Coded(c, n, k)
    PROVE  Worth(c, k) = n
<1>1. k \in {1, 2, 3, 4} /\ k > 0
    BY DEF Coded
<1>2. (c[1] % 128) + (IF k > 1 THEN 128 * (c[2] % 128) ELSE 0)
          + (IF k > 2 THEN 16384 * (c[3] % 128) ELSE 0)
          + (IF k > 3 THEN 2097152 * (c[4] % 128) ELSE 0) = n
    BY SMT DEF Coded
<1> QED BY <1>1, <1>2, SMT DEF Worth

\* From b on, up to e, s has a packet with n bytes behind the bytes c of its
\* length.
InPlace(s, b, head, c, n, e) ==
    /\ s \in Seq(ByteSet) /\ b \in Nat /\ e \in Nat /\ e <= Len(s)
    /\ n \in Nat /\ n < LengthLimit /\ c = Mqtt!EncodedLength(n) /\ e = b + 1 + Len(c) + n
    /\ head \in ByteSet /\ s[b + 1] = head /\ Between(s, b + 1, b + 1 + Len(c)) = c

LEMMA PlacedIs ==
    ASSUME NEW s, NEW b, NEW head, NEW c, NEW n, NEW e, InPlace(s, b, head, c, n, e)
    PROVE  /\ s \in Seq(ByteSet) /\ b \in Nat /\ e \in Nat /\ e <= Len(s) /\ Len(s) \in Nat
           /\ n \in Nat /\ head \in ByteSet /\ s[b + 1] = head
           /\ c \in Seq(ByteSet) /\ Len(c) \in Nat /\ 1 <= Len(c) /\ Len(c) <= 4
           /\ Coded(c, n, Len(c)) /\ e = b + 1 + Len(c) + n
           /\ \A i \in 1..Len(c) : s[b + 1 + i] = c[i] /\ c[i] \in ByteSet /\ (c[i] < 128 <=> i = Len(c))
<1>1. /\ s \in Seq(ByteSet) /\ b \in Nat /\ e \in Nat /\ e <= Len(s)
      /\ n \in Nat /\ n < LengthLimit /\ c = Mqtt!EncodedLength(n) /\ e = b + 1 + Len(c) + n
      /\ head \in ByteSet /\ s[b + 1] = head /\ Between(s, b + 1, b + 1 + Len(c)) = c
    BY Zenon DEF InPlace
<1>2. /\ c \in Seq(ByteSet) /\ Len(c) \in Nat /\ 1 <= Len(c) /\ Len(c) <= 4 /\ Coded(c, n, Len(c))
    BY <1>1, CodedSomehow
<1>3. PICK k \in Nat : k = Len(c)
    BY <1>2
<1>4. \A i \in 1..k : Between(s, b + 1, b + 1 + k)[i] = s[b + 1 + i]
    <2>1. b + 1 \in Nat /\ b + 1 + k \in Nat /\ b + 1 <= b + 1 + k /\ b + 1 + k <= Len(s)
          /\ (b + 1 + k) - (b + 1) = k
        BY <1>1, <1>3
    <2>2. \A i \in 1..((b + 1 + k) - (b + 1)) : Between(s, b + 1, b + 1 + k)[i] = s[b + 1 + i]
        BY <1>1, <2>1, BetweenIs, ZenonT(60)
    <2> QED BY <2>1, <2>2
<1>5. \A i \in 1..Len(c) : s[b + 1 + i] = c[i]
    BY <1>1, <1>3, <1>4
<1>6. \A i \in 1..Len(c) : c[i] \in ByteSet /\ (c[i] < 128 <=> i = Len(c))
    BY <1>2 DEF Coded
<1>7. Len(s) \in Nat
    BY <1>1
<1> QED BY <1>1, <1>2, <1>5, <1>6, <1>7

\* The transport with j digits read; a digit still to come; and the end of
\* the digits or of the bytes.
InLength(head, c, j) ==
    [state |-> 1, len |-> j, multiplier |-> Weight(j), rest |-> Worth(c, j), packet |-> <<head>>]

Digit(d, s, b, head, c, h, j) ==
    /\ j < Len(c) /\ b + 1 + j <= h
    /\ d = [rc |-> Mqtt!More, t |-> InLength(head, c, j), left |-> Between(s, b + 1 + j, h)]

NoMore(d, s, b, head, c, h) ==
    IF h < b + 1 + Len(c)
    THEN d = [rc |-> 0, t |-> InLength(head, c, h - b - 1), left |-> <<>>]
    ELSE d = [rc |-> Len(c), t |-> InLength(head, c, Len(c)), left |-> Between(s, b + 1 + Len(c), h)]

LEMMA DigitRead ==
    ASSUME NEW s, NEW b, NEW head, NEW c, NEW n, NEW e, InPlace(s, b, head, c, n, e),
           NEW h \in Nat, h <= Len(s), NEW j \in Nat, NEW d, Digit(d, s, b, head, c, h, j)
    PROVE  \/ Digit(Mqtt!NextDigit(d), s, b, head, c, h, j + 1)
           \/ NoMore(Mqtt!NextDigit(d), s, b, head, c, h)
<1>1. /\ s \in Seq(ByteSet) /\ b \in Nat /\ Len(s) \in Nat /\ n \in Nat
      /\ Len(c) \in Nat /\ 1 <= Len(c) /\ Len(c) <= 4 /\ Coded(c, n, Len(c))
      /\ \A i \in 1..Len(c) : s[b + 1 + i] = c[i] /\ c[i] \in ByteSet /\ (c[i] < 128 <=> i = Len(c))
    BY PlacedIs
<1>2. PICK t, left, q : t = InLength(head, c, j) /\ q = b + 1 + j /\ left = Between(s, q, h)
    OBVIOUS
<1>3. /\ j < Len(c) /\ q <= h /\ d = [rc |-> Mqtt!More, t |-> t, left |-> left]
    BY <1>2, Zenon DEF Digit
<1>4. /\ t = [state |-> 1, len |-> j, multiplier |-> Weight(j), rest |-> Worth(c, j),
              packet |-> <<head>>]
    BY <1>2, Zenon DEF InLength
<1>5. d.rc = Mqtt!More /\ d.t = t /\ d.left = left /\ t.len = j
    BY <1>3, <1>4
<1>6. ~(j >= Mqtt!MaxLengthBytes)
    BY <1>1, <1>3 DEF Mqtt!MaxLengthBytes
<1>7. q \in Nat
    BY <1>1, <1>2
<1>8. CASE q = h
    <2>1. left = <<>>
        BY <1>1, <1>2, <1>8, BetweenNone
    <2>2. Mqtt!NextDigit(d) = [d EXCEPT !.rc = 0]
        BY <1>5, <1>6, <2>1 DEF Mqtt!NextDigit
    <2>3. [d EXCEPT !.rc = 0] = [rc |-> 0, t |-> t, left |-> <<>>]
        BY <1>3, <2>1
    <2>4. h < b + 1 + Len(c) /\ h - b - 1 = j
        BY <1>1, <1>2, <1>3, <1>8
    <2>5. NoMore(Mqtt!NextDigit(d), s, b, head, c, h)
        BY <1>2, <2>2, <2>3, <2>4, Zenon DEF NoMore
    <2> QED BY <2>5
<1>9. CASE q < h
    <2>1. /\ left # <<>> /\ left[1] = s[q + 1] /\ Tail(left) = Between(s, q + 1, h)
        BY <1>1, <1>2, <1>7, <1>9, BetweenNext, SMTT(90)
    <2>2. /\ j + 1 \in 1..Len(c) /\ q + 1 = b + 1 + (j + 1)
        BY <1>1, <1>2, <1>3
    <2>3. left[1] = c[j + 1] /\ c[j + 1] \in ByteSet /\ (c[j + 1] < 128 <=> j + 1 = Len(c))
        BY <1>1, <2>1, <2>2
    <2>4. PICK v : v = [t EXCEPT !.len = @ + 1, !.rest = @ + (left[1] % 128) * t.multiplier,
                                 !.multiplier = @ * 128]
        OBVIOUS
    <2>5. v = InLength(head, c, j + 1)
        <3>1. /\ Worth(c, j + 1) = Worth(c, j) + (c[j + 1] % 128) * Weight(j)
              /\ Weight(j + 1) = Weight(j) * 128
            BY <1>1, <1>3, NextWorth
        <3>2. v = [state |-> 1, len |-> j + 1, multiplier |-> Weight(j) * 128,
                   rest |-> Worth(c, j) + (left[1] % 128) * Weight(j), packet |-> <<head>>]
            BY <1>4, <2>4
        <3> QED BY <2>3, <3>1, <3>2, Zenon DEF InLength
    <2>6. Mqtt!NextDigit(d) = [rc |-> IF left[1] < 128 THEN v.len ELSE Mqtt!More, t |-> v,
                               left |-> Tail(left)]
        BY <1>5, <1>6, <2>1, <2>4 DEF Mqtt!NextDigit
    <2>7. v.len = j + 1
        BY <2>5 DEF InLength
    <2>8. CASE j + 1 = Len(c)
        <3>1. left[1] < 128 /\ ~(h < b + 1 + Len(c)) /\ q + 1 = b + 1 + Len(c)
            BY <1>1, <1>2, <1>9, <2>3, <2>8
        <3>2. Mqtt!NextDigit(d) = [rc |-> Len(c), t |-> InLength(head, c, Len(c)),
                                   left |-> Between(s, b + 1 + Len(c), h)]
            BY <2>1, <2>5, <2>6, <2>7, <2>8, <3>1, Zenon
        <3>3. NoMore(Mqtt!NextDigit(d), s, b, head, c, h)
            BY <3>1, <3>2, Zenon DEF NoMore
        <3> QED BY <3>3
    <2>9. CASE j + 1 # Len(c)
        <3>1. ~(left[1] < 128) /\ j + 1 < Len(c) /\ b + 1 + (j + 1) <= h
            BY <1>1, <1>2, <1>3, <1>9, <2>3, <2>9
        <3>2. Mqtt!NextDigit(d) = [rc |-> Mqtt!More, t |-> InLength(head, c, j + 1),
                                   left |-> Between(s, b + 1 + (j + 1), h)]
            BY <2>1, <2>2, <2>5, <2>6, <3>1, Zenon
        <3>3. Digit(Mqtt!NextDigit(d), s, b, head, c, h, j + 1)
            BY <3>1, <3>2, Zenon DEF Digit
        <3> QED BY <3>3
    <2> QED BY <2>8, <2>9
<1> QED BY <1>3, <1>7, <1>8, <1>9

LEMMA NoMoreStays ==
    ASSUME NEW s, NEW b, NEW head, NEW c, NEW n, NEW e, InPlace(s, b, head, c, n, e),
           NEW h, NEW d, NoMore(d, s, b, head, c, h)
    PROVE  Mqtt!NextDigit(d) = d
<1>1. Len(c) \in Nat /\ Len(c) <= 4
    BY PlacedIs
<1>2. d.rc = 0 \/ d.rc = Len(c)
    BY DEF NoMore
<1>3. d.rc # Mqtt!More
    BY <1>1, <1>2 DEF Mqtt!More
<1> QED BY <1>3 DEF Mqtt!NextDigit

\* MQTTPacket_decodenb stops where the length or the bytes do, wherever the
\* call before it stopped.
LEMMA DigitsRead ==
    ASSUME NEW s, NEW b, NEW head, NEW c, NEW n, NEW e, InPlace(s, b, head, c, n, e),
           NEW h \in Nat, h <= Len(s), NEW j \in Nat, j < Len(c), b + 1 + j <= h, NEW t \in Mqtt!Transports,
           t.state = 1, t.len = j, t.packet = <<head>>, j > 0 => t = InLength(head, c, j)
    PROVE  NoMore(Mqtt!DecodeNb(t, Between(s, b + 1 + j, h)), s, b, head, c, h)
<1>1. PICK u : u = IF t.len = 0 THEN [t EXCEPT !.multiplier = 1, !.rest = 0] ELSE t
    OBVIOUS
<1>2. u = InLength(head, c, j)
    <2>1. CASE j = 0
        <3>1. t = [state |-> 1, len |-> 0, multiplier |-> t.multiplier, rest |-> t.rest,
                   packet |-> <<head>>]
            BY <2>1 DEF Mqtt!Transports
        <3>2. u = [state |-> 1, len |-> 0, multiplier |-> 1, rest |-> 0, packet |-> <<head>>]
            BY <1>1, <2>1, <3>1
        <3>3. Weight(j) = 1 /\ Worth(c, j) = 0
            BY <2>1, SMT DEF Weight, Worth
        <3> QED BY <2>1, <3>2, <3>3, Zenon DEF InLength
    <2>2. CASE j > 0
        BY <1>1, <2>2
    <2> QED BY <2>1, <2>2
<1>3. PICK d0, d1, d2, d3, d4, d5 :
          /\ d0 = [rc |-> Mqtt!More, t |-> u, left |-> Between(s, b + 1 + j, h)]
          /\ d1 = Mqtt!NextDigit(d0) /\ d2 = Mqtt!NextDigit(d1) /\ d3 = Mqtt!NextDigit(d2)
          /\ d4 = Mqtt!NextDigit(d3) /\ d5 = Mqtt!NextDigit(d4)
    OBVIOUS
<1>4. Mqtt!DecodeNb(t, Between(s, b + 1 + j, h)) = d5
    <2>1. Mqtt!DecodeNb(t, Between(s, b + 1 + j, h)) = Mqtt!TwoDigits(Mqtt!TwoDigits(d1))
        BY <1>1, <1>3, Zenon DEF Mqtt!DecodeNb
    <2>2. Mqtt!TwoDigits(d1) = d3 /\ Mqtt!TwoDigits(d3) = d5
        BY <1>3, Zenon DEF Mqtt!TwoDigits
    <2> QED BY <2>1, <2>2, Zenon
<1> DEFINE Running(d, i) == Digit(d, s, b, head, c, h, i)
           Stopped(d) == NoMore(d, s, b, head, c, h)
<1>5. Running(d0, j)
    BY <1>2, <1>3, Zenon DEF Digit
<1>6. ASSUME NEW d, NEW i \in Nat, Running(d, i) \/ Stopped(d)
      PROVE  Running(Mqtt!NextDigit(d), i + 1) \/ Stopped(Mqtt!NextDigit(d))
    <2>1. CASE Running(d, i)
        BY <2>1, DigitRead
    <2>2. CASE Stopped(d)
        <3>1. Mqtt!NextDigit(d) = d
            BY <2>2, NoMoreStays
        <3> QED BY <2>2, <3>1, Zenon
    <2> QED BY <1>6, <2>1, <2>2
<1> HIDE DEF Running, Stopped
<1>7. /\ j + 1 \in Nat /\ (j + 1) + 1 \in Nat /\ ((j + 1) + 1) + 1 \in Nat
      /\ (((j + 1) + 1) + 1) + 1 \in Nat
    OBVIOUS
<1>8. Running(d1, j + 1) \/ Stopped(d1)
    BY <1>3, <1>5, <1>6, Zenon
<1>9. Running(d2, (j + 1) + 1) \/ Stopped(d2)
    BY <1>3, <1>6, <1>7, <1>8, Zenon
<1>10. Running(d3, ((j + 1) + 1) + 1) \/ Stopped(d3)
    BY <1>3, <1>6, <1>7, <1>9, Zenon
<1>11. Running(d4, (((j + 1) + 1) + 1) + 1) \/ Stopped(d4)
    BY <1>3, <1>6, <1>7, <1>10, Zenon
<1>12. ~Running(d4, (((j + 1) + 1) + 1) + 1)
    <2>1. Len(c) \in Nat /\ Len(c) <= 4
        BY PlacedIs
    <2>2. ~((((j + 1) + 1) + 1) + 1 < Len(c))
        BY <2>1
    <2> QED BY <2>2, Zenon DEF Running, Digit
<1>13. Stopped(d5)
    <2>1. Mqtt!NextDigit(d4) = d4
        BY <1>11, <1>12, NoMoreStays DEF Stopped
    <2> QED BY <1>3, <1>11, <1>12, <2>1, Zenon
<1> QED BY <1>4, <1>13, Zenon DEF Stopped

\* The transport with the bytes up to q of the packet in its buffer.
InBody(s, b, c, e, q) ==
    [state |-> 2, len |-> q - b, multiplier |-> Weight(Len(c)), rest |-> e - q,
     packet |-> Between(s, b, q)]

\* What a call finds that has bytes up to h, unless the length is too large.
BodyRead(r, s, b, head, c, e, h) ==
    IF h < e THEN r = [rc |-> 0, t |-> InBody(s, b, c, e, h), left |-> <<>>]
    ELSE r = [rc |-> head \div 16, t |-> [InBody(s, b, c, e, e) EXCEPT !.state = 0],
              left |-> Between(s, e, h)]

TaskFields(t, i, j, k, l, x) ==
    t = [state |-> i, len |-> j, multiplier |-> k, rest |-> l, packet |-> x]

LEMMA Changed ==
    ASSUME NEW i, NEW j, NEW k, NEW l, NEW x, NEW t, TaskFields(t, i, j, k, l, x),
           NEW j2, NEW l2, NEW x2
    PROVE  /\ TaskFields([t EXCEPT !.rest = l2, !.len = j2, !.packet = x2], i, j2, k, l2, x2)
           /\ TaskFields([t EXCEPT !.len = j2, !.packet = x2], i, j2, k, l, x2)
<1>0. t = [state |-> i, len |-> j, multiplier |-> k, rest |-> l, packet |-> x]
    BY Zenon DEF TaskFields
<1>1. PICK u, v, w : /\ u = [t EXCEPT !.rest = l2] /\ v = [u EXCEPT !.len = j2]
                        /\ w = [t EXCEPT !.len = j2]
    OBVIOUS
<1>2. /\ [t EXCEPT !.rest = l2, !.len = j2, !.packet = x2] = [v EXCEPT !.packet = x2]
      /\ [t EXCEPT !.len = j2, !.packet = x2] = [w EXCEPT !.packet = x2]
    <2>1. [t EXCEPT !.rest = l2, !.len = j2, !.packet = x2]
              = [[[t EXCEPT !.rest = l2] EXCEPT !.len = j2] EXCEPT !.packet = x2]
        OBVIOUS
    <2>2. [t EXCEPT !.len = j2, !.packet = x2] = [[t EXCEPT !.len = j2] EXCEPT !.packet = x2]
        OBVIOUS
    <2> QED BY <1>1, <2>1, <2>2, Zenon
<1>3. u = [state |-> i, len |-> j, multiplier |-> k, rest |-> l2, packet |-> x]
    BY <1>0, <1>1
<1>4. v = [state |-> i, len |-> j2, multiplier |-> k, rest |-> l2, packet |-> x]
    <2>1. v = [u EXCEPT !.len = j2]
        BY <1>1
    <2> QED BY <1>3, <2>1
<1>5. w = [state |-> i, len |-> j2, multiplier |-> k, rest |-> l, packet |-> x]
    BY <1>0, <1>1
<1>6. [v EXCEPT !.packet = x2] = [state |-> i, len |-> j2, multiplier |-> k, rest |-> l2, packet |-> x2]
    BY <1>4
<1>7. [w EXCEPT !.packet = x2] = [state |-> i, len |-> j2, multiplier |-> k, rest |-> l, packet |-> x2]
    BY <1>5
<1> QED BY <1>2, <1>6, <1>7, Zenon DEF TaskFields

LEMMA RestRead ==
    ASSUME NEW s, NEW b, NEW head, NEW c, NEW n, NEW e, InPlace(s, b, head, c, n, e),
           NEW q \in Nat, b + 1 + Len(c) <= q, q <= e, NEW h \in Nat, q <= h, h <= Len(s)
    PROVE  BodyRead(Mqtt!ReadRest(InBody(s, b, c, e, q), Between(s, q, h)), s, b, head, c, e, h)
<1>1. /\ s \in Seq(ByteSet) /\ b \in Nat /\ e \in Nat /\ e <= Len(s) /\ Len(s) \in Nat
      /\ n \in Nat /\ s[b + 1] = head /\ Len(c) \in Nat /\ 1 <= Len(c) /\ e = b + 1 + Len(c) + n
    BY PlacedIs
<1>2. PICK m \in Nat : m = IF h < e THEN h ELSE e
    BY <1>1
<1>3. q <= m /\ m <= h /\ m <= e /\ m <= Len(s) /\ b <= q /\ b <= m
    BY <1>1, <1>2
<1>4. PICK t, in, u, w : /\ t = InBody(s, b, c, e, q) /\ in = Between(s, q, h)
                         /\ u = InBody(s, b, c, e, m) /\ w = Weight(Len(c))
    OBVIOUS
<1>5. t = [state |-> 2, len |-> q - b, multiplier |-> w, rest |-> e - q, packet |-> Between(s, b, q)]
    BY <1>4, Zenon DEF InBody
<1>6. u = [state |-> 2, len |-> m - b, multiplier |-> w, rest |-> e - m, packet |-> Between(s, b, m)]
    BY <1>4, Zenon DEF InBody
<1>7. Len(in) = h - q
    BY <1>1, <1>4, BetweenIs
<1>8. Mqtt!Min({t.rest, Len(in)}) = m - q
    <2>1. PICK two : two = {e - q, h - q}
        OBVIOUS
    <2>2. two \in SUBSET Int /\ m - q \in two /\ \A x \in two : m - q <= x
        BY <1>1, <1>2, <2>1
    <2>3. Min(two) = m - q
        BY <2>2, MinIs
    <2>4. t.rest = e - q
        BY <1>5
    <2> QED BY <1>7, <2>1, <2>3, <2>4, Zenon DEF Mqtt!Min, Min
<1>9. /\ SubSeq(in, 1, m - q) = Between(s, q, m) /\ SubSeq(in, (m - q) + 1, h - q) = Between(s, m, h)
      /\ Between(s, b, q) \o Between(s, q, m) = Between(s, b, m)
    <2>1. CutAt(s, q, m, h)
        BY <1>1, <1>3, BetweenCut
    <2>2. CutAt(s, b, q, m)
        BY <1>1, <1>3, BetweenCut
    <2> QED BY <1>4, <2>1, <2>2, Zenon DEF CutAt
<1>10. [t EXCEPT !.rest = @ - (m - q), !.len = @ + (m - q), !.packet = @ \o SubSeq(in, 1, m - q)] = u
    <2>1. (e - q) - (m - q) = e - m /\ (q - b) + (m - q) = m - b
        BY <1>1
    <2>2. PICK x, y, z : x = Between(s, b, q) /\ y = SubSeq(in, 1, m - q) /\ z = x \o y
        OBVIOUS
    <2>3. z = Between(s, b, m)
        BY <1>9, <2>2
    <2>4. PICK i, j, k : i = m - q /\ j = q - b /\ k = e - q
        OBVIOUS
    <2>5. t = [state |-> 2, len |-> j, multiplier |-> w, rest |-> k, packet |-> x]
        BY <1>5, <2>2, <2>4, Zenon
    <2>6. [t EXCEPT !.rest = @ - i, !.len = @ + i, !.packet = @ \o y]
              = [state |-> 2, len |-> j + i, multiplier |-> w, rest |-> k - i, packet |-> x \o y]
        <3>1. t.rest = k /\ t.len = j /\ t.packet = x
            BY <2>5
        <3>2. [t EXCEPT !.rest = @ - i, !.len = @ + i, !.packet = @ \o y]
                  = [t EXCEPT !.rest = k - i, !.len = j + i, !.packet = x \o y]
            BY <3>1, Zenon
        <3>3. PICK l2, j2 : l2 = k - i /\ j2 = j + i
            OBVIOUS
        <3>4. [t EXCEPT !.rest = l2, !.len = j2, !.packet = z]
                  = [state |-> 2, len |-> j2, multiplier |-> w, rest |-> l2, packet |-> z]
            <4>1. TaskFields(t, 2, j, w, k, x)
                BY <2>5, ZenonT(60) DEF TaskFields
            <4>2. TaskFields([t EXCEPT !.rest = l2, !.len = j2, !.packet = z], 2, j2, w, l2, z)
                BY <4>1, Changed
            <4> QED BY <4>2, Zenon DEF TaskFields
        <3> QED BY <2>2, <3>2, <3>3, <3>4, Zenon
    <2>7. u = [state |-> 2, len |-> j + i, multiplier |-> w, rest |-> k - i, packet |-> x \o y]
        <3>1. j + i = m - b /\ k - i = e - m
            BY <2>1, <2>4
        <3> QED BY <1>6, <2>2, <2>3, <3>1, Zenon
    <2> QED BY <2>2, <2>4, <2>6, <2>7, Zenon
<1>11. Mqtt!From(in, (m - q) + 1) = Between(s, m, h)
    BY <1>7, <1>9 DEF Mqtt!From
<1>12. PICK r : r = Mqtt!ReadRest(t, in)
    OBVIOUS
<1>13. r = IF u.rest > 0 THEN Mqtt!Again(u, Between(s, m, h))
           ELSE Mqtt!Ended(Mqtt!TypeOf(u.packet), u, Between(s, m, h))
    <2>1. PICK got : got = Mqtt!Min({t.rest, Len(in)})
        OBVIOUS
    <2>2. PICK v : v = [t EXCEPT !.rest = @ - got, !.len = @ + got, !.packet = @ \o SubSeq(in, 1, got)]
        OBVIOUS
    <2>3. r = IF v.rest > 0 THEN Mqtt!Again(v, Mqtt!From(in, got + 1))
              ELSE Mqtt!Ended(Mqtt!TypeOf(v.packet), v, Mqtt!From(in, got + 1))
        BY <1>12, <2>1, <2>2 DEF Mqtt!ReadRest
    <2>4. got = m - q
        BY <1>8, <2>1
    <2>5. v = u
        BY <1>10, <2>2, <2>4, Zenon
    <2> QED BY <1>11, <2>3, <2>4, <2>5, Zenon
<1>14. CASE h < e
    <2>1. m = h /\ u.rest > 0
        BY <1>1, <1>2, <1>6, <1>14
    <2>2. Between(s, m, h) = <<>>
        BY <1>1, <2>1, BetweenNone
    <2>3. r = [rc |-> 0, t |-> u, left |-> <<>>]
        BY <1>13, <2>1, <2>2, Zenon DEF Mqtt!Again
    <2> QED BY <1>4, <1>12, <1>14, <2>1, <2>3, Zenon DEF BodyRead
<1>15. CASE ~(h < e)
    <2>1. m = e /\ ~(u.rest > 0)
        BY <1>1, <1>2, <1>6, <1>15
    <2>2. Mqtt!TypeOf(u.packet) = head \div 16
        <3>1. u.packet = Between(s, b, e) /\ b < e
            BY <1>1, <1>6, <2>1
        <3>2. Between(s, b, e)[1] = s[b + 1]
            BY <1>1, <3>1, BetweenNext, ZenonT(60)
        <3> QED BY <1>1, <3>1, <3>2, Zenon DEF Mqtt!TypeOf
    <2>3. r = [rc |-> head \div 16, t |-> [u EXCEPT !.state = 0], left |-> Between(s, e, h)]
        BY <1>13, <2>1, <2>2, Zenon DEF Mqtt!Ended
    <2> QED BY <1>4, <1>12, <1>15, <2>1, <2>3, Zenon DEF BodyRead
<1> QED BY <1>14, <1>15

\* What a call finds that has bytes up to h, wherever the one before stopped:
\* it asks for more, gives up on the whole length, or has the packet.
PieceRead(r, s, b, head, c, e, h, buflen) ==
    IF h < b + 1 + Len(c) THEN r = [rc |-> 0, t |-> InLength(head, c, h - b - 1), left |-> <<>>]
    ELSE IF e - b > buflen THEN r.rc = -1
    ELSE BodyRead(r, s, b, head, c, e, h)

LEMMA LengthThere ==
    ASSUME NEW s, NEW b, NEW head, NEW c, NEW n, NEW e, InPlace(s, b, head, c, n, e),
           NEW h \in Nat, h <= Len(s), NEW d, NoMore(d, s, b, head, c, h), NEW buflen \in Nat
    PROVE  PieceRead(Mqtt!LengthRead(buflen, d), s, b, head, c, e, h, buflen)
<1>1. /\ s \in Seq(ByteSet) /\ b \in Nat /\ e \in Nat /\ e <= Len(s) /\ Len(s) \in Nat
      /\ n \in Nat /\ head \in ByteSet /\ s[b + 1] = head /\ c \in Seq(ByteSet)
      /\ Len(c) \in Nat /\ 1 <= Len(c) /\ Coded(c, n, Len(c)) /\ e = b + 1 + Len(c) + n
    BY PlacedIs
<1>2. c = Mqtt!EncodedLength(n) /\ Between(s, b + 1, b + 1 + Len(c)) = c
    BY Zenon DEF InPlace
<1>3. PICK r : r = Mqtt!LengthRead(buflen, d)
    OBVIOUS
<1>4. CASE h < b + 1 + Len(c)
    <2>1. d = [rc |-> 0, t |-> InLength(head, c, h - b - 1), left |-> <<>>]
        BY <1>4, Zenon DEF NoMore
    <2>2. d.rc # -1 /\ d.rc = 0 /\ d.t = InLength(head, c, h - b - 1) /\ d.left = <<>>
        BY <2>1
    <2>3. r = Mqtt!Again(d.t, d.left)
        BY <1>3, <2>2 DEF Mqtt!LengthRead
    <2>4. r = [rc |-> 0, t |-> InLength(head, c, h - b - 1), left |-> <<>>]
        BY <2>2, <2>3, Zenon DEF Mqtt!Again
    <2> QED BY <1>3, <1>4, <2>4, Zenon DEF PieceRead
<1>5. CASE ~(h < b + 1 + Len(c))
    <2>1. PICK m, w, left : m = b + 1 + Len(c) /\ w = Weight(Len(c)) /\ left = Between(s, m, h)
        OBVIOUS
    <2>2. d = [rc |-> Len(c), t |-> InLength(head, c, Len(c)), left |-> left]
        BY <1>5, <2>1, ZenonT(60) DEF NoMore
    <2>3. InLength(head, c, Len(c)) = [state |-> 1, len |-> Len(c), multiplier |-> w, rest |-> n,
                                       packet |-> <<head>>]
        BY <1>1, <2>1, WholeWorth, Zenon DEF InLength
    <2>4. PICK u : u = [state |-> 1, len |-> 1 + Len(c), multiplier |-> w, rest |-> n,
                        packet |-> <<head>> \o c]
        OBVIOUS
    <2>5. [d.t EXCEPT !.len = 1 + Len(c), !.packet = @ \o c] = u /\ d.rc # -1 /\ d.rc # 0
          /\ d.left = left /\ d.t.rest = n
        <3>1. PICK k : k = 1 + Len(c)
            OBVIOUS
        <3>2. d.t = [state |-> 1, len |-> Len(c), multiplier |-> w, rest |-> n, packet |-> <<head>>]
            BY <2>2, <2>3, Zenon
        <3>3. [d.t EXCEPT !.len = k, !.packet = @ \o c]
                  = [state |-> 1, len |-> k, multiplier |-> w, rest |-> n, packet |-> <<head>> \o c]
            <4>1. d.t.packet = <<head>>
                BY <3>2
            <4>2. [d.t EXCEPT !.len = k, !.packet = @ \o c]
                      = [d.t EXCEPT !.len = k, !.packet = <<head>> \o c]
                BY <4>1, Zenon
            <4>3. PICK v, x : v = d.t /\ x = <<head>> \o c
                OBVIOUS
            <4>4. v = [state |-> 1, len |-> Len(c), multiplier |-> w, rest |-> n, packet |-> <<head>>]
                BY <3>2, <4>3, Zenon
            <4>5. [v EXCEPT !.len = k, !.packet = x]
                      = [state |-> 1, len |-> k, multiplier |-> w, rest |-> n, packet |-> x]
                <5>1. TaskFields(v, 1, Len(c), w, n, <<head>>)
                    BY <4>4, Zenon DEF TaskFields
                <5>2. TaskFields([v EXCEPT !.len = k, !.packet = x], 1, k, w, n, x)
                    BY <5>1, Changed
                <5> QED BY <5>2, Zenon DEF TaskFields
            <4> QED BY <4>2, <4>3, <4>5, Zenon
        <3>4. d.rc = Len(c) /\ d.left = left /\ d.t.rest = n
            BY <2>2, <3>2
        <3> QED BY <1>1, <2>4, <3>1, <3>3, <3>4
    <2>6. r = IF u.rest + u.len > buflen THEN Mqtt!Ended(-1, u, left)
              ELSE Mqtt!ReadRest([u EXCEPT !.state = 2], left)
        BY <1>2, <1>3, <2>5 DEF Mqtt!LengthRead
    <2>7. u.rest + u.len = e - b
        BY <1>1, <2>4
    <2>8. CASE e - b > buflen
        <3>1. r = Mqtt!Ended(-1, u, left)
            BY <2>6, <2>7, <2>8, Zenon
        <3>2. r.rc = -1
            BY <3>1 DEF Mqtt!Ended
        <3> QED BY <1>3, <1>5, <2>8, <3>2, Zenon DEF PieceRead
    <2>9. CASE ~(e - b > buflen)
        <3>1. m \in Nat /\ m <= e /\ m <= h /\ b <= b + 1 /\ b + 1 <= m /\ m <= Len(s) /\ b + 1 \in Nat
            BY <1>1, <1>5, <2>1
        <3>2. <<head>> \o c = Between(s, b, m)
            <4>1. Between(s, b, b + 1) \o Between(s, b + 1, m) = Between(s, b, m)
                <5>1. CutAt(s, b, b + 1, m)
                    BY <1>1, <3>1, BetweenCut
                <5> QED BY <5>1, Zenon DEF CutAt
            <4>2. Between(s, b, b + 1) = <<head>>
                <5>1. PICK x : x = Between(s, b, b + 1)
                    OBVIOUS
                <5>2. (b + 1) - b = 1 /\ b + 1 <= Len(s)
                    BY <1>1, <3>1
                <5>3. x \in Seq(ByteSet) /\ Len(x) = (b + 1) - b
                      /\ \A i \in 1..((b + 1) - b) : x[i] = s[b + i]
                    BY <1>1, <3>1, <5>1, <5>2, BetweenIs, ZenonT(90)
                <5>4. Len(x) = 1 /\ x[1] = head
                    BY <1>1, <5>2, <5>3
                <5>5. PICK y : y = <<head>>
                    OBVIOUS
                <5>6. y \in Seq(ByteSet) /\ Len(y) = 1 /\ y[1] = head
                    BY <1>1, <5>5
                <5>7. x = y
                    BY <5>3, <5>4, <5>6, Same
                <5> QED BY <5>1, <5>5, <5>7
            <4> QED BY <1>2, <2>1, <4>1, <4>2
        <3>3. m - b = 1 + Len(c) /\ e - m = n
            BY <1>1, <2>1
        <3>4. [u EXCEPT !.state = 2] = InBody(s, b, c, e, m)
            <4>1. [u EXCEPT !.state = 2] = [state |-> 2, len |-> 1 + Len(c), multiplier |-> w,
                                            rest |-> n, packet |-> <<head>> \o c]
                <5>1. PICK k, x : k = 1 + Len(c) /\ x = <<head>> \o c
                    OBVIOUS
                <5>2. u = [state |-> 1, len |-> k, multiplier |-> w, rest |-> n, packet |-> x]
                    BY <2>4, <5>1, Zenon
                <5>3. [u EXCEPT !.state = 2]
                          = [state |-> 2, len |-> k, multiplier |-> w, rest |-> n, packet |-> x]
                    BY <5>2
                <5> QED BY <5>1, <5>3, Zenon
            <4> QED BY <2>1, <3>2, <3>3, <4>1, Zenon DEF InBody
        <3>5. r = Mqtt!ReadRest(InBody(s, b, c, e, m), Between(s, m, h))
            BY <2>1, <2>6, <2>7, <2>9, <3>4, Zenon
        <3>6. b + 1 + Len(c) <= m
            BY <1>1, <2>1
        <3>7. BodyRead(r, s, b, head, c, e, h)
            BY <3>1, <3>5, <3>6, RestRead
        <3> QED BY <1>3, <1>5, <2>9, <3>7, Zenon DEF PieceRead
    <2> QED BY <2>8, <2>9
<1> QED BY <1>4, <1>5

\* Where the transport of MQTTPacket_readnb stands with the bytes up to q.
Stands(t, s, b, head, c, e, q) ==
    /\ q = b => t \in Mqtt!Transports /\ t.state = 0
    /\ b < q /\ q < b + 1 + Len(c) => t = InLength(head, c, q - b - 1)
    /\ b + 1 + Len(c) <= q => t = InBody(s, b, c, e, q)

LEMMA InLengthTyped ==
    ASSUME NEW n \in Nat, NEW k, NEW c, Coded(c, n, k), NEW j \in Nat, j < k, NEW head \in ByteSet
    PROVE  /\ InLength(head, c, j) \in Mqtt!Transports /\ InLength(head, c, j).state = 1
           /\ InLength(head, c, j).len = j /\ InLength(head, c, j).packet = <<head>>
<1>1. PICK t, v, w : t = InLength(head, c, j) /\ v = Weight(j) /\ w = Worth(c, j)
    OBVIOUS
<1>2. v \in Nat /\ w \in Nat
    BY <1>1, NextWorth
<1>3. t = [state |-> 1, len |-> j, multiplier |-> v, rest |-> w, packet |-> <<head>>]
    BY <1>1, Zenon DEF InLength
<1>4. head \in Nat
    BY DEF ByteSet
<1>5. t \in Mqtt!Transports /\ t.state = 1 /\ t.len = j /\ t.packet = <<head>>
    BY <1>2, <1>3, <1>4 DEF Mqtt!Transports
<1> QED BY <1>1, <1>5

LEMMA ReadPiece ==
    ASSUME NEW s, NEW b, NEW head, NEW c, NEW n, NEW e, InPlace(s, b, head, c, n, e),
           NEW q \in Nat, b <= q, q < e, NEW h \in Nat, q < h, h <= Len(s), NEW buflen \in Nat,
           b + 1 + Len(c) <= q => ~(e - b > buflen), NEW t, Stands(t, s, b, head, c, e, q)
    PROVE  PieceRead(Mqtt!ReadNb(buflen, t, Between(s, q, h)), s, b, head, c, e, h, buflen)
<1>1. /\ s \in Seq(ByteSet) /\ b \in Nat /\ e \in Nat /\ e <= Len(s) /\ Len(s) \in Nat
      /\ n \in Nat /\ head \in ByteSet /\ s[b + 1] = head
      /\ Len(c) \in Nat /\ 1 <= Len(c) /\ Coded(c, n, Len(c)) /\ e = b + 1 + Len(c) + n
    BY PlacedIs
<1>2. PICK in, r : in = Between(s, q, h) /\ r = Mqtt!ReadNb(buflen, t, in)
    OBVIOUS
<1>3. CASE q = b
    <2>1. t \in Mqtt!Transports /\ t.state = 0
        BY <1>3, Zenon DEF Stands
    <2>2. in # <<>> /\ in[1] = head /\ Tail(in) = Between(s, b + 1, h)
        BY <1>1, <1>2, <1>3, BetweenNext, ZenonT(90)
    <2>3. PICK u : u = [t EXCEPT !.state = 1, !.len = 0, !.packet = <<head>>]
        OBVIOUS
    <2>4. u \in Mqtt!Transports /\ u.state = 1 /\ u.len = 0 /\ u.packet = <<head>>
        <3>1. head \in Nat
            BY <1>1 DEF ByteSet
        <3>2. t.multiplier \in Nat /\ t.rest \in Nat
              /\ t = [state |-> 0, len |-> t.len, multiplier |-> t.multiplier, rest |-> t.rest,
                      packet |-> t.packet]
            BY <2>1 DEF Mqtt!Transports
        <3>3. u = [state |-> 1, len |-> 0, multiplier |-> t.multiplier, rest |-> t.rest,
                   packet |-> <<head>>]
            BY <2>3, <3>2
        <3>4. <<head>> \in Seq(Nat) /\ 1 \in 0..2 /\ 0 \in Nat
            BY <3>1
        <3>5. u \in Mqtt!Transports
            BY <3>2, <3>3, <3>4 DEF Mqtt!Transports
        <3> QED BY <3>3, <3>5
    <2>5. r = Mqtt!ReadLength(buflen, u, Between(s, b + 1, h))
        <3>1. r = Mqtt!ReadLength(buflen, [t EXCEPT !.state = 1, !.len = 0, !.packet = <<in[1]>>],
                                  Tail(in))
            BY <1>2, <2>1, <2>2 DEF Mqtt!ReadNb
        <3> QED BY <2>2, <2>3, <3>1, Zenon
    <2>6. 0 < Len(c) /\ b + 1 + 0 <= h /\ b + 1 + 0 = b + 1
        BY <1>1, <1>3
    <2>7. NoMore(Mqtt!DecodeNb(u, Between(s, b + 1 + 0, h)), s, b, head, c, h)
        BY <2>4, <2>6, DigitsRead
    <2>8. r = Mqtt!LengthRead(buflen, Mqtt!DecodeNb(u, Between(s, b + 1 + 0, h)))
        BY <2>5, <2>6, Zenon DEF Mqtt!ReadLength
    <2> QED BY <1>2, <2>7, <2>8, LengthThere
<1>4. CASE b < q /\ q < b + 1 + Len(c)
    <2>1. PICK j \in Nat : j = q - b - 1
        BY <1>1, <1>4
    <2>2. t = InLength(head, c, j) /\ j < Len(c) /\ b + 1 + j = q /\ b + 1 + j <= h
        BY <1>1, <1>4, <2>1 DEF Stands
    <2>3. t \in Mqtt!Transports /\ t.state = 1 /\ t.len = j /\ t.packet = <<head>>
        BY <1>1, <2>2, InLengthTyped
    <2>4. NoMore(Mqtt!DecodeNb(t, Between(s, b + 1 + j, h)), s, b, head, c, h)
        BY <2>2, <2>3, DigitsRead
    <2>5. t.state # 0
        BY <2>3
    <2>6. r = Mqtt!LengthRead(buflen, Mqtt!DecodeNb(t, Between(s, b + 1 + j, h)))
        BY <1>2, <2>2, <2>3, <2>5 DEF Mqtt!ReadNb, Mqtt!ReadLength, Mqtt!Resumed
    <2> QED BY <1>2, <2>4, <2>6, LengthThere
<1>5. CASE b + 1 + Len(c) <= q
    <2>1. t = InBody(s, b, c, e, q) /\ ~(e - b > buflen)
        BY <1>5, Zenon DEF Stands
    <2>2. t.state = 2 /\ t.state # 0 /\ t.state # 1
        BY <2>1 DEF InBody
    <2>3. r = Mqtt!ReadRest(InBody(s, b, c, e, q), Between(s, q, h))
        <3>1. r = Mqtt!ReadRest(t, in)
            BY <1>2, <2>2 DEF Mqtt!ReadNb
        <3> QED BY <1>2, <2>1, <3>1, Zenon
    <2>4. BodyRead(r, s, b, head, c, e, h)
        <3>1. q <= e /\ q <= h
            BY <1>1
        <3> QED BY <1>5, <2>3, <3>1, RestRead
    <2>5. ~(h < b + 1 + Len(c))
        BY <1>1, <1>5
    <2> QED BY <1>2, <2>1, <2>4, <2>5, Zenon DEF PieceRead
<1> QED BY <1>1, <1>3, <1>4, <1>5

-----------------------------------------------------------------------------
(* A stream of packets, cut anywhere.                                      *)

LEMMA FlatRest ==
    ASSUME NEW p \in Seq(Seq(ByteSet)), NEW f, Flattened(p, f), NEW k \in Nat, k <= Len(p)
    PROVE  \E more \in Seq(ByteSet) : Mqtt!FlattenSeq(p) = f[k] \o more
<1>1. PICK s, n : s = Mqtt!FlattenSeq(p) /\ n = Len(p)
    OBVIOUS
<1>2. /\ s = f[n] /\ n \in Nat /\ \A i \in 0..n : f[i] \in Seq(ByteSet)
      /\ \A i \in 1..n : f[i] = f[i - 1] \o p[i] /\ p[i] \in Seq(ByteSet)
    <2>1. /\ s = f[n] /\ \A i \in 0..n : f[i] \in Seq(ByteSet)
          /\ \A i \in 1..n : f[i] = f[i - 1] \o p[i]
        BY <1>1, Zenon DEF Flattened, FlattenedIn
    <2>2. n \in Nat /\ \A i \in 1..n : p[i] \in Seq(ByteSet)
        BY <1>1
    <2> QED BY <2>1, <2>2
<1> DEFINE Good == {d \in Nat : d <= n => \E more \in Seq(ByteSet) : s = f[n - d] \o more}
<1>3. 0 \in Good
    <2>1. n - 0 = n /\ n \in 0..n
        BY <1>2
    <2>2. s \in Seq(ByteSet) /\ <<>> \in Seq(ByteSet) /\ s = s \o <<>>
        <3>1. s \in Seq(ByteSet)
            BY <1>2, <2>1
        <3> QED BY <3>1
    <2>3. \E more \in Seq(ByteSet) : s = f[n - 0] \o more
        BY <1>2, <2>1, <2>2
    <2> QED BY <2>3
<1>4. ASSUME NEW d \in Nat, d \in Good PROVE d + 1 \in Good
    <2>1. ASSUME d + 1 <= n PROVE \E more \in Seq(ByteSet) : s = f[n - (d + 1)] \o more
        <3>1. d <= n
            BY <1>2, <2>1
        <3>2. PICK more \in Seq(ByteSet) : s = f[n - d] \o more
            BY <1>4, <3>1
        <3>3. PICK i : i = n - d
            OBVIOUS
        <3>4. i \in 1..n /\ i - 1 = n - (d + 1) /\ i - 1 \in 0..n
            BY <1>2, <2>1, <3>3
        <3>5. PICK x, y : x = f[i - 1] /\ y = p[i]
            OBVIOUS
        <3>6. x \in Seq(ByteSet) /\ y \in Seq(ByteSet) /\ f[i] = x \o y
            BY <1>2, <3>4, <3>5
        <3>7. x \o (y \o more) = x \o y \o more
            BY <3>6, Regrouped, SMTT(60)
        <3>8. y \o more \in Seq(ByteSet)
            BY <3>6, TwoParts
        <3>9. s = x \o (y \o more)
            BY <3>2, <3>3, <3>6, <3>7, Zenon
        <3> QED BY <3>4, <3>5, <3>8, <3>9, Zenon
    <2> QED BY <2>1
<1>5. \A d \in Nat : d \in Good
    <2> HIDE DEF Good
    <2> QED BY <1>3, <1>4, Induction
<1>6. PICK d : d = n - k
    OBVIOUS
<1>7. d \in Nat /\ d <= n /\ n - d = k
    BY <1>1, <1>2, <1>6
<1>8. d \in Good
    BY <1>5, <1>7, Zenon
<1>9. \E more \in Seq(ByteSet) : s = f[n - d] \o more
    BY <1>7, <1>8
<1> QED BY <1>1, <1>7, <1>9, Zenon

\* The packet k + 1 of the stream, and what comes behind it.
Place(s, p, f, k, head, c, n) ==
    /\ InPlace(s, Len(f[k]), head, c, n, Len(f[k + 1])) /\ 16 <= head
    /\ Between(s, Len(f[k]), Len(f[k + 1])) = p[k + 1]

Behind(s, f, k, head, rest) ==
    \E more \in Seq(ByteSet) : /\ Between(s, Len(f[k]), Len(s)) = Packet(head, rest) \o more
                              /\ Len(s) - Len(more) = Len(f[k + 1])

LEMMA PlaceThere ==
    ASSUME NEW p \in Seq(Seq(ByteSet)), NEW f, Flattened(p, f), NEW k \in Nat, k < Len(p),
           NEW head, NEW rest, Packable(head, rest), 16 <= head, p[k + 1] = Packet(head, rest),
           NEW s, s = Mqtt!FlattenSeq(p)
    PROVE  /\ Place(s, p, f, k, head, Mqtt!EncodedLength(Len(rest)), Len(rest))
           /\ Behind(s, f, k, head, rest)
<1>1. PICK a, x, y, c, n : /\ a = f[k] /\ x = p[k + 1] /\ y = f[k + 1] /\ n = Len(rest)
                           /\ c = Mqtt!EncodedLength(Len(rest))
    OBVIOUS
<1>2. /\ head \in ByteSet /\ rest \in Seq(ByteSet) /\ n \in Nat /\ n < LengthLimit
    BY <1>1 DEF Packable
<1>3. a \in Seq(ByteSet) /\ x \in Seq(ByteSet) /\ y = a \o x
    <2>1. k \in 0..Len(p) /\ k + 1 \in 1..Len(p) /\ (k + 1) - 1 = k
        OBVIOUS
    <2>2. a \in Seq(ByteSet) /\ y = a \o x
        BY <1>1, <2>1, Zenon DEF Flattened, FlattenedIn
    <2>3. x \in Seq(ByteSet)
        BY <1>1, <2>1
    <2> QED BY <2>2, <2>3
<1>4. PICK more \in Seq(ByteSet) : s = y \o more
    <2>1. k + 1 \in Nat /\ k + 1 <= Len(p)
        OBVIOUS
    <2> QED BY <1>1, <2>1, FlatRest
<1>5. PICK z : z = x \o more
    OBVIOUS
<1>6. /\ z \in Seq(ByteSet) /\ z[1] = head /\ 1 + Len(c) + n = Len(x)
    <2>1. Parted(head, rest, more, c, x, z)
        BY <1>1, <1>5, PacketIs
    <2> QED BY <1>1, <2>1, Zenon DEF Parted
<1>7. c \in Seq(ByteSet) /\ Len(c) \in Nat
    BY <1>1, <1>2, CodedSomehow
<1>8. /\ y \in Seq(ByteSet) /\ Len(a) + Len(x) = Len(y) /\ Len(x) \in Nat /\ Len(a) \in Nat
    BY <1>3, TwoParts
<1>9. /\ s \in Seq(ByteSet) /\ Len(y) + Len(more) = Len(s) /\ Len(more) \in Nat /\ Len(s) \in Nat
    BY <1>4, <1>8, TwoParts
<1>10. s = a \o z
    BY <1>3, <1>4, <1>5, Regrouped, SMTT(90)
<1>11. Len(a) + Len(z) = Len(s) /\ \A i \in 1..Len(z) : s[Len(a) + i] = z[i]
    BY <1>3, <1>6, <1>10, TwoParts
<1>12. Len(x) + Len(more) = Len(z) /\ \A i \in 1..Len(x) : z[i] = x[i]
    BY <1>3, <1>5, TwoParts
<1>13. \A i \in 1..Len(c) : x[1 + i] = c[i]
    <2>1. PICK h : h = <<head>>
        OBVIOUS
    <2>2. h \in Seq(ByteSet) /\ Len(h) = 1
        BY <1>2, <2>1
    <2>3. x = h \o c \o rest
        BY <1>1, <2>1, Zenon DEF Packet
    <2>4. \A i \in 1..Len(c) : (h \o c \o rest)[Len(h) + i] = c[i]
        <3>1. h \in Seq(ByteSet) /\ c \in Seq(ByteSet) /\ rest \in Seq(ByteSet)
            BY <1>2, <1>7, <2>2
        <3> QED BY <3>1, ThreeParts
    <2> QED BY <2>2, <2>3, <2>4
<1>14. PICK b, e, m : b = Len(a) /\ e = Len(y) /\ m = b + 1 + Len(c)
    OBVIOUS
<1>15. /\ b \in Nat /\ e \in Nat /\ e <= Len(s) /\ e = b + 1 + Len(c) + n /\ m \in Nat /\ m <= Len(s)
       /\ b + 1 \in Nat /\ b + 1 <= m /\ m - (b + 1) = Len(c)
    <2>1. PICK i \in Nat, j \in Nat, k2 \in Nat, l \in Nat :
              i = Len(a) /\ j = Len(x) /\ k2 = Len(c) /\ l = Len(more)
        BY <1>7, <1>8, <1>9
    <2>2. e = i + j /\ 1 + k2 + n = j /\ Len(s) = e + l /\ b = i /\ m = b + 1 + k2
        BY <1>6, <1>8, <1>9, <1>14, <2>1
    <2>3. n \in Nat
        BY <1>2
    <2>4. b \in Nat /\ m \in Nat /\ e \in Nat /\ e = b + 1 + k2 + n
        <3>1. b = i /\ m = b + 1 + k2 /\ e = i + j /\ j = 1 + k2 + n
            BY <2>2, Zenon
        <3>2. b \in Nat
            BY <3>1, Zenon
        <3>3. i + j = i + 1 + k2 + n
            BY <2>3, <3>1
        <3>4. e \in Nat /\ m \in Nat
            BY <3>1, <3>2, SMTT(60)
        <3> QED BY <3>1, <3>2, <3>3, <3>4
    <2>5. e <= e + l /\ m <= e + l /\ b + 1 \in Nat /\ b + 1 <= m /\ m - (b + 1) = k2
        BY <2>1, <2>2, <2>3, <2>4, SMTT(90)
    <2> QED BY <2>1, <2>2, <2>4, <2>5, Zenon
<1>16. s[b + 1] = head
    <2>1. 1 \in 1..Len(z)
        BY <1>2, <1>6, <1>7, <1>8, <1>12, <1>9
    <2> QED BY <1>6, <1>11, <1>14, <2>1
<1>17. Between(s, b + 1, m) = c
    <2>1. PICK w : w = Between(s, b + 1, m)
        OBVIOUS
    <2>2. w \in Seq(ByteSet) /\ Len(w) = m - (b + 1) /\ \A i \in 1..(m - (b + 1)) : w[i] = s[(b + 1) + i]
        <3>1. s \in Seq(ByteSet) /\ b + 1 \in Nat /\ m \in Nat /\ b + 1 <= m /\ m <= Len(s)
            BY <1>9, <1>15
        <3> QED BY <2>1, <3>1, BetweenIs
    <2>3. ASSUME NEW i \in 1..Len(w) PROVE w[i] = c[i]
        <3>1. i \in 1..Len(c) /\ i \in 1..(m - (b + 1)) /\ 1 + i \in 1..Len(x) /\ 1 + i \in 1..Len(z)
              /\ (b + 1) + i = b + (1 + i)
            <4>1. i \in Nat /\ 1 <= i /\ i <= Len(c)
                BY <1>7, <1>15, <2>2
            <4>2. 1 + Len(c) <= Len(x) /\ Len(x) <= Len(z) /\ Len(z) \in Nat
                <5>1. PICK lz : lz = Len(z)
                    OBVIOUS
                <5>2. Len(x) + Len(more) = lz
                    BY <1>12, <5>1
                <5>3. PICK lx \in Nat, lm \in Nat, lc \in Nat :
                          lx = Len(x) /\ lm = Len(more) /\ lc = Len(c)
                    BY <1>7, <1>8, <1>9
                <5>4. n \in Nat /\ 1 + lc + n = lx /\ lx + lm = lz
                    BY <1>2, <1>6, <5>2, <5>3
                <5> QED BY <5>1, <5>3, <5>4, SMTT(60)
            <4> QED BY <1>7, <1>8, <1>15, <4>1, <4>2, SMTT(90)
        <3>2. w[i] = s[b + (1 + i)] /\ s[b + (1 + i)] = z[1 + i]
            BY <1>11, <1>14, <2>2, <3>1
        <3>3. z[1 + i] = x[1 + i] /\ x[1 + i] = c[i]
            BY <1>12, <1>13, <3>1
        <3> QED BY <3>2, <3>3
    <2>4. Len(w) = Len(c)
        BY <1>15, <2>2
    <2> QED BY <1>7, <2>1, <2>2, <2>3, <2>4, Same
<1>18. Between(s, b, e) = x
    <2>1. SubSeq(a \o x \o more, Len(a) + 1, Len(a) + Len(x)) = x
        BY <1>3, Middle
    <2>2. a \o x \o more = s /\ Len(a) + Len(x) = e
        BY <1>3, <1>4, <1>8, <1>14
    <2> QED BY <1>14, <2>1, <2>2, Zenon DEF Between
<1>19. Between(s, b, Len(s)) = z
    <2>1. SubSeq(a \o z, Len(a) + 1, Len(a) + Len(z)) = z
        BY <1>3, <1>6, LastPart
    <2> QED BY <1>10, <1>11, <1>14, <2>1, Zenon DEF Between
<1>20. Len(s) - Len(more) = e
    BY <1>8, <1>9, <1>14
<1>21. InPlace(s, b, head, c, n, e)
    BY <1>1, <1>2, <1>9, <1>14, <1>15, <1>16, <1>17, Zenon DEF InPlace
<1>22. Place(s, p, f, k, head, c, n)
    BY <1>1, <1>14, <1>18, <1>21, Zenon DEF Place
<1>23. Between(s, Len(f[k]), Len(s)) = Packet(head, rest) \o more /\ Len(s) - Len(more) = Len(f[k + 1])
    BY <1>1, <1>5, <1>14, <1>19, <1>20, Zenon
<1> QED BY <1>1, <1>22, <1>23, Zenon DEF Behind

\* MQTTPacket_read gives up on a packet that does not fit.
LEMMA ReadGivesUp ==
    ASSUME NEW head, NEW rest, Packable(head, rest), NEW more \in Seq(ByteSet),
           NEW buflen \in Nat, Len(Packet(head, rest)) > buflen
    PROVE  Mqtt!Read(buflen, Packet(head, rest) \o more).rc = -1
<1>1. PICK c, p, s : c = Mqtt!EncodedLength(Len(rest)) /\ p = Packet(head, rest) /\ s = p \o more
    OBVIOUS
<1>2. 1 + Len(c) + Len(rest) = Len(p) /\ Mqtt!DecodedLength(Tail(s)) = Len(rest)
    <2>1. Parted(head, rest, more, c, p, s)
        BY <1>1, PacketIs
    <2> QED BY <2>1, Zenon DEF Parted
<1>3. 1 + Len(c) + Len(rest) > buflen
    BY <1>1, <1>2
<1>4. Mqtt!Read(buflen, s).rc = -1
    BY <1>1, <1>2, <1>3 DEF Mqtt!Read
<1> QED BY <1>1, <1>4

IsPacket(x) == \E head, rest : Packable(head, rest) /\ 16 <= head /\ x = Packet(head, rest)

\* Any packets of a type that there is, cut anywhere, and any buffer.
Streamable(i) ==
    /\ i.packets \in Seq(Seq(ByteSet)) /\ \A k \in 1..Len(i.packets) : IsPacket(i.packets[k])
    /\ i.buflen \in Nat
    /\ i.cuts \in SUBSET Nat /\ IsFiniteSet(i.cuts)

\* What a reader is to find: the packets up to the first that does not fit,
\* and there it gives up.
Listed(z, l) == (\E S : z \in Seq(S)) /\ Len(z) = l
Message(x) == [rc |-> x[1] \div 16, packet |-> x]
Begun(p, buflen, found, m) == \A k \in 1..m : Len(p[k]) <= buflen /\ found[k] = Message(p[k])
GaveUp(p, buflen, found, m) ==
    /\ m < Len(p) /\ Listed(found, m + 1) /\ Begun(p, buflen, found, m)
    /\ Len(p[m + 1]) > buflen /\ found[m + 1].rc = -1
AllFound(p, buflen, found) == Listed(found, Len(p)) /\ Begun(p, buflen, found, Len(p))
Done(p, buflen, found) == AllFound(p, buflen, found) \/ \E m \in Nat : GaveUp(p, buflen, found, m)
Over(p, buflen, s, w) == Done(p, buflen, w.found) /\ w.at = Len(s)

Extended(y, z, x, l) ==
    Listed(y, l + 1) /\ y[l + 1] = x /\ \A k \in 1..l : y[k] = z[k]

LEMMA ListedNext ==
    ASSUME NEW z, NEW l, Listed(z, l), NEW x
    PROVE  Extended(Append(z, x), z, x, l)
<1>1. PICK S : z \in Seq(S)
    BY DEF Listed
<1>2. Len(z) = l
    BY DEF Listed
<1>3. PICK T : T = S \cup {x}
    OBVIOUS
<1>4. z \in Seq(T) /\ x \in T
    <2>1. S \subseteq T /\ x \in T
        BY <1>3
    <2> QED BY <1>1, <2>1, Wider
<1>5. PICK y : y = Append(z, x)
    OBVIOUS
<1>6. /\ y \in Seq(T) /\ Len(y) = Len(z) + 1 /\ y[Len(z) + 1] = x /\ Len(z) \in Nat
      /\ \A k \in 1..Len(z) : y[k] = z[k]
    BY <1>4, <1>5
<1>7. Listed(y, l + 1)
    BY <1>2, <1>6 DEF Listed
<1>8. y[l + 1] = x /\ \A k \in 1..l : y[k] = z[k]
    BY <1>2, <1>6
<1> QED BY <1>5, <1>7, <1>8, Zenon DEF Extended

\* Two readers that are done have found the same.
LEMMA SameEnd ==
    ASSUME NEW p \in Seq(Seq(ByteSet)), NEW buflen \in Nat, NEW x, NEW y, Done(p, buflen, x), Done(p, buflen, y)
    PROVE  /\ Len(x) = Len(y)
           /\ \A k \in DOMAIN x : x[k].rc = y[k].rc /\ (x[k].rc # -1 => x[k] = y[k])
<1>1. /\ Len(p) \in Nat /\ \A k \in 1..Len(p) : Len(p[k]) \in Nat
    <2>1. Len(p) \in Nat /\ \A k \in 1..Len(p) : p[k] \in Seq(ByteSet)
        OBVIOUS
    <2> QED BY <2>1
<1>2. ASSUME NEW z, Listed(z, Len(z)) PROVE DOMAIN z = 1..Len(z)
    <2>1. PICK S : z \in Seq(S)
        BY <1>2 DEF Listed
    <2> QED BY <2>1
<1>3. CASE AllFound(p, buflen, x) /\ AllFound(p, buflen, y)
    <2>1. PICK l \in Nat : l = Len(p)
        BY <1>1
    <2>2. /\ Listed(x, l) /\ Listed(y, l) /\ \A k \in 1..l : x[k] = y[k]
        BY <1>3, <2>1, Zenon DEF AllFound, Begun
    <2>3. Len(x) = l /\ Len(y) = l /\ DOMAIN x = 1..l
        <3>1. Len(x) = l /\ Len(y) = l
            BY <2>2, Zenon DEF Listed
        <3> QED BY <1>2, <2>2, <3>1
    <2> QED BY <2>2, <2>3
<1>4. ASSUME NEW u, NEW v, NEW m \in Nat, GaveUp(p, buflen, u, m), AllFound(p, buflen, v)
      PROVE  FALSE
    <2>1. m < Len(p) /\ Len(p[m + 1]) > buflen
        BY <1>4, Zenon DEF GaveUp
    <2>2. m + 1 \in 1..Len(p)
        BY <1>1, <2>1
    <2>3. Len(p[m + 1]) <= buflen
        BY <1>4, <2>2, Zenon DEF AllFound, Begun
    <2> QED BY <1>1, <2>1, <2>2, <2>3
<1>5. ASSUME NEW m \in Nat, NEW j \in Nat, GaveUp(p, buflen, x, m), GaveUp(p, buflen, y, j)
      PROVE  /\ Len(x) = Len(y)
             /\ \A k \in DOMAIN x : x[k].rc = y[k].rc /\ (x[k].rc # -1 => x[k] = y[k])
    <2>1. /\ m < Len(p) /\ Listed(x, m + 1) /\ Len(p[m + 1]) > buflen /\ x[m + 1].rc = -1
          /\ \A k \in 1..m : Len(p[k]) <= buflen /\ x[k] = Message(p[k])
          /\ j < Len(p) /\ Listed(y, j + 1) /\ Len(p[j + 1]) > buflen /\ y[j + 1].rc = -1
          /\ \A k \in 1..j : Len(p[k]) <= buflen /\ y[k] = Message(p[k])
        BY <1>5, Zenon DEF GaveUp, Begun
    <2>2. m = j
        <3>1. ~(m < j)
            <4>1. ASSUME m < j PROVE FALSE
                <5>1. m + 1 \in 1..j /\ m + 1 \in 1..Len(p)
                    BY <1>1, <2>1, <4>1
                <5>2. Len(p[m + 1]) <= buflen /\ Len(p[m + 1]) \in Nat
                    BY <1>1, <2>1, <5>1
                <5> QED BY <2>1, <5>2
            <4> QED BY <4>1
        <3>2. ~(j < m)
            <4>1. ASSUME j < m PROVE FALSE
                <5>1. j + 1 \in 1..m /\ j + 1 \in 1..Len(p)
                    BY <1>1, <2>1, <4>1
                <5>2. Len(p[j + 1]) <= buflen /\ Len(p[j + 1]) \in Nat
                    BY <1>1, <2>1, <5>1
                <5> QED BY <2>1, <5>2
            <4> QED BY <4>1
        <3> QED BY <3>1, <3>2
    <2>3. Len(x) = m + 1 /\ Len(y) = m + 1
        BY <2>1, <2>2, Zenon DEF Listed
    <2>4. DOMAIN x = 1..(m + 1)
        BY <1>2, <2>1, <2>3
    <2>5. ASSUME NEW k \in 1..(m + 1) PROVE x[k].rc = y[k].rc /\ (x[k].rc # -1 => x[k] = y[k])
        <3>1. CASE k = m + 1
            BY <2>1, <2>2, <3>1
        <3>2. CASE k # m + 1
            <4>1. k \in 1..m /\ k \in 1..j
                BY <2>2, <3>2
            <4>2. x[k] = y[k]
                BY <2>1, <4>1, Zenon
            <4> QED BY <4>2, Zenon
        <3> QED BY <3>1, <3>2
    <2> QED BY <2>3, <2>4, <2>5, Zenon
<1> QED BY <1>3, <1>4, <1>5, Zenon DEF Done

LEMMA Lowest ==
    ASSUME NEW T \in SUBSET Nat, T # {}
    PROVE  Min(T) \in T /\ \A y \in T : Min(T) <= y
<1> DEFINE R == {ss \in Nat \X Nat : ss[1] < ss[2]}
<1>1. IsWellFoundedOn(R, Nat)
    BY NatLessThanWellFounded, Zenon DEF OpToRel
<1>2. PICK x \in T : \A y \in T : ~(<<y, x>> \in R)
    <2> HIDE DEF R
    <2> QED BY <1>1, WFMin
<1>3. ASSUME NEW y \in T PROVE x <= y
    <2>1. x \in Nat /\ y \in Nat
        OBVIOUS
    <2>2. ASSUME y < x PROVE <<y, x>> \in R
        BY <2>1, <2>2
    <2>3. ~(y < x)
        <3> HIDE DEF R
        <3> QED BY <1>2, <2>2
    <2> QED BY <2>1, <2>3
<1>4. T \in SUBSET Int
    OBVIOUS
<1>5. Min(T) = x
    BY <1>3, <1>4, MinIs
<1> QED BY <1>3, <1>5

LEMMA Least ==
    ASSUME NEW T \in SUBSET Nat, T # {}
    PROVE  Min(T) \in T
BY Lowest

LEMMA NextCutIs ==
    ASSUME NEW i, i.cuts \in SUBSET Nat, NEW s, Len(s) \in Nat, NEW at \in Nat, at < Len(s)
    PROVE  /\ NextCut(i, s, at) \in Nat /\ at < NextCut(i, s, at) /\ NextCut(i, s, at) <= Len(s)
           /\ NextCut(i, s, at) \in i.cuts \cup {Len(s)}
<1>1. PICK T : T = {c \in i.cuts \cup {Len(s)} : at < c /\ c <= Len(s)}
    OBVIOUS
<1>2. Len(s) \in T /\ T \in SUBSET Nat
    BY <1>1
<1>3. NextCut(i, s, at) \in T
    BY <1>1, <1>2, Least DEF NextCut
<1> QED BY <1>1, <1>2, <1>3

\* The places among the cuts and the end that a reader has passed.
Passed(i, s, at) == {x \in i.cuts \cup {Len(s)} : x <= at}

LEMMA PassedIs ==
    ASSUME NEW i, i.cuts \in SUBSET Nat, IsFiniteSet(i.cuts), NEW s, Len(s) \in Nat, NEW at \in Nat,
           NEW h \in Nat, at <= h
    PROVE  /\ Cardinality(i.cuts) \in Nat
           /\ Cardinality(Passed(i, s, at)) \in Nat /\ Cardinality(Passed(i, s, h)) \in Nat
           /\ Cardinality(Passed(i, s, at)) <= Cardinality(Passed(i, s, h))
           /\ at < Len(s) => Cardinality(Passed(i, s, at)) <= Cardinality(i.cuts)
           /\ \A c \in i.cuts \cup {Len(s)} :
                 at < c /\ c <= h => Cardinality(Passed(i, s, at)) < Cardinality(Passed(i, s, h))
<1>1. PICK C, A, H : /\ C = i.cuts \cup {Len(s)} /\ A = Passed(i, s, at) /\ H = Passed(i, s, h)
    OBVIOUS
<1>2. A = {x \in C : x <= at} /\ H = {x \in C : x <= h} /\ C \in SUBSET Nat
    BY <1>1 DEF Passed
<1>3. IsFiniteSet(C)
    BY <1>1, FS_AddElement
<1>4. A \subseteq H /\ H \subseteq C /\ A \subseteq C
    <2>1. ASSUME NEW x \in A PROVE x \in H
        <3>1. x \in C /\ x <= at /\ x \in Nat
            BY <1>2
        <3>2. x <= h
            BY <3>1
        <3> QED BY <1>2, <3>1, <3>2, Zenon
    <2>2. H \subseteq C
        BY <1>2, Zenon
    <2> QED BY <2>1, <2>2, Zenon
<1>5. IsFiniteSet(H) /\ Cardinality(H) \in Nat
    BY <1>3, <1>4, FS_Subset, FS_CardinalityType
<1>6. IsFiniteSet(A) /\ Cardinality(A) <= Cardinality(H) /\ Cardinality(A) \in Nat
    BY <1>4, <1>5, FS_Subset, FS_CardinalityType
<1>7. at < Len(s) => Cardinality(A) <= Cardinality(i.cuts)
    <2>1. ASSUME at < Len(s) PROVE A \subseteq i.cuts
        BY <1>1, <1>2, <2>1
    <2> QED BY <2>1, FS_Subset
<1>8. ASSUME NEW c \in C, at < c, c <= h PROVE Cardinality(A) < Cardinality(H)
    <2>1. c \in H /\ c \notin A
        BY <1>2, <1>8
    <2>2. A # H
        BY <2>1
    <2>3. Cardinality(A) # Cardinality(H)
        BY <1>4, <1>5, <2>2, FS_Subset
    <2> QED BY <1>5, <1>6, <2>3
<1>9. Cardinality(i.cuts) \in Nat
    BY FS_CardinalityType
<1> QED BY <1>1, <1>5, <1>6, <1>7, <1>8, <1>9

\* The non-blocking reader w in the packet m + 1, with m of them found.
InPacket(i, s, b, c, e, q) ==
    b <= q /\ q < e /\ (b + 1 + Len(c) <= q => ~(e - b > i.buflen))

CallsStand(i, s, p, f, w, m) ==
    /\ m \in Nat /\ m < Len(p) /\ Listed(w.found, m) /\ Begun(p, i.buflen, w.found, m) /\ w.at \in Nat
    /\ \E head, c, n : /\ Place(s, p, f, m, head, c, n)
                       /\ InPacket(i, s, Len(f[m]), c, Len(f[m + 1]), w.at)
                       /\ Stands(w.t, s, Len(f[m]), head, c, Len(f[m + 1]), w.at)

Stream(i, s, p, f) ==
    Streamable(i) /\ p = i.packets /\ s = Mqtt!FlattenSeq(p) /\ Flattened(p, f)

LEMMA StreamIs ==
    ASSUME NEW i, NEW s, NEW p, NEW f, Stream(i, s, p, f)
    PROVE  /\ p \in Seq(Seq(ByteSet)) /\ Len(p) \in Nat /\ i.buflen \in Nat /\ s = f[Len(p)]
           /\ i.cuts \in SUBSET Nat /\ IsFiniteSet(i.cuts) /\ s \in Seq(ByteSet) /\ Len(s) \in Nat
           /\ Len(f[0]) = 0
           /\ \A k \in 1..Len(p) : IsPacket(p[k])
<1>1. Streamable(i) /\ p = i.packets /\ s = Mqtt!FlattenSeq(p) /\ Flattened(p, f)
    BY Zenon DEF Stream
<1>2. p \in Seq(Seq(ByteSet)) /\ i.buflen \in Nat /\ i.cuts \in SUBSET Nat /\ IsFiniteSet(i.cuts)
      /\ \A k \in 1..Len(p) : IsPacket(p[k])
    BY <1>1, Zenon DEF Streamable
<1>3. s = f[Len(p)] /\ f[0] = <<>> /\ \A k \in 0..Len(p) : f[k] \in Seq(ByteSet)
    BY <1>1, Zenon DEF Flattened, FlattenedIn
<1>4. Len(p) \in Nat
    BY <1>2
<1>5. s \in Seq(ByteSet)
    BY <1>3, <1>4
<1>6. Len(s) \in Nat /\ Len(f[0]) = 0
    BY <1>3, <1>5
<1> QED BY <1>2, <1>3, <1>4, <1>5, <1>6

\* A reader that has found m packets and is between two has ended, or stands
\* at the next one.
LEMMA Fresh ==
    ASSUME NEW i, NEW s, NEW p, NEW f, Stream(i, s, p, f), NEW m \in Nat, m <= Len(p),
           NEW w, w.at = Len(f[m]), w.t \in Mqtt!Transports, w.t.state = 0,
           Listed(w.found, m), Begun(p, i.buflen, w.found, m)
    PROVE  \/ Over(p, i.buflen, s, w)
           \/ CallsStand(i, s, p, f, w, m)
<1>1. /\ p \in Seq(Seq(ByteSet)) /\ Len(p) \in Nat /\ s = f[Len(p)]
      /\ \A k \in 1..Len(p) : IsPacket(p[k])
    BY StreamIs
<1>2. CASE m = Len(p)
    <2>1. AllFound(p, i.buflen, w.found)
        BY <1>2, Zenon DEF AllFound
    <2>2. w.at = Len(s)
        BY <1>1, <1>2, Zenon
    <2> QED BY <2>1, <2>2, Zenon DEF Over, Done
<1>3. CASE m # Len(p)
    <2>1. m < Len(p) /\ m + 1 \in 1..Len(p)
        BY <1>1, <1>3
    <2>2. PICK head, rest : Packable(head, rest) /\ 16 <= head /\ p[m + 1] = Packet(head, rest)
        BY <1>1, <2>1, Zenon DEF IsPacket
    <2>3. PICK c, n : c = Mqtt!EncodedLength(Len(rest)) /\ n = Len(rest)
        OBVIOUS
    <2>4. Place(s, p, f, m, head, c, n)
        <3>1. Flattened(p, f) /\ s = Mqtt!FlattenSeq(p)
            BY Zenon DEF Stream
        <3> QED BY <1>1, <2>1, <2>2, <2>3, <3>1, PlaceThere
    <2>5. PICK b, e : b = Len(f[m]) /\ e = Len(f[m + 1])
        OBVIOUS
    <2>6. b \in Nat /\ e = b + 1 + Len(c) + n /\ n \in Nat /\ Len(c) \in Nat
        <3>1. InPlace(s, b, head, c, n, e)
            BY <2>4, <2>5, Zenon DEF Place
        <3> QED BY <3>1, PlacedIs
    <2>7. /\ b <= b /\ b < e /\ ~(b + 1 + Len(c) <= b) /\ ~(b < b)
        BY <2>6
    <2>8. InPacket(i, s, b, c, e, b)
        BY <2>7, Zenon DEF InPacket
    <2>9. Stands(w.t, s, b, head, c, e, b)
        BY <2>7, Zenon DEF Stands
    <2>10. w.at = b /\ w.at \in Nat
        BY <2>5, <2>6
    <2>11. CallsStand(i, s, p, f, w, m)
        BY <2>1, <2>4, <2>5, <2>8, <2>9, <2>10, Zenon DEF CallsStand
    <2> QED BY <2>11
<1> QED BY <1>2, <1>3

\* A call stops at a cut, finds the packet, or gives up on it.
Further(i, s, p, f, w, v, m) ==
    \/ Over(p, i.buflen, s, v)
    \/ /\ CallsStand(i, s, p, f, v, m)
       /\ Cardinality(Passed(i, s, w.at)) < Cardinality(Passed(i, s, v.at))
    \/ /\ CallsStand(i, s, p, f, v, m + 1)
       /\ Cardinality(Passed(i, s, w.at)) <= Cardinality(Passed(i, s, v.at))

LEMMA CallStep ==
    ASSUME NEW i, NEW s, NEW p, NEW f, Stream(i, s, p, f), NEW w, NEW m,
           CallsStand(i, s, p, f, w, m)
    PROVE  Further(i, s, p, f, w, AfterCall(i, s, w), m)
<1>1. /\ p \in Seq(Seq(ByteSet)) /\ Len(p) \in Nat /\ i.buflen \in Nat
      /\ i.cuts \in SUBSET Nat /\ IsFiniteSet(i.cuts) /\ s \in Seq(ByteSet) /\ Len(s) \in Nat
    BY StreamIs
<1>2. /\ m \in Nat /\ m < Len(p) /\ Listed(w.found, m) /\ Begun(p, i.buflen, w.found, m) /\ w.at \in Nat
    BY Zenon DEF CallsStand
<1>3. PICK b, e : b = Len(f[m]) /\ e = Len(f[m + 1])
    OBVIOUS
<1>4. PICK head, c, n : /\ Place(s, p, f, m, head, c, n) /\ InPacket(i, s, b, c, e, w.at)
                        /\ Stands(w.t, s, b, head, c, e, w.at)
    BY <1>3, Zenon DEF CallsStand
<1>5. InPlace(s, b, head, c, n, e) /\ 16 <= head /\ Between(s, b, e) = p[m + 1]
    BY <1>3, <1>4, Zenon DEF Place
<1>6. /\ b \in Nat /\ e \in Nat /\ e <= Len(s) /\ n \in Nat /\ head \in ByteSet /\ s[b + 1] = head
      /\ Len(c) \in Nat /\ e = b + 1 + Len(c) + n
    BY <1>5, PlacedIs
<1>7. PICK q : q = w.at
    OBVIOUS
<1>8. q \in Nat /\ b <= q /\ q < e /\ (b + 1 + Len(c) <= q => ~(e - b > i.buflen)) /\ q < Len(s)
    <2>1. b <= q /\ q < e /\ (b + 1 + Len(c) <= q => ~(e - b > i.buflen))
        BY <1>4, <1>7, Zenon DEF InPacket
    <2> QED BY <1>1, <1>2, <1>6, <1>7, <2>1
<1>9. PICK h : h = NextCut(i, s, q)
    OBVIOUS
<1>10. h \in Nat /\ q < h /\ h <= Len(s) /\ h \in i.cuts \cup {Len(s)}
    BY <1>1, <1>8, <1>9, NextCutIs
<1>11. PICK r : r = Mqtt!ReadNb(i.buflen, w.t, Between(s, q, h))
    OBVIOUS
<1>12. PieceRead(r, s, b, head, c, e, h, i.buflen)
    <2>1. Stands(w.t, s, b, head, c, e, q)
        BY <1>4, <1>7
    <2> QED BY <1>1, <1>5, <1>8, <1>10, <1>11, <2>1, ReadPiece
<1>13. PICK v : v = AfterCall(i, s, w)
    OBVIOUS
<1>14. v = [t |-> r.t, at |-> IF r.rc = -1 THEN Len(s) ELSE h - Len(r.left),
            found |-> IF r.rc = 0 THEN w.found
                      ELSE Append(w.found, [rc |-> r.rc, packet |-> r.t.packet])]
    <2>1. w.at # Len(s) /\ Between(s, q, h) = SubSeq(s, w.at + 1, NextCut(i, s, w.at))
        BY <1>1, <1>7, <1>8, <1>9 DEF Between
    <2> QED BY <1>7, <1>9, <1>11, <1>13, <2>1, Zenon DEF AfterCall
<1>15. /\ v.t = r.t /\ v.at = (IF r.rc = -1 THEN Len(s) ELSE h - Len(r.left))
       /\ v.found = (IF r.rc = 0 THEN w.found
                     ELSE Append(w.found, [rc |-> r.rc, packet |-> r.t.packet]))
    BY <1>14
<1>16. Len(p[m + 1]) = e - b
    <2>1. b <= e /\ b \in Nat /\ e \in Nat /\ e <= Len(s)
        BY <1>6, <1>8
    <2>2. s \in Seq(ByteSet)
        BY <1>1
    <2>3. Len(Between(s, b, e)) = e - b
        BY <2>1, <2>2, BetweenIs, Zenon
    <2>4. Between(s, b, e) = p[m + 1]
        BY <1>5
    <2> QED BY <2>3, <2>4, Zenon
<1>17. ASSUME r.rc = 0, r.left = <<>>, InPacket(i, s, b, c, e, h), Stands(r.t, s, b, head, c, e, h)
       PROVE  Further(i, s, p, f, w, v, m)
    <2>1. v.at = h /\ v.found = w.found /\ v.t = r.t
        <3>1. Len(<<>>) = 0 /\ h - 0 = h
            BY <1>10
        <3> QED BY <1>15, <1>17, <3>1
    <2>2. CallsStand(i, s, p, f, v, m)
        BY <1>2, <1>3, <1>4, <1>10, <1>17, <2>1, Zenon DEF CallsStand
    <2>3. Cardinality(Passed(i, s, q)) < Cardinality(Passed(i, s, h))
        <3>1. q <= h /\ h <= h
            BY <1>8, <1>10
        <3> QED BY <1>1, <1>8, <1>10, <3>1, PassedIs
    <2> QED BY <1>7, <2>1, <2>2, <2>3, Zenon DEF Further
<1>18. CASE h < b + 1 + Len(c)
    <2>1. r = [rc |-> 0, t |-> InLength(head, c, h - b - 1), left |-> <<>>]
        BY <1>12, <1>18, Zenon DEF PieceRead
    <2>2. r.rc = 0 /\ r.t = InLength(head, c, h - b - 1) /\ r.left = <<>>
        BY <2>1
    <2>3. h # b /\ ~(b + 1 + Len(c) <= h) /\ b <= h /\ h < e
        BY <1>6, <1>8, <1>10, <1>18
    <2>4. InPacket(i, s, b, c, e, h)
        BY <2>3, Zenon DEF InPacket
    <2>5. Stands(r.t, s, b, head, c, e, h)
        BY <2>2, <2>3, Zenon DEF Stands
    <2> QED BY <1>13, <1>17, <2>2, <2>4, <2>5
<1>19. CASE ~(h < b + 1 + Len(c)) /\ e - b > i.buflen
    <2>1. r.rc = -1
        BY <1>12, <1>19, Zenon DEF PieceRead
    <2>2. PICK x : x = [rc |-> r.rc, packet |-> r.t.packet]
        OBVIOUS
    <2>3. v.at = Len(s) /\ v.found = Append(w.found, x) /\ x.rc = -1
        BY <1>15, <2>1, <2>2
    <2>4. GaveUp(p, i.buflen, v.found, m)
        <3>1. /\ Listed(v.found, m + 1) /\ v.found[m + 1] = x
              /\ \A k \in 1..m : v.found[k] = w.found[k]
            <4>1. PICK z : z = w.found
                OBVIOUS
            <4>2. Listed(z, m)
                BY <1>2, <4>1, Zenon
            <4>3. Extended(Append(z, x), z, x, m)
                BY <4>2, ListedNext
            <4>4. v.found = Append(z, x)
                BY <2>3, <4>1
            <4> QED BY <4>1, <4>3, <4>4, Zenon DEF Extended
        <3>2. Begun(p, i.buflen, v.found, m)
            BY <1>2, <3>1, Zenon DEF Begun
        <3>3. v.found[m + 1].rc = -1
            BY <2>3, <3>1
        <3> QED BY <1>2, <1>16, <1>19, <3>1, <3>2, <3>3, Zenon DEF GaveUp
    <2> QED BY <1>2, <1>13, <2>3, <2>4, Zenon DEF Further, Over, Done
<1>20. CASE ~(h < b + 1 + Len(c)) /\ ~(e - b > i.buflen) /\ h < e
    <2>1. r = [rc |-> 0, t |-> InBody(s, b, c, e, h), left |-> <<>>]
        BY <1>12, <1>20, Zenon DEF PieceRead, BodyRead
    <2>2. r.rc = 0 /\ r.t = InBody(s, b, c, e, h) /\ r.left = <<>>
        BY <2>1
    <2>3. h # b /\ b <= h /\ h < e
        BY <1>6, <1>8, <1>10, <1>20
    <2>4. InPacket(i, s, b, c, e, h)
        BY <1>20, <2>3, Zenon DEF InPacket
    <2>5. Stands(r.t, s, b, head, c, e, h)
        BY <1>20, <2>2, <2>3, Zenon DEF Stands
    <2> QED BY <1>13, <1>17, <2>2, <2>4, <2>5
<1>21. CASE ~(h < b + 1 + Len(c)) /\ ~(e - b > i.buflen) /\ ~(h < e)
    <2>1. PICK u : u = [InBody(s, b, c, e, e) EXCEPT !.state = 0]
        OBVIOUS
    <2>2. r = [rc |-> head \div 16, t |-> u, left |-> Between(s, e, h)]
        BY <1>12, <1>21, <2>1, Zenon DEF PieceRead, BodyRead
    <2>3. r.rc = head \div 16 /\ r.t = u /\ r.left = Between(s, e, h)
        BY <2>2
    <2>4. head \div 16 # 0 /\ head \div 16 # -1
        BY <1>5, <1>6 DEF ByteSet
    <2>5. u \in Mqtt!Transports /\ u.state = 0 /\ u.packet = p[m + 1]
        <3>1. PICK k : k = Weight(Len(c))
            OBVIOUS
        <3>2. InBody(s, b, c, e, e) = [state |-> 2, len |-> e - b, multiplier |-> k, rest |-> e - e,
                                       packet |-> p[m + 1]]
            BY <1>5, <3>1, Zenon DEF InBody
        <3>3. u = [state |-> 0, len |-> e - b, multiplier |-> k, rest |-> e - e, packet |-> p[m + 1]]
            BY <2>1, <3>2
        <3>4. k \in Nat
            BY <3>1, SMT DEF Weight
        <3>5. p[m + 1] \in Seq(Nat)
            <4>1. p[m + 1] \in Seq(ByteSet)
                BY <1>1, <1>2
            <4>2. ByteSet \subseteq Nat
                BY DEF ByteSet
            <4> QED BY <4>1, <4>2, Wider
        <3>6. e - b \in Nat /\ e - e \in Nat
            BY <1>6, <1>8
        <3> QED BY <3>3, <3>4, <3>5, <3>6 DEF Mqtt!Transports
    <2>6. PICK x : x = [rc |-> r.rc, packet |-> r.t.packet]
        OBVIOUS
    <2>7. v.found = Append(w.found, x) /\ v.at = h - Len(Between(s, e, h)) /\ v.t = u
        BY <1>15, <2>3, <2>4, <2>6
    <2>8. e <= h /\ v.at = e
        <3>1. e <= h
            BY <1>6, <1>10, <1>21
        <3>2. Len(Between(s, e, h)) = h - e
            BY <1>1, <1>6, <1>10, <3>1, BetweenIs
        <3> QED BY <1>6, <1>10, <2>7, <3>1, <3>2
    <2>9. x = Message(p[m + 1])
        <3>1. p[m + 1][1] = head
            <4>1. b < e
                BY <1>6, <1>8
            <4>2. Between(s, b, e)[1] = s[b + 1]
                BY <1>1, <1>6, <4>1, BetweenNext, SMTT(60)
            <4> QED BY <1>5, <1>6, <4>2
        <3> QED BY <2>3, <2>5, <2>6, <3>1, Zenon DEF Message
    <2>10. Listed(v.found, m + 1) /\ Begun(p, i.buflen, v.found, m + 1)
        <3>1. /\ Listed(v.found, m + 1) /\ v.found[m + 1] = x
              /\ \A k \in 1..m : v.found[k] = w.found[k]
            <4>1. PICK z : z = w.found
                OBVIOUS
            <4>2. Listed(z, m)
                BY <1>2, <4>1, Zenon
            <4>3. Extended(Append(z, x), z, x, m)
                BY <4>2, ListedNext
            <4>4. v.found = Append(z, x)
                BY <2>7, <4>1
            <4> QED BY <4>1, <4>3, <4>4, Zenon DEF Extended
        <3>2. ASSUME NEW k \in 1..(m + 1)
              PROVE  Len(p[k]) <= i.buflen /\ v.found[k] = Message(p[k])
            <4>1. CASE k = m + 1
                <5>1. Len(p[m + 1]) <= i.buflen
                    BY <1>1, <1>6, <1>16, <1>21, SMTT(60)
                <5> QED BY <2>9, <3>1, <4>1, <5>1
            <4>2. CASE k # m + 1
                <5>1. k \in 1..m
                    BY <1>2, <4>2
                <5> QED BY <1>2, <3>1, <5>1, Zenon DEF Begun
            <4> QED BY <4>1, <4>2
        <3> QED BY <3>1, <3>2, Zenon DEF Begun
    <2>11. Over(p, i.buflen, s, v) \/ CallsStand(i, s, p, f, v, m + 1)
        <3>1. m + 1 \in Nat /\ m + 1 <= Len(p)
            BY <1>1, <1>2
        <3>2. v.at = Len(f[m + 1]) /\ v.t \in Mqtt!Transports /\ v.t.state = 0
            BY <1>3, <2>5, <2>7, <2>8
        <3> QED BY <2>10, <3>1, <3>2, Fresh
    <2>12. Cardinality(Passed(i, s, q)) <= Cardinality(Passed(i, s, e))
        <3>1. q <= e
            BY <1>6, <1>8
        <3> QED BY <1>1, <1>6, <1>8, <3>1, PassedIs
    <2> QED BY <1>7, <1>13, <2>8, <2>11, <2>12, Zenon DEF Further
<1> QED BY <1>18, <1>19, <1>20, <1>21

\* The blocking reader w before the packet m + 1.
ReadsStand(i, p, f, w, m) ==
    /\ m \in Nat /\ m < Len(p) /\ Listed(w.found, m) /\ Begun(p, i.buflen, w.found, m)
    /\ w.at = Len(f[m])

LEMMA ReadFresh ==
    ASSUME NEW i, NEW s, NEW p, NEW f, Stream(i, s, p, f), NEW m \in Nat, m <= Len(p),
           NEW w, w.at = Len(f[m]), Listed(w.found, m), Begun(p, i.buflen, w.found, m)
    PROVE  Over(p, i.buflen, s, w) \/ ReadsStand(i, p, f, w, m)
<1>1. Len(p) \in Nat /\ s = f[Len(p)]
    BY StreamIs
<1>2. CASE m = Len(p)
    <2>1. AllFound(p, i.buflen, w.found)
        BY <1>2, Zenon DEF AllFound
    <2>2. w.at = Len(s)
        BY <1>1, <1>2, Zenon
    <2> QED BY <2>1, <2>2, Zenon DEF Over, Done
<1>3. CASE m # Len(p)
    <2>1. m < Len(p)
        BY <1>1, <1>3
    <2> QED BY <2>1, Zenon DEF ReadsStand
<1> QED BY <1>2, <1>3

LEMMA ReadStep ==
    ASSUME NEW i, NEW s, NEW p, NEW f, Stream(i, s, p, f), NEW w, NEW m, ReadsStand(i, p, f, w, m)
    PROVE  Over(p, i.buflen, s, AfterRead(i, s, w)) \/ ReadsStand(i, p, f, AfterRead(i, s, w), m + 1)
<1>1. /\ p \in Seq(Seq(ByteSet)) /\ Len(p) \in Nat /\ i.buflen \in Nat /\ s \in Seq(ByteSet)
      /\ Len(s) \in Nat /\ \A k \in 1..Len(p) : IsPacket(p[k])
    BY StreamIs
<1>2. /\ m \in Nat /\ m < Len(p) /\ Listed(w.found, m) /\ Begun(p, i.buflen, w.found, m)
      /\ w.at = Len(f[m])
    BY Zenon DEF ReadsStand
<1>3. PICK head, rest : Packable(head, rest) /\ 16 <= head /\ p[m + 1] = Packet(head, rest)
    <2>1. m + 1 \in 1..Len(p)
        BY <1>1, <1>2
    <2> QED BY <1>1, <2>1, Zenon DEF IsPacket
<1>4. PICK c, n, b, e : /\ c = Mqtt!EncodedLength(Len(rest)) /\ n = Len(rest)
                        /\ b = Len(f[m]) /\ e = Len(f[m + 1])
    OBVIOUS
<1>5. /\ Place(s, p, f, m, head, c, n)
      /\ \E more \in Seq(ByteSet) :
            /\ Between(s, b, Len(s)) = Packet(head, rest) \o more
            /\ Len(s) - Len(more) = e
    <2>1. Flattened(p, f) /\ s = Mqtt!FlattenSeq(p)
        BY Zenon DEF Stream
    <2>2. /\ Place(s, p, f, m, head, Mqtt!EncodedLength(Len(rest)), Len(rest))
          /\ Behind(s, f, m, head, rest)
        <3>1. p \in Seq(Seq(ByteSet)) /\ m \in Nat /\ m < Len(p)
            BY <1>1, <1>2
        <3> QED BY <1>3, <2>1, <3>1, PlaceThere
    <2> QED BY <1>4, <2>2, Zenon DEF Behind
<1>6. PICK more \in Seq(ByteSet) : /\ Between(s, b, Len(s)) = Packet(head, rest) \o more
                                  /\ Len(s) - Len(more) = e
    BY <1>5, Zenon
<1>7. InPlace(s, b, head, c, n, e) /\ Between(s, b, e) = p[m + 1]
    BY <1>4, <1>5, Zenon DEF Place
<1>8. /\ b \in Nat /\ e \in Nat /\ e <= Len(s) /\ n \in Nat /\ head \in ByteSet /\ s[b + 1] = head
      /\ Len(c) \in Nat /\ e = b + 1 + Len(c) + n
    BY <1>7, PlacedIs
<1>9. b < e /\ b <= e /\ w.at # Len(s)
    <2>1. w.at = b
        BY <1>2, <1>4
    <2> QED BY <1>1, <1>8, <2>1
<1>10. Len(p[m + 1]) = e - b
    <2>1. s \in Seq(ByteSet) /\ b \in Nat /\ e \in Nat /\ b <= e /\ e <= Len(s)
        BY <1>1, <1>8, <1>9
    <2>2. Len(Between(s, b, e)) = e - b
        BY <2>1, BetweenIs
    <2> QED BY <1>7, <2>2
<1>11. p[m + 1][1] = head
    <2>1. Between(s, b, e)[1] = s[b + 1]
        BY <1>1, <1>8, <1>9, BetweenNext, ZenonT(60)
    <2> QED BY <1>7, <1>8, <2>1
<1>12. PICK r, v : r = Mqtt!Read(i.buflen, Packet(head, rest) \o more) /\ v = AfterRead(i, s, w)
    OBVIOUS
<1>13. PICK x : x = [rc |-> r.rc, packet |-> r.packet]
    OBVIOUS
<1>14. v = [at |-> Len(s) - (IF r.rc = -1 THEN 0 ELSE Len(r.left)), found |-> Append(w.found, x)]
    <2>1. SubSeq(s, w.at + 1, Len(s)) = Packet(head, rest) \o more
        BY <1>2, <1>4, <1>6, Zenon DEF Between
    <2> QED BY <1>9, <1>12, <1>13, <2>1, Zenon DEF AfterRead
<1>15. /\ v.at = Len(s) - (IF r.rc = -1 THEN 0 ELSE Len(r.left)) /\ v.found = Append(w.found, x)
    BY <1>14
<1>16. Extended(v.found, w.found, x, m)
    <2>1. PICK z : z = w.found
        OBVIOUS
    <2>2. Listed(z, m)
        BY <1>2, <2>1, Zenon
    <2>3. Extended(Append(z, x), z, x, m)
        BY <2>2, ListedNext
    <2> QED BY <1>15, <2>1, <2>3, Zenon
<1>17. /\ Listed(v.found, m + 1) /\ v.found[m + 1] = x
       /\ \A k \in 1..m : v.found[k] = w.found[k]
    BY <1>16, Zenon DEF Extended
<1>18. CASE e - b > i.buflen
    <2>1. r.rc = -1
        <3>1. Len(Packet(head, rest)) > i.buflen
            BY <1>3, <1>10, <1>18
        <3> QED BY <1>1, <1>3, <1>12, <3>1, ReadGivesUp
    <2>2. v.at = Len(s) /\ v.found[m + 1].rc = -1
        <3>1. x.rc = -1
            BY <1>13, <2>1
        <3> QED BY <1>1, <1>15, <1>17, <2>1, <3>1
    <2>3. Begun(p, i.buflen, v.found, m)
        BY <1>2, <1>17, Zenon DEF Begun
    <2>4. GaveUp(p, i.buflen, v.found, m)
        BY <1>2, <1>10, <1>17, <1>18, <2>2, <2>3, Zenon DEF GaveUp
    <2> QED BY <1>2, <1>12, <2>2, <2>4, Zenon DEF Over, Done
<1>19. CASE ~(e - b > i.buflen)
    <2>1. e - b <= i.buflen
        BY <1>1, <1>8, <1>19
    <2>2. r = [rc |-> head \div 16, packet |-> Packet(head, rest), left |-> more]
        <3>1. Len(Packet(head, rest)) <= i.buflen
            BY <1>3, <1>10, <2>1
        <3> QED BY <1>1, <1>3, <1>12, <3>1, ReadTakes
    <2>3. r.rc = head \div 16 /\ r.packet = p[m + 1] /\ r.left = more
        BY <1>3, <2>2
    <2>4. r.rc # -1
        <3>1. head \div 16 # -1
            BY <1>8 DEF ByteSet
        <3> QED BY <2>3, <3>1
    <2>5. x = Message(p[m + 1])
        BY <1>11, <1>13, <2>3, Zenon DEF Message
    <2>6. v.at = e
        BY <1>6, <1>15, <2>3, <2>4
    <2>7. Begun(p, i.buflen, v.found, m + 1)
        <3>1. ASSUME NEW k \in 1..(m + 1)
              PROVE  Len(p[k]) <= i.buflen /\ v.found[k] = Message(p[k])
            <4>1. CASE k = m + 1
                BY <1>10, <1>17, <2>1, <2>5, <4>1
            <4>2. CASE k # m + 1
                <5>1. k \in 1..m
                    BY <1>2, <4>2
                <5> QED BY <1>2, <1>17, <5>1, Zenon DEF Begun
            <4> QED BY <4>1, <4>2
        <3> QED BY <3>1, Zenon DEF Begun
    <2>8. m + 1 \in Nat /\ m + 1 <= Len(p)
        BY <1>1, <1>2
    <2>9. v.at = Len(f[m + 1])
        BY <1>4, <2>6
    <2> QED BY <1>12, <1>17, <2>7, <2>8, <2>9, ReadFresh
<1> QED BY <1>18, <1>19

\* A reader after each of n calls.
Started(how) ==
    IF how = "calls" THEN [t |-> Mqtt!NewTransport, at |-> 0, found |-> <<>>]
    ELSE [at |-> 0, found |-> <<>>]
AfterOne(i, s, how, was) == IF how = "calls" THEN AfterCall(i, s, was) ELSE AfterRead(i, s, was)
RunNext(i, s, how, g, k) == IF k = 0 THEN Started(how) ELSE AfterOne(i, s, how, g[k - 1])
RunUpTo(i, s, how, g, n, d) ==
    /\ g = [k \in 0..n |-> g[k]]
    /\ \A k \in 0..n : k <= d => g[k] = RunNext(i, s, how, g, k)

LEMMA RunExists ==
    ASSUME NEW i, NEW s, NEW how, NEW n \in Nat
    PROVE  \E g : RunUpTo(i, s, how, g, n, n)
<1> DEFINE Good == {d \in Nat : \E g : RunUpTo(i, s, how, g, n, d)}
<1>1. 0 \in Good
    <2>1. PICK g : g = [k \in 0..n |-> Started(how)]
        OBVIOUS
    <2>2. ASSUME NEW k \in 0..n, k <= 0 PROVE g[k] = RunNext(i, s, how, g, k)
        <3>1. k = 0
            BY <2>2
        <3> QED BY <2>1, <3>1 DEF RunNext
    <2>3. g = [k \in 0..n |-> g[k]]
        BY <2>1
    <2>4. RunUpTo(i, s, how, g, n, 0)
        BY <2>2, <2>3, Zenon DEF RunUpTo
    <2> QED BY <2>4
<1>2. ASSUME NEW d \in Nat, d \in Good PROVE d + 1 \in Good
    <2>1. PICK g : RunUpTo(i, s, how, g, n, d)
        BY <1>2
    <2>2. PICK h : h = [k \in 0..n |-> RunNext(i, s, how, g, k)]
        OBVIOUS
    <2>3. ASSUME NEW k \in 0..n, k <= d + 1 PROVE h[k] = RunNext(i, s, how, h, k)
        <3>1. CASE k = 0
            BY <2>2, <3>1 DEF RunNext
        <3>2. CASE k # 0
            <4>1. k - 1 \in 0..n /\ k - 1 <= d
                BY <2>3, <3>2
            <4>2. h[k - 1] = RunNext(i, s, how, g, k - 1) /\ g[k - 1] = RunNext(i, s, how, g, k - 1)
                BY <2>1, <2>2, <4>1, Zenon DEF RunUpTo
            <4>3. h[k] = AfterOne(i, s, how, g[k - 1]) /\ RunNext(i, s, how, h, k) = AfterOne(i, s, how, h[k - 1])
                BY <2>2, <3>2 DEF RunNext
            <4> QED BY <4>2, <4>3
        <3> QED BY <3>1, <3>2
    <2>4. h = [k \in 0..n |-> h[k]]
        BY <2>2
    <2>5. RunUpTo(i, s, how, h, n, d + 1)
        BY <2>3, <2>4, Zenon DEF RunUpTo
    <2> QED BY <2>5
<1>3. \A d \in Nat : d \in Good
    <2> HIDE DEF Good
    <2> QED BY <1>1, <1>2, Induction
<1> QED BY <1>3

Run(i, s, how, g, n) == \A k \in 0..n : g[k] = RunNext(i, s, how, g, k)

LEMMA FlatSame == ASSUME NEW p PROVE FlattenSeq(p) = Mqtt!FlattenSeq(p)
BY Zenon DEF FlattenSeq, Mqtt!FlattenSeq

LEMMA FoundIs ==
    ASSUME NEW i, NEW n \in Nat, n = Len(i.packets) + Cardinality(i.cuts) + 1
    PROVE  \E g : Run(i, Mqtt!FlattenSeq(i.packets), "calls", g, n) /\ Found(i) = g[n].found
<1>1. PICK s : s = FlattenSeq(i.packets) /\ s = Mqtt!FlattenSeq(i.packets)
    BY FlatSame
<1>2. PICK h : RunUpTo(i, s, "calls", h, n, n)
    BY RunExists
<1>3. h = [k \in 0..n |-> IF k = 0 THEN [t |-> Mqtt!NewTransport, at |-> 0, found |-> <<>>]
                          ELSE AfterCall(i, s, h[k - 1])]
    <2>1. \A k \in 0..n : h[k] = RunNext(i, s, "calls", h, k)
        BY <1>2 DEF RunUpTo
    <2>2. h = [k \in 0..n |-> h[k]]
        BY <1>2, Zenon DEF RunUpTo
    <2>3. [k \in 0..n |-> h[k]] = [k \in 0..n |-> RunNext(i, s, "calls", h, k)]
        BY <2>1, Zenon
    <2>4. \A k : RunNext(i, s, "calls", h, k)
                     = IF k = 0 THEN [t |-> Mqtt!NewTransport, at |-> 0, found |-> <<>>]
                       ELSE AfterCall(i, s, h[k - 1])
        BY Zenon DEF RunNext, Started, AfterOne
    <2> QED BY <2>2, <2>3, <2>4, Zenon
<1> DEFINE g == CHOOSE g : g = [k \in 0..n |->
                    IF k = 0 THEN [t |-> Mqtt!NewTransport, at |-> 0, found |-> <<>>]
                    ELSE AfterCall(i, s, g[k - 1])]
<1>4. g = [k \in 0..n |-> IF k = 0 THEN [t |-> Mqtt!NewTransport, at |-> 0, found |-> <<>>]
                          ELSE AfterCall(i, s, g[k - 1])]
    BY <1>3, Zenon
<1>5. Found(i) = g[n].found
    BY <1>1, Zenon DEF Found
<1> HIDE DEF g
<1>6. ASSUME NEW k \in 0..n PROVE g[k] = RunNext(i, s, "calls", g, k)
    <2>1. g[k] = IF k = 0 THEN [t |-> Mqtt!NewTransport, at |-> 0, found |-> <<>>]
                 ELSE AfterCall(i, s, g[k - 1])
        BY <1>4, Zenon
    <2> QED BY <2>1, Zenon DEF RunNext, Started, AfterOne
<1>7. Run(i, s, "calls", g, n)
    BY <1>6, Zenon DEF Run
<1> QED BY <1>1, <1>5, <1>7, Zenon

LEMMA WaitedForIs ==
    ASSUME NEW i, NEW n \in Nat, n = Len(i.packets)
    PROVE  \E g : Run(i, Mqtt!FlattenSeq(i.packets), "reads", g, n) /\ WaitedFor(i) = g[n].found
<1>1. PICK s : s = FlattenSeq(i.packets) /\ s = Mqtt!FlattenSeq(i.packets)
    BY FlatSame
<1>2. PICK h : RunUpTo(i, s, "reads", h, n, n)
    BY RunExists
<1>3. h = [k \in 0..n |-> IF k = 0 THEN [at |-> 0, found |-> <<>>] ELSE AfterRead(i, s, h[k - 1])]
    <2>1. \A k \in 0..n : h[k] = RunNext(i, s, "reads", h, k)
        BY <1>2 DEF RunUpTo
    <2>2. h = [k \in 0..n |-> h[k]]
        BY <1>2, Zenon DEF RunUpTo
    <2>3. [k \in 0..n |-> h[k]] = [k \in 0..n |-> RunNext(i, s, "reads", h, k)]
        BY <2>1, Zenon
    <2>4. \A k : RunNext(i, s, "reads", h, k)
                     = IF k = 0 THEN [at |-> 0, found |-> <<>>] ELSE AfterRead(i, s, h[k - 1])
        BY DEF RunNext, Started, AfterOne
    <2> QED BY <2>2, <2>3, <2>4, Zenon
<1> DEFINE g == CHOOSE g : g = [k \in 0..n |->
                    IF k = 0 THEN [at |-> 0, found |-> <<>>] ELSE AfterRead(i, s, g[k - 1])]
<1>4. g = [k \in 0..n |-> IF k = 0 THEN [at |-> 0, found |-> <<>>] ELSE AfterRead(i, s, g[k - 1])]
    BY <1>3, Zenon
<1>5. WaitedFor(i) = g[n].found
    BY <1>1, Zenon DEF WaitedFor
<1> HIDE DEF g
<1>6. ASSUME NEW k \in 0..n PROVE g[k] = RunNext(i, s, "reads", g, k)
    <2>1. g[k] = IF k = 0 THEN [at |-> 0, found |-> <<>>] ELSE AfterRead(i, s, g[k - 1])
        BY <1>4, Zenon
    <2> QED BY <2>1 DEF RunNext, Started, AfterOne
<1>7. Run(i, s, "reads", g, n)
    BY <1>6, Zenon DEF Run
<1> QED BY <1>1, <1>5, <1>7, Zenon

CallsRunning(i, s, p, f, w, k) ==
    \/ Over(p, i.buflen, s, w)
    \/ \E m : CallsStand(i, s, p, f, w, m) /\ k <= m + Cardinality(Passed(i, s, w.at))

LEMMA CallsPlace ==
    ASSUME NEW i, NEW s, NEW p, NEW f, Stream(i, s, p, f), NEW w, NEW m, CallsStand(i, s, p, f, w, m)
    PROVE  m \in Nat /\ m < Len(p) /\ w.at \in Nat /\ w.at < Len(s)
<1>1. m \in Nat /\ m < Len(p) /\ w.at \in Nat
    BY Zenon DEF CallsStand
<1>2. PICK head, c, n : Place(s, p, f, m, head, c, n) /\ InPacket(i, s, Len(f[m]), c, Len(f[m + 1]), w.at)
    BY Zenon DEF CallsStand
<1>3. PICK b, e : b = Len(f[m]) /\ e = Len(f[m + 1])
    OBVIOUS
<1>4. InPlace(s, b, head, c, n, e) /\ w.at < e
    BY <1>2, <1>3, Zenon DEF Place, InPacket
<1>5. e \in Nat /\ e <= Len(s) /\ Len(s) \in Nat
    BY <1>4, PlacedIs
<1> QED BY <1>1, <1>4, <1>5

LEMMA CallsStart ==
    ASSUME NEW i, NEW s, NEW p, NEW f, Stream(i, s, p, f)
    PROVE  CallsRunning(i, s, p, f, Started("calls"), 0)
<1>1. /\ Len(p) \in Nat /\ Len(f[0]) = 0 /\ i.cuts \in SUBSET Nat /\ IsFiniteSet(i.cuts) /\ Len(s) \in Nat
    BY StreamIs
<1>2. PICK w : w = Started("calls")
    OBVIOUS
<1>3. w.t = Mqtt!NewTransport /\ w.at = 0 /\ w.found = <<>>
    BY <1>2 DEF Started
<1>4. w.t \in Mqtt!Transports /\ w.t.state = 0
    BY <1>3 DEF Mqtt!Transports, Mqtt!NewTransport
<1>5. Listed(w.found, 0) /\ Begun(p, i.buflen, w.found, 0)
    <2>1. <<>> \in Seq({}) /\ Len(<<>>) = 0
        OBVIOUS
    <2>2. \A k \in 1..0 : FALSE
        OBVIOUS
    <2> QED BY <1>3, <2>1, <2>2, Zenon DEF Listed, Begun
<1>6. w.at = Len(f[0]) /\ 0 \in Nat /\ 0 <= Len(p)
    BY <1>1, <1>3
<1>7. Over(p, i.buflen, s, w) \/ CallsStand(i, s, p, f, w, 0)
    BY <1>4, <1>5, <1>6, Fresh
<1>8. 0 <= 0 + Cardinality(Passed(i, s, w.at))
    <2>1. w.at \in Nat /\ w.at <= w.at
        BY <1>3
    <2>2. Cardinality(Passed(i, s, w.at)) \in Nat
        BY <1>1, <2>1, PassedIs
    <2> QED BY <2>2
<1> QED BY <1>2, <1>7, <1>8, Zenon DEF CallsRunning

LEMMA CallsGoOn ==
    ASSUME NEW i, NEW s, NEW p, NEW f, Stream(i, s, p, f), NEW w, NEW k \in Nat,
           CallsRunning(i, s, p, f, w, k)
    PROVE  CallsRunning(i, s, p, f, AfterCall(i, s, w), k + 1)
<1>1. i.cuts \in SUBSET Nat /\ IsFiniteSet(i.cuts) /\ Len(s) \in Nat
    BY StreamIs
<1>2. CASE Over(p, i.buflen, s, w)
    <2>1. w.at = Len(s)
        BY <1>2, Zenon DEF Over
    <2>2. AfterCall(i, s, w) = w
        BY <2>1, Zenon DEF AfterCall
    <2> QED BY <1>2, <2>2, Zenon DEF CallsRunning
<1>3. ASSUME NEW m, CallsStand(i, s, p, f, w, m), k <= m + Cardinality(Passed(i, s, w.at))
      PROVE  CallsRunning(i, s, p, f, AfterCall(i, s, w), k + 1)
    <2>1. PICK v : v = AfterCall(i, s, w)
        OBVIOUS
    <2>2. Further(i, s, p, f, w, v, m)
        BY <1>3, <2>1, CallStep
    <2>3. m \in Nat /\ w.at \in Nat
        BY <1>3, CallsPlace
    <2>4. ASSUME NEW q \in Nat PROVE Cardinality(Passed(i, s, q)) \in Nat
        <3>1. q <= q
            OBVIOUS
        <3> QED BY <1>1, <3>1, PassedIs
    <2>5. PICK x : x = Cardinality(Passed(i, s, w.at))
        OBVIOUS
    <2>6. x \in Nat /\ k <= m + x
        BY <1>3, <2>3, <2>4, <2>5
    <2>7. ASSUME CallsStand(i, s, p, f, v, m), x < Cardinality(Passed(i, s, v.at))
          PROVE  CallsRunning(i, s, p, f, v, k + 1)
        <3>1. v.at \in Nat
            BY <2>7, CallsPlace
        <3>2. PICK y : y = Cardinality(Passed(i, s, v.at))
            OBVIOUS
        <3>3. y \in Nat /\ x < y
            BY <2>4, <2>7, <3>1, <3>2
        <3>4. k + 1 <= m + y
            BY <2>3, <2>6, <3>3
        <3> QED BY <2>7, <3>2, <3>4, Zenon DEF CallsRunning
    <2>8. ASSUME CallsStand(i, s, p, f, v, m + 1), x <= Cardinality(Passed(i, s, v.at))
          PROVE  CallsRunning(i, s, p, f, v, k + 1)
        <3>1. v.at \in Nat
            BY <2>8, CallsPlace
        <3>2. PICK y : y = Cardinality(Passed(i, s, v.at))
            OBVIOUS
        <3>3. y \in Nat /\ x <= y
            BY <2>4, <2>8, <3>1, <3>2
        <3>4. k + 1 <= (m + 1) + y
            BY <2>3, <2>6, <3>3
        <3> QED BY <2>8, <3>2, <3>4, Zenon DEF CallsRunning
    <2>9. CASE Over(p, i.buflen, s, v)
        BY <2>1, <2>9, Zenon DEF CallsRunning
    <2> QED BY <2>1, <2>2, <2>5, <2>7, <2>8, <2>9, Zenon DEF Further
<1> QED BY <1>2, <1>3, Zenon DEF CallsRunning

LEMMA FoundDone ==
    ASSUME NEW i, NEW s, NEW p, NEW f, Stream(i, s, p, f)
    PROVE  Done(p, i.buflen, Found(i))
<1>1. /\ Len(p) \in Nat /\ i.cuts \in SUBSET Nat /\ IsFiniteSet(i.cuts) /\ Len(s) \in Nat
    BY StreamIs
<1>2. p = i.packets /\ s = Mqtt!FlattenSeq(i.packets)
    BY Zenon DEF Stream
<1>3. Cardinality(i.cuts) \in Nat
    BY <1>1, FS_CardinalityType
<1>4. PICK n \in Nat : n = Len(p) + Cardinality(i.cuts) + 1
    BY <1>1, <1>3
<1>5. PICK g : Run(i, s, "calls", g, n) /\ Found(i) = g[n].found
    <2>1. n = Len(i.packets) + Cardinality(i.cuts) + 1
        BY <1>2, <1>4
    <2> QED BY <1>2, <2>1, FoundIs
<1>6. \A k \in 0..n : g[k] = RunNext(i, s, "calls", g, k)
    BY <1>5, Zenon DEF Run
<1> DEFINE Good == {k \in Nat : k <= n => CallsRunning(i, s, p, f, g[k], k)}
<1>7. 0 \in Good
    <2>1. g[0] = Started("calls")
        <3>1. 0 \in 0..n
            OBVIOUS
        <3> QED BY <1>6, <3>1 DEF RunNext
    <2>2. CallsRunning(i, s, p, f, g[0], 0)
        BY <2>1, CallsStart
    <2> QED BY <2>2
<1>8. ASSUME NEW k \in Nat, k \in Good PROVE k + 1 \in Good
    <2>1. ASSUME k + 1 <= n PROVE CallsRunning(i, s, p, f, g[k + 1], k + 1)
        <3>1. k <= n /\ k + 1 \in 0..n /\ k + 1 # 0 /\ (k + 1) - 1 = k
            BY <2>1
        <3>2. CallsRunning(i, s, p, f, g[k], k)
            BY <1>8, <3>1
        <3>3. g[k + 1] = AfterCall(i, s, g[k])
            BY <1>6, <3>1 DEF RunNext, AfterOne
        <3> QED BY <3>2, <3>3, CallsGoOn
    <2> QED BY <2>1
<1>9. \A k \in Nat : k \in Good
    <2> HIDE DEF Good
    <2> QED BY <1>7, <1>8, Induction
<1>10. PICK w : w = g[n]
    OBVIOUS
<1>11. CallsRunning(i, s, p, f, w, n)
    <2>1. n \in Good /\ n <= n
        BY <1>9
    <2> QED BY <1>10, <2>1
<1>12. ASSUME NEW m, CallsStand(i, s, p, f, w, m), n <= m + Cardinality(Passed(i, s, w.at)) PROVE FALSE
    <2>1. m \in Nat /\ m < Len(p) /\ w.at \in Nat /\ w.at < Len(s)
        BY <1>12, CallsPlace
    <2>2. PICK x : x = Cardinality(Passed(i, s, w.at))
        OBVIOUS
    <2>3. x \in Nat /\ x <= Cardinality(i.cuts)
        <3>1. w.at <= w.at
            BY <2>1
        <3> QED BY <1>1, <2>1, <2>2, <3>1, PassedIs
    <2>4. n <= m + x
        BY <1>12, <2>2
    <2> QED BY <1>1, <1>3, <1>4, <2>1, <2>3, <2>4
<1>13. Over(p, i.buflen, s, w)
    BY <1>11, <1>12, Zenon DEF CallsRunning
<1> QED BY <1>5, <1>10, <1>13, Zenon DEF Over

LEMMA WaitedDone ==
    ASSUME NEW i, NEW s, NEW p, NEW f, Stream(i, s, p, f)
    PROVE  Done(p, i.buflen, WaitedFor(i))
<1>1. Len(p) \in Nat /\ Len(f[0]) = 0
    BY StreamIs
<1>2. p = i.packets /\ s = Mqtt!FlattenSeq(i.packets)
    BY Zenon DEF Stream
<1>3. PICK n \in Nat : n = Len(p)
    BY <1>1
<1>4. PICK g : Run(i, s, "reads", g, n) /\ WaitedFor(i) = g[n].found
    <2>1. n = Len(i.packets)
        BY <1>2, <1>3
    <2> QED BY <1>2, <2>1, WaitedForIs
<1>5. \A k \in 0..n : g[k] = RunNext(i, s, "reads", g, k)
    BY <1>4, Zenon DEF Run
<1> DEFINE Running(k) == Over(p, i.buflen, s, g[k]) \/ ReadsStand(i, p, f, g[k], k)
           Good == {k \in Nat : k <= n => Running(k)}
<1>6. 0 \in Good
    <2>1. PICK w : w = g[0]
        OBVIOUS
    <2>2. w = Started("reads")
        <3>1. 0 \in 0..n
            OBVIOUS
        <3> QED BY <1>5, <2>1, <3>1 DEF RunNext
    <2>3. w.at = 0 /\ w.found = <<>>
        BY <2>2 DEF Started
    <2>4. Listed(w.found, 0) /\ Begun(p, i.buflen, w.found, 0)
        <3>1. <<>> \in Seq({}) /\ Len(<<>>) = 0
            OBVIOUS
        <3>2. \A k \in 1..0 : FALSE
            OBVIOUS
        <3> QED BY <2>3, <3>1, <3>2, Zenon DEF Listed, Begun
    <2>5. w.at = Len(f[0]) /\ 0 \in Nat /\ 0 <= Len(p)
        BY <1>1, <2>3
    <2>6. Over(p, i.buflen, s, w) \/ ReadsStand(i, p, f, w, 0)
        BY <2>4, <2>5, ReadFresh
    <2> QED BY <2>1, <2>6
<1>7. ASSUME NEW k \in Nat, k \in Good PROVE k + 1 \in Good
    <2>1. ASSUME k + 1 <= n PROVE Running(k + 1)
        <3>1. k <= n /\ k + 1 \in 0..n /\ k + 1 # 0 /\ (k + 1) - 1 = k
            BY <2>1
        <3>2. Running(k)
            BY <1>7, <3>1
        <3>3. g[k + 1] = AfterRead(i, s, g[k])
            BY <1>5, <3>1 DEF RunNext, AfterOne
        <3>4. CASE Over(p, i.buflen, s, g[k])
            <4>1. g[k].at = Len(s)
                BY <3>4, Zenon DEF Over
            <4>2. AfterRead(i, s, g[k]) = g[k]
                BY <4>1, Zenon DEF AfterRead
            <4> QED BY <3>3, <3>4, <4>2, Zenon
        <3>5. CASE ReadsStand(i, p, f, g[k], k)
            BY <3>3, <3>5, ReadStep
        <3> QED BY <3>2, <3>4, <3>5
    <2> QED BY <2>1
<1>8. \A k \in Nat : k \in Good
    <2> HIDE DEF Good
    <2> QED BY <1>6, <1>7, Induction
<1>9. Running(n)
    <2>1. n \in Good /\ n <= n
        BY <1>8
    <2> QED BY <2>1
<1>10. ~ReadsStand(i, p, f, g[n], n)
    <2>1. ~(n < Len(p))
        BY <1>1, <1>3
    <2> QED BY <2>1, Zenon DEF ReadsStand
<1> QED BY <1>4, <1>9, <1>10, Zenon DEF Over

\* However the bytes of any packets arrive, MQTTPacket_readnb finds what
\* MQTTPacket_read does, and gives up on the same packet for want of room
\* (MQTTPacket.c:223-398).
THEOREM AnyPiecesMakePackets ==
    ASSUME input.kind = "stream" => Streamable(input)
    PROVE  PiecesMakePackets
<1>1. SUFFICES ASSUME input.kind = "stream"
               PROVE  /\ Len(Found(input)) = Len(WaitedFor(input))
                      /\ \A k \in DOMAIN Found(input) :
                            /\ Found(input)[k].rc = WaitedFor(input)[k].rc
                            /\ Found(input)[k].rc # -1 => Found(input)[k] = WaitedFor(input)[k]
    BY Zenon DEF PiecesMakePackets
<1>2. PICK p, s : p = input.packets /\ s = Mqtt!FlattenSeq(p)
    OBVIOUS
<1>3. Streamable(input)
    BY <1>1
<1>4. p \in Seq(Seq(ByteSet)) /\ input.buflen \in Nat
    BY <1>2, <1>3, Zenon DEF Streamable
<1>5. PICK f : Flattened(p, f)
    BY <1>4, FlattenIs
<1>6. Stream(input, s, p, f)
    BY <1>2, <1>3, <1>5, Zenon DEF Stream
<1>7. Done(p, input.buflen, Found(input)) /\ Done(p, input.buflen, WaitedFor(input))
    BY <1>6, FoundDone, WaitedDone
<1> QED BY <1>4, <1>7, SameEnd

\* With room for each, the packets themselves are found, whatever the cuts
\* (MQTTPacket.c:223-398).
THEOREM EveryPacketIsFound ==
    ASSUME NEW i, Streamable(i), \A k \in 1..Len(i.packets) : Len(i.packets[k]) <= i.buflen
    PROVE  Found(i) = [k \in 1..Len(i.packets) |-> [rc |-> i.packets[k][1] \div 16, packet |-> i.packets[k]]]
<1>1. PICK p, s, z : p = i.packets /\ s = Mqtt!FlattenSeq(p) /\ z = Found(i)
    OBVIOUS
<1>2. p \in Seq(Seq(ByteSet)) /\ i.buflen \in Nat
    BY <1>1, Zenon DEF Streamable
<1>3. PICK f : Flattened(p, f)
    BY <1>2, FlattenIs
<1>4. Stream(i, s, p, f)
    BY <1>1, <1>3, Zenon DEF Stream
<1>5. Done(p, i.buflen, z)
    BY <1>1, <1>4, FoundDone
<1>6. ASSUME NEW m \in Nat, GaveUp(p, i.buflen, z, m) PROVE FALSE
    <2>1. m < Len(p) /\ Len(p[m + 1]) > i.buflen
        BY <1>6, Zenon DEF GaveUp
    <2>2. Len(p) \in Nat
        BY <1>2
    <2>3. m + 1 \in 1..Len(p)
        BY <2>1, <2>2
    <2>4. Len(p[m + 1]) \in Nat /\ Len(p[m + 1]) <= i.buflen
        BY <1>1, <1>2, <2>3
    <2> QED BY <1>2, <2>1, <2>4
<1>7. Listed(z, Len(p)) /\ \A k \in 1..Len(p) : z[k] = Message(p[k])
    BY <1>5, <1>6, Zenon DEF Done, AllFound, Begun
<1>8. z = [k \in 1..Len(p) |-> z[k]]
    <2>1. PICK S : z \in Seq(S) /\ Len(z) = Len(p)
        BY <1>7, Zenon DEF Listed
    <2> QED BY <2>1
<1>9. [k \in 1..Len(p) |-> z[k]] = [k \in 1..Len(p) |-> [rc |-> p[k][1] \div 16, packet |-> p[k]]]
    BY <1>7, Zenon DEF Message
<1> QED BY <1>1, <1>8, <1>9, Zenon

-----------------------------------------------------------------------------
(* Topics.  The characters of S are those of the levels, of which none is  *)
(* the separator.                                                          *)

Separator == "/"
TopicText(S) == S \cup {Separator}

\* Where the levels of a topic lie: level i after place p[i - 1], a separator
\* or none at p[i].
Placed(S, l, p) ==
    /\ p[0] = 0 /\ \A i \in 0..Len(l) : p[i] \in Nat /\ p[i] <= p[Len(l)]
    /\ \A i \in 1..Len(l) : p[i] = p[i - 1] + 1 + Len(l[i])
    /\ Topic(l) \in Seq(TopicText(S)) /\ Len(Topic(l)) + 1 = p[Len(l)]
    /\ \A i \in 1..Len(l) : \A c \in 1..Len(l[i]) : Topic(l)[p[i - 1] + c] = l[i][c]
    /\ \A i \in 1..Len(l) : i # Len(l) => Topic(l)[p[i]] = Separator

\* The k-th of the sequences f begins the m-th.
StaysIn(f, k, m) == Len(f[k]) <= Len(f[m]) /\ \A j \in 1..Len(f[k]) : f[m][j] = f[k][j]

LEMMA PrefixesStay ==
    ASSUME NEW S, NEW n \in Nat, NEW f, \A k \in 0..n : f[k] \in Seq(S),
           NEW g, \A k \in 1..n : g[k] \in Seq(S) /\ f[k] = f[k - 1] \o g[k],
           NEW k \in 0..n
    PROVE  StaysIn(f, k, n)
<1> DEFINE Good == {d \in Nat : k + d <= n => StaysIn(f, k, k + d)}
<1>1. 0 \in Good
    <2>1. k + 0 = k /\ Len(f[k]) \in Nat
        OBVIOUS
    <2>2. StaysIn(f, k, k)
        BY <2>1 DEF StaysIn
    <2> QED BY <2>1, <2>2
<1>2. ASSUME NEW d \in Nat, d \in Good PROVE d + 1 \in Good
    <2>1. SUFFICES ASSUME k + (d + 1) <= n PROVE StaysIn(f, k, k + (d + 1))
        OBVIOUS
    <2>2. PICK a, b, m : m = k + (d + 1) /\ a = f[m - 1] /\ b = g[m]
        OBVIOUS
    <2>3. m \in 1..n /\ m - 1 \in 0..n /\ m - 1 = k + d
        BY <2>1, <2>2
    <2>4. a \in Seq(S) /\ b \in Seq(S) /\ f[m] = a \o b
        BY <2>2, <2>3
    <2>5. Len(f[k]) <= Len(a) /\ \A j \in 1..Len(f[k]) : a[j] = f[k][j]
        BY <1>2, <2>2, <2>3 DEF StaysIn
    <2>6. Len(a) + Len(b) = Len(a \o b) /\ \A i \in 1..Len(a) : (a \o b)[i] = a[i]
        BY <2>4, TwoParts
    <2>7. Len(f[k]) \in Nat /\ Len(a) \in Nat /\ Len(b) \in Nat
        BY <2>4
    <2>8. Len(f[k]) <= Len(f[m])
        BY <2>4, <2>5, <2>6, <2>7
    <2>9. ASSUME NEW j \in 1..Len(f[k]) PROVE f[m][j] = f[k][j]
        <3>1. j \in 1..Len(a)
            BY <2>5, <2>7
        <3> QED BY <2>4, <2>5, <2>6, <3>1
    <2> QED BY <2>2, <2>8, <2>9 DEF StaysIn
<1>3. \A d \in Nat : d \in Good
    <2> HIDE DEF Good
    <2> QED BY <1>1, <1>2, Induction
<1>4. PICK d \in Nat : k + d = n
    <2>1. n - k \in Nat /\ k + (n - k) = n
        OBVIOUS
    <2> QED BY <2>1
<1>5. StaysIn(f, k, k + d)
    <2>1. d \in Good
        BY <1>3
    <2> QED BY <1>4, <2>1
<1> QED BY <1>4, <1>5

LEMMA TailIs ==
    ASSUME NEW S, NEW s \in Seq(S), s # <<>>
    PROVE  /\ Tail(s) \in Seq(S) /\ Len(Tail(s)) + 1 = Len(s)
           /\ \A j \in 1..(Len(s) - 1) : Tail(s)[j] = s[j + 1]
OBVIOUS

LEMMA SequenceOf ==
    ASSUME NEW T, NEW n \in Nat, NEW g, g = [i \in 1..n |-> g[i]], \A i \in 1..n : g[i] \in T
    PROVE  g \in Seq(T) /\ Len(g) = n
OBVIOUS

Levelled(S, l) == l \in Seq(Seq(S)) /\ l # <<>>

LEMMA LevelsPlaced ==
    ASSUME NEW S, NEW l, Levelled(S, l)
    PROVE  \E p : Placed(S, l, p)
<1>1. PICK n, t : n = Len(l) /\ t = TopicText(S)
    OBVIOUS
<1>2. /\ n \in Nat /\ n # 0 /\ n \in 0..n /\ DOMAIN l = 1..n
      /\ \A i \in 1..n : l[i] \in Seq(S)
    BY <1>1 DEF Levelled
<1>3. PICK g : g = [i \in DOMAIN l |-> <<"/">> \o l[i]]
    OBVIOUS
<1>4. ASSUME NEW i \in 1..n
      PROVE  /\ g[i] \in Seq(t) /\ Len(g[i]) = 1 + Len(l[i]) /\ g[i][1] = Separator
             /\ \A c \in 1..Len(l[i]) : g[i][1 + c] = l[i][c]
    <2>1. PICK a, b : a = <<"/">> /\ b = l[i]
        OBVIOUS
    <2>2. a \in Seq(t) /\ Len(a) = 1 /\ a[1] = Separator
        BY <1>1, <2>1 DEF TopicText, Separator
    <2>3. b \in Seq(t)
        <3>1. b \in Seq(S) /\ S \subseteq t
            BY <1>1, <1>2, <2>1 DEF TopicText
        <3> QED BY <3>1, Wider
    <2>4. g[i] = a \o b
        BY <1>1, <1>3, <2>1
    <2>5. /\ a \o b \in Seq(t) /\ Len(a) + Len(b) = Len(a \o b)
          /\ \A j \in 1..Len(a) : (a \o b)[j] = a[j]
          /\ \A j \in 1..Len(b) : (a \o b)[Len(a) + j] = b[j]
        <3>1. a \in Seq(t) /\ b \in Seq(t)
            BY <2>2, <2>3
        <3> QED BY <3>1, TwoParts
    <2> QED BY <2>1, <2>2, <2>4, <2>5
<1>5. g \in Seq(Seq(t)) /\ Len(g) = n
    <2>1. g = [i \in 1..n |-> g[i]]
        BY <1>1, <1>2, <1>3
    <2>2. \A i \in 1..n : g[i] \in Seq(t)
        BY <1>4
    <2> QED BY <1>2, <2>1, <2>2, SequenceOf
<1>6. PICK f : FlattenedIn(t, g, f)
    BY <1>5, FlattenInIs
<1>7. /\ f[0] = <<>> /\ \A k \in 0..n : f[k] \in Seq(t)
      /\ \A k \in 1..n : f[k] = f[k - 1] \o g[k]
      /\ Mqtt!FlattenSeq(g) = f[n]
    BY <1>5, <1>6, Zenon DEF FlattenedIn
<1>8. \A k \in 0..n : StaysIn(f, k, n)
    <2>1. \A k \in 1..n : g[k] \in Seq(t) /\ f[k] = f[k - 1] \o g[k]
        BY <1>4, <1>7
    <2> QED BY <1>2, <1>7, <2>1, PrefixesStay, Zenon
<1>9. PICK z, x : z = f[n] /\ x = Tail(z)
    OBVIOUS
<1>10. Topic(l) = x
    BY <1>3, <1>7, <1>9, FlatSame, Zenon DEF Topic
<1>11. PICK p : p = [k \in 0..n |-> Len(f[k])]
    OBVIOUS
<1>12. \A k \in 0..n : p[k] = Len(f[k]) /\ p[k] \in Nat
    BY <1>7, <1>11
<1>13. p[0] = 0
    BY <1>2, <1>7, <1>12
<1>14. ASSUME NEW k \in 1..n
       PROVE  /\ p[k] = p[k - 1] + 1 + Len(l[k])
              /\ z[p[k - 1] + 1] = Separator
              /\ \A c \in 1..Len(l[k]) : z[p[k - 1] + 1 + c] = l[k][c]
    <2>1. PICK a, b : a = f[k - 1] /\ b = g[k]
        OBVIOUS
    <2>2. k - 1 \in 0..n /\ k \in 0..n
        BY <1>2
    <2>3. a \in Seq(t) /\ b \in Seq(t) /\ f[k] = a \o b
        BY <1>4, <1>7, <2>1, <2>2
    <2>4. /\ Len(a) + Len(b) = Len(a \o b)
          /\ \A j \in 1..Len(b) : (a \o b)[Len(a) + j] = b[j]
        BY <2>3, TwoParts
    <2>5. p[k - 1] = Len(a) /\ p[k] = Len(f[k]) /\ Len(a) \in Nat
        BY <1>12, <2>1, <2>2, <2>3
    <2>6. Len(l[k]) \in Nat
        BY <1>2
    <2>7. Len(b) = 1 + Len(l[k]) /\ b[1] = Separator /\ \A c \in 1..Len(l[k]) : b[1 + c] = l[k][c]
        BY <1>4, <2>1
    <2>8. \A j \in 1..Len(b) : z[Len(a) + j] = b[j]
        <3>1. ASSUME NEW j \in 1..Len(b) PROVE z[Len(a) + j] = b[j]
            <4>1. Len(a) + j \in 1..Len(f[k])
                BY <2>3, <2>4, <2>5, <2>6, <2>7
            <4>2. z[Len(a) + j] = f[k][Len(a) + j]
                BY <1>8, <1>9, <2>2, <4>1 DEF StaysIn
            <4> QED BY <2>3, <2>4, <4>2
        <3> QED BY <3>1
    <2>9. p[k] = p[k - 1] + 1 + Len(l[k])
        <3>1. p[k] = Len(a) + Len(b)
            BY <2>3, <2>4, <2>5
        <3>2. PICK u, v \in Nat : u = Len(a) /\ v = Len(l[k])
            BY <2>5, <2>6
        <3>3. p[k] = u + (1 + v) /\ p[k - 1] = u
            BY <2>5, <2>7, <3>1, <3>2
        <3>4. u + (1 + v) = u + 1 + v
            OBVIOUS
        <3> QED BY <3>2, <3>3, <3>4, Zenon
    <2>10. z[p[k - 1] + 1] = Separator
        <3>1. 1 \in 1..Len(b)
            BY <2>6, <2>7
        <3>2. z[Len(a) + 1] = b[1]
            BY <2>8, <3>1
        <3> QED BY <2>5, <2>7, <3>2
    <2>11. ASSUME NEW c \in 1..Len(l[k]) PROVE z[p[k - 1] + 1 + c] = l[k][c]
        <3>1. 1 + c \in 1..Len(b) /\ p[k - 1] + 1 + c = Len(a) + (1 + c)
            <4>1. PICK u, v \in Nat : u = Len(a) /\ v = Len(l[k])
                BY <2>5, <2>6
            <4>2. c \in 1..v
                BY <4>1
            <4>3. 1 + c \in 1..(1 + v) /\ u + 1 + c = u + (1 + c)
                BY <4>2
            <4>4. Len(b) = 1 + v /\ p[k - 1] = u
                BY <2>5, <2>7, <4>1
            <4> QED BY <4>1, <4>3, <4>4, Zenon
        <3>2. z[Len(a) + (1 + c)] = b[1 + c]
            BY <2>8, <3>1
        <3> QED BY <2>7, <3>1, <3>2
    <2> QED BY <2>9, <2>10, <2>11
<1>15. z \in Seq(t) /\ Len(z) = p[n] /\ p[n] # 0
    <2>1. n \in 0..n /\ n \in 1..n /\ n - 1 \in 0..n /\ Len(l[n]) \in Nat
        BY <1>2
    <2>2. p[n] = p[n - 1] + 1 + Len(l[n]) /\ p[n - 1] \in Nat
        BY <1>12, <1>14, <2>1
    <2>3. z \in Seq(t) /\ Len(z) = p[n]
        BY <1>7, <1>9, <1>12, <2>1
    <2>4. PICK u, v \in Nat : u = p[n - 1] /\ v = Len(l[n])
        BY <2>1, <2>2
    <2>5. p[n] = u + 1 + v
        BY <2>2, <2>4
    <2> QED BY <2>3, <2>4, <2>5
<1>16. z # <<>>
    BY <1>15
<1>17. x \in Seq(t) /\ Len(x) + 1 = p[n] /\ \A j \in 1..(p[n] - 1) : x[j] = z[j + 1]
    BY <1>9, <1>15, <1>16, TailIs
<1>18. ASSUME NEW k \in 0..n PROVE p[k] <= p[n]
    <2>1. n \in 0..n /\ Len(f[k]) <= Len(f[n])
        BY <1>2, <1>8, Zenon DEF StaysIn
    <2>2. p[k] = Len(f[k]) /\ p[n] = Len(f[n])
        BY <1>12, <2>1
    <2> QED BY <2>1, <2>2
<1>19. ASSUME NEW i \in 1..n, NEW c \in 1..Len(l[i]) PROVE x[p[i - 1] + c] = l[i][c]
    <2>1. i \in 0..n /\ i - 1 \in 0..n /\ Len(l[i]) \in Nat
        BY <1>2
    <2>2. p[i] = p[i - 1] + 1 + Len(l[i]) /\ p[i] <= p[n] /\ p[i - 1] \in Nat /\ p[n] \in Nat
        BY <1>12, <1>14, <1>15, <1>18, <2>1
    <2>3. p[i - 1] + c \in 1..(p[n] - 1) /\ (p[i - 1] + c) + 1 = p[i - 1] + 1 + c
        <3>1. PICK u, v, w \in Nat : u = p[i - 1] /\ v = Len(l[i]) /\ w = p[n]
            BY <2>1, <2>2
        <3>2. c \in 1..v /\ u + 1 + v <= w
            BY <2>2, <3>1
        <3>3. u + c \in 1..(w - 1) /\ (u + c) + 1 = u + 1 + c
            BY <3>1, <3>2, SMTT(60)
        <3> QED BY <3>1, <3>3
    <2> QED BY <1>14, <1>17, <2>3, ZenonT(60)
<1>20. ASSUME NEW i \in 1..n, i # n PROVE x[p[i]] = Separator
    <2>1. i \in 0..n /\ i + 1 \in 1..n /\ i + 1 \in 0..n /\ (i + 1) - 1 = i /\ i - 1 \in 0..n
        BY <1>2, <1>20
    <2>2. Len(l[i]) \in Nat /\ Len(l[i + 1]) \in Nat
        BY <1>2, <2>1
    <2>3. p[i] = p[i - 1] + 1 + Len(l[i]) /\ p[i - 1] \in Nat /\ p[i] \in Nat
        BY <1>12, <1>14, <2>1
    <2>4. p[i + 1] = p[i] + 1 + Len(l[i + 1]) /\ p[i + 1] <= p[n] /\ p[n] \in Nat
        BY <1>12, <1>14, <1>15, <1>18, <2>1
    <2>5. p[i] \in 1..(p[n] - 1)
        <3>1. PICK u, v, w, x1, y1 \in Nat : /\ u = p[i] /\ v = p[i - 1] /\ w = p[n]
                                          /\ x1 = Len(l[i]) /\ y1 = Len(l[i + 1])
            BY <2>2, <2>3, <2>4
        <3>2. u = v + 1 + x1 /\ u + 1 + y1 <= w
            BY <2>3, <2>4, <3>1
        <3>3. u \in 1..(w - 1)
            BY <3>2
        <3> QED BY <3>1, <3>3
    <2>6. z[p[i] + 1] = Separator
        BY <1>14, <2>1
    <2> QED BY <1>17, <2>5, <2>6
<1>21. \A i \in 0..n : p[i] \in Nat /\ p[i] <= p[n]
    BY <1>12, <1>18
<1>22. \A i \in 1..n : p[i] = p[i - 1] + 1 + Len(l[i])
    BY <1>14
<1>23. \A i \in 1..n : \A c \in 1..Len(l[i]) : x[p[i - 1] + c] = l[i][c]
    BY <1>19
<1>24. \A i \in 1..n : i # n => x[p[i]] = Separator
    BY <1>20
<1>25. x \in Seq(t) /\ Len(x) + 1 = p[n]
    BY <1>17
<1>26. Placed(S, l, p)
    BY <1>1, <1>10, <1>13, <1>21, <1>22, <1>23, <1>24, <1>25, Zenon DEF Placed
<1> QED BY <1>26

-----------------------------------------------------------------------------
(* The walk of isTopicMatched through a filter and a name.                 *)

WalkNext(s, t, g, f, n) ==
    IF f > Len(s) \/ n > Len(t) \/ Mqtt!Stops(s[f], t[n])
    THEN n = Len(t) + 1 /\ f = Len(s) + 1
    ELSE g[<<f + 1, 1 + Mqtt!LastTaken(s[f], t, n)>>]

Walks(s, t, g) ==
    /\ \A f, n \in Nat : g[<<f, n>>] = WalkNext(s, t, g, f, n)
    /\ Mqtt!IsTopicMatched(s, t) = g[<<1, 1>>]

WalkUpTo(s, t, g, d) ==
    /\ g = [at \in Nat \X Nat |-> g[at]]
    /\ \A f, n \in Nat : f + d > Len(s) => g[<<f, n>>] = WalkNext(s, t, g, f, n)

\* A '+' takes the rest of the level, whose end is e.
LEMMA SkipLevelIs ==
    ASSUME NEW t, Len(t) \in Nat, NEW n \in Nat, NEW e \in Nat, n <= e, e <= Len(t),
           e = Len(t) \/ t[e + 1] = "/", \A i \in n..(e - 1) : t[i + 1] # "/"
    PROVE  Mqtt!SkipLevel(t, n) = e
<1>1. PICK T : T = {i \in n..Len(t) : i = Len(t) \/ t[i + 1] = "/"}
    OBVIOUS
<1>2. T \in SUBSET Int /\ e \in T
    BY <1>1
<1>3. ASSUME NEW x \in T PROVE e <= x
    <2>1. x \in n..Len(t) /\ (x = Len(t) \/ t[x + 1] = "/")
        BY <1>1
    <2>2. ASSUME x < e PROVE FALSE
        BY <2>1, <2>2
    <2> QED BY <2>1, <2>2
<1>4. Min(T) = e
    BY <1>2, <1>3, MinIs
<1> QED BY <1>1, <1>4 DEF Mqtt!SkipLevel, Mqtt!Min, Min

LEMMA LastTakenIs ==
    ASSUME NEW t, Len(t) \in Nat, NEW f, NEW n \in Nat, n <= Len(t)
    PROVE  Mqtt!LastTaken(f, t, n) \in Nat
<1>1. PICK T : T = {i \in n..Len(t) : i = Len(t) \/ t[i + 1] = "/"}
    OBVIOUS
<1>2. T \in SUBSET Nat /\ Len(t) \in T
    BY <1>1
<1>3. Min(T) \in T
    BY <1>2, Least
<1>4. Mqtt!SkipLevel(t, n) \in Nat
    BY <1>1, <1>2, <1>3 DEF Mqtt!SkipLevel, Mqtt!Min, Min
<1> QED BY <1>4 DEF Mqtt!LastTaken

LEMMA WalkStep ==
    ASSUME NEW s, Len(s) \in Nat, NEW t, Len(t) \in Nat, NEW d \in Nat, NEW g, WalkUpTo(s, t, g, d)
    PROVE  \E h : WalkUpTo(s, t, h, d + 1)
<1>1. PICK h : h = [at \in Nat \X Nat |-> WalkNext(s, t, g, at[1], at[2])]
    OBVIOUS
<1>2. \A f, n \in Nat : h[<<f, n>>] = WalkNext(s, t, g, f, n)
    BY <1>1
<1>3. ASSUME NEW f \in Nat, NEW n \in Nat, f + (d + 1) > Len(s) PROVE h[<<f, n>>] = WalkNext(s, t, h, f, n)
    <2>1. h[<<f, n>>] = WalkNext(s, t, g, f, n)
        BY <1>2
    <2>2. CASE f > Len(s) \/ n > Len(t) \/ Mqtt!Stops(s[f], t[n])
        BY <2>1, <2>2, Zenon DEF WalkNext
    <2>3. CASE ~(f > Len(s) \/ n > Len(t) \/ Mqtt!Stops(s[f], t[n]))
        <3>1. PICK a, b : a = f + 1 /\ b = 1 + Mqtt!LastTaken(s[f], t, n)
            OBVIOUS
        <3>2. n <= Len(t)
            BY <2>3
        <3>3. a \in Nat /\ b \in Nat /\ a + d > Len(s)
            <4>1. Mqtt!LastTaken(s[f], t, n) \in Nat
                BY <3>2, LastTakenIs
            <4> QED BY <1>3, <3>1, <4>1
        <3>4. g[<<a, b>>] = WalkNext(s, t, g, a, b) /\ h[<<a, b>>] = WalkNext(s, t, g, a, b)
            BY <1>2, <3>3, Zenon DEF WalkUpTo
        <3> QED BY <2>1, <2>3, <3>1, <3>4, Zenon DEF WalkNext
    <2> QED BY <2>2, <2>3
<1>4. h = [at \in Nat \X Nat |-> h[at]]
    BY <1>1
<1>5. WalkUpTo(s, t, h, d + 1)
    BY <1>3, <1>4, Zenon DEF WalkUpTo
<1> QED BY <1>5

LEMMA WalkIs ==
    ASSUME NEW s, Len(s) \in Nat, NEW t, Len(t) \in Nat
    PROVE  \E g : Walks(s, t, g)
<1> DEFINE Good == {d \in Nat : \E g : WalkUpTo(s, t, g, d)}
<1>1. 0 \in Good
    <2>1. PICK g : g = [at \in Nat \X Nat |-> at[2] = Len(t) + 1 /\ at[1] = Len(s) + 1]
        OBVIOUS
    <2>2. ASSUME NEW f \in Nat, NEW n \in Nat, f + 0 > Len(s) PROVE g[<<f, n>>] = WalkNext(s, t, g, f, n)
        <3>1. f > Len(s)
            BY <2>2
        <3>2. g[<<f, n>>] = (n = Len(t) + 1 /\ f = Len(s) + 1)
            BY <2>1
        <3> QED BY <3>1, <3>2, Zenon DEF WalkNext
    <2>3. g = [at \in Nat \X Nat |-> g[at]]
        BY <2>1
    <2>4. WalkUpTo(s, t, g, 0)
        BY <2>2, <2>3, Zenon DEF WalkUpTo
    <2> QED BY <2>4
<1>2. ASSUME NEW d \in Nat, d \in Good PROVE d + 1 \in Good
    <2>1. PICK g : WalkUpTo(s, t, g, d)
        BY <1>2
    <2>2. PICK h : WalkUpTo(s, t, h, d + 1)
        BY <2>1, WalkStep
    <2> QED BY <2>2
<1>3. \A d \in Nat : d \in Good
    <2> HIDE DEF Good
    <2> QED BY <1>1, <1>2, Induction
<1>4. PICK h : WalkUpTo(s, t, h, Len(s) + 1)
    <2>1. Len(s) + 1 \in Good
        BY <1>3
    <2> QED BY <2>1
<1>5. \A f, n \in Nat : h[<<f, n>>] = WalkNext(s, t, h, f, n)
    <2>1. \A f \in Nat : f + (Len(s) + 1) > Len(s)
        OBVIOUS
    <2> QED BY <1>4, <2>1, Zenon DEF WalkUpTo
<1>6. h = [at \in Nat \X Nat |-> h[at]]
    BY <1>4, Zenon DEF WalkUpTo
<1>7. ASSUME NEW at \in Nat \X Nat PROVE h[at] = WalkNext(s, t, h, at[1], at[2])
    <2>1. at[1] \in Nat /\ at[2] \in Nat /\ at = <<at[1], at[2]>>
        OBVIOUS
    <2> QED BY <1>5, <2>1, ZenonT(60)
<1>8. h = [at \in Nat \X Nat |-> WalkNext(s, t, h, at[1], at[2])]
    <2>1. [at \in Nat \X Nat |-> h[at]] = [at \in Nat \X Nat |-> WalkNext(s, t, h, at[1], at[2])]
        BY <1>7, Zenon
    <2> QED BY <1>6, <2>1, Zenon
<1> DEFINE g == CHOOSE g : g = [at \in Nat \X Nat |-> WalkNext(s, t, g, at[1], at[2])]
<1>9. g = [at \in Nat \X Nat |-> WalkNext(s, t, g, at[1], at[2])]
    BY <1>8, Zenon
<1>10. Mqtt!IsTopicMatched(s, t) = g[<<1, 1>>]
    BY Zenon DEF Mqtt!IsTopicMatched, WalkNext
<1> HIDE DEF g
<1>11. \A f, n \in Nat : g[<<f, n>>] = WalkNext(s, t, g, f, n)
    <2>1. ASSUME NEW f \in Nat, NEW n \in Nat PROVE g[<<f, n>>] = WalkNext(s, t, g, f, n)
        <3>1. PICK at : at = <<f, n>>
            OBVIOUS
        <3>2. at \in Nat \X Nat /\ at[1] = f /\ at[2] = n
            BY <3>1
        <3>3. g[at] = WalkNext(s, t, g, at[1], at[2])
            BY <1>9, <3>2, Zenon
        <3> QED BY <3>1, <3>2, <3>3, Zenon
    <2> QED BY <2>1
<1>12. Walks(s, t, g)
    BY <1>10, <1>11, Zenon DEF Walks
<1> QED BY <1>12

\* A step of the walk: it stops, or goes on behind what the character takes.
StopsAt(s, t, f, n) == f > Len(s) \/ n > Len(t) \/ Mqtt!Stops(s[f], t[n])

LEMMA WalkEnds ==
    ASSUME NEW s, NEW t, NEW g, Walks(s, t, g), NEW f \in Nat, NEW n \in Nat, StopsAt(s, t, f, n)
    PROVE  g[<<f, n>>] = (n = Len(t) + 1 /\ f = Len(s) + 1)
BY Zenon DEF Walks, WalkNext, StopsAt

LEMMA WalkFails ==
    ASSUME NEW s, NEW t, NEW g, Walks(s, t, g), NEW f \in Nat, NEW n \in Nat, StopsAt(s, t, f, n),
           Len(s) \in Nat, Len(t) \in Nat, f <= Len(s) \/ n <= Len(t)
    PROVE  g[<<f, n>>] = FALSE
<1>1. ~(n = Len(t) + 1 /\ f = Len(s) + 1)
    OBVIOUS
<1>2. g[<<f, n>>] = (n = Len(t) + 1 /\ f = Len(s) + 1)
    BY WalkEnds, ZenonT(60)
<1> QED BY <1>1, <1>2, Zenon

LEMMA WalkSucceeds ==
    ASSUME NEW s, NEW t, NEW g, Walks(s, t, g), NEW f \in Nat, NEW n \in Nat,
           Len(s) \in Nat, Len(t) \in Nat, f = Len(s) + 1, n = Len(t) + 1
    PROVE  g[<<f, n>>] = TRUE
<1>1. f > Len(s)
    OBVIOUS
<1>2. StopsAt(s, t, f, n)
    BY <1>1, Zenon DEF StopsAt
<1>3. g[<<f, n>>] = (n = Len(t) + 1 /\ f = Len(s) + 1)
    BY <1>2, WalkEnds, Zenon
<1> QED BY <1>3, Zenon

GoesTo(s, t, f, n, a, b) ==
    ~StopsAt(s, t, f, n) /\ a \in Nat /\ b \in Nat /\ f + 1 = a /\ 1 + Mqtt!LastTaken(s[f], t, n) = b

LEMMA WalkGoes ==
    ASSUME NEW s, NEW t, NEW g, Walks(s, t, g), NEW f \in Nat, NEW n \in Nat, NEW a, NEW b,
           GoesTo(s, t, f, n, a, b)
    PROVE  g[<<f, n>>] = g[<<a, b>>]
<1>1. g[<<f, n>>] = g[<<f + 1, 1 + Mqtt!LastTaken(s[f], t, n)>>]
    BY Zenon DEF Walks, WalkNext, StopsAt, GoesTo
<1>2. f + 1 = a /\ 1 + Mqtt!LastTaken(s[f], t, n) = b
    BY Zenon DEF GoesTo
<1> QED BY <1>1, <1>2, Zenon

\* A level w of the text x, which begins behind v and ends before e.
LevelAt(x, w, v, e, last) ==
    /\ v \in Nat /\ e \in Nat /\ Len(w) \in Nat /\ Len(x) \in Nat /\ e = v + 1 + Len(w)
    /\ \A c \in 1..Len(w) : v + c <= Len(x) /\ x[v + c] = w[c] /\ w[c] # "/"
    /\ last => e = Len(x) + 1
    /\ ~last => e <= Len(x) /\ x[e] = "/"

LEMMA LevelIs ==
    ASSUME NEW S, "/" \notin S, NEW l, Levelled(S, l), NEW p, Placed(S, l, p), NEW i \in 1..Len(l)
    PROVE  LevelAt(Topic(l), l[i], p[i - 1], p[i], i = Len(l))
<1>1. PICK n, x : n = Len(l) /\ x = Topic(l)
    OBVIOUS
<1>2. n \in Nat /\ i \in 1..n /\ i \in 0..n /\ i - 1 \in 0..n /\ n \in 0..n
    BY <1>1 DEF Levelled
<1>3. l[i] \in Seq(S)
    BY <1>1, <1>2 DEF Levelled
<1>4. Len(l[i]) \in Nat /\ \A c \in 1..Len(l[i]) : l[i][c] # "/"
    BY <1>3
<1>5. /\ p[i - 1] \in Nat /\ p[i] \in Nat /\ p[i] <= p[n] /\ p[n] \in Nat
      /\ p[i] = p[i - 1] + 1 + Len(l[i])
      /\ x \in Seq(TopicText(S)) /\ Len(x) + 1 = p[n]
      /\ \A c \in 1..Len(l[i]) : x[p[i - 1] + c] = l[i][c]
      /\ i # n => x[p[i]] = "/"
    BY <1>1, <1>2, Zenon DEF Placed, Separator
<1>6. Len(x) \in Nat
    BY <1>5
<1>7. PICK v, e, k, m \in Nat : v = p[i - 1] /\ e = p[i] /\ k = Len(l[i]) /\ m = Len(x)
    BY <1>4, <1>5, <1>6
<1>8. e = v + 1 + k /\ e <= m + 1 /\ (i = n => e = m + 1)
    BY <1>5, <1>7
<1>9. \A c \in 1..k : v + c <= m
    BY <1>8
<1>10. ASSUME i # n PROVE e <= m
    <2>1. i + 1 \in 1..n /\ i + 1 \in 0..n /\ (i + 1) - 1 = i
        BY <1>2, <1>10
    <2>2. l[i + 1] \in Seq(S)
        BY <1>1, <2>1 DEF Levelled
    <2>3. PICK b \in Nat : b = Len(l[i + 1])
        BY <2>2
    <2>4. p[i + 1] = p[i] + 1 + Len(l[i + 1]) /\ p[i + 1] <= p[n] /\ p[i + 1] \in Nat
        BY <1>1, <2>1, Zenon DEF Placed
    <2>5. PICK r \in Nat : r = p[i + 1]
        BY <2>4
    <2>6. r = e + 1 + b /\ r <= m + 1
        BY <1>5, <1>7, <2>3, <2>4, <2>5
    <2> QED BY <2>6
<1>11. /\ p[i - 1] \in Nat /\ p[i] \in Nat /\ Len(l[i]) \in Nat /\ Len(x) \in Nat
       /\ p[i] = p[i - 1] + 1 + Len(l[i])
    BY <1>4, <1>5, <1>6
<1>12. \A c \in 1..Len(l[i]) : p[i - 1] + c <= Len(x) /\ x[p[i - 1] + c] = l[i][c] /\ l[i][c] # "/"
    <2>1. \A c \in 1..Len(l[i]) : p[i - 1] + c <= Len(x)
        BY <1>7, <1>9, Zenon
    <2> QED BY <1>4, <1>5, <2>1, Zenon
<1>13. i = n => p[i] = Len(x) + 1
    BY <1>7, <1>8, SMTT(60)
<1>14. ~(i = n) => p[i] <= Len(x) /\ x[p[i]] = "/"
    BY <1>5, <1>7, <1>10
<1> QED BY <1>1, <1>11, <1>12, <1>13, <1>14, Zenon DEF LevelAt

\* Two levels, of a filter and of a name, and the walk through them.
Levels2(s, t, g, w, v, e, last, y, u, h, end) ==
    Walks(s, t, g) /\ LevelAt(s, w, v, e, last) /\ LevelAt(t, y, u, h, end)

EndWalked(g, e, h, last, end) ==
    /\ last /\ end => g[<<e, h>>] = TRUE
    /\ ~(last <=> end) => g[<<e, h>>] = FALSE
    /\ ~last /\ ~end => g[<<e, h>>] = g[<<e + 1, h + 1>>]

LEMMA EndMet ==
    ASSUME NEW s, NEW t, NEW g, NEW w, NEW v, NEW e, NEW last \in BOOLEAN, NEW y, NEW u, NEW h,
           NEW end \in BOOLEAN, Levels2(s, t, g, w, v, e, last, y, u, h, end)
    PROVE  EndWalked(g, e, h, last, end)
<1>1. Walks(s, t, g) /\ LevelAt(s, w, v, e, last) /\ LevelAt(t, y, u, h, end)
    BY Zenon DEF Levels2
<1>2. /\ e \in Nat /\ Len(s) \in Nat /\ h \in Nat /\ Len(t) \in Nat
      /\ last => e = Len(s) + 1
      /\ ~last => e <= Len(s) /\ s[e] = "/"
      /\ end => h = Len(t) + 1
      /\ ~end => h <= Len(t) /\ t[h] = "/"
    BY <1>1, Zenon DEF LevelAt
<1>3. CASE last /\ end
    <2>1. g[<<e, h>>] = TRUE
        BY <1>1, <1>2, <1>3, WalkSucceeds, Zenon
    <2> QED BY <1>3, <2>1, Zenon DEF EndWalked
<1>4. CASE ~(last <=> end)
    <2>1. (e > Len(s) \/ h > Len(t)) /\ (e <= Len(s) \/ h <= Len(t))
        BY <1>2, <1>4
    <2>2. StopsAt(s, t, e, h)
        BY <2>1, Zenon DEF StopsAt
    <2>3. g[<<e, h>>] = FALSE
        BY <1>1, <1>2, <2>1, <2>2, WalkFails, ZenonT(60)
    <2> QED BY <1>4, <2>3, Zenon DEF EndWalked
<1>5. CASE ~last /\ ~end
    <2>1. ~(e > Len(s)) /\ ~(h > Len(t)) /\ s[e] = "/" /\ t[h] = "/"
        BY <1>2, <1>5
    <2>2. ~Mqtt!Stops("/", "/") /\ Mqtt!LastTaken("/", t, h) = h
        BY DEF Mqtt!Stops, Mqtt!LastTaken
    <2>3. ~StopsAt(s, t, e, h) /\ Mqtt!LastTaken(s[e], t, h) = h
        BY <2>1, <2>2, Zenon DEF StopsAt
    <2>4. PICK a, b \in Nat : a = e + 1 /\ b = h + 1
        BY <1>2
    <2>5. e + 1 = a /\ 1 + h = b
        BY <1>2, <2>4
    <2>6. GoesTo(s, t, e, h, a, b)
        BY <2>3, <2>5, Zenon DEF GoesTo
    <2>7. g[<<e, h>>] = g[<<a, b>>]
        BY <1>1, <1>2, <2>6, WalkGoes
    <2> QED BY <1>5, <2>4, <2>7, Zenon DEF EndWalked
<1> QED BY <1>3, <1>4, <1>5, Zenon DEF EndWalked

\* An empty level of the name stops a wildcard, and any other character that
\* is not a separator.
LEMMA EmptyMet ==
    ASSUME NEW s, NEW t, NEW g, Walks(s, t, g), NEW f \in Nat, Len(s) \in Nat, f <= Len(s), s[f] # "/",
           NEW y, NEW u, NEW h, NEW end \in BOOLEAN, LevelAt(t, y, u, h, end)
    PROVE  g[<<f, h>>] = FALSE
<1>1. /\ h \in Nat /\ Len(t) \in Nat
      /\ end => h = Len(t) + 1
      /\ ~end => h <= Len(t) /\ t[h] = "/"
    BY Zenon DEF LevelAt
<1>2. h > Len(t) \/ Mqtt!Stops(s[f], t[h])
    BY <1>1 DEF Mqtt!Stops
<1>3. StopsAt(s, t, f, h)
    BY <1>2, Zenon DEF StopsAt
<1> QED BY <1>1, <1>3, WalkFails, ZenonT(60)

\* A level of one character, a wildcard.
LEMMA WildcardAt ==
    ASSUME NEW s, NEW w, NEW v, NEW e, NEW last \in BOOLEAN, LevelAt(s, <<w>>, v, e, last)
    PROVE  /\ v \in Nat /\ e \in Nat /\ v + 1 \in Nat /\ Len(s) \in Nat /\ e = (v + 1) + 1
           /\ v + 1 <= Len(s) /\ s[v + 1] = w /\ w # "/"
           /\ last => e = Len(s) + 1
<1>1. Len(<<w>>) = 1 /\ <<w>>[1] = w
    OBVIOUS
<1>2. PICK x : x = <<w>>
    OBVIOUS
<1>3. Len(x) = 1 /\ x[1] = w
    BY <1>1, <1>2
<1>4. /\ v \in Nat /\ e \in Nat /\ e = v + 1 + Len(x) /\ Len(s) \in Nat
      /\ \A c \in 1..Len(x) : v + c <= Len(s) /\ s[v + c] = x[c] /\ x[c] # "/"
      /\ last => e = Len(s) + 1
    BY <1>2, Zenon DEF LevelAt
<1>5. 1 \in 1..Len(x)
    BY <1>3
<1>6. v + 1 <= Len(s) /\ s[v + 1] = w /\ w # "/"
    BY <1>3, <1>4, <1>5
<1>7. e = v + 1 + 1
    BY <1>3, <1>4
<1> QED BY <1>4, <1>6, <1>7

\* A level that is not empty: its characters lie in u + 1 .. b.
Spans(t, u, h, b) ==
    /\ b + 1 = h /\ h \in Nat /\ u + 1 \in Nat /\ u + 1 <= b /\ b <= Len(t) /\ Len(t) \in Nat
    /\ b = Len(t) \/ t[b + 1] = "/"
    /\ t[u + 1] # "/" /\ \A i \in (u + 1)..(b - 1) : t[i + 1] # "/"

LEMMA LevelSpan ==
    ASSUME NEW t, NEW y, NEW u, NEW h, NEW end \in BOOLEAN, LevelAt(t, y, u, h, end), Len(y) # 0
    PROVE  \E b \in Nat : Spans(t, u, h, b)
<1>1. /\ u \in Nat /\ h \in Nat /\ Len(y) \in Nat /\ Len(t) \in Nat /\ h = u + 1 + Len(y)
      /\ \A c \in 1..Len(y) : u + c <= Len(t) /\ t[u + c] # "/"
      /\ end => h = Len(t) + 1
      /\ ~end => h <= Len(t) /\ t[h] = "/"
    <2>1. /\ \A c \in 1..Len(y) : u + c <= Len(t) /\ t[u + c] = y[c] /\ y[c] # "/"
          /\ u \in Nat /\ h \in Nat /\ Len(y) \in Nat /\ Len(t) \in Nat /\ h = u + 1 + Len(y)
          /\ end => h = Len(t) + 1
          /\ ~end => h <= Len(t) /\ t[h] = "/"
        BY Zenon DEF LevelAt
    <2> QED BY <2>1, Zenon
<1>2. PICK k, m \in Nat : k = Len(y) /\ m = Len(t)
    BY <1>1
<1>3. k # 0 /\ h = u + 1 + k /\ \A c \in 1..k : u + c <= m /\ t[u + c] # "/"
    BY <1>1, <1>2
<1>4. PICK b \in Nat : b = u + k
    BY <1>1
<1>5. b + 1 = h /\ u + 1 <= b /\ u + 1 \in Nat
    BY <1>1, <1>3, <1>4
<1>6. 1 \in 1..k /\ k \in 1..k
    BY <1>3
<1>7. b <= m /\ t[u + 1] # "/"
    BY <1>3, <1>4, <1>6
<1>8. b = m \/ t[b + 1] = "/"
    BY <1>1, <1>2, <1>4, <1>5
<1>9. ASSUME NEW i \in (u + 1)..(b - 1) PROVE t[i + 1] # "/"
    <2>1. PICK c : c = i + 1 - u
        OBVIOUS
    <2>2. c \in 1..k /\ u + c = i + 1
        BY <1>1, <1>4, <2>1
    <2> QED BY <1>3, <2>2
<1>10. b <= Len(t) /\ (b = Len(t) \/ t[b + 1] = "/")
    BY <1>2, <1>7, <1>8
<1>11. Spans(t, u, h, b)
    BY <1>1, <1>5, <1>7, <1>9, <1>10, Zenon DEF Spans
<1> QED BY <1>11

HashWalked(g, v, u, y) ==
    /\ Len(y) = 0 => g[<<v + 1, u + 1>>] = FALSE
    /\ Len(y) # 0 => g[<<v + 1, u + 1>>] = TRUE

LEMMA HashMet ==
    ASSUME NEW s, NEW t, NEW g, NEW v, NEW e, NEW y, NEW u, NEW h,
           NEW end \in BOOLEAN, Levels2(s, t, g, <<"#">>, v, e, TRUE, y, u, h, end)
    PROVE  HashWalked(g, v, u, y)
<1>1. Walks(s, t, g) /\ LevelAt(s, <<"#">>, v, e, TRUE) /\ LevelAt(t, y, u, h, end)
    BY Zenon DEF Levels2
<1>2. /\ v \in Nat /\ e \in Nat /\ v + 1 \in Nat /\ Len(s) \in Nat /\ e = (v + 1) + 1
      /\ v + 1 <= Len(s) /\ s[v + 1] = "#" /\ e = Len(s) + 1
    BY <1>1, WildcardAt, ZenonT(60)
<1>3. CASE Len(y) = 0
    <2>1. h = u + 1
        <3>1. u \in Nat /\ h = u + 1 + Len(y)
            BY <1>1, Zenon DEF LevelAt
        <3> QED BY <1>3, <3>1
    <2>2. s[v + 1] # "/"
        BY <1>2
    <2>3. g[<<v + 1, h>>] = FALSE
        BY <1>1, <1>2, <2>2, EmptyMet, Zenon
    <2> QED BY <1>3, <2>1, <2>3, Zenon DEF HashWalked
<1>4. CASE Len(y) # 0
    <2>1. u + 1 \in Nat /\ Len(t) \in Nat /\ u + 1 <= Len(t) /\ t[u + 1] # "/"
        <3>1. PICK b \in Nat : Spans(t, u, h, b)
            BY <1>1, <1>4, LevelSpan
        <3>2. u + 1 <= b /\ b <= Len(t) /\ t[u + 1] # "/" /\ Len(t) \in Nat /\ u + 1 \in Nat
            BY <3>1, Zenon DEF Spans
        <3> QED BY <3>2
    <2>2. ~(v + 1 > Len(s)) /\ ~(u + 1 > Len(t)) /\ ~Mqtt!Stops("#", t[u + 1])
        BY <1>2, <2>1 DEF Mqtt!Stops
    <2>3. ~StopsAt(s, t, v + 1, u + 1)
        BY <1>2, <2>2, Zenon DEF StopsAt
    <2>4. Mqtt!LastTaken(s[v + 1], t, u + 1) = Len(t)
        BY <1>2 DEF Mqtt!LastTaken
    <2>5. PICK k, b \in Nat : k = Len(t) /\ b = Len(t) + 1 /\ 1 + k = b
        BY <2>1
    <2>6. g[<<v + 1, u + 1>>] = g[<<e, b>>]
        <3>1. GoesTo(s, t, v + 1, u + 1, e, b)
            BY <1>2, <2>3, <2>4, <2>5, Zenon DEF GoesTo
        <3> QED BY <1>1, <1>2, <2>1, <3>1, WalkGoes
    <2>7. g[<<e, b>>] = TRUE
        BY <1>1, <1>2, <2>1, <2>5, WalkSucceeds, Zenon
    <2> QED BY <1>4, <2>6, <2>7, Zenon DEF HashWalked
<1> QED BY <1>3, <1>4, Zenon DEF HashWalked

PlusWalked(g, v, u, y, e, h) ==
    /\ Len(y) = 0 => g[<<v + 1, u + 1>>] = FALSE
    /\ Len(y) # 0 => g[<<v + 1, u + 1>>] = g[<<e, h>>]

LEMMA PlusMet ==
    ASSUME NEW s, NEW t, NEW g, NEW v, NEW e, NEW last \in BOOLEAN, NEW y, NEW u, NEW h,
           NEW end \in BOOLEAN, Levels2(s, t, g, <<"+">>, v, e, last, y, u, h, end)
    PROVE  PlusWalked(g, v, u, y, e, h)
<1>1. Walks(s, t, g) /\ LevelAt(s, <<"+">>, v, e, last) /\ LevelAt(t, y, u, h, end)
    BY Zenon DEF Levels2
<1>2. /\ v \in Nat /\ e \in Nat /\ v + 1 \in Nat /\ Len(s) \in Nat /\ e = (v + 1) + 1
      /\ v + 1 <= Len(s) /\ s[v + 1] = "+"
    BY <1>1, WildcardAt
<1>3. CASE Len(y) = 0
    <2>1. h = u + 1
        <3>1. u \in Nat /\ h = u + 1 + Len(y)
            BY <1>1, Zenon DEF LevelAt
        <3> QED BY <1>3, <3>1
    <2>2. s[v + 1] # "/"
        BY <1>2
    <2>3. g[<<v + 1, h>>] = FALSE
        BY <1>1, <1>2, <2>2, EmptyMet, Zenon
    <2> QED BY <1>3, <2>1, <2>3, Zenon DEF PlusWalked
<1>4. CASE Len(y) # 0
    <2>0. PICK b \in Nat : Spans(t, u, h, b)
        BY <1>1, <1>4, LevelSpan
    <2>1. /\ b + 1 = h /\ h \in Nat /\ u + 1 \in Nat /\ u + 1 <= b /\ b <= Len(t) /\ Len(t) \in Nat
          /\ b = Len(t) \/ t[b + 1] = "/"
          /\ t[u + 1] # "/" /\ \A i \in (u + 1)..(b - 1) : t[i + 1] # "/"
        BY <2>0, Zenon DEF Spans
    <2>2. ~(v + 1 > Len(s)) /\ ~(u + 1 > Len(t)) /\ ~Mqtt!Stops("+", t[u + 1])
        BY <1>2, <2>1 DEF Mqtt!Stops
    <2>3. ~StopsAt(s, t, v + 1, u + 1)
        BY <1>2, <2>2, Zenon DEF StopsAt
    <2>4. Mqtt!SkipLevel(t, u + 1) = b
        BY <2>1, SkipLevelIs, Zenon
    <2>5. Mqtt!LastTaken(s[v + 1], t, u + 1) = b
        BY <1>2, <2>4 DEF Mqtt!LastTaken
    <2>6. 1 + b = h
        BY <2>1
    <2>7. g[<<v + 1, u + 1>>] = g[<<e, h>>]
        <3>1. GoesTo(s, t, v + 1, u + 1, e, h)
            BY <1>2, <2>1, <2>3, <2>5, <2>6, Zenon DEF GoesTo
        <3> QED BY <1>1, <1>2, <2>1, <3>1, WalkGoes
    <2> QED BY <1>4, <2>7, Zenon DEF PlusWalked
<1> QED BY <1>3, <1>4, Zenon DEF PlusWalked
\* A level without wildcards.
Plain(w) == \A c \in 1..Len(w) : w[c] \notin {"+", "#"}

AgreeTo(w, y, d) == d <= Len(w) /\ d <= Len(y) /\ \A j \in 1..d : w[j] = y[j]

LEMMA LevelParts ==
    ASSUME NEW s, NEW w, NEW v, NEW e, NEW last \in BOOLEAN, LevelAt(s, w, v, e, last)
    PROVE  /\ v \in Nat /\ e \in Nat /\ Len(w) \in Nat /\ Len(s) \in Nat /\ e = v + 1 + Len(w)
           /\ \A c \in 1..Len(w) : v + c <= Len(s) /\ s[v + c] = w[c] /\ w[c] # "/"
           /\ last => e = Len(s) + 1
           /\ ~last => e <= Len(s) /\ s[e] = "/"
BY Zenon DEF LevelAt

AlikeAt(w, y, c) == c \in 1..Len(w) /\ c \in 1..Len(y) /\ w[c] = y[c]

LEMMA CharMet ==
    ASSUME NEW s, NEW t, NEW g, NEW w, NEW v, NEW e, NEW last \in BOOLEAN, NEW y, NEW u, NEW h,
           NEW end \in BOOLEAN, Levels2(s, t, g, w, v, e, last, y, u, h, end), Plain(w),
           NEW c \in Nat, AlikeAt(w, y, c)
    PROVE  g[<<v + c, u + c>>] = g[<<v + (c + 1), u + (c + 1)>>]
<1>1. Walks(s, t, g) /\ LevelAt(s, w, v, e, last) /\ LevelAt(t, y, u, h, end)
    BY Zenon DEF Levels2
<1>0. c \in 1..Len(w) /\ c \in 1..Len(y) /\ w[c] = y[c]
    BY Zenon DEF AlikeAt
<1>2. v \in Nat /\ Len(s) \in Nat /\ v + c <= Len(s) /\ s[v + c] = w[c] /\ w[c] # "/"
    BY <1>0, <1>1, LevelParts
<1>3. u \in Nat /\ Len(t) \in Nat /\ u + c <= Len(t) /\ t[u + c] = y[c]
    BY <1>0, <1>1, LevelParts
<1>4. w[c] \notin {"+", "#"}
    BY <1>0 DEF Plain
<1>5. PICK f, n, a, b \in Nat : f = v + c /\ n = u + c /\ a = v + (c + 1) /\ b = u + (c + 1)
    BY <1>2, <1>3
<1>6. f + 1 = a /\ 1 + n = b /\ ~(f > Len(s)) /\ ~(n > Len(t))
    BY <1>2, <1>3, <1>5
<1>7. s[f] = w[c] /\ t[n] = w[c]
    BY <1>0, <1>2, <1>3, <1>5
<1>8. ~Mqtt!Stops(w[c], w[c]) /\ Mqtt!LastTaken(w[c], t, n) = n
    BY <1>2, <1>4 DEF Mqtt!Stops, Mqtt!LastTaken
<1>9. ~StopsAt(s, t, f, n) /\ Mqtt!LastTaken(s[f], t, n) = n
    BY <1>6, <1>7, <1>8, Zenon DEF StopsAt
<1>10. GoesTo(s, t, f, n, a, b)
    BY <1>5, <1>6, <1>9, Zenon DEF GoesTo
<1>11. Walks(s, t, g) /\ f \in Nat /\ n \in Nat
    BY <1>1, <1>5
<1>12. g[<<f, n>>] = g[<<a, b>>]
    BY <1>10, <1>11, WalkGoes
<1> QED BY <1>5, <1>12, Zenon

LEMMA PrefixMet ==
    ASSUME NEW s, NEW t, NEW g, NEW w, NEW v, NEW e, NEW last \in BOOLEAN, NEW y, NEW u, NEW h,
           NEW end \in BOOLEAN, Levels2(s, t, g, w, v, e, last, y, u, h, end), Plain(w),
           NEW d \in Nat, AgreeTo(w, y, d)
    PROVE  g[<<v + 1, u + 1>>] = g[<<v + (d + 1), u + (d + 1)>>]
<1> DEFINE Good == {k \in Nat : k <= d => g[<<v + 1, u + 1>>] = g[<<v + (k + 1), u + (k + 1)>>]}
<1>1. d <= Len(w) /\ d <= Len(y) /\ Len(w) \in Nat /\ Len(y) \in Nat /\ \A j \in 1..d : w[j] = y[j]
    <2>1. LevelAt(s, w, v, e, last) /\ LevelAt(t, y, u, h, end)
        BY Zenon DEF Levels2
    <2>2. Len(w) \in Nat /\ Len(y) \in Nat
        BY <2>1, LevelParts
    <2> QED BY <2>2, Zenon DEF AgreeTo
<1>2. 0 \in Good
    <2>1. 0 + 1 = 1
        OBVIOUS
    <2> QED BY <2>1
<1>3. ASSUME NEW k \in Nat, k \in Good PROVE k + 1 \in Good
    <2>1. SUFFICES ASSUME k + 1 <= d PROVE g[<<v + 1, u + 1>>] = g[<<v + ((k + 1) + 1), u + ((k + 1) + 1)>>]
        OBVIOUS
    <2>2. PICK c \in Nat : c = k + 1
        OBVIOUS
    <2>3. c \in 1..Len(w) /\ c \in 1..Len(y) /\ c \in 1..d /\ k <= d
        BY <1>1, <2>1, <2>2
    <2>4. AlikeAt(w, y, c)
        <3>1. w[c] = y[c]
            BY <1>1, <2>3
        <3> QED BY <2>3, <3>1, Zenon DEF AlikeAt
    <2>5. g[<<v + c, u + c>>] = g[<<v + (c + 1), u + (c + 1)>>]
        BY <2>4, CharMet
    <2>6. g[<<v + 1, u + 1>>] = g[<<v + (k + 1), u + (k + 1)>>]
        BY <1>3, <2>3
    <2> QED BY <2>2, <2>5, <2>6, Zenon
<1>4. \A k \in Nat : k \in Good
    <2> HIDE DEF Good
    <2> QED BY <1>2, <1>3, Induction
<1>5. d \in Good /\ d <= d
    BY <1>4
<1> QED BY <1>5

\* Where two different levels first differ, or the first of them ends.
LEMMA FirstDifference ==
    ASSUME NEW w, NEW y, NEW S, w \in Seq(S), y \in Seq(S), w # y
    PROVE  \E d \in Nat : /\ AgreeTo(w, y, d)
                          /\ \/ d + 1 \in 1..Len(w) /\ d + 1 \in 1..Len(y) /\ w[d + 1] # y[d + 1]
                             \/ d + 1 \in 1..Len(w) /\ d = Len(y)
                             \/ d + 1 \in 1..Len(y) /\ d = Len(w)
<1>1. Len(w) \in Nat /\ Len(y) \in Nat
    OBVIOUS
<1>2. PICK B : B = {c \in Nat : c # 0 /\ (c > Len(w) \/ c > Len(y) \/ w[c] # y[c])}
    OBVIOUS
<1>3. Len(w) + 1 \in B /\ B \in SUBSET Nat
    BY <1>1, <1>2
<1>4. Min(B) \in B /\ \A x \in B : Min(B) <= x
    BY <1>3, Lowest
<1>5. PICK m \in Nat : m = Min(B) /\ m # 0 /\ m \in B
    BY <1>2, <1>4
<1>6. PICK d \in Nat : d + 1 = m
    <2>1. m - 1 \in Nat /\ (m - 1) + 1 = m
        BY <1>5
    <2> QED BY <2>1
<1>7. ASSUME NEW j \in Nat, j # 0, j <= d PROVE j <= Len(w) /\ j <= Len(y) /\ w[j] = y[j]
    <2>1. j \notin B
        <3>1. ~(m <= j)
            BY <1>6, <1>7
        <3> QED BY <1>4, <1>5, <3>1
    <2> QED BY <1>1, <1>2, <1>7, <2>1
<1>8. d <= Len(w) /\ d <= Len(y)
    <2>1. CASE d = 0
        BY <1>1, <2>1
    <2>2. CASE d # 0
        BY <1>7, <2>2
    <2> QED BY <2>1, <2>2
<1>9. \A j \in 1..d : w[j] = y[j]
    BY <1>7
<1>10. AgreeTo(w, y, d)
    BY <1>8, <1>9, Zenon DEF AgreeTo
<1>11. m > Len(w) \/ m > Len(y) \/ w[m] # y[m]
    BY <1>2, <1>5
<1>12. ~(d = Len(w) /\ d = Len(y))
    <2>1. SUFFICES ASSUME d = Len(w), d = Len(y) PROVE FALSE
        OBVIOUS
    <2> QED BY <1>9, <2>1, Same
<1> QED BY <1>1, <1>6, <1>8, <1>10, <1>11, <1>12

PlainWalked(g, v, u, w, y, e, h) ==
    /\ w = y => g[<<v + 1, u + 1>>] = g[<<e, h>>]
    /\ w # y => g[<<v + 1, u + 1>>] = FALSE

LEMMA PlainMet ==
    ASSUME NEW s, NEW t, NEW g, NEW w, NEW v, NEW e, NEW last \in BOOLEAN, NEW y, NEW u, NEW h,
           NEW end \in BOOLEAN, Levels2(s, t, g, w, v, e, last, y, u, h, end), Plain(w),
           NEW S, w \in Seq(S), y \in Seq(S)
    PROVE  PlainWalked(g, v, u, w, y, e, h)
<1>1. Walks(s, t, g) /\ LevelAt(s, w, v, e, last) /\ LevelAt(t, y, u, h, end)
    BY Zenon DEF Levels2
<1>2. /\ v \in Nat /\ e \in Nat /\ Len(w) \in Nat /\ Len(s) \in Nat /\ e = v + 1 + Len(w)
      /\ \A c \in 1..Len(w) : v + c <= Len(s) /\ s[v + c] = w[c] /\ w[c] # "/"
      /\ last => e = Len(s) + 1
      /\ ~last => e <= Len(s) /\ s[e] = "/"
    BY <1>1, LevelParts
<1>3. /\ u \in Nat /\ h \in Nat /\ Len(y) \in Nat /\ Len(t) \in Nat /\ h = u + 1 + Len(y)
      /\ \A c \in 1..Len(y) : u + c <= Len(t) /\ t[u + c] = y[c] /\ y[c] # "/"
      /\ end => h = Len(t) + 1
      /\ ~end => h <= Len(t) /\ t[h] = "/"
    BY <1>1, LevelParts
<1>4. CASE w = y
    <2>1. PICK d \in Nat : d = Len(w)
        BY <1>2
    <2>2. AgreeTo(w, y, d)
        BY <1>2, <1>4, <2>1 DEF AgreeTo
    <2>3. g[<<v + 1, u + 1>>] = g[<<v + (d + 1), u + (d + 1)>>]
        BY <2>2, PrefixMet
    <2>4. v + (d + 1) = e /\ u + (d + 1) = h
        <3>1. PICK k \in Nat : k = Len(y)
            BY <1>3
        <3>2. d = k /\ e = v + 1 + d /\ h = u + 1 + d
            BY <1>2, <1>3, <1>4, <2>1, <3>1
        <3>3. v + 1 + d = v + (d + 1) /\ u + 1 + d = u + (d + 1)
            BY <1>2, <1>3
        <3> QED BY <3>2, <3>3
    <2> QED BY <1>4, <2>3, <2>4, Zenon DEF PlainWalked
<1>5. CASE w # y
    <2>1. PICK d \in Nat : /\ AgreeTo(w, y, d)
                           /\ \/ d + 1 \in 1..Len(w) /\ d + 1 \in 1..Len(y) /\ w[d + 1] # y[d + 1]
                              \/ d + 1 \in 1..Len(w) /\ d = Len(y)
                              \/ d + 1 \in 1..Len(y) /\ d = Len(w)
        BY <1>5, FirstDifference, Zenon
    <2>2. g[<<v + 1, u + 1>>] = g[<<v + (d + 1), u + (d + 1)>>]
        BY <2>1, PrefixMet
    <2>3. PICK c, f, n \in Nat : c = d + 1 /\ f = v + (d + 1) /\ n = u + (d + 1)
        BY <1>2, <1>3
    <2>4. f = v + c /\ n = u + c
        BY <2>3
    <2>5. /\ c \in 1..Len(w) => f <= Len(s) /\ s[f] = w[c] /\ w[c] # "/"
          /\ c \in 1..Len(y) => n <= Len(t) /\ t[n] = y[c] /\ y[c] # "/"
        BY <1>2, <1>3, <2>4
    <2>6. c \in 1..Len(w) => w[c] \notin {"+", "#"}
        BY DEF Plain
    <2>7. CASE c \in 1..Len(w) /\ c \in 1..Len(y) /\ w[c] # y[c]
        <3>1. Mqtt!Stops(w[c], y[c]) /\ s[f] = w[c] /\ t[n] = y[c] /\ f <= Len(s)
            BY <2>5, <2>6, <2>7 DEF Mqtt!Stops
        <3>2. StopsAt(s, t, f, n)
            BY <3>1, Zenon DEF StopsAt
        <3>3. g[<<f, n>>] = FALSE
            <4>1. Walks(s, t, g) /\ f \in Nat /\ n \in Nat /\ Len(s) \in Nat /\ Len(t) \in Nat
                BY <1>1, <1>2, <1>3, <2>3
            <4>2. f <= Len(s) \/ n <= Len(t)
                BY <3>1
            <4> QED BY <3>2, <4>1, <4>2, WalkFails, ZenonT(60)
        <3> QED BY <1>5, <2>2, <2>3, <3>3, Zenon DEF PlainWalked
    <2>8. CASE c \in 1..Len(w) /\ d = Len(y)
        <3>1. n = h
            BY <1>3, <2>3, <2>8
        <3>2. f <= Len(s) /\ s[f] # "/"
            BY <2>5, <2>8
        <3>3. g[<<f, h>>] = FALSE
            <4>1. Walks(s, t, g) /\ f \in Nat /\ Len(s) \in Nat /\ LevelAt(t, y, u, h, end)
                BY <1>1, <1>2, <2>3
            <4> QED BY <3>2, <4>1, EmptyMet
        <3> QED BY <1>5, <2>2, <2>3, <3>1, <3>3, Zenon DEF PlainWalked
    <2>9. CASE c \in 1..Len(y) /\ d = Len(w)
        <3>1. f = e
            BY <1>2, <2>3, <2>9
        <3>2. n <= Len(t) /\ t[n] # "/"
            BY <2>5, <2>9
        <3>3. f > Len(s) \/ Mqtt!Stops(s[f], t[n])
            <4>1. CASE last
                BY <1>2, <3>1, <4>1
            <4>2. CASE ~last
                <5>1. s[f] = "/"
                    BY <1>2, <3>1, <4>2
                <5> QED BY <3>2, <5>1 DEF Mqtt!Stops
            <4> QED BY <4>1, <4>2
        <3>4. StopsAt(s, t, f, n)
            BY <3>3, Zenon DEF StopsAt
        <3>5. g[<<f, n>>] = FALSE
            <4>1. Walks(s, t, g) /\ f \in Nat /\ n \in Nat /\ Len(s) \in Nat /\ Len(t) \in Nat
                BY <1>1, <1>2, <1>3, <2>3
            <4>2. f <= Len(s) \/ n <= Len(t)
                BY <3>2
            <4> QED BY <3>4, <4>1, <4>2, WalkFails, ZenonT(60)
        <3> QED BY <1>5, <2>2, <2>3, <3>5, Zenon DEF PlainWalked
    <2> QED BY <2>1, <2>3, <2>7, <2>8, <2>9, Zenon
<1> QED BY <1>4, <1>5, Zenon DEF PlainWalked
\* The characters of the levels; those of a filter may be wildcards as well.
Characters(S) == "/" \notin S /\ "+" \notin S /\ "#" \notin S
Wild(S) == S \cup {"+", "#"}

IsName(S, n) == Levelled(S, n)
IsFilter(S, f) ==
    /\ Levelled(Wild(S), f)
    /\ \A i \in 1..Len(f) : f[i] \in Seq(S) \/ f[i] = <<"+">> \/ (f[i] = <<"#">> /\ i = Len(f))

\* A level of the filter and one of the name.
LevelFits(w, y) == w = y \/ (w = <<"+">> /\ y # <<>>)

\* T holds the levels from which the walk succeeds.
LevelStep(f, n, T, i) ==
    /\ f[i] = <<"#">> => (i \in T <=> n[i] # <<>>)
    /\ f[i] # <<"#">> => (i \in T <=> /\ LevelFits(f[i], n[i])
                                      /\ \/ i = Len(f) /\ i = Len(n)
                                         \/ i # Len(f) /\ i # Len(n) /\ i + 1 \in T)

LEMMA AfterLevel ==
    ASSUME NEW s, NEW t, NEW g, NEW w, NEW v, NEW e, NEW last \in BOOLEAN, NEW y, NEW u, NEW h,
           NEW end \in BOOLEAN, Levels2(s, t, g, w, v, e, last, y, u, h, end),
           NEW S, Characters(S), y \in Seq(S), w \in Seq(S) \/ w = <<"+">>
    PROVE  /\ ~LevelFits(w, y) => ~g[<<v + 1, u + 1>>]
           /\ LevelFits(w, y) => g[<<v + 1, u + 1>>] = g[<<e, h>>]
<1>1. CASE w \in Seq(S)
    <2>1. Plain(w)
        BY <1>1 DEF Plain, Characters
    <2>2. /\ w = y => g[<<v + 1, u + 1>>] = g[<<e, h>>]
          /\ w # y => g[<<v + 1, u + 1>>] = FALSE
        <3>1. PlainWalked(g, v, u, w, y, e, h)
            BY <1>1, <2>1, PlainMet
        <3> QED BY <3>1, Zenon DEF PlainWalked
    <2>3. w # <<"+">>
        <3>1. SUFFICES ASSUME w = <<"+">> PROVE FALSE
            OBVIOUS
        <3>2. Len(w) = 1 /\ w[1] = "+"
            BY <3>1
        <3> QED BY <1>1, <3>2 DEF Characters
    <2> QED BY <2>2, <2>3, Zenon DEF LevelFits
<1>2. CASE w = <<"+">>
    <2>1. Levels2(s, t, g, <<"+">>, v, e, last, y, u, h, end)
        BY <1>2, Zenon
    <2>2. /\ Len(y) = 0 => g[<<v + 1, u + 1>>] = FALSE
          /\ Len(y) # 0 => g[<<v + 1, u + 1>>] = g[<<e, h>>]
        <3>1. PlusWalked(g, v, u, y, e, h)
            BY <2>1, PlusMet
        <3> QED BY <3>1, Zenon DEF PlusWalked
    <2>3. Len(y) = 0 <=> y = <<>>
        OBVIOUS
    <2>4. <<"+">> # <<>>
        OBVIOUS
    <2> QED BY <1>2, <2>2, <2>3, <2>4, Zenon DEF LevelFits
<1> QED BY <1>1, <1>2

LEMMA LevelStepIs ==
    ASSUME NEW S, Characters(S), NEW f, IsFilter(S, f), NEW n, IsName(S, n),
           NEW p, Placed(Wild(S), f, p), NEW q, Placed(S, n, q),
           NEW g, Walks(Topic(f), Topic(n), g),
           NEW T, T = {i \in Nat : i # 0 /\ g[<<p[i - 1] + 1, q[i - 1] + 1>>]},
           NEW i \in Nat, i # 0, i <= Len(f), i <= Len(n)
    PROVE  LevelStep(f, n, T, i)
<1>1. /\ "/" \notin Wild(S) /\ "/" \notin S /\ Levelled(Wild(S), f) /\ Levelled(S, n)
      /\ Len(f) \in Nat /\ Len(n) \in Nat
    BY DEF Characters, Wild, IsFilter, IsName, Levelled
<1>2. i \in 1..Len(f) /\ i \in 1..Len(n)
    BY <1>1
<1>3. PICK s, t, w, y, v, e, u, h :
          /\ s = Topic(f) /\ t = Topic(n) /\ w = f[i] /\ y = n[i]
          /\ v = p[i - 1] /\ e = p[i] /\ u = q[i - 1] /\ h = q[i]
    OBVIOUS
<1>4. PICK last \in BOOLEAN, end \in BOOLEAN : (last = (i = Len(f))) /\ (end = (i = Len(n)))
    OBVIOUS
<1>5. LevelAt(s, w, v, e, last)
    <2>1. LevelAt(Topic(f), f[i], p[i - 1], p[i], i = Len(f))
        BY <1>1, <1>2, LevelIs, Zenon
    <2> QED BY <1>3, <1>4, <2>1, Zenon
<1>6. LevelAt(t, y, u, h, end)
    <2>1. LevelAt(Topic(n), n[i], q[i - 1], q[i], i = Len(n))
        BY <1>1, <1>2, LevelIs, Zenon
    <2> QED BY <1>3, <1>4, <2>1, Zenon
<1>7. Levels2(s, t, g, w, v, e, last, y, u, h, end)
    BY <1>3, <1>5, <1>6, Zenon DEF Levels2
<1>8. i \in T <=> g[<<v + 1, u + 1>>]
    BY <1>3, Zenon
<1>9. y \in Seq(S)
    BY <1>1, <1>2, <1>3 DEF Levelled
<1>10. /\ last /\ end => g[<<e, h>>] = TRUE
       /\ ~(last <=> end) => g[<<e, h>>] = FALSE
       /\ ~last /\ ~end => g[<<e, h>>] = g[<<e + 1, h + 1>>]
    <2>1. EndWalked(g, e, h, last, end)
        BY <1>4, <1>7, EndMet
    <2> QED BY <2>1, Zenon DEF EndWalked
<1>11. i + 1 \in T <=> g[<<e + 1, h + 1>>]
    <2>1. i + 1 \in Nat /\ i + 1 # 0 /\ (i + 1) - 1 = i
        OBVIOUS
    <2>2. i + 1 \in T <=> g[<<p[(i + 1) - 1] + 1, q[(i + 1) - 1] + 1>>]
        BY <2>1, Zenon
    <2> QED BY <1>3, <2>1, <2>2, Zenon
<1>12. CASE w = <<"#">>
    <2>1. w \notin Seq(S) /\ w # <<"+">>
        <3>1. Len(w) = 1 /\ w[1] = "#"
            BY <1>12
        <3>2. ~(w \in Seq(S))
            BY <3>1 DEF Characters
        <3>3. w # <<"+">>
            BY <3>1
        <3> QED BY <3>2, <3>3
    <2>2. last = TRUE
        BY <1>2, <1>3, <1>4, <2>1 DEF IsFilter
    <2>3. Levels2(s, t, g, <<"#">>, v, e, TRUE, y, u, h, end)
        BY <1>7, <1>12, <2>2, Zenon
    <2>4. /\ Len(y) = 0 => g[<<v + 1, u + 1>>] = FALSE
          /\ Len(y) # 0 => g[<<v + 1, u + 1>>] = TRUE
        <3>1. HashWalked(g, v, u, y)
            BY <1>4, <2>3, HashMet
        <3> QED BY <3>1, Zenon DEF HashWalked
    <2>5. Len(y) = 0 <=> y = <<>>
        BY <1>9
    <2>6. i \in T <=> y # <<>>
        BY <1>8, <2>4, <2>5, Zenon
    <2> QED BY <1>3, <1>12, <2>6, Zenon DEF LevelStep
<1>13. CASE w # <<"#">>
    <2>1. w \in Seq(S) \/ w = <<"+">>
        BY <1>2, <1>3, <1>13 DEF IsFilter
    <2>2. /\ ~LevelFits(w, y) => ~g[<<v + 1, u + 1>>]
          /\ LevelFits(w, y) => g[<<v + 1, u + 1>>] = g[<<e, h>>]
        BY <1>7, <1>9, <2>1, AfterLevel
    <2>3. i \in T <=> /\ LevelFits(w, y)
                      /\ \/ i = Len(f) /\ i = Len(n)
                         \/ i # Len(f) /\ i # Len(n) /\ i + 1 \in T
        BY <1>4, <1>8, <1>10, <1>11, <2>2, Zenon
    <2> QED BY <1>3, <1>13, <2>3, Zenon DEF LevelStep
<1> QED BY <1>12, <1>13

\* What is left to be matched from level i on.
RestMatches(f, n, i) ==
    /\ f[Len(f)] = <<"#">> => Len(n) >= Len(f) - 1
    /\ f[Len(f)] # <<"#">> => Len(n) = Len(f)
    /\ \A j \in Nat : /\ i <= j /\ j <= Len(f) /\ (f[Len(f)] = <<"#">> => j # Len(f))
                      => f[j] = <<"+">> \/ f[j] = n[j]

\* No level of the name is empty, and it has as many as the filter.
Ample(f, n) == Len(n) >= Len(f) /\ \A j \in Nat : j # 0 /\ j <= Len(n) => n[j] # <<>>

LEMMA StepMatches ==
    ASSUME NEW f, NEW n, NEW T, NEW i \in Nat, i # 0, i <= Len(f), i <= Len(n),
           Len(f) \in Nat, Len(n) \in Nat, LevelStep(f, n, T, i), f[i] = <<"#">> => i = Len(f),
           i # Len(f) /\ i # Len(n) /\ i + 1 \in T => RestMatches(f, n, i + 1), i \in T
    PROVE  RestMatches(f, n, i)
<1>1. CASE f[i] = <<"#">>
    <2>1. i = Len(f)
        BY <1>1
    <2>2. f[Len(f)] = <<"#">> /\ Len(n) >= Len(f) - 1
        BY <1>1, <2>1
    <2>3. \A j \in Nat : i <= j /\ j <= Len(f) => j = Len(f)
        BY <2>1
    <2> QED BY <2>2, <2>3, Zenon DEF RestMatches
<1>2. CASE f[i] # <<"#">> /\ i = Len(f)
    <2>1. LevelFits(f[i], n[i]) /\ Len(n) = Len(f)
        BY <1>2, Zenon DEF LevelStep
    <2>2. \A j \in Nat : i <= j /\ j <= Len(f) => j = i
        BY <1>2
    <2>3. f[Len(f)] # <<"#">>
        BY <1>2
    <2> QED BY <2>1, <2>2, <2>3, Zenon DEF RestMatches, LevelFits
<1>3. CASE f[i] # <<"#">> /\ i # Len(f)
    <2>1. LevelFits(f[i], n[i]) /\ i # Len(n) /\ i + 1 \in T
        BY <1>3, Zenon DEF LevelStep
    <2>2. RestMatches(f, n, i + 1)
        BY <1>3, <2>1, Zenon
    <2>3. \A j \in Nat : i <= j => j = i \/ i + 1 <= j
        OBVIOUS
    <2> QED BY <2>1, <2>2, <2>3, Zenon DEF RestMatches, LevelFits
<1> QED BY <1>1, <1>2, <1>3

LEMMA MatchesStep ==
    ASSUME NEW f, NEW n, NEW T, NEW i \in Nat, i # 0, i <= Len(f), i <= Len(n),
           Len(f) \in Nat, Len(n) \in Nat, LevelStep(f, n, T, i), Ample(f, n),
           i # Len(f) /\ i # Len(n) /\ RestMatches(f, n, i + 1) => i + 1 \in T, RestMatches(f, n, i)
    PROVE  i \in T
<1>1. n[i] # <<>> /\ Len(n) >= Len(f)
    BY Zenon DEF Ample
<1>2. CASE f[i] = <<"#">>
    BY <1>1, <1>2, Zenon DEF LevelStep
<1>3. CASE f[i] # <<"#">>
    <2>1. i <= i /\ (f[Len(f)] = <<"#">> => i # Len(f))
        BY <1>3
    <2>2. f[i] = <<"+">> \/ f[i] = n[i]
        BY <2>1, Zenon DEF RestMatches
    <2>3. LevelFits(f[i], n[i])
        BY <1>1, <2>2, Zenon DEF LevelFits
    <2>4. CASE i = Len(f)
        <3>1. f[Len(f)] # <<"#">>
            BY <1>3, <2>4
        <3>2. Len(n) = Len(f)
            BY <3>1, Zenon DEF RestMatches
        <3> QED BY <1>3, <2>3, <2>4, <3>2, Zenon DEF LevelStep
    <2>5. CASE i # Len(f)
        <3>1. i # Len(n)
            BY <1>1, <2>5
        <3>2. \A j \in Nat : i + 1 <= j => i <= j
            OBVIOUS
        <3>3. RestMatches(f, n, i + 1)
            BY <3>2, Zenon DEF RestMatches
        <3>4. i + 1 \in T
            BY <2>5, <3>1, <3>3, Zenon
        <3> QED BY <1>3, <2>3, <2>5, <3>1, <3>4, Zenon DEF LevelStep
    <2> QED BY <2>4, <2>5
<1> QED BY <1>2, <1>3

LEMMA WalkMatches ==
    ASSUME NEW f, NEW n, NEW T, Len(f) \in Nat, Len(n) \in Nat, Len(f) # 0, Len(n) # 0,
           \A i \in Nat : i # 0 /\ i <= Len(f) /\ i <= Len(n)
              => LevelStep(f, n, T, i) /\ (f[i] = <<"#">> => i = Len(f))
    PROVE  /\ 1 \in T => RestMatches(f, n, 1)
           /\ Ample(f, n) /\ RestMatches(f, n, 1) => 1 \in T
<1> DEFINE From(i) == /\ i \in T => RestMatches(f, n, i)
                      /\ Ample(f, n) /\ RestMatches(f, n, i) => i \in T
           Good == {d \in Nat : \A i \in Nat : /\ i # 0 /\ i <= Len(f) /\ i <= Len(n) /\ Len(f) <= i + d
                                               => From(i)}
<1>1. ASSUME NEW i \in Nat, i # 0, i <= Len(f), i <= Len(n), i # Len(f) /\ i # Len(n) => From(i + 1)
      PROVE  From(i)
    <2>1. LevelStep(f, n, T, i) /\ (f[i] = <<"#">> => i = Len(f))
        BY <1>1
    <2>2. ASSUME i \in T PROVE RestMatches(f, n, i)
        BY <1>1, <2>1, <2>2, StepMatches, Zenon
    <2>3. ASSUME Ample(f, n), RestMatches(f, n, i) PROVE i \in T
        BY <1>1, <2>1, <2>3, MatchesStep, Zenon
    <2> QED BY <2>2, <2>3
<1>2. 0 \in Good
    <2>1. ASSUME NEW i \in Nat, i # 0, i <= Len(f), i <= Len(n), Len(f) <= i + 0 PROVE From(i)
        <3>1. i = Len(f)
            BY <2>1
        <3> HIDE DEF From
        <3> QED BY <1>1, <2>1, <3>1
    <2> HIDE DEF From
    <2> QED BY <2>1
<1>3. ASSUME NEW d \in Nat, d \in Good PROVE d + 1 \in Good
    <2>1. ASSUME NEW i \in Nat, i # 0, i <= Len(f), i <= Len(n), Len(f) <= i + (d + 1) PROVE From(i)
        <3>1. ASSUME i # Len(f), i # Len(n) PROVE From(i + 1)
            <4>1. i + 1 \in Nat /\ i + 1 # 0 /\ i + 1 <= Len(f) /\ i + 1 <= Len(n) /\ Len(f) <= (i + 1) + d
                BY <2>1, <3>1
            <4> HIDE DEF From
            <4> QED BY <1>3, <4>1
        <3> HIDE DEF From
        <3> QED BY <1>1, <2>1, <3>1
    <2> HIDE DEF From
    <2> QED BY <2>1
<1>4. \A d \in Nat : d \in Good
    <2> HIDE DEF Good
    <2> QED BY <1>2, <1>3, Induction
<1>5. Len(f) \in Good /\ 1 \in Nat /\ 1 <= Len(f) /\ 1 <= Len(n) /\ Len(f) <= 1 + Len(f)
    BY <1>4
<1>6. From(1)
    <2> HIDE DEF From
    <2> QED BY <1>5
<1> QED BY <1>6
LEMMA SelfMatched ==
    ASSUME NEW S, Characters(S), NEW t \in Seq(TopicText(S))
    PROVE  Mqtt!IsTopicMatched(t, t)
<1>1. PICK m \in Nat : m = Len(t)
    OBVIOUS
<1>2. PICK g : Walks(t, t, g)
    BY <1>1, WalkIs
<1> DEFINE Good == {d \in Nat : d <= m => g[<<1, 1>>] = g[<<d + 1, d + 1>>]}
<1>3. 0 \in Good
    OBVIOUS
<1>4. ASSUME NEW d \in Nat, d \in Good PROVE d + 1 \in Good
    <2>1. SUFFICES ASSUME d + 1 <= m PROVE g[<<1, 1>>] = g[<<(d + 1) + 1, (d + 1) + 1>>]
        OBVIOUS
    <2>2. PICK c, a \in Nat : c = d + 1 /\ a = (d + 1) + 1
        OBVIOUS
    <2>3. c \in 1..Len(t) /\ c + 1 = a /\ 1 + c = a /\ d <= m /\ ~(c > Len(t))
        BY <1>1, <2>1, <2>2
    <2>4. t[c] \notin {"+", "#"}
        <3>1. t[c] \in TopicText(S)
            BY <2>3
        <3> QED BY <3>1 DEF Characters, TopicText, Separator
    <2>5. ~Mqtt!Stops(t[c], t[c]) /\ Mqtt!LastTaken(t[c], t, c) = c
        BY <2>4 DEF Mqtt!Stops, Mqtt!LastTaken
    <2>6. ~StopsAt(t, t, c, c)
        BY <2>3, <2>5, Zenon DEF StopsAt
    <2>7. GoesTo(t, t, c, c, a, a)
        BY <2>2, <2>3, <2>5, <2>6, Zenon DEF GoesTo
    <2>8. g[<<c, c>>] = g[<<a, a>>]
        BY <1>2, <2>7, WalkGoes
    <2>9. g[<<1, 1>>] = g[<<d + 1, d + 1>>]
        BY <1>4, <2>3
    <2> QED BY <2>2, <2>8, <2>9, Zenon
<1>5. \A d \in Nat : d \in Good
    <2> HIDE DEF Good
    <2> QED BY <1>3, <1>4, Induction
<1>6. PICK b \in Nat : b = m + 1
    OBVIOUS
<1>7. g[<<1, 1>>] = g[<<b, b>>]
    <2>1. m \in Good /\ m <= m
        BY <1>5
    <2> QED BY <1>6, <2>1
<1>8. Len(t) \in Nat /\ b = Len(t) + 1
    BY <1>1, <1>6
<1>9. g[<<b, b>>] = TRUE
    BY <1>2, <1>8, WalkSucceeds
<1>10. Mqtt!IsTopicMatched(t, t) = g[<<1, 1>>]
    BY <1>2, Zenon DEF Walks
<1> QED BY <1>7, <1>9, <1>10, Zenon

LEMMA MatchedLevels ==
    ASSUME NEW S, Characters(S), NEW f, IsFilter(S, f), NEW n, IsName(S, n)
    PROVE  /\ Mqtt!IsTopicMatched(Topic(f), Topic(n)) => RestMatches(f, n, 1)
           /\ Ample(f, n) /\ RestMatches(f, n, 1) => Mqtt!IsTopicMatched(Topic(f), Topic(n))
<1>1. Levelled(Wild(S), f) /\ Levelled(S, n)
    BY Zenon DEF IsFilter, IsName
<1>2. PICK p : Placed(Wild(S), f, p)
    BY <1>1, LevelsPlaced
<1>3. PICK q : Placed(S, n, q)
    BY <1>1, LevelsPlaced
<1>4. PICK s, t : s = Topic(f) /\ t = Topic(n)
    OBVIOUS
<1>5. Len(s) \in Nat /\ Len(t) \in Nat
    <2>1. s \in Seq(TopicText(Wild(S))) /\ t \in Seq(TopicText(S))
        BY <1>2, <1>3, <1>4, Zenon DEF Placed
    <2> QED BY <2>1
<1>6. PICK g : Walks(s, t, g)
    BY <1>5, WalkIs
<1>7. PICK T : T = {i \in Nat : i # 0 /\ g[<<p[i - 1] + 1, q[i - 1] + 1>>]}
    OBVIOUS
<1>8. Len(f) \in Nat /\ Len(n) \in Nat /\ Len(f) # 0 /\ Len(n) # 0
    BY <1>1 DEF Levelled
<1>9. ASSUME NEW i \in Nat, i # 0, i <= Len(f), i <= Len(n)
      PROVE  LevelStep(f, n, T, i) /\ (f[i] = <<"#">> => i = Len(f))
    <2>1. Walks(Topic(f), Topic(n), g)
        BY <1>4, <1>6, Zenon
    <2>2. LevelStep(f, n, T, i)
        BY <1>2, <1>3, <1>7, <1>9, <2>1, LevelStepIs
    <2>3. i \in 1..Len(f)
        BY <1>8, <1>9
    <2>4. ASSUME f[i] = <<"#">> PROVE i = Len(f)
        <3>1. f[i] \notin Seq(S)
            <4>1. Len(f[i]) = 1 /\ f[i][1] = "#"
                BY <2>4
            <4> QED BY <4>1 DEF Characters
        <3>2. f[i] # <<"+">>
            BY <2>4
        <3> QED BY <2>3, <3>1, <3>2, Zenon DEF IsFilter
    <2> QED BY <2>2, <2>4
<1>10. /\ 1 \in T => RestMatches(f, n, 1)
       /\ Ample(f, n) /\ RestMatches(f, n, 1) => 1 \in T
    BY <1>8, <1>9, WalkMatches
<1>11. 1 \in T <=> g[<<1, 1>>]
    <2>1. p[1 - 1] + 1 = 1 /\ q[1 - 1] + 1 = 1
        <3>1. p[0] = 0 /\ q[0] = 0
            BY <1>2, <1>3, Zenon DEF Placed
        <3> QED BY <3>1
    <2>2. 1 \in T <=> g[<<p[1 - 1] + 1, q[1 - 1] + 1>>]
        <3>1. 1 \in Nat /\ 1 # 0
            OBVIOUS
        <3> QED BY <1>7, <3>1, Zenon
    <2> QED BY <2>1, <2>2, Zenon
<1>12. Mqtt!IsTopicMatched(s, t) = g[<<1, 1>>]
    BY <1>6, Zenon DEF Walks
<1> QED BY <1>4, <1>10, <1>11, <1>12, Zenon

LEMMA MatchesIs ==
    ASSUME NEW f, NEW n, Len(f) \in Nat, Len(n) \in Nat, Len(f) # 0
    PROVE  Matches(f, n) <=> RestMatches(f, n, 1)
<1>1. PICK k, m \in Nat : k = Len(f) /\ m = Len(n) /\ k # 0
    OBVIOUS
<1>2. CASE f[k] = <<"#">>
    <2>1. Matches(f, n) <=> m >= k - 1 /\ \A i \in 1..(k - 1) : f[i] \in {<<"+">>, n[i]}
        BY <1>1, <1>2, Zenon DEF Matches
    <2>2. RestMatches(f, n, 1) <=>
              m >= k - 1 /\ \A j \in Nat : 1 <= j /\ j <= k /\ j # k => f[j] = <<"+">> \/ f[j] = n[j]
        BY <1>1, <1>2, Zenon DEF RestMatches
    <2>3. \A j \in Nat : (1 <= j /\ j <= k /\ j # k) <=> j \in 1..(k - 1)
        OBVIOUS
    <2>4. \A j \in 1..(k - 1) : j \in Nat
        OBVIOUS
    <2> QED BY <2>1, <2>2, <2>3, <2>4, Zenon
<1>3. CASE f[k] # <<"#">>
    <2>1. Matches(f, n) <=> m = k /\ \A i \in 1..k : f[i] \in {<<"+">>, n[i]}
        BY <1>1, <1>3, Zenon DEF Matches
    <2>2. RestMatches(f, n, 1) <=>
              m = k /\ \A j \in Nat : 1 <= j /\ j <= k => f[j] = <<"+">> \/ f[j] = n[j]
        BY <1>1, <1>3, Zenon DEF RestMatches
    <2>3. \A j \in Nat : (1 <= j /\ j <= k) <=> j \in 1..k
        OBVIOUS
    <2>4. \A j \in 1..k : j \in Nat
        OBVIOUS
    <2> QED BY <2>1, <2>2, <2>3, <2>4, Zenon
<1> QED BY <1>2, <1>3

\* A message of any name, its levels of any characters, gets to the handler of
\* any filter that matches it and of no other (MQTTClient.h:493-524).
THEOREM FiltersFound ==
    ASSUME NEW S, Characters(S), NEW f, IsFilter(S, f), NEW n, IsName(S, n)
    PROVE  FoundRight(f, n)
<1>1. Levelled(Wild(S), f) /\ Levelled(S, n)
    BY Zenon DEF IsFilter, IsName
<1>2. Len(f) \in Nat /\ Len(n) \in Nat /\ Len(f) # 0 /\ DOMAIN n = 1..Len(n)
    BY <1>1 DEF Levelled
<1>3. Matches(f, n) <=> RestMatches(f, n, 1)
    BY <1>2, MatchesIs
<1>4. /\ Mqtt!IsTopicMatched(Topic(f), Topic(n)) => RestMatches(f, n, 1)
      /\ Ample(f, n) /\ RestMatches(f, n, 1) => Mqtt!IsTopicMatched(Topic(f), Topic(n))
    BY MatchedLevels
<1>5. ASSUME Topic(f) = Topic(n) PROVE Mqtt!IsTopicMatched(Topic(f), Topic(n))
    <2>1. PICK q : Placed(S, n, q)
        BY <1>1, LevelsPlaced
    <2>2. Topic(n) \in Seq(TopicText(S))
        BY <2>1, Zenon DEF Placed
    <2>3. Mqtt!IsTopicMatched(Topic(n), Topic(n))
        BY <2>2, SelfMatched
    <2> QED BY <1>5, <2>3, Zenon
<1>6. Mqtt!Handles(Topic(f), Topic(n)) <=> Mqtt!IsTopicMatched(Topic(f), Topic(n))
    BY <1>5, Zenon DEF Mqtt!Handles
<1>7. ASSUME \A i \in DOMAIN n : n[i] # <<>>, Len(n) >= Len(f) PROVE Ample(f, n)
    <2>1. \A j \in Nat : j # 0 /\ j <= Len(n) => j \in DOMAIN n
        BY <1>2
    <2> QED BY <1>7, <2>1, Zenon DEF Ample
<1> QED BY <1>3, <1>4, <1>6, <1>7, Zenon DEF FoundRight
-----------------------------------------------------------------------------
(* The table of handlers, of any number of slots.                          *)

\* What SetMessageHandler makes of an empty table: a filter has one slot and
\* a handler.
TableKept(t) ==
    /\ \E F, H : t \in [DOMAIN t -> [filter : F, handler : H]]
    /\ \E n \in Nat : n # 0 /\ DOMAIN t = 1..n
    /\ OncePerFilter(t) /\ \A i \in DOMAIN t : t[i].filter # <<>> => t[i].handler # 0

Slot(f, h) == [filter |-> f, handler |-> h]
FiltersOf(t) == {t[i].filter : i \in DOMAIN t} \ {<<>>}

LEMMA TableIs ==
    ASSUME NEW t, TableKept(t)
    PROVE  /\ DOMAIN t \in SUBSET Nat /\ DOMAIN t # {} /\ IsFiniteSet(DOMAIN t) /\ OncePerFilter(t)
           /\ t = [i \in DOMAIN t |-> Slot(t[i].filter, t[i].handler)]
           /\ \A i \in DOMAIN t : t[i].filter # <<>> => t[i].handler # 0
<1>1. PICK n \in Nat : n # 0 /\ DOMAIN t = 1..n
    BY Zenon DEF TableKept
<1>2. DOMAIN t \in SUBSET Nat /\ DOMAIN t # {}
    <2>1. 1 \in 1..n
        BY <1>1
    <2> QED BY <1>1, <2>1
<1>3. IsFiniteSet(DOMAIN t)
    <2>1. IsFiniteSet(1..n)
        BY FS_Interval
    <2> QED BY <1>1, <2>1, Zenon
<1>4. PICK F, H : t \in [DOMAIN t -> [filter : F, handler : H]]
    BY Zenon DEF TableKept
<1>5. \A i \in DOMAIN t : t[i] = Slot(t[i].filter, t[i].handler)
    BY <1>4 DEF Slot
<1>6. t = [i \in DOMAIN t |-> Slot(t[i].filter, t[i].handler)]
    BY <1>4, <1>5
<1> QED BY <1>2, <1>3, <1>6, Zenon DEF TableKept

LEMMA MapIs ==
    ASSUME NEW t, OncePerFilter(t)
    PROVE  /\ DOMAIN AsMap(t) = FiltersOf(t)
           /\ \A i \in DOMAIN t : t[i].filter # <<>> => AsMap(t)[t[i].filter] = t[i].handler
<1>1. DOMAIN AsMap(t) = FiltersOf(t)
    BY DEF AsMap, FiltersOf
<1>2. ASSUME NEW i \in DOMAIN t, t[i].filter # <<>> PROVE AsMap(t)[t[i].filter] = t[i].handler
    <2>1. PICK f : f = t[i].filter
        OBVIOUS
    <2>2. PICK c : c = CHOOSE j \in DOMAIN t : t[j].filter = f
        OBVIOUS
    <2>3. c \in DOMAIN t /\ t[c].filter = f
        BY <2>1, <2>2
    <2>4. c = i
        BY <1>2, <2>1, <2>3, Zenon DEF OncePerFilter
    <2>5. f \in FiltersOf(t)
        BY <1>2, <2>1 DEF FiltersOf
    <2>6. AsMap(t)[f] = t[c].handler
        BY <2>2, <2>5, Zenon DEF AsMap, FiltersOf
    <2> QED BY <2>1, <2>4, <2>6, Zenon
<1> QED BY <1>1, <1>2

Represents(t, D, m) ==
    /\ m = [g \in D |-> m[g]] /\ FiltersOf(t) = D
    /\ \A i \in DOMAIN t : t[i].filter # <<>> => m[t[i].filter] = t[i].handler

LEMMA MapEquals ==
    ASSUME NEW t, OncePerFilter(t), NEW D, NEW m, Represents(t, D, m)
    PROVE  AsMap(t) = m
<1>0. /\ m = [g \in D |-> m[g]] /\ FiltersOf(t) = D
      /\ \A i \in DOMAIN t : t[i].filter # <<>> => m[t[i].filter] = t[i].handler
    BY Zenon DEF Represents
<1>1. /\ DOMAIN AsMap(t) = D
      /\ \A i \in DOMAIN t : t[i].filter # <<>> => AsMap(t)[t[i].filter] = t[i].handler
    BY <1>0, MapIs
<1>2. ASSUME NEW g \in D PROVE AsMap(t)[g] = m[g]
    <2>1. PICK i \in DOMAIN t : t[i].filter = g /\ g # <<>>
        BY <1>0 DEF FiltersOf
    <2> QED BY <1>0, <1>1, <2>1
<1>3. PICK a : a = AsMap(t)
    OBVIOUS
<1>4. a = [g \in DOMAIN a |-> a[g]]
    BY <1>3 DEF AsMap
<1>5. [g \in D |-> a[g]] = [g \in D |-> m[g]]
    BY <1>2, <1>3
<1> QED BY <1>0, <1>1, <1>3, <1>4, <1>5, Zenon

\* One slot gets filter f, or is given up when f is no filter.
Alone(t, i, f) == \A j \in DOMAIN t : j # i => t[j].filter # f \/ f = <<>>
SlotIs(t, u, i, f, h) ==
    /\ TableKept(u) /\ DOMAIN u = DOMAIN t
    /\ u[i].filter = f /\ u[i].handler = h
    /\ \A j \in DOMAIN t : j # i => u[j] = t[j]

LEMMA SlotSet ==
    ASSUME NEW t, TableKept(t), NEW i \in DOMAIN t, NEW f, NEW h, f = <<>> \/ h # 0,
           Alone(t, i, f), NEW u, u = [t EXCEPT ![i] = Slot(f, h)]
    PROVE  SlotIs(t, u, i, f, h)
<1>0. \A j \in DOMAIN t : j # i => t[j].filter # f \/ f = <<>>
    BY Zenon DEF Alone
<1>1. DOMAIN u = DOMAIN t /\ u[i] = Slot(f, h) /\ \A j \in DOMAIN t : j # i => u[j] = t[j]
    <2>1. PICK F, H : t \in [DOMAIN t -> [filter : F, handler : H]]
        BY Zenon DEF TableKept
    <2> QED BY <2>1
<1>2. u[i].filter = f /\ u[i].handler = h
    BY <1>1 DEF Slot
<1>3. \E n \in Nat : n # 0 /\ DOMAIN u = 1..n
    BY <1>1, Zenon DEF TableKept
<1>4. \E F, H : u \in [DOMAIN u -> [filter : F, handler : H]]
    <2>1. PICK F, H : t \in [DOMAIN t -> [filter : F, handler : H]]
        BY Zenon DEF TableKept
    <2>2. PICK F2, H2 : F2 = F \cup {f} /\ H2 = H \cup {h}
        OBVIOUS
    <2>3. Slot(f, h) \in [filter : F2, handler : H2]
        BY <2>2 DEF Slot
    <2>4. ASSUME NEW j \in DOMAIN t PROVE t[j] \in [filter : F2, handler : H2]
        BY <2>1, <2>2
    <2>5. t \in [DOMAIN t -> [filter : F2, handler : H2]]
        BY <2>1, <2>4
    <2>6. u \in [DOMAIN t -> [filter : F2, handler : H2]]
        BY <2>3, <2>5
    <2> QED BY <1>1, <2>6, Zenon
<1>5. OncePerFilter(u)
    <2>1. ASSUME NEW j \in DOMAIN u, NEW k \in DOMAIN u, u[j].filter = u[k].filter, u[j].filter # <<>>
          PROVE  j = k
        <3>1. OncePerFilter(t)
            BY Zenon DEF TableKept
        <3>2. CASE j # i /\ k # i
            BY <1>1, <2>1, <3>1, <3>2, Zenon DEF OncePerFilter
        <3>3. CASE j = i \/ k = i
            BY <1>0, <1>1, <1>2, <2>1, <3>3
        <3> QED BY <3>2, <3>3
    <2> QED BY <2>1, Zenon DEF OncePerFilter
<1>6. ASSUME NEW j \in DOMAIN u, u[j].filter # <<>> PROVE u[j].handler # 0
    <2>1. CASE j = i
        BY <1>2, <1>6, <2>1
    <2>2. CASE j # i
        <3>1. j \in DOMAIN t /\ u[j] = t[j]
            BY <1>1, <2>2
        <3> QED BY <1>6, <3>1, Zenon DEF TableKept
    <2> QED BY <2>1, <2>2
<1>7. TableKept(u)
    BY <1>3, <1>4, <1>5, <1>6, Zenon DEF TableKept
<1> QED BY <1>1, <1>2, <1>7, Zenon DEF SlotIs

PutAt(t, u, i, f, h) ==
    /\ i \in DOMAIN t /\ t[i].filter \in {f, <<>>} /\ \A j \in DOMAIN t : j # i => t[j].filter # f
    /\ u = [t EXCEPT ![i] = Slot(f, h)]

LEMMA PutIs ==
    ASSUME NEW t, TableKept(t), NEW i, NEW f, f # <<>>, NEW h, h # 0, NEW u, PutAt(t, u, i, f, h)
    PROVE  TableKept(u) /\ OncePerFilter(u) /\ AsMap(u) = Subscribed(t, f, h)
<1>0. /\ i \in DOMAIN t /\ t[i].filter \in {f, <<>>} /\ \A j \in DOMAIN t : j # i => t[j].filter # f
      /\ u = [t EXCEPT ![i] = Slot(f, h)]
    BY Zenon DEF PutAt
<1>1. /\ TableKept(u) /\ DOMAIN u = DOMAIN t
      /\ u[i].filter = f /\ u[i].handler = h
      /\ \A j \in DOMAIN t : j # i => u[j] = t[j]
    <2>1. Alone(t, i, f)
        BY <1>0, Zenon DEF Alone
    <2>2. SlotIs(t, u, i, f, h)
        BY <1>0, <2>1, SlotSet
    <2> QED BY <2>2, Zenon DEF SlotIs
<1>2. OncePerFilter(t) /\ OncePerFilter(u)
    BY <1>1, Zenon DEF TableKept
<1>3. /\ DOMAIN AsMap(t) = FiltersOf(t)
      /\ \A j \in DOMAIN t : t[j].filter # <<>> => AsMap(t)[t[j].filter] = t[j].handler
    BY <1>2, MapIs
<1>4. PICK m, D : m = Subscribed(t, f, h) /\ D = FiltersOf(t) \cup {f}
    OBVIOUS
<1>5. m = [g \in D |-> m[g]] /\ \A g \in D : m[g] = IF g = f THEN h ELSE AsMap(t)[g]
    BY <1>3, <1>4 DEF Subscribed
<1>6. FiltersOf(u) = D
    <2>1. ASSUME NEW g, g \in FiltersOf(u) PROVE g \in D
        <3>1. PICK j \in DOMAIN u : u[j].filter = g /\ g # <<>>
            BY <2>1 DEF FiltersOf
        <3>2. CASE j = i
            BY <1>1, <1>4, <3>1, <3>2
        <3>3. CASE j # i
            <4>1. j \in DOMAIN t /\ t[j].filter = g
                BY <1>1, <3>1, <3>3
            <4> QED BY <1>4, <3>1, <4>1 DEF FiltersOf
        <3> QED BY <3>2, <3>3
    <2>2. ASSUME NEW g, g \in D PROVE g \in FiltersOf(u)
        <3>1. CASE g = f
            BY <1>0, <1>1, <3>1 DEF FiltersOf
        <3>2. CASE g # f
            <4>1. g \in FiltersOf(t)
                BY <1>4, <2>2, <3>2
            <4>2. PICK j \in DOMAIN t : t[j].filter = g /\ g # <<>>
                BY <4>1 DEF FiltersOf
            <4>3. j # i
                BY <1>0, <3>2, <4>2
            <4>4. j \in DOMAIN u /\ u[j].filter = g
                BY <1>1, <4>2, <4>3
            <4> QED BY <4>2, <4>4 DEF FiltersOf
        <3> QED BY <3>1, <3>2
    <2> QED BY <2>1, <2>2
<1>7. ASSUME NEW j \in DOMAIN u, u[j].filter # <<>> PROVE m[u[j].filter] = u[j].handler
    <2>1. u[j].filter \in D
        BY <1>6, <1>7 DEF FiltersOf
    <2>2. CASE j = i
        <3>1. m[f] = h
            BY <1>5, <2>1, <2>2, <1>1
        <3> QED BY <1>1, <2>2, <3>1
    <2>3. CASE j # i
        <3>1. j \in DOMAIN t /\ u[j] = t[j] /\ t[j].filter # f
            BY <1>0, <1>1, <2>3
        <3>2. m[t[j].filter] = AsMap(t)[t[j].filter]
            BY <1>5, <2>1, <3>1
        <3> QED BY <1>3, <1>7, <3>1, <3>2
    <2> QED BY <2>2, <2>3
<1>8. AsMap(u) = m
    <2>1. Represents(u, D, m)
        BY <1>5, <1>6, <1>7, Zenon DEF Represents
    <2> QED BY <1>2, <2>1, MapEquals
<1> QED BY <1>1, <1>2, <1>4, <1>8

TakenFrom(t, u, i, f) ==
    i \in DOMAIN t /\ t[i].filter = f /\ u = [t EXCEPT ![i] = Slot(<<>>, 0)]

LEMMA TakeOutIs ==
    ASSUME NEW t, TableKept(t), NEW i, NEW f, f # <<>>, NEW u, TakenFrom(t, u, i, f)
    PROVE  TableKept(u) /\ OncePerFilter(u) /\ AsMap(u) = Withdrawn(t, f)
<1>0. i \in DOMAIN t /\ t[i].filter = f /\ u = [t EXCEPT ![i] = Slot(<<>>, 0)]
    BY Zenon DEF TakenFrom
<1>1. /\ TableKept(u) /\ DOMAIN u = DOMAIN t
      /\ u[i].filter = <<>> /\ u[i].handler = 0
      /\ \A j \in DOMAIN t : j # i => u[j] = t[j]
    <2>1. Alone(t, i, <<>>)
        BY Zenon DEF Alone
    <2>2. SlotIs(t, u, i, <<>>, 0)
        BY <1>0, <2>1, SlotSet
    <2> QED BY <2>2, Zenon DEF SlotIs
<1>2. OncePerFilter(t) /\ OncePerFilter(u)
    BY <1>1, Zenon DEF TableKept
<1>3. /\ DOMAIN AsMap(t) = FiltersOf(t)
      /\ \A j \in DOMAIN t : t[j].filter # <<>> => AsMap(t)[t[j].filter] = t[j].handler
    BY <1>2, MapIs
<1>4. PICK m, D : m = Withdrawn(t, f) /\ D = FiltersOf(t) \ {f}
    OBVIOUS
<1>5. m = [g \in D |-> m[g]] /\ \A g \in D : m[g] = AsMap(t)[g]
    BY <1>3, <1>4 DEF Withdrawn
<1>6. \A j \in DOMAIN t : j # i => t[j].filter # f
    BY <1>0, <1>2, Zenon DEF OncePerFilter
<1>7. FiltersOf(u) = D
    <2>1. ASSUME NEW g, g \in FiltersOf(u) PROVE g \in D
        <3>1. PICK j \in DOMAIN u : u[j].filter = g /\ g # <<>>
            BY <2>1 DEF FiltersOf
        <3>2. j # i
            BY <1>1, <3>1
        <3>3. j \in DOMAIN t /\ t[j].filter = g /\ g # f
            BY <1>1, <1>6, <3>1, <3>2
        <3> QED BY <1>4, <3>1, <3>3 DEF FiltersOf
    <2>2. ASSUME NEW g, g \in D PROVE g \in FiltersOf(u)
        <3>1. g \in FiltersOf(t) /\ g # f
            BY <1>4, <2>2
        <3>2. PICK j \in DOMAIN t : t[j].filter = g /\ g # <<>>
            BY <3>1 DEF FiltersOf
        <3>3. j \in DOMAIN u /\ u[j].filter = g
            BY <1>0, <1>1, <3>1, <3>2
        <3> QED BY <3>2, <3>3 DEF FiltersOf
    <2> QED BY <2>1, <2>2
<1>8. ASSUME NEW j \in DOMAIN u, u[j].filter # <<>> PROVE m[u[j].filter] = u[j].handler
    <2>1. u[j].filter \in D
        BY <1>7, <1>8 DEF FiltersOf
    <2>2. j # i
        BY <1>1, <1>8
    <2>3. j \in DOMAIN t /\ u[j] = t[j]
        BY <1>1, <2>2
    <2>4. m[t[j].filter] = AsMap(t)[t[j].filter]
        BY <1>5, <2>1, <2>3
    <2> QED BY <1>3, <1>8, <2>3, <2>4
<1>9. AsMap(u) = m
    <2>1. Represents(u, D, m)
        BY <1>5, <1>7, <1>8, Zenon DEF Represents
    <2> QED BY <1>2, <2>1, MapEquals
<1> QED BY <1>1, <1>2, <1>4, <1>9
LEMMA WithIs ==
    ASSUME NEW t, TableKept(t), NEW f, Mqtt!With(t, f) # {}
    PROVE  Mqtt!Min(Mqtt!With(t, f)) \in DOMAIN t /\ t[Mqtt!Min(Mqtt!With(t, f))].filter = f
<1>1. DOMAIN t \in SUBSET Nat
    BY TableIs
<1>2. PICK T : T = Mqtt!With(t, f)
    OBVIOUS
<1>3. T \in SUBSET Nat /\ T # {} /\ T = {i \in DOMAIN t : t[i].filter = f}
    BY <1>1, <1>2 DEF Mqtt!With
<1>4. Min(T) \in T
    BY <1>3, Least
<1>5. Mqtt!Min(T) = Min(T)
    BY DEF Mqtt!Min, Min
<1> QED BY <1>2, <1>3, <1>4, <1>5

Added(t, f, h) ==
    /\ Mqtt!AddHandler(t, f, h).ok = TRUE /\ TableKept(Mqtt!AddHandler(t, f, h).table)
    /\ OncePerFilter(Mqtt!AddHandler(t, f, h).table)
    /\ AsMap(Mqtt!AddHandler(t, f, h).table) = Subscribed(t, f, h)

HasPlace(t, f) == Mqtt!With(t, f) # {} \/ Mqtt!With(t, <<>>) # {}

LEMMA AddIs ==
    ASSUME NEW t, TableKept(t), NEW f, f # <<>>, NEW h, h # 0, HasPlace(t, f)
    PROVE  Added(t, f, h)
<1>1. PICK here : here = IF Mqtt!With(t, f) # {} THEN Mqtt!With(t, f) ELSE Mqtt!With(t, <<>>)
    OBVIOUS
<1>2. here # {}
    BY <1>1 DEF HasPlace
<1>3. PICK i : i = Mqtt!Min(here)
    OBVIOUS
<1>4. i \in DOMAIN t /\ t[i].filter \in {f, <<>>} /\ \A j \in DOMAIN t : j # i => t[j].filter # f
    <2>1. CASE Mqtt!With(t, f) # {}
        <3>1. here = Mqtt!With(t, f)
            BY <1>1, <2>1
        <3>2. i \in DOMAIN t /\ t[i].filter = f
            BY <1>3, <2>1, <3>1, WithIs, Zenon
        <3>3. OncePerFilter(t)
            BY Zenon DEF TableKept
        <3>4. \A j \in DOMAIN t : j # i => t[j].filter # f
            BY <3>2, <3>3, Zenon DEF OncePerFilter
        <3> QED BY <3>2, <3>4
    <2>2. CASE Mqtt!With(t, f) = {}
        <3>1. here = Mqtt!With(t, <<>>)
            BY <1>1, <2>2
        <3>2. i \in DOMAIN t /\ t[i].filter = <<>>
            BY <1>2, <1>3, <3>1, WithIs, Zenon
        <3>3. \A j \in DOMAIN t : t[j].filter # f
            BY <2>2 DEF Mqtt!With
        <3> QED BY <3>2, <3>3
    <2> QED BY <2>1, <2>2
<1>5. PICK u : u = [t EXCEPT ![i] = Slot(f, h)]
    OBVIOUS
<1>6. TableKept(u) /\ OncePerFilter(u) /\ AsMap(u) = Subscribed(t, f, h)
    <2>1. PutAt(t, u, i, f, h)
        BY <1>4, <1>5, Zenon DEF PutAt
    <2> QED BY <2>1, PutIs
<1>7. Mqtt!AddHandler(t, f, h) = [ok |-> TRUE, table |-> u]
    BY <1>1, <1>2, <1>3, <1>5, Zenon DEF Mqtt!AddHandler, Mqtt!NoFilter, Slot
<1>8. Mqtt!AddHandler(t, f, h).ok = TRUE /\ Mqtt!AddHandler(t, f, h).table = u
    BY <1>7
<1> QED BY <1>6, <1>8, Zenon DEF Added

LEMMA AddRefused ==
    ASSUME NEW t, NEW f, NEW h, ~HasPlace(t, f)
    PROVE  Mqtt!AddHandler(t, f, h).ok = FALSE
<1>1. Mqtt!With(t, f) = {} /\ Mqtt!With(t, <<>>) = {}
    BY DEF HasPlace
<1>2. Mqtt!AddHandler(t, f, h) = [ok |-> FALSE, table |-> t]
    BY <1>1 DEF Mqtt!AddHandler, Mqtt!NoFilter
<1> QED BY <1>2

Removed(t, f) ==
    /\ TableKept(Mqtt!RemoveHandler(t, f).table) /\ OncePerFilter(Mqtt!RemoveHandler(t, f).table)
    /\ AsMap(Mqtt!RemoveHandler(t, f).table) = Withdrawn(t, f)

LEMMA RemoveIs ==
    ASSUME NEW t, TableKept(t), NEW f, f # <<>>
    PROVE  Removed(t, f)
<1>1. CASE Mqtt!With(t, f) = {}
    <2>1. Mqtt!RemoveHandler(t, f) = [ok |-> FALSE, table |-> t]
        BY <1>1 DEF Mqtt!RemoveHandler
    <2>2. Mqtt!RemoveHandler(t, f).table = t
        BY <2>1
    <2>3. OncePerFilter(t)
        BY Zenon DEF TableKept
    <2>4. DOMAIN AsMap(t) = FiltersOf(t)
        BY <2>3, MapIs
    <2>5. f \notin FiltersOf(t)
        BY <1>1 DEF FiltersOf, Mqtt!With
    <2>6. PICK a : a = AsMap(t)
        OBVIOUS
    <2>7. a = [g \in DOMAIN a |-> a[g]] /\ DOMAIN a \ {f} = DOMAIN a
        BY <2>4, <2>5, <2>6 DEF AsMap
    <2>8. AsMap(t) = Withdrawn(t, f)
        BY <2>6, <2>7, Zenon DEF Withdrawn
    <2> QED BY <2>2, <2>3, <2>8, Zenon DEF Removed
<1>2. CASE Mqtt!With(t, f) # {}
    <2>1. PICK i : i = Mqtt!Min(Mqtt!With(t, f))
        OBVIOUS
    <2>2. i \in DOMAIN t /\ t[i].filter = f
        BY <1>2, <2>1, WithIs, Zenon
    <2>3. PICK u : u = [t EXCEPT ![i] = Slot(<<>>, 0)]
        OBVIOUS
    <2>4. TableKept(u) /\ OncePerFilter(u) /\ AsMap(u) = Withdrawn(t, f)
        <3>1. TakenFrom(t, u, i, f)
            BY <2>2, <2>3, Zenon DEF TakenFrom
        <3> QED BY <3>1, TakeOutIs
    <2>5. Mqtt!RemoveHandler(t, f) = [ok |-> TRUE, table |-> u]
        BY <1>2, <2>1, <2>3, Zenon DEF Mqtt!RemoveHandler, Mqtt!Free, Mqtt!NoFilter, Slot
    <2>6. Mqtt!RemoveHandler(t, f).table = u
        BY <2>5
    <2> QED BY <2>4, <2>6, Zenon DEF Removed
<1> QED BY <1>1, <1>2

LEMMA CleanIs ==
    ASSUME NEW t, TableKept(t), NEW u, u = Mqtt!CleanSession(t)
    PROVE  TableKept(u) /\ DOMAIN AsMap(u) = {} /\ OncePerFilter(u) /\ \A f : HasPlace(u, f)
<1>1. /\ DOMAIN t \in SUBSET Nat /\ DOMAIN t # {}
      /\ t = [i \in DOMAIN t |-> Slot(t[i].filter, t[i].handler)]
    BY TableIs
<1>2. \A i \in DOMAIN t : t[i] = Slot(t[i].filter, t[i].handler)
    BY <1>1
<1>3. ASSUME NEW a, NEW b PROVE [Slot(a, b) EXCEPT !.filter = <<>>] = Slot(<<>>, b)
    BY DEF Slot
<1>4. u = [i \in DOMAIN t |-> Slot(<<>>, t[i].handler)]
    <2>1. ASSUME NEW i \in DOMAIN t PROVE [t[i] EXCEPT !.filter = <<>>] = Slot(<<>>, t[i].handler)
        <3>1. PICK a, b : a = t[i].filter /\ b = t[i].handler
            OBVIOUS
        <3>2. t[i] = Slot(a, b)
            BY <1>2, <3>1, Zenon
        <3>3. [Slot(a, b) EXCEPT !.filter = <<>>] = Slot(<<>>, b)
            BY <1>3
        <3> QED BY <3>1, <3>2, <3>3, Zenon
    <2>2. u = [i \in DOMAIN t |-> [t[i] EXCEPT !.filter = <<>>]]
        BY Zenon DEF Mqtt!CleanSession, Mqtt!NoFilter
    <2> QED BY <2>1, <2>2
<1>5. DOMAIN u = DOMAIN t /\ \A i \in DOMAIN u : u[i].filter = <<>>
    BY <1>4 DEF Slot
<1>6. OncePerFilter(u) /\ \A i \in DOMAIN u : u[i].filter # <<>> => u[i].handler # 0
    BY <1>5, Zenon DEF OncePerFilter
<1>7. \E F, H : u \in [DOMAIN u -> [filter : F, handler : H]]
    <2>1. PICK F, H : F = {<<>>} /\ H = {t[i].handler : i \in DOMAIN t}
        OBVIOUS
    <2>2. \A i \in DOMAIN t : Slot(<<>>, t[i].handler) \in [filter : F, handler : H]
        BY <2>1 DEF Slot
    <2>3. u \in [DOMAIN u -> [filter : F, handler : H]]
        BY <1>4, <2>2
    <2> QED BY <2>3
<1>8. \E n \in Nat : n # 0 /\ DOMAIN u = 1..n
    BY <1>5, Zenon DEF TableKept
<1>9. TableKept(u)
    BY <1>6, <1>7, <1>8, Zenon DEF TableKept
<1>10. DOMAIN AsMap(u) = {}
    BY <1>5 DEF AsMap
<1>11. Mqtt!With(u, <<>>) # {}
    BY <1>1, <1>5 DEF Mqtt!With
<1> QED BY <1>6, <1>9, <1>10, <1>11, Zenon DEF HasPlace

\* A table has a free slot exactly as long as it has fewer filters than slots.
LEMMA RoomIs ==
    ASSUME NEW t, TableKept(t), NEW f, f # <<>>
    PROVE  (f \in DOMAIN AsMap(t) \/ Cardinality(DOMAIN AsMap(t)) < Cardinality(DOMAIN t)) <=> HasPlace(t, f)
<1>1. IsFiniteSet(DOMAIN t) /\ OncePerFilter(t)
    BY TableIs
<1>2. DOMAIN AsMap(t) = FiltersOf(t)
    BY <1>1, MapIs
<1>3. PICK U, K, g : /\ U = {i \in DOMAIN t : t[i].filter # <<>>} /\ K = FiltersOf(t)
                     /\ g = [i \in U |-> t[i].filter]
    OBVIOUS
<1>4. U \subseteq DOMAIN t /\ IsFiniteSet(U) /\ Cardinality(U) <= Cardinality(DOMAIN t)
      /\ (Cardinality(U) = Cardinality(DOMAIN t) <=> U = DOMAIN t)
    <2>1. U \subseteq DOMAIN t
        BY <1>3
    <2>2. IsFiniteSet(U) /\ Cardinality(U) <= Cardinality(DOMAIN t)
          /\ (Cardinality(U) = Cardinality(DOMAIN t) => U = DOMAIN t)
        BY <1>1, <2>1, FS_Subset
    <2> QED BY <2>1, <2>2
<1>5. Cardinality(K) = Cardinality(U)
    <2>1. g \in [U -> K]
        BY <1>3 DEF FiltersOf
    <2>2. ASSUME NEW k \in K PROVE \E i \in U : g[i] = k
        <3>1. PICK i \in DOMAIN t : t[i].filter = k /\ k # <<>>
            BY <1>3, <2>2 DEF FiltersOf
        <3> QED BY <1>3, <3>1
    <2>3. g \in Surjection(U, K)
        BY <2>1, <2>2 DEF Surjection
    <2>4. ASSUME NEW i \in U, NEW j \in U, g[i] = g[j] PROVE i = j
        <3>1. i \in DOMAIN t /\ j \in DOMAIN t /\ t[i].filter = t[j].filter /\ t[i].filter # <<>>
            BY <1>3, <2>4
        <3> QED BY <1>1, <3>1, Zenon DEF OncePerFilter
    <2>5. g \in Injection(U, K)
        BY <2>1, <2>4 DEF Injection, IsInjective
    <2> QED BY <1>4, <2>3, <2>5, FS_Surjection
<1>6. f \in DOMAIN AsMap(t) <=> Mqtt!With(t, f) # {}
    BY <1>2 DEF FiltersOf, Mqtt!With
<1>7. U = DOMAIN t <=> Mqtt!With(t, <<>>) = {}
    BY <1>3 DEF Mqtt!With
<1>8. Cardinality(U) \in Nat /\ Cardinality(DOMAIN t) \in Nat
    BY <1>1, <1>4, FS_CardinalityType
<1>9. Cardinality(DOMAIN AsMap(t)) < Cardinality(DOMAIN t) <=> Mqtt!With(t, <<>>) # {}
    BY <1>2, <1>3, <1>4, <1>5, <1>7, <1>8
<1> QED BY <1>6, <1>9, Zenon DEF HasPlace
\* A client, open or closed.
Client(c, t, id) == [connected |-> c, table |-> t, id |-> id]
Open(t, id) == Client(TRUE, t, id)
Shut(t, id) == Client(FALSE, t, id)

LEMMA ClientId ==
    ASSUME NEW c, NEW t, NEW id, NEW x
    PROVE  [Client(c, t, id) EXCEPT !.id = x] = Client(c, t, x)
BY DEF Client

LEMMA ClientTable ==
    ASSUME NEW c, NEW t, NEW id, NEW x
    PROVE  [Client(c, t, id) EXCEPT !.table = x] = Client(c, x, id)
BY DEF Client

LEMMA ClientBegins ==
    ASSUME NEW c, NEW t, NEW id, NEW d
    PROVE  [Client(c, t, id) EXCEPT !.connected = d] = Client(d, t, id)
BY DEF Client

LEMMA OpenIs ==
    ASSUME NEW t, NEW id
    PROVE  Open(t, id).connected = TRUE /\ Open(t, id).table = t /\ Open(t, id).id = id
BY DEF Open, Client

LEMMA ShutIs ==
    ASSUME NEW t, NEW id
    PROVE  Shut(t, id).connected = FALSE /\ Shut(t, id).table = t /\ Shut(t, id).id = id
BY DEF Shut, Client

LEMMA OpenId ==
    ASSUME NEW t, NEW id, NEW x
    PROVE  [Open(t, id) EXCEPT !.id = x] = Open(t, x)
<1>1. PICK c : c = TRUE
    OBVIOUS
<1>2. [Client(c, t, id) EXCEPT !.id = x] = Client(c, t, x)
    BY ClientId
<1> QED BY <1>1, <1>2, Zenon DEF Open

LEMMA OpenTable ==
    ASSUME NEW t, NEW id, NEW x
    PROVE  [Open(t, id) EXCEPT !.table = x] = Open(x, id)
<1>1. PICK c : c = TRUE
    OBVIOUS
<1>2. [Client(c, t, id) EXCEPT !.table = x] = Client(c, x, id)
    BY ClientTable
<1> QED BY <1>1, <1>2, Zenon DEF Open

LEMMA OpenShut ==
    ASSUME NEW t, NEW id, NEW x
    PROVE  [Open(t, id) EXCEPT !.connected = FALSE, !.table = x] = Shut(x, id)
<1>1. PICK b, c0, c1 : b = FALSE /\ c0 = Open(t, id) /\ c1 = Client(b, t, id)
    OBVIOUS
<1>2. [c0 EXCEPT !.connected = b, !.table = x] = [[c0 EXCEPT !.connected = b] EXCEPT !.table = x]
    OBVIOUS
<1>3. [c0 EXCEPT !.connected = b] = c1
    <2>1. PICK c : c = TRUE
        OBVIOUS
    <2>2. [Client(c, t, id) EXCEPT !.connected = b] = Client(b, t, id)
        BY ClientBegins
    <2> QED BY <1>1, <2>1, <2>2, Zenon DEF Open
<1>4. [c1 EXCEPT !.table = x] = Client(b, x, id)
    BY <1>1, ClientTable
<1> QED BY <1>1, <1>2, <1>3, <1>4, Zenon DEF Shut

LEMMA ShutOpen ==
    ASSUME NEW t, NEW id
    PROVE  [Shut(t, id) EXCEPT !.connected = TRUE] = Open(t, id)
<1>1. PICK c, d : c = FALSE /\ d = TRUE
    OBVIOUS
<1>2. [Client(c, t, id) EXCEPT !.connected = d] = Client(d, t, id)
    BY ClientBegins
<1> QED BY <1>1, <1>2, Zenon DEF Open, Shut

LEMMA Closes ==
    ASSUME NEW t, NEW id
    PROVE  Mqtt!CloseSession(Open(t, id)) = Shut(Mqtt!CleanSession(t), id)
<1>1. PICK c, x : c = Open(t, id) /\ x = Mqtt!CleanSession(t)
    OBVIOUS
<1>2. c.table = t
    BY <1>1, OpenIs
<1>3. [c EXCEPT !.connected = FALSE, !.table = x] = Shut(x, id)
    BY <1>1, OpenShut, ZenonT(60)
<1> QED BY <1>1, <1>2, <1>3, Zenon DEF Mqtt!CloseSession

LEMMA Granted ==
    ASSUME NEW t, NEW id, NEW f, NEW h, h # 0, Mqtt!AddHandler(t, f, h).ok
    PROVE  Mqtt!SubscribeTo(Open(t, id), f, h, "granted")
               = Open(Mqtt!AddHandler(t, f, h).table, Mqtt!NextId(id))
<1>1. PICK c, n, a : c = Open(t, id) /\ n = Mqtt!NextId(id) /\ a = Mqtt!AddHandler(t, f, h)
    OBVIOUS
<1>2. c.connected /\ c.table = t /\ c.id = id /\ [c EXCEPT !.id = n] = Open(t, n)
      /\ [Open(t, n) EXCEPT !.table = a.table] = Open(a.table, n)
    <2>1. c.connected /\ c.table = t /\ c.id = id
        BY <1>1, OpenIs
    <2>2. [c EXCEPT !.id = n] = Open(t, n)
        BY <1>1, OpenId
    <2>3. [Open(t, n) EXCEPT !.table = a.table] = Open(a.table, n)
        BY OpenTable
    <2> QED BY <2>1, <2>2, <2>3
<1>3. Mqtt!SetMessageHandler(t, f, h) = a
    BY <1>1 DEF Mqtt!SetMessageHandler
<1>4. a.ok
    BY <1>1
<1>5. "none" # "granted"
    OBVIOUS
<1> QED BY <1>1, <1>2, <1>3, <1>4, <1>5, ZenonT(60) DEF Mqtt!SubscribeTo

LEMMA TurnedAway ==
    ASSUME NEW t, NEW id, NEW f, NEW h, h # 0, ~Mqtt!AddHandler(t, f, h).ok
    PROVE  Mqtt!SubscribeTo(Open(t, id), f, h, "granted") = Shut(Mqtt!CleanSession(t), Mqtt!NextId(id))
<1>1. PICK c, n, a : c = Open(t, id) /\ n = Mqtt!NextId(id) /\ a = Mqtt!AddHandler(t, f, h)
    OBVIOUS
<1>2. c.connected /\ c.table = t /\ c.id = id /\ [c EXCEPT !.id = n] = Open(t, n)
    <2>1. c.connected /\ c.table = t /\ c.id = id
        BY <1>1, OpenIs, ZenonT(60)
    <2>2. [c EXCEPT !.id = n] = Open(t, n)
        BY <1>1, OpenId
    <2> QED BY <2>1, <2>2
<1>3. Mqtt!SetMessageHandler(t, f, h) = a
    BY <1>1 DEF Mqtt!SetMessageHandler
<1>4. ~a.ok
    BY <1>1
<1>5. Mqtt!CloseSession(Open(t, n)) = Shut(Mqtt!CleanSession(t), n)
    BY Closes
<1> QED BY <1>1, <1>2, <1>3, <1>4, <1>5, Zenon DEF Mqtt!SubscribeTo

LEMMA Unanswered ==
    ASSUME NEW t, NEW id, NEW f, NEW h
    PROVE  /\ Mqtt!SubscribeTo(Open(t, id), f, h, "none") = Shut(Mqtt!CleanSession(t), Mqtt!NextId(id))
           /\ Mqtt!UnsubscribeFrom(Open(t, id), f, "none") = Shut(Mqtt!CleanSession(t), Mqtt!NextId(id))
           /\ Mqtt!Disconnect(Open(t, id)) = Shut(Mqtt!CleanSession(t), id)
<1>1. PICK c, n : c = Open(t, id) /\ n = Mqtt!NextId(id)
    OBVIOUS
<1>2. c.connected /\ c.table = t /\ c.id = id /\ [c EXCEPT !.id = n] = Open(t, n)
    <2>1. c.connected /\ c.table = t /\ c.id = id
        BY <1>1, OpenIs, ZenonT(60)
    <2>2. [c EXCEPT !.id = n] = Open(t, n)
        BY <1>1, OpenId
    <2> QED BY <2>1, <2>2
<1>3. Mqtt!CloseSession(Open(t, n)) = Shut(Mqtt!CleanSession(t), n)
    BY Closes
<1>4. Mqtt!SubscribeTo(c, f, h, "none") = Shut(Mqtt!CleanSession(t), n)
    BY <1>1, <1>2, <1>3, Zenon DEF Mqtt!SubscribeTo
<1>5. Mqtt!UnsubscribeFrom(c, f, "none") = Shut(Mqtt!CleanSession(t), n)
    BY <1>1, <1>2, <1>3, Zenon DEF Mqtt!UnsubscribeFrom
<1>6. Mqtt!Disconnect(Open(t, id)) = Shut(Mqtt!CleanSession(t), id)
    BY Closes, Zenon DEF Mqtt!Disconnect
<1> QED BY <1>1, <1>4, <1>5, <1>6, Zenon

LEMMA Denied ==
    ASSUME NEW t, NEW id, NEW f, NEW h
    PROVE  Mqtt!SubscribeTo(Open(t, id), f, h, "denied") = Open(t, Mqtt!NextId(id))
<1>1. PICK c, n : c = Open(t, id) /\ n = Mqtt!NextId(id)
    OBVIOUS
<1>2. c.connected /\ c.table = t /\ c.id = id /\ [c EXCEPT !.id = n] = Open(t, n)
    <2>1. c.connected /\ c.table = t /\ c.id = id
        BY <1>1, OpenIs
    <2>2. [c EXCEPT !.id = n] = Open(t, n)
        BY <1>1, OpenId
    <2> QED BY <2>1, <2>2
<1>3. "denied" # "none" /\ "denied" # "granted"
    OBVIOUS
<1> QED BY <1>1, <1>2, <1>3, Zenon DEF Mqtt!SubscribeTo

LEMMA Acknowledged ==
    ASSUME NEW t, NEW id, NEW f
    PROVE  Mqtt!UnsubscribeFrom(Open(t, id), f, "acknowledged")
               = Open(Mqtt!RemoveHandler(t, f).table, Mqtt!NextId(id))
<1>1. PICK c, n, a : c = Open(t, id) /\ n = Mqtt!NextId(id) /\ a = Mqtt!RemoveHandler(t, f)
    OBVIOUS
<1>2. c.connected /\ c.table = t /\ c.id = id /\ [c EXCEPT !.id = n] = Open(t, n)
      /\ [Open(t, n) EXCEPT !.table = a.table] = Open(a.table, n)
    <2>1. c.connected /\ c.table = t /\ c.id = id
        BY <1>1, OpenIs, ZenonT(60)
    <2>2. [c EXCEPT !.id = n] = Open(t, n)
        BY <1>1, OpenId
    <2>3. [Open(t, n) EXCEPT !.table = a.table] = Open(a.table, n)
        BY OpenTable
    <2> QED BY <2>1, <2>2, <2>3
<1>3. Mqtt!SetMessageHandler(t, f, 0) = a
    BY <1>1 DEF Mqtt!SetMessageHandler
<1>4. "acknowledged" # "none"
    OBVIOUS
<1> QED BY <1>1, <1>2, <1>3, <1>4, Zenon DEF Mqtt!UnsubscribeFrom
LEMMA Reopened ==
    ASSUME NEW t, TableKept(t), NEW f, f # <<>>, NEW h, h # 0, NEW id
    PROVE  StartsAfresh(Shut(Mqtt!CleanSession(t), id), f, h)
<1>1. PICK u, d : u = Mqtt!CleanSession(t) /\ d = Shut(u, id)
    OBVIOUS
<1>2. TableKept(u) /\ DOMAIN AsMap(u) = {} /\ HasPlace(u, f)
    BY <1>1, CleanIs
<1>3. ~d.connected /\ d.table = u
    BY <1>1, ShutIs
<1>4. [d EXCEPT !.connected = TRUE] = Open(u, id)
    BY <1>1, ShutOpen
<1>5. Added(u, f, h)
    BY <1>2, AddIs
<1>6. PICK v : v = Mqtt!AddHandler(u, f, h).table
    OBVIOUS
<1>7. AsMap(v) = Subscribed(u, f, h)
    BY <1>5, <1>6, Zenon DEF Added
<1>8. Mqtt!AddHandler(u, f, h).ok
    BY <1>5 DEF Added
<1>9. Mqtt!SubscribeTo(Open(u, id), f, h, "granted") = Open(v, Mqtt!NextId(id))
    BY <1>6, <1>8, Granted
<1>10. Open(v, Mqtt!NextId(id)).table = v
    BY OpenIs
<1>11. Subscribed(u, f, h) = [g \in {f} |-> h]
    BY <1>2 DEF Subscribed
<1> QED BY <1>1, <1>2, <1>3, <1>4, <1>7, <1>9, <1>10, <1>11, Zenon DEF StartsAfresh

LEMMA RoomTaken ==
    ASSUME NEW t, TableKept(t), NEW f, f # <<>>, NEW h, h # 0, NEW id, NEW added,
           added = Mqtt!SubscribeTo(Open(t, id), f, h, "granted"), HasRoom(t, f)
    PROVE  added.connected = TRUE /\ OncePerFilter(added.table) /\ AsMap(added.table) = Subscribed(t, f, h)
<1>1. HasPlace(t, f)
    BY RoomIs DEF HasRoom
<1>2. Added(t, f, h)
    BY <1>1, AddIs
<1>3. PICK v : v = Mqtt!AddHandler(t, f, h).table
    OBVIOUS
<1>4. AsMap(v) = Subscribed(t, f, h) /\ OncePerFilter(v)
    BY <1>2, <1>3, Zenon DEF Added
<1>5. Mqtt!AddHandler(t, f, h).ok
    BY <1>2 DEF Added
<1>6. Mqtt!SubscribeTo(Open(t, id), f, h, "granted") = Open(v, Mqtt!NextId(id))
    BY <1>3, <1>5, Granted
<1>7. added = Open(v, Mqtt!NextId(id))
    BY <1>6
<1>8. added.connected = TRUE /\ added.table = v
    <2>1. PICK n : n = Mqtt!NextId(id)
        OBVIOUS
    <2>2. Open(v, n).connected = TRUE /\ Open(v, n).table = v
        BY OpenIs
    <2> QED BY <1>7, <2>1, <2>2, Zenon
<1> QED BY <1>4, <1>8, Zenon

LEMMA NoRoomTaken ==
    ASSUME NEW t, TableKept(t), NEW f, f # <<>>, NEW h, h # 0, NEW id, NEW added,
           added = Mqtt!SubscribeTo(Open(t, id), f, h, "granted"), ~HasRoom(t, f)
    PROVE  added.connected = FALSE /\ OncePerFilter(added.table) /\ DOMAIN AsMap(added.table) = {}
<1>1. ~HasPlace(t, f)
    BY RoomIs DEF HasRoom
<1>2. ~Mqtt!AddHandler(t, f, h).ok
    BY <1>1, AddRefused
<1>3. PICK v : v = Mqtt!CleanSession(t)
    OBVIOUS
<1>4. OncePerFilter(v) /\ DOMAIN AsMap(v) = {}
    BY <1>3, CleanIs
<1>5. Mqtt!SubscribeTo(Open(t, id), f, h, "granted") = Shut(v, Mqtt!NextId(id))
    BY <1>2, <1>3, TurnedAway
<1>6. added = Shut(v, Mqtt!NextId(id))
    BY <1>5
<1>7. added.connected = FALSE /\ added.table = v
    <2>1. PICK n : n = Mqtt!NextId(id)
        OBVIOUS
    <2>2. Shut(v, n).connected = FALSE /\ Shut(v, n).table = v
        BY ShutIs, ZenonT(60)
    <2> QED BY <1>6, <2>1, <2>2, Zenon
<1> QED BY <1>4, <1>7, Zenon

LEMMA Unsubscribed ==
    ASSUME NEW t, TableKept(t), NEW f, f # <<>>, NEW id, NEW gone,
           gone = Mqtt!UnsubscribeFrom(Open(t, id), f, "acknowledged")
    PROVE  gone.connected /\ OncePerFilter(gone.table) /\ AsMap(gone.table) = Withdrawn(t, f)
<1>1. PICK v : v = Mqtt!RemoveHandler(t, f).table
    OBVIOUS
<1>2. Removed(t, f)
    BY RemoveIs
<1>3. OncePerFilter(v) /\ AsMap(v) = Withdrawn(t, f)
    BY <1>1, <1>2, Zenon DEF Removed
<1>4. Mqtt!UnsubscribeFrom(Open(t, id), f, "acknowledged") = Open(v, Mqtt!NextId(id))
    BY <1>1, Acknowledged
<1>5. gone = Open(v, Mqtt!NextId(id))
    BY <1>4
<1>6. gone.connected /\ gone.table = v
    <2>1. PICK n : n = Mqtt!NextId(id)
        OBVIOUS
    <2>2. Open(v, n).connected = TRUE /\ Open(v, n).table = v
        BY OpenIs
    <2> QED BY <1>5, <2>1, <2>2, Zenon
<1> QED BY <1>3, <1>6, Zenon

\* Whatever the table holds, subscriptions and their withdrawals make of it
\* what they say, and every end of the session empties it
\* (MQTTClient.h:810-931, MQTTClient.h:360-375).
THEOREM SubscriptionsKept ==
    ASSUME NEW t, TableKept(t), NEW f, f # <<>>, NEW h, h # 0
    PROVE  SubscriptionKept(t, f, h)
<1>1. PICK id : id = LastId
    OBVIOUS
<1>2. PICK c : c = Open(t, id)
    OBVIOUS
<1>3. PICK added, gone : /\ added = Mqtt!SubscribeTo(c, f, h, "granted")
                         /\ gone = Mqtt!UnsubscribeFrom(c, f, "acknowledged")
    OBVIOUS
<1>4. c = [connected |-> TRUE, table |-> t, id |-> id]
    BY <1>2 DEF Open, Client
<1>5. HasRoom(t, f) => /\ added.connected = TRUE /\ OncePerFilter(added.table)
                       /\ AsMap(added.table) = Subscribed(t, f, h)
    BY <1>2, <1>3, RoomTaken
<1>6. ~HasRoom(t, f) => /\ added.connected = FALSE /\ OncePerFilter(added.table)
                        /\ DOMAIN AsMap(added.table) = {}
    BY <1>2, <1>3, NoRoomTaken
<1>7. gone.connected /\ OncePerFilter(gone.table) /\ AsMap(gone.table) = Withdrawn(t, f)
    BY <1>2, <1>3, Unsubscribed
<1>8. Mqtt!SubscribeTo(c, f, h, "denied") = [c EXCEPT !.id = 1]
    <2>1. Mqtt!NextId(id) = 1
        BY <1>1 DEF Mqtt!NextId, LastId
    <2>2. Mqtt!SubscribeTo(c, f, h, "denied") = Open(t, Mqtt!NextId(id))
        BY <1>2, Denied
    <2>3. [c EXCEPT !.id = 1] = Open(t, 1)
        BY <1>2, OpenId
    <2> QED BY <2>1, <2>2, <2>3, Zenon
<1>9. ASSUME NEW d \in {Mqtt!SubscribeTo(c, f, h, "none"), Mqtt!UnsubscribeFrom(c, f, "none"),
                        Mqtt!Disconnect(c)}
      PROVE  StartsAfresh(d, f, h)
    <2>1. PICK u, n : u = Mqtt!CleanSession(t) /\ n = Mqtt!NextId(id)
        OBVIOUS
    <2>2. /\ Mqtt!SubscribeTo(c, f, h, "none") = Shut(u, n) /\ Mqtt!UnsubscribeFrom(c, f, "none") = Shut(u, n)
          /\ Mqtt!Disconnect(c) = Shut(u, id)
        BY <1>2, <2>1, Unanswered
    <2>3. StartsAfresh(Shut(u, n), f, h) /\ StartsAfresh(Shut(u, id), f, h)
        BY <2>1, Reopened
    <2> QED BY <1>9, <2>2, <2>3
<1>10. PICK K : K = {Mqtt!SubscribeTo(c, f, h, "none"), Mqtt!UnsubscribeFrom(c, f, "none"),
                     Mqtt!Disconnect(c)}
    OBVIOUS
<1>11. \A d \in K : StartsAfresh(d, f, h)
    BY <1>9, <1>10
<1>12. /\ OncePerFilter(added.table)
       /\ IF HasRoom(t, f) THEN AsMap(added.table) = Subscribed(t, f, h)
          ELSE DOMAIN AsMap(added.table) = {}
    BY <1>5, <1>6, Zenon
<1>13. added.connected = HasRoom(t, f)
    <2>0. PICK r : r = HasRoom(t, f)
        OBVIOUS
    <2>1. r \in BOOLEAN
        BY <2>0 DEF HasRoom
    <2>2. (r => added.connected = TRUE) /\ (~r => added.connected = FALSE)
        BY <1>5, <1>6, <2>0, Zenon
    <2>3. added.connected = r
        <3>1. CASE r = TRUE
            BY <2>2, <3>1, Zenon
        <3>2. CASE r = FALSE
            BY <2>2, <3>2, Zenon
        <3> QED BY <2>1, <3>1, <3>2
    <2> QED BY <2>0, <2>3, Zenon
<1>14. c = [connected |-> TRUE, table |-> t, id |-> LastId]
    BY <1>1, <1>4, Zenon
<1> QED BY <1>3, <1>7, <1>8, <1>10, <1>11, <1>12, <1>13, <1>14, Zenon DEF SubscriptionKept
-----------------------------------------------------------------------------
(* A message and the slots that take it, one after the other.              *)

\* The slots up to the k-th that take the message, and what is in them.
Taking(t, name, k) == {i \in DOMAIN t : i <= k /\ Mqtt!Takes(t[i], name)}
FiltersTaking(t, name, k) == {t[i].filter : i \in Taking(t, name, k)}
HandlersTaking(t, name, k) == {t[i].handler : i \in Taking(t, name, k)}

\* s are the handlers of the slots up to the k-th that take the message.
CalledSoFar(t, name, k, s) ==
    /\ IsFiniteSet(FiltersTaking(t, name, k)) /\ Len(s) = Cardinality(FiltersTaking(t, name, k))
    /\ ToSet(s) = HandlersTaking(t, name, k)

LEMMA ToSetAppended ==
    ASSUME NEW S, NEW s \in Seq(S), NEW h \in S
    PROVE  /\ s \o <<h>> \in Seq(S) /\ Len(s \o <<h>>) = Len(s) + 1
           /\ ToSet(s \o <<h>>) = ToSet(s) \cup {h}
<1>1. PICK r : r = s \o <<h>>
    OBVIOUS
<1>2. /\ r \in Seq(S) /\ Len(s) \in Nat /\ Len(r) = Len(s) + 1
      /\ \A i \in 1..Len(s) : r[i] = s[i]
    BY <1>1
<1>3. r[Len(s) + 1] = h
    BY <1>1
<1>4. DOMAIN r = 1..(Len(s) + 1) /\ DOMAIN s = 1..Len(s)
    BY <1>2
<1>5. ASSUME NEW x, x \in ToSet(r) PROVE x \in ToSet(s) \cup {h}
    <2>1. PICK i \in 1..(Len(s) + 1) : x = r[i]
        BY <1>4, <1>5 DEF ToSet
    <2>2. CASE i = Len(s) + 1
        BY <1>3, <2>1, <2>2
    <2>3. CASE i # Len(s) + 1
        <3>1. i \in 1..Len(s)
            BY <1>2, <2>1, <2>3
        <3> QED BY <1>2, <1>4, <2>1, <3>1 DEF ToSet
    <2> QED BY <2>2, <2>3
<1>6. ASSUME NEW x, x \in ToSet(s) \cup {h} PROVE x \in ToSet(r)
    <2>1. CASE x = h
        <3>1. Len(s) + 1 \in 1..(Len(s) + 1)
            BY <1>2
        <3> QED BY <1>3, <1>4, <2>1, <3>1 DEF ToSet
    <2>2. CASE x \in ToSet(s)
        <3>1. PICK i \in 1..Len(s) : x = s[i]
            BY <1>4, <2>2 DEF ToSet
        <3>2. i \in 1..(Len(s) + 1)
            BY <1>2, <3>1
        <3> QED BY <1>2, <1>4, <3>1, <3>2 DEF ToSet
    <2> QED BY <1>6, <2>1, <2>2
<1>7. ToSet(r) = ToSet(s) \cup {h}
    BY <1>5, <1>6
<1> QED BY <1>1, <1>2, <1>7

LEMMA NoneCalled ==
    ASSUME NEW t, TableKept(t), NEW name
    PROVE  CalledSoFar(t, name, 0, <<>>)
<1>1. DOMAIN t \in SUBSET Nat /\ 0 \notin DOMAIN t
    <2>1. PICK n \in Nat : n # 0 /\ DOMAIN t = 1..n
        BY Zenon DEF TableKept
    <2> QED BY <2>1
<1>2. Taking(t, name, 0) = {}
    BY <1>1 DEF Taking
<1>3. FiltersTaking(t, name, 0) = {} /\ HandlersTaking(t, name, 0) = {}
    BY <1>2 DEF FiltersTaking, HandlersTaking
<1>4. ToSet(<<>>) = {} /\ Len(<<>>) = 0
    BY DEF ToSet
<1>5. IsFiniteSet({}) /\ Cardinality({}) = 0
    BY FS_EmptySet
<1> QED BY <1>3, <1>4, <1>5, Zenon DEF CalledSoFar

GivenTo(t, name, k) == IF Mqtt!Takes(t[k], name) THEN <<t[k].handler>> ELSE <<>>

LEMMA OneMoreCalled ==
    ASSUME NEW t, TableKept(t), NEW name, NEW S, NEW s \in Seq(S), NEW k, k + 1 \in DOMAIN t, k \in Nat,
           CalledSoFar(t, name, k, s), t[k + 1].handler \in S
    PROVE  CalledSoFar(t, name, k + 1, s \o GivenTo(t, name, k + 1))
<1>1. DOMAIN t \in SUBSET Nat /\ OncePerFilter(t)
    BY TableIs
<1>2. PICK j, h : j = k + 1 /\ h = t[j].handler
    OBVIOUS
<1>3. PICK T, U : T = Taking(t, name, k) /\ U = Taking(t, name, j)
    OBVIOUS
<1>4. \A i \in DOMAIN t : i <= j <=> i <= k \/ i = j
    BY <1>1, <1>2
<1>5. IsFiniteSet(FiltersTaking(t, name, k)) /\ Len(s) = Cardinality(FiltersTaking(t, name, k))
      /\ ToSet(s) = HandlersTaking(t, name, k)
    BY Zenon DEF CalledSoFar
<1>6. CASE Mqtt!Takes(t[j], name)
    <2>1. PICK g : g = t[j].filter
        OBVIOUS
    <2>2. g # <<>>
        BY <1>6, <2>1 DEF Mqtt!Takes, Mqtt!NoFilter
    <2>3. U = T \cup {j}
        BY <1>2, <1>3, <1>4, <1>6 DEF Taking
    <2>4. FiltersTaking(t, name, j) = FiltersTaking(t, name, k) \cup {g}
        BY <1>3, <2>1, <2>3 DEF FiltersTaking
    <2>5. HandlersTaking(t, name, j) = HandlersTaking(t, name, k) \cup {h}
        BY <1>2, <1>3, <2>3 DEF HandlersTaking
    <2>6. g \notin FiltersTaking(t, name, k)
        <3>1. SUFFICES ASSUME g \in FiltersTaking(t, name, k) PROVE FALSE
            OBVIOUS
        <3>2. PICK i \in DOMAIN t : i <= k /\ t[i].filter = g
            BY <3>1 DEF FiltersTaking, Taking
        <3>3. i = j
            BY <1>1, <1>2, <2>1, <2>2, <3>2, Zenon DEF OncePerFilter
        <3> QED BY <1>2, <3>2, <3>3
    <2>7. IsFiniteSet(FiltersTaking(t, name, j))
          /\ Cardinality(FiltersTaking(t, name, j)) = Cardinality(FiltersTaking(t, name, k)) + 1
        BY <1>5, <2>4, <2>6, FS_AddElement
    <2>8. Len(s \o <<h>>) = Len(s) + 1 /\ ToSet(s \o <<h>>) = ToSet(s) \cup {h}
        BY <1>2, ToSetAppended
    <2>9. CalledSoFar(t, name, j, s \o <<h>>)
        BY <1>5, <2>5, <2>7, <2>8, Zenon DEF CalledSoFar
    <2> QED BY <1>2, <1>6, <2>9, Zenon DEF GivenTo
<1>7. CASE ~Mqtt!Takes(t[j], name)
    <2>1. U = T
        BY <1>2, <1>3, <1>4, <1>7 DEF Taking
    <2>2. CalledSoFar(t, name, j, s)
        BY <1>3, <1>5, <2>1, Zenon DEF CalledSoFar, FiltersTaking, HandlersTaking
    <2>3. s \o <<>> = s
        OBVIOUS
    <2> QED BY <1>2, <1>7, <2>2, <2>3, Zenon DEF GivenTo
<1> QED BY <1>6, <1>7
\* In the end every slot that takes the message has been called.
LEMMA AllCalled ==
    ASSUME NEW t, TableKept(t), NEW name
    PROVE  \E s, S, n : /\ n \in Nat /\ DOMAIN t = 1..n /\ s \in Seq(S) /\ CalledSoFar(t, name, n, s)
                        /\ s = Mqtt!FlattenSeq([i \in DOMAIN t |-> GivenTo(t, name, i)])
<1>1. PICK n \in Nat : n # 0 /\ DOMAIN t = 1..n
    BY Zenon DEF TableKept
<1>2. PICK S, p : S = {t[i].handler : i \in DOMAIN t} /\ p = [i \in DOMAIN t |-> GivenTo(t, name, i)]
    OBVIOUS
<1>3. \A i \in DOMAIN t : t[i].handler \in S
    BY <1>2
<1>4. ASSUME NEW i \in DOMAIN t PROVE GivenTo(t, name, i) \in Seq(S)
    <2>1. PICK h : h = t[i].handler
        OBVIOUS
    <2>2. h \in S
        BY <1>3, <2>1
    <2>3. <<h>> \in Seq(S) /\ <<>> \in Seq(S)
        BY <2>2
    <2> QED BY <2>1, <2>3, Zenon DEF GivenTo
<1>5. p \in Seq(Seq(S)) /\ Len(p) = n /\ \A i \in 1..n : p[i] = GivenTo(t, name, i)
    BY <1>1, <1>2, <1>4
<1>6. PICK f : FlattenedIn(S, p, f)
    BY <1>5, FlattenInIs
<1>7. /\ f[0] = <<>> /\ Mqtt!FlattenSeq(p) = f[n] /\ \A k \in 0..n : f[k] \in Seq(S)
      /\ \A k \in 1..n : f[k] = f[k - 1] \o p[k]
    BY <1>5, <1>6, Zenon DEF FlattenedIn
<1> DEFINE Good == {k \in Nat : k <= n => CalledSoFar(t, name, k, f[k])}
<1>8. 0 \in Good
    <2>1. CalledSoFar(t, name, 0, f[0])
        BY <1>7, NoneCalled
    <2> QED BY <2>1
<1>9. ASSUME NEW k \in Nat, k \in Good PROVE k + 1 \in Good
    <2>1. ASSUME k + 1 <= n PROVE CalledSoFar(t, name, k + 1, f[k + 1])
        <3>1. k \in 0..n /\ k + 1 \in 1..n /\ (k + 1) - 1 = k
            BY <1>1, <2>1
        <3>2. f[k] \in Seq(S) /\ k + 1 \in DOMAIN t /\ t[k + 1].handler \in S
            BY <1>1, <1>3, <1>7, <3>1
        <3>3. f[k + 1] = f[k] \o GivenTo(t, name, k + 1)
            BY <1>5, <1>7, <3>1
        <3>4. CalledSoFar(t, name, k, f[k])
            BY <1>9, <3>1
        <3>5. PICK s : s = f[k]
            OBVIOUS
        <3>6. CalledSoFar(t, name, k + 1, s \o GivenTo(t, name, k + 1))
            BY <3>2, <3>4, <3>5, OneMoreCalled
        <3> QED BY <3>3, <3>5, <3>6, Zenon
    <2> QED BY <2>1
<1>10. \A k \in Nat : k \in Good
    <2> HIDE DEF Good
    <2> QED BY <1>8, <1>9, Induction
<1>11. CalledSoFar(t, name, n, f[n]) /\ n \in 0..n
    BY <1>1, <1>10
<1>12. f[n] \in Seq(S)
    BY <1>7, <1>11
<1> QED BY <1>1, <1>2, <1>7, <1>11, <1>12, Zenon

\* Whatever the table holds and whichever filters match, a message is handed
\* once to the handler of every one that does, and to the default handler when
\* none does (MQTTClient.h:527-554).
THEOREM MessagesHandedOver ==
    ASSUME NEW t, TableKept(t), NEW default, default # 0, NEW name
    PROVE  HandedOver(t, default, name)
<1>1. PICK s, S, n : /\ n \in Nat /\ DOMAIN t = 1..n /\ s \in Seq(S) /\ CalledSoFar(t, name, n, s)
                     /\ s = Mqtt!FlattenSeq([i \in DOMAIN t |-> GivenTo(t, name, i)])
    BY AllCalled, Zenon
<1>2. PICK called, mine : /\ called = Mqtt!Delivered(t, default, name)
                          /\ mine = {f \in DOMAIN AsMap(t) : Mqtt!Handles(f, name)}
    OBVIOUS
<1>3. called = IF s = <<>> THEN <<default>> ELSE s
    <2>1. called = IF s = <<>> /\ default # 0 THEN <<default>> ELSE s
        BY <1>1, <1>2, Zenon DEF Mqtt!Delivered, GivenTo
    <2> QED BY <2>1
<1>4. OncePerFilter(t) /\ \A i \in DOMAIN t : t[i].filter # <<>> => t[i].handler # 0
    BY TableIs
<1>5. /\ DOMAIN AsMap(t) = FiltersOf(t)
      /\ \A i \in DOMAIN t : t[i].filter # <<>> => AsMap(t)[t[i].filter] = t[i].handler
    BY <1>4, MapIs
<1>6. PICK T : T = Taking(t, name, n)
    OBVIOUS
<1>7. \A i \in DOMAIN t : i \in T <=> t[i].filter # <<>> /\ Mqtt!Handles(t[i].filter, name)
    <2>1. ASSUME NEW i \in DOMAIN t PROVE i <= n
        BY <1>1
    <2>2. \A i \in DOMAIN t : Mqtt!Takes(t[i], name)
                                  <=> t[i].filter # <<>> /\ Mqtt!Handles(t[i].filter, name)
        BY <1>4, Zenon DEF Mqtt!Takes, Mqtt!NoFilter
    <2> QED BY <1>6, <2>1, <2>2 DEF Taking
<1>8. T \subseteq DOMAIN t
    BY <1>6 DEF Taking
<1>9. FiltersTaking(t, name, n) = mine
    <2>1. ASSUME NEW g, g \in FiltersTaking(t, name, n) PROVE g \in mine
        <3>1. PICK i \in T : g = t[i].filter
            BY <1>6, <2>1 DEF FiltersTaking
        <3>2. g # <<>> /\ Mqtt!Handles(g, name)
            BY <1>7, <1>8, <3>1
        <3>3. g \in FiltersOf(t)
            BY <1>8, <3>1, <3>2 DEF FiltersOf
        <3> QED BY <1>2, <1>5, <3>2, <3>3
    <2>2. ASSUME NEW g, g \in mine PROVE g \in FiltersTaking(t, name, n)
        <3>1. g \in FiltersOf(t) /\ Mqtt!Handles(g, name)
            BY <1>2, <1>5, <2>2
        <3>2. PICK i \in DOMAIN t : g = t[i].filter /\ g # <<>>
            BY <3>1 DEF FiltersOf
        <3>3. i \in T
            BY <1>7, <3>1, <3>2
        <3> QED BY <1>6, <3>2, <3>3 DEF FiltersTaking
    <2> QED BY <2>1, <2>2
<1>10. HandlersTaking(t, name, n) = {AsMap(t)[f] : f \in mine}
    <2>1. ASSUME NEW i \in T PROVE t[i].filter \in mine /\ AsMap(t)[t[i].filter] = t[i].handler
        <3>1. t[i].filter \in mine
            BY <1>6, <1>9 DEF FiltersTaking
        <3> QED BY <1>5, <1>7, <1>8, <3>1
    <2>2. ASSUME NEW g, g \in mine PROVE \E i \in T : t[i].filter = g
        BY <1>6, <1>9, <2>2 DEF FiltersTaking
    <2>3. PICK m : m = AsMap(t)
        OBVIOUS
    <2>4. HandlersTaking(t, name, n) = {t[i].handler : i \in T}
        BY <1>6 DEF HandlersTaking
    <2>5. {t[i].handler : i \in T} = {m[f] : f \in mine}
        BY <2>1, <2>2, <2>3
    <2> QED BY <2>3, <2>4, <2>5, Zenon
<1>11. IsFiniteSet(mine) /\ Len(s) = Cardinality(mine) /\ ToSet(s) = {AsMap(t)[f] : f \in mine}
    BY <1>1, <1>9, <1>10, Zenon DEF CalledSoFar
<1>12. s = <<>> <=> mine = {}
    <2>1. Cardinality(mine) = 0 <=> mine = {}
        BY <1>11, FS_EmptySet
    <2>2. Len(s) = 0 <=> s = <<>>
        <3>1. s = <<>> => Len(s) = 0
            OBVIOUS
        <3>2. Len(s) = 0 => s = <<>>
            BY <1>1, EmptySeq
        <3> QED BY <3>1, <3>2
    <2> QED BY <1>11, <2>1, <2>2
<1>13. IF mine = {} THEN called = <<default>>
       ELSE Len(called) = Cardinality(mine) /\ ToSet(called) = {AsMap(t)[f] : f \in mine}
    <2>1. CASE mine = {}
        BY <1>3, <1>12, <2>1
    <2>2. CASE mine # {}
        <3>1. called = s
            BY <1>3, <1>12, <2>2
        <3> QED BY <1>11, <2>2, <3>1, Zenon
    <2> QED BY <2>1, <2>2
<1> QED BY <1>2, <1>13, Zenon DEF HandedOver
\* The names the property asks about, and its filters and handlers.
LEMMA NamesAre ==
    ASSUME NEW S, "a" \in S, "b" \in S, NEW n \in NameLevels
    PROVE  IsName(S, n)
<1>1. PICK k \in 1..3 : n \in [1..k -> Levels]
    BY DEF NameLevels
<1>2. Levels \subseteq Seq(S)
    <2>1. <<>> \in Seq(S) /\ <<"a">> \in Seq(S) /\ <<"b">> \in Seq(S)
        OBVIOUS
    <2>2. <<"a", "a">> \in Seq(S)
        OBVIOUS
    <2> QED BY <2>1, <2>2, Zenon DEF Levels
<1>3. k \in Nat /\ k # 0
    OBVIOUS
<1>4. n \in [1..k -> Seq(S)]
    BY <1>1, <1>2
<1>5. n \in Seq(Seq(S)) /\ Len(n) = k
    BY <1>3, <1>4
<1>6. n # <<>>
    <2>1. Len(<<>>) = 0
        OBVIOUS
    <2> QED BY <1>3, <1>5, <2>1
<1> QED BY <1>5, <1>6, Zenon DEF IsName, Levelled

LEMMA FiltersAre ==
    ASSUME NEW k \in 1..6
    PROVE  SomeFilters[k] # <<>>
<1>1. k = 1 \/ k = 2 \/ k = 3 \/ k = 4 \/ k = 5 \/ k = 6
    OBVIOUS
<1> QED BY <1>1 DEF SomeFilters

\* Any filter over any characters, any table with one slot for each filter.
Handleable(i) ==
    /\ i.kind = "topic" =>
          \E S : Characters(S) /\ "a" \in S /\ "b" \in S /\ IsFilter(S, i.filter)
    /\ i.kind = "handlers" => TableKept(i.table)

\* Whatever the filter and whatever the table, of any number of slots, a
\* message reaches the handlers it is for (MQTTClient.h:493-554, 810-931).
THEOREM MessagesReachHandlers ==
    ASSUME Handleable(input)
    PROVE  MessagesHandled
<1>1. HandlersFound
    <2>1. SUFFICES ASSUME input.kind = "topic", NEW n \in NameLevels PROVE FoundRight(input.filter, n)
        BY Zenon DEF HandlersFound
    <2>2. PICK S : Characters(S) /\ "a" \in S /\ "b" \in S /\ IsFilter(S, input.filter)
        BY <2>1, Zenon DEF Handleable
    <2>3. IsName(S, n)
        BY <2>2, NamesAre
    <2> QED BY <2>2, <2>3, FiltersFound
<1>2. HandlersKept
    <2>1. SUFFICES ASSUME input.kind = "handlers"
                   PROVE  /\ \A k \in 1..6 : SubscriptionKept(input.table, SomeFilters[k], 7)
                          /\ \A name \in {<<<<"a">>>>, <<<<"b">>>>, <<<<"a">>, <<"b">>>>, <<<<"b">>, <<"a">>>>} :
                                HandedOver(input.table, 8, Topic(name))
        BY Zenon DEF HandlersKept
    <2>2. TableKept(input.table)
        BY <2>1, Zenon DEF Handleable
    <2>3. 7 # 0 /\ 8 # 0
        OBVIOUS
    <2>4. ASSUME NEW k \in 1..6 PROVE SubscriptionKept(input.table, SomeFilters[k], 7)
        <3>1. PICK f, h : f = SomeFilters[k] /\ h = 7
            OBVIOUS
        <3>2. f # <<>> /\ h # 0
            BY <3>1, FiltersAre
        <3>3. SubscriptionKept(input.table, f, h)
            BY <2>2, <3>2, SubscriptionsKept
        <3> QED BY <3>1, <3>3, Zenon
    <2>5. ASSUME NEW name PROVE HandedOver(input.table, 8, Topic(name))
        <3>1. PICK d, x : d = 8 /\ x = Topic(name)
            OBVIOUS
        <3>2. d # 0
            BY <3>1
        <3>3. HandedOver(input.table, d, x)
            BY <2>2, <3>2, MessagesHandedOver
        <3> QED BY <3>1, <3>3, Zenon
    <2> QED BY <2>4, <2>5, Zenon
<1> QED BY <1>1, <1>2, Zenon DEF MessagesHandled

=============================================================================
