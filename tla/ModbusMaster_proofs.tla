------------------------- MODULE ModbusMaster_proofs -------------------------
(***************************************************************************)
(* Proofs about the Modbus client, for every set of sensors and values,    *)
(* every size of the receive ring and any number of answers on their way.  *)
(***************************************************************************)
EXTENDS ModbusMaster, SequenceTheorems, TLAPS

Bytes == [n : 0..257, of : Seq(Int)]

\* Whatever a device may ever answer, and whatever it may answer to the
\* request under way.
AllAnswers == UNION {Answers(r, v) : r \in Requests, v \in Values}
OwnAnswers == UNION {Answers(asked, h) : h \in had}

(***************************************************************************)
(* The invariant, for any line.  A CRC protects an answer that a device    *)
(* has sent; what is taken for the header has passed its tests.            *)
(***************************************************************************)
Genuine ==
    /\ due \in Seq(AllAnswers)
    /\ \A i \in 1..Len(rx) : rx[i].n > 255 => rx[i].of \in AllAnswers

HeaderChecked ==
    /\ at \in {"idle", "unit"} => body = <<>>
    /\ at = "fc" => Len(body) = 1
    /\ at \notin {"idle", "unit", "fc"} =>
          Len(body) >= 2 /\ body[1] = Server[asked.sensor]
    /\ at \in {"count", "echo", "exception"} => Len(body) = 2
    /\ at = "data" => Len(body) = 3 /\ body[3] \in 0..257

(***************************************************************************)
(* The invariant of an orderly line.  What arrived of the answer a: its    *)
(* last data byte may be damaged and its last byte missing.                *)
(***************************************************************************)
ArrivesAs(a, k, b) ==
    /\ k < Len(a) => b = Octet(a[k])
    /\ k = Len(a) => b \in {Octet(a[k]), Octet(255)}
    /\ k > Len(a) => b = Crc(a)[k - Len(a)]

\* The answer is partly read into body, and the rest of it is in the ring.
Remains(a) ==
    /\ Len(body) + Len(rx) \in {Len(a) + 1, Len(a) + 2}
    /\ Len(body) <= Len(a)
    /\ \A k \in 1..Len(body) : k < Len(a) => body[k] = a[k]
    /\ \A k \in 1..Len(rx) : ArrivesAs(a, Len(body) + k, rx[k])

\* The field awaited is the next one of the answer, and the value read is the
\* one in it.
InStage(a) ==
    /\ at \in {"count", "data"} => a[2] = ReadFc
    /\ at = "data" => body[3] = 2
    /\ at = "echo" => a[2] = WriteFc
    /\ at = "exception" => a[2] > ExceptionBit
    /\ at = "crc" => /\ Len(body) = Len(a)
                     /\ a[2] = ReadFc => value = 256 * body[4] + body[5]

Expects ==
    \/ at = "idle" /\ rx = <<>> /\ due = <<>>
    \/ at = "unit" /\ rx = <<>> /\ (due = <<>> \/ \E a \in OwnAnswers : due = <<a>>)
    \/ at # "idle" /\ due = <<>> /\ \E a \in OwnAnswers : Remains(a) /\ InStage(a)

IInv == TypeOK /\ Genuine /\ HeaderChecked /\ (orderly => Expects)

-----------------------------------------------------------------------------
(* Requests and answers.                                                   *)

LEMMA RequestFacts ==
    ASSUME NEW r \in Requests
    PROVE  /\ r.sensor \in Sensors /\ r.fc \in {ReadFc, WriteFc} /\ r.value \in Values
           /\ Server[r.sensor] \in {1, 240, 241}
<1>1. r.sensor \in Sensors /\ r.fc \in {ReadFc, WriteFc} /\ r.value \in Values
    BY ModbusAssumption DEF Requests
<1>2. r.sensor \in {"fan", "co2", "t", "rh"}
    BY <1>1, ModbusAssumption DEF Server
<1> QED BY <1>1, <1>2 DEF Server

\* An answer begins with the unit and the function code, or that with the
\* exception bit, which tells its length.
LEMMA AnswerFacts ==
    ASSUME NEW r \in Requests, NEW h \in Values, NEW a \in Answers(r, h)
    PROVE  /\ a \in Seq(0..255) /\ Len(a) \in {3, 5, 6}
           /\ a[1] = Server[r.sensor] /\ a[2] \in {r.fc, r.fc + ExceptionBit}
           /\ a[2] = ReadFc => Len(a) = 5 /\ a[3] = 2 /\ a[4] = 0 /\ a[5] = h
           /\ a[2] = WriteFc => Len(a) = 6
           /\ a[2] > ExceptionBit => Len(a) = 3
<1> DEFINE u == Server[r.sensor]
<1>1. u \in 0..255 /\ r.fc \in {3, 6} /\ r.value \in 0..255 /\ h \in 0..255
    <2>1. u \in {1, 240, 241} /\ r.fc \in {3, 6} /\ r.value \in Values
        BY RequestFacts DEF ReadFc, WriteFc
    <2>2. Values \subseteq 0..255
        BY ModbusAssumption
    <2> HIDE DEF u
    <2>3. u \in 0..255
        BY <2>1
    <2>4. r.value \in 0..255 /\ h \in 0..255
        BY <2>1, <2>2
    <2> QED BY <2>1, <2>3, <2>4
<1> HIDE DEF u
<1>2. CASE a = <<u, r.fc + ExceptionBit, 2>>
    BY <1>1, <1>2 DEF ReadFc, WriteFc, ExceptionBit, u
<1>3. CASE r.fc = ReadFc /\ a = <<u, ReadFc, 2, 0, h>>
    BY <1>1, <1>3 DEF ReadFc, WriteFc, ExceptionBit, u
<1>4. CASE r.fc # ReadFc /\ a = <<u, WriteFc, 0, 0, 0, r.value>>
    BY <1>1, <1>4 DEF ReadFc, WriteFc, ExceptionBit, u
<1> QED BY <1>2, <1>3, <1>4 DEF Answers, u

\* The answer to a write does not depend on what the register holds.
LEMMA WriteAnswers ==
    ASSUME NEW r \in Requests, NEW h \in Values, NEW g, NEW a \in Answers(r, h),
           a[2] = WriteFc
    PROVE  a \in Answers(r, g)
<1>1. r.fc \in {3, 6} /\ a[2] \in {r.fc, r.fc + ExceptionBit}
    BY RequestFacts, AnswerFacts DEF ReadFc, WriteFc
<1> QED BY <1>1 DEF Answers, ReadFc, WriteFc, ExceptionBit

LEMMA AllAnswersTyped ==
    ASSUME NEW a \in AllAnswers
    PROVE  a \in Seq(0..255) /\ Len(a) \in {3, 5, 6}
<1>1. PICK r \in Requests, v \in Values : a \in Answers(r, v)
    BY DEF AllAnswers
<1> QED BY <1>1, AnswerFacts

LEMMA OwnIsAnswer ==
    ASSUME TypeOK, NEW a \in OwnAnswers
    PROVE  a \in AllAnswers
BY DEF OwnAnswers, AllAnswers, TypeOK

-----------------------------------------------------------------------------
(* A frame on its way into the ring.                                       *)

\* The values of a frame's bytes.
LEMMA DataByte ==
    ASSUME NEW n \in 0..255
    PROVE  Octet(n) \in Bytes /\ ~(Octet(n).n > 255)
<1>1. <<>> \in Seq(Int)
    OBVIOUS
<1> QED BY <1>1 DEF Octet, Bytes

LEMMA CrcBytes ==
    ASSUME NEW a \in Seq(0..255)
    PROVE  /\ Crc(a) \in Seq(Bytes) /\ Len(Crc(a)) = 2
           /\ \A k \in {1, 2} : Crc(a)[k] \in Bytes /\ Crc(a)[k].n > 255 /\ Crc(a)[k].of = a
<1> DEFINE low == [n |-> 256, of |-> a]
           high == [n |-> 257, of |-> a]
<1>1. a \in Seq(Int)
    <2>1. 0..255 \subseteq Int
        OBVIOUS
    <2> QED BY <2>1, SeqMonotonic
<1>2. /\ low \in Bytes /\ low.n > 255 /\ low.of = a
      /\ high \in Bytes /\ high.n > 255 /\ high.of = a
    BY <1>1 DEF Bytes
<1>3. Crc(a) = <<low, high>>
    BY DEF Crc
<1> HIDE DEF low, high
<1> QED BY <1>2, <1>3

\* Two sequences after one another, element by element.
LEMMA Joined ==
    ASSUME NEW S, NEW s \in Seq(S), NEW t \in Seq(S)
    PROVE  /\ \A k \in 1..Len(s) : (s \o t)[k] = s[k]
           /\ \A k \in (Len(s) + 1)..(Len(s) + Len(t)) : (s \o t)[k] = t[k - Len(s)]
<1>1. Len(s) \in Nat /\ Len(t) \in Nat
    BY LenProperties
<1>2. \A k \in 1..(Len(s) + Len(t)) : (s \o t)[k] = IF k <= Len(s) THEN s[k] ELSE t[k - Len(s)]
    BY ConcatProperties
<1> QED BY <1>1, <1>2

LEMMA FrameFacts ==
    ASSUME NEW a \in Seq(0..255)
    PROVE  /\ Frame(a) \in Seq(Bytes)
           /\ Len(Frame(a)) = Len(a) + 2
           /\ \A k \in 1..Len(a) : Frame(a)[k] = Octet(a[k])
           /\ \A k \in (Len(a) + 1)..(Len(a) + 2) : Frame(a)[k] = Crc(a)[k - Len(a)]
<1> DEFINE data == [i \in 1..Len(a) |-> Octet(a[i])]
<1>1. Len(a) \in Nat
    OBVIOUS
<1>2. Crc(a) \in Seq(Bytes) /\ Len(Crc(a)) = 2
    BY CrcBytes
<1>3. data \in Seq(Bytes) /\ Len(data) = Len(a) /\ \A k \in 1..Len(a) : data[k] = Octet(a[k])
    <2>1. \A i \in 1..Len(a) : a[i] \in 0..255
        BY ElementOfSeq
    <2>2. \A i \in 1..Len(a) : Octet(a[i]) \in Bytes
        BY <2>1, DataByte
    <2> QED BY <1>1, <2>2
<1>4. Frame(a) = data \o Crc(a)
    BY DEF Frame
<1> HIDE DEF data
<1>5. Frame(a) \in Seq(Bytes) /\ Len(Frame(a)) = Len(a) + 2
    <2>1. data \o Crc(a) \in Seq(Bytes) /\ Len(data \o Crc(a)) = Len(data) + Len(Crc(a))
        BY <1>2, <1>3, ConcatProperties
    <2> QED BY <1>2, <1>3, <1>4, <2>1
<1>6. /\ \A k \in 1..Len(data) : (data \o Crc(a))[k] = data[k]
      /\ \A k \in (Len(data) + 1)..(Len(data) + Len(Crc(a))) :
            (data \o Crc(a))[k] = Crc(a)[k - Len(data)]
    BY <1>2, <1>3, Joined
<1>7. /\ \A k \in 1..Len(a) : Frame(a)[k] = data[k]
      /\ \A k \in (Len(a) + 1)..(Len(a) + 2) : Frame(a)[k] = Crc(a)[k - Len(a)]
    BY <1>2, <1>3, <1>4, <1>6, Zenon
<1> QED BY <1>3, <1>5, <1>7

\* Whatever the line does to a frame, a CRC in it protects the answer sent.
LEMMA ArrivalFacts ==
    ASSUME NEW a \in Seq(0..255), Len(a) \in {3, 5, 6}, NEW f \in Arrivals(a)
    PROVE  /\ f \in Seq(Bytes)
           /\ Len(f) \in {Len(a) + 1, Len(a) + 2}
           /\ \A k \in 1..Len(f) : f[k].n > 255 => f[k].of = a
           /\ orderly => \A k \in 1..Len(f) : ArrivesAs(a, k, f[k])
<1> DEFINE g == Frame(a)
<1>1. /\ g \in Seq(Bytes) /\ Len(g) = Len(a) + 2 /\ Len(a) \in Nat
      /\ \A k \in 1..Len(a) : g[k] = Octet(a[k])
      /\ \A k \in (Len(a) + 1)..(Len(a) + 2) : g[k] = Crc(a)[k - Len(a)]
    BY FrameFacts
<1>2. f = g \/ f = Front(g) \/ \E i \in {1, Len(a)} :
           f = [g EXCEPT ![i] = Octet(255)] /\ (orderly => i = Len(a))
    BY DEF Arrivals
<1> HIDE DEF g
<1>3. \A k \in 1..Len(a) : ~(g[k].n > 255) /\ ArrivesAs(a, k, g[k])
    <2> SUFFICES ASSUME NEW k \in 1..Len(a) PROVE ~(g[k].n > 255) /\ ArrivesAs(a, k, g[k])
        OBVIOUS
    <2>1. a[k] \in 0..255
        BY ElementOfSeq
    <2>2. ~(g[k].n > 255)
        <3>1. ~(Octet(a[k]).n > 255)
            BY <2>1, DataByte
        <3>2. g[k] = Octet(a[k])
            BY <1>1
        <3> QED BY <3>1, <3>2
    <2>3. ArrivesAs(a, k, g[k])
        BY <1>1 DEF ArrivesAs
    <2> QED BY <2>2, <2>3
<1>4. \A k \in (Len(a) + 1)..(Len(a) + 2) : g[k].of = a /\ ArrivesAs(a, k, g[k])
    <2> SUFFICES ASSUME NEW k \in (Len(a) + 1)..(Len(a) + 2)
                 PROVE  g[k].of = a /\ ArrivesAs(a, k, g[k])
        OBVIOUS
    <2>1. k - Len(a) \in {1, 2} /\ g[k] = Crc(a)[k - Len(a)] /\ k > Len(a)
        BY <1>1
    <2> QED BY <1>1, <2>1, CrcBytes DEF ArrivesAs
<1>5. \A k \in 1..Len(g) : (g[k].n > 255 => g[k].of = a) /\ ArrivesAs(a, k, g[k])
    <2>1. \A k \in 1..Len(g) : k \in 1..Len(a) \/ k \in (Len(a) + 1)..(Len(a) + 2)
        BY <1>1
    <2> QED BY <1>3, <1>4, <2>1
<1>6. CASE f = g
    BY <1>1, <1>5, <1>6
<1>7. CASE f = Front(g)
    <2>1. f \in Seq(Bytes) /\ Len(f) = Len(a) + 1 /\ \A k \in 1..Len(f) : f[k] = g[k]
        BY <1>1, <1>7 DEF Front
    <2>2. \A k \in 1..Len(f) : k \in 1..Len(g)
        BY <1>1, <2>1
    <2> QED BY <1>5, <2>1, <2>2
<1>8. ASSUME NEW i \in {1, Len(a)}, f = [g EXCEPT ![i] = Octet(255)], orderly => i = Len(a)
      PROVE  /\ f \in Seq(Bytes) /\ Len(f) = Len(a) + 2
             /\ \A k \in 1..Len(f) : f[k].n > 255 => f[k].of = a
             /\ orderly => \A k \in 1..Len(f) : ArrivesAs(a, k, f[k])
    <2>1. Octet(255) \in Bytes /\ ~(Octet(255).n > 255)
        BY DataByte
    <2>2. /\ f \in Seq(Bytes) /\ Len(f) = Len(g)
          /\ \A k \in 1..Len(f) : f[k] = IF k = i THEN Octet(255) ELSE g[k]
        BY <1>1, <1>8, <2>1
    <2>3. \A k \in 1..Len(f) : f[k].n > 255 => f[k].of = a
        BY <1>5, <2>1, <2>2
    <2>4. orderly => \A k \in 1..Len(f) : ArrivesAs(a, k, f[k])
        <3>1. \A k \in 1..Len(f) : k = Len(a) => ArrivesAs(a, k, Octet(255))
            BY <1>1 DEF ArrivesAs
        <3> QED BY <1>5, <1>8, <2>2, <3>1
    <2> QED BY <1>1, <2>2, <2>3, <2>4
<1> QED BY <1>2, <1>6, <1>7, <1>8

\* The ring takes what it has room for; a frame fits an empty one.
LEMMA ReceivedFacts ==
    ASSUME rx \in Seq(Bytes), Len(rx) <= RxSize, NEW f \in Seq(Bytes)
    PROVE  /\ Received(f) \in Seq(Bytes) /\ Len(Received(f)) <= RxSize
           /\ \A k \in 1..Len(Received(f)) :
                 \/ k \in 1..Len(rx) /\ Received(f)[k] = rx[k]
                 \/ k - Len(rx) \in 1..Len(f) /\ Received(f)[k] = f[k - Len(rx)]
           /\ rx = <<>> /\ Len(f) <= RxSize => Received(f) = f
<1> DEFINE all == rx \o f
           got == Received(f)
<1>1. /\ all \in Seq(Bytes) /\ Len(all) = Len(rx) + Len(f)
      /\ Len(all) \in Nat /\ Len(rx) \in Nat /\ Len(f) \in Nat /\ RxSize \in Nat
    BY ModbusAssumption
<1>2. \A k \in 1..Len(all) : \/ k \in 1..Len(rx) /\ all[k] = rx[k]
                             \/ k - Len(rx) \in 1..Len(f) /\ all[k] = f[k - Len(rx)]
    <2> SUFFICES ASSUME NEW k \in 1..Len(all)
                 PROVE  \/ k \in 1..Len(rx) /\ all[k] = rx[k]
                        \/ k - Len(rx) \in 1..Len(f) /\ all[k] = f[k - Len(rx)]
        OBVIOUS
    <2>1. k \in 1..Len(rx) \/ k - Len(rx) \in 1..Len(f)
        BY <1>1
    <2> QED BY <1>1, <2>1
<1>3. got = IF Len(all) <= RxSize THEN all ELSE SubSeq(all, 1, RxSize)
    BY DEF Received
<1>4. rx = <<>> /\ Len(f) <= RxSize => got = f
    BY DEF Received
<1> HIDE DEF all, got
<1>5. CASE Len(all) <= RxSize
    BY <1>1, <1>2, <1>3, <1>4, <1>5 DEF got
<1>6. CASE Len(all) > RxSize
    <2>1. got \in Seq(Bytes) /\ Len(got) = RxSize /\ \A k \in 1..RxSize : got[k] = all[k]
        BY <1>1, <1>3, <1>6
    <2>2. \A k \in 1..RxSize : k \in 1..Len(all)
        BY <1>1, <1>6
    <2>3. \A k \in 1..Len(got) : \/ k \in 1..Len(rx) /\ got[k] = rx[k]
                                 \/ k - Len(rx) \in 1..Len(f) /\ got[k] = f[k - Len(rx)]
        BY <1>2, <2>1, <2>2
    <2> QED BY <1>1, <1>4, <2>1, <2>3 DEF got
<1> QED BY <1>1, <1>5, <1>6

-----------------------------------------------------------------------------
(* Reading a field.                                                        *)

LEMMA Typed ==
    ASSUME TypeOK
    PROVE  /\ rx \in Seq(Bytes) /\ Len(rx) \in Nat /\ Len(rx) <= RxSize /\ RxSize \in Nat
           /\ body \in Seq(Int) /\ Len(body) \in Nat
           /\ had \subseteq Values /\ asked \in Requests
           /\ \A k \in 1..Len(rx) : rx[k] \in Bytes /\ rx[k].n \in 0..257
<1>1. rx \in Seq(Bytes) /\ body \in Seq(Int)
    BY DEF TypeOK, Bytes
<1>2. \A k \in 1..Len(rx) : rx[k] \in Bytes
    BY <1>1, ElementOfSeq
<1>3. \A k \in 1..Len(rx) : rx[k].n \in 0..257
    BY <1>2 DEF Bytes
<1> QED BY <1>1, <1>2, <1>3, LenProperties, ModbusAssumption, SMTT(60) DEF TypeOK

\* The first count bytes leave the ring.
LEMMA Consumed ==
    ASSUME TypeOK, NEW count \in Nat, count <= Len(rx), Consume(count)
    PROVE  /\ rx' \in Seq(Bytes) /\ Len(rx') = Len(rx) - count
           /\ \A k \in 1..Len(rx') : count + k \in 1..Len(rx) /\ rx'[k] = rx[count + k]
<1>1. rx \in Seq(Bytes) /\ Len(rx) \in Nat /\ \A k \in 1..Len(rx) : rx[k] \in Bytes
    BY Typed
<1>2. rx' = SubSeq(rx, count + 1, Len(rx))
    BY DEF Consume
<1>3. \A i \in (count + 1)..Len(rx) : rx[i] \in Bytes
    BY <1>1
<1>4. /\ rx' \in Seq(Bytes)
      /\ Len(rx') = (IF count + 1 <= Len(rx) THEN Len(rx) - (count + 1) + 1 ELSE 0)
      /\ \A i \in 1..(Len(rx) - (count + 1) + 1) : rx'[i] = rx[(count + 1) + i - 1]
    BY <1>1, <1>2, <1>3, SubSeqProperties
<1>5. Len(rx') = Len(rx) - count
    BY <1>1, <1>4
<1>6. \A k \in 1..Len(rx') : count + k \in 1..Len(rx) /\ rx'[k] = rx[count + k]
    <2> SUFFICES ASSUME NEW k \in 1..Len(rx')
                 PROVE  count + k \in 1..Len(rx) /\ rx'[k] = rx[count + k]
        OBVIOUS
    <2>1. count + k \in 1..Len(rx) /\ (count + 1) + k - 1 = count + k
          /\ k \in 1..(Len(rx) - (count + 1) + 1)
        BY <1>1, <1>5
    <2> QED BY <1>4, <2>1
<1> QED BY <1>4, <1>5, <1>6

\* They go on to the message buffer.
LEMMA Continued ==
    ASSUME TypeOK, NEW count \in Nat, count <= Len(rx), NEW field, Continue(field, count)
    PROVE  /\ body' \in Seq(Int) /\ Len(body') = Len(body) + count
           /\ \A k \in 1..Len(body) : body'[k] = body[k]
           /\ \A k \in (Len(body) + 1)..Len(body') : body'[k] = rx[k - Len(body)].n
<1> DEFINE new == [i \in 1..count |-> rx[i].n]
<1>1. body \in Seq(Int) /\ Len(body) \in Nat /\ \A k \in 1..count : rx[k].n \in Int
    <2> HIDE DEF new
    <2>1. Len(rx) \in Nat /\ \A k \in 1..Len(rx) : rx[k].n \in 0..257
        BY Typed
    <2>2. \A k \in 1..count : k \in 1..Len(rx)
        BY <2>1
    <2>3. \A k \in 1..count : rx[k].n \in 0..257
        BY <2>1, <2>2
    <2>4. 0..257 \subseteq Int
        OBVIOUS
    <2>5. \A k \in 1..count : rx[k].n \in Int
        BY <2>3, <2>4, Zenon
    <2> QED BY <2>5, Typed
<1>2. new \in Seq(Int) /\ Len(new) = count /\ \A k \in 1..count : new[k] = rx[k].n
    BY <1>1
<1>3. body' = body \o new
    BY DEF Continue
<1> HIDE DEF new
<1>4. body \o new \in Seq(Int) /\ Len(body \o new) = Len(body) + Len(new)
    BY <1>1, <1>2, ConcatProperties
<1>5. /\ \A k \in 1..Len(body) : (body \o new)[k] = body[k]
      /\ \A k \in (Len(body) + 1)..(Len(body) + Len(new)) : (body \o new)[k] = new[k - Len(body)]
    BY <1>1, <1>2, Joined
<1>6. \A k \in (Len(body) + 1)..(Len(body) + count) : k - Len(body) \in 1..count
    BY <1>1
<1> QED BY <1>2, <1>3, <1>4, <1>5, <1>6

\* What remains of an answer remains after a field of it was read.
LEMMA ReadOn ==
    ASSUME TypeOK, NEW count \in Nat, count <= Len(rx), Consume(count),
           NEW field, Continue(field, count),
           NEW a \in Seq(0..255), Remains(a), Len(body) + count <= Len(a)
    PROVE  Remains(a)'
<1>1. /\ Len(rx) \in Nat /\ Len(body) \in Nat /\ Len(a) \in Nat
      /\ Len(rx') = Len(rx) - count /\ Len(body') = Len(body) + count
    BY Typed, Consumed, Continued, LenProperties
<1>2. Len(body') + Len(rx') \in {Len(a) + 1, Len(a) + 2} /\ Len(body') <= Len(a)
    <2>1. Len(body) + Len(rx) \in {Len(a) + 1, Len(a) + 2}
        BY DEF Remains
    <2>2. Len(body') + Len(rx') = Len(body) + Len(rx)
        BY <1>1
    <2> QED BY <1>1, <2>1, <2>2
<1>3. ASSUME NEW k \in 1..Len(body'), k < Len(a) PROVE body'[k] = a[k]
    <2>1. CASE k <= Len(body)
        BY <1>1, <1>3, <2>1, Continued DEF Remains
    <2>2. CASE k > Len(body)
        <3>1. k - Len(body) \in 1..count /\ Len(body) + (k - Len(body)) = k
            BY <1>1, <2>2
        <3>2. body'[k] = rx[k - Len(body)].n
            <4>1. k \in (Len(body) + 1)..Len(body')
                BY <1>1, <2>2
            <4> QED BY <4>1, Continued
        <3>3. ArrivesAs(a, k, rx[k - Len(body)])
            BY <1>1, <3>1 DEF Remains
        <3> QED BY <1>3, <3>2, <3>3 DEF ArrivesAs, Octet
    <2> QED BY <1>1, <2>1, <2>2
<1>4. ASSUME NEW k \in 1..Len(rx') PROVE ArrivesAs(a, Len(body') + k, rx'[k])
    <2>1. count + k \in 1..Len(rx) /\ rx'[k] = rx[count + k]
        BY Consumed
    <2>2. Len(body) + (count + k) = Len(body') + k
        BY <1>1
    <2> QED BY <2>1, <2>2 DEF Remains
<1> QED BY <1>2, <1>3, <1>4 DEF Remains, ArrivesAs

-----------------------------------------------------------------------------
(* The invariant, initially and in every step of the line.                 *)

LEMMA InitIInv == Init => IInv
<1> SUFFICES ASSUME Init PROVE IInv
    OBVIOUS
<1>1. TypeOK
    <2>1. register \in [Sensors -> Values] /\ had \subseteq Values
        BY ModbusAssumption DEF Init
    <2>2. rx \in Seq([n : 0..257, of : Seq(Int)]) /\ Len(rx) <= RxSize /\ body \in Seq(Int)
        BY ModbusAssumption DEF Init
    <2> QED BY <2>1, <2>2 DEF Init, TypeOK
<1>2. Genuine
    BY DEF Init, Genuine
<1>3. HeaderChecked /\ Expects
    BY DEF Init, HeaderChecked, Expects
<1> QED BY <1>1, <1>2, <1>3 DEF IInv

LEMMA StepDeliver == ASSUME IInv, Deliver PROVE IInv'
<1> PICK a : a = Head(due)
    OBVIOUS
<1>1. /\ due # <<>> /\ (orderly => at # "idle") /\ due' = Tail(due)
      /\ UNCHANGED <<orderly, register, at, asked, body, value, verdict, had>>
    BY DEF Deliver
<1>2. TypeOK /\ Genuine /\ HeaderChecked /\ (orderly => Expects)
    BY DEF IInv
<1>3. /\ a \in AllAnswers /\ due' \in Seq(AllAnswers)
      /\ a \in Seq(0..255) /\ Len(a) \in {3, 5, 6}
    <2>1. due \in Seq(AllAnswers) /\ due # <<>>
        BY <1>1, <1>2 DEF Genuine
    <2>2. a \in AllAnswers /\ due' \in Seq(AllAnswers)
        BY <1>1, <2>1, HeadTailProperties
    <2> QED BY <2>2, AllAnswersTyped
<1>4. PICK f \in Arrivals(a) : rx' = Received(f)
    BY DEF Deliver
<1>5. /\ f \in Seq(Bytes) /\ Len(f) \in {Len(a) + 1, Len(a) + 2}
      /\ \A k \in 1..Len(f) : f[k].n > 255 => f[k].of = a
      /\ orderly => \A k \in 1..Len(f) : ArrivesAs(a, k, f[k])
    BY <1>3, ArrivalFacts
<1>6. /\ rx' \in Seq(Bytes) /\ Len(rx') <= RxSize
      /\ \A k \in 1..Len(rx') : \/ k \in 1..Len(rx) /\ rx'[k] = rx[k]
                                \/ k - Len(rx) \in 1..Len(f) /\ rx'[k] = f[k - Len(rx)]
      /\ rx = <<>> /\ Len(f) <= RxSize => rx' = f
    BY <1>2, <1>4, <1>5, Typed, ReceivedFacts, ZenonT(60)
<1>7. TypeOK'
    BY <1>1, <1>2, <1>6 DEF TypeOK, Bytes
<1>8. Genuine'
    <2>1. \A k \in 1..Len(rx) : rx[k].n > 255 => rx[k].of \in AllAnswers
        BY <1>2 DEF Genuine
    <2>2. \A k \in 1..Len(rx') : rx'[k].n > 255 => rx'[k].of \in AllAnswers
        BY <1>3, <1>5, <1>6, <2>1, ZenonT(60)
    <2> QED BY <1>3, <2>2 DEF Genuine
<1>9. HeaderChecked'
    BY <1>1, <1>2 DEF HeaderChecked
<1>10. orderly' => Expects'
    <2> SUFFICES ASSUME orderly PROVE Expects'
        BY <1>1
    <2>1. at = "unit" /\ rx = <<>> /\ \E b \in OwnAnswers : due = <<b>>
        BY <1>1, <1>2 DEF Expects
    <2>2. a \in OwnAnswers /\ due' = <<>>
        BY <1>1, <2>1
    <2>3. rx' = f
        <3>1. Len(a) \in {3, 5, 6} /\ Len(f) \in {Len(a) + 1, Len(a) + 2}
            BY <1>3, <1>5
        <3>2. Len(f) \in Nat /\ Len(f) <= 8
            <4>1. ASSUME NEW n \in {3, 5, 6}, NEW m \in {n + 1, n + 2}
                  PROVE  m \in Nat /\ m <= 8
                OBVIOUS
            <4> QED BY <3>1, <4>1, Zenon
        <3>3. RxSize \in Nat /\ RxSize >= 8
            BY ModbusAssumption
        <3>4. Len(f) <= RxSize
            BY <3>2, <3>3
        <3> QED BY <1>6, <2>1, <3>4
    <2>4. body' = <<>>
        BY <1>1, <1>2, <2>1 DEF HeaderChecked
    <2>5. Remains(a)'
        <3>1. Len(body') = 0
            BY <2>4
        <3>2. \A k \in 1..Len(rx') : ArrivesAs(a, Len(body') + k, rx'[k])
            BY <1>5, <2>3, <3>1
        <3>3. /\ Len(body') + Len(rx') \in {Len(a) + 1, Len(a) + 2}
              /\ Len(body') <= Len(a)
              /\ \A k \in 1..Len(body') : k < Len(a) => body'[k] = a[k]
            BY <1>3, <1>5, <2>3, <3>1
        <3> QED BY <3>2, <3>3 DEF Remains, ArrivesAs
    <2>6. InStage(a)' /\ OwnAnswers' = OwnAnswers /\ at' = "unit"
        BY <1>1, <2>1 DEF InStage, OwnAnswers, Answers
    <2>7. \E b \in OwnAnswers' : Remains(b)' /\ InStage(b)'
        BY <2>2, <2>5, <2>6
    <2> QED BY <2>2, <2>6, <2>7 DEF Expects
<1> QED BY <1>7, <1>8, <1>9, <1>10 DEF IInv

LEMMA StepChange == ASSUME IInv, NEW s \in Sensors, Change(s) PROVE IInv'
<1>1. UNCHANGED <<orderly, due, rx, at, asked, body, value, verdict>>
    BY DEF Change
<1>2. TypeOK /\ Genuine /\ HeaderChecked /\ (orderly => Expects)
    BY DEF IInv
<1>3. PICK v \in Values :
        /\ register' = [register EXCEPT ![s] = v]
        /\ had' = IF at # "idle" /\ s = asked.sensor THEN had \cup {v} ELSE had
    BY DEF Change
<1>4. TypeOK'
    BY <1>1, <1>2, <1>3 DEF TypeOK
<1>5. Genuine' /\ HeaderChecked'
    BY <1>1, <1>2 DEF Genuine, HeaderChecked
<1>6. OwnAnswers \subseteq OwnAnswers'
    BY <1>1, <1>3 DEF OwnAnswers, Answers
<1>7. \A a : Remains(a)' = Remains(a) /\ InStage(a)' = InStage(a)
    BY <1>1 DEF Remains, InStage, ArrivesAs
<1>8. orderly' => Expects'
    BY <1>1, <1>2, <1>6, <1>7 DEF Expects
<1> QED BY <1>4, <1>5, <1>8 DEF IInv

LEMMA StepRequest == ASSUME IInv, NEW r \in Requests, Request(r) PROVE IInv'
<1> DEFINE held == register[r.sensor]
<1>1. /\ at = "idle" /\ asked' = r /\ at' = "unit" /\ body' = <<>>
      /\ value' = 0 /\ verdict' = "none" /\ orderly' = orderly /\ rx' = rx
    BY DEF Request
<1>2. TypeOK /\ Genuine /\ HeaderChecked /\ (orderly => Expects)
    BY DEF IInv
<1>3. held \in Values /\ r.sensor \in Sensors /\ r.value \in Values
    BY <1>2, RequestFacts DEF TypeOK
<1>4. \/ due' = due /\ register' = register /\ had' = {held}
      \/ \E a \in Answers(r, held) :
            /\ due' = Append(due, a)
            /\ register' = (IF a[2] = WriteFc THEN [register EXCEPT ![r.sensor] = r.value]
                                              ELSE register)
            /\ had' = {register'[r.sensor]}
    BY DEF Request, lineVars
<1> HIDE DEF held
<1>5. register' \in [Sensors -> Values] /\ had' \subseteq Values
    <2>1. register \in [Sensors -> Values]
        BY <1>2 DEF TypeOK
    <2>2. register' \in [Sensors -> Values]
        BY <1>3, <1>4, <2>1
    <2> QED BY <1>3, <1>4, <2>2
<1>6. TypeOK'
    BY <1>1, <1>2, <1>5 DEF TypeOK, Fields
<1>7. HeaderChecked'
    BY <1>1 DEF HeaderChecked
<1>8. due' = due \/ \E a \in OwnAnswers' : a \in AllAnswers /\ due' = Append(due, a)
    <2> SUFFICES ASSUME NEW a \in Answers(r, held), due' = Append(due, a),
                        register' = (IF a[2] = WriteFc
                                     THEN [register EXCEPT ![r.sensor] = r.value]
                                     ELSE register),
                        had' = {register'[r.sensor]}
                 PROVE  a \in OwnAnswers' /\ a \in AllAnswers
        BY <1>4
    <2>1. a \in AllAnswers
        BY <1>3 DEF AllAnswers
    <2>2. a \in Answers(r, register'[r.sensor])
        <3>1. CASE a[2] = WriteFc
            BY <1>3, <3>1, WriteAnswers
        <3>2. CASE a[2] # WriteFc
            BY <3>2 DEF held
        <3> QED BY <3>1, <3>2
    <2>3. OwnAnswers' = UNION {Answers(r, h) : h \in had'}
        BY <1>1 DEF OwnAnswers, Answers
    <2> QED BY <2>1, <2>2, <2>3
<1>9. Genuine'
    <2>1. due \in Seq(AllAnswers)
        BY <1>2 DEF Genuine
    <2>2. due' \in Seq(AllAnswers)
        BY <1>8, <2>1, AppendProperties
    <2> QED BY <1>1, <1>2, <2>2 DEF Genuine
<1>10. orderly' => Expects'
    <2> SUFFICES ASSUME orderly PROVE Expects'
        BY <1>1
    <2>1. rx = <<>> /\ due = <<>>
        BY <1>1, <1>2 DEF Expects
    <2>2. \A a : Append(due, a) = <<a>>
        BY <2>1
    <2> QED BY <1>1, <1>8, <2>1, <2>2 DEF Expects
<1> QED BY <1>6, <1>7, <1>9, <1>10 DEF IInv

LEMMA StepTimeout == ASSUME IInv, Timeout PROVE IInv'
<1>1. /\ rx' = <<>> /\ at' = "idle" /\ verdict' = "error" /\ body' = <<>> /\ had' = {}
      /\ value' = 0 /\ due' = (IF orderly THEN <<>> ELSE due)
      /\ UNCHANGED <<orderly, register, asked>>
    BY DEF Timeout, Return
<1>2. TypeOK /\ Genuine
    BY DEF IInv
<1>3. TypeOK'
    <2>1. rx' \in Seq([n : 0..257, of : Seq(Int)]) /\ Len(rx') <= RxSize /\ body' \in Seq(Int)
        BY <1>1, ModbusAssumption
    <2> QED BY <1>1, <1>2, <2>1 DEF TypeOK
<1>4. Genuine' /\ HeaderChecked' /\ (orderly' => Expects')
    <2>1. Genuine'
        BY <1>1, <1>2 DEF Genuine
    <2>2. HeaderChecked' /\ (orderly' => Expects')
        BY <1>1 DEF HeaderChecked, Expects
    <2> QED BY <2>1, <2>2
<1> QED BY <1>3, <1>4 DEF IInv

-----------------------------------------------------------------------------
(* The steps of the client.                                                *)

LEMMA OwnFacts ==
    ASSUME TypeOK, NEW a \in OwnAnswers
    PROVE  /\ a \in Seq(0..255) /\ a \in AllAnswers
           /\ Len(a) = 3 \/ Len(a) = 5 \/ Len(a) = 6
           /\ a[1] = Server[asked.sensor]
           /\ a[2] = asked.fc \/ a[2] = asked.fc + ExceptionBit
           /\ a[2] = ReadFc => Len(a) = 5 /\ a[3] = 2 /\ a[4] = 0 /\ a[5] \in had
           /\ a[2] = WriteFc => Len(a) = 6
           /\ a[2] > ExceptionBit => Len(a) = 3
<1>1. PICK h \in had : a \in Answers(asked, h)
    BY DEF OwnAnswers
<1>2. asked \in Requests /\ h \in Values
    BY <1>1 DEF TypeOK
<1>3. /\ a \in Seq(0..255) /\ Len(a) \in {3, 5, 6}
      /\ a[1] = Server[asked.sensor] /\ a[2] \in {asked.fc, asked.fc + ExceptionBit}
      /\ a[2] = ReadFc => Len(a) = 5 /\ a[3] = 2 /\ a[4] = 0 /\ a[5] = h
      /\ a[2] = WriteFc => Len(a) = 6
      /\ a[2] > ExceptionBit => Len(a) = 3
    BY <1>1, <1>2, AnswerFacts
<1> QED BY <1>1, <1>3, OwnIsAnswer

\* When something has arrived on an orderly line, it is the answer awaited.
LEMMA Awaited ==
    ASSUME IInv, orderly, at # "idle", rx # <<>>
    PROVE  due = <<>> /\ \E a \in OwnAnswers : Remains(a) /\ InStage(a)
BY DEF IInv, Expects

LEMMA OthersKept ==
    ASSUME IInv, NEW count \in Nat, count <= Len(rx), Consume(count),
           UNCHANGED <<lineVars, asked>>
    PROVE  Genuine' /\ rx' \in Seq(Bytes) /\ Len(rx') <= RxSize
<1>1. TypeOK /\ Genuine
    BY DEF IInv
<1>2. /\ rx' \in Seq(Bytes) /\ Len(rx') = Len(rx) - count
      /\ \A k \in 1..Len(rx') : count + k \in 1..Len(rx) /\ rx'[k] = rx[count + k]
    BY <1>1, Consumed
<1>3. \A k \in 1..Len(rx') : rx'[k].n > 255 => rx'[k].of \in AllAnswers
    BY <1>1, <1>2 DEF Genuine
<1>4. Len(rx') <= RxSize
    BY <1>1, <1>2, Typed
<1> QED BY <1>1, <1>2, <1>3, <1>4 DEF Genuine, lineVars

\* A field is read and the next one awaited.
LEMMA GoesOn ==
    ASSUME IInv, NEW count \in Nat, count <= Len(rx), Consume(count),
           NEW field \in Fields, Continue(field, count), UNCHANGED <<lineVars, asked>>
    PROVE  TypeOK' /\ Genuine'
<1>1. TypeOK
    BY DEF IInv
<1>2. Genuine' /\ rx' \in Seq(Bytes) /\ Len(rx') <= RxSize
    BY OthersKept
<1>3. body' \in Seq(Int)
    BY <1>1, Continued
<1>4. value' \in Int
    <2>1. value \in Int
        BY <1>1 DEF TypeOK
    <2>2. ASSUME count >= 2 PROVE 256 * rx[1].n + rx[2].n \in Int
        <3>1. 1 \in 1..Len(rx) /\ 2 \in 1..Len(rx)
            BY <1>1, <2>2, Typed
        <3>2. rx[1].n \in 0..257 /\ rx[2].n \in 0..257
            BY <1>1, <3>1, Typed
        <3>3. \A p \in 0..257, q \in 0..257 : 256 * p + q \in Int
            OBVIOUS
        <3> QED BY <3>2, <3>3, Zenon
    <2>3. value' = (IF field = "crc" /\ at = "data" /\ count >= 2
                    THEN 256 * rx[1].n + rx[2].n ELSE value)
        BY DEF Continue
    <2> QED BY <2>1, <2>2, <2>3, Zenon
<1> QED BY <1>1, <1>2, <1>3, <1>4 DEF TypeOK, Continue, lineVars, Bytes

\* On an orderly line the rest of the answer is then what is awaited.
LEMMA StillAwaited ==
    ASSUME IInv, NEW count \in Nat, count <= Len(rx), Consume(count),
           NEW field \in Fields, Continue(field, count), UNCHANGED <<lineVars, asked>>,
           NEW a \in OwnAnswers, Remains(a), due = <<>>, Len(body) + count <= Len(a),
           InStage(a)'
    PROVE  Expects'
<1>1. TypeOK
    BY DEF IInv
<1>2. a \in Seq(0..255)
    BY <1>1, OwnFacts
<1>3. Remains(a)'
    BY <1>1, <1>2, ReadOn
<1>4. OwnAnswers' = OwnAnswers /\ due' = <<>> /\ at' # "idle"
    BY DEF OwnAnswers, Answers, Continue, lineVars, Fields
<1>5. \E b \in OwnAnswers' : Remains(b)' /\ InStage(b)'
    BY <1>3, <1>4
<1> QED BY <1>4, <1>5 DEF Expects

\* The exchange ends after a field.
LEMMA Ends ==
    ASSUME IInv, NEW count \in Nat, count <= Len(rx), Consume(count),
           NEW result \in {"ok", "error"}, Return(result), UNCHANGED <<lineVars, asked>>
    PROVE  TypeOK' /\ Genuine' /\ HeaderChecked'
<1>1. TypeOK /\ Genuine' /\ rx' \in Seq(Bytes) /\ Len(rx') <= RxSize
    BY OthersKept DEF IInv
<1>2. body' \in Seq(Int) /\ had' \subseteq Values /\ value' \in Int
    BY DEF Return
<1>3. TypeOK'
    BY <1>1, <1>2 DEF TypeOK, Return, lineVars, Bytes
<1>4. HeaderChecked'
    BY DEF Return, HeaderChecked
<1> QED BY <1>1, <1>3, <1>4

LEMMA StepRecvUnit == ASSUME IInv, RecvUnit PROVE IInv'
<1>1. /\ at = "unit" /\ Len(rx) >= 1 /\ Consume(1) /\ Continue("fc", 1)
      /\ UNCHANGED <<lineVars, asked>>
    BY DEF RecvUnit, Gets
<1>2. TypeOK /\ body = <<>>
    BY <1>1 DEF IInv, HeaderChecked
<1>3. TypeOK' /\ Genuine'
    BY <1>1, <1>2, GoesOn, Typed DEF Fields
<1>4. at' = "fc" /\ Len(body') = 1 /\ Len(body) = 0
    BY <1>1, <1>2, Continued, Typed DEF Continue
<1>5. HeaderChecked'
    BY <1>4 DEF HeaderChecked
<1>6. ASSUME orderly PROVE Expects'
    <2>1. rx # <<>>
        BY <1>1
    <2>2. PICK a \in OwnAnswers : Remains(a) /\ due = <<>>
        BY <1>1, <1>6, <2>1, Awaited
    <2>3. Len(body) + 1 <= Len(a)
        BY <1>2, <1>4, OwnFacts
    <2>4. InStage(a)'
        BY <1>4 DEF InStage
    <2> QED BY <1>1, <1>2, <2>2, <2>3, <2>4, StillAwaited, Typed DEF Fields
<1> QED BY <1>1, <1>3, <1>5, <1>6 DEF IInv, lineVars

LEMMA StepRecvFc == ASSUME IInv, RecvFc PROVE IInv'
<1> PICK next : next = IF rx[1].n = asked.fc + ExceptionBit THEN "exception"
                       ELSE IF asked.fc = ReadFc THEN "count" ELSE "echo"
    OBVIOUS
<1>1. /\ at = "fc" /\ Len(rx) >= 1 /\ Consume(1) /\ UNCHANGED <<lineVars, asked>>
      /\ rx # <<>>
    BY DEF RecvFc, Gets
<1>2. TypeOK /\ Len(body) = 1
    BY <1>1 DEF IInv, HeaderChecked
<1>3. 1 <= Len(rx) /\ 1 \in 1..Len(rx)
    BY <1>1, <1>2, Typed
<1>4. \/ /\ Return("error")
         /\ \/ body[1] # Server[asked.sensor]
            \/ rx[1].n \notin {asked.fc, asked.fc + ExceptionBit}
      \/ /\ Continue(next, 1) /\ body[1] = Server[asked.sensor]
         /\ rx[1].n \in {asked.fc, asked.fc + ExceptionBit}
    <2>1. CASE body[1] # Server[asked.sensor]
        BY <2>1 DEF RecvFc, RightUnit
    <2>2. CASE /\ body[1] = Server[asked.sensor]
               /\ rx[1].n \notin {asked.fc, asked.fc + ExceptionBit}
        BY <2>2 DEF RecvFc, RightUnit
    <2>3. CASE /\ body[1] = Server[asked.sensor]
               /\ rx[1].n \in {asked.fc, asked.fc + ExceptionBit}
        BY <2>3 DEF RecvFc, RightUnit
    <2> QED BY <2>1, <2>2, <2>3
<1>5. ASSUME orderly, NEW a \in OwnAnswers, Remains(a)
      PROVE  body[1] = a[1] /\ rx[1].n = a[2] /\ 2 < Len(a)
    <2>1. Len(a) = 3 \/ Len(a) = 5 \/ Len(a) = 6
        BY <1>2, OwnFacts
    <2>2. 2 < Len(a) /\ 1 < Len(a)
        BY <2>1, SMTT(60)
    <2>3. body[1] = a[1]
        BY <1>2, <1>5, <2>2 DEF Remains
    <2>4. ArrivesAs(a, 2, rx[1])
        <3>1. ArrivesAs(a, Len(body) + 1, rx[1])
            BY <1>3, <1>5 DEF Remains
        <3>2. Len(body) + 1 = 2
            BY <1>2
        <3> QED BY <3>1, <3>2
    <2>5. rx[1].n = a[2]
        BY <2>2, <2>4 DEF ArrivesAs, Octet
    <2> QED BY <2>2, <2>3, <2>5
<1>6. CASE /\ Return("error")
           /\ \/ body[1] # Server[asked.sensor]
              \/ rx[1].n \notin {asked.fc, asked.fc + ExceptionBit}
    <2>1. TypeOK' /\ Genuine' /\ HeaderChecked'
        BY <1>1, <1>3, <1>6, Ends
    <2>2. ~orderly
        <3> SUFFICES ASSUME orderly PROVE FALSE
            OBVIOUS
        <3>1. PICK a \in OwnAnswers : Remains(a)
            BY <1>1, Awaited
        <3> QED BY <1>2, <1>5, <1>6, <3>1, OwnFacts
    <2> QED BY <1>1, <2>1, <2>2 DEF IInv, lineVars
<1>7. CASE /\ Continue(next, 1) /\ body[1] = Server[asked.sensor]
           /\ rx[1].n \in {asked.fc, asked.fc + ExceptionBit}
    <2>1. next \in Fields /\ next \in {"exception", "count", "echo"} /\ at' = next
        BY <1>7 DEF Fields, Continue
    <2>2. TypeOK' /\ Genuine'
        BY <1>1, <1>3, <1>7, <2>1, GoesOn
    <2>3. Len(body') = 2 /\ body'[1] = body[1]
        <3>1. /\ Len(body') = Len(body) + 1
              /\ \A k \in 1..Len(body) : body'[k] = body[k]
            BY <1>2, <1>3, <1>7, Continued
        <3> QED BY <1>2, <3>1
    <2>4. HeaderChecked'
        BY <1>1, <1>7, <2>1, <2>3 DEF HeaderChecked
    <2>5. ASSUME orderly PROVE Expects'
        <3>1. PICK a \in OwnAnswers : Remains(a) /\ due = <<>>
            BY <1>1, <2>5, Awaited
        <3>2. rx[1].n = a[2] /\ 2 < Len(a) /\ Len(body) + 1 <= Len(a)
            BY <1>2, <1>5, <2>5, <3>1, OwnFacts
        <3>3. asked.fc = 3 \/ asked.fc = 6
            BY <1>2, RequestFacts DEF TypeOK, ReadFc, WriteFc
        <3>4. InStage(a)'
            BY <1>7, <2>1, <3>2, <3>3 DEF InStage, ReadFc, WriteFc, ExceptionBit
        <3> QED BY <1>1, <1>3, <1>7, <2>1, <3>1, <3>2, <3>4, StillAwaited
    <2> QED BY <1>1, <2>2, <2>4, <2>5 DEF IInv, lineVars
<1> QED BY <1>4, <1>6, <1>7

LEMMA StepRecvCount == ASSUME IInv, RecvCount PROVE IInv'
<1>1. /\ at = "count" /\ Len(rx) >= 1 /\ Consume(1) /\ Continue("data", 1)
      /\ UNCHANGED <<lineVars, asked>> /\ rx # <<>>
    BY DEF RecvCount, Gets
<1>2. TypeOK /\ Len(body) = 2 /\ body[1] = Server[asked.sensor]
    BY <1>1 DEF IInv, HeaderChecked
<1>3. 1 <= Len(rx) /\ 1 \in 1..Len(rx) /\ "data" \in Fields /\ 1 \in Nat
    BY <1>1, <1>2, Typed DEF Fields
<1>4. TypeOK' /\ Genuine'
    BY <1>1, <1>3, GoesOn
<1>5. /\ Len(body') = Len(body) + 1
      /\ \A k \in 1..Len(body) : body'[k] = body[k]
      /\ \A k \in (Len(body) + 1)..Len(body') : body'[k] = rx[k - Len(body)].n
    BY <1>1, <1>2, <1>3, Continued
<1>6. Len(body') = 3 /\ body'[1] = body[1] /\ body'[2] = body[2] /\ body'[3] = rx[1].n
    BY <1>2, <1>5
<1>7. rx[1].n \in 0..257 /\ at' = "data"
    BY <1>1, <1>2, <1>3, Typed DEF Continue
<1>8. HeaderChecked'
    BY <1>1, <1>2, <1>6, <1>7 DEF HeaderChecked, lineVars
<1>9. ASSUME orderly PROVE Expects'
    <2>1. PICK a \in OwnAnswers : Remains(a) /\ InStage(a) /\ due = <<>>
        BY <1>1, <1>9, Awaited
    <2>2. a[2] = ReadFc
        BY <1>1, <2>1 DEF InStage
    <2>3. Len(a) = 5 /\ a[3] = 2
        BY <1>2, <2>2, OwnFacts
    <2>4. ArrivesAs(a, 3, rx[1])
        <3>1. ArrivesAs(a, Len(body) + 1, rx[1])
            BY <1>3, <2>1 DEF Remains
        <3>2. Len(body) + 1 = 3
            BY <1>2
        <3> QED BY <3>1, <3>2
    <2>5. rx[1].n = 2
        BY <2>3, <2>4 DEF ArrivesAs, Octet
    <2>6. InStage(a)'
        BY <1>6, <1>7, <2>2, <2>5 DEF InStage
    <2>7. Len(body) + 1 <= Len(a)
        BY <1>2, <2>3
    <2> QED BY <1>1, <1>3, <2>1, <2>6, <2>7, StillAwaited
<1> QED BY <1>1, <1>4, <1>8, <1>9 DEF IInv, lineVars

LEMMA StepRecvData == ASSUME IInv, RecvData PROVE IInv'
<1> PICK count : count = body[3]
    OBVIOUS
<1>1. /\ at = "data" /\ Len(rx) >= count /\ Consume(count) /\ Continue("crc", count)
      /\ UNCHANGED <<lineVars, asked>>
    BY DEF RecvData, Gets
<1>2. /\ TypeOK /\ Len(body) = 3 /\ count \in 0..257 /\ body[1] = Server[asked.sensor]
    BY <1>1 DEF IInv, HeaderChecked
<1>3. count <= Len(rx) /\ "crc" \in Fields /\ count \in Nat
    <2>1. ASSUME NEW m \in 0..257, NEW n \in Nat, n >= m PROVE m <= n /\ m \in Nat
        BY <2>1
    <2>2. Len(rx) \in Nat /\ Len(rx) >= count /\ count \in 0..257
        BY <1>1, <1>2, Typed
    <2> QED BY <2>1, <2>2 DEF Fields
<1>4. TypeOK' /\ Genuine'
    BY <1>1, <1>3, GoesOn
<1>5. /\ Len(body') = Len(body) + count
      /\ \A k \in 1..Len(body) : body'[k] = body[k]
      /\ \A k \in (Len(body) + 1)..Len(body') : body'[k] = rx[k - Len(body)].n
    BY <1>1, <1>2, <1>3, Continued
<1>6. Len(body') >= 2 /\ body'[1] = body[1] /\ at' = "crc"
    <2>1. Len(body') = 3 + count /\ 1 \in 1..Len(body)
        BY <1>2, <1>5
    <2>2. Len(body') >= 2
        BY <1>3, <2>1
    <2> QED BY <1>1, <1>5, <2>1, <2>2 DEF Continue
<1>7. HeaderChecked'
    BY <1>1, <1>2, <1>6 DEF HeaderChecked, lineVars
<1>8. ASSUME orderly PROVE Expects'
    <2>1. PICK a \in OwnAnswers : Remains(a) /\ InStage(a) /\ due = <<>>
        <3>1. at # "idle" /\ at # "unit"
            BY <1>1
        <3> QED BY <1>8, <3>1 DEF IInv, Expects
    <2>2. a[2] = ReadFc /\ count = 2
        BY <1>1, <2>1 DEF InStage
    <2>3. Len(a) = 5
        BY <1>2, <2>2, OwnFacts
    <2>4. Len(body') = 5 /\ body'[4] = rx[1].n /\ body'[5] = rx[2].n
        BY <1>2, <1>5, <2>2
    <2>5. value' = 256 * rx[1].n + rx[2].n
        BY <1>1, <2>2 DEF Continue
    <2>6. InStage(a)'
        BY <1>6, <2>3, <2>4, <2>5 DEF InStage
    <2>7. Len(body) + count <= Len(a)
        BY <1>2, <2>2, <2>3
    <2> QED BY <1>1, <1>3, <2>1, <2>6, <2>7, StillAwaited
<1> QED BY <1>1, <1>4, <1>7, <1>8 DEF IInv, lineVars

\* The four bytes of an echo, or the one of an exception: the last field of the
\* answer in front of its CRC.
LEMMA StepLastField ==
    ASSUME IInv, NEW field \in {"echo", "exception"}, at = field,
           NEW count \in Nat, count <= Len(rx), Consume(count), Continue("crc", count),
           UNCHANGED <<lineVars, asked>>,
           \A a \in OwnAnswers : InStage(a) => Len(a) = 2 + count /\ a[2] # ReadFc
    PROVE  IInv'
<1>1. TypeOK /\ Len(body) = 2 /\ body[1] = Server[asked.sensor] /\ "crc" \in Fields
    BY DEF IInv, HeaderChecked, Fields
<1>2. TypeOK' /\ Genuine'
    BY <1>1, GoesOn
<1>3. /\ Len(body') = Len(body) + count
      /\ \A k \in 1..Len(body) : body'[k] = body[k]
    BY <1>1, Continued
<1>4. Len(body') = 2 + count /\ body'[1] = body[1] /\ at' = "crc"
    BY <1>1, <1>3 DEF Continue
<1>5. HeaderChecked'
    BY <1>1, <1>4 DEF HeaderChecked, lineVars
<1>6. ASSUME orderly PROVE Expects'
    <2>1. PICK a \in OwnAnswers : Remains(a) /\ InStage(a) /\ due = <<>>
        <3>1. at # "idle" /\ at # "unit"
            OBVIOUS
        <3> QED BY <1>6, <3>1 DEF IInv, Expects
    <2>2. Len(a) = 2 + count /\ a[2] # ReadFc
        BY <2>1
    <2>3. InStage(a)'
        BY <1>4, <2>2 DEF InStage
    <2>4. Len(body) + count <= Len(a)
        BY <1>1, <2>2
    <2> QED BY <1>1, <2>1, <2>3, <2>4, StillAwaited
<1> QED BY <1>2, <1>5, <1>6 DEF IInv, lineVars

LEMMA StepRecvEcho == ASSUME IInv, RecvEcho PROVE IInv'
<1>1. /\ at = "echo" /\ Len(rx) >= 4 /\ Consume(4) /\ Continue("crc", 4)
      /\ UNCHANGED <<lineVars, asked>>
    BY DEF RecvEcho, Gets
<1>2. TypeOK /\ 4 \in Nat /\ 4 <= Len(rx)
    BY <1>1, Typed DEF IInv
<1>3. ASSUME NEW a \in OwnAnswers, InStage(a) PROVE Len(a) = 2 + 4 /\ a[2] # ReadFc
    BY <1>1, <1>2, <1>3, OwnFacts DEF InStage, ReadFc, WriteFc
<1> QED BY <1>1, <1>2, <1>3, StepLastField

LEMMA StepRecvException == ASSUME IInv, RecvException PROVE IInv'
<1>1. /\ at = "exception" /\ Len(rx) >= 1 /\ Consume(1) /\ Continue("crc", 1)
      /\ UNCHANGED <<lineVars, asked>>
    BY DEF RecvException, Gets
<1>2. TypeOK /\ 1 \in Nat /\ 1 <= Len(rx)
    BY <1>1, Typed DEF IInv
<1>3. ASSUME NEW a \in OwnAnswers, InStage(a) PROVE Len(a) = 2 + 1 /\ a[2] # ReadFc
    BY <1>1, <1>2, <1>3, OwnFacts DEF InStage, ReadFc, ExceptionBit
<1> QED BY <1>1, <1>2, <1>3, StepLastField

LEMMA StepRecvCrc == ASSUME IInv, RecvCrc PROVE IInv'
<1> PICK result : result = IF Accepted THEN "ok" ELSE "error"
    OBVIOUS
<1>1. /\ at = "crc" /\ Len(rx) >= 2 /\ Consume(2) /\ Return(result)
      /\ UNCHANGED <<lineVars, asked>> /\ result \in {"ok", "error"}
    BY DEF RecvCrc, Gets
<1>2. TypeOK /\ 2 \in Nat /\ 2 <= Len(rx)
    BY <1>1, Typed DEF IInv
<1>3. TypeOK' /\ Genuine' /\ HeaderChecked'
    BY <1>1, <1>2, Ends
<1>4. ASSUME orderly PROVE Expects'
    <2>1. PICK a \in OwnAnswers : Remains(a) /\ InStage(a) /\ due = <<>>
        <3>1. at # "idle" /\ at # "unit"
            BY <1>1
        <3> QED BY <1>4, <3>1 DEF IInv, Expects
    <2>2. Len(body) = Len(a) /\ Len(body) + Len(rx) \in {Len(a) + 1, Len(a) + 2}
        BY <1>1, <2>1 DEF InStage, Remains
    <2>3. Len(rx') = Len(rx) - 2 /\ rx' \in Seq(Bytes)
        BY <1>1, <1>2, Consumed
    <2>4. Len(rx) = 2
        <3>1. Len(body) \in Nat /\ Len(rx) \in Nat
            BY <1>2, Typed
        <3>2. ASSUME NEW m \in Nat, NEW n \in Nat, m + n \in {m + 1, m + 2}, n >= 2
              PROVE  n = 2
            BY <3>2
        <3> QED BY <1>1, <2>2, <3>1, <3>2
    <2>5. rx' = <<>>
        BY <2>3, <2>4, EmptySeq
    <2> QED BY <1>1, <2>1, <2>5 DEF Expects, Return, lineVars
<1> QED BY <1>1, <1>3, <1>4 DEF IInv, lineVars

LEMMA NextIInv == IInv /\ [Next]_vars => IInv'
<1> SUFFICES ASSUME IInv, [Next]_vars PROVE IInv'
    OBVIOUS
<1>1. CASE UNCHANGED vars
    <2>1. TypeOK' /\ Genuine' /\ HeaderChecked'
        BY <1>1 DEF IInv, TypeOK, Genuine, HeaderChecked, vars, lineVars
    <2>2. OwnAnswers' = OwnAnswers
        BY <1>1 DEF OwnAnswers, Answers, vars
    <2>3. \A a : Remains(a)' = Remains(a) /\ InStage(a)' = InStage(a)
        BY <1>1 DEF Remains, InStage, ArrivesAs, vars
    <2>4. orderly' => Expects'
        BY <1>1, <2>2, <2>3 DEF IInv, Expects, vars, lineVars
    <2> QED BY <2>1, <2>4 DEF IInv
<1>2. CASE Deliver
    BY <1>2, StepDeliver
<1>3. CASE Client
    BY <1>3, StepTimeout, StepRecvUnit, StepRecvFc, StepRecvCount, StepRecvData,
       StepRecvEcho, StepRecvException, StepRecvCrc DEF Client
<1>4. CASE \E s \in Sensors : Change(s)
    BY <1>4, StepChange
<1>5. CASE \E r \in Requests : Request(r)
    BY <1>5, StepRequest
<1> QED BY <1>1, <1>2, <1>3, <1>4, <1>5 DEF Next

LEMMA Invariant == Spec => []IInv
BY InitIInv, NextIInv, PTL DEF Spec

-----------------------------------------------------------------------------
(* The results.                                                            *)

\* However many answers are lost, damaged, late or out of place, the receive
\* ring never holds more than it can, and an orderly line leaves it empty
\* between two exchanges (PicoUart.cpp:115, ModbusClient.cpp:29).
THEOREM RingLeftEmpty == Spec => []PollingInv
<1>1. IInv => PollingInv
    BY DEF IInv, PollingInv, NothingLeftOver, Expects
<1> QED BY <1>1, Invariant, PTL

\* An exchange reported good ended with a CRC that fits.
LEMMA ReportedGood ==
    ASSUME IInv, [Next]_vars, at = "crc", at' = "idle", verdict' = "ok"
    PROVE  Accepted /\ Len(rx) >= 2
<1>1. Client \/ ~Client
    OBVIOUS
<1>2. ~Deliver /\ ~UNCHANGED vars
    BY DEF Deliver, vars
<1>3. ~(\E s \in Sensors : Change(s)) /\ ~(\E r \in Requests : Request(r))
    BY DEF Change, Request
<1>4. ~Timeout
    BY DEF Timeout, Return
<1>5. ~RecvUnit /\ ~RecvFc /\ ~RecvCount /\ ~RecvData /\ ~RecvEcho /\ ~RecvException
    BY DEF RecvUnit, RecvFc, RecvCount, RecvData, RecvEcho, RecvException, Gets
<1>6. RecvCrc
    BY <1>2, <1>3, <1>4, <1>5 DEF Next, Client
<1> QED BY <1>6 DEF RecvCrc, Return, Gets

\* A garbled line and a parser out of step do not make up an answer: one that
\* is reported good was sent, whole, by the device addressed and to a request
\* of that kind (nanomodbus.c:378-393, 574-606).
THEOREM GoodAnswersAreSent == Spec => AcceptedIsGenuine
<1> DEFINE Sent == \E r \in Requests, v \in Values :
                      /\ Server[r.sensor] = Server[asked.sensor] /\ r.fc = asked.fc
                      /\ body \in Answers(r, v)
<1>1. ASSUME IInv, [Next]_vars, at = "crc", at' = "idle", verdict' = "ok" PROVE Sent
    <2>1. TypeOK /\ Accepted /\ Len(rx) >= 2
        BY <1>1, ReportedGood DEF IInv
    <2>2. rx[1].n = 256 /\ rx[1].of = body /\ 1 \in 1..Len(rx)
        <3>1. SubSeq(rx, 1, 2) = Crc(body)
            BY <2>1 DEF Accepted, CrcMatches
        <3>2. rx[1] = SubSeq(rx, 1, 2)[1]
            BY <2>1, Typed
        <3>3. Crc(body)[1] = [n |-> 256, of |-> body]
            BY DEF Crc
        <3> QED BY <2>1, <3>1, <3>2, <3>3, Typed
    <2>3. PICK r \in Requests, v \in Values : body \in Answers(r, v)
        BY <1>1, <2>2 DEF IInv, Genuine, AllAnswers
    <2>4. /\ body[1] = Server[r.sensor] /\ body[1] = Server[asked.sensor]
        BY <1>1, <2>3, AnswerFacts DEF IInv, HeaderChecked
    <2>5. r.fc = asked.fc
        <3>1. body[2] = r.fc \/ body[2] = r.fc + ExceptionBit
            BY <2>3, AnswerFacts
        <3>2. body[2] = asked.fc
            BY <2>1 DEF Accepted
        <3>3. r.fc \in {3, 6} /\ asked.fc \in {3, 6}
            BY <2>1, RequestFacts DEF TypeOK, ReadFc, WriteFc
        <3> QED BY <3>1, <3>2, <3>3 DEF ExceptionBit
    <2> QED BY <2>3, <2>4, <2>5
<1>2. IInv /\ [Next]_vars =>
        [at = "crc" /\ at' = "idle" /\ verdict' = "ok" => Sent]_vars
    BY <1>1
<1> QED BY <1>2, Invariant, PTL DEF Spec, AcceptedIsGenuine

\* On an orderly line a reading that is reported good is what the register
\* asked for held at some moment since it was asked for, never an older value
\* or one of another register (ModbusRegister.cpp:7-12).
THEOREM GoodReadingsAreCurrent == Spec => ReadingIsCurrent
<1>1. ASSUME IInv, [Next]_vars, orderly, at = "crc", at' = "idle", verdict' = "ok",
             asked.fc = ReadFc
      PROVE  value \in had
    <2>1. TypeOK /\ Accepted /\ Len(rx) >= 2
        BY <1>1, ReportedGood DEF IInv
    <2>2. PICK a \in OwnAnswers : Remains(a) /\ InStage(a)
        BY <1>1 DEF IInv, Expects
    <2>3. /\ Len(body) = Len(a) /\ Len(a) \in Nat
          /\ a[2] = ReadFc => value = 256 * body[4] + body[5]
        BY <1>1, <2>1, <2>2, Typed DEF InStage
    <2>4. rx[1] = Crc(a)[1]
        <3>1. 1 \in 1..Len(rx)
            BY <2>1, Typed
        <3>2. ArrivesAs(a, Len(body) + 1, rx[1])
            BY <2>2, <3>1 DEF Remains
        <3>3. Len(body) + 1 > Len(a) /\ (Len(body) + 1) - Len(a) = 1
            BY <2>3
        <3> QED BY <3>2, <3>3 DEF ArrivesAs
    <2>5. rx[1] = Crc(body)[1]
        <3>1. SubSeq(rx, 1, 2) = Crc(body)
            BY <2>1 DEF Accepted, CrcMatches
        <3>2. rx[1] = SubSeq(rx, 1, 2)[1]
            BY <2>1, Typed
        <3> QED BY <3>1, <3>2
    <2>6. body = a
        BY <2>4, <2>5 DEF Crc
    <2>7. a[2] = ReadFc
        BY <1>1, <2>1, <2>6 DEF Accepted
    <2>8. a[4] = 0 /\ a[5] \in had
        BY <2>1, <2>7, OwnFacts
    <2>9. a[5] \in 0..255
        <3>1. had \subseteq Values /\ Values \subseteq 0..255
            BY <2>1, Typed, ModbusAssumption
        <3> QED BY <2>8, <3>1
    <2>10. value = 256 * 0 + a[5]
        BY <2>3, <2>6, <2>7, <2>8
    <2>11. \A n \in 0..255 : 256 * 0 + n = n
        OBVIOUS
    <2> QED BY <2>8, <2>9, <2>10, <2>11
<1>2. IInv /\ [Next]_vars =>
        [orderly /\ at = "crc" /\ at' = "idle" /\ verdict' = "ok" /\ asked.fc = ReadFc
           => value \in had]_vars
    BY <1>1
<1> QED BY <1>2, Invariant, PTL DEF Spec, ReadingIsCurrent
=============================================================================
