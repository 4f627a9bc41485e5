------------------------------- MODULE Codecs -------------------------------
(***************************************************************************)
(* The encodings of the program against their reference definitions, over  *)
(* bounded inputs: a state holds one input, and the invariants below meet  *)
(* each of them.  IpReceive is here for its assumption on the constants;   *)
(* its behaviour is proved in Network_proofs.                             *)
(***************************************************************************)
EXTENDS IpReceive, ModbusExchange, EepromRecords

Mqtt == INSTANCE MqttHandlers
Air == INSTANCE SensorReadings

VARIABLE input          \* [kind |-> "none"], or a kind and its fields

Idle == [kind |-> "none"]

-----------------------------------------------------------------------------
(* Modbus calls to the server with address 1, and its neighbour 2. *)

Seed == [k \in {Coils, Inputs} \X (0..10) |-> IF k[2] % 3 = 0 THEN 1 ELSE 0]
        @@ [k \in {Holding, InputRegisters} \X (0..3) |-> 257 * k[2] + 1]
        @@ (<<9, 4>> :> 40000) @@ (<<9, 5>> :> 7)

Server(absent, failing) ==
    [address |-> 1, store |-> Seed, absent |-> absent, failing |-> failing]
Neighbour == [Server({}, {}) EXCEPT !.address = 2]

Call(fc, a, n, w, data) == [fc |-> fc, a |-> a, n |-> n, w |-> w, data |-> data]

Calls ==
    {Call(fc, a, n, 0, <<>>) : fc \in Reads, a \in {0, 2}, n \in {1, 9}}
    \cup {Call(5, a, n, 0, <<>>) : a \in {0, 300}, n \in {0, 1}}
    \cup {Call(6, a, n, 0, <<>>) : a \in {0, 300}, n \in {0, 1000}}
    \cup {Call(15, 1, 3, 0, <<5>>), Call(15, 0, 9, 0, <<255, 1>>),
          Call(16, 1, 2, 0, <<65535, 3>>), Call(20, 4, 2, 9, <<>>),
          Call(20, 0, 1, 8, <<>>), Call(21, 4, 2, 9, <<1, 65280>>),
          Call(23, 1, 2, 2, <<700>>), Call(23, 0, 1, 5, <<1, 2>>)}
    \cup {Call(3, 65535, 2, 0, <<>>), Call(1, 0, 0, 0, <<>>), Call(20, 0, 1, 0, <<>>)}

ModbusCases ==
    [kind : {"call"}, transport : {"rtu", "tcp"}, unit : {0, 1, 3}, call : Calls,
     absent : {{}, {"read"}}, failing : {{}, {"read"}, {"write"}}]

ExchangeOf(i) == Called(i.transport, 1, i.unit, i.call, Server(i.absent, i.failing))

\* What a call should do to a server's values, in registers and bits.
Effect(c, store) ==
    CASE c.fc = 5  -> WithValues(store, Coils, c.a, <<c.n>>)
      [] c.fc = 15 -> WithValues(store, Coils, c.a, Bits(c.data, c.n))
      [] c.fc = 6  -> WithValues(store, Holding, c.a, <<c.n>>)
      [] c.fc = 16 -> WithValues(store, Holding, c.a, c.data)
      [] c.fc = 21 -> WithValues(store, c.w, c.a, c.data)
      [] c.fc = 23 -> WithValues(store, Holding, c.w, c.data)
      [] OTHER     -> store

Asked(c, store) ==
    CASE c.fc \in {1, 2} -> Packed(Values(store, Table(c.fc), c.a, c.n))
      [] c.fc \in {3, 4, 23} -> Values(store, Table(c.fc), c.a, c.n)
      [] c.fc = 20 -> Values(store, c.w, c.a, c.n)
      [] OTHER     -> <<>>

\* What r, the outcome of the exchange i, should be.
RightOutcome(i, r) ==
    LET all   == i.transport = "rtu" /\ i.unit = 0
        heard == i.unit = 1 \/ i.transport = "tcp" \/ all
        need  == CallbacksOf(i.call.fc)
        runs  == IF all /\ i.call.fc = 23 THEN {"write"} ELSE need
        done  == /\ Allowed(i.call) /\ heard
                 /\ need \cap i.absent = {} /\ "write" \notin runs \cap i.failing
    IN  /\ r.store = IF done THEN Effect(i.call, Seed) ELSE Seed
        /\ r.err = IF ~Allowed(i.call) THEN "argument"
                   ELSE IF all /\ i.call.fc \notin Reads THEN "none"
                   ELSE IF ~heard \/ (all /\ done /\ runs \cap i.failing = {}) THEN "timeout"
                   ELSE IF done /\ runs \cap i.failing = {} THEN "none" ELSE "exception"
        /\ r.result = IF r.err = "none" /\ ~all THEN Asked(i.call, r.store) ELSE <<>>

\* Every call of nanomodbus has the effect and the result its name promises,
\* through its own bytes: refused arguments send nothing, a broadcast writes
\* and answers nothing, another unit stays silent, a failing callback is
\* reported, and a failed read half of a read/write leaves the write done.
ExchangeAsPromised == input.kind = "call" => RightOutcome(input, ExchangeOf(input))

\* A server that overhears an exchange with its neighbour changes nothing,
\* and is in step again after one poll.  It takes the answer of a read/write
\* of registers for another one's: there only its values are safe.
BystanderUnmoved ==
    input.kind = "call" /\ input.transport = "rtu" /\ input.unit = 1 /\ Allowed(input.call) =>
        LET request == Request("rtu", 1, 1, input.call)
            answer  == Poll("rtu", Server(input.absent, input.failing), request).reply
        IN  /\ Polled("rtu", Neighbour, request \o answer) = Seed
            /\ input.call.fc # 23 => Poll("rtu", Neighbour, request \o answer).left = <<>>

\* The largest quantities the client takes are taken by the server too, and
\* their frames keep the sizes of the standard; the length in a TCP header
\* is what follows it, one less in the answer to a file read.
Largest ==
    {Call(fc, 65536 - Limit(fc), Limit(fc), 0, <<>>) : fc \in Reads}
    \cup {Call(15, 0, 1968, 0, [k \in 1..246 |-> 170]),
          Call(16, 65413, 123, 0, [k \in 1..123 |-> k]),
          Call(20, 9999, 124, 65535, <<>>), Call(21, 9999, 122, 1, [k \in 1..122 |-> k]),
          Call(23, 65411, 125, 65415, [k \in 1..121 |-> k])}

LimitCases == [kind : {"limit"}, transport : {"rtu", "tcp"}, call : Largest]

RightSizes(transport, c, request, answer) ==
    LET longest == IF transport = "rtu" THEN 256 ELSE 260
    IN  /\ Len(request) <= longest /\ Len(answer) <= longest
        /\ transport = "tcp" => /\ Word(request, 5) = Len(request) - 6
                                /\ Word(answer, 5) = Len(answer) - 6 - (IF c.fc = 20 THEN 1 ELSE 0)
        /\ Verdict(transport, 1, 1, c, answer).err = "none"

LimitsAgree ==
    input.kind = "limit" =>
        LET request == Request(input.transport, 1, 1, input.call)
        IN  /\ Allowed(input.call)
            /\ RightSizes(input.transport, input.call, request,
                          Poll(input.transport, Server({}, {}), request).reply)

\* On the line one damaged byte, wherever it is, keeps a request from
\* changing anything in any server, and an answer from being accepted.
Damaged(frame, at, mask) == [frame EXCEPT ![at] = Xor[@, mask]]

DamageCases ==
    {[kind |-> "damage", call |-> c, mask |-> k] :
        c \in {Call(3, 1, 2, 0, <<>>), Call(6, 1, 2, 0, <<>>), Call(15, 0, 9, 0, <<255, 1>>),
               Call(16, 1, 2, 0, <<1, 2>>), Call(21, 4, 1, 9, <<3>>), Call(23, 1, 2, 2, <<700>>)},
        k \in {1, 2, 3, 16, 128, 255}}

DamageRefused ==
    input.kind = "damage" =>
        LET request == Request("rtu", 1, 1, input.call)
            answer  == Poll("rtu", Server({}, {}), request).reply
        IN  /\ \A at \in DOMAIN request :
                  \A srv \in {Server({}, {}), Neighbour} :
                      Polled("rtu", srv, Damaged(request, at, input.mask)) = Seed
            /\ \A at \in DOMAIN answer :
                  Verdict("rtu", 1, 1, input.call, Damaged(answer, at, input.mask)).err # "none"

\* The answer to one call that arrives when the next is waiting: over TCP it
\* is never taken, even as the transaction number wraps; on the line, which
\* has no number, only for a call with the same function, and with the same
\* number of values or the same echo.
LateCalls ==
    {Call(fc, a, n, 0, <<>>) : fc \in {1, 3, 4, 6}, a \in {0, 2}, n \in {1, 9}}
    \cup {Call(16, 1, 2, 0, <<65535, 3>>), Call(20, 4, 2, 9, <<>>), Call(21, 4, 1, 9, <<1>>),
          Call(23, 1, 2, 2, <<700>>)}

StaleCases ==
    [kind : {"stale"}, transport : {"rtu", "tcp"}, tid : {1, 65535},
     first : LateCalls, then : LateCalls]

LateAnswerConfined ==
    input.kind = "stale" =>
        LET late == Poll(input.transport, Server({}, {}),
                         Request(input.transport, input.tid, 1, input.first)).reply
        IN  Verdict(input.transport, NextTid(input.tid), 1, input.then, late).err = "none"
               => /\ input.transport = "rtu" /\ input.first.fc = input.then.fc
                  /\ \/ input.first.fc \in {1, 2}
                     \/ input.first.fc \in {3, 4, 20, 23} /\ input.first.n = input.then.n
                     \/ input.first = input.then

\* A raw call with the bytes of a named one is that call, and its answer is
\* the named one's, as long as it is said how long it is: another length is
\* noticed on the line only, where the checksum is misplaced.
NamedResult(c, body) == Accepted(c, body) /\ ResultOf(c, body) = Asked(c, Effect(c, Seed))

RightRaw(transport, c, reply) ==
    LET good   == Verdict(transport, 7, 1, c, reply).err = "none"
        size   == Len(reply) - HeaderSize(transport) - FooterSize(transport)
        Raw(n) == RawVerdict(transport, 7, 1, c.fc, n, reply)
        Judged(n) == IF ~good THEN "exception"
                     ELSE IF n > size THEN "timeout"
                     ELSE IF n < size /\ transport = "rtu" THEN "crc" ELSE "none"
    IN  /\ \A n \in (size - 1)..(size + 1) : Raw(n).err = Judged(n)
        /\ good => NamedResult(c, Raw(size).result)

RawAsNamed ==
    input.kind = "call" /\ input.unit = 1 /\ Allowed(input.call) =>
        LET i     == input
            named == Request(i.transport, 7, 1, i.call)
        IN  /\ RawRequest(i.transport, 7, 1, i.call.fc, RequestBody(i.call)) = named
            /\ RightRaw(i.transport, i.call, Poll(i.transport, Server(i.absent, i.failing), named).reply)

\* The calls of the library do what their names say, on arguments up to the
\* limits that client and server share, named or raw (nanomodbus.c:1596-1911).
CallsAsPromised == ExchangeAsPromised /\ LimitsAgree /\ RawAsNamed

\* The UART may hold back level - 1 bytes until the line is silent: a byte
\* that has arrived is never given up before it is handed over.
WaitCases == [kind : {"wait"}, timeout : {-1, 0, 3, 1000}, ifls : 0..7,
              baud : {1200, 9600, 19200, 115200}]

FifoWaitedFor ==
    input.kind = "wait" =>
        LET level == FifoLevel(input.ifls)
            wait  == ByteTimeout(input.timeout, level, input.baud)
            held  == ((10 * (level - 1) + 32) * 1000000) \div input.baud
        IN  IF input.timeout < 0 THEN wait = -1
            ELSE wait >= 1000 * input.timeout /\ (level # 0 => wait > held)

\* What the line does to an exchange - damage, a neighbour's traffic, a late
\* answer, bytes held back by the UART - is noticed or does no harm
\* (nanomodbus.c:393-455, 1479-1576; ModbusClient.cpp:29-60).
LineTrusted == DamageRefused /\ BystanderUnmoved /\ LateAnswerConfined /\ FifoWaitedFor

-----------------------------------------------------------------------------
(* The sensors. *)

\* readPressure gives the whole pascals of the sensor's scale, at most two
\* too few, from nothing up to 126 Pa; what is negative or beyond reads as 0.
\* A speed that is a percentage is read back from the fan as it was written,
\* and no temperature is read as one below zero.
SensorCases == [kind : {"sensor"}, high : 0..255]

Signed(word) == IF word >= 32768 THEN word - 65536 ELSE word

ScaledRight(word, p, got) ==
    /\ IF Signed(word) \in 0..32159
       THEN 24000 * p <= 95 * word /\ 95 * word < 24000 * (p + 2)
       ELSE p = 0
    /\ got.pressure = p /\ p \in 0..126
    /\ (got.currentFanSpeed = word) = (word <= 6553)
    /\ Signed(word) < 0 => got.temp > 3000

ReadingRight(high, low) ==
    LET word == 256 * high + low
        sent == Air!FanCommand(word)
    IN  ScaledRight(word, Air!Pressure(high, low),
            Air!ReadAllSensors([fan |-> sent, co2 |-> word, rh |-> word, t |-> word], high, low))

PressureRight == input.kind = "sensor" => \A low \in 0..255 : ReadingRight(input.high, low)

-----------------------------------------------------------------------------
(* The EEPROM's records and its checksum. *)

Text(first, n) == [i \in 1..n |-> 1 + ((first * i) % 255)]

RecordCases ==
    [kind : {"record"}, at : {0, 64, 128, 192}, other : {0, 64, 128, 192},
     text : {Text(7, n) : n \in {0, 1, 2, 30, 61, 62}}, was : {Text(5, 20), Text(3, 61)}]

\* A stored text of 1 to 61 bytes is read back as it was, up to the longest,
\* whose checksum ends with the record; another length changes nothing; and
\* a text or a number written to another record leaves it alone.
TextsKept ==
    input.kind = "record" =>
        LET i     == input
            old   == WriteString(Zeros(LogEnd), i.at, i.was)
            new   == WriteString(old, i.at, i.text)
            after == WriteString(new, i.other, i.was)
            num   == WriteNumber(new, i.other, 1883)
            kept  == IF Len(i.text) \in 1..(RecordSize - 3) THEN i.text ELSE i.was
        IN  /\ ReadString(new, i.at) = kept
            /\ ReadString(after, i.at) = IF i.other = i.at THEN i.was ELSE kept
            /\ ReadNumber(num, i.other) = 1883
            /\ i.other # i.at => ReadString(num, i.at) = kept

\* The log shows the messages since it was last erased, in order: the fifth
\* finds it full, erases it and is not written.
LogCases == [kind : {"log"}, messages : 0..11, junk : {Zeros(64), Text(11, 64), Text(254, 64)}]

LogKeepsLatest ==
    input.kind = "log" =>
        LET n == input.messages
            erased == n - (n % 5)
            written == FoldLeft(LAMBDA log, i : WriteLog(log, Text(i, i + 1), input.junk),
                                [mem |-> Zeros(LogEnd), address |-> 0], [i \in 1..n |-> i])
        IN  ReadLog(written.mem) = [i \in 1..(n % 5) |-> Text(erased + i, erased + i + 1)]

\* EEPROM::crc16 folds a byte in at once what the polynomial 1021 (x^16 +
\* x^12 + x^5 + 1) does in eight shifts.
ShiftedLeft(crc) == IF crc >= 32768 THEN Xor[Low16(crc * 2), 4129] ELSE crc * 2
BitByBit(crc, byte) ==
    FoldLeft(LAMBDA c, i : ShiftedLeft(c), Xor[crc, 256 * byte], [i \in 1..8 |-> i])

CrcCases == [kind : {"crc"}, crc : {0, 1, 255, 4660, 32768, 43981, 65535},
             byte : {0, 1, 15, 16, 85, 128, 254, 255}]

CrcIsPolynomial ==
    input.kind = "crc" =>
        NextRecordCrc(input.crc, input.byte) = BitByBit(input.crc, input.byte)

\* Texts, numbers and the log are read as they were last written, and the
\* checksum behind them is the one of the polynomial (eeprom.cpp:30-170).
RecordsKept == TextsKept /\ LogKeepsLatest /\ CrcIsPolynomial

-----------------------------------------------------------------------------
(* MQTT packets. *)

Room == 70000                   \* a buffer for every packet below

Fields(r, names) == [k \in names |-> r[k]]

Wills == {<<>>} \cup {<<[qos |-> q, retained |-> r, topic |-> Text(2, 3), message |-> w]>> :
                         q \in 0..2, r \in {0, 1}, w \in {<<>>, Text(3, 4)}}

ConnectCases ==
    [kind : {"connect"}, version : {3, 4}, clean : {0, 1}, keepAlive : {0, 60, 65535},
     clientID : {<<>>, Text(4, 120)}, will : Wills,
     username : {<<>>, <<<<>>>>, <<Text(5, 2)>>}, password : {<<>>, <<<<>>>>, <<Text(6, 1)>>}]

\* What the client's CONNECT says is what a server reads, and the length in
\* it is its length.  The server refuses a password without a name, and an
\* empty name or password at the end.
ConnectReadBack ==
    input.kind = "connect" =>
        LET o    == input
            p    == Mqtt!SerializeConnect(Room, o)
            r    == Mqtt!DeserializeConnect(p)
            said == {"clean", "keepAlive", "clientID", "will", "username", "password"}
            Empty(text) == text = <<<<>>>>
        IN  /\ Mqtt!Read(Room, p) = [rc |-> 1, packet |-> p, left |-> <<>>]
            /\ IF \/ o.password # <<>> /\ (o.username = <<>> \/ Empty(o.password))
                  \/ o.password = <<>> /\ Empty(o.username)
               THEN r = [rc |-> 0]
               ELSE r.rc = 1 /\ Fields(r, said) = Fields(o, said)

\* The boundaries of the length's four sizes, for a packet with topic "t".
PublishCases ==
    [kind : {"publish"}, dup : {0, 1}, qos : 0..2, retained : {0, 1}, id : {1, 256, 65535},
     topic : {Text(1, 1), Text(1, 20)}, payload : {Text(9, n) : n \in {0, 1, 102, 103, 121, 122, 125}}]

\* A PUBLISH is read as it was written; a buffer is never overrun, and one
\* byte more than the packet always does.
PublishReadBack ==
    input.kind = "publish" =>
        LET m == input
            p == Mqtt!SerializePublish(Room, m)
            r == Mqtt!DeserializePublish(p)
            said == {"dup", "qos", "retained", "topic", "payload"}
        IN  /\ Mqtt!Read(Room, p) = [rc |-> 3, packet |-> p, left |-> <<>>]
            /\ r.rc = 1 /\ Fields(r, said) = Fields(m, said)
            /\ r.id = IF m.qos > 0 THEN m.id ELSE 0
            /\ Mqtt!SerializePublish(Len(p) - 1, m) = <<>>
            /\ Mqtt!SerializePublish(Len(p) + 1, m) = p

\* The estimate MQTTPacket_len never falls short and is at most one too
\* many, and a length is decoded to what was encoded, up to the largest.
LengthCases ==
    {[kind |-> "length", n |-> n] :
        n \in UNION {(b - 3)..(b + 3) : b \in {3, 128, 16384, 2097152}} \cup {268435455}}

LengthsRight ==
    input.kind = "length" =>
        LET coded == Mqtt!EncodedLength(input.n)
            exact == 1 + Len(coded) + input.n
        IN  /\ Mqtt!LengthBytes(coded) = Len(coded) /\ Mqtt!DecodedLength(coded) = input.n
            /\ Mqtt!PacketLength(input.n) \in {exact, exact + 1}

FilterLists == {<<>>, <<Text(1, 4)>>, <<Text(1, 1), Text(2, 130)>>, <<<<>>, Text(3, 2), Text(4, 3)>>}

RequestCases == [kind : {"request"}, dup : {0, 1}, id : {1, 65535}, filters : FilterLists, qos : 0..2]

\* Subscriptions, their withdrawal and the answers to both are read as they
\* were written; a reader without room says so, the one of a SUBACK only
\* when it is two short.
RequestsReadBack ==
    input.kind = "request" =>
        LET i  == input
            n  == Len(i.filters)
            qs == [k \in 1..n |-> i.qos]
            s  == Mqtt!SerializeSubscribe(Room, i.dup, i.id, i.filters, qs)
            u  == Mqtt!SerializeUnsubscribe(Room, i.dup, i.id, i.filters)
            a  == Mqtt!SerializeSuback(Room, i.id, qs)
            Listed(each) == [rc |-> 1, dup |-> i.dup, id |-> i.id,
                             filters |-> [k \in 1..n |-> [filter |-> i.filters[k],
                                                         qos |-> IF each = 1 THEN i.qos ELSE 0]]]
        IN  /\ Mqtt!DeserializeSubscribe(s, n) = Listed(1)
            /\ n > 0 => Mqtt!DeserializeSubscribe(s, n - 1).rc = -1
            /\ Mqtt!DeserializeUnsubscribe(u) = Listed(0)
            /\ Mqtt!DeserializeSuback(a, n) = [rc |-> 1, id |-> i.id, granted |-> qs]
            /\ n > 1 => Mqtt!DeserializeSuback(a, n - 2).rc = -1
            /\ \A type \in Mqtt!PUBACK..Mqtt!PUBCOMP :
                  Mqtt!DeserializeAck(Mqtt!SerializeAck(4, type, i.dup, i.id))
                      = [rc |-> 1, type |-> type, dup |-> i.dup, id |-> i.id]
            /\ Mqtt!DeserializeUnsuback(Mqtt!SerializeUnsuback(4, i.id)).id = i.id
            /\ Mqtt!DeserializeConnack(Mqtt!SerializeConnack(4, i.qos, i.dup))
                  = [rc |-> 1, session |-> i.dup, code |-> i.qos]

\* Client and broker read every packet as the other wrote it, with the length
\* that is in it (MQTTConnectClient.c, MQTTConnectServer.c and their companions).
PacketsReadBack == ConnectReadBack /\ PublishReadBack /\ LengthsRight /\ RequestsReadBack

\* Two packets arrive in up to four pieces.
Packets == {Mqtt!SerializeZero(2, Mqtt!PINGREQ), Mqtt!SerializeAck(4, Mqtt!PUBREL, 0, 300),
            Mqtt!SerializePublish(Room, [dup |-> 0, qos |-> 1, retained |-> 0, id |-> 7,
                                         topic |-> Text(1, 3), payload |-> Text(2, 125)])}

StreamCases ==
    UNION {[kind : {"stream"}, packets : {<<p, q>>}, buflen : {132, 140},
            cuts : {{a, b, c} : a \in {1, 2}, b \in {2, 3, 4}, c \in {5, Len(p) + 1, Len(p \o q)}}] :
           p \in Packets, q \in Packets}

\* A call of MQTTPacket_readnb when the bytes of s up to the next cut are
\* there: how far the reader is, and what was found up to then.  It stops
\* where no byte is left, or when it gives up.
NextCut(i, s, at) == Min({c \in i.cuts \cup {Len(s)} : at < c /\ c <= Len(s)})

AfterCall(i, s, was) ==
    LET here == NextCut(i, s, was.at)
        r    == Mqtt!ReadNb(i.buflen, was.t, SubSeq(s, was.at + 1, here))
    IN  IF was.at = Len(s) THEN was
        ELSE [t |-> r.t, at |-> IF r.rc = -1 THEN Len(s) ELSE here - Len(r.left),
              found |-> IF r.rc = 0 THEN was.found
                        ELSE Append(was.found, [rc |-> r.rc, packet |-> r.t.packet])]

\* Every call ends at a cut or with a packet.
Found(i) ==
    LET s     == FlattenSeq(i.packets)
        calls == Len(i.packets) + Cardinality(i.cuts) + 1
        after[k \in 0..calls] ==
            IF k = 0 THEN [t |-> Mqtt!NewTransport, at |-> 0, found |-> <<>>]
            ELSE AfterCall(i, s, after[k - 1])
    IN  after[calls].found

\* What the blocking reader finds.
AfterRead(i, s, was) ==
    LET r == Mqtt!Read(i.buflen, SubSeq(s, was.at + 1, Len(s)))
    IN  IF was.at = Len(s) THEN was
        ELSE [at |-> Len(s) - (IF r.rc = -1 THEN 0 ELSE Len(r.left)),
              found |-> Append(was.found, [rc |-> r.rc, packet |-> r.packet])]

WaitedFor(i) ==
    LET s == FlattenSeq(i.packets)
        after[k \in 0..Len(i.packets)] ==
            IF k = 0 THEN [at |-> 0, found |-> <<>>] ELSE AfterRead(i, s, after[k - 1])
    IN  after[Len(i.packets)].found

\* However the bytes arrive, the non-blocking reader finds the packets of
\* the blocking one, and gives up on the same one for want of room.
PiecesMakePackets ==
    input.kind = "stream" =>
        LET found == Found(input)
            waited == WaitedFor(input)
        IN  /\ Len(found) = Len(waited)
            /\ \A k \in DOMAIN found : /\ found[k].rc = waited[k].rc
                                       /\ found[k].rc # -1 => found[k] = waited[k]

-----------------------------------------------------------------------------
(* Topics, as sequences of levels. *)

Levels == {<<>>, <<"a">>, <<"b">>, <<"a", "a">>}
NameLevels == UNION {[1..n -> Levels] : n \in 1..3}
FilterLevels ==
    UNION {[1..n -> Levels \cup {<<"+">>}] : n \in 1..2}
    \cup {Append(f, <<"#">>) : f \in UNION {[1..n -> Levels \cup {<<"+">>}] : n \in 0..2}}

Topic(levels) == Tail(FlattenSeq([i \in DOMAIN levels |-> <<"/">> \o levels[i]]))

TopicCases == [kind : {"topic"}, filter : FilterLevels]

\* The standard's rule.
Matches(f, n) ==
    LET k    == Len(f)
        open == f[k] = <<"#">>
        upTo == IF open THEN k - 1 ELSE k
    IN  /\ IF open THEN Len(n) >= k - 1 ELSE Len(n) = k
        /\ \A i \in 1..upTo : f[i] \in {<<"+">>, n[i]}

\* A handler gets no message its filter does not match, and every message
\* it matches whose topic has no empty level and is not the parent of "/#".
FoundRight(f, n) ==
    /\ Mqtt!Handles(Topic(f), Topic(n)) => Matches(f, n)
    /\ Matches(f, n) /\ (\A i \in DOMAIN n : n[i] # <<>>) /\ Len(n) >= Len(f)
          => Mqtt!Handles(Topic(f), Topic(n))

HandlersFound == input.kind = "topic" => \A n \in NameLevels : FoundRight(input.filter, n)

\* Six filters, of which a table takes five; handler k is filter k's.
SomeFilters == <<<<"a">>, <<"+">>, <<"#">>, <<"b">>, <<"a", "/", "#">>, <<"+", "/", "b">>>>

Fillings == {s \in [1..5 -> 0..6] : \A i, j \in 1..5 : s[i] = s[j] /\ s[i] # 0 => i = j}
TableOf(slots) ==
    [i \in 1..5 |-> IF slots[i] = 0 THEN Mqtt!Free
                    ELSE [filter |-> SomeFilters[slots[i]], handler |-> slots[i]]]

HandlerCases == [kind : {"handlers"}, table : {TableOf(s) : s \in Fillings}]

AsMap(table) ==
    [f \in {table[i].filter : i \in DOMAIN table} \ {<<>>} |->
        table[CHOOSE i \in DOMAIN table : table[i].filter = f].handler]

OncePerFilter(table) ==
    \A i, j \in DOMAIN table : table[i].filter = table[j].filter /\ table[i].filter # <<>> => i = j

Subscribed(t, f, handler) ==
    [g \in DOMAIN AsMap(t) \cup {f} |-> IF g = f THEN handler ELSE AsMap(t)[g]]
Withdrawn(t, f) == [g \in DOMAIN AsMap(t) \ {f} |-> AsMap(t)[g]]
HasRoom(t, f) == f \in DOMAIN AsMap(t) \/ Cardinality(DOMAIN AsMap(t)) < Cardinality(DOMAIN t)

\* The session is over, and what it subscribed is not there in the next one.
StartsAfresh(d, f, handler) ==
    /\ ~d.connected /\ DOMAIN AsMap(d.table) = {}
    /\ AsMap(Mqtt!SubscribeTo([d EXCEPT !.connected = TRUE], f, handler, "granted").table)
           = [g \in {f} |-> handler]

\* An open session has one handler for each filter, the one given last; a
\* filter more than the table has slots closes the session; a closed one has
\* no handler.
LastId == 65535
SubscriptionKept(t, f, handler) ==
    LET c     == [connected |-> TRUE, table |-> t, id |-> LastId]
        added == Mqtt!SubscribeTo(c, f, handler, "granted")
        gone  == Mqtt!UnsubscribeFrom(c, f, "acknowledged")
    IN  /\ added.connected = HasRoom(t, f) /\ OncePerFilter(added.table)
        /\ IF HasRoom(t, f) THEN AsMap(added.table) = Subscribed(t, f, handler)
           ELSE DOMAIN AsMap(added.table) = {}
        /\ gone.connected /\ OncePerFilter(gone.table) /\ AsMap(gone.table) = Withdrawn(t, f)
        /\ Mqtt!SubscribeTo(c, f, handler, "denied") = [c EXCEPT !.id = 1]
        /\ \A d \in {Mqtt!SubscribeTo(c, f, handler, "none"), Mqtt!UnsubscribeFrom(c, f, "none"),
                      Mqtt!Disconnect(c)} : StartsAfresh(d, f, handler)

\* A message is handed once to each filter that matches it, or else to the
\* default.
HandedOver(t, default, name) ==
    LET called == Mqtt!Delivered(t, default, name)
        mine   == {f \in DOMAIN AsMap(t) : Mqtt!Handles(f, name)}
    IN  IF mine = {} THEN called = <<default>>
        ELSE Len(called) = Cardinality(mine) /\ ToSet(called) = {AsMap(t)[f] : f \in mine}

HandlersKept ==
    input.kind = "handlers" =>
        /\ \A k \in 1..6 : SubscriptionKept(input.table, SomeFilters[k], 7)
        /\ \A name \in {<<<<"a">>>>, <<<<"b">>>>, <<<<"a">>, <<"b">>>>, <<<<"b">>, <<"a">>>>} :
              HandedOver(input.table, 8, Topic(name))

\* A message reaches the handlers it is for: those whose filter matches, as
\* the subscriptions so far have left them (MQTTClient.h:493-554, 810-931).
MessagesHandled == HandlersFound /\ HandlersKept

-----------------------------------------------------------------------------
Draw(cases) == input = Idle /\ input' \in cases

DrawCodec == \/ Draw(ModbusCases)
             \/ Draw(LimitCases)
             \/ Draw(DamageCases)
             \/ Draw(StaleCases)
             \/ Draw(WaitCases)
             \/ Draw(SensorCases)
             \/ Draw(RecordCases)
             \/ Draw(LogCases)
             \/ Draw(CrcCases)
             \/ Draw(ConnectCases)
             \/ Draw(PublishCases)
             \/ Draw(LengthCases)
             \/ Draw(RequestCases)
             \/ Draw(StreamCases)
             \/ Draw(TopicCases)
             \/ Draw(HandlerCases)
=============================================================================
