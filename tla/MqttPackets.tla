---------------------------- MODULE MqttPackets ----------------------------
(***************************************************************************)
(* The packets of MQTT as paho's MQTTPacket writes and reads them, client  *)
(* and server side: bytes are numbers, a text is a sequence of bytes, an   *)
(* absent one is <<>> and a present one <<text>>.  Serialisers give the    *)
(* bytes they write, or <<>> when the buffer is too short.                 *)
(***************************************************************************)
EXTENDS Integers, Sequences, SequencesExt

CONNECT == 1
CONNACK == 2
PUBLISH == 3
PUBACK == 4
PUBREC == 5
PUBREL == 6
PUBCOMP == 7
SUBSCRIBE == 8
SUBACK == 9
UNSUBSCRIBE == 10
UNSUBACK == 11
PINGREQ == 12
DISCONNECT == 14

-----------------------------------------------------------------------------
(* Lengths, integers and texts. *)

\* A length is written in base 128, the lowest digit first, and each but the
\* last byte marked.
Weights == <<1, 128, 16384, 2097152, 268435456>>
MaxLength == 268435455          \* what four digits hold

DigitCount(n) == Min({k \in 1..5 : k = 5 \/ n < Weights[k + 1]})

EncodedLength(n) ==
    [k \in 1..DigitCount(n) |->
        ((n \div Weights[k]) % 128) + (IF k < DigitCount(n) THEN 128 ELSE 0)]

MaxLengthBytes == 4

\* How many bytes MQTTPacket_decode uses, one more when it gives up, and the
\* value of those it read.
LengthBytes(s) ==
    LET ends == {i \in DOMAIN s : i <= MaxLengthBytes /\ s[i] < 128}
    IN  IF ends = {} THEN MaxLengthBytes + 1 ELSE Min(ends)

DigitAt(s, k) == IF k <= LengthBytes(s) THEN (s[k] % 128) * Weights[k] ELSE 0

DecodedLength(s) == DigitAt(s, 1) + DigitAt(s, 2) + DigitAt(s, 3) + DigitAt(s, 4)

\* MQTTPacket_len: the bytes of a whole packet, or one more.
PacketLength(rest) ==
    LET n == rest + 1
    IN  n + (IF n < 128 THEN 1 ELSE IF n < 16384 THEN 2 ELSE IF n < 2097151 THEN 3 ELSE 4)

TwoBytes(n) == <<n \div 256, n % 256>>
IntAt(s, i) == 256 * s[i] + s[i + 1]

Str(text) == TwoBytes(Len(text)) \o text

\* readMQTTLenString of the text at i in s.
StrFits(s, i) == i < Len(s) /\ i + 1 + IntAt(s, i) <= Len(s)
StrAt(s, i) == SubSeq(s, i + 2, i + 1 + IntAt(s, i))
AfterStr(s, i) == i + 2 + IntAt(s, i)

Header(type, dup, qos, retained) == 16 * type + 8 * dup + 2 * qos + retained
TypeOf(p) == p[1] \div 16
DupOf(p) == (p[1] \div 8) % 2
QosOf(p) == (p[1] \div 2) % 4
RetainedOf(p) == p[1] % 2

\* What a deserialiser takes for the body: as many bytes as the length says.
BodyOf(p) ==
    LET at == 1 + LengthBytes(Tail(p))
    IN  SubSeq(p, at + 1, at + DecodedLength(Tail(p)))

Serialized(buflen, header, length, rest) ==
    IF PacketLength(length) > buflen THEN <<>>
    ELSE <<header>> \o EncodedLength(length) \o rest

-----------------------------------------------------------------------------
(* CONNECT and CONNACK. *)

Present(text) == text # <<>>
Texts(text) == IF Present(text) THEN Str(text[1]) ELSE <<>>
LengthOf(text) == IF Present(text) THEN 2 + Len(text[1]) ELSE 0

ConnectLength(o) ==
    (IF o.version = 3 THEN 12 ELSE IF o.version = 4 THEN 10 ELSE 0) + Len(o.clientID) + 2
    + (IF Present(o.will) THEN 4 + Len(o.will[1].topic) + Len(o.will[1].message) ELSE 0)
    + LengthOf(o.username) + LengthOf(o.password)

Flag(set, n) == IF set THEN n ELSE 0

ConnectFlags(o) ==
    2 * o.clean + Flag(Present(o.username), 128) + Flag(Present(o.password), 64)
    + (IF Present(o.will) THEN 4 + 8 * o.will[1].qos + 32 * o.will[1].retained ELSE 0)

\* "MQTT" and "MQIsdp".
Protocol(version) == IF version = 4 THEN <<77, 81, 84, 84>> ELSE <<77, 81, 73, 115, 100, 112>>

SerializeConnect(buflen, o) ==
    Serialized(buflen, Header(CONNECT, 0, 0, 0), ConnectLength(o),
        Str(Protocol(o.version)) \o <<IF o.version = 4 THEN 4 ELSE 3, ConnectFlags(o)>>
        \o TwoBytes(o.keepAlive) \o Str(o.clientID)
        \o (IF Present(o.will) THEN Str(o.will[1].topic) \o Str(o.will[1].message) ELSE <<>>)
        \o Texts(o.username) \o Texts(o.password))

\* Of the protocol's name only as many bytes as it has are compared.
VersionKnown(name, version) ==
    version \in {3, 4} /\ IsPrefix(SubSeq(name, 1, Min({Len(name), Len(Protocol(version))})),
                                   Protocol(version))

Bit(byte, n) == (byte \div n) % 2

\* Where the texts that follow the keep-alive time begin; an optional one
\* that is not there begins where the next one does.
TextPlaces(s, at, flags) ==
    LET Behind(i, flag) == IF Bit(flags, flag) = 1 THEN AfterStr(s, i) ELSE i
        topic    == AfterStr(s, at)
        message  == Behind(topic, 4)
        name     == Behind(message, 4)
    IN  [clientID |-> at, topic |-> topic, message |-> message,
         name |-> name, password |-> Behind(name, 128)]

\* The buffer ends with the packet; a name or a password of length 0 at the
\* end counts as missing.
LongEnough(s, i) == Len(s) - i + 1 >= 3 /\ StrFits(s, i)

TextsFit(s, flags, place) ==
    /\ StrFits(s, place.clientID)
    /\ Bit(flags, 4) = 1 => StrFits(s, place.topic) /\ StrFits(s, place.message)
    /\ Bit(flags, 128) = 1 => LongEnough(s, place.name)
    /\ Bit(flags, 64) = 1 => Bit(flags, 128) = 1 /\ LongEnough(s, place.password)

DeserializeConnect(p) ==
    LET s     == BodyOf(p)
        at    == AfterStr(s, 1)                        \* of the version
        flags == s[at + 1]
        place == TextPlaces(s, at + 4, flags)
        Given(flag, text) == IF Bit(flags, flag) = 0 THEN <<>> ELSE <<text>>
    IN  IF \/ TypeOf(p) # CONNECT \/ ~StrFits(s, 1)
           \/ ~VersionKnown(StrAt(s, 1), s[at])
           \/ ~TextsFit(s, flags, place)
        THEN [rc |-> 0]
        ELSE [rc |-> 1, clean |-> Bit(flags, 2), keepAlive |-> IntAt(s, at + 2),
              clientID |-> StrAt(s, place.clientID),
              will |-> Given(4, [qos |-> (flags \div 8) % 4, retained |-> Bit(flags, 32),
                                 topic |-> StrAt(s, place.topic),
                                 message |-> StrAt(s, place.message)]),
              username |-> Given(128, StrAt(s, place.name)),
              password |-> Given(64, StrAt(s, place.password))]

SerializeConnack(buflen, code, session) ==
    IF buflen < 2 THEN <<>> ELSE <<Header(CONNACK, 0, 0, 0)>> \o EncodedLength(2) \o <<session, code>>

\* Too short a body leaves the count of length bytes in rc: 1, a success.
ShortBody(p) == [rc |-> LengthBytes(Tail(p))]

DeserializeConnack(p) ==
    LET s == BodyOf(p)
    IN  IF TypeOf(p) # CONNACK THEN [rc |-> 0]
        ELSE IF Len(s) < 2 THEN ShortBody(p)
        ELSE [rc |-> 1, session |-> s[1] % 2, code |-> s[2]]

-----------------------------------------------------------------------------
(* PUBLISH and the acknowledgements. *)

UncountedId(qos, topic, payload) == 2 + Len(topic) + Len(payload)      \* faulty variant
PublishLength(qos, topic, payload) ==
    2 + Len(topic) + Len(payload) + (IF qos > 0 THEN 2 ELSE 0)

SerializePublish(buflen, m) ==
    Serialized(buflen, Header(PUBLISH, m.dup, m.qos, m.retained),
               PublishLength(m.qos, m.topic, m.payload),
               Str(m.topic) \o (IF m.qos > 0 THEN TwoBytes(m.id) ELSE <<>>) \o m.payload)

DeserializePublish(p) ==
    LET s  == BodyOf(p)
        at == AfterStr(s, 1) + (IF QosOf(p) > 0 THEN 2 ELSE 0)
    IN  IF TypeOf(p) # PUBLISH THEN [rc |-> 0]
        ELSE IF ~StrFits(s, 1) THEN ShortBody(p)
        ELSE [rc |-> 1, dup |-> DupOf(p), qos |-> QosOf(p), retained |-> RetainedOf(p),
              id |-> IF QosOf(p) > 0 THEN IntAt(s, AfterStr(s, 1)) ELSE 0,
              topic |-> StrAt(s, 1), payload |-> SubSeq(s, at, Len(s))]

SerializeAck(buflen, type, dup, id) ==
    IF buflen < 4 THEN <<>>
    ELSE <<Header(type, dup, IF type = PUBREL THEN 1 ELSE 0, 0)>> \o EncodedLength(2) \o TwoBytes(id)

DeserializeAck(p) ==
    IF Len(BodyOf(p)) < 2 THEN ShortBody(p) @@ [type |-> TypeOf(p)]
    ELSE [rc |-> 1, type |-> TypeOf(p), dup |-> DupOf(p), id |-> IntAt(BodyOf(p), 1)]

SerializeZero(buflen, type) ==
    IF buflen < 2 THEN <<>> ELSE <<Header(type, 0, 0, 0)>> \o EncodedLength(0)

-----------------------------------------------------------------------------
(* SUBSCRIBE, UNSUBSCRIBE and their acknowledgements. *)

FilterLengths(filters, each) ==
    LET upTo[k \in 0..Len(filters)] ==
            IF k = 0 THEN 2 ELSE upTo[k - 1] + 2 + Len(filters[k]) + each
    IN  upTo[Len(filters)]

SubscribeLength(filters) == FilterLengths(filters, 1)
UnsubscribeLength(filters) == FilterLengths(filters, 0)

SerializeSubscribe(buflen, dup, id, filters, qoss) ==
    Serialized(buflen, Header(SUBSCRIBE, dup, 1, 0), SubscribeLength(filters),
        TwoBytes(id) \o FlattenSeq([i \in DOMAIN filters |-> Str(filters[i]) \o <<qoss[i]>>]))

SerializeUnsubscribe(buflen, dup, id, filters) ==
    Serialized(buflen, Header(UNSUBSCRIBE, dup, 1, 0), UnsubscribeLength(filters),
        TwoBytes(id) \o FlattenSeq([i \in DOMAIN filters |-> Str(filters[i])]))

\* The filters from i on, each with the QoS behind it when there is one; a
\* Misfit ends them when the body does.
Misfit == [filter |-> <<>>, qos |-> -1]

FiltersFrom(s, first, each) ==
    LET from[i \in Nat \ {0}] ==
            IF i > Len(s) THEN <<>>
            ELSE IF ~StrFits(s, i) \/ AfterStr(s, i) + each - 1 > Len(s) THEN <<Misfit>>
            ELSE <<[filter |-> StrAt(s, i), qos |-> IF each = 1 THEN s[AfterStr(s, i)] ELSE 0]>>
                 \o from[AfterStr(s, i) + each]
    IN  from[first]

Request(p, filters) ==
    [rc |-> 1, dup |-> DupOf(p), id |-> IntAt(BodyOf(p), 1), filters |-> filters]

\* Only the reader of a SUBSCRIBE asks for room, and takes a misfit for an error.
DeserializeSubscribe(p, maxcount) ==
    LET all == FiltersFrom(BodyOf(p), 3, 1)
    IN  IF TypeOf(p) # SUBSCRIBE \/ Len(all) > maxcount \/ Contains(all, Misfit)
        THEN [rc |-> -1] ELSE Request(p, all)

DeserializeUnsubscribe(p) ==
    LET all == FiltersFrom(BodyOf(p), 3, 0)
    IN  IF TypeOf(p) # UNSUBSCRIBE THEN [rc |-> 0]
        ELSE IF Contains(all, Misfit) THEN ShortBody(p) ELSE Request(p, all)

SerializeSuback(buflen, id, granted) ==
    IF buflen < 2 + Len(granted) THEN <<>>
    ELSE <<Header(SUBACK, 0, 0, 0)>> \o EncodedLength(2 + Len(granted)) \o TwoBytes(id) \o granted

\* The test of the count lets one more than maxcount through.
DeserializeSuback(p, maxcount) ==
    LET s == BodyOf(p)
    IN  IF TypeOf(p) # SUBACK THEN [rc |-> 0]
        ELSE IF Len(s) < 2 THEN ShortBody(p)
        ELSE IF Len(s) - 2 > maxcount + 1 THEN [rc |-> -1]
        ELSE [rc |-> 1, id |-> IntAt(s, 1), granted |-> SubSeq(s, 3, Len(s))]

SerializeUnsuback(buflen, id) ==
    IF buflen < 2 THEN <<>> ELSE <<Header(UNSUBACK, 0, 0, 0)>> \o EncodedLength(2) \o TwoBytes(id)

\* Whatever the acknowledgement's reader said.
DeserializeUnsuback(p) ==
    IF TypeOf(p) = UNSUBACK THEN [DeserializeAck(p) EXCEPT !.rc = 1] ELSE DeserializeAck(p)
=============================================================================
