---------------------------- MODULE MqttSession -----------------------------
(***************************************************************************)
(* The MQTT connection: the blocking client of paho (MQTT::Client over the *)
(* ring of IPStack), the calls main() makes of it through MqttWifiManager, *)
(* the broker and the link to it.                                          *)
(*                                                                         *)
(* A call runs a loop of cycles; a cycle reads one packet - header byte,   *)
(* length bytes, rest, each with a read of its own and a time limit taken  *)
(* from one timer -, acts on it and looks after the keep-alive.  pc is the *)
(* place in the cycle, op the call.  Bytes are the numbers on the wire; a      *)
(* topic and a payload are one byte each.  The link may die at any time;   *)
(* until then it delivers in order, in segments that end anywhere.         *)
(***************************************************************************)
EXTENDS Integers, Sequences, FiniteSets, SequencesExt

CONSTANTS
    RingSize,       \* bytes in IPStack's ring (2048)
    MaxPacket,      \* MAX_MQTT_PACKET_SIZE (200)
    Payloads,       \* first bytes of the commands the broker may send
    MaxCommands,    \* bound: commands the broker sends
    MaxConnections  \* bound: times the operator asks for a connection

ASSUME SessionAssumption ==
    /\ RingSize \in Nat \ {0} /\ MaxPacket \in Nat /\ Payloads \subseteq 0..255
    /\ MaxCommands \in Nat /\ MaxConnections \in Nat

CONNACK == 2   PUBLISH == 3   PUBACK == 4   SUBACK == 9   UNSUBACK == 11   PINGRESP == 13
Topic == 99
Refused == 5
NotGranted == 128

Connack(rc) == <<CONNACK * 16, 2, 0, rc>>
Suback(granted) == <<SUBACK * 16, 3, 0, 1, granted>>
Command(payload) == <<PUBLISH * 16, 4, 0, 1, Topic, payload>>
Pingresp == <<PINGRESP * 16, 0>>

WireBytes == {0, 1, 2, 3, 4, Refused, NotGranted, Topic, CONNACK * 16, SUBACK * 16,
              PUBLISH * 16, PINGRESP * 16} \union Payloads

VARIABLES
    link,       \* "up" or "down"
    air,        \* packets from the broker, the first perhaps partly arrived
    requests,   \* what the client wrote and the broker has not answered
    broker,     \* what it said: accepted, granted, commands sent before that
    pending,    \* received and not yet read: the ring as ByteStream has it
    op,         \* the call in progress, "none" between calls
    pc,         \* the place in it
    timer,      \* its timer: "running", "due" (0 ms left) or "past" (less)
    wait,       \* the time limit of the current read: "bounded" or "endless"
    packet,     \* header, remaining length, length bytes read, body
    client,     \* isconnected, ping_outstanding, handler for topicSUB set
    expired,    \* which of last_sent, last_received, ping_sent have expired
    publishes,  \* menuHandler.connected and pullInternet: once connected
    turn,       \* main() alternates menu events and yields
    commands,   \* payloads of the commands the broker sent
    delivered,  \* payloads handed to messageArrivedCallback
    flaws,      \* "lost": bytes found the ring full; "cut": a length timed out
    asked       \* connections asked for

network == <<link, air, requests, broker, commands>>
call == <<op, pc, timer, wait, packet>>
sessionVars == <<network, pending, call, client, expired, publishes, turn, delivered, flaws, asked>>

NoPacket == [header |-> 0, remaining |-> 0, lengths |-> 0, body |-> <<>>]
NewClient == [connected |-> FALSE, ping |-> FALSE, handler |-> FALSE]
NoAnswer == [accepted |-> FALSE, granted |-> FALSE, early |-> 0]

SessionInit ==
    /\ link = "up" /\ air = <<>> /\ requests = <<>> /\ broker = NoAnswer
    /\ pending = <<>>
    /\ op = "none" /\ pc = "idle" /\ timer = "past" /\ wait = "bounded"
    /\ packet = NoPacket
    /\ client = NewClient /\ expired = {"sent", "received", "ping"}
    /\ publishes = FALSE /\ turn = "event" /\ commands = <<>> /\ delivered = <<>>
    /\ flaws = {} /\ asked = 0

----------------------------------------------------------------------------
(* Sending *)

\* IPStack::write queues in lwIP; once the link is down that may fail.
\* sendPacket restarts last_sent when all is written.
Written(request) == IF link = "up" THEN Append(requests, request) ELSE requests
Sent(request) == requests' = Written(request) /\ expired' = expired \ {"sent"}
MayFail == link = "down"

(* The loop of a call *)

Start(o) == /\ op' = o /\ pc' = "check" /\ timer' = "running"
            /\ wait' = "bounded" /\ packet' = NoPacket

Closed(c) == [c EXCEPT !.connected = FALSE, !.ping = FALSE, !.handler = FALSE]

CloseSession(c) == IF c.connected THEN Closed(c) ELSE c

Idle == /\ op' = "none" /\ pc' = "idle" /\ timer' = "past"
        /\ wait' = "bounded" /\ packet' = NoPacket

\* Time passes in the reads, where the client waits; so do the steps of the
\* network and the broker that no other step of the client can tell apart.
Waits == pc \in {"header", "length", "rest"}

TimerRuns ==
    /\ Waits
    /\ \/ timer = "running" /\ timer' \in {"due", "past"}
       \/ timer = "due" /\ timer' = "past"
    /\ UNCHANGED <<network, pending, op, pc, wait, packet, client, expired, publishes,
                   turn, delivered, flaws, asked>>

\* The keep-alive interval (60 s) exceeds the 30 s a connect may take, and
\* its timers start with it.  They are looked at once a cycle, behind the
\* wait for a header.
Expire(t) ==
    /\ pc = "header" /\ client.connected /\ t \notin expired
    /\ expired' = expired \union {t}
    /\ UNCHANGED <<network, pending, call, client, publishes, turn, delivered, flaws, asked>>

\* After the connect of main() comes the subscribe, whatever came of it.
Subscribe(c) ==
    \/ c.connected /\ Start("subscribe") /\ Sent("SUBSCRIBE") /\ client' = c
    \/ /\ ~c.connected \/ MayFail
       /\ Idle /\ client' = Closed(c) /\ UNCHANGED <<requests, expired>>

\* What a call that is over does: subscribe gives up its session.
GiveUp ==
    CASE op = "connect"   -> Subscribe(client)
      [] op = "subscribe" -> Idle /\ client' = Closed(client) /\ UNCHANGED <<requests, expired>>
      [] OTHER            -> Idle /\ UNCHANGED <<client, requests, expired>>

\* A cycle is over with a packet the call did not wait for, or none.
Loop == pc' = "check" /\ packet' = NoPacket /\ UNCHANGED <<op, timer, wait>>

\* Bounds: out of step the client takes garbage for packets, which is not
\* followed beyond the cycle; without a session a yield only reads on and
\* pings, and the rest of it is not followed.
InStep == flaws = {}
Pointless == op = "yield" /\ ~client.connected

TimedOut == timer # "running"

GoOn ==
    /\ pc = "check" /\ timer # "past" /\ InStep /\ ~Pointless
    /\ pc' = "header" /\ wait' = "bounded" /\ packet' = NoPacket
    /\ UNCHANGED <<network, pending, op, timer, client, expired, publishes, turn, delivered,
                   flaws, asked>>

LeaveLoop ==
    /\ pc = "check" /\ (TimedOut \/ Pointless)
    /\ GiveUp
    /\ UNCHANGED <<link, air, broker, commands, pending, publishes, turn, delivered, flaws, asked>>

----------------------------------------------------------------------------
(* readPacket.  A read's limit is left_ms() as an unsigned number: a timer *)
(* that is past makes it 49 days.                                          *)

Limit == IF timer = "past" THEN "endless" ELSE "bounded"
GivesUp == wait = "bounded" /\ TimedOut

ReadUnchanged == UNCHANGED <<network, op, timer, expired, publishes, turn, delivered, asked>>

ReadHeader ==
    /\ pc = "header" /\ pending # <<>>
    /\ packet' = [packet EXCEPT !.header = Head(pending)]
    /\ pending' = Tail(pending)
    /\ pc' = "length" /\ wait' = Limit
    /\ UNCHANGED <<client, flaws>> /\ ReadUnchanged

NoHeader ==
    /\ pc = "header" /\ pending = <<>> /\ GivesUp
    /\ pc' = "keepalive"
    /\ UNCHANGED <<pending, wait, packet, client, flaws>> /\ ReadUnchanged

\* decodePacket's multiplier for the length byte behind n others.
Multiplier(n) == <<1, 128, 16384, 2097152>>[n + 1]

\* The length is known, or what came of it: is the packet to be read?
LengthBytes(n) == IF n < 128 THEN 1 ELSE IF n < 16384 THEN 2 ELSE IF n < 2097152 THEN 3 ELSE 4

Fits(p) == p.remaining <= MaxPacket - 1 - LengthBytes(p.remaining)

ReadsRest(p) ==
    /\ packet' = p
    /\ \/ p.remaining = 0 /\ pc' = "dispatch" /\ UNCHANGED <<wait, client>>
       \/ p.remaining > 0 /\ Fits(p) /\ pc' = "rest" /\ wait' = Limit /\ UNCHANGED client
       \/ ~Fits(p) /\ pc' = "failed" /\ client' = CloseSession(client) /\ UNCHANGED wait

ReadLength ==
    /\ pc = "length" /\ pending # <<>>
    /\ LET b == Head(pending)
           p == [packet EXCEPT !.remaining = @ + (b % 128) * Multiplier(packet.lengths),
                               !.lengths = @ + 1]
       IN  IF b >= 128 /\ p.lengths < 4
           THEN packet' = p /\ UNCHANGED <<pc, wait, client>>
           ELSE ReadsRest(p)
    /\ pending' = Tail(pending)
    /\ UNCHANGED flaws /\ ReadUnchanged

\* decodePacket returns, and nobody asks how far it came.
NoLength ==
    /\ pc = "length" /\ pending = <<>> /\ GivesUp
    /\ ReadsRest(packet)
    /\ flaws' = flaws \union {"cut"}
    /\ UNCHANGED pending /\ ReadUnchanged

ReadRest ==
    /\ pc = "rest" /\ Len(pending) >= packet.remaining
    /\ packet' = [packet EXCEPT !.body = SubSeq(pending, 1, packet.remaining)]
    /\ pending' = SubSeq(pending, packet.remaining + 1, Len(pending))
    /\ pc' = "dispatch"
    /\ UNCHANGED <<wait, client, flaws>> /\ ReadUnchanged

\* readPacket returns the 1 of its first read, which is no packet cycle
\* knows: the session is closed, the call goes on.
GoesOnWithout(c) == c                                    \* faulty variant
AfterShortRest(c) == CloseSession(c)

NoRest ==
    /\ pc = "rest" /\ Len(pending) < packet.remaining /\ GivesUp
    /\ pending' = <<>>
    /\ client' = AfterShortRest(client)
    /\ pc' = "check" /\ packet' = NoPacket
    /\ UNCHANGED <<wait, flaws>> /\ ReadUnchanged

\* A length beyond the buffer is the error that ends the call.
TooLong ==
    /\ pc = "failed"
    /\ GiveUp
    /\ UNCHANGED <<link, air, broker, commands, pending, publishes, turn, delivered, flaws, asked>>

----------------------------------------------------------------------------
(* cycle: what a packet does.  readPacket restarted last_received.         *)

Type == packet.header \div 16
Body == packet.body

Known == {0, CONNACK, PUBACK, SUBACK, UNSUBACK, PUBLISH, PINGRESP}

\* MQTTDeserialize_publish finds a topic that ends inside the packet, and
\* the subscription's handler is there for it.
HasTopic == Len(Body) >= 3 /\ Body[1] * 256 + Body[2] = 1 /\ Body[3] = Topic

\* Faulty variant: a command that overtakes the answer to a ping is dropped.
IsForHandlerUnlessPing == Type = PUBLISH /\ HasTopic /\ client.handler /\ ~client.ping
IsForHandler == Type = PUBLISH /\ HasTopic /\ client.handler

PayloadOf(b) == IF Len(b) > 3 THEN b[4] ELSE 0

Dispatch ==
    /\ pc = "dispatch"
    /\ delivered' = IF IsForHandler THEN Append(delivered, PayloadOf(Body)) ELSE delivered
    /\ client' = IF Type \notin Known THEN CloseSession(client)
                 ELSE [client EXCEPT !.ping = @ /\ Type # PINGRESP]
    /\ pc' = IF Type \in Known THEN "keepalive" ELSE "check"
    /\ expired' = expired \ {"received"}
    /\ UNCHANGED <<network, pending, op, timer, wait, packet, publishes, turn, flaws, asked>>

(* keepalive, and the end of the cycle *)

\* MQTTDeserialize_connack says 1 of a packet without a body too, and leaves
\* the return code at the 0 it was set to; MQTTDeserialize_suback likewise.
ReturnCode(b) == IF Len(b) < 2 THEN 0 ELSE b[2]
GrantedQoS(b) == IF Len(b) < 3 THEN 0 ELSE b[3]

IgnoresRefusal(b) == TRUE                                \* faulty variant
Accepts(b) == ReturnCode(b) = 0
Grants(b) == GrantedQoS(b) # NotGranted

PingDue == ~client.ping /\ expired \intersect {"sent", "received"} # {}
NeverMissed == FALSE                                     \* faulty variant
NoAnswerToPing == client.ping /\ "ping" \in expired

Keepalive ==
    /\ pc = "keepalive"
    /\ \/ /\ ~NoAnswerToPing /\ ~PingDue
          /\ pc' = "cycled" /\ UNCHANGED <<client, requests, expired>>
       \/ /\ PingDue
          /\ requests' = Written("PINGREQ") /\ expired' = expired \ {"sent", "ping"}
          /\ pc' = "cycled" /\ client' = [client EXCEPT !.ping = TRUE]
       \/ /\ NoAnswerToPing \/ (PingDue /\ MayFail)
          /\ pc' = "failed" /\ client' = CloseSession(client) /\ UNCHANGED <<requests, expired>>
    /\ UNCHANGED <<link, air, broker, commands, pending, op, timer, wait, packet, publishes,
                   turn, delivered, flaws, asked>>

Awaited == \/ op = "connect" /\ Type = CONNACK
           \/ op = "subscribe" /\ Type = SUBACK

ConnectReturns ==
    LET c == [client EXCEPT !.connected = Accepts(Body), !.ping = @ /\ ~Accepts(Body)]
    IN  Subscribe(c) /\ publishes' = (publishes \/ c.connected)

SubscribeReturns ==
    Idle /\ client' = [client EXCEPT !.handler = Grants(Body)] /\ UNCHANGED <<requests, expired, publishes>>

CycleReturns ==
    /\ pc = "cycled"
    /\ IF ~Awaited THEN Loop /\ UNCHANGED <<client, requests, expired, publishes>>
       ELSE IF op = "connect" THEN ConnectReturns
       ELSE SubscribeReturns
    /\ UNCHANGED <<link, air, broker, commands, pending, turn, delivered, flaws, asked>>

----------------------------------------------------------------------------
(* main() *)

\* A new manager has a ring and a client of its own.
NewManager ==
    /\ asked < MaxConnections /\ asked' = asked + 1
    /\ pending' = <<>> /\ client' = NewClient /\ delivered' = <<>> /\ flaws' = {}

\* IPStack::connect opens a connection that is new to the broker too; the
\* network may be back.
Dial == /\ link' \in {link, "up"} /\ air' = <<>>
        /\ broker' = NoAnswer /\ commands' = <<>>

\* connectMQTT sends the request and starts to wait; without a connection -
\* a broker address that is no number - it fails at once.
ConnectMQTT ==
    \/ Start("connect") /\ requests' = <<"CONNECT">> /\ expired' = expired \ {"sent", "received"}
    \/ Idle /\ requests' = <<>> /\ expired' = expired \union {"sent", "received"}

\* What the operator asks for.
Connect ==
    /\ op = "none" /\ turn = "event"
    /\ NewManager /\ Dial /\ ConnectMQTT
    /\ UNCHANGED <<publishes, turn>>

\* A publication that cannot be written closes the session; one that is
\* leaves no other trace, at QoS 0.
WritePublication ==
    \/ expired' = expired \ {"sent"} /\ UNCHANGED client
    \/ MayFail /\ client' = Closed(client) /\ UNCHANGED expired

\* publish() refuses without a session.
Publish == IF client.connected THEN WritePublication ELSE UNCHANGED <<client, expired>>

\* menuHandler.event(), which may publish; nobody looks at what came of it.
MenuEvent ==
    /\ op = "none" /\ turn = "event" /\ publishes
    /\ turn' = "yield"
    /\ Publish \/ UNCHANGED <<client, expired>>
    /\ UNCHANGED <<network, pending, call, publishes, delivered, flaws, asked>>

Yield ==
    /\ op = "none" /\ turn = "yield"
    /\ Start("yield") /\ turn' = "event"
    /\ UNCHANGED <<network, pending, client, expired, publishes, delivered, flaws, asked>>

----------------------------------------------------------------------------
(* The network and the broker *)

Room == RingSize - Len(pending)

Arrive(n) ==
    LET first == Head(air)
    IN  /\ pending' = pending \o SubSeq(first, 1, IF n <= Room THEN n ELSE Room)
        /\ air' = IF n = Len(first) THEN Tail(air)
                  ELSE <<SubSeq(first, n + 1, Len(first))>> \o Tail(air)
        /\ flaws' = IF n > Room THEN flaws \union {"lost"} ELSE flaws

\* A poll inside a read brings the oldest packet or a piece of it.  Inside a
\* packet only a read that is short of bytes need poll: what comes early might
\* as well come at the next header.
Poll ==
    /\ link = "up" /\ air # <<>>
    /\ \/ pc = "header"
       \/ pc = "length" /\ pending = <<>>
       \/ pc = "rest" /\ Len(pending) < packet.remaining
    /\ \E n \in 1..Len(Head(air)) : Arrive(n)
    /\ UNCHANGED <<link, requests, broker, commands, call, client, expired, publishes, turn,
                   delivered, asked>>

LinkDies ==
    /\ link = "up" /\ Waits
    /\ link' = "down" /\ air' = <<>> /\ requests' = <<>>
    /\ UNCHANGED <<broker, commands, pending, call, client, expired, publishes,
                   turn, delivered, flaws, asked>>

BrokerUnchanged ==
    UNCHANGED <<link, pending, call, client, expired, publishes, turn, delivered, flaws, asked>>

Answer ==
    /\ link = "up" /\ pc = "header" /\ requests # <<>>
    /\ requests' = Tail(requests)
    /\ CASE Head(requests) = "CONNECT" ->
              \E rc \in {0, Refused} :
                air' = Append(air, Connack(rc)) /\ broker' = [broker EXCEPT !.accepted = (rc = 0)]
         [] Head(requests) = "SUBSCRIBE" ->
              \E granted \in {0, NotGranted} :
                /\ air' = Append(air, Suback(granted))
                /\ broker' = [broker EXCEPT !.granted = (granted = 0)]
         [] OTHER -> air' = Append(air, Pingresp) /\ UNCHANGED broker
    /\ UNCHANGED commands /\ BrokerUnchanged

\* A broker may send what matches a subscription before it grants it.
SendCommand(payload) ==
    /\ link = "up" /\ pc = "header" /\ Len(commands) < MaxCommands
    /\ broker.granted \/ (requests # <<>> /\ Head(requests) = "SUBSCRIBE")
    /\ air' = Append(air, Command(payload))
    /\ commands' = Append(commands, payload)
    /\ broker' = [broker EXCEPT !.early = IF broker.granted THEN @ ELSE @ + 1]
    /\ UNCHANGED requests /\ BrokerUnchanged

Broker == Answer \/ \E payload \in Payloads : SendCommand(payload)

Device ==
    \/ GoOn \/ LeaveLoop
    \/ ReadHeader \/ NoHeader \/ ReadLength \/ NoLength \/ ReadRest \/ NoRest \/ TooLong
    \/ Dispatch \/ Keepalive \/ CycleReturns
    \/ MenuEvent \/ Yield

Expiry == \E t \in {"sent", "received", "ping"} : Expire(t)

SessionNext == Device \/ Connect \/ TimerRuns \/ Expiry \/ Poll \/ LinkDies \/ Broker

SessionSpec == SessionInit /\ [][SessionNext]_sessionVars

\* The core runs, and time passes however often a read comes back: strong
\* fairness, as the model lets time pass in the reads only.  The network and
\* the operator need do nothing.
FairSession ==
    /\ SessionSpec
    /\ WF_sessionVars(Device) /\ SF_sessionVars(TimerRuns)
    /\ \A t \in {"sent", "received", "ping"} : SF_sessionVars(Expire(t))

----------------------------------------------------------------------------
(* Properties *)

SessionTypes ==
    /\ pending \in Seq(WireBytes) /\ Len(pending) <= RingSize
    /\ packet.lengths \in 0..4 /\ packet.remaining \in Nat
    /\ Len(packet.body) \in {0, packet.remaining}
    /\ op = "none" => pc = "idle"

\* The client believes in a session only if the broker accepted it, and has
\* a handler in it only for a subscription that was granted - as long as no
\* byte was lost and no read gave up inside a packet's length.  (A client that
\* closed itself inside subscribe() reads on, and may take the rest of a packet
\* for a SUBACK: its handler is of no session.)
SessionAgrees ==
    InStep /\ client.connected => broker.accepted /\ (client.handler => broker.granted)

\* The ring and the packet in the buffer stay in their bounds, and client and
\* broker agree (IPStack.cpp:150-231, MQTTClient.h:732-790, 853-888).
SessionInv == SessionTypes /\ SessionAgrees

\* Between two packets of a session what has been received, and with it what is
\* on its way next, starts with a packet: a read that failed in the middle of
\* one has closed the session.
Packets == {Connack(rc) : rc \in {0, Refused}} \union {Suback(g) : g \in {0, NotGranted}}
             \union {Command(p) : p \in Payloads} \union {Pingresp}

InStepOrClosed ==
    LET rest == IF air = <<>> THEN pending ELSE pending \o Head(air)
    IN  InStep /\ client.connected /\ pc \in {"check", "idle", "header"}
            => rest = <<>> \/ \E p \in Packets : IsPrefix(p, rest) \/ IsPrefix(rest, p)

\* The callback sees the commands the broker sent, each once and in their
\* order, none of before the subscription was granted, none skipped.
CommandsInOrder ==
    InStep => IsPrefix(delivered, SubSeq(commands, broker.early + 1, Len(commands)))

\* readPacket's comment: "If any read fails in this method, then we should
\* disconnect from the network".
FailedReadCloses == "cut" \in flaws /\ op = "none" => ~client.connected

\* A broker that falls silent is noticed and the session closed, unless a
\* read without limit waits inside a packet.
SilenceNoticed ==
    (link = "down" /\ client.connected)
        ~> (~client.connected \/ wait = "endless" \/ ~InStep \/ link = "up")
=============================================================================
