----------------------------- MODULE MqttReading -----------------------------
(***************************************************************************)
(* How paho finds the packets in a stream: MQTTPacket_read, which waits    *)
(* for its bytes, MQTTPacket_readnb, which is called again as they come,   *)
(* and isTopicMatched, which finds a message's handlers.                   *)
(***************************************************************************)
EXTENDS MqttPackets

From(s, i) == SubSeq(s, i, Len(s))

\* MQTTPacket_read on a stream that has all bytes: the type or -1, the
\* packet in the buffer, and what is left.  A length of more than four bytes
\* is not noticed.
Read(buflen, in) ==
    LET used   == Min({LengthBytes(Tail(in)), MaxLengthBytes})
        rest   == DecodedLength(Tail(in))
        packet == <<in[1]>> \o EncodedLength(rest) \o SubSeq(in, used + 2, used + 1 + rest)
        begun  == 1 + Len(EncodedLength(rest))
    IN  IF begun + rest > buflen THEN [rc |-> -1, packet |-> <<>>, left |-> From(in, used + 2)]
        ELSE [rc |-> TypeOf(in), packet |-> packet, left |-> From(in, used + 2 + rest)]

-----------------------------------------------------------------------------
(* MQTTPacket_readnb with its MQTTTransport t, on the bytes in that have   *)
(* come: rc 0 asks to be called again.                                     *)

Transports == [state : 0..2, len : Nat, multiplier : Nat, rest : Nat, packet : Seq(Nat)]
NewTransport == [state |-> 0, len |-> 0, multiplier |-> 1, rest |-> 0, packet |-> <<>>]

\* MQTTPacket_decodenb, byte by byte until d says how it ended; the
\* multiplier is that of the next byte.
More == 5                       \* rc of a length that is not at its end yet

NextDigit(d) ==
    LET v == [d.t EXCEPT !.len = @ + 1, !.rest = @ + (d.left[1] % 128) * d.t.multiplier,
                         !.multiplier = @ * 128]
    IN  IF d.rc # More THEN d
        ELSE IF d.t.len >= MaxLengthBytes THEN [d EXCEPT !.rc = -1]
        ELSE IF d.left = <<>> THEN [d EXCEPT !.rc = 0]
        ELSE [rc |-> IF d.left[1] < 128 THEN v.len ELSE More, t |-> v, left |-> Tail(d.left)]

TwoDigits(d) == NextDigit(NextDigit(d))

\* After five tries it has ended.
DecodeNb(t, in) ==
    LET u == IF t.len = 0 THEN [t EXCEPT !.multiplier = 1, !.rest = 0] ELSE t
    IN  TwoDigits(TwoDigits(NextDigit([rc |-> More, t |-> u, left |-> in])))

Ended(rc, t, in) == [rc |-> rc, t |-> [t EXCEPT !.state = 0], left |-> in]
Again(t, in) == [rc |-> 0, t |-> t, left |-> in]

\* State 2: the rest of the packet, as much of it as is there.
ReadRest(t, in) ==
    LET got == Min({t.rest, Len(in)})
        u   == [t EXCEPT !.rest = @ - got, !.len = @ + got, !.packet = @ \o SubSeq(in, 1, got)]
    IN  IF u.rest > 0 THEN Again(u, From(in, got + 1))
        ELSE Ended(TypeOf(u.packet), u, From(in, got + 1))

\* State 1: the remaining length, which may come in pieces; d is what came.
LengthRead(buflen, d) ==
    LET n == EncodedLength(d.t.rest)
        u == [d.t EXCEPT !.len = 1 + Len(n), !.packet = @ \o n]
    IN  CASE d.rc = -1 -> Ended(-1, d.t, d.left)
          [] d.rc = 0  -> Again(d.t, d.left)
          [] OTHER     -> IF u.rest + u.len > buflen THEN Ended(-1, u, d.left)
                          ELSE ReadRest([u EXCEPT !.state = 2], d.left)

ReadLength(buflen, t, in) == LengthRead(buflen, DecodeNb(t, in))

ForgetsLength(t) == [t EXCEPT !.state = 1, !.len = 0]    \* faulty variant
Resumed(t) == t

ReadNb(buflen, t, in) ==
    CASE t.state = 0 ->
             IF in = <<>> THEN Again(t, in)
             ELSE ReadLength(buflen, [t EXCEPT !.state = 1, !.len = 0, !.packet = <<in[1]>>],
                             Tail(in))
      [] t.state = 1 -> ReadLength(buflen, Resumed(t), in)
      [] t.state = 2 -> ReadRest(t, in)

-----------------------------------------------------------------------------
(* isTopicMatched on characters. *)

\* Where the loop stands after a '+' at n: before the next separator.
SkipLevel(name, n) ==
    Min({i \in n..Len(name) : i = Len(name) \/ name[i + 1] = "/"})

Crosses(f, n) == FALSE                                   \* faulty variant
Stops(f, n) == (n = "/" /\ f # "/") \/ (f \notin {"+", "#"} /\ f # n)

\* The last character of the name that f takes at n.
LastTaken(f, name, n) ==
    IF f = "+" THEN SkipLevel(name, n) ELSE IF f = "#" THEN Len(name) ELSE n

IsTopicMatched(filter, name) ==
    LET from[at \in Nat \X Nat] ==
            LET f == at[1]
                n == at[2]
            IN  IF f > Len(filter) \/ n > Len(name) \/ Stops(filter[f], name[n])
                THEN n = Len(name) + 1 /\ f = Len(filter) + 1
                ELSE from[<<f + 1, 1 + LastTaken(filter[f], name, n)>>]
    IN  from[<<1, 1>>]

\* MQTTPacket_equals or isTopicMatched, as deliverMessage asks.
Handles(filter, name) == filter = name \/ IsTopicMatched(filter, name)
=============================================================================
