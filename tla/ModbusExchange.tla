--------------------------- MODULE ModbusExchange ---------------------------
(***************************************************************************)
(* One exchange of nanomodbus, byte by byte: every request its client      *)
(* builds, the servers that hear it, and what the client makes of the      *)
(* answer, on the RTU line (unit and CRC) and over TCP (MBAP header).  The *)
(* functions have no state but the message being worked on, so an exchange *)
(* is a function of the call and of the servers' stores.  A server's       *)
(* callbacks are external: they keep their values in a store and may be    *)
(* absent or fail.                                                         *)
(*                                                                         *)
(* A call is [fc, a, n, w, data]: address, quantity (the value of a single *)
(* write), the second address of a read/write or the file, and the words   *)
(* (for coils, the bytes) to write.                                        *)
(***************************************************************************)
EXTENDS Checksums

\* get_2 and put_2.
Word(s, i) == 256 * s[i] + s[i + 1]
TwoBytes(w) == <<w \div 256, w % 256>>

Words(s) == [i \in 1..(Len(s) \div 2) |-> Word(s, 2 * i - 1)]
Octets(ws) == [i \in 1..(2 * Len(ws)) |-> TwoBytes(ws[(i + 1) \div 2])[2 - (i % 2)]]

-----------------------------------------------------------------------------
(* Frames. *)

\* put_msg_header and send_msg; length is the data length the caller claims.
Frame(transport, tid, unit, fc, length, body) ==
    IF transport = "rtu"
    THEN LET m == <<unit, fc>> \o body IN m \o TwoBytes(ModbusCrc(m))
    ELSE TwoBytes(tid) \o <<0, 0>> \o TwoBytes(2 + length) \o <<unit, fc>> \o body

HeaderSize(transport) == IF transport = "rtu" THEN 2 ELSE 8
FooterSize(transport) == IF transport = "rtu" THEN 2 ELSE 0

\* recv_msg_header on the bytes that are there.
HeaderError(transport, in) ==
    IF Len(in) < HeaderSize(transport) THEN "timeout"
    ELSE IF transport = "tcp" /\ (Word(in, 3) # 0 \/ Word(in, 5) > 255) THEN "mbap"
    ELSE "none"

Unit(transport, in) == in[HeaderSize(transport) - 1]
Function(transport, in) == in[HeaderSize(transport)]

\* A body of fixed bytes, the last of which may count more bytes.
BodySize(transport, in, fixed, counted) ==
    LET last == HeaderSize(transport) + fixed
    IN  IF counted /\ Len(in) >= last THEN fixed + in[last] ELSE fixed

FrameSize(transport, in, fixed, counted) ==
    HeaderSize(transport) + BodySize(transport, in, fixed, counted) + FooterSize(transport)

CrcMatches(transport, in, size) ==
    transport = "rtu" => Word(in, size - 1) = ModbusCrc(SubSeq(in, 1, size - 2))

\* recv of the body, recv_msg_footer: a short read takes what there is.
BodyError(transport, in, fixed, counted) ==
    LET size == FrameSize(transport, in, fixed, counted)
    IN  IF Len(in) < size THEN "timeout"
        ELSE IF ~CrcMatches(transport, in, size) THEN "crc"
        ELSE "none"

Body(transport, in, fixed, counted) ==
    SubSeq(in, HeaderSize(transport) + 1,
           HeaderSize(transport) + BodySize(transport, in, fixed, counted))

After(in, size) == SubSeq(in, size + 1, Len(in))

-----------------------------------------------------------------------------
(* The client's requests. *)

Reads == {1, 2, 3, 4}
Known == Reads \cup {5, 6, 15, 16, 20, 21, 23}

Below(x, limit) == x \in 1..limit
Fits(a, n) == a + n <= 65536

\* The largest quantities a server takes.
Limit(fc) == IF fc \in {1, 2} THEN 2000 ELSE IF fc \in {3, 4, 23} THEN 125
             ELSE IF fc = 15 THEN 1968 ELSE 123

\* What the client refuses to send.
Allowed(c) ==
    CASE c.fc \in Reads     -> Below(c.n, Limit(c.fc)) /\ Fits(c.a, c.n)
      [] c.fc \in {5, 6}    -> TRUE
      [] c.fc \in {15, 16}  -> Below(c.n, IF c.fc = 15 THEN 1968 ELSE 123) /\ Fits(c.a, c.n)
      [] c.fc \in {20, 21}  -> c.w # 0 /\ c.a <= 9999 /\ c.n <= (IF c.fc = 20 THEN 124 ELSE 122)
      [] c.fc = 23          -> /\ Below(c.n, 125) /\ Fits(c.a, c.n)
                               /\ Below(Len(c.data), 121) /\ Fits(c.w, Len(c.data))

RequestBody(c) ==
    CASE c.fc \in Reads \cup {6} -> TwoBytes(c.a) \o TwoBytes(c.n)
      [] c.fc = 5  -> TwoBytes(c.a) \o (IF c.n = 0 THEN <<0, 0>> ELSE <<255, 0>>)
      [] c.fc = 15 -> TwoBytes(c.a) \o TwoBytes(c.n) \o <<Len(c.data)>> \o c.data
      [] c.fc = 16 -> TwoBytes(c.a) \o TwoBytes(c.n) \o <<2 * c.n>> \o Octets(c.data)
      [] c.fc = 20 -> <<7, 6>> \o TwoBytes(c.w) \o TwoBytes(c.a) \o TwoBytes(c.n)
      [] c.fc = 21 -> <<7 + 2 * c.n, 6>> \o TwoBytes(c.w) \o TwoBytes(c.a) \o TwoBytes(c.n)
                          \o Octets(c.data)
      [] c.fc = 23 -> TwoBytes(c.a) \o TwoBytes(c.n) \o TwoBytes(c.w)
                          \o TwoBytes(Len(c.data)) \o <<2 * Len(c.data)>> \o Octets(c.data)

Request(transport, tid, unit, c) ==
    Frame(transport, tid, unit, c.fc, Len(RequestBody(c)), RequestBody(c))

\* msg_state_req: every request has the next transaction number, never 0.
NextTid(tid) == IF tid = 65535 THEN 1 ELSE tid + 1

NoBroadcast(transport, unit) == FALSE                    \* faulty variant
Broadcast(transport, unit) == transport = "rtu" /\ unit = 0

-----------------------------------------------------------------------------
(* The server's side. *)

RequestFixed(fc) == IF fc \in {15, 16} THEN 5 ELSE IF fc \in {20, 21} THEN 1
                    ELSE IF fc = 23 THEN 9 ELSE 4
RequestCounted(fc) == fc \in {15, 16, 20, 21, 23}

AnswerFixed(fc) == IF fc \in {5, 6, 15, 16} THEN 4 ELSE 1
AnswerCounted(fc) == AnswerFixed(fc) = 1

\* The sub-requests of a file request: seven bytes each, in a write followed
\* by the words.
ReadParts(b) == [i \in 1..(Len(b) \div 7) |-> SubSeq(b, 7 * i - 6, 7 * i)]

WriteParts(b) ==
    LET from[i \in Nat] ==
            IF Len(b) < i + 6 THEN <<>>
            ELSE LET next == i + 7 + 2 * Word(b, i + 5)
                 IN  <<SubSeq(b, i, next - 1)>> \o from[next]
    IN  from[1]

PartRefused(p, longest) ==
    p[1] # 6 \/ Word(p, 2) = 0 \/ Word(p, 4) > 9999 \/ Word(p, 6) > longest

RangeRefusal(fc, a, n) == IF ~Below(n, Limit(fc)) THEN 3 ELSE IF ~Fits(a, n) THEN 2 ELSE 0

FileRefusal(size, most, parts, longest, odd) ==
    IF size < 7 \/ size > most THEN 3
    ELSE IF \E i \in DOMAIN parts : PartRefused(parts[i], longest) THEN 2
    ELSE IF odd THEN 3 ELSE 0

SingleRefusal(fc, b) == IF fc = 6 \/ Word(b, 3) \in {0, 65280} THEN 0 ELSE 3

ManyRefusal(fc, b) ==
    LET range == RangeRefusal(fc, Word(b, 1), Word(b, 3))
        size  == IF fc = 15 THEN (Word(b, 3) + 7) \div 8 ELSE 2 * Word(b, 3)
    IN  IF range # 0 THEN range ELSE IF b[5] = 0 \/ b[5] # size THEN 3 ELSE 0

FileWriteRefusal(b) ==
    LET parts == WriteParts(Tail(b))
    IN  FileRefusal(b[1], 251, parts, 122, Len(FlattenSeq(parts)) # b[1])

ReadWriteRefusal(b) ==
    IF ~Below(Word(b, 3), Limit(23)) \/ ~Below(Word(b, 7), 123) \/ b[9] # 2 * Word(b, 7) THEN 3
    ELSE IF Fits(Word(b, 1), Word(b, 3)) /\ Fits(Word(b, 5), Word(b, 7)) THEN 0 ELSE 2

\* The exception that answers a request whatever the callbacks do, or 0.
Refusal(fc, b) ==
    CASE fc \in Reads    -> RangeRefusal(fc, Word(b, 1), Word(b, 3))
      [] fc \in {5, 6}   -> SingleRefusal(fc, b)
      [] fc \in {15, 16} -> ManyRefusal(fc, b)
      [] fc = 20         -> IF b[1] % 7 # 0 THEN 3
                            ELSE FileRefusal(b[1], 245, ReadParts(Tail(b)), 124, FALSE)
      [] fc = 21         -> FileWriteRefusal(b)
      [] fc = 23         -> ReadWriteRefusal(b)

CallbacksOf(fc) == IF fc \in Reads \cup {20} THEN {"read"}
                   ELSE IF fc = 23 THEN {"read", "write"} ELSE {"write"}

\* External: what the callbacks keep.  A store maps <<table, address>> to a
\* value, for a file <<its number, record>>; nothing written reads as 0.
Coils == -1
Inputs == -2
Holding == -3
InputRegisters == -4

Stored(store, table, a) == IF <<table, a>> \in DOMAIN store THEN store[<<table, a>>] ELSE 0
Values(store, table, a, n) == [i \in 1..n |-> Stored(store, table, a + i - 1)]
WithValues(store, table, a, vs) ==
    [k \in {<<table, a + i - 1>> : i \in DOMAIN vs} |-> vs[k[2] - a + 1]] @@ store

Bit(byte, i) == (byte \div 2^i) % 2
Bits(bytes, n) == [i \in 1..n |-> Bit(bytes[(i - 1) \div 8 + 1], (i - 1) % 8)]
Packed(bits) ==
    [j \in 1..((Len(bits) + 7) \div 8) |->
        FoldLeft(LAMBDA sum, i : sum + (IF 8 * (j - 1) + i + 1 <= Len(bits)
                                        THEN bits[8 * (j - 1) + i + 1] * 2^i ELSE 0),
                 0, <<0, 1, 2, 3, 4, 5, 6, 7>>)]

Table(fc) == CASE fc \in {1, 5, 15} -> Coils [] fc = 2 -> Inputs
               [] fc \in {3, 6, 16, 23} -> Holding [] fc = 4 -> InputRegisters

\* What the write callbacks leave behind.
Written(store, fc, b) ==
    CASE fc \in Reads \cup {20} -> store
      [] fc = 5  -> WithValues(store, Coils, Word(b, 1), <<IF Word(b, 3) = 0 THEN 0 ELSE 1>>)
      [] fc = 6  -> WithValues(store, Holding, Word(b, 1), <<Word(b, 3)>>)
      [] fc = 15 -> WithValues(store, Coils, Word(b, 1), Bits(After(b, 5), Word(b, 3)))
      [] fc = 16 -> WithValues(store, Holding, Word(b, 1), Words(After(b, 5)))
      [] fc = 21 -> FoldLeft(LAMBDA s, p : WithValues(s, Word(p, 2), Word(p, 4), Words(After(p, 7))),
                             store, WriteParts(Tail(b)))
      [] fc = 23 -> WithValues(store, Holding, Word(b, 5), Words(After(b, 9)))

\* The body of the answer.
AnswerBody(store, fc, b) ==
    CASE fc \in {1, 2} -> LET bytes == Packed(Values(store, Table(fc), Word(b, 1), Word(b, 3)))
                          IN  <<Len(bytes)>> \o bytes
      [] fc \in {3, 4, 23} -> <<2 * Word(b, 3)>>
                                \o Octets(Values(store, Table(fc), Word(b, 1), Word(b, 3)))
      [] fc \in {5, 6, 15, 16} -> SubSeq(b, 1, 4)
      [] fc = 20 -> LET part(p) == <<2 * Word(p, 6) + 1, 6>>
                                     \o Octets(Values(store, Word(p, 2), Word(p, 4), Word(p, 6)))
                        parts   == ReadParts(Tail(b))
                        all     == FlattenSeq([i \in DOMAIN parts |-> part(parts[i])])
                    IN  <<Len(all)>> \o all
      [] fc = 21 -> b

\* The data length put into the header: a file answer does not count its own
\* count byte, a file write echoes the request's header.
AnswerLength(fc, body) == IF fc = 20 THEN Len(body) - 1 ELSE Len(body)

\* What a handler does with a request for it: the new store, and an answer
\* (fc, body) or <<>>.  Exceptions are sent even to a broadcast.
Refused(srv, fc, code) == [store |-> srv.store, fc |-> fc + 128, body |-> <<code>>]

Handled(srv, broadcast, fc, b) ==
    LET absent == CallbacksOf(fc) \cap srv.absent # {}
        runs   == IF broadcast /\ fc = 23 THEN {"write"} ELSE CallbacksOf(fc)
        done   == [srv EXCEPT !.store = Written(srv.store, fc, b)]
    IN  IF fc = 5 /\ absent THEN Refused(srv, fc, 1)
        ELSE IF Refusal(fc, b) # 0 THEN Refused(srv, fc, Refusal(fc, b))
        ELSE IF absent THEN Refused(srv, fc, 1)
        ELSE IF "write" \in runs \cap srv.failing THEN Refused(srv, fc, 4)
        ELSE IF "read" \in runs \cap srv.failing THEN Refused(done, fc, 4)
        ELSE [store |-> done.store, fc |-> fc,
              body |-> IF broadcast THEN <<>> ELSE AnswerBody(done.store, fc, b)]

ForMe(transport, srv, in) ==
    transport = "tcp" \/ Unit(transport, in) \in {0, srv.address}

\* Whose answer a bystander expects: it takes a read/write of registers for
\* a write of several registers.
Overheard(fc) == IF fc = 23 THEN 16 ELSE fc

AnyTid(transport, in, tid) == FALSE                      \* faulty variant
OtherTid(transport, in, tid) == transport = "tcp" /\ Word(in, 1) # tid

\* recv_res_header and the recv_..._res that follows it, for unit and fc, on
\* bytes in: the error, the body and what is left.  (The length inside a
\* file answer, which the code lets choose the bytes its checksum covers, is
\* taken to agree with the count before it.)
Answer(transport, tid, unit, fc, fixed, counted, in) ==
    LET h == HeaderError(transport, in)
        exception == Function(transport, in) = fc + 128
        f == IF exception THEN 1 ELSE fixed
        c == counted /\ ~exception
        e == BodyError(transport, in, f, c)
        b == Body(transport, in, f, c)
        left == After(in, FrameSize(transport, in, f, c))
        Failed(err, rest) == [err |-> err, body |-> <<>>, left |-> rest]
    IN  CASE h # "none" -> Failed(h, After(in, HeaderSize(transport)))
          [] h = "none" /\ OtherTid(transport, in, tid) ->
                 Failed("mbap", After(in, HeaderSize(transport)))
          [] h = "none" /\ transport = "rtu" /\ Unit(transport, in) # unit ->
                 Failed("unit", After(in, HeaderSize(transport)))
          [] h = "none" /\ ~exception /\ Function(transport, in) # fc ->
                 Failed("response", After(in, HeaderSize(transport)))
          [] OTHER ->
                 IF e # "none" THEN Failed(e, left)
                 ELSE IF exception
                      THEN Failed(IF b[1] \in 1..4 THEN "exception" ELSE "response", left)
                 ELSE [err |-> "none", body |-> b, left |-> left]

\* nmbs_server_poll: the server after it, its answer on the line, the bytes
\* left in its ring.  (The flush at the end is for a bad request only: an
\* overheard answer has reset ignored.)
Poll(transport, srv, in) ==
    LET h    == HeaderError(transport, in)
        fc   == Function(transport, in)
        fix  == RequestFixed(fc)
        cnt  == RequestCounted(fc)
        e    == BodyError(transport, in, fix, cnt)
        left == After(in, FrameSize(transport, in, fix, cnt))
        Silent(rest) == [store |-> srv.store, reply |-> <<>>, left |-> rest]
    IN  IF h # "none" THEN Silent(After(in, HeaderSize(transport)))
        ELSE IF fc \notin Known THEN Silent(After(in, HeaderSize(transport)))
        ELSE IF e # "none"
             THEN Silent(IF ForMe(transport, srv, in) THEN left ELSE <<>>)
        ELSE IF ForMe(transport, srv, in)
        THEN LET b == Body(transport, in, fix, cnt)
                 r == Handled(srv, Broadcast(transport, Unit(transport, in)), fc, b)
                 tid == IF transport = "tcp" THEN Word(in, 1) ELSE 0
             IN  [store |-> r.store, left |-> left,
                  reply |-> IF r.body = <<>> THEN <<>>
                            ELSE Frame(transport, tid, Unit(transport, in), r.fc,
                                       AnswerLength(r.fc, r.body), r.body)]
        ELSE Silent(Answer(transport, 0, Unit(transport, in), fc, AnswerFixed(Overheard(fc)),
                           AnswerCounted(Overheard(fc)), left).left)

\* Polls until the ring is empty; each takes at least a byte.
Polled(transport, srv, in) ==
    LET after[n \in 0..Len(in)] ==
            IF n = 0 THEN [store |-> srv.store, left |-> in]
            ELSE LET was == after[n - 1]
                 IN  IF was.left = <<>> THEN was
                     ELSE Poll(transport, [srv EXCEPT !.store = was.store], was.left)
    IN  after[Len(in)].store

-----------------------------------------------------------------------------
(* The client's verdict. *)

EchoAccepted(c, b) == b = SubSeq(RequestBody(c), 1, 4)

FileAccepted(c, b) ==
    IF c.fc = 20 THEN b[3] = 6 /\ c.n = (b[2] - 1) \div 2 ELSE b = RequestBody(c)

\* What each recv_..._res makes of a body for call c.
Accepted(c, b) ==
    CASE c.fc \in {1, 2}         -> TRUE
      [] c.fc \in {3, 4, 23}     -> b[1] = 2 * c.n
      [] c.fc \in {5, 6, 15, 16} -> EchoAccepted(c, b)
      [] c.fc \in {20, 21}       -> FileAccepted(c, b)

ResultOf(c, b) ==
    CASE c.fc \in {1, 2}     -> Tail(b)
      [] c.fc \in {3, 4, 23} -> Words(Tail(b))
      [] c.fc = 20           -> Words(After(b, 3))
      [] OTHER               -> <<>>

Verdict(transport, tid, unit, c, in) ==
    LET r == Answer(transport, tid, unit, c.fc, AnswerFixed(c.fc), AnswerCounted(c.fc), in)
    IN  IF r.err # "none" THEN [err |-> r.err, result |-> <<>>]
        ELSE IF ~Accepted(c, r.body) THEN [err |-> "response", result |-> <<>>]
        ELSE [err |-> "none", result |-> ResultOf(c, r.body)]

\* Raw calls: any function, and an answer of n bytes that nothing checks.
RawRequest(transport, tid, unit, fc, data) ==
    Frame(transport, tid, unit, fc, Len(data), data)
RawVerdict(transport, tid, unit, fc, n, in) ==
    LET r == Answer(transport, tid, unit, fc, n, FALSE, in) IN [err |-> r.err, result |-> r.body]

\* A whole call to server srv over a line that garbles nothing.
Called(transport, tid, unit, c, srv) ==
    LET p == Poll(transport, srv, Request(transport, tid, unit, c))
    IN  IF ~Allowed(c) THEN [err |-> "argument", result |-> <<>>, store |-> srv.store]
        ELSE IF Broadcast(transport, unit) /\ c.fc \notin Reads
        THEN [err |-> "none", result |-> <<>>, store |-> p.store]
        ELSE Verdict(transport, tid, unit, c, p.reply) @@ [store |-> p.store]

-----------------------------------------------------------------------------
(* Time: how long uart_transport_read waits for a byte, in microseconds,   *)
(* -1 for ever.  The UART hands its bytes over when level of them are in   *)
(* its queue, or after 32 bits of silence.                                 *)

FifoLevel(ifls) == IF ifls > 4 THEN 0 ELSE <<4, 8, 16, 24, 28>>[ifls + 1]

FifoTime(level, baud) == ((level * 10 + 32) * 1000000) \div baud

ByteTimeout(timeout, level, baud) ==
    IF timeout < 0 THEN -1
    ELSE IF level # 0 /\ 1000 * timeout < FifoTime(level, baud) THEN FifoTime(level, baud)
    ELSE 1000 * timeout
=============================================================================
