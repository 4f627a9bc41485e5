---------------------------- MODULE ModbusMaster ----------------------------
(***************************************************************************)
(* One client polls every device of the RS-485 line: ModbusRegister sets   *)
(* the server address and calls nanomodbus, which sends a request and      *)
(* parses the answer field by field, each field with a timeout of its own. *)
(* Whatever an exchange did not consume stays in the receive ring for the  *)
(* next one.  ModbusRegister drops nanomodbus's verdict.                   *)
(*                                                                         *)
(* A byte is [n |-> its value, of |-> <<>>]; the two bytes of a CRC are    *)
(* opaque, with the frame they protect in "of", and numbers that no data   *)
(* byte has.                                                               *)
(***************************************************************************)
EXTENDS Integers, Sequences, SequencesExt

CONSTANTS
    Sensors,     \* the registers polled: "fan", "co2", "t" and "rh"
    Values,      \* what a register can hold; one byte is enough here
    RxSize,      \* bytes the receive ring holds, 255
    MaxDue       \* bound on the answers on their way at a time

Server == [fan |-> 1, co2 |-> 240, t |-> 241, rh |-> 241]

ASSUME ModbusAssumption ==
    /\ Sensors \subseteq DOMAIN Server
    /\ Values \subseteq 0..255 /\ 0 \in Values
    /\ RxSize \in Nat /\ RxSize >= 8
    /\ MaxDue \in Nat

ReadFc == 3
WriteFc == 6
ExceptionBit == 128

VARIABLES
    orderly,     \* the kind of line: devices answer within the timeout or
                 \* never, with intact headers; or late and garbled as well
    register,    \* what every device's register holds
    due,         \* answers on their way, oldest first
    rx,          \* the receive ring, oldest byte first
    at,          \* the field nanomodbus waits for, or "idle"
    asked,       \* the request under way, or the last one
    body,        \* msg.buf: the answer's fields so far
    value,       \* ModbusRegister::read()'s local "value"
    verdict,     \* what nanomodbus returned, once it has
    had          \* what the asked register has held since the request

lineVars == <<orderly, register, due>>
vars == <<lineVars, rx, at, asked, body, value, verdict, had>>

Requests ==
    [sensor : Sensors, fc : {ReadFc}, value : {0}]
    \cup [sensor : Sensors \cap {"fan"}, fc : {WriteFc}, value : Values]

Fields == {"unit", "fc", "count", "data", "echo", "exception", "crc"}

Octet(n) == [n |-> n, of |-> <<>>]
Crc(fields) == <<[n |-> 256, of |-> fields], [n |-> 257, of |-> fields]>>

TypeOK ==
    /\ orderly \in BOOLEAN
    /\ register \in [Sensors -> Values]
    /\ rx \in Seq([n : 0..257, of : Seq(Int)]) /\ Len(rx) <= RxSize
    /\ at \in Fields \cup {"idle"}
    /\ asked \in Requests
    /\ body \in Seq(Int)
    /\ value \in Int
    /\ verdict \in {"none", "ok", "error"}
    /\ had \subseteq Values

\* main() sets the fan to 0 before it polls anything.
Init ==
    /\ orderly \in BOOLEAN
    /\ register \in [Sensors -> {0}]
    /\ due = <<>>
    /\ rx = <<>> /\ at = "idle"
    /\ asked \in {r \in Requests : r.fc = ReadFc}
    /\ body = <<>> /\ value = 0
    /\ verdict = "none" /\ had = {}

(***************************************************************************)
(* The line.                                                               *)
(***************************************************************************)
\* What the addressed device answers: the register, the echo, or an exception.
Answers(r, held) ==
    {<<Server[r.sensor], r.fc + ExceptionBit, 2>>}
    \cup {IF r.fc = ReadFc THEN <<Server[r.sensor], ReadFc, 2, 0, held>>
                           ELSE <<Server[r.sensor], WriteFc, 0, 0, 0, r.value>>}

\* A frame as it arrives.  Noise changes its last data byte or, when the
\* line is not orderly, its first one; or the last byte is missing.
Frame(fields) == [i \in 1..Len(fields) |-> Octet(fields[i])] \o Crc(fields)

Arrivals(fields) ==
    LET f == Frame(fields)
        noisy == IF orderly THEN {Len(fields)} ELSE {1, Len(fields)}
    IN  {f, Front(f)} \cup {[f EXCEPT ![i] = Octet(255)] : i \in noisy}

\* Bytes that the ring has no room for are dropped.
Received(bytes) ==
    LET all == rx \o bytes
    IN  IF Len(all) <= RxSize THEN all ELSE SubSeq(all, 1, RxSize)

Deliver ==
    /\ due # <<>>
    /\ orderly => at # "idle"
    /\ \E f \in Arrivals(Head(due)) : rx' = Received(f)
    /\ due' = Tail(due)
    /\ UNCHANGED <<orderly, register, at, asked, body, value, verdict, had>>

\* A sensor's own value changes.  Bound: not while the line is garbled.
Change(s) ==
    /\ s # "fan" /\ orderly
    /\ \E v \in Values :
        /\ register' = [register EXCEPT ![s] = v]
        /\ had' = IF at # "idle" /\ s = asked.sensor THEN had \cup {v} ELSE had
    /\ UNCHANGED <<orderly, due, rx, at, asked, body, value, verdict>>

(***************************************************************************)
(* The client.  Setting the address and sending the request is one step:   *)
(* it does not wait.  The request reaches its device, which answers, or is *)
(* lost.  Bound: on a garbled line the client asks two sensors only.       *)
(***************************************************************************)
Request(r) ==
    /\ at = "idle"
    /\ orderly \/ r.sensor \in {"co2", "rh"}
    /\ asked' = r
    /\ at' = "unit" /\ body' = <<>>
    /\ value' = 0 /\ verdict' = "none"
    /\ \/ UNCHANGED lineVars /\ had' = {register[r.sensor]}
       \/ \E a \in Answers(r, register[r.sensor]) :
            /\ Len(due) < MaxDue
            /\ due' = Append(due, a)
            /\ register' = IF a[2] = WriteFc
                           THEN [register EXCEPT ![r.sensor] = r.value]
                           ELSE register
            /\ had' = {register'[r.sensor]}
    /\ UNCHANGED <<orderly, rx>>

\* recv(count) has got its bytes.
Gets(field, count) == at = field /\ Len(rx) >= count

Consume(count) == rx' = SubSeq(rx, count + 1, Len(rx))

\* The exchange ends, and with it the use of its locals, or it goes on with
\* a field after having read this one.
Return(result) ==
    /\ at' = "idle" /\ verdict' = result
    /\ body' = <<>> /\ had' = {} /\ value' = 0

Continue(field, count) ==
    /\ at' = field
    /\ body' = body \o [i \in 1..count |-> rx[i].n]
    /\ value' = IF field = "crc" /\ at = "data" /\ count >= 2
                THEN 256 * rx[1].n + rx[2].n ELSE value
    /\ UNCHANGED <<verdict, had>>

\* recv() runs out of time: fewer bytes than wanted arrived, and they are
\* gone.  The read timeout applies to the first byte, the byte timeout to
\* all others.  In an orderly line nothing comes after that.
Needed == CASE at \in {"unit", "fc", "count", "exception"} -> 1
            [] at = "data" -> body[3]
            [] at = "echo" -> 4
            [] at = "crc" -> 2

WaitsForEver ==                                         \* faulty variant
    /\ at # "idle" /\ Len(rx) < Needed
    /\ rx' = <<>>
    /\ UNCHANGED <<lineVars, at, asked, body, value, verdict, had>>

KeepsPartial ==                                         \* faulty variant
    /\ at # "idle" /\ Len(rx) < Needed
    /\ due' = IF orderly THEN <<>> ELSE due
    /\ Return("error")
    /\ UNCHANGED <<orderly, register, rx, asked>>

Timeout ==
    /\ at # "idle" /\ Len(rx) < Needed
    /\ rx' = <<>>
    /\ due' = IF orderly THEN <<>> ELSE due
    /\ Return("error")
    /\ UNCHANGED <<orderly, register, asked>>

RecvUnit ==
    /\ Gets("unit", 1) /\ Consume(1)
    /\ Continue("fc", 1)
    /\ UNCHANGED <<lineVars, asked>>

\* recv_res_header(): the unit is checked when the function code is in too.
AnyUnit(n) == TRUE                                      \* faulty variant
RightUnit(n) == n = Server[asked.sensor]

RecvFc ==
    /\ Gets("fc", 1) /\ Consume(1)
    /\ IF ~RightUnit(body[1]) THEN Return("error")
       ELSE IF rx[1].n = asked.fc + ExceptionBit THEN Continue("exception", 1)
       ELSE IF rx[1].n # asked.fc THEN Return("error")
       ELSE Continue(IF asked.fc = ReadFc THEN "count" ELSE "echo", 1)
    /\ UNCHANGED <<lineVars, asked>>

RecvCount ==
    /\ Gets("count", 1) /\ Consume(1)
    /\ Continue("data", 1)
    /\ UNCHANGED <<lineVars, asked>>

\* The register is stored (see Continue) before the CRC is looked at.
RecvData ==
    /\ at = "data" /\ Gets("data", body[3]) /\ Consume(body[3])
    /\ Continue("crc", body[3])
    /\ UNCHANGED <<lineVars, asked>>

RecvEcho ==
    /\ Gets("echo", 4) /\ Consume(4)
    /\ Continue("crc", 4)
    /\ UNCHANGED <<lineVars, asked>>

RecvException ==
    /\ Gets("exception", 1) /\ Consume(1)
    /\ Continue("crc", 1)
    /\ UNCHANGED <<lineVars, asked>>

\* recv_msg_footer(), and the tests that follow it.
CrcUnchecked == TRUE                                    \* faulty variant
CrcMatches == SubSeq(rx, 1, 2) = Crc(body)

Accepted ==
    /\ CrcMatches
    /\ body[2] = asked.fc
    /\ IF asked.fc = ReadFc THEN body[3] = 2
                            ELSE SubSeq(body, 3, 6) = <<0, 0, 0, asked.value>>

RecvCrc ==
    /\ Gets("crc", 2) /\ Consume(2)
    /\ Return(IF Accepted THEN "ok" ELSE "error")
    /\ UNCHANGED <<lineVars, asked>>

Client ==
    \/ Timeout
    \/ RecvUnit \/ RecvFc \/ RecvCount \/ RecvData
    \/ RecvEcho \/ RecvException \/ RecvCrc

Next ==
    \/ Deliver \/ Client
    \/ \E s \in Sensors : Change(s)
    \/ \E r \in Requests : Request(r)

Spec == Init /\ [][Next]_vars

\* The loop goes on; time passes, so that a wait that gets nothing ends.
FairSpec == Spec /\ WF_vars(Client)

(***************************************************************************)
(* Properties.                                                             *)
(***************************************************************************)
\* An exchange reported good carries, undamaged, an answer of the addressed
\* device to a request of the same kind, however the line was garbled and
\* the parser out of step.  (The answer may belong to an earlier request,
\* or to the other register of that device.)
AcceptedIsGenuine ==
    [][at = "crc" /\ at' = "idle" /\ verdict' = "ok"
       => \E r \in Requests, v \in Values :
            /\ Server[r.sensor] = Server[asked.sensor] /\ r.fc = asked.fc
            /\ body \in Answers(r, v)]_vars

\* On an orderly line no exchange leaves bytes for the next one to trip
\* over: the ring is empty whenever the client is idle.  On the real line a
\* late answer breaks this, and with it the next property (ModbusClient.cpp:29).
NothingLeftOver == orderly /\ at = "idle" => rx = <<>>

\* The ring never holds more than it can, and on an orderly line nothing
\* between two exchanges (PicoUart.cpp:115, ModbusClient.cpp:29).
PollingInv == TypeOK /\ NothingLeftOver

\* On an orderly line a read reported good returns a value that the register
\* asked for has held since it was asked for.
ReadingIsCurrent ==
    [][orderly /\ at = "crc" /\ at' = "idle" /\ verdict' = "ok" /\ asked.fc = ReadFc
       => value \in had]_vars

\* Every exchange ends, so that the loop is never stuck on a silent device.
ExchangeEnds == []<>(at = "idle")
=============================================================================
