----------------------------- MODULE ByteStream -----------------------------
(***************************************************************************)
(* What a receive buffer of limited room promises its reader: the bytes    *)
(* that arrive, in order, each once, without those that find no room.  It  *)
(* is the specification IpReceive implements and MqttSession reads from.   *)
(***************************************************************************)
EXTENDS Integers, Sequences

CONSTANTS Bytes,         \* the byte values that occur
          Capacity       \* bytes the buffer holds

VARIABLES coming,       \* bytes sent and still on their way
          pending       \* bytes received and not yet read

StreamInit == coming = <<>> /\ pending = <<>>

\* The other side sends more.
Sends == \E more \in Seq(Bytes) : coming' = coming \o more /\ pending' = pending

\* The next n bytes come in, the first of them while there is room.
Arrives(n, room) ==
    /\ coming' = SubSeq(coming, n + 1, Len(coming))
    /\ pending' = pending \o SubSeq(coming, 1, IF n <= room THEN n ELSE room)

Arrive == \E n \in 1..Len(coming) : Arrives(n, Capacity - Len(pending))

\* The reader takes the oldest bytes.
Read == \E n \in 1..Len(pending) :
            pending' = SubSeq(pending, n + 1, Len(pending)) /\ coming' = coming

\* A new connection starts with nothing.
Restart == coming' = <<>> /\ pending' = <<>>

StreamSpec == StreamInit /\ [][Sends \/ Arrive \/ Read \/ Restart]_<<coming, pending>>
=============================================================================
