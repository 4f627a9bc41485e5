------------------------------ MODULE IpStream ------------------------------
(***************************************************************************)
(* The receive ring of IPStack at work: lwIP calls back with segments of   *)
(* what the other side sent, the MQTT client reads, and a new connection   *)
(* brings a new IPStack.                                                   *)
(***************************************************************************)
EXTENDS IpReceive

VARIABLES coming,       \* bytes sent and still on their way
          ring          \* IPStack's buffer, count, wr, rd

StreamTypes == coming \in Seq(Bytes) /\ ring \in Rings /\ Consistent(ring)

Init == coming = <<>> /\ ring = EmptyRing

Send == \E more \in Seq(Bytes) : coming' = coming \o more /\ ring' = ring

\* tcp_client_recv with a segment of n bytes; all of it is acknowledged.
Segment ==
    \E n \in 1..Len(coming) :
        /\ ring' = Receive(ring, SubSeq(coming, 1, n))
        /\ coming' = SubSeq(coming, n + 1, Len(coming))

\* IPStack::read of n bytes, after its wait.
ReadCall == \E n \in Nat \ {0} : ring' = AfterTaking(ring, n) /\ coming' = coming

NewStack == coming' = <<>> /\ ring' = EmptyRing

Next == Send \/ Segment \/ ReadCall \/ NewStack

Spec == Init /\ [][Next]_<<coming, ring>>

Stream == INSTANCE ByteStream WITH Capacity <- Size, pending <- Contents(ring)
=============================================================================
