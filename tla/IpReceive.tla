----------------------------- MODULE IpReceive ------------------------------
(***************************************************************************)
(* The receive buffer of IPStack: a ring of Size bytes with a count beside *)
(* its two indices.  lwIP's callback Receive copies a segment in, in two   *)
(* parts when it passes the end, and throws away what does not fit; Take   *)
(* is the copying half of IPStack::read.  Both run on one core without     *)
(* preemption (cyw43_arch_poll calls the callback), so each is one step.   *)
(***************************************************************************)
EXTENDS Integers, Sequences

CONSTANTS Size,         \* BUF_SIZE, 2048
          Bytes         \* the byte values that occur

\* wr + bytes_to_copy is kept in 16 bits.
ASSUME SizeAssumption == Size \in 1..32767 /\ Bytes # {}

Slots == 0..(Size - 1)

Rings == [buffer : [Slots -> Bytes], count : 0..Size, wr : Slots, rd : Slots]

EmptyRing == [buffer |-> [i \in Slots |-> CHOOSE b \in Bytes : TRUE],
              count |-> 0, wr |-> 0, rd |-> 0]

Smaller(a, b) == IF a <= b THEN a ELSE b

\* Bytes from+1..to of s are copied to the slots that start at at.
Copied(buffer, at, s, from, to) ==
    [i \in Slots |-> IF at <= i /\ i < at + to - from THEN s[from + i - at + 1]
                     ELSE buffer[i]]

Kept(r, s) == Smaller(Size - r.count, Len(s))

FirstPart(at, n) == IF at + n > Size THEN Size - at ELSE 0

Receive(r, s) ==
    LET kept  == Kept(r, s)
        first == FirstPart(r.wr, kept)
        at    == IF first > 0 THEN 0 ELSE r.wr
    IN  [r EXCEPT !.buffer = Copied(Copied(r.buffer, r.wr, s, 0, first), at, s, first, kept),
                  !.wr = (at + kept - first) % Size,
                  !.count = r.count + kept]

\* How many bytes a read of n gets, what they are and what is left.
TakenBy(r, n) == Smaller(r.count, n)

Taken(r, n) ==
    LET first == FirstPart(r.rd, TakenBy(r, n))
    IN  [i \in 1..TakenBy(r, n) |->
            IF first = 0 \/ i <= first THEN r.buffer[r.rd + i - 1]
            ELSE r.buffer[i - first - 1]]

AfterTaking(r, n) ==
    LET k     == TakenBy(r, n)
        first == FirstPart(r.rd, k)
    IN  [r EXCEPT !.rd = IF first > 0 THEN k - first ELSE (r.rd + k) % Size,
                  !.count = r.count - k]

\* The bytes a ring holds, oldest first.
Contents(r) == [i \in 1..r.count |-> r.buffer[(r.rd + i - 1) % Size]]

\* wr, rd and count say the same thing.
Consistent(r) == r.wr = (r.rd + r.count) % Size
=============================================================================
