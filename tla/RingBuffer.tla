----------------------------- MODULE RingBuffer -----------------------------
(***************************************************************************)
(* RingBuffer: a byte queue in an array of Size slots, one of which stays  *)
(* free.  put() moves only head, get() only tail, so that one side may be  *)
(* an interrupt handler.  Single statements are operators here; the users  *)
(* say which of them an interrupt can separate.                            *)
(***************************************************************************)
EXTENDS Integers, Sequences

CONSTANTS
    Size,        \* slots of the ring, 256 for both rings of PicoUart
    Bytes        \* the byte values told apart

ASSUME RingAssumption == Size \in Nat \ {0, 1} /\ Bytes # {}

Slots == 0..(Size - 1)

Rings == [head : Slots, tail : Slots, buffer : [Slots -> Bytes]]

\* std::vector<uint8_t> starts with all slots alike.
EmptyRing == [head |-> 0, tail |-> 0,
              buffer |-> [i \in Slots |-> CHOOSE b \in Bytes : TRUE]]

NextSlot(i) == (i + 1) % Size

IsEmpty(r) == r.head = r.tail

NeverFull(r) == FALSE                                   \* faulty variant
FullEarly(r) == NextSlot(NextSlot(r.head)) = r.tail
IsFull(r) == NextSlot(r.head) = r.tail

\* The two statements of put() after its test.
Store(r, b) == [r EXCEPT !.buffer[r.head] = b]
AdvanceHead(r) == [r EXCEPT !.head = NextSlot(r.head)]

\* put() and get() when nothing interrupts them.
Put(r, b) == IF IsFull(r) THEN r ELSE AdvanceHead(Store(r, b))

Oldest(r) == r.buffer[r.tail]
AdvanceTail(r) == IF IsEmpty(r) THEN r ELSE [r EXCEPT !.tail = NextSlot(r.tail)]

\* The queue a ring stands for, oldest byte first.
Contents(r) ==
    [i \in 1..((r.head - r.tail) % Size) |-> r.buffer[(r.tail + i - 1) % Size]]
=============================================================================
