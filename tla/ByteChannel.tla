----------------------------- MODULE ByteChannel -----------------------------
(***************************************************************************)
(* What the two directions of PicoUart promise: bytes come out in the      *)
(* order they went in, none twice and none invented.  A lossless channel   *)
(* loses nothing it accepted; a lossy one may lose any byte under way.     *)
(***************************************************************************)
EXTENDS Integers, Sequences, SequencesExt

CONSTANT Octets, Lossless

VARIABLES
    offered,     \* what the giving side still has to hand over
    queue,       \* accepted and not yet delivered
    taken        \* the byte delivered last, or <<>> before the first

channelVars == <<offered, queue, taken>>

ChannelInit == offered = <<>> /\ queue = <<>> /\ taken = <<>>

\* The giver has something new to hand over, or gives up the rest.
Offer == offered' \in Seq(Octets) /\ UNCHANGED <<queue, taken>>

Accept ==
    /\ offered # <<>>
    /\ queue' = Append(queue, Head(offered))
    /\ offered' = Tail(offered)
    /\ UNCHANGED taken

Deliver ==
    /\ queue # <<>>
    /\ taken' = <<Head(queue)>>
    /\ queue' = Tail(queue)
    /\ UNCHANGED offered

Lose ==
    /\ ~Lossless
    /\ \E i \in DOMAIN queue : queue' = RemoveAt(queue, i)
    /\ UNCHANGED <<offered, taken>>

ChannelNext == Offer \/ Accept \/ Deliver \/ Lose

ChannelSpec == ChannelInit /\ [][ChannelNext]_channelVars
=============================================================================
