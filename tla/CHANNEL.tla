------------------------------ MODULE CHANNEL ------------------------------
(***************************************************************************)
(* What a serial line promises: the bytes given to it come out complete,   *)
(* once and in order, and it holds no more than Capacity of them.  Bytes   *)
(* are numbered as they are given, modulo Modulus.                         *)
(***************************************************************************)
EXTENDS Naturals, Sequences

CONSTANTS Capacity, Modulus

VARIABLES q,        \* bytes inside
          given,    \* number of the next byte put in
          taken     \* number of the next byte taken out, when all is well
channelVars == <<q, given, taken>>

ChannelInit == q = << >> /\ given = 0 /\ taken = 0

Numbers(first, k) == [i \in 1 .. k |-> (first + i - 1) % Modulus]

Put(k) ==
    /\ Len(q) + k <= Capacity
    /\ q' = q \o Numbers(given, k)
    /\ given' = (given + k) % Modulus
    /\ UNCHANGED taken

Take(k) ==
    /\ k <= Len(q)
    /\ SubSeq(q, 1, k) = Numbers(taken, k)
    /\ q' = SubSeq(q, k + 1, Len(q))
    /\ taken' = (taken + k) % Modulus
    /\ UNCHANGED given

ChannelNext == \E k \in 1 .. Capacity : Put(k) \/ Take(k)
ChannelSpec == ChannelInit /\ [][ChannelNext]_channelVars
=============================================================================
