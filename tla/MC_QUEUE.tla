------------------------------- MODULE MC_QUEUE -------------------------------
(***************************************************************************)
(* The queue and its driver on a small instance: a memory of four words,   *)
(* jobs with programs of different lengths (one empty, one that leaves a   *)
(* single word free) and different numbers of task cycles (one of none),   *)
(* and sizes whose offsets stay within reach.                              *)
(***************************************************************************)
EXTENDS GPPCU_HOST

CONSTANTS blank, a, b

MC_Word == {blank, a, b}

J(p, sz, n) == [program |-> p, sz |-> sz, cycles |-> n]

MC_Job ==
    { J(<<a, b, a>>, 3, 2),
      J(<<b, a>>, 5, 3),
      J(<<b>>, 2, 1),
      J(<<a, b>>, 1, 0),
      J(<<>>, 4, 2) }
=============================================================================
