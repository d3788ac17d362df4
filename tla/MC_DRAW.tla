------------------------------ MODULE MC_DRAW ------------------------------
(***************************************************************************)
(* APP_RENDER with the capacities of main.c, a screen of 4 by 3 pixels and *)
(* five-bit coordinates.                                                   *)
(***************************************************************************)
EXTENDS APP_RENDER

Frame(points, num_idx) == [points |-> points, num_idx |-> num_idx]
Application(subdivisions, frames) == [subdivisions |-> subdivisions, frames |-> frames]

\* The first triangle of the box as a line there and back, and a side of one point.
Segment(p, q) == Frame([k \in 0..2 |-> IF k = 0 THEN p ELSE q], 3)

Grid == (-3..6) \X (-2..4)

\* A box seen from two sides, with a triangle and a half left out at the end.
Seen(n, view) ==
    [k \in 0..n-1 |-> LET m == k % 8
                      IN  <<view[1] * (m \div 4) + (m % 4), view[2] * (m % 3) - (m \div 2)>>]

MC_App ==
    { Application(3, <<>>) }
    \cup { Application(0, << Segment(p, q) >>) : p \in Grid, q \in Grid }
    \cup { Application(1, << Frame(Seen(44, <<2, 1>>), 144), Frame(Seen(44, <<1, 2>>), 139) >>),
           Application(0, << Segment(<<0, 0>>, <<5, 0>>), Segment(<<0, 2>>, <<5, 1>>) >>),
           \* too far apart, and too far out
           Application(0, << Segment(<<-10, 0>>, <<10, 1>>) >>),
           Application(0, << Segment(<<0, 0>>, <<33, 2>>) >>) }

\* The capacities of main.c:99 hold what its calls make, those in comments included.
ASSUME RoomAssumption == \A a \in App : RoomFor(a.subdivisions)
=============================================================================
