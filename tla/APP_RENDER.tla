----------------------------- MODULE APP_RENDER -----------------------------
(***************************************************************************)
(* A frame on the screen (app.c): app_render_on_screen draws the sides of  *)
(* the triangles into a buffer with rgb16_drawline, a pixel at a time, and *)
(* copies the buffer out.  The points are the ones the device gave back:   *)
(* numbers of any size, which the call of rgb16_drawline cuts to the 16    *)
(* bits of its parameters.                                                 *)
(***************************************************************************)
EXTENDS APP_MESH

CONSTANTS
    width, height,   \* of the screen, 400 and 240
    CoordHalf,       \* an int16_t holds -CoordHalf..CoordHalf-1, an int32_t has twice its bits
    App              \* how often the mesh is subdivided, and what is drawn, frame by frame

\* A frame has the points of the vertices and the number of indices to draw.
ASSUME AppAssumption ==
    /\ width \in Nat \ {0} /\ height \in Nat \ {0} /\ CoordHalf \in Nat \ {0}
    /\ \A a \in App : /\ a.subdivisions \in Nat /\ Len(a.frames) \in Nat
                      /\ \A k \in 1..Len(a.frames) : a.frames[k].num_idx \in Nat

VARIABLES
    app, done,       \* the application, and how many of its subdivisions are done
    frame,           \* the frame that is drawn, 0 before the first
    drawing,         \* inside app_render_on_screen
    idx_head, side,  \* the triangle and its side
    line,            \* the variables of rgb16_drawline, or NoLine
    buff, screen     \* the lit pixels of the buffer and of the display

frameVars  == <<frame, drawing, idx_head, side, line, buff, screen>>
renderVars == <<meshVars, app, done, frameVars>>

NoLine == [on |-> FALSE]
Signed(half, v) == ((v + half) % (2 * half)) - half
int16(v) == Signed(CoordHalf, v)
int32(v) == Signed(2 * CoordHalf * CoordHalf, v)
abs(v)   == IF v < 0 THEN -v ELSE v

RenderInit ==
    /\ MeshInit
    /\ app \in App /\ done = 0
    /\ frame = 0 /\ drawing = FALSE /\ idx_head = 0 /\ side = 0 /\ line = NoLine
    /\ buff = {} /\ screen = {}

-----------------------------------------------------------------------------
\* main, before its loop.
Build ==
    /\ \/ vertices = <<>> /\ CreateBox /\ UNCHANGED done
       \/ vertices # <<>> /\ done < app.subdivisions /\ SubdevideBegins /\ UNCHANGED done
       \/ SubdevideTriangle /\ UNCHANGED done
       \/ SubdevideEnds /\ done' = done + 1
    /\ UNCHANGED <<app, frameVars>>

Built == vertices # <<>> /\ done = app.subdivisions

\* Mutant of Cleared: the buffer is static and is not set to zero.
Cleared_Static == buff' = buff

\* The memset.
Cleared == buff' = {}

RenderBegins ==
    /\ Built /\ ~drawing /\ frame < Len(app.frames)
    /\ drawing' = TRUE /\ frame' = frame + 1 /\ idx_head' = 0 /\ side' = 0
    /\ Cleared
    /\ UNCHANGED <<meshVars, app, done, line, screen>>

MoreTriangles == idx_head + 2 < app.frames[frame].num_idx

\* The end points of side k of the triangle at idx_head.
Point(k) == app.frames[frame].points[indices[idx_head + (k % 3) + 1]]

\* Mutant of StartLine: both differences are positive.
StartLine_Abs(x0, y0, x1, y1) ==
    LET dx == int16(abs(x1 - x0))  dy == int16(abs(y1 - y0))
    IN  [on |-> TRUE, x0 |-> x0, y0 |-> y0, x1 |-> x1, y1 |-> y1, dx |-> dx, dy |-> dy,
         sx |-> IF x1 > x0 THEN 1 ELSE -1, sy |-> IF y1 > y0 THEN 1 ELSE -1, err |-> dx + dy]

StartLine(x0, y0, x1, y1) ==
    LET dx == int16(abs(x1 - x0))  dy == int16(-abs(y1 - y0))
    IN  [on |-> TRUE, x0 |-> x0, y0 |-> y0, x1 |-> x1, y1 |-> y1, dx |-> dx, dy |-> dy,
         sx |-> IF x1 > x0 THEN 1 ELSE -1, sy |-> IF y1 > y0 THEN 1 ELSE -1, err |-> dx + dy]

LineBegins ==
    /\ drawing /\ ~line.on /\ MoreTriangles
    /\ LET p == Point(side)  q == Point(side + 1)
       IN  line' = StartLine(int16(p[1]), int16(p[2]), int16(q[1]), int16(q[2]))
    /\ UNCHANGED <<meshVars, app, done, frame, drawing, idx_head, side, buff, screen>>

OnScreen(x, y) == x >= 0 /\ x < width /\ y >= 0 /\ y < height

\* One step along the line: both errors are compared as they were before it.
Moved(l) ==
    LET e2    == int32(2 * l.err)
        moveX == e2 >= l.dy
        moveY == e2 <= l.dx
    IN  [l EXCEPT !.err = int32(l.err + (IF moveX THEN l.dy ELSE 0) + (IF moveY THEN l.dx ELSE 0)),
                  !.x0 = IF moveX THEN int16(l.x0 + l.sx) ELSE l.x0,
                  !.y0 = IF moveY THEN int16(l.y0 + l.sy) ELSE l.y0]

LinePixel ==
    /\ line.on
    /\ buff' = IF OnScreen(line.x0, line.y0) THEN buff \cup {line.y0 * width + line.x0} ELSE buff
    /\ IF line.x0 = line.x1 /\ line.y0 = line.y1
       THEN /\ line' = NoLine
            /\ side' = (side + 1) % 3
            /\ idx_head' = IF side = 2 THEN idx_head + 3 ELSE idx_head
       ELSE line' = Moved(line) /\ UNCHANGED <<side, idx_head>>
    /\ UNCHANGED <<meshVars, app, done, frame, drawing, screen>>

RenderEnds ==
    /\ drawing /\ ~line.on /\ ~MoreTriangles
    /\ drawing' = FALSE /\ screen' = buff
    /\ UNCHANGED <<meshVars, app, done, frame, idx_head, side, line, buff>>

RenderNext == Build \/ RenderBegins \/ LineBegins \/ LinePixel \/ RenderEnds

\* main runs alone on the processor and waits for nothing in these functions.
RenderSpec == RenderInit /\ [][RenderNext]_renderVars /\ WF_renderVars(RenderNext)

-----------------------------------------------------------------------------
\* The sides of the frame's triangles.
Sides ==
    LET f == app.frames[frame]
        at(n, k) == f.points[indices[3 * n + (k % 3) + 1]]
    IN  {<<at(n, k), at(n, k + 1)>> : n \in 0..(f.num_idx \div 3)-1, k \in 0..2}

\* Coordinates, and differences, that the parameters can hold.
Within(s) ==
    \A k \in 1..2 : /\ s[1][k] \in -CoordHalf..CoordHalf-1
                    /\ s[2][k] \in -CoordHalf..CoordHalf-1
                    /\ abs(s[1][k] - s[2][k]) < CoordHalf

Between(a, u, v) == (u <= a /\ a <= v) \/ (v <= a /\ a <= u)

\* The pixel is not further than half a pixel from the line, measured across it.
Near(s, x, y) ==
    LET dx == s[2][1] - s[1][1]  dy == s[2][2] - s[1][2]
        longer == IF abs(dx) > abs(dy) THEN abs(dx) ELSE abs(dy)
    IN  /\ Between(x, s[1][1], s[2][1]) /\ Between(y, s[1][2], s[2][2])
        /\ 2 * abs((x - s[1][1]) * dy - (y - s[1][2]) * dx) <= longer

Range2(u, v) == IF u < v THEN u..v ELSE v..u

\* At each column of a flat line, and at each row of a steep one, a pixel near the line is
\* lit, unless those near it are off the screen.
Covered(s) ==
    LET flat == abs(s[2][1] - s[1][1]) >= abs(s[2][2] - s[1][2])
        xs == Range2(s[1][1], s[2][1])  ys == Range2(s[1][2], s[2][2])
        lit(x, y) == Near(s, x, y) /\ (OnScreen(x, y) => y * width + x \in screen)
    IN  IF flat THEN \A x \in xs : \E y \in ys : lit(x, y)
                ELSE \A y \in ys : \E x \in xs : lit(x, y)

\* What is shown after a frame is that frame's triangles and nothing else: every lit pixel is
\* near a side, none is left from another frame or from a row beside the screen, and every
\* side is there over its whole length (app.c:388-454).
FrameShown ==
    (frame > 0 /\ ~drawing /\ \A s \in Sides : Within(s)) =>
        /\ \A p \in screen : \E s \in Sides : Near(s, p % width, p \div width)
        /\ \A s \in Sides : Covered(s)

\* A frame whose sides the parameters can hold is drawn to its end: every line meets its
\* end point exactly (app.c:422-454, "while ( 1 )").
FrameEnds == (drawing /\ \A s \in Sides : Within(s)) ~> ~drawing
=============================================================================
