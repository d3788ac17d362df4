------------------------------ MODULE APP_MESH ------------------------------
(***************************************************************************)
(* The mesh that the application builds before it starts to draw (app.c):  *)
(* a box, subdivided a number of times.  mesh_subdevide appends to the two *)
(* arrays it walks over; nothing in it looks at their capacities.          *)
(***************************************************************************)
EXTENDS Integers, Sequences, FiniteSets

CONSTANTS
    cap_vtx, cap_idx,   \* the capacities mesh_init is given
    size                \* of the box, here in units that halve without a rest

ASSUME MeshAssumption == cap_vtx \in Nat /\ cap_idx \in Nat /\ size \in Int

VARIABLES
    vertices, indices,  \* the arrays up to num_vertices and num_indices
    idx, initial_max    \* the loop of mesh_subdevide; idx is -1 outside of it

meshVars == <<vertices, indices, idx, initial_max>>

num_vertices == Len(vertices)
num_indices  == Len(indices)

BoxVertices ==
    << <<-size, -size, -size>>, <<-size, size, -size>>, <<size, size, -size>>,
       <<size, -size, -size>>, <<-size, -size, size>>, <<-size, size, size>>,
       <<size, size, size>>, <<size, -size, size>> >>

BoxIndices ==
    << 0, 1, 2,  0, 2, 3,  4, 6, 5,  4, 7, 6,  4, 5, 1,  4, 1, 0,
       3, 2, 6,  3, 6, 7,  1, 5, 6,  1, 6, 2,  4, 0, 3,  4, 3, 7 >>

MeshInit == vertices = <<>> /\ indices = <<>> /\ idx = -1 /\ initial_max = 0

CreateBox ==
    /\ vertices' = BoxVertices /\ indices' = BoxIndices
    /\ UNCHANGED <<idx, initial_max>>

SubdevideBegins ==
    /\ idx = -1
    /\ idx' = 0 /\ initial_max' = num_indices
    /\ UNCHANGED <<vertices, indices>>

vec3_lerp(u, v) == [k \in 1..3 |-> (u[k] + v[k]) \div 2]

\* Mutant of Split: the triangle in the middle is turned round.
Split_Turned(i1, i2, i3, i4, i5, i6) ==
    [middle |-> <<i4, i5, i6>>, corners |-> <<i1, i4, i5,  i4, i2, i6,  i6, i3, i5>>]

\*      2
\*   4     6
\* 1    5    3
Split(i1, i2, i3, i4, i5, i6) ==
    [middle |-> <<i5, i4, i6>>, corners |-> <<i1, i4, i5,  i4, i2, i6,  i6, i3, i5>>]

\* Mutant of Walked: the loop goes on to the end of the array as it is now.
Walked_Grown == idx >= num_indices

Walked == idx >= initial_max

\* The triangle at idx becomes the one in the middle, its corners go behind the others.
SubdevideTriangle ==
    /\ idx # -1 /\ ~Walked
    /\ LET i  == [k \in 1..3 |-> indices[idx + k]]
           v  == [k \in 1..3 |-> vertices[i[k] + 1]]
           s  == Split(i[1], i[2], i[3], num_vertices, num_vertices + 1, num_vertices + 2)
       IN  /\ vertices' = vertices \o << vec3_lerp(v[1], v[2]), vec3_lerp(v[3], v[1]),
                                         vec3_lerp(v[2], v[3]) >>
           /\ indices' = SubSeq(indices, 1, idx) \o s.middle
                            \o SubSeq(indices, idx + 4, num_indices) \o s.corners
    /\ idx' = idx + 3
    /\ UNCHANGED initial_max

SubdevideEnds ==
    /\ idx # -1 /\ Walked
    /\ idx' = -1
    /\ UNCHANGED <<vertices, indices, initial_max>>

-----------------------------------------------------------------------------
\* The arrays stay within the memory that mesh_init has allocated, every index names a
\* vertex, and they come in threes ("must be 3's multiplicand", app.h:19), also in the
\* middle of a subdivision, which appends to what it reads (app.c:34-91).
MeshFits ==
    /\ num_vertices <= cap_vtx /\ num_indices <= cap_idx
    /\ num_indices % 3 = 0
    /\ \A k \in 1..num_indices : indices[k] \in 0..num_vertices-1

\* The triangles of a box that has been subdivided n times.
TrianglesAfter(n) ==
    LET t[d \in 0..n] == IF d = 0 THEN 12 ELSE 4 * t[d - 1]
    IN  t[n]

\* The capacities hold what n subdivisions make, the vertices of the box being 8 = 12 - 4.
RoomFor(n) == 3 * TrianglesAfter(n) <= cap_idx /\ TrianglesAfter(n) - 4 <= cap_vtx

\* The edges of the triangles, in the direction in which they are walked, as points:
\* neighbouring triangles have vertices of their own in the same places.
EdgeAt(n, k) ==
    << vertices[indices[3 * n + k + 1] + 1], vertices[indices[3 * n + ((k + 1) % 3) + 1] + 1] >>
DirectedEdges == {EdgeAt(n, k) : n \in 0..(num_indices \div 3)-1, k \in 0..2}

\* Between the subdivisions the surface is closed and turned one way: no edge is walked
\* twice in a direction and each is walked in the other direction too.
SurfaceClosed ==
    idx = -1 =>
        LET edges == DirectedEdges
        IN  /\ Cardinality(edges) = num_indices
            /\ \A e \in edges : <<e[2], e[1]>> \in edges
=============================================================================
