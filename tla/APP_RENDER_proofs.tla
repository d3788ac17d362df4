-------------------------- MODULE APP_RENDER_proofs --------------------------
(***************************************************************************)
(* For every screen, mesh and set of points.  While it is subdivided as    *)
(* often as there is room for, the mesh stays within its arrays.  And what *)
(* a frame leaves on the screen is its triangles' sides, every one of them *)
(* complete: the loop of rgb16_drawline never strays by more than half a   *)
(* pixel and ends at the end point.                                        *)
(***************************************************************************)
EXTENDS APP_RENDER, TLAPS, NaturalsInduction, SequenceTheorems, WellFoundedInduction

Before == {ss \in Nat \X Nat : ss[1] < ss[2]}

LEMMA BeforeWf == IsWellFoundedOn(Before, Nat)
BY NatLessThanWellFounded DEF OpToRel, Before

LEMMA Least ==
    ASSUME NEW T, T \subseteq Nat, T # {}
    PROVE  \E x \in T : \A y \in T : x <= y
<1>1. PICK x \in T : \A y \in T : ~(<<y, x>> \in Before)
  BY BeforeWf, WFMin
<1>2. \A y \in T : ~(y < x)
  BY <1>1 DEF Before
<1> QED  BY <1>2

-----------------------------------------------------------------------------
(* How many triangles there are after each of n subdivisions.              *)

Growth(t, n) == t = [d \in 0..n |-> IF d = 0 THEN 12 ELSE 4 * t[d - 1]]

LEMMA GrowthExists ==
    ASSUME NEW n \in Nat
    PROVE  \E t : Growth(t, n)
<1>. DEFINE Bad == {k \in 0..n : ~\E t : Growth(t, k)}
<1> SUFFICES ASSUME Bad # {} PROVE FALSE
  OBVIOUS
<1>1. PICK k \in Bad : \A l \in Bad : k <= l
  <2>1. Bad \subseteq Nat
    OBVIOUS
  <2>. HIDE DEF Bad
  <2> QED  BY <2>1, Least
<1>2. k # 0
  <2>1. Growth([d \in 0..0 |-> 12], 0)
    BY DEF Growth
  <2> QED  BY <2>1
<1>3. PICK t : Growth(t, k - 1)
  <2>1. k - 1 \in 0..n /\ ~(k <= k - 1)
    BY <1>2
  <2> QED  BY <1>1, <2>1
<1>. DEFINE g == [d \in 0..k |-> IF d \in 0..k-1 THEN t[d] ELSE 4 * t[k - 1]]
<1>4. Growth(g, k)
  <2>0. k \in Nat /\ k > 0
    BY <1>2
  <2>1. \A d \in 0..k-1 : t[d] = IF d = 0 THEN 12 ELSE 4 * t[d - 1]
    BY <1>3 DEF Growth
  <2>2. ASSUME NEW d \in 0..k PROVE g[d] = IF d = 0 THEN 12 ELSE 4 * g[d - 1]
    <3>1. d # 0 => d - 1 \in 0..k-1 /\ d - 1 \in 0..k
      BY <2>0
    <3>2. d # 0 => g[d - 1] = t[d - 1]
      BY <3>1
    <3>3. CASE d \in 0..k-1
      <4>1. g[d] = t[d]
        BY <3>3
      <4> QED  BY <2>1, <3>2, <3>3, <4>1
    <3>4. CASE d = k
      <4>1. g[d] = 4 * t[d - 1] /\ d # 0
        BY <2>0, <3>4
      <4> QED  BY <3>2, <4>1
    <3> QED  BY <2>0, <3>3, <3>4
  <2>3. g = [d \in 0..k |-> g[d]]
    OBVIOUS
  <2>. HIDE DEF g
  <2>4. [d \in 0..k |-> g[d]] = [d \in 0..k |-> IF d = 0 THEN 12 ELSE 4 * g[d - 1]]
    BY <2>2
  <2> QED  BY <2>3, <2>4 DEF Growth
<1>. HIDE DEF g
<1> QED  BY <1>4

\* The first value is 12, each next one is four times the last, and none is less than those
\* before it.
LEMMA GrowthIs ==
    ASSUME NEW n \in Nat
    PROVE  \E t \in [0..n -> Nat] :
              /\ t[0] = 12 /\ \A d \in 1..n : t[d] = 4 * t[d - 1]
              /\ \A d \in 0..n : t[d] >= 12 /\ t[d] <= t[n]
              /\ t[n] = TrianglesAfter(n)
<1>. DEFINE c == CHOOSE t : Growth(t, n)
<1>0. Growth(c, n)
  BY GrowthExists
<1>. HIDE DEF c
<1>1. c = [d \in 0..n |-> IF d = 0 THEN 12 ELSE 4 * c[d - 1]]
  BY <1>0 DEF Growth
<1>2. TrianglesAfter(n) = c[n]
  BY DEF TrianglesAfter, Growth, c
<1>3. \A d \in 0..n : c[d] = IF d = 0 THEN 12 ELSE 4 * c[d - 1]
  BY <1>1
<1>4. c[0] = 12 /\ \A d \in 1..n : c[d] = 4 * c[d - 1]
  BY <1>3
<1>5. \A d \in 0..n : c[d] \in Nat /\ c[d] >= 12
  <2>. DEFINE Bad == {d \in 0..n : ~(c[d] \in Nat /\ c[d] >= 12)}
  <2> SUFFICES ASSUME Bad # {} PROVE FALSE
    OBVIOUS
  <2>1. PICK k \in Bad : \A l \in Bad : k <= l
    <3>1. Bad \subseteq Nat
      OBVIOUS
    <3>. HIDE DEF Bad
    <3> QED  BY <3>1, Least
  <2>2. k # 0
    BY <1>4
  <2>3. k - 1 \in 0..n /\ ~(k <= k - 1) /\ k \in 1..n
    BY <2>2
  <2>4. c[k - 1] \in Nat /\ c[k - 1] >= 12
    BY <2>1, <2>3
  <2>5. c[k] = 4 * c[k - 1]
    BY <1>4, <2>3
  <2> QED  BY <2>4, <2>5
<1>6. \A d \in 0..n : c[d] <= c[n]
  <2>. DEFINE Bad == {e \in 0..n : ~(c[n - e] <= c[n])}
  <2>1. Bad = {}
    <3> SUFFICES ASSUME Bad # {} PROVE FALSE
      OBVIOUS
    <3>1. PICK k \in Bad : \A l \in Bad : k <= l
      <4>1. Bad \subseteq Nat
        OBVIOUS
      <4>. HIDE DEF Bad
      <4> QED  BY <4>1, Least
    <3>2. k # 0
      <4>1. n - 0 = n /\ n \in 0..n
        OBVIOUS
      <4> QED  BY <1>5, <4>1
    <3>3. k - 1 \in 0..n /\ ~(k <= k - 1) /\ n - k \in 0..n /\ n - (k - 1) \in 1..n
          /\ (n - (k - 1)) - 1 = n - k /\ n \in 0..n /\ n - (k - 1) \in 0..n
      BY <3>2
    <3>4. c[n - (k - 1)] <= c[n]
      BY <3>1, <3>3
    <3>5. c[n - (k - 1)] = 4 * c[n - k]
      BY <1>4, <3>3
    <3>6. c[n - k] \in Nat /\ c[n] \in Nat
      BY <1>5, <3>3
    <3>7. ~(c[n - k] <= c[n])
      OBVIOUS
    <3>. HIDE DEF Bad
    <3> QED  BY <3>4, <3>5, <3>6, <3>7
  <2>2. ASSUME NEW d \in 0..n PROVE c[d] <= c[n]
    <3>1. n - d \in 0..n /\ n - (n - d) = d
      OBVIOUS
    <3> QED  BY <2>1, <3>1
  <2> QED  BY <2>2
<1>7. c \in [0..n -> Nat]
  BY <1>1, <1>5
<1> QED  BY <1>2, <1>4, <1>5, <1>6, <1>7

-----------------------------------------------------------------------------
(* The mesh.  In the middle of a subdivision of T triangles, j of them are *)
(* done: each has left one in its place and three behind the others.       *)

AllRoom == \A a \in App : RoomFor(a.subdivisions)

Point3 == [1..3 -> Int]

Steps(t) ==
    LET n == app.subdivisions
    IN  /\ t \in [0..n -> Nat]
        /\ t[0] = 12 /\ \A d \in 1..n : t[d] = 4 * t[d - 1]
        /\ \A d \in 0..n : t[d] >= 12 /\ t[d] <= t[n]
        /\ t[n] = TrianglesAfter(n)

Counts(t) ==
    /\ idx = -1 => num_indices = 3 * t[done] /\ num_vertices = t[done] - 4
    /\ idx # -1 =>
        /\ done < app.subdivisions /\ initial_max = 3 * t[done]
        /\ \E j \in 0..t[done] : /\ idx = 3 * j
                                 /\ num_indices = 3 * (t[done] + 3 * j)
                                 /\ num_vertices = t[done] + 3 * j - 4

MeshType ==
    /\ vertices \in Seq(Point3) /\ indices \in Seq(Int) /\ idx \in Int
    /\ app \in App /\ done \in 0..app.subdivisions
    /\ vertices = <<>> => indices = <<>> /\ idx = -1 /\ done = 0

IndicesName == \A k \in 1..num_indices : indices[k] \in 0..num_vertices-1

MeshInv ==
    /\ MeshType /\ IndicesName
    /\ vertices # <<>> => \E t : Steps(t) /\ Counts(t)

\* What the invariant says is that the arrays are large enough.
LEMMA InvFits ==
    ASSUME AllRoom, MeshInv
    PROVE  MeshFits
<1>0. cap_vtx \in Nat /\ cap_idx \in Nat
  BY MeshAssumption
<1>1. CASE vertices = <<>>
  <2>1. num_vertices = 0 /\ num_indices = 0
    BY <1>1 DEF MeshInv, MeshType, num_vertices, num_indices
  <2> QED  BY <1>0, <2>1 DEF MeshFits, MeshInv, IndicesName
<1>2. CASE vertices # <<>>
  <2>1. PICK t : Steps(t) /\ Counts(t)
    BY <1>2 DEF MeshInv
  <2>. DEFINE n == app.subdivisions
              T == t[done]
  <2>2. app \in App /\ done \in 0..n /\ n \in Nat
    BY AppAssumption DEF MeshInv, MeshType
  <2>3. 3 * t[n] <= cap_idx /\ t[n] - 4 <= cap_vtx
    BY <2>1, <2>2 DEF AllRoom, RoomFor, Steps
  <2>4. T \in Nat /\ T >= 12 /\ T <= t[n] /\ t[n] \in Nat
    <3>1. t \in [0..n -> Nat] /\ \A d \in 0..n : t[d] >= 12 /\ t[d] <= t[n]
      BY <2>1 DEF Steps
    <3>2. n \in 0..n
      BY <2>2
    <3>. HIDE DEF n
    <3> QED  BY <2>2, <3>1, <3>2
  <2>5. CASE idx = -1
    <3>1. num_indices = 3 * T /\ num_vertices = T - 4
      BY <2>1, <2>5 DEF Counts
    <3>. HIDE DEF T, n
    <3>2. num_indices <= cap_idx /\ num_vertices <= cap_vtx /\ num_indices % 3 = 0
      BY <1>0, <2>3, <2>4, <3>1
    <3> QED  BY <3>2 DEF MeshFits, MeshInv, IndicesName
  <2>6. CASE idx # -1
    <3>1. done < n
      BY <2>1, <2>6 DEF Counts
    <3>2. PICK j \in 0..T : num_indices = 3 * (T + 3 * j) /\ num_vertices = T + 3 * j - 4
      BY <2>1, <2>6 DEF Counts
    <3>3. done + 1 \in 1..n /\ done + 1 \in 0..n /\ (done + 1) - 1 = done
      BY <2>2, <3>1
    <3>4. t[done + 1] = 4 * T /\ t[done + 1] <= t[n]
      <4>1. t[done + 1] = 4 * t[(done + 1) - 1] /\ t[done + 1] <= t[n]
        BY <2>1, <3>3 DEF Steps
      <4> QED  BY <3>3, <4>1
    <3>. HIDE DEF T, n
    <3>5. num_indices <= cap_idx /\ num_vertices <= cap_vtx
      BY <1>0, <2>3, <2>4, <3>2, <3>4
    <3>6. num_indices % 3 = 0
      BY <2>4, <3>2
    <3> QED  BY <3>5, <3>6 DEF MeshFits, MeshInv, IndicesName
  <2> QED  BY <2>5, <2>6
<1> QED  BY <1>1, <1>2

LEMMA BoxIs ==
    /\ BoxVertices \in Seq(Point3) /\ Len(BoxVertices) = 8
    /\ BoxIndices \in Seq(Int) /\ Len(BoxIndices) = 36
    /\ \A k \in 1..36 : BoxIndices[k] \in 0..7
<1>1. size \in Int /\ -size \in Int
  BY MeshAssumption
<1>2. \A x, y, z \in Int : <<x, y, z>> \in Point3
  BY DEF Point3
<1>3. BoxVertices \in Seq(Point3) /\ Len(BoxVertices) = 8
  <2>1. /\ <<-size, -size, -size>> \in Point3 /\ <<-size, size, -size>> \in Point3
        /\ <<size, size, -size>> \in Point3 /\ <<size, -size, -size>> \in Point3
        /\ <<-size, -size, size>> \in Point3 /\ <<-size, size, size>> \in Point3
        /\ <<size, size, size>> \in Point3 /\ <<size, -size, size>> \in Point3
    BY <1>1, <1>2
  <2> QED  BY <2>1 DEF BoxVertices
<1>4. BoxIndices \in Seq(Int) /\ Len(BoxIndices) = 36
  BY DEF BoxIndices
<1>5. \A k \in 1..36 : BoxIndices[k] \in 0..7
  BY DEF BoxIndices
<1> QED  BY <1>3, <1>4, <1>5

LEMMA MeshBegins == RenderInit => MeshInv
<1> SUFFICES ASSUME RenderInit PROVE MeshInv
  OBVIOUS
<1>1. vertices = <<>> /\ indices = <<>> /\ idx = -1 /\ app \in App /\ done = 0
  BY DEF RenderInit, MeshInit
<1>2. app.subdivisions \in Nat
  BY <1>1, AppAssumption
<1>3. MeshType
  BY <1>1, <1>2 DEF MeshType
<1>4. IndicesName
  BY <1>1 DEF IndicesName, num_indices
<1> QED  BY <1>1, <1>3, <1>4 DEF MeshInv

\* Counts and names speak of the mesh, the application and nothing else.
LEMMA MeshStays ==
    ASSUME MeshInv, UNCHANGED <<meshVars, app, done>>
    PROVE  MeshInv'
BY DEF MeshInv, MeshType, IndicesName, Steps, Counts, num_indices, num_vertices, meshVars

LEMMA BoxKeeps ==
    ASSUME MeshInv, vertices = <<>>, CreateBox, UNCHANGED <<app, done, frameVars>>
    PROVE  MeshInv'
<1>1. vertices' = BoxVertices /\ indices' = BoxIndices /\ idx' = idx /\ app' = app /\ done' = done
  BY DEF CreateBox
<1>2. app \in App /\ app.subdivisions \in Nat /\ idx = -1 /\ done = 0
  BY AppAssumption DEF MeshInv, MeshType
<1>3. num_indices' = 36 /\ num_vertices' = 8
  BY <1>1, BoxIs DEF num_indices, num_vertices
<1>4. vertices' # <<>>
  <2>1. Len(vertices') = 8
    BY <1>1, BoxIs
  <2>2. Len(<<>>) = 0
    OBVIOUS
  <2> QED  BY <2>1, <2>2
<1>5. MeshType'
  <2>1. vertices' \in Seq(Point3) /\ indices' \in Seq(Int) /\ idx' \in Int
    BY <1>1, <1>2, BoxIs
  <2>2. app' \in App /\ done' \in 0..app'.subdivisions
    BY <1>1, <1>2
  <2> QED  BY <1>4, <2>1, <2>2 DEF MeshType
<1>6. IndicesName'
  <2>1. \A k \in 1..36 : BoxIndices[k] \in 0..7
    BY BoxIs
  <2>2. indices' = BoxIndices /\ num_vertices' - 1 = 7
    BY <1>1, <1>3
  <2>3. ASSUME NEW k \in 1..num_indices' PROVE indices'[k] \in 0..num_vertices'-1
    BY <1>3, <2>1, <2>2, <2>3
  <2> QED  BY <2>3 DEF IndicesName
<1>7. \E t : Steps(t)' /\ t[done] = 12
  BY <1>1, <1>2, GrowthIs DEF Steps
<1>8. \A t : t[done] = 12 => Counts(t)'
  BY <1>1, <1>2, <1>3 DEF Counts
<1> QED  BY <1>5, <1>6, <1>7, <1>8 DEF MeshInv

LEMMA BeginKeeps ==
    ASSUME MeshInv, vertices # <<>>, done < app.subdivisions, SubdevideBegins,
           UNCHANGED <<app, done, frameVars>>
    PROVE  MeshInv'
<1>1. /\ vertices' = vertices /\ indices' = indices /\ app' = app /\ done' = done
      /\ idx = -1 /\ idx' = 0 /\ initial_max' = num_indices
  BY DEF SubdevideBegins
<1>2. num_indices' = num_indices /\ num_vertices' = num_vertices
  BY <1>1 DEF num_indices, num_vertices
<1>3. PICK t : Steps(t) /\ Counts(t)
  BY DEF MeshInv
<1>4. MeshType' /\ IndicesName'
  BY <1>1, <1>2 DEF MeshInv, MeshType, IndicesName
<1>5. t[done] \in Nat /\ num_indices = 3 * t[done] /\ num_vertices = t[done] - 4
  BY <1>1, <1>3, AppAssumption DEF Steps, Counts, MeshInv, MeshType
<1>6. Counts(t)'
  <2>1. 0 \in 0..t[done] /\ 0 = 3 * 0 /\ 3 * t[done] = 3 * (t[done] + 3 * 0)
        /\ t[done] - 4 = t[done] + 3 * 0 - 4
    BY <1>5
  <2> QED  BY <1>1, <1>2, <1>5, <2>1 DEF Counts
<1>7. Steps(t)'
  BY <1>1, <1>3 DEF Steps
<1> QED  BY <1>4, <1>6, <1>7 DEF MeshInv

LEMMA EndKeeps ==
    ASSUME MeshInv, SubdevideEnds, done' = done + 1, UNCHANGED <<app, frameVars>>
    PROVE  MeshInv'
<1>1. /\ vertices' = vertices /\ indices' = indices /\ app' = app
      /\ idx # -1 /\ idx >= initial_max /\ idx' = -1
  BY DEF SubdevideEnds, Walked
<1>2. num_indices' = num_indices /\ num_vertices' = num_vertices
  BY <1>1 DEF num_indices, num_vertices
<1>0. vertices # <<>>
  BY <1>1 DEF MeshInv, MeshType
<1>3. PICK t : Steps(t) /\ Counts(t)
  BY <1>0 DEF MeshInv
<1>4. done < app.subdivisions /\ initial_max = 3 * t[done]
  BY <1>1, <1>3 DEF Counts
<1>5. PICK j \in 0..t[done] : /\ idx = 3 * j /\ num_indices = 3 * (t[done] + 3 * j)
                              /\ num_vertices = t[done] + 3 * j - 4
  BY <1>1, <1>3 DEF Counts
<1>6. app.subdivisions \in Nat /\ done \in 0..app.subdivisions
  BY AppAssumption DEF MeshInv, MeshType
<1>7. t[done] \in Nat
  BY <1>3, <1>6 DEF Steps
<1>8. done + 1 \in 1..app.subdivisions /\ (done + 1) - 1 = done
  BY <1>4, <1>6
<1>9. t[done + 1] = 4 * t[done]
  BY <1>3, <1>8 DEF Steps
<1>10. num_indices = 3 * (4 * t[done]) /\ num_vertices = 4 * t[done] - 4
  BY <1>1, <1>4, <1>5, <1>7
<1>11. Counts(t)'
  BY <1>1, <1>2, <1>9, <1>10 DEF Counts
<1>12. Steps(t)'
  BY <1>1, <1>3 DEF Steps
<1>13. MeshType' /\ IndicesName'
  BY <1>0, <1>1, <1>2, <1>8 DEF MeshInv, MeshType, IndicesName
<1> QED  BY <1>11, <1>12, <1>13 DEF MeshInv

LEMMA Halfway ==
    ASSUME NEW u \in Point3, NEW v \in Point3
    PROVE  vec3_lerp(u, v) \in Point3
<1>1. \A k \in 1..3 : (u[k] + v[k]) \div 2 \in Int
  BY DEF Point3
<1> QED  BY <1>1 DEF vec3_lerp, Point3

\* The two arrays after a triangle, as sequences over the names that there are then.
LEMMA ArraysGrow ==
    ASSUME NEW N \in Nat, NEW M \in Nat, NEW x \in Nat, x + 3 <= M,
           vertices \in Seq(Point3), Len(vertices) = N,
           indices \in Seq(Int), Len(indices) = M, \A k \in 1..M : indices[k] \in 0..N-1,
           num_vertices = N, num_indices = M, idx = x, SubdevideTriangle
    PROVE  /\ vertices' \in Seq(Point3) /\ Len(vertices') = N + 3
           /\ indices' \in Seq(0..N+2) /\ Len(indices') = M + 9
<1>. DEFINE S  == 0..N+2
            i  == [k \in 1..3 |-> indices[x + k]]
            v  == [k \in 1..3 |-> vertices[i[k] + 1]]
            s  == Split(i[1], i[2], i[3], N, N + 1, N + 2)
            nv == << vec3_lerp(v[1], v[2]), vec3_lerp(v[3], v[1]), vec3_lerp(v[2], v[3]) >>
            p  == SubSeq(indices, 1, x)
            q  == SubSeq(indices, x + 4, M)
<1>1. vertices' = vertices \o nv /\ indices' = p \o s.middle \o q \o s.corners
  BY DEF SubdevideTriangle
<1>2. \A k \in 1..3 : i[k] \in 0..N-1
  <2>1. \A k \in 1..3 : x + k \in 1..M
    OBVIOUS
  <2> QED  BY <2>1
<1>3. \A k \in 1..3 : v[k] \in Point3
  <2>1. \A k \in 1..3 : i[k] + 1 \in 1..N
    <3>. HIDE DEF i
    <3> SUFFICES ASSUME NEW k \in 1..3 PROVE i[k] + 1 \in 1..N
      OBVIOUS
    <3>1. i[k] \in 0..N-1
      BY <1>2
    <3>. DEFINE e == i[k]
    <3>. HIDE DEF e
    <3>2. e \in 0..N-1
      BY <3>1 DEF e
    <3>3. e + 1 \in 1..N
      BY <3>2
    <3> QED  BY <3>3 DEF e
  <2>2. \A k \in 1..3 : vertices[i[k] + 1] \in Point3
    BY <2>1, ElementOfSeq
  <2> QED  BY <2>2
<1>. HIDE DEF v
<1>4. nv \in Seq(Point3) /\ Len(nv) = 3
  <2>1. /\ vec3_lerp(v[1], v[2]) \in Point3 /\ vec3_lerp(v[3], v[1]) \in Point3
        /\ vec3_lerp(v[2], v[3]) \in Point3
    BY <1>3, Halfway
  <2> QED  BY <2>1
<1>. HIDE DEF nv
<1>5. vertices' \in Seq(Point3) /\ Len(vertices') = N + 3
  <2>1. vertices \in Seq(Point3) /\ nv \in Seq(Point3)
    BY <1>4
  <2>2. vertices \o nv \in Seq(Point3) /\ Len(vertices \o nv) = Len(vertices) + Len(nv)
    BY <2>1, ConcatProperties
  <2> QED  BY <1>1, <1>4, <2>2
<1>6. i[1] \in S /\ i[2] \in S /\ i[3] \in S /\ N \in S /\ N + 1 \in S /\ N + 2 \in S
  BY <1>2
<1>. HIDE DEF i
<1>7. s.middle \in Seq(S) /\ Len(s.middle) = 3 /\ s.corners \in Seq(S) /\ Len(s.corners) = 9
  <2>. HIDE DEF S
  <2> QED  BY <1>6 DEF Split
<1>. HIDE DEF s
<1>8. p \in Seq(S) /\ Len(p) = x
  <2>1. \A k \in 1..x : indices[k] \in S
    OBVIOUS
  <2>2. 1 \in Int /\ x \in Int
    OBVIOUS
  <2>. HIDE DEF S
  <2>3. p \in Seq(S) /\ Len(p) = IF 1 <= x THEN x - 1 + 1 ELSE 0
    BY <2>1, <2>2, SubSeqProperties
  <2> QED  BY <2>3
<1>9. q \in Seq(S) /\ Len(q) = M - x - 3
  <2>1. \A k \in x+4..M : indices[k] \in S
    OBVIOUS
  <2>2. x + 4 \in Int /\ M \in Int
    OBVIOUS
  <2>. HIDE DEF S
  <2>3. q \in Seq(S) /\ Len(q) = IF x + 4 <= M THEN M - (x + 4) + 1 ELSE 0
    BY <2>1, <2>2, SubSeqProperties
  <2> QED  BY <2>3
<1>. HIDE DEF p, q, S
<1>10. p \o s.middle \in Seq(S) /\ Len(p \o s.middle) = x + 3
  <2>1. p \in Seq(S) /\ s.middle \in Seq(S)
    BY <1>7, <1>8
  <2>2. p \o s.middle \in Seq(S) /\ Len(p \o s.middle) = Len(p) + Len(s.middle)
    BY <2>1, ConcatProperties
  <2> QED  BY <1>7, <1>8, <2>2
<1>. DEFINE front == p \o s.middle
<1>. HIDE DEF front
<1>11. front \o q \in Seq(S) /\ Len(front \o q) = M
  <2>1. front \in Seq(S) /\ q \in Seq(S) /\ Len(front) = x + 3
    BY <1>9, <1>10 DEF front
  <2>2. front \o q \in Seq(S) /\ Len(front \o q) = Len(front) + Len(q)
    BY <2>1, ConcatProperties
  <2> QED  BY <1>9, <2>1, <2>2
<1>. DEFINE all == front \o q
<1>. HIDE DEF all
<1>12. indices' \in Seq(S) /\ Len(indices') = M + 9
  <2>1. all \in Seq(S) /\ s.corners \in Seq(S) /\ Len(all) = M
    BY <1>7, <1>11 DEF all
  <2>2. all \o s.corners \in Seq(S) /\ Len(all \o s.corners) = Len(all) + Len(s.corners)
    BY <2>1, ConcatProperties
  <2>3. indices' = all \o s.corners
    BY <1>1 DEF all, front
  <2> QED  BY <1>7, <2>1, <2>2, <2>3
<1> QED  BY <1>5, <1>12 DEF S

LEMMA TriangleKeeps ==
    ASSUME MeshInv, SubdevideTriangle, UNCHANGED <<app, done, frameVars>>
    PROVE  MeshInv'
<1>. DEFINE N == num_vertices
            M == num_indices
<1>1. idx # -1 /\ ~(idx >= initial_max) /\ idx' = idx + 3 /\ initial_max' = initial_max
      /\ app' = app /\ done' = done
  BY DEF SubdevideTriangle, Walked
<1>2. vertices # <<>>
  BY <1>1 DEF MeshInv, MeshType
<1>3. PICK t : Steps(t) /\ Counts(t)
  BY <1>2 DEF MeshInv
<1>4. app.subdivisions \in Nat /\ done \in 0..app.subdivisions
  BY AppAssumption DEF MeshInv, MeshType
<1>5. t[done] \in Nat /\ t[done] >= 12
  <2>1. t \in [0..app.subdivisions -> Nat] /\ \A d \in 0..app.subdivisions : t[d] >= 12
    BY <1>3 DEF Steps
  <2> QED  BY <1>4, <2>1
<1>6. done < app.subdivisions /\ initial_max = 3 * t[done]
  BY <1>1, <1>3 DEF Counts
<1>7. PICK j \in 0..t[done] : idx = 3 * j /\ M = 3 * (t[done] + 3 * j) /\ N = t[done] + 3 * j - 4
  BY <1>1, <1>3 DEF Counts
<1>8. /\ vertices \in Seq(Point3) /\ Len(vertices) = N
      /\ indices \in Seq(Int) /\ Len(indices) = M
      /\ \A k \in 1..M : indices[k] \in 0..N-1
  BY DEF MeshInv, MeshType, IndicesName, num_vertices, num_indices
<1>9. num_vertices = N /\ num_indices = M
  OBVIOUS
<1>. HIDE DEF N, M
<1>10. j + 1 \in 0..t[done] /\ idx \in Nat /\ idx + 3 <= M /\ M \in Nat /\ N \in Nat
  BY <1>1, <1>5, <1>6, <1>7
<1>11. /\ vertices' \in Seq(Point3) /\ Len(vertices') = N + 3
       /\ indices' \in Seq(0..N+2) /\ Len(indices') = M + 9
  BY <1>8, <1>9, <1>10, ArraysGrow
<1>12. num_vertices' = N + 3 /\ num_indices' = M + 9
  BY <1>11 DEF num_vertices, num_indices
<1>13. Counts(t)'
  <2>1. /\ idx + 3 = 3 * (j + 1) /\ M + 9 = 3 * (t[done] + 3 * (j + 1))
        /\ N + 3 = t[done] + 3 * (j + 1) - 4 /\ idx + 3 # -1
    BY <1>5, <1>7, <1>10
  <2> QED  BY <1>1, <1>6, <1>10, <1>12, <2>1 DEF Counts
<1>14. Steps(t)'
  BY <1>1, <1>3 DEF Steps
<1>15. IndicesName'
  <2>1. \A k \in 1..M + 9 : indices'[k] \in 0..N+2
    BY <1>11, ElementOfSeq
  <2>2. N + 2 = (N + 3) - 1
    BY <1>10
  <2> QED  BY <1>12, <2>1, <2>2 DEF IndicesName
<1>16. MeshType'
  <2>1. indices' \in Seq(Int)
    <3>1. \A k \in 1..Len(indices') : indices'[k] \in Int
      BY <1>10, <1>11, ElementOfSeq
    <3> QED  BY <1>11, <3>1
  <2>2. vertices' # <<>>
    <3>1. Len(vertices') # 0
      BY <1>10, <1>11
    <3>2. Len(<<>>) = 0
      OBVIOUS
    <3> QED  BY <3>1, <3>2
  <2>3. app' \in App /\ done' \in 0..app'.subdivisions /\ idx' \in Int
    BY <1>1, <1>10 DEF MeshInv, MeshType
  <2> QED  BY <1>11, <2>1, <2>2, <2>3 DEF MeshType
<1> QED  BY <1>13, <1>14, <1>15, <1>16 DEF MeshInv

LEMMA MeshStep == MeshInv /\ [RenderNext]_renderVars => MeshInv'
<1> SUFFICES ASSUME MeshInv, [RenderNext]_renderVars PROVE MeshInv'
  OBVIOUS
<1>1. CASE Build
  <2>1. UNCHANGED <<app, frameVars>>
    BY <1>1 DEF Build
  <2>2. CASE vertices = <<>> /\ CreateBox /\ UNCHANGED done
    BY <2>1, <2>2, BoxKeeps
  <2>3. CASE vertices # <<>> /\ done < app.subdivisions /\ SubdevideBegins /\ UNCHANGED done
    BY <2>1, <2>3, BeginKeeps
  <2>4. CASE SubdevideTriangle /\ UNCHANGED done
    BY <2>1, <2>4, TriangleKeeps
  <2>5. CASE SubdevideEnds /\ done' = done + 1
    BY <2>1, <2>5, EndKeeps
  <2> QED  BY <1>1, <2>2, <2>3, <2>4, <2>5 DEF Build
<1>2. CASE RenderBegins
  BY <1>2, MeshStays DEF RenderBegins
<1>3. CASE LineBegins
  BY <1>3, MeshStays DEF LineBegins
<1>4. CASE LinePixel
  BY <1>4, MeshStays DEF LinePixel
<1>5. CASE RenderEnds
  BY <1>5, MeshStays DEF RenderEnds
<1>6. CASE UNCHANGED renderVars
  BY <1>6, MeshStays DEF renderVars
<1> QED  BY <1>1, <1>2, <1>3, <1>4, <1>5, <1>6 DEF RenderNext

\* However often a mesh is subdivided for which there is room, it stays within its arrays,
\* its indices name its vertices and come in threes, at every step (app.c:34-91).
THEOREM MeshAlwaysFits ==
    ASSUME AllRoom
    PROVE  RenderSpec => []MeshFits
<1>1. MeshInv => MeshFits
  BY InvFits
<1> QED  BY <1>1, MeshBegins, MeshStep, PTL DEF RenderSpec

-----------------------------------------------------------------------------
(* A line.  Along the longer of its two extents it moves by one pixel at   *)
(* each step; u counts these steps, v those along the shorter one, and the *)
(* error says how far the pixel is from the line.                          *)

DX(s)    == s[2][1] - s[1][1]
DY(s)    == s[2][2] - s[1][2]
Flat(s)  == abs(DX(s)) >= abs(DY(s))
Long(s)  == IF Flat(s) THEN abs(DX(s)) ELSE abs(DY(s))
Short(s) == IF Flat(s) THEN abs(DY(s)) ELSE abs(DX(s))
Sx(s)    == IF s[2][1] > s[1][1] THEN 1 ELSE -1
Sy(s)    == IF s[2][2] > s[1][2] THEN 1 ELSE -1

XAt(s, u, v) == s[1][1] + Sx(s) * (IF Flat(s) THEN u ELSE v)
YAt(s, u, v) == s[1][2] + Sy(s) * (IF Flat(s) THEN v ELSE u)
Off(s, u, v) == Long(s) * v - Short(s) * u

\* The variables of rgb16_drawline at a pixel, and after u and v steps.
LineRec(on, x0, y0, err, x1, y1, dx, dy, sx, sy) ==
    [on |-> on, x0 |-> x0, y0 |-> y0, x1 |-> x1, y1 |-> y1,
     dx |-> dx, dy |-> dy, sx |-> sx, sy |-> sy, err |-> err]

ErrAt(s, u, v) ==
    IF Flat(s) THEN Off(s, u, v) + Long(s) - Short(s)
               ELSE Short(s) - Long(s) - Off(s, u, v)

LineAt(s, u, v) ==
    LineRec(TRUE, XAt(s, u, v), YAt(s, u, v), ErrAt(s, u, v), s[2][1], s[2][2],
            abs(DX(s)), -abs(DY(s)), Sx(s), Sy(s))

\* No more than half a step beside the line.
OnLine(s, u, v) ==
    /\ u \in 0..Long(s) /\ v \in 0..Short(s)
    /\ -Long(s) < 2 * Off(s, u, v) \/ Long(s) = 0
    /\ 2 * Off(s, u, v) <= Long(s)

Ints(s) == \A k \in 1..2 : s[1][k] \in Int /\ s[2][k] \in Int

LEMMA WithinInts ==
    ASSUME NEW s, Within(s)
    PROVE  Ints(s) /\ \A k \in 1..2 : /\ s[1][k] \in -CoordHalf..CoordHalf-1
                                      /\ s[2][k] \in -CoordHalf..CoordHalf-1
BY AppAssumption DEF Within, Ints

\* Cutting to the width of a variable keeps what fits.
LEMMA Held ==
    ASSUME NEW half \in Nat \ {0}, NEW v \in -half..half-1
    PROVE  Signed(half, v) = v
<1>. DEFINE n == 2 * half
            r == v + half
<1>1. n \in Nat \ {0} /\ r \in 0..n-1
  OBVIOUS
<1>2. r % n = r
  <2>. HIDE DEF n, r
  <2> QED  BY <1>1
<1>3. Signed(half, v) = (r % n) - half
  BY DEF Signed
<1>4. r - half = v
  OBVIOUS
<1>. HIDE DEF n, r
<1> QED  BY <1>2, <1>3, <1>4

LEMMA Held16 == ASSUME NEW v \in -CoordHalf..CoordHalf-1 PROVE int16(v) = v
BY Held, AppAssumption DEF int16

LEMMA Held32 ==
    ASSUME NEW v \in Int, -3 * (CoordHalf - 1) <= v, v <= 3 * (CoordHalf - 1)
    PROVE  int32(v) = v
<1>. DEFINE h == 2 * CoordHalf * CoordHalf
<1>1. h \in Nat \ {0} /\ 3 * (CoordHalf - 1) < h
  BY AppAssumption
<1>2. int32(v) = Signed(h, v)
  BY DEF int32
<1>. HIDE DEF h
<1>3. v \in -h..h-1
  BY <1>1, AppAssumption
<1> QED  BY <1>1, <1>2, <1>3, Held

\* The two extents are numbers, the long one not less than the short one.
LEMMA Extents ==
    ASSUME NEW s, Ints(s)
    PROVE  /\ DX(s) \in Int /\ DY(s) \in Int
           /\ Long(s) \in Nat /\ Short(s) \in Nat /\ Short(s) <= Long(s)
           /\ Sx(s) \in {-1, 1} /\ Sy(s) \in {-1, 1}
           /\ DX(s) = Sx(s) * abs(DX(s)) /\ DY(s) = Sy(s) * abs(DY(s))
           /\ abs(DX(s)) = IF Flat(s) THEN Long(s) ELSE Short(s)
           /\ abs(DY(s)) = IF Flat(s) THEN Short(s) ELSE Long(s)
<1>1. s[1][1] \in Int /\ s[2][1] \in Int /\ s[1][2] \in Int /\ s[2][2] \in Int
  BY DEF Ints
<1> QED  BY <1>1 DEF DX, DY, Long, Short, Flat, Sx, Sy, abs

\* In arithmetic: after a step along the long extent, and one along the short extent when the
\* error asks for it, the pixel is again next to the line.
LEMMA Step ==
    ASSUME NEW L \in Nat, NEW S \in 0..L, NEW u \in 0..L-1, NEW v \in 0..S, NEW E \in Int,
           E = L * v - S * u, -L < 2 * E, 2 * E <= L
    PROVE  /\ 2 * E + 2 * L >= S
           /\ 2 * (E - S) <= -L =>
                 /\ v + 1 \in 0..S /\ E - S + L = L * (v + 1) - S * (u + 1)
                 /\ -L < 2 * (E - S + L) /\ 2 * (E - S + L) <= L
           /\ ~(2 * (E - S) <= -L) =>
                 /\ E - S = L * v - S * (u + 1)
                 /\ -L < 2 * (E - S) /\ 2 * (E - S) <= L
<1>1. 2 * E + 2 * L >= S
  OBVIOUS
<1>2. L * (v + 1) = L * v + L /\ S * (u + 1) = S * u + S
  OBVIOUS
<1>3. ASSUME 2 * (E - S) <= -L PROVE v + 1 \in 0..S
  BY <1>3
<1> QED  BY <1>1, <1>2, <1>3

LEMMA NewErr ==
    ASSUME NEW on, NEW x, NEW y, NEW e, NEW x1, NEW y1, NEW dx, NEW dy, NEW sx, NEW sy, NEW n
    PROVE  [LineRec(on, x, y, e, x1, y1, dx, dy, sx, sy) EXCEPT !.err = n]
             = LineRec(on, x, y, n, x1, y1, dx, dy, sx, sy)
BY DEF LineRec

LEMMA NewX ==
    ASSUME NEW on, NEW x, NEW y, NEW e, NEW x1, NEW y1, NEW dx, NEW dy, NEW sx, NEW sy, NEW n
    PROVE  [LineRec(on, x, y, e, x1, y1, dx, dy, sx, sy) EXCEPT !.x0 = n]
             = LineRec(on, n, y, e, x1, y1, dx, dy, sx, sy)
BY DEF LineRec

LEMMA NewY ==
    ASSUME NEW on, NEW x, NEW y, NEW e, NEW x1, NEW y1, NEW dx, NEW dy, NEW sx, NEW sy, NEW n
    PROVE  [LineRec(on, x, y, e, x1, y1, dx, dy, sx, sy) EXCEPT !.y0 = n]
             = LineRec(on, x, n, e, x1, y1, dx, dy, sx, sy)
BY DEF LineRec

\* A step of either index is a step between the end points.
LEMMA Inside ==
    ASSUME NEW s, Ints(s), NEW u \in 0..Long(s), NEW v \in 0..Short(s)
    PROVE  /\ XAt(s, u, v) \in Int /\ YAt(s, u, v) \in Int
           /\ Between(XAt(s, u, v), s[1][1], s[2][1])
           /\ Between(YAt(s, u, v), s[1][2], s[2][2])
<1>1. s[1][1] \in Int /\ s[2][1] \in Int /\ s[1][2] \in Int /\ s[2][2] \in Int
  BY DEF Ints
<1>. DEFINE i == IF Flat(s) THEN u ELSE v
            j == IF Flat(s) THEN v ELSE u
<1>2. i \in 0..abs(DX(s)) /\ j \in 0..abs(DY(s))
  BY Extents
<1>3. XAt(s, u, v) = s[1][1] + Sx(s) * i /\ YAt(s, u, v) = s[1][2] + Sy(s) * j
  BY DEF XAt, YAt
<1>. HIDE DEF i, j
<1>4. XAt(s, u, v) \in Int /\ Between(XAt(s, u, v), s[1][1], s[2][1])
  BY <1>1, <1>2, <1>3 DEF DX, Sx, abs, Between
<1>5. YAt(s, u, v) \in Int /\ Between(YAt(s, u, v), s[1][2], s[2][2])
  BY <1>1, <1>2, <1>3 DEF DY, Sy, abs, Between
<1> QED  BY <1>4, <1>5

LEMMA Fits16 ==
    ASSUME NEW s, Within(s), NEW u \in 0..Long(s), NEW v \in 0..Short(s)
    PROVE  /\ XAt(s, u, v) \in -CoordHalf..CoordHalf-1
           /\ YAt(s, u, v) \in -CoordHalf..CoordHalf-1
<1>1. Ints(s)
  BY WithinInts
<1>2. /\ s[1][1] \in -CoordHalf..CoordHalf-1 /\ s[1][2] \in -CoordHalf..CoordHalf-1
      /\ s[2][1] \in -CoordHalf..CoordHalf-1 /\ s[2][2] \in -CoordHalf..CoordHalf-1
      /\ CoordHalf \in Nat
  BY WithinInts, AppAssumption
<1>3. /\ XAt(s, u, v) \in Int /\ YAt(s, u, v) \in Int
      /\ Between(XAt(s, u, v), s[1][1], s[2][1])
      /\ Between(YAt(s, u, v), s[1][2], s[2][2])
  BY <1>1, Inside
<1>. DEFINE x == XAt(s, u, v)
            y == YAt(s, u, v)
<1>4. x \in Int /\ y \in Int /\ Between(x, s[1][1], s[2][1]) /\ Between(y, s[1][2], s[2][2])
  BY <1>3
<1>. HIDE DEF x, y
<1>5. x \in -CoordHalf..CoordHalf-1 /\ y \in -CoordHalf..CoordHalf-1
  BY <1>2, <1>4 DEF Between
<1> QED  BY <1>5 DEF x, y

LEMMA StartIs ==
    ASSUME NEW s, Within(s)
    PROVE  /\ StartLine(int16(s[1][1]), int16(s[1][2]), int16(s[2][1]), int16(s[2][2]))
                = LineAt(s, 0, 0)
           /\ OnLine(s, 0, 0)
<1>1. Ints(s) /\ \A k \in 1..2 : /\ s[1][k] \in -CoordHalf..CoordHalf-1
                                 /\ s[2][k] \in -CoordHalf..CoordHalf-1
  BY WithinInts
<1>2. /\ int16(s[1][1]) = s[1][1] /\ int16(s[1][2]) = s[1][2]
      /\ int16(s[2][1]) = s[2][1] /\ int16(s[2][2]) = s[2][2]
  BY <1>1, Held16
<1>3. /\ abs(DX(s)) \in 0..CoordHalf-1 /\ abs(DY(s)) \in 0..CoordHalf-1
      /\ abs(s[2][1] - s[1][1]) = abs(DX(s)) /\ abs(s[2][2] - s[1][2]) = abs(DY(s))
  <2>1. abs(s[1][1] - s[2][1]) < CoordHalf /\ abs(s[1][2] - s[2][2]) < CoordHalf
    BY DEF Within
  <2>2. s[1][1] \in Int /\ s[2][1] \in Int /\ s[1][2] \in Int /\ s[2][2] \in Int
    BY <1>1 DEF Ints
  <2>3. CoordHalf \in Nat
    BY AppAssumption
  <2>4. \A m, n \in Int : abs(m - n) < CoordHalf => abs(n - m) \in 0..CoordHalf-1
    BY <2>3 DEF abs
  <2> QED  BY <2>1, <2>2, <2>4 DEF DX, DY
<1>4. int16(abs(DX(s))) = abs(DX(s)) /\ int16(-abs(DY(s))) = -abs(DY(s))
  <2>1. abs(DX(s)) \in -CoordHalf..CoordHalf-1 /\ -abs(DY(s)) \in -CoordHalf..CoordHalf-1
    BY <1>3, AppAssumption
  <2> QED  BY <2>1, Held16
<1>5. /\ Long(s) \in Nat /\ Short(s) \in Nat /\ Short(s) <= Long(s)
      /\ abs(DX(s)) = IF Flat(s) THEN Long(s) ELSE Short(s)
      /\ abs(DY(s)) = IF Flat(s) THEN Short(s) ELSE Long(s)
  BY <1>1, Extents
<1>6. Off(s, 0, 0) = 0
  BY <1>5 DEF Off
<1>7. OnLine(s, 0, 0)
  BY <1>5, <1>6 DEF OnLine
<1>8. XAt(s, 0, 0) = s[1][1] /\ YAt(s, 0, 0) = s[1][2]
  BY <1>1 DEF XAt, YAt, Ints, Sx, Sy
<1>9. (IF Flat(s) THEN 0 + Long(s) - Short(s) ELSE Short(s) - Long(s) - 0)
        = abs(DX(s)) + (-abs(DY(s)))
  BY <1>5
<1>10. StartLine(s[1][1], s[1][2], s[2][1], s[2][2]) = LineAt(s, 0, 0)
  BY <1>3, <1>4, <1>6, <1>8, <1>9 DEF StartLine, LineAt, LineRec, ErrAt, Sx, Sy
<1> QED  BY <1>2, <1>7, <1>10

LEMMA Cancel ==
    ASSUME NEW a \in Int, NEW q \in {-1, 1}, NEW m \in Int, NEW n \in Int, a + q * m = a + q * n
    PROVE  m = n
OBVIOUS

\* The loop breaks exactly when the long extent is used up: the end point is met.
LEMMA AtEnd ==
    ASSUME NEW s, Ints(s), NEW u, NEW v, OnLine(s, u, v)
    PROVE  (XAt(s, u, v) = s[2][1] /\ YAt(s, u, v) = s[2][2]) <=> u = Long(s)
<1>1. s[1][1] \in Int /\ s[2][1] \in Int /\ s[1][2] \in Int /\ s[2][2] \in Int
  BY DEF Ints
<1>2. /\ Long(s) \in Nat /\ Short(s) \in Nat /\ Short(s) <= Long(s)
      /\ Sx(s) \in {-1, 1} /\ Sy(s) \in {-1, 1}
      /\ DX(s) = Sx(s) * (IF Flat(s) THEN Long(s) ELSE Short(s))
      /\ DY(s) = Sy(s) * (IF Flat(s) THEN Short(s) ELSE Long(s))
  BY Extents
<1>3. u \in 0..Long(s) /\ v \in 0..Short(s)
  BY DEF OnLine
<1>4. /\ s[2][1] = s[1][1] + Sx(s) * (IF Flat(s) THEN Long(s) ELSE Short(s))
      /\ s[2][2] = s[1][2] + Sy(s) * (IF Flat(s) THEN Short(s) ELSE Long(s))
  BY <1>1, <1>2 DEF DX, DY
<1>5. ASSUME u = Long(s) PROVE v = Short(s)
  <2>1. CASE Long(s) = 0
    BY <1>2, <1>3, <2>1
  <2>2. CASE Long(s) # 0
    <3>1. Off(s, u, v) = Long(s) * (v - Short(s))
      BY <1>2, <1>3, <1>5 DEF Off
    <3>2. -Long(s) < 2 * Off(s, u, v) /\ 2 * Off(s, u, v) <= Long(s)
      BY <2>2 DEF OnLine
    <3> QED  BY <1>2, <1>3, <2>2, <3>1, <3>2
  <2> QED  BY <2>1, <2>2
<1>6. ASSUME u = Long(s) PROVE XAt(s, u, v) = s[2][1] /\ YAt(s, u, v) = s[2][2]
  BY <1>4, <1>5, <1>6 DEF XAt, YAt
<1>7. ASSUME XAt(s, u, v) = s[2][1], YAt(s, u, v) = s[2][2] PROVE u = Long(s)
  <2>1. CASE Flat(s)
    <3>1. s[1][1] + Sx(s) * u = s[1][1] + Sx(s) * Long(s)
      BY <1>4, <1>7, <2>1 DEF XAt
    <3>2. u \in Int /\ Long(s) \in Int /\ s[1][1] \in Int /\ Sx(s) \in {-1, 1}
      BY <1>1, <1>2, <1>3
    <3> QED  BY <3>1, <3>2, Cancel
  <2>2. CASE ~Flat(s)
    <3>1. s[1][2] + Sy(s) * u = s[1][2] + Sy(s) * Long(s)
      BY <1>4, <1>7, <2>2 DEF YAt
    <3>2. u \in Int /\ Long(s) \in Int /\ s[1][2] \in Int /\ Sy(s) \in {-1, 1}
      BY <1>1, <1>2, <1>3
    <3> QED  BY <3>1, <3>2, Cancel
  <2> QED  BY <2>1, <2>2
<1> QED  BY <1>6, <1>7

LEMMA NearAt ==
    ASSUME NEW s, Ints(s), NEW u, NEW v, OnLine(s, u, v)
    PROVE  Near(s, XAt(s, u, v), YAt(s, u, v))
<1>1. s[1][1] \in Int /\ s[2][1] \in Int /\ s[1][2] \in Int /\ s[2][2] \in Int
  BY DEF Ints
<1>2. u \in 0..Long(s) /\ v \in 0..Short(s)
  BY DEF OnLine
<1>3. /\ Long(s) \in Nat /\ Short(s) \in Nat /\ Short(s) <= Long(s)
      /\ Sx(s) \in {-1, 1} /\ Sy(s) \in {-1, 1}
      /\ DX(s) = Sx(s) * (IF Flat(s) THEN Long(s) ELSE Short(s))
      /\ DY(s) = Sy(s) * (IF Flat(s) THEN Short(s) ELSE Long(s))
  BY Extents
<1>. DEFINE x == XAt(s, u, v)
            y == YAt(s, u, v)
            across == (x - s[1][1]) * DY(s) - (y - s[1][2]) * DX(s)
<1>4. x - s[1][1] = Sx(s) * (IF Flat(s) THEN u ELSE v)
  BY <1>1, <1>2, <1>3 DEF XAt
<1>5. y - s[1][2] = Sy(s) * (IF Flat(s) THEN v ELSE u)
  BY <1>1, <1>2, <1>3 DEF YAt
<1>6. Off(s, u, v) \in Int /\ -Long(s) <= 2 * Off(s, u, v) /\ 2 * Off(s, u, v) <= Long(s)
  <2>1. Off(s, u, v) \in Int
    BY <1>2, <1>3 DEF Off
  <2>2. Long(s) = 0 => Off(s, u, v) = 0
    BY <1>2, <1>3 DEF Off
  <2> QED  BY <1>3, <2>1, <2>2 DEF OnLine
<1>7. across = Off(s, u, v) \/ across = -Off(s, u, v)
  <2>1. CASE Flat(s)
    <3>1. across = (Sx(s) * u) * (Sy(s) * Short(s)) - (Sy(s) * v) * (Sx(s) * Long(s))
      BY <1>3, <1>4, <1>5, <2>1
    <3>. HIDE DEF x, y, across
    <3> QED  BY <1>2, <1>3, <3>1 DEF Off
  <2>2. CASE ~Flat(s)
    <3>1. across = (Sx(s) * v) * (Sy(s) * Long(s)) - (Sy(s) * u) * (Sx(s) * Short(s))
      BY <1>3, <1>4, <1>5, <2>2
    <3>. HIDE DEF x, y, across
    <3> QED  BY <1>2, <1>3, <3>1 DEF Off
  <2> QED  BY <2>1, <2>2
<1>8. across \in Int
  BY <1>6, <1>7
<1>9. 2 * abs(across) <= Long(s)
  <2>. HIDE DEF x, y, across
  <2> QED  BY <1>3, <1>6, <1>7, <1>8 DEF abs
<1>10. Long(s) = IF abs(DX(s)) > abs(DY(s)) THEN abs(DX(s)) ELSE abs(DY(s))
  BY <1>3 DEF Long, Flat, abs
<1>11. Between(x, s[1][1], s[2][1]) /\ Between(y, s[1][2], s[2][2])
  BY <1>2, Inside
<1> QED  BY <1>9, <1>10, <1>11 DEF Near, DX, DY

\* A turn of the loop moves the pixel by one along the long extent, and leaves it on the line.
LEMMA MovedIs ==
    ASSUME NEW s, Within(s), NEW u, NEW v, OnLine(s, u, v), u # Long(s)
    PROVE  \E w : Moved(LineAt(s, u, v)) = LineAt(s, u + 1, w) /\ OnLine(s, u + 1, w)
<1>. DEFINE L == Long(s)
            S == Short(s)
            E == Off(s, u, v)
            flat == Flat(s)
            near == 2 * (E - S) <= -L
            w  == IF near THEN v + 1 ELSE v
            E2 == IF near THEN E - S + L ELSE E - S
            e  == IF flat THEN E + L - S ELSE S - L - E
            e2 == IF flat THEN E2 + L - S ELSE S - L - E2
            dx == IF flat THEN L ELSE S
            dy == IF flat THEN -S ELSE -L
            l  == LineAt(s, u, v)
<1>1. Ints(s)
  BY WithinInts
<1>2. L \in Nat /\ S \in 0..L /\ Sx(s) \in {-1, 1} /\ Sy(s) \in {-1, 1}
      /\ abs(DX(s)) = dx /\ -abs(DY(s)) = dy
  BY <1>1, Extents
<1>3. u \in 0..L-1 /\ u + 1 \in 0..L /\ v \in 0..S /\ u \in 0..L
  BY <1>2 DEF OnLine
<1>4. E \in Int /\ E = L * v - S * u /\ -L < 2 * E /\ 2 * E <= L
  BY <1>2, <1>3 DEF Off, OnLine
<1>5. L <= CoordHalf - 1 /\ CoordHalf \in Nat
  <2>1. abs(s[1][1] - s[2][1]) < CoordHalf /\ abs(s[1][2] - s[2][2]) < CoordHalf
    BY DEF Within
  <2>2. s[1][1] \in Int /\ s[2][1] \in Int /\ s[1][2] \in Int /\ s[2][2] \in Int
    BY <1>1 DEF Ints
  <2>3. CoordHalf \in Nat
    BY AppAssumption
  <2>4. \A m, n \in Int : abs(m - n) < CoordHalf => abs(n - m) <= CoordHalf - 1
    BY <2>3 DEF abs
  <2> QED  BY <2>1, <2>2, <2>3, <2>4 DEF DX, DY, Long
<1>6. /\ l.on = TRUE /\ l.x0 = XAt(s, u, v) /\ l.y0 = YAt(s, u, v)
      /\ l.dx = dx /\ l.dy = dy /\ l.sx = Sx(s) /\ l.sy = Sy(s) /\ l.err = e
  BY <1>2 DEF LineAt, LineRec, ErrAt
<1>7. /\ 2 * E + 2 * L >= S
      /\ near => /\ v + 1 \in 0..S /\ E - S + L = L * (v + 1) - S * (u + 1)
                 /\ -L < 2 * (E - S + L) /\ 2 * (E - S + L) <= L
      /\ ~near => /\ E - S = L * v - S * (u + 1)
                  /\ -L < 2 * (E - S) /\ 2 * (E - S) <= L
  <2>. HIDE DEF L, S, E
  <2> QED  BY <1>2, <1>3, <1>4, Step
<1>8. w \in 0..S /\ E2 \in Int /\ E2 = L * w - S * (u + 1) /\ -L < 2 * E2 /\ 2 * E2 <= L
  <2>. HIDE DEF L, S, E
  <2> QED  BY <1>2, <1>3, <1>4, <1>7
<1>9. OnLine(s, u + 1, w) /\ Off(s, u + 1, w) = E2
  <2>1. Off(s, u + 1, w) = E2
    BY <1>8 DEF Off
  <2>. HIDE DEF E2, w
  <2> QED  BY <1>3, <1>8, <2>1 DEF OnLine
<1>10. /\ e \in Int /\ -3 * (CoordHalf - 1) <= 2 * e /\ 2 * e <= 3 * (CoordHalf - 1)
       /\ e2 \in Int /\ -3 * (CoordHalf - 1) <= e2 /\ e2 <= 3 * (CoordHalf - 1)
  <2>. HIDE DEF L, S, E, E2, flat
  <2> QED  BY <1>2, <1>4, <1>5, <1>8
<1>11. int32(2 * l.err) = 2 * e
  <2>1. 2 * e \in Int
    BY <1>10
  <2>. HIDE DEF e
  <2> QED  BY <1>6, <1>10, <2>1, Held32
<1>. DEFINE moveX == 2 * e >= dy
            moveY == 2 * e <= dx
<1>12. moveX <=> (flat \/ near)
  <2>. HIDE DEF L, S, E, flat
  <2> QED  BY <1>2, <1>4, <1>7
<1>13. moveY <=> (~flat \/ near)
  <2>. HIDE DEF L, S, E, flat
  <2> QED  BY <1>2, <1>4, <1>7
<1>14. e + (IF moveX THEN dy ELSE 0) + (IF moveY THEN dx ELSE 0) = e2
  <2>. HIDE DEF L, S, E, flat, moveX, moveY
  <2> QED  BY <1>2, <1>4, <1>12, <1>13
<1>. DEFINE x2 == XAt(s, u + 1, w)
            y2 == YAt(s, u + 1, w)
<1>15. /\ x2 = IF moveX THEN l.x0 + l.sx ELSE l.x0
       /\ y2 = IF moveY THEN l.y0 + l.sy ELSE l.y0
  <2>1. s[1][1] \in Int /\ s[1][2] \in Int
    BY <1>1 DEF Ints
  <2>2. x2 = s[1][1] + Sx(s) * (IF flat THEN u + 1 ELSE w)
    BY DEF XAt
  <2>3. y2 = s[1][2] + Sy(s) * (IF flat THEN w ELSE u + 1)
    BY DEF YAt
  <2>4. l.x0 = s[1][1] + Sx(s) * (IF flat THEN u ELSE v)
    BY <1>6 DEF XAt
  <2>5. l.y0 = s[1][2] + Sy(s) * (IF flat THEN v ELSE u)
    BY <1>6 DEF YAt
  <2>6. \A q \in {-1, 1}, m \in Int, n \in Int : m + q * (n + 1) = (m + q * n) + q
    OBVIOUS
  <2>. HIDE DEF l, x2, y2, moveX, moveY, flat, near
  <2> QED  BY <1>2, <1>3, <1>6, <1>12, <1>13, <2>1, <2>2, <2>3, <2>4, <2>5, <2>6
<1>16. int16(x2) = x2 /\ int16(y2) = y2
  <2>1. u + 1 \in 0..Long(s) /\ w \in 0..Short(s)
    BY <1>3, <1>8
  <2>2. x2 \in -CoordHalf..CoordHalf-1 /\ y2 \in -CoordHalf..CoordHalf-1
    <3>. HIDE DEF w
    <3> QED  BY <2>1, Fits16
  <2>. HIDE DEF x2, y2
  <2> QED  BY <2>2, Held16
<1>17. int32(e2) = e2
  <2>. HIDE DEF e2
  <2> QED  BY <1>10, Held32
<1>18. Moved(l) = [l EXCEPT !.err = e2, !.x0 = x2, !.y0 = y2]
  <2>1. (int32(2 * l.err) >= l.dy) <=> moveX
    BY <1>6, <1>11
  <2>2. (int32(2 * l.err) <= l.dx) <=> moveY
    BY <1>6, <1>11
  <2>3. int32(l.err + (IF moveX THEN l.dy ELSE 0) + (IF moveY THEN l.dx ELSE 0)) = e2
    <3>. HIDE DEF l, e, e2, moveX, moveY, dx, dy
    <3> QED  BY <1>6, <1>14, <1>17
  <2>4. /\ (IF moveX THEN int16(l.x0 + l.sx) ELSE l.x0) = x2
        /\ (IF moveY THEN int16(l.y0 + l.sy) ELSE l.y0) = y2
    <3>. HIDE DEF l, x2, y2, moveX, moveY
    <3> QED  BY <1>15, <1>16
  <2>. HIDE DEF l, x2, y2, e2, moveX, moveY
  <2> QED  BY <2>1, <2>2, <2>3, <2>4 DEF Moved
<1>19. LineAt(s, u + 1, w) = [l EXCEPT !.err = e2, !.x0 = x2, !.y0 = y2]
  <2>1. e2 = ErrAt(s, u + 1, w)
    <3>. HIDE DEF E2, w
    <3> QED  BY <1>9 DEF ErrAt
  <2>. DEFINE on == TRUE
              Rec(x, y, err) == LineRec(on, x, y, err, s[2][1], s[2][2],
                                        abs(DX(s)), -abs(DY(s)), Sx(s), Sy(s))
  <2>2. l = Rec(XAt(s, u, v), YAt(s, u, v), ErrAt(s, u, v))
    BY DEF LineAt
  <2>3. LineAt(s, u + 1, w) = Rec(x2, y2, e2)
    <3>. HIDE DEF e2, w
    <3> QED  BY <2>1 DEF LineAt
  <2>. HIDE DEF on, e2, x2, y2, w, l
  <2>. DEFINE l1 == [l EXCEPT !.err = e2]
              l2 == [l1 EXCEPT !.x0 = x2]
              l3 == [l2 EXCEPT !.y0 = y2]
  <2>4. [l EXCEPT !.err = e2, !.x0 = x2, !.y0 = y2] = l3
    OBVIOUS
  <2>5. l1 = Rec(XAt(s, u, v), YAt(s, u, v), e2)
    BY <2>2, NewErr
  <2>. HIDE DEF l1
  <2>6. l2 = Rec(x2, YAt(s, u, v), e2)
    BY <2>5, NewX
  <2>. HIDE DEF l2
  <2>7. l3 = Rec(x2, y2, e2)
    BY <2>6, NewY
  <2>. HIDE DEF l3
  <2> QED  BY <2>3, <2>4, <2>7
<1> QED  BY <1>9, <1>18, <1>19

-----------------------------------------------------------------------------
(* Pixels as places in the buffer.                                         *)

LEMMA Decode ==
    ASSUME NEW x \in Int, NEW y \in Int, OnScreen(x, y)
    PROVE  (y * width + x) % width = x /\ (y * width + x) \div width = y
<1>. DEFINE m == width
<1>1. m \in Nat \ {0} /\ x \in 0..m-1 /\ y \in Nat
  BY AppAssumption DEF OnScreen
<1>. HIDE DEF m
<1>2. (y * m + x) % m = x /\ (y * m + x) \div m = y
  BY <1>1
<1> QED  BY <1>2 DEF m

Lit(s, x, y, P) == Near(s, x, y) /\ (OnScreen(x, y) => y * width + x \in P)

\* The first m pixels of a line are in P, as far as they are on the screen.
DrawnTo(s, m, P) ==
    \A u \in 0..m-1 : \E v : OnLine(s, u, v) /\ Lit(s, XAt(s, u, v), YAt(s, u, v), P)

CoveredIn(s, P) ==
    LET xs == Range2(s[1][1], s[2][1])  ys == Range2(s[1][2], s[2][2])
    IN  IF Flat(s) THEN \A x \in xs : \E y \in ys : Lit(s, x, y, P)
                   ELSE \A y \in ys : \E x \in xs : Lit(s, x, y, P)

LEMMA CoveredGrows ==
    ASSUME NEW s, NEW P, NEW Q, P \subseteq Q
    PROVE  /\ CoveredIn(s, P) => CoveredIn(s, Q)
           /\ \A m : DrawnTo(s, m, P) => DrawnTo(s, m, Q)
<1>1. \A x, y : Lit(s, x, y, P) => Lit(s, x, y, Q)
  BY DEF Lit
<1> QED  BY <1>1 DEF CoveredIn, DrawnTo

LEMMA Reached ==
    ASSUME NEW a \in Int, NEW m \in Int, NEW q \in {-1, 1}, NEW n \in Nat, m - a = q * n,
           NEW x \in Range2(a, m)
    PROVE  \E u \in 0..n : x = a + q * u
<1>. DEFINE u == q * (x - a)
<1>1. u \in 0..n /\ x = a + q * u
  BY DEF Range2
<1> QED  BY <1>1

\* A line that is drawn to its end has a pixel at each of its columns, or rows.
LEMMA DrawnCovers ==
    ASSUME NEW s, Ints(s), NEW P, DrawnTo(s, Long(s) + 1, P)
    PROVE  CoveredIn(s, P)
<1>1. s[1][1] \in Int /\ s[2][1] \in Int /\ s[1][2] \in Int /\ s[2][2] \in Int
  BY DEF Ints
<1>2. /\ Long(s) \in Nat /\ Short(s) \in Nat
      /\ Sx(s) \in {-1, 1} /\ Sy(s) \in {-1, 1}
      /\ DX(s) = Sx(s) * (IF Flat(s) THEN Long(s) ELSE Short(s))
      /\ DY(s) = Sy(s) * (IF Flat(s) THEN Short(s) ELSE Long(s))
  BY Extents
<1>3. ASSUME NEW u \in 0..Long(s)
      PROVE  \E v : OnLine(s, u, v) /\ Lit(s, XAt(s, u, v), YAt(s, u, v), P)
  <2>1. u \in 0..(Long(s) + 1)-1
    BY <1>2
  <2> QED  BY <2>1 DEF DrawnTo
<1>4. \A a, b, c \in Int : Between(a, b, c) => a \in Range2(b, c)
  BY DEF Between, Range2
<1>5. \A u, v : OnLine(s, u, v) => /\ XAt(s, u, v) \in Range2(s[1][1], s[2][1])
                                   /\ YAt(s, u, v) \in Range2(s[1][2], s[2][2])
  <2> SUFFICES ASSUME NEW u, NEW v, OnLine(s, u, v)
               PROVE  /\ XAt(s, u, v) \in Range2(s[1][1], s[2][1])
                      /\ YAt(s, u, v) \in Range2(s[1][2], s[2][2])
    OBVIOUS
  <2>1. u \in 0..Long(s) /\ v \in 0..Short(s)
    BY DEF OnLine
  <2> QED  BY <1>1, <1>4, <2>1, Inside
<1>7. CASE Flat(s)
  <2> SUFFICES ASSUME NEW x \in Range2(s[1][1], s[2][1])
               PROVE  \E y \in Range2(s[1][2], s[2][2]) : Lit(s, x, y, P)
    BY <1>7 DEF CoveredIn
  <2>1. s[2][1] - s[1][1] = Sx(s) * Long(s)
    BY <1>2, <1>7 DEF DX
  <2>2. PICK u \in 0..Long(s) : x = s[1][1] + Sx(s) * u
    <3>1. s[1][1] \in Int /\ s[2][1] \in Int /\ Sx(s) \in {-1, 1} /\ Long(s) \in Nat
      BY <1>1, <1>2
    <3> QED  BY <2>1, <3>1, Reached
  <2>3. PICK v : OnLine(s, u, v) /\ Lit(s, XAt(s, u, v), YAt(s, u, v), P)
    BY <1>3
  <2>4. XAt(s, u, v) = x
    BY <1>7, <2>2 DEF XAt
  <2> QED  BY <1>5, <2>3, <2>4
<1>8. CASE ~Flat(s)
  <2> SUFFICES ASSUME NEW y \in Range2(s[1][2], s[2][2])
               PROVE  \E x \in Range2(s[1][1], s[2][1]) : Lit(s, x, y, P)
    BY <1>8 DEF CoveredIn
  <2>1. s[2][2] - s[1][2] = Sy(s) * Long(s)
    BY <1>2, <1>8 DEF DY
  <2>2. PICK u \in 0..Long(s) : y = s[1][2] + Sy(s) * u
    <3>1. s[1][2] \in Int /\ s[2][2] \in Int /\ Sy(s) \in {-1, 1} /\ Long(s) \in Nat
      BY <1>1, <1>2
    <3> QED  BY <2>1, <3>1, Reached
  <2>3. PICK v : OnLine(s, u, v) /\ Lit(s, XAt(s, u, v), YAt(s, u, v), P)
    BY <1>3
  <2>4. YAt(s, u, v) = y
    BY <1>8, <2>2 DEF YAt
  <2> QED  BY <1>5, <2>3, <2>4
<1> QED  BY <1>7, <1>8

\* A pixel more.
LEMMA DrawnMore ==
    ASSUME NEW s, Ints(s), NEW P, NEW Q, P \subseteq Q, NEW u, NEW v, OnLine(s, u, v),
           DrawnTo(s, u, P),
           OnScreen(XAt(s, u, v), YAt(s, u, v)) => YAt(s, u, v) * width + XAt(s, u, v) \in Q
    PROVE  DrawnTo(s, u + 1, Q)
<1>1. u \in Nat
  BY Extents DEF OnLine
<1>2. Lit(s, XAt(s, u, v), YAt(s, u, v), Q)
  BY NearAt DEF Lit
<1>3. DrawnTo(s, u, Q)
  BY CoveredGrows
<1>4. \A k \in 0..(u + 1)-1 : k \in 0..u-1 \/ k = u
  BY <1>1
<1> QED  BY <1>2, <1>3, <1>4 DEF DrawnTo

-----------------------------------------------------------------------------
(* A frame: the sides that are drawn, one after another.                   *)

Shown == app.frames[frame].num_idx \div 3

SideAt(n, k) == << app.frames[frame].points[indices[3 * n + (k % 3) + 1]],
                   app.frames[frame].points[indices[3 * n + ((k + 1) % 3) + 1]] >>

AllWithin == \A s \in Sides : Within(s)

\* Where the loops stand.
LoopInv ==
    /\ frame \in 0..Len(app.frames)
    /\ frame > 0 => Built
    /\ drawing => frame > 0 /\ side \in 0..2 /\ \E n \in Nat : idx_head = 3 * n
    /\ line.on => drawing
    /\ (drawing /\ (line.on \/ side # 0)) => MoreTriangles

NearSides(P) == \A p \in P : \E s \in Sides : Near(s, p % width, p \div width)

\* The sides before number c are drawn.
DrawnSides(c, P) ==
    \A n \in 0..Shown-1, k \in 0..2 : 3 * n + k < c => CoveredIn(SideAt(n, k), P)

\* The line that is drawn is the one of the side, and its pixels so far are lit.
LineGoes ==
    \A n \in Nat : idx_head = 3 * n =>
        \E u, v : /\ OnLine(SideAt(n, side), u, v)
                  /\ line = LineAt(SideAt(n, side), u, v)
                  /\ DrawnTo(SideAt(n, side), u, buff)

BuffInv ==
    (drawing /\ AllWithin) =>
        /\ NearSides(buff) /\ DrawnSides(idx_head + side, buff)
        /\ line.on => LineGoes

ScreenInv ==
    (frame > 0 /\ ~drawing /\ AllWithin) => NearSides(screen) /\ DrawnSides(3 * Shown, screen)

RenderInv == MeshInv /\ LoopInv /\ BuffInv /\ ScreenInv

LEMMA SidesAre == Sides = {SideAt(n, k) : n \in 0..Shown-1, k \in 0..2}
BY DEF Sides, SideAt, Shown

LEMMA CoveredIs == ASSUME NEW s PROVE Covered(s) <=> CoveredIn(s, screen)
BY DEF Covered, CoveredIn, Lit, Flat, DX, DY

LEMMA ShownIs == ASSUME LoopInv, MeshInv, frame > 0
                 PROVE  Shown \in Nat /\ app.frames[frame].num_idx \in Nat
<1>1. frame \in 1..Len(app.frames) /\ app \in App
  BY AppAssumption DEF LoopInv, MeshInv, MeshType
<1> QED  BY <1>1, AppAssumption DEF Shown

LEMMA InvShows == ASSUME RenderInv PROVE FrameShown
<1> SUFFICES ASSUME frame > 0, ~drawing, \A s \in Sides : Within(s)
             PROVE  /\ \A p \in screen : \E s \in Sides : Near(s, p % width, p \div width)
                    /\ \A s \in Sides : Covered(s)
  BY DEF FrameShown
<1>1. NearSides(screen) /\ DrawnSides(3 * Shown, screen)
  BY DEF RenderInv, ScreenInv, AllWithin
<1>2. Shown \in Nat
  BY ShownIs DEF RenderInv
<1>3. \A n \in 0..Shown-1, k \in 0..2 : 3 * n + k < 3 * Shown
  BY <1>2
<1>4. \A s \in Sides : CoveredIn(s, screen)
  BY <1>1, <1>3, SidesAre DEF DrawnSides
<1> QED  BY <1>1, <1>4, CoveredIs DEF NearSides

\* A step that leaves the application, the frame and the indices alone leaves the sides alone.
LEMMA SameSides ==
    ASSUME UNCHANGED <<app, frame, indices>>
    PROVE  /\ Sides' = Sides /\ Shown' = Shown
           /\ AllWithin' <=> AllWithin
           /\ \A n, k : SideAt(n, k)' = SideAt(n, k)
           /\ \A P : NearSides(P)' <=> NearSides(P)
           /\ \A c, P : DrawnSides(c, P)' <=> DrawnSides(c, P)
<1>1. Sides' = Sides /\ Shown' = Shown /\ \A n, k : SideAt(n, k)' = SideAt(n, k)
  BY DEF Sides, Shown, SideAt
<1>2. AllWithin' <=> AllWithin
  BY <1>1 DEF AllWithin
<1>3. \A P : NearSides(P)' <=> NearSides(P)
  BY <1>1 DEF NearSides
<1>4. \A c, P : DrawnSides(c, P)' <=> DrawnSides(c, P)
  BY <1>1 DEF DrawnSides
<1> QED  BY <1>1, <1>2, <1>3, <1>4

LEMMA NoLineOff == ~NoLine.on
BY DEF NoLine

LEMMA RenderStarts == RenderInit => RenderInv
<1> SUFFICES ASSUME RenderInit PROVE RenderInv
  OBVIOUS
<1>1. app \in App /\ frame = 0 /\ ~drawing /\ ~line.on
  BY NoLineOff DEF RenderInit
<1>2. 0 \in 0..Len(app.frames)
  BY <1>1, AppAssumption
<1>3. LoopInv
  BY <1>1, <1>2 DEF LoopInv
<1>4. BuffInv /\ ScreenInv
  BY <1>1 DEF BuffInv, ScreenInv
<1> QED  BY <1>3, <1>4, MeshBegins DEF RenderInv

\* Once it is built the mesh stays as it is.
LEMMA BuiltStays ==
    ASSUME MeshInv, Built
    PROVE  ~Build
<1>1. vertices # <<>> /\ done = app.subdivisions /\ app.subdivisions \in Nat
  BY AppAssumption DEF Built, MeshInv, MeshType
<1>2. idx = -1
  <2>1. PICK t : Counts(t)
    BY <1>1 DEF MeshInv
  <2> QED  BY <1>1, <2>1 DEF Counts
<1> QED  BY <1>1, <1>2 DEF Build, SubdevideTriangle, SubdevideEnds

LEMMA BuildKeeps ==
    ASSUME RenderInv, Build
    PROVE  LoopInv' /\ BuffInv' /\ ScreenInv'
<1>1. frame = 0 /\ ~drawing /\ ~line.on
  BY BuiltStays DEF RenderInv, LoopInv
<1>2. app' = app /\ frame' = frame /\ drawing' = drawing /\ line' = line
  BY DEF Build, frameVars
<1> QED  BY <1>1, <1>2 DEF RenderInv, LoopInv, BuffInv, ScreenInv

LEMMA BeginsKeeps ==
    ASSUME RenderInv, RenderBegins
    PROVE  LoopInv' /\ BuffInv' /\ ScreenInv'
<1>1. /\ Built /\ ~drawing /\ frame < Len(app.frames)
      /\ drawing' = TRUE /\ frame' = frame + 1 /\ idx_head' = 0 /\ side' = 0 /\ buff' = {}
      /\ app' = app /\ done' = done /\ line' = line /\ vertices' = vertices
  BY DEF RenderBegins, Cleared, meshVars
<1>2. ~line.on /\ frame \in 0..Len(app.frames) /\ Len(app.frames) \in Nat
  BY <1>1, AppAssumption DEF RenderInv, LoopInv, MeshInv, MeshType
<1>3. LoopInv'
  <2>1. frame + 1 \in 0..Len(app.frames) /\ frame + 1 > 0 /\ 0 = 3 * 0 /\ 0 \in Nat
    BY <1>1, <1>2
  <2>2. Built'
    BY <1>1 DEF Built
  <2> QED  BY <1>1, <1>2, <2>1, <2>2 DEF LoopInv
<1>4. BuffInv'
  <2>1. NearSides({})'
    BY DEF NearSides
  <2>2. DrawnSides(0 + 0, {})'
    <3>1. \A n \in 0..Shown'-1, k \in 0..2 : ~(3 * n + k < 0 + 0)
      OBVIOUS
    <3> QED  BY <3>1 DEF DrawnSides
  <2> QED  BY <1>1, <1>2, <2>1, <2>2 DEF BuffInv, NearSides, DrawnSides
<1>5. ScreenInv'
  BY <1>1 DEF ScreenInv
<1> QED  BY <1>3, <1>4, <1>5

\* The triangle that is drawn is one of the frame.
LEMMA SideIsShown ==
    ASSUME RenderInv, drawing, MoreTriangles, NEW n \in Nat, idx_head = 3 * n
    PROVE  n \in 0..Shown-1 /\ SideAt(n, side) \in Sides
<1>1. frame > 0 /\ side \in 0..2
  BY DEF RenderInv, LoopInv
<1>. DEFINE m == app.frames[frame].num_idx
<1>2. m \in Nat /\ Shown = m \div 3
  BY <1>1, ShownIs DEF RenderInv, Shown
<1>3. 3 * n + 2 < m
  BY DEF MoreTriangles
<1>. HIDE DEF m
<1>4. n \in 0..Shown-1
  BY <1>2, <1>3
<1> QED  BY <1>1, <1>4, SidesAre

LEMMA LineKeeps ==
    ASSUME RenderInv, LineBegins
    PROVE  LoopInv' /\ BuffInv' /\ ScreenInv'
<1>1. /\ drawing /\ ~line.on /\ MoreTriangles
      /\ app' = app /\ frame' = frame /\ indices' = indices /\ vertices' = vertices /\ done' = done
      /\ drawing' = drawing /\ idx_head' = idx_head /\ side' = side /\ buff' = buff
  BY DEF LineBegins, meshVars
<1>2. LoopInv'
  <2>1. Built' <=> Built
    BY <1>1 DEF Built
  <2>2. MoreTriangles'
    BY <1>1 DEF MoreTriangles
  <2> QED  BY <1>1, <2>1, <2>2 DEF RenderInv, LoopInv
<1>3. ScreenInv'
  BY <1>1 DEF ScreenInv
<1>4. UNCHANGED <<app, frame, indices>>
  BY <1>1
<1>5. ASSUME AllWithin PROVE NearSides(buff) /\ DrawnSides(idx_head + side, buff)
  BY <1>1, <1>5 DEF RenderInv, BuffInv
<1>6. ASSUME AllWithin, NEW n \in Nat, idx_head = 3 * n
      PROVE  \E u, v : /\ OnLine(SideAt(n, side), u, v)
                       /\ line' = LineAt(SideAt(n, side), u, v)
                       /\ DrawnTo(SideAt(n, side), u, buff)
  <2>. DEFINE s == SideAt(n, side)
  <2>1. Within(s)
    BY <1>1, <1>6, SideIsShown DEF AllWithin
  <2>2. Point(side) = s[1] /\ Point(side + 1) = s[2]
    BY <1>6 DEF Point, SideAt
  <2>3. line' = StartLine(int16(s[1][1]), int16(s[1][2]), int16(s[2][1]), int16(s[2][2]))
    <3>. HIDE DEF s
    <3> QED  BY <2>2 DEF LineBegins
  <2>. HIDE DEF s
  <2>4. line' = LineAt(s, 0, 0) /\ OnLine(s, 0, 0)
    BY <2>1, <2>3, StartIs
  <2>5. DrawnTo(s, 0, buff)
    BY DEF DrawnTo
  <2> QED  BY <2>4, <2>5 DEF s
<1>7. BuffInv'
  <2>1. AllWithin' => AllWithin
    BY <1>4, SameSides
  <2>2. AllWithin' => NearSides(buff)' /\ DrawnSides(idx_head + side, buff)'
    <3>1. AllWithin' => NearSides(buff) /\ DrawnSides(idx_head + side, buff)
      BY <1>5, <2>1
    <3>2. (NearSides(buff) => NearSides(buff)') 
      BY <1>1, <1>4, SameSides DEF NearSides
    <3>3. DrawnSides(idx_head + side, buff) => DrawnSides(idx_head + side, buff)'
      BY <1>1, <1>4, SameSides DEF DrawnSides
    <3> QED  BY <3>1, <3>2, <3>3
  <2>3. AllWithin' => LineGoes'
    BY <1>1, <1>4, <1>6, <2>1, SameSides DEF LineGoes
  <2> QED  BY <2>2, <2>3 DEF BuffInv
<1> QED  BY <1>2, <1>3, <1>7

\* What a turn of the loop does with a line that is on.
LEMMA PixelIs ==
    ASSUME NEW s, Within(s), NEW u, NEW v, OnLine(s, u, v), line = LineAt(s, u, v),
           DrawnTo(s, u, buff), LinePixel
    PROVE  /\ buff \subseteq buff'
           /\ \A p \in buff' \ buff : Near(s, p % width, p \div width)
           /\ (line.x0 = line.x1 /\ line.y0 = line.y1) => CoveredIn(s, buff')
           /\ ~(line.x0 = line.x1 /\ line.y0 = line.y1) =>
                 \E w : /\ OnLine(s, u + 1, w) /\ line' = LineAt(s, u + 1, w)
                        /\ DrawnTo(s, u + 1, buff')
<1>. DEFINE x == XAt(s, u, v)
            y == YAt(s, u, v)
<1>1. line.x0 = x /\ line.y0 = y /\ line.x1 = s[2][1] /\ line.y1 = s[2][2]
  BY DEF LineAt, LineRec
<1>2. buff' = IF OnScreen(x, y) THEN buff \cup {y * width + x} ELSE buff
  <2>. HIDE DEF x, y
  <2> QED  BY <1>1 DEF LinePixel
<1>3. Ints(s)
  BY WithinInts
<1>4. x \in Int /\ y \in Int
  BY <1>3, Inside DEF OnLine
<1>5. buff \subseteq buff' /\ (OnScreen(x, y) => y * width + x \in buff')
  <2>. HIDE DEF x, y
  <2> QED  BY <1>2
<1>6. ASSUME NEW p \in buff' \ buff PROVE Near(s, p % width, p \div width)
  <2>1. Near(s, x, y)
    BY <1>3, NearAt
  <2>. HIDE DEF x, y
  <2>2. OnScreen(x, y) /\ p = y * width + x
    BY <1>2
  <2>3. p % width = x /\ p \div width = y
    BY <1>4, <2>2, Decode
  <2> QED  BY <2>1, <2>3
<1>7. DrawnTo(s, u + 1, buff')
  BY <1>3, <1>5, DrawnMore
<1>8. (line.x0 = line.x1 /\ line.y0 = line.y1) <=> u = Long(s)
  BY <1>1, <1>3, AtEnd
<1>9. ASSUME u = Long(s) PROVE CoveredIn(s, buff')
  BY <1>3, <1>7, <1>9, DrawnCovers
<1>10. ASSUME u # Long(s)
       PROVE  \E w : OnLine(s, u + 1, w) /\ line' = LineAt(s, u + 1, w)
  <2>1. line' = Moved(LineAt(s, u, v))
    BY <1>8, <1>10 DEF LinePixel
  <2> QED  BY <1>10, <2>1, MovedIs
<1> QED  BY <1>5, <1>6, <1>7, <1>8, <1>9, <1>10

LEMMA PixelKeeps ==
    ASSUME RenderInv, LinePixel
    PROVE  LoopInv' /\ BuffInv' /\ ScreenInv'
<1>. DEFINE end == line.x0 = line.x1 /\ line.y0 = line.y1
<1>1. /\ line.on
      /\ app' = app /\ frame' = frame /\ indices' = indices /\ vertices' = vertices /\ done' = done
      /\ drawing' = drawing /\ screen' = screen
  BY DEF LinePixel, meshVars
<1>2. drawing /\ MoreTriangles /\ frame > 0 /\ side \in 0..2
  BY <1>1 DEF RenderInv, LoopInv
<1>3. PICK n \in Nat : idx_head = 3 * n
  BY <1>2 DEF RenderInv, LoopInv
<1>. HIDE DEF end
<1>5. end => /\ line' = NoLine /\ side' = (side + 1) % 3
             /\ idx_head' = IF side = 2 THEN idx_head + 3 ELSE idx_head
  BY DEF LinePixel, end
<1>6. ~end => side' = side /\ idx_head' = idx_head
  BY DEF LinePixel, end
<1>7. /\ side' \in 0..2 /\ \E m \in Nat : idx_head' = 3 * m
      /\ idx_head' + side' = IF end THEN idx_head + side + 1 ELSE idx_head + side
      /\ side' # 0 => idx_head' = idx_head
  <2>1. CASE end
    <3>1. CASE side = 2
      <4>1. side' = 0 /\ idx_head' = 3 * (n + 1) /\ n + 1 \in Nat
        BY <1>3, <1>5, <2>1, <3>1
      <4> QED  BY <1>2, <1>3, <2>1, <3>1, <4>1
    <3>2. CASE side # 2
      <4>1. side' = side + 1 /\ idx_head' = idx_head
        BY <1>2, <1>5, <2>1, <3>2
      <4> QED  BY <1>2, <1>3, <2>1, <3>2, <4>1
    <3> QED  BY <3>1, <3>2
  <2>2. CASE ~end
    BY <1>2, <1>3, <1>6, <2>2
  <2> QED  BY <2>1, <2>2
<1>8. LoopInv'
  <2>1. Built' <=> Built
    BY <1>1 DEF Built
  <2>2. (line'.on \/ side' # 0) => MoreTriangles'
    <3>1. idx_head' = idx_head => MoreTriangles'
      BY <1>1, <1>2 DEF MoreTriangles
    <3>2. line'.on => ~end
      BY <1>5, NoLineOff
    <3> QED  BY <1>6, <1>7, <3>1, <3>2
  <2> QED  BY <1>1, <1>2, <1>7, <2>1, <2>2 DEF RenderInv, LoopInv
<1>9. ScreenInv'
  BY <1>1, <1>2 DEF ScreenInv
<1>10. UNCHANGED <<app, frame, indices>>
  BY <1>1
<1>11. ASSUME AllWithin
       PROVE  /\ NearSides(buff') /\ DrawnSides(idx_head' + side', buff')
              /\ line'.on => LineGoes'
  <2>. DEFINE s == SideAt(n, side)
  <2>1. n \in 0..Shown-1 /\ s \in Sides
    BY <1>2, <1>3, SideIsShown
  <2>2. Within(s)
    BY <1>11, <2>1 DEF AllWithin
  <2>3. NearSides(buff) /\ DrawnSides(idx_head + side, buff) /\ LineGoes
    BY <1>1, <1>2, <1>11 DEF RenderInv, BuffInv
  <2>4. PICK u, v : OnLine(s, u, v) /\ line = LineAt(s, u, v) /\ DrawnTo(s, u, buff)
    BY <1>3, <2>3 DEF LineGoes
  <2>5. /\ buff \subseteq buff'
        /\ \A p \in buff' \ buff : Near(s, p % width, p \div width)
        /\ end => CoveredIn(s, buff')
        /\ ~end => \E w : /\ OnLine(s, u + 1, w) /\ line' = LineAt(s, u + 1, w)
                          /\ DrawnTo(s, u + 1, buff')
    <3>. HIDE DEF s
    <3> QED  BY <2>2, <2>4, PixelIs DEF end
  <2>6. NearSides(buff')
    BY <2>1, <2>3, <2>5 DEF NearSides
  <2>7. DrawnSides(idx_head' + side', buff')
    <3> SUFFICES ASSUME NEW m \in 0..Shown-1, NEW k \in 0..2, 3 * m + k < idx_head' + side'
                 PROVE  CoveredIn(SideAt(m, k), buff')
      BY DEF DrawnSides
    <3>1. CASE 3 * m + k < idx_head + side
      <4>1. CoveredIn(SideAt(m, k), buff)
        BY <2>3, <3>1 DEF DrawnSides
      <4> QED  BY <2>5, <4>1, CoveredGrows
    <3>2. CASE ~(3 * m + k < idx_head + side)
      <4>0. m \in Int /\ k \in 0..2
        OBVIOUS
      <4>1. end /\ 3 * m + k = 3 * n + side /\ m \in Int /\ k \in 0..2
        <5>1. CASE end
          <6>1. 3 * m + k < 3 * n + side + 1 /\ ~(3 * m + k < 3 * n + side)
            BY <1>3, <1>7, <3>2, <5>1
          <6> QED  BY <1>2, <1>3, <4>0, <5>1, <6>1
        <5>2. CASE ~end
          <6>1. idx_head' + side' = idx_head + side
            BY <1>7, <5>2
          <6> QED  BY <3>2, <6>1
        <5> QED  BY <5>1, <5>2
      <4>2. m = n /\ k = side
        BY <1>2, <4>1
      <4> QED  BY <2>5, <4>1, <4>2
    <3> QED  BY <3>1, <3>2
  <2>8. ASSUME line'.on PROVE LineGoes'
    <3>1. ~end
      BY <1>5, <2>8, NoLineOff
    <3>2. side' = side /\ idx_head' = idx_head
      BY <1>6, <3>1
    <3>3. PICK w : OnLine(s, u + 1, w) /\ line' = LineAt(s, u + 1, w) /\ DrawnTo(s, u + 1, buff')
      BY <2>5, <3>1
    <3>4. \A m \in Nat : idx_head = 3 * m => m = n
      BY <1>3
    <3>5. \A m, k : SideAt(m, k)' = SideAt(m, k)
      BY <1>10, SameSides
    <3>6. \A m \in Nat : idx_head' = 3 * m =>
             \E a, b : /\ OnLine(SideAt(m, side'), a, b)
                       /\ line' = LineAt(SideAt(m, side'), a, b)
                       /\ DrawnTo(SideAt(m, side'), a, buff')
      BY <3>2, <3>3, <3>4
    <3> QED  BY <1>10, <3>6 DEF LineGoes, SideAt
  <2> QED  BY <2>6, <2>7, <2>8
<1>12. BuffInv'
  <2>1. AllWithin' => AllWithin
    BY <1>10, SameSides
  <2>2. NearSides(buff') => NearSides(buff)'
    BY <1>10, SameSides DEF NearSides
  <2>3. DrawnSides(idx_head' + side', buff') => DrawnSides(idx_head + side, buff)'
    BY <1>10, SameSides DEF DrawnSides
  <2> QED  BY <1>11, <2>1, <2>2, <2>3 DEF BuffInv
<1> QED  BY <1>8, <1>9, <1>12

LEMMA EndsKeeps ==
    ASSUME RenderInv, RenderEnds
    PROVE  LoopInv' /\ BuffInv' /\ ScreenInv'
<1>1. /\ drawing /\ ~line.on /\ ~MoreTriangles /\ ~drawing' /\ screen' = buff
      /\ app' = app /\ frame' = frame /\ indices' = indices /\ vertices' = vertices /\ done' = done
      /\ line' = line
  BY DEF RenderEnds, meshVars
<1>2. side = 0 /\ frame > 0
  BY <1>1 DEF RenderInv, LoopInv
<1>3. PICK n \in Nat : idx_head = 3 * n
  BY <1>1 DEF RenderInv, LoopInv
<1>4. LoopInv'
  <2>1. Built' <=> Built
    BY <1>1 DEF Built
  <2> QED  BY <1>1, <1>2, <2>1 DEF RenderInv, LoopInv
<1>5. BuffInv'
  BY <1>1 DEF BuffInv
<1>6. UNCHANGED <<app, frame, indices>>
  BY <1>1
<1>7. ASSUME AllWithin PROVE NearSides(buff) /\ DrawnSides(3 * Shown, buff)
  <2>1. NearSides(buff) /\ DrawnSides(idx_head + side, buff)
    BY <1>1, <1>7 DEF RenderInv, BuffInv
  <2>. DEFINE m == app.frames[frame].num_idx
  <2>2. m \in Nat /\ Shown = m \div 3
    BY <1>2, ShownIs DEF RenderInv, Shown
  <2>3. ~(3 * n + 2 < m)
    BY <1>1, <1>3 DEF MoreTriangles
  <2>. HIDE DEF m
  <2>4. Shown \in Nat /\ 3 * Shown <= idx_head + side
    BY <1>2, <1>3, <2>2, <2>3
  <2>5. idx_head + side \in Int
    BY <1>2, <1>3
  <2>6. \A i \in 0..Shown-1, k \in 0..2 : 3 * i + k < 3 * Shown => 3 * i + k < idx_head + side
    BY <2>4, <2>5
  <2> QED  BY <2>1, <2>6 DEF DrawnSides
<1>8. ScreenInv'
  <2>1. AllWithin' => AllWithin
    BY <1>6, SameSides
  <2>2. NearSides(buff) => NearSides(screen)'
    BY <1>1, <1>6, SameSides DEF NearSides
  <2>3. DrawnSides(3 * Shown, buff) => DrawnSides(3 * Shown, screen)'
    BY <1>1, <1>6, SameSides DEF DrawnSides
  <2> QED  BY <1>7, <2>1, <2>2, <2>3 DEF ScreenInv
<1> QED  BY <1>4, <1>5, <1>8

LEMMA RenderStep == RenderInv /\ [RenderNext]_renderVars => RenderInv'
<1> SUFFICES ASSUME RenderInv, [RenderNext]_renderVars PROVE RenderInv'
  OBVIOUS
<1>1. MeshInv'
  BY MeshStep DEF RenderInv
<1>2. LoopInv' /\ BuffInv' /\ ScreenInv'
  <2>1. CASE Build
    BY <2>1, BuildKeeps
  <2>2. CASE RenderBegins
    BY <2>2, BeginsKeeps
  <2>3. CASE LineBegins
    BY <2>3, LineKeeps
  <2>4. CASE LinePixel
    BY <2>4, PixelKeeps
  <2>5. CASE RenderEnds
    BY <2>5, EndsKeeps
  <2>6. CASE UNCHANGED renderVars
    <3>1. /\ vertices' = vertices /\ indices' = indices /\ app' = app /\ done' = done
          /\ frame' = frame /\ drawing' = drawing /\ idx_head' = idx_head /\ side' = side
          /\ line' = line /\ buff' = buff /\ screen' = screen
      BY <2>6 DEF renderVars, meshVars, frameVars
    <3>2. LoopInv'
      BY <3>1 DEF RenderInv, LoopInv, Built, MoreTriangles
    <3>3. /\ AllWithin' <=> AllWithin
          /\ NearSides(buff)' <=> NearSides(buff)
          /\ NearSides(screen)' <=> NearSides(screen)
      BY <3>1, SameSides DEF NearSides
    <3>4. /\ DrawnSides(idx_head + side, buff)' <=> DrawnSides(idx_head + side, buff)
          /\ DrawnSides(3 * Shown, screen)' <=> DrawnSides(3 * Shown, screen)
      BY <3>1, SameSides DEF DrawnSides
    <3>5. LineGoes' <=> LineGoes
      BY <3>1, SameSides DEF LineGoes
    <3>6. BuffInv'
      BY <3>1, <3>3, <3>4, <3>5 DEF RenderInv, BuffInv
    <3>7. ScreenInv'
      BY <3>1, <3>3, <3>4 DEF RenderInv, ScreenInv
    <3> QED  BY <3>2, <3>6, <3>7
  <2> QED  BY <2>1, <2>2, <2>3, <2>4, <2>5, <2>6 DEF RenderNext
<1> QED  BY <1>1, <1>2 DEF RenderInv

\* Whatever the screen, the mesh and the points, after a frame whose sides the parameters can
\* hold the display shows its sides, each over its whole length and no pixel more than half a
\* step beside it, and nothing else (app.c:388-454).
THEOREM FramesShown == RenderSpec => []FrameShown
<1>1. RenderInv => FrameShown
  BY InvShows
<1> QED  BY <1>1, RenderStarts, RenderStep, PTL DEF RenderSpec
=============================================================================
