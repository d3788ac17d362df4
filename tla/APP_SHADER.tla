----------------------------- MODULE APP_SHADER -----------------------------
(***************************************************************************)
(* The vertex shader of the application (app.c): the program it uploads,   *)
(* the constants it writes before every frame, and the points it gets.     *)
(***************************************************************************)
EXTENDS GPPCU_TASKS

\* Addresses of the constants, and offsets in the space of a task.
COFST_FLOAT_ONE            == 1
COFST_WIDTH_HALF           == 14
COFST_HEIGHT_HALF          == 15
COFST_MAT4_WORLD_VIEW_PROJ == 16
OFST_VEC3_VTEX_INPUT       == 1
OFST_VECI4_VTEX_OUTPUT     == OFST_VEC3_VTEX_INPUT + 3
OFST_TABLE                 == OFST_VECI4_VTEX_OUTPUT + 4
TASK_SPACE                 == 12

gp_ldl(rd, ofst)    == Word32("LDL", FALSE, rd, 0, REGPIVOT, ofst)
gp_stl(ra, ofst)    == Word32("STL", FALSE, 0, ra, REGPIVOT, ofst)
gp_ldci(rd, addr)   == Word32("LDCI", FALSE, rd, 0, 0, addr)
gp_mvi(rd, imm)     == Word32("MVI", FALSE, rd, 0, 0, imm)
gp_adi(rd, ra, imm) == Word32("ADI", FALSE, rd, ra, 0, imm)
gp_fp(op, rd, ra, rb) == Word32(op, FALSE, rd, ra, rb, 0)

\* Registers: the vertex in rx.. (0, 1, 2 and the one in 3), then these.
acc    == 4
calc   == 5
loader == 6

\* Mutant of Term: the matrix is read along its rows.
Term_Transposed(col, row) ==
    << gp_ldci(loader, COFST_MAT4_WORLD_VIEW_PROJ + 4 * col + row),
       gp_fp("FMUL", calc, row, loader),
       gp_adi(loader, acc, 0),
       gp_fp("FADD", acc, loader, calc) >>

\* One term of a component of the product.
Term(col, row) ==
    << gp_ldci(loader, COFST_MAT4_WORLD_VIEW_PROJ + col + 4 * row),
       gp_fp("FMUL", calc, row, loader),
       gp_adi(loader, acc, 0),
       gp_fp("FADD", acc, loader, calc) >>

Component(col) ==
    <<gp_mvi(acc, 0)>> \o Term(col, 0) \o Term(col, 1) \o Term(col, 2) \o Term(col, 3)
        \o <<gp_stl(acc, OFST_TABLE + col)>>

\* Register reg takes component k and moves it to the middle of the screen.
ToScreen(reg, k, half) ==
    << gp_ldl(reg, OFST_TABLE + k), gp_ldci(acc, half),
       gp_fp("FADD", calc, acc, reg), gp_fp("FTOI", acc, calc, 0),
       gp_stl(acc, OFST_VECI4_VTEX_OUTPUT + k) >>

VertexShader ==
    << gp_stl(REGPIVOT, 0), gp_ldl(0, OFST_VEC3_VTEX_INPUT),
       gp_ldl(1, OFST_VEC3_VTEX_INPUT + 1), gp_ldl(2, OFST_VEC3_VTEX_INPUT + 2),
       gp_ldci(3, COFST_FLOAT_ONE) >>
    \o Component(0) \o Component(1) \o Component(2) \o Component(3)
    \o ToScreen(0, 0, COFST_WIDTH_HALF) \o ToScreen(1, 1, COFST_HEIGHT_HALF)

\* What app_upload_object_constant writes: 16 words of matrix, the halves of the screen's
\* width and height, and the one.
ObjectConstant(matrix, w, h, one) ==
    [a \in {COFST_FLOAT_ONE, COFST_WIDTH_HALF, COFST_HEIGHT_HALF}
             \cup COFST_MAT4_WORLD_VIEW_PROJ..COFST_MAT4_WORLD_VIEW_PROJ+15 |->
        CASE a = COFST_FLOAT_ONE   -> one
          [] a = COFST_WIDTH_HALF  -> w
          [] a = COFST_HEIGHT_HALF -> h
          [] OTHER                 -> matrix[a - COFST_MAT4_WORLD_VIEW_PROJ + 1]]

\* The job of the main loop for a mesh with these vertices.
ShaderJob(vertices, frames, capacity) ==
    [program |-> VertexShader, mtaskmem |-> TASK_SPACE, elements |-> vertices,
     ofst_in |-> OFST_VEC3_VTEX_INPUT, out |-> 3, ofst_out |-> OFST_VECI4_VTEX_OUTPUT,
     capacity |-> capacity, constants |-> frames]

-----------------------------------------------------------------------------
Plus(x, y) == FpuQ("FADD", x, y)

\* Component col of vertex v, with one behind it, times the matrix; floating point sums
\* depend on their order, which is that of the rows.
Product(v, const, col) ==
    LET v4 == Append(v, const[COFST_FLOAT_ONE])
        term(row) == FpuQ("FMUL", v4[row + 1], const[COFST_MAT4_WORLD_VIEW_PROJ + col + 4 * row])
    IN  Plus(Plus(Plus(Plus(0, term(0)), term(1)), term(2)), term(3))

OnScreen(half, q) == FpuQ("FTOI", FpuQ("FADD", half, q), 0)

\* What is drawn in a frame are the vertices under the matrix of that frame, moved to the
\* middle of the screen: the program is uploaded once and every frame rewrites the
\* constants and reads words that the frame before has used (app.c:244-386, main.c:131-250,
\* where the same is computed by the processor under "What it should be").
VerticesTransformed ==
    (at = "drawn" /\ Fits /\ job.program = VertexShader) =>
        \A n \in 1..Len(dst) :
            LET v == job.elements[n]
                const == job.constants[frame]
            IN  /\ dst[n][1] = OnScreen(const[COFST_WIDTH_HALF], Product(v, const, 0))
                /\ dst[n][2] = OnScreen(const[COFST_HEIGHT_HALF], Product(v, const, 1))

\* The application's jobs with this program are those of its main loop: vertices of three
\* words, and constants for every word that the program reads.
ShaderJobs ==
    \A j \in Job : j.program = VertexShader =>
        /\ j.mtaskmem = TASK_SPACE /\ j.ofst_in = OFST_VEC3_VTEX_INPUT
        /\ j.out = 3 /\ j.ofst_out = OFST_VECI4_VTEX_OUTPUT
        /\ \A k \in 1..Len(j.elements) : Len(j.elements[k]) = 3
        /\ \A f \in 1..Len(j.constants) :
              {COFST_FLOAT_ONE, COFST_WIDTH_HALF, COFST_HEIGHT_HALF}
                \cup COFST_MAT4_WORLD_VIEW_PROJ..COFST_MAT4_WORLD_VIEW_PROJ+15
                  \subseteq DOMAIN j.constants[f]
=============================================================================
