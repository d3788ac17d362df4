------------------------- MODULE GPPCU_TASKS_proofs -------------------------
(***************************************************************************)
(* A run of the device, with its lanes, its banks and its bubbles, does to *)
(* every task what the program does to it alone, and the results come back *)
(* in the order of the tasks: for every number of threads, tasks, words    *)
(* and instructions.                                                       *)
(*                                                                         *)
(* The argument goes from the inside out.  One word on the bank of a lane  *)
(* does to the lane what the word of the program does to the task alone    *)
(* (LaneInStep), and nothing to the other lanes, whose registers are on    *)
(* other banks and whose words are in other rows (StayAlike, RowsApart).   *)
(* So a block brings each lane one instruction further (BlockStep), the    *)
(* prologue gives the lanes their pivots (PrologueStep), and the words of  *)
(* a layout are these one behind the other (WordStep).  The invariant of   *)
(* the specification, TasksInv, says where in the layout the device is.    *)
(*                                                                         *)
(* The second half says what the shader of the application does to a task  *)
(* alone (ShaderIs): its pieces one behind the other, a term, a component, *)
(* a coordinate moved to the screen.  With the constants of the frame in   *)
(* the device (ConstantsWritten) and the points of the mesh in front of    *)
(* the shader on every frame (PointsPut), the results are the vertices     *)
(* under the matrix of the frame (VerticesAlwaysTransformed).              *)
(***************************************************************************)
EXTENDS APP_SHADER, GPPCU_PROGRAM_proofs

-----------------------------------------------------------------------------
(* One word on one thread.                                                 *)

Consts == [0..NumConst-1 -> Word]

IsThread(thr) ==
    thr.regs \in [Reg -> Word] /\ thr.mem \in [0..MemDepth-1 -> Word] /\ thr.sreg.c \in BOOLEAN

\* A word that the layout of a confined program may hold.
Fine(w) ==
    /\ w \in LaidWord /\ w.rd \in Reg /\ w.ra \in Reg /\ w.rb \in Reg /\ w.imm \in Word
    /\ w.s => w.op = "ADI"
    /\ w.op = "LDCI" => w.imm \in 0..NumConst-1

LEMMA Sizes ==
    /\ MemDepth \in Nat \ {0} /\ DataSize \in Nat \ {0} /\ MemDepth < DataSize
    /\ Word = 0..DataSize-1 /\ 0 \in Word /\ NumConst = 32 /\ Reg = 0..31
    /\ mnumthr \in Nat \ {0} /\ Thread = 0..mnumthr-1
BY JobAssumption, Numbers DEF Word, NumConst

LEMMA ModWord == ASSUME NEW x \in Nat PROVE x % DataSize \in Word /\ x % MemDepth \in 0..MemDepth-1
<1>1. DataSize \in Nat \ {0} /\ MemDepth \in Nat \ {0} /\ Word = 0..DataSize-1
  BY Sizes
<1> QED  BY <1>1

LEMMA ModSmall == ASSUME NEW n \in Nat, NEW x \in 0..n-1 PROVE x % n = x
OBVIOUS

\* The parts of what a word does.
LEMMA EffectIs ==
    ASSUME NEW thr, NEW const, NEW w, w.cond = "ALWAYS"
    PROVE  /\ RegWr(w) => Effect(thr, const, w).regs =
                             [thr.regs EXCEPT ![w.rd] = Result(thr, const, w)]
           /\ ~RegWr(w) => Effect(thr, const, w).regs = thr.regs
           /\ w.op \in CW_LMEM_WR =>
                 Effect(thr, const, w).mem =
                    [thr.mem EXCEPT ![Address(thr, const, w)] = A(thr, w)]
           /\ w.op \notin CW_LMEM_WR => Effect(thr, const, w).mem = thr.mem
           /\ w.s => Effect(thr, const, w).sreg =
                       AluSreg(CW_ALOPC(w.op), A(thr, w), B(thr, const, w), thr.sreg.c)
           /\ ~w.s => Effect(thr, const, w).sreg = thr.sreg
<1>. DEFINE q == Result(thr, const, w)
            x == Address(thr, const, w)
            a == A(thr, w)
            f == AluSreg(CW_ALOPC(w.op), A(thr, w), B(thr, const, w), thr.sreg.c)
<1>1. Effect(thr, const, w) =
         [regs |-> IF RegWr(w) THEN [thr.regs EXCEPT ![w.rd] = q] ELSE thr.regs,
          mem  |-> IF w.op \in CW_LMEM_WR THEN [thr.mem EXCEPT ![x] = a] ELSE thr.mem,
          sreg |-> IF w.s THEN f ELSE thr.sreg]
  BY DEF Effect, oVALID
<1>. HIDE DEF q, x, a, f
<1>2. /\ Effect(thr, const, w).regs = IF RegWr(w) THEN [thr.regs EXCEPT ![w.rd] = q] ELSE thr.regs
      /\ Effect(thr, const, w).mem =
            IF w.op \in CW_LMEM_WR THEN [thr.mem EXCEPT ![x] = a] ELSE thr.mem
      /\ Effect(thr, const, w).sreg = IF w.s THEN f ELSE thr.sreg
  BY <1>1
<1> QED  BY <1>2, Zenon DEF q, x, a, f

\* Operand B of an operation.
LEMMA OperandB ==
    ASSUME NEW thr, NEW const, NEW w
    PROVE  /\ w.op \in {"ADI", "SBI", "MVI"} => B(thr, const, w) = w.imm
           /\ w.op = "LDCI" => B(thr, const, w) = const[w.imm]
           /\ w.op \notin {"ADI", "SBI", "MVI", "LDCI"} =>
                 B(thr, const, w) = (thr.regs[w.rb] + w.imm) % DataSize
BY DEF B, CW_BSEL

LEMMA OperandInWord ==
    ASSUME NEW thr, IsThread(thr), NEW const \in Consts, NEW w, Fine(w)
    PROVE  A(thr, w) \in Word /\ B(thr, const, w) \in Word
           /\ Address(thr, const, w) \in 0..MemDepth-1
<1>1. A(thr, w) \in Word /\ thr.regs[w.rb] \in Word
  BY DEF A, IsThread, Fine
<1>2. Word \subseteq Nat
  BY Sizes
<1>3. B(thr, const, w) \in Word
  <2>1. CASE w.op \in {"ADI", "SBI", "MVI"}
    BY <2>1, OperandB DEF Fine
  <2>2. CASE w.op = "LDCI"
    BY <2>2, OperandB DEF Fine, Consts
  <2>3. CASE w.op \notin {"ADI", "SBI", "MVI", "LDCI"}
    <3>0. thr.regs[w.rb] \in Nat /\ w.imm \in Nat
      BY <1>1, <1>2 DEF Fine
    <3>1. thr.regs[w.rb] + w.imm \in Nat
      BY <3>0
    <3> QED  BY <2>3, <3>1, OperandB, ModWord
  <2> QED  BY <2>1, <2>2, <2>3
<1> QED  BY <1>1, <1>2, <1>3, ModWord DEF Address

LEMMA ResultInWord ==
    ASSUME UnitsCompute, NEW thr, IsThread(thr), NEW const \in Consts, NEW w, Fine(w), RegWr(w)
    PROVE  Result(thr, const, w) \in Word
<1>1. /\ A(thr, w) \in Word /\ B(thr, const, w) \in Word
      /\ Address(thr, const, w) \in 0..MemDepth-1
  BY OperandInWord
<1>2. CASE w.op \in CW_LMEM_RD
  BY <1>1, <1>2 DEF Result, IsThread
<1>3. CASE w.op \notin CW_LMEM_RD /\ FpOp(w)
  BY <1>1, <1>3 DEF Result, UnitsCompute, FpOp
<1>4. CASE w.op \notin CW_LMEM_RD /\ ~FpOp(w)
  <2>1. w.op \in CW_ALOP
    BY <1>4 DEF RegWr, CW_REGWR, Opcode, CW_LMEM_RD, FpOp, CW_FPOP, CW_ALOP
  <2>2. thr.sreg.c \in BOOLEAN
    BY DEF IsThread
  <2> QED  BY <1>1, <1>4, <2>1, <2>2 DEF Result, UnitsCompute
<1> QED  BY <1>2, <1>3, <1>4

\* A thread stays a thread.
LEMMA EffectKeeps ==
    ASSUME UnitsCompute, NEW thr, IsThread(thr), NEW const \in Consts, NEW w, Fine(w)
    PROVE  IsThread(Effect(thr, const, w))
<1>. DEFINE e == Effect(thr, const, w)
<1>1. w.cond = "ALWAYS"
  BY DEF Fine, LaidWord
<1>2. /\ A(thr, w) \in Word /\ B(thr, const, w) \in Word
      /\ Address(thr, const, w) \in 0..MemDepth-1
  BY OperandInWord
<1>. DEFINE q == Result(thr, const, w)
            x == Address(thr, const, w)
            y == A(thr, w)
            f == AluSreg(CW_ALOPC(w.op), A(thr, w), B(thr, const, w), thr.sreg.c)
<1>3. /\ RegWr(w) => e.regs = [thr.regs EXCEPT ![w.rd] = q]
      /\ ~RegWr(w) => e.regs = thr.regs
      /\ w.op \in CW_LMEM_WR => e.mem = [thr.mem EXCEPT ![x] = y]
      /\ w.op \notin CW_LMEM_WR => e.mem = thr.mem
      /\ w.s => e.sreg = f
      /\ ~w.s => e.sreg = thr.sreg
  BY <1>1, EffectIs
<1>4. RegWr(w) => q \in Word
  BY ResultInWord
<1>5. x \in 0..MemDepth-1 /\ y \in Word
  BY <1>2
<1>6. w.s => f.c \in BOOLEAN
  <2> SUFFICES ASSUME w.s PROVE f.c \in BOOLEAN
    OBVIOUS
  <2>1. w.op = "ADI" /\ thr.sreg.c \in BOOLEAN
    BY DEF Fine, IsThread
  <2>2. CW_ALOPC(w.op) = "ADI"
    BY <2>1 DEF CW_ALOPC
  <2> QED  BY <1>2, <2>1, <2>2 DEF UnitsCompute
<1>. HIDE DEF e, q, x, y, f
<1>7. e.regs \in [Reg -> Word]
  BY <1>3, <1>4 DEF IsThread
<1>8. e.mem \in [0..MemDepth-1 -> Word]
  BY <1>3, <1>5 DEF IsThread
<1>9. e.sreg.c \in BOOLEAN
  <2>1. CASE w.s
    BY <1>3, <1>6, <2>1
  <2>2. CASE ~w.s
    <3>1. e.sreg = thr.sreg
      BY <1>3, <2>2
    <3> QED  BY <3>1 DEF IsThread
  <2> QED  BY <2>1, <2>2
<1> QED  BY <1>7, <1>8, <1>9 DEF IsThread, e

-----------------------------------------------------------------------------
(* One word on the bank of a lane, and the same word for the task alone.   *)

\* An instruction of a confined program that may read the registers in K.
Keeps(i, K, m) ==
    /\ i \in SourceWord /\ ~i.s /\ i.imm < DataSize
    /\ Sources(i) \subseteq K
    /\ RegWr(i) => i.rd # REGPIVOT
    /\ i.op \in CW_LMEM_RD \cup CW_LMEM_WR => i.rb = REGPIVOT /\ i.imm < m
    /\ i.op = "LDCI" => i.imm \in 1..NumConst-1

\* Lane p of a thread, whose space begins at base, stands where the task alone does: on the
\* registers in K, in the space, and without a carry.
Alike(thr, lone, p, K, base, m) ==
    /\ IsThread(thr) /\ IsThread(lone) /\ ~thr.sreg.c /\ ~lone.sreg.c
    /\ K \subseteq Bank /\ REGPIVOT \in K /\ lone.regs[REGPIVOT] = base
    /\ base \in Nat /\ m \in Nat /\ base + m <= MemDepth
    /\ \A r \in K : thr.regs[r + 10 * p] = lone.regs[r]
    /\ \A a \in 0..m-1 : thr.mem[base + a] = lone.mem[base + a]

\* Constant memories that differ in the offset of the task cycle only.
SameConsts(c1, c2) ==
    c1 \in Consts /\ c2 \in Consts /\ \A a \in 1..NumConst-1 : c1[a] = c2[a]

LEMMA SourceFine ==
    ASSUME NEW K, NEW m, NEW i, Keeps(i, K, m), NEW p \in 0..2
    PROVE  /\ Fine(i) /\ Fine(OnBank(i, p))
           /\ i.rd \in 0..9 /\ i.ra \in 0..9 /\ i.rb \in 0..9
<1>1. i.rd \in 0..9 /\ i.ra \in 0..9 /\ i.rb \in 0..9 /\ i.imm \in Nat /\ i.op \in Opcode
      /\ i.cond = "ALWAYS" /\ ~i.s
  <2>1. Bank = 0..9
    BY Numbers DEF Bank
  <2> QED  BY <2>1 DEF Keeps, SourceWord
<1>2. Reg = 0..31 /\ i.imm \in Word /\ (i.op = "LDCI" => i.imm \in 0..NumConst-1)
  BY <1>1, Sizes DEF Keeps
<1>3. i \in LaidWord
  <2>1. Bank \subseteq Nat
    BY Numbers DEF Bank
  <2> QED  BY <2>1 DEF Keeps, SourceWord, LaidWord
<1>4. Fine(i)
  BY <1>1, <1>2, <1>3 DEF Fine
<1>. DEFINE w == OnBank(i, p)
<1>5. /\ w \in LaidWord /\ w.op = i.op /\ w.s = i.s /\ w.imm = i.imm
      /\ w.rd \in {i.rd, i.rd + p * 10} /\ w.ra \in {i.ra, i.ra + p * 10}
      /\ w.rb \in {i.rb, i.rb + p * 10}
  BY OnBankIs DEF Keeps
<1>6. \A r \in 0..9 : r \in Reg /\ r + p * 10 \in Reg
  BY <1>2
<1>. HIDE DEF w
<1>7. w.rd \in Reg /\ w.ra \in Reg /\ w.rb \in Reg
  BY <1>1, <1>5, <1>6
<1>8. Fine(w)
  BY <1>1, <1>2, <1>5, <1>7 DEF Fine
<1> QED  BY <1>1, <1>4, <1>8 DEF w

LEMMA SameOperands ==
    ASSUME NEW thr, NEW lone, NEW p \in 0..2, NEW K, NEW base, NEW m,
           Alike(thr, lone, p, K, base, m), NEW c1, NEW c2, SameConsts(c1, c2),
           NEW i, Keeps(i, K, m)
    PROVE  /\ i.op \in CW_USEREGA => A(thr, OnBank(i, p)) = A(lone, i)
           /\ i.op \in CW_USEREGB \cup {"ADI", "SBI", "MVI", "LDCI"} =>
                 B(thr, c1, OnBank(i, p)) = B(lone, c2, i)
<1>. DEFINE w == OnBank(i, p)
<1>1. /\ w.op = i.op /\ w.imm = i.imm
      /\ w.ra = IF i.op \in instr_userega THEN i.ra + p * 10 ELSE i.ra
      /\ w.rb = IF i.op \in instr_useregb THEN i.rb + p * 10 ELSE i.rb
  BY OnBankIs DEF Keeps
<1>2. CW_USEREGA \subseteq instr_userega /\ CW_USEREGB = instr_useregb
  BY DEF CW_USEREGA, CW_USEREGB, instr_userega, instr_useregb
<1>. HIDE DEF w
<1>3. \A r \in K : thr.regs[r + p * 10] = lone.regs[r]
  <2>1. \A r \in K : r + p * 10 = r + 10 * p
    OBVIOUS
  <2> QED  BY <2>1 DEF Alike
<1>4. ASSUME i.op \in CW_USEREGA PROVE A(thr, w) = A(lone, i)
  <2>1. i.ra \in K
    BY <1>4 DEF Keeps, Sources
  <2>2. w.ra = i.ra + p * 10
    BY <1>1, <1>2, <1>4
  <2> QED  BY <1>3, <2>1, <2>2 DEF A
<1>5. ASSUME i.op \in CW_USEREGB PROVE B(thr, c1, w) = B(lone, c2, i)
  <2>1. i.rb \in K
    BY <1>5 DEF Keeps, Sources
  <2>2. w.rb = i.rb + p * 10
    BY <1>1, <1>2, <1>5
  <2>3. thr.regs[w.rb] = lone.regs[i.rb]
    BY <1>3, <2>1, <2>2
  <2>4. i.op \notin {"ADI", "SBI", "MVI", "LDCI"}
    BY <1>5 DEF CW_USEREGB
  <2>5. B(thr, c1, w) = (thr.regs[w.rb] + w.imm) % DataSize
    BY <1>1, <2>4, OperandB
  <2>6. B(lone, c2, i) = (lone.regs[i.rb] + i.imm) % DataSize
    BY <2>4, OperandB
  <2> QED  BY <1>1, <2>3, <2>5, <2>6
<1>6. ASSUME i.op \in {"ADI", "SBI", "MVI"} PROVE B(thr, c1, w) = B(lone, c2, i)
  BY <1>1, <1>6, OperandB
<1>7. ASSUME i.op = "LDCI" PROVE B(thr, c1, w) = B(lone, c2, i)
  <2>1. c1[i.imm] = c2[i.imm]
    BY <1>7 DEF Keeps, SameConsts
  <2> QED  BY <1>1, <1>7, <2>1, OperandB
<1> QED  BY <1>4, <1>5, <1>6, <1>7 DEF w

\* A load or a store meets the word of the space that it names, in the lane and alone.
Meets(thr, lone, p, base, m, c1, c2, i) ==
    /\ i.imm \in 0..m-1
    /\ Address(lone, c2, i) = base + i.imm
    /\ Address(thr, c1, OnBank(i, p)) = base + i.imm

LEMMA SameAddress ==
    ASSUME NEW thr, NEW lone, NEW p \in 0..2, NEW K, NEW base, NEW m,
           Alike(thr, lone, p, K, base, m), NEW c1, NEW c2, SameConsts(c1, c2),
           NEW i, Keeps(i, K, m)
    PROVE  i.op \in CW_LMEM_RD \cup CW_LMEM_WR => Meets(thr, lone, p, base, m, c1, c2, i)
<1>. SUFFICES ASSUME i.op \in CW_LMEM_RD \cup CW_LMEM_WR
              PROVE  Meets(thr, lone, p, base, m, c1, c2, i)
  OBVIOUS
<1>1. i.rb = REGPIVOT /\ i.imm < m /\ i.imm \in Nat
  BY DEF Keeps, SourceWord
<1>2. i.op \in CW_USEREGB /\ i.op \notin {"ADI", "SBI", "MVI", "LDCI"}
  BY DEF CW_LMEM_RD, CW_LMEM_WR, CW_USEREGB
<1>3. lone.regs[REGPIVOT] = base /\ base \in Nat /\ m \in Nat /\ base + m <= MemDepth
  BY DEF Alike
<1>4. B(lone, c2, i) = (base + i.imm) % DataSize
  BY <1>1, <1>2, <1>3, OperandB
<1>5. base + i.imm \in 0..DataSize-1 /\ base + i.imm \in 0..MemDepth-1
  BY <1>1, <1>3, Sizes
<1>6. (base + i.imm) % DataSize = base + i.imm /\ (base + i.imm) % MemDepth = base + i.imm
  BY <1>5, ModSmall, Sizes
<1>7. B(lone, c2, i) = base + i.imm /\ B(thr, c1, OnBank(i, p)) = base + i.imm
  BY <1>2, <1>4, <1>6, SameOperands
<1> QED  BY <1>1, <1>3, <1>6, <1>7 DEF Address, Meets

LEMMA SameResult ==
    ASSUME UnitsCompute,
           NEW thr, NEW lone, NEW p \in 0..2, NEW K, NEW base, NEW m,
           Alike(thr, lone, p, K, base, m), NEW c1, NEW c2, SameConsts(c1, c2),
           NEW i, Keeps(i, K, m), RegWr(i)
    PROVE  Result(thr, c1, OnBank(i, p)) = Result(lone, c2, i)
<1>. DEFINE w == OnBank(i, p)
            a1 == A(thr, w)
            b1 == B(thr, c1, w)
            a2 == A(lone, i)
            b2 == B(lone, c2, i)
<1>1. w.op = i.op
  BY OnBankIs DEF Keeps
<1>2. a1 \in Word /\ b1 \in Word /\ a2 \in Word /\ b2 \in Word
  <2>1. Fine(i) /\ Fine(w)
    BY SourceFine
  <2>2. IsThread(thr) /\ IsThread(lone) /\ c1 \in Consts /\ c2 \in Consts
    BY DEF Alike, SameConsts
  <2>. HIDE DEF w
  <2> QED  BY <2>1, <2>2, OperandInWord
<1>3. /\ i.op \in CW_USEREGA => a1 = a2
      /\ i.op \in CW_USEREGB \cup {"ADI", "SBI", "MVI", "LDCI"} => b1 = b2
  BY SameOperands
<1>4. thr.sreg.c = FALSE /\ lone.sreg.c = FALSE
  BY DEF Alike, IsThread
<1>5. ASSUME i.op \in CW_LMEM_RD PROVE Result(thr, c1, w) = Result(lone, c2, i)
  <2>1. /\ i.imm \in 0..m-1 /\ Address(lone, c2, i) = base + i.imm
        /\ Address(thr, c1, w) = base + i.imm
    <3>1. i.op \in CW_LMEM_RD \cup CW_LMEM_WR
      BY <1>5
    <3>2. i.op \in CW_LMEM_RD \cup CW_LMEM_WR => Meets(thr, lone, p, base, m, c1, c2, i)
      BY SameAddress
    <3> QED  BY <3>1, <3>2 DEF Meets
  <2>2. thr.mem[base + i.imm] = lone.mem[base + i.imm]
    BY <2>1 DEF Alike
  <2>. HIDE DEF w
  <2>3. Result(thr, c1, w) = thr.mem[base + i.imm]
    BY <1>1, <1>5, <2>1 DEF Result
  <2>4. Result(lone, c2, i) = lone.mem[base + i.imm]
    BY <1>5, <2>1 DEF Result
  <2> QED  BY <2>2, <2>3, <2>4
<1>. HIDE DEF w, a1, a2, b1, b2
<1>6. ASSUME i.op \notin CW_LMEM_RD, FpOp(i) PROVE Result(thr, c1, w) = Result(lone, c2, i)
  <2>1. Result(thr, c1, w) = FpuQ(i.op, a1, b1) /\ Result(lone, c2, i) = FpuQ(i.op, a2, b2)
    BY <1>1, <1>6 DEF Result, FpOp, a1, b1, a2, b2
  <2>2. CASE i.op \in {"ITOF", "FTOI", "FSQRT"}
    <3>1. i.op \in CW_USEREGA
      BY <2>2 DEF CW_USEREGA
    <3>2. FpuQ(i.op, a1, b1) = FpuQ(i.op, a1, 0) /\ FpuQ(i.op, a2, b2) = FpuQ(i.op, a2, 0)
      BY <1>2, <2>2 DEF UnitsCompute
    <3> QED  BY <1>3, <2>1, <3>1, <3>2
  <2>3. CASE i.op \notin {"ITOF", "FTOI", "FSQRT"}
    <3>1. i.op \in CW_USEREGA /\ i.op \in CW_USEREGB
      BY <1>6, <2>3 DEF FpOp, CW_FPOP, RegWr, CW_REGWR, CW_USEREGA, CW_USEREGB
    <3> QED  BY <1>3, <2>1, <3>1
  <2> QED  BY <2>2, <2>3
<1>7. ASSUME i.op \notin CW_LMEM_RD, ~FpOp(i) PROVE Result(thr, c1, w) = Result(lone, c2, i)
  <2>. DEFINE op == CW_ALOPC(i.op)
  <2>1. /\ Result(thr, c1, w) = AluQ(op, a1, b1, FALSE)
        /\ Result(lone, c2, i) = AluQ(op, a2, b2, FALSE)
    BY <1>1, <1>4, <1>7 DEF Result, FpOp, a1, b1, a2, b2
  <2>2. i.op \in CW_ALOP
    BY <1>7 DEF RegWr, CW_REGWR, Opcode, CW_LMEM_RD, FpOp, CW_FPOP, CW_ALOP
  <2>3. CASE i.op \in {"MOV", "MVI", "LDCI"}
    <3>1. op = "MOV" /\ b1 = b2
      BY <1>3, <2>3 DEF CW_ALOPC, CW_USEREGB
    <3>2. AluQ("MOV", a1, b1, FALSE) = b1 /\ AluQ("MOV", a2, b2, FALSE) = b2
      BY <1>2 DEF UnitsCompute
    <3>. HIDE DEF op
    <3> QED  BY <2>1, <3>1, <3>2
  <2>4. CASE i.op = "MVN"
    <3>1. op = "MVN" /\ b1 = b2
      BY <1>3, <2>4 DEF CW_ALOPC, CW_USEREGB
    <3>2. /\ AluQ("MVN", a1, b1, FALSE) = AluQ("MVN", 0, b1, FALSE)
          /\ AluQ("MVN", a2, b2, FALSE) = AluQ("MVN", 0, b2, FALSE)
      BY <1>2 DEF UnitsCompute
    <3>. HIDE DEF op
    <3> QED  BY <2>1, <3>1, <3>2
  <2>5. CASE i.op \in {"LSL", "LSR", "ASR"}
    <3>1. op = i.op /\ a1 = a2
      BY <1>3, <2>5 DEF CW_ALOPC, CW_USEREGA
    <3>2. /\ AluQ(i.op, a1, b1, FALSE) = AluQ(i.op, a1, 0, FALSE)
          /\ AluQ(i.op, a2, b2, FALSE) = AluQ(i.op, a2, 0, FALSE)
      <4>1. FALSE \in BOOLEAN
        OBVIOUS
      <4>2. /\ \A o \in {"LSL", "LSR", "ASR"} : AluQ(o, a1, b1, FALSE) = AluQ(o, a1, 0, FALSE)
            /\ \A o \in {"LSL", "LSR", "ASR"} : AluQ(o, a2, b2, FALSE) = AluQ(o, a2, 0, FALSE)
        BY <1>2, <4>1 DEF UnitsCompute
      <4> QED  BY <2>5, <4>2
    <3>. HIDE DEF op
    <3> QED  BY <2>1, <3>1, <3>2
  <2>6. CASE i.op \in {"ADC", "SBC", "AND", "ORR", "XOR", "ADI", "SBI"}
    <3>1. a1 = a2 /\ b1 = b2
      BY <1>3, <2>6 DEF CW_USEREGA, CW_USEREGB
    <3> QED  BY <2>1, <3>1
  <2> QED  BY <2>2, <2>3, <2>4, <2>5, <2>6 DEF CW_ALOP
<1> QED  BY <1>5, <1>6, <1>7 DEF w

-----------------------------------------------------------------------------
(* Lane and task in step.                                                  *)

\* The register that a word gives a value.
Got(i) == {r \in {i.rd} : RegWr(i)}

\* The lane of a thread and the task alone put the same into the same place.
InStep(thr, lone, e, l, i, p, base, m) ==
    /\ e.sreg = thr.sreg /\ l.sreg = lone.sreg
    /\ RegWr(i) => \E q \in Word : /\ e.regs = [thr.regs EXCEPT ![i.rd + 10 * p] = q]
                                   /\ l.regs = [lone.regs EXCEPT ![i.rd] = q]
    /\ ~RegWr(i) => e.regs = thr.regs /\ l.regs = lone.regs
    /\ i.op \in CW_LMEM_WR =>
          \E a \in 0..m-1 : \E y \in Word : /\ e.mem = [thr.mem EXCEPT ![base + a] = y]
                                            /\ l.mem = [lone.mem EXCEPT ![base + a] = y]
    /\ i.op \notin CW_LMEM_WR => e.mem = thr.mem /\ l.mem = lone.mem

LEMMA LaneInStep ==
    ASSUME UnitsCompute,
           NEW thr, NEW lone, NEW p \in 0..2, NEW K, NEW base, NEW m,
           Alike(thr, lone, p, K, base, m), NEW c1, NEW c2, SameConsts(c1, c2),
           NEW i, Keeps(i, K, m)
    PROVE  InStep(thr, lone, Effect(thr, c1, OnBank(i, p)), Effect(lone, c2, i), i, p, base, m)
<1>. DEFINE w == OnBank(i, p)
            e == Effect(thr, c1, w)
            l == Effect(lone, c2, i)
            q == Result(lone, c2, i)
            y == A(lone, i)
            x == base + i.imm
<1>1. /\ w.op = i.op /\ ~w.s /\ ~i.s /\ w.cond = "ALWAYS" /\ i.cond = "ALWAYS"
      /\ i.op \in instr_useregd => w.rd = i.rd + p * 10
      /\ i.rd \in 0..9
  <2>1. /\ w.op = i.op /\ w.s = i.s /\ w \in LaidWord
        /\ w.rd = IF i.op \in instr_useregd THEN i.rd + p * 10 ELSE i.rd
    BY OnBankIs DEF Keeps
  <2>2. i.rd \in 0..9
    BY SourceFine
  <2>3. ~i.s /\ i.cond = "ALWAYS"
    BY DEF Keeps, SourceWord
  <2>. HIDE DEF w
  <2> QED  BY <2>1, <2>2, <2>3 DEF LaidWord
<1>2. (RegWr(i) <=> RegWr(w)) /\ (RegWr(i) => i.op \in instr_useregd)
  BY <1>1 DEF RegWr, CW_REGWR, instr_useregd
<1>3. RegWr(i) => Result(thr, c1, w) = q /\ q \in Word
  <2> SUFFICES ASSUME RegWr(i) PROVE Result(thr, c1, w) = q /\ q \in Word
    OBVIOUS
  <2>1. Result(thr, c1, w) = q
    BY SameResult
  <2>2. Fine(i)
    BY SourceFine
  <2>3. IsThread(lone) /\ c2 \in Consts
    BY DEF Alike, SameConsts
  <2>4. q \in Word
    BY <2>2, <2>3, ResultInWord
  <2> QED  BY <2>1, <2>4
<1>4. i.op \in CW_LMEM_WR =>
         /\ A(thr, w) = y /\ y \in Word /\ i.imm \in 0..m-1
         /\ Address(thr, c1, w) = x /\ Address(lone, c2, i) = x
  <2> SUFFICES ASSUME i.op \in CW_LMEM_WR
               PROVE  /\ A(thr, w) = y /\ y \in Word /\ i.imm \in 0..m-1
                      /\ Address(thr, c1, w) = x /\ Address(lone, c2, i) = x
    OBVIOUS
  <2>1. i.op \in CW_USEREGA /\ i.op \in CW_LMEM_RD \cup CW_LMEM_WR
    BY DEF CW_LMEM_WR, CW_USEREGA
  <2>2. A(thr, w) = y
    <3>1. i.op \in CW_USEREGA => A(thr, w) = y
      BY SameOperands
    <3> QED  BY <2>1, <3>1
  <2>3. y \in Word
    <3>1. Fine(i)
      BY SourceFine
    <3>2. IsThread(lone) /\ c2 \in Consts
      BY DEF Alike, SameConsts
    <3> QED  BY <3>1, <3>2, OperandInWord
  <2>4. Meets(thr, lone, p, base, m, c1, c2, i)
    <3>1. i.op \in CW_LMEM_RD \cup CW_LMEM_WR => Meets(thr, lone, p, base, m, c1, c2, i)
      BY SameAddress
    <3> QED  BY <2>1, <3>1
  <2> QED  BY <2>2, <2>3, <2>4 DEF Meets
<1>. HIDE DEF w
<1>5. /\ RegWr(w) => e.regs = [thr.regs EXCEPT ![w.rd] = Result(thr, c1, w)]
      /\ ~RegWr(w) => e.regs = thr.regs
      /\ w.op \in CW_LMEM_WR => e.mem = [thr.mem EXCEPT ![Address(thr, c1, w)] = A(thr, w)]
      /\ w.op \notin CW_LMEM_WR => e.mem = thr.mem
      /\ ~w.s => e.sreg = thr.sreg
  BY <1>1, EffectIs
<1>6. /\ RegWr(i) => l.regs = [lone.regs EXCEPT ![i.rd] = Result(lone, c2, i)]
      /\ ~RegWr(i) => l.regs = lone.regs
      /\ i.op \in CW_LMEM_WR => l.mem = [lone.mem EXCEPT ![Address(lone, c2, i)] = A(lone, i)]
      /\ i.op \notin CW_LMEM_WR => l.mem = lone.mem
      /\ ~i.s => l.sreg = lone.sreg
  BY <1>1, EffectIs
<1>. HIDE DEF e, l, q, y
<1>7. RegWr(i) => /\ e.regs = [thr.regs EXCEPT ![i.rd + 10 * p] = q]
                  /\ l.regs = [lone.regs EXCEPT ![i.rd] = q]
  <2>1. i.rd + p * 10 = i.rd + 10 * p
    BY <1>1
  <2> QED  BY <1>1, <1>2, <1>3, <1>5, <1>6, <2>1 DEF q
<1>8. i.op \in CW_LMEM_WR => /\ e.mem = [thr.mem EXCEPT ![x] = y]
                             /\ l.mem = [lone.mem EXCEPT ![x] = y]
  BY <1>1, <1>4, <1>5, <1>6 DEF y
<1>9. InStep(thr, lone, e, l, i, p, base, m)
  <2>1. e.sreg = thr.sreg /\ l.sreg = lone.sreg
    BY <1>1, <1>5, <1>6
  <2>2. ~RegWr(i) => e.regs = thr.regs /\ l.regs = lone.regs
    BY <1>2, <1>5, <1>6
  <2>3. i.op \notin CW_LMEM_WR => e.mem = thr.mem /\ l.mem = lone.mem
    BY <1>1, <1>5, <1>6
  <2>4. RegWr(i) => \E v \in Word : /\ e.regs = [thr.regs EXCEPT ![i.rd + 10 * p] = v]
                                    /\ l.regs = [lone.regs EXCEPT ![i.rd] = v]
    BY <1>3, <1>7
  <2>5. i.op \in CW_LMEM_WR =>
           \E a \in 0..m-1 : \E v \in Word : /\ e.mem = [thr.mem EXCEPT ![base + a] = v]
                                             /\ l.mem = [lone.mem EXCEPT ![base + a] = v]
    BY <1>4, <1>8
  <2> QED  BY <2>1, <2>2, <2>3, <2>4, <2>5 DEF InStep
<1> QED  BY <1>9 DEF e, l, w

LEMMA StayAlike ==
    ASSUME NEW thr, NEW lone, NEW p \in 0..2, NEW K, NEW base, NEW m,
           Alike(thr, lone, p, K, base, m), NEW i, Keeps(i, K, m), NEW e, NEW l,
           IsThread(e), IsThread(l), InStep(thr, lone, e, l, i, p, base, m)
    PROVE  Alike(e, l, p, K \cup Got(i), base, m)
<1>1. /\ ~e.sreg.c /\ ~l.sreg.c
      /\ REGPIVOT \in K \cup Got(i) /\ K \cup Got(i) \subseteq Bank
      /\ base \in Nat /\ m \in Nat /\ base + m <= MemDepth
  <2>1. i.rd \in Bank
    BY DEF Keeps, SourceWord
  <2>2. Got(i) \subseteq Bank
    BY <2>1 DEF Got
  <2> QED  BY <2>2 DEF Alike, InStep
<1>2. \A r \in Bank : r \in 0..9 /\ r \in Reg /\ r + 10 * p \in Reg
  <2>1. Bank = 0..9 /\ Reg = 0..31
    BY Numbers, Sizes DEF Bank
  <2> QED  BY <2>1
<1>3. /\ thr.regs \in [Reg -> Word] /\ lone.regs \in [Reg -> Word]
      /\ thr.mem \in [0..MemDepth-1 -> Word] /\ lone.mem \in [0..MemDepth-1 -> Word]
      /\ K \subseteq Bank /\ REGPIVOT \in K /\ lone.regs[REGPIVOT] = base
      /\ \A r \in K : thr.regs[r + 10 * p] = lone.regs[r]
      /\ \A a \in 0..m-1 : thr.mem[base + a] = lone.mem[base + a]
  BY DEF Alike, IsThread
<1>4. /\ l.regs[REGPIVOT] = base
      /\ \A r \in K \cup Got(i) : e.regs[r + 10 * p] = l.regs[r]
  <2>1. CASE ~RegWr(i)
    <3>1. e.regs = thr.regs /\ l.regs = lone.regs
      BY <2>1 DEF InStep
    <3>2. Got(i) = {}
      BY <2>1 DEF Got
    <3> QED  BY <1>3, <3>1, <3>2
  <2>2. CASE RegWr(i)
    <3>1. PICK q \in Word : /\ e.regs = [thr.regs EXCEPT ![i.rd + 10 * p] = q]
                            /\ l.regs = [lone.regs EXCEPT ![i.rd] = q]
      BY <2>2 DEF InStep
    <3>2. i.rd \in Bank /\ i.rd # REGPIVOT
      BY <2>2 DEF Keeps, SourceWord
    <3>3. Got(i) = {i.rd}
      BY <2>2 DEF Got
    <3>4. l.regs[REGPIVOT] = base
      BY <1>2, <1>3, <3>1, <3>2
    <3>5. \A r \in K : r # i.rd => e.regs[r + 10 * p] = l.regs[r]
      <4> SUFFICES ASSUME NEW r \in K, r # i.rd PROVE e.regs[r + 10 * p] = l.regs[r]
        OBVIOUS
      <4>1. r \in Bank /\ r \in 0..9 /\ i.rd \in 0..9 /\ r \in Reg /\ r + 10 * p \in Reg
        BY <1>2, <1>3, <3>2
      <4>2. r + 10 * p # i.rd + 10 * p
        BY <4>1
      <4>3. e.regs[r + 10 * p] = thr.regs[r + 10 * p] /\ l.regs[r] = lone.regs[r]
        BY <1>3, <3>1, <4>1, <4>2
      <4> QED  BY <1>3, <4>3
    <3>6. e.regs[i.rd + 10 * p] = q /\ l.regs[i.rd] = q
      <4>1. i.rd \in Reg /\ i.rd + 10 * p \in Reg
        BY <1>2, <3>2
      <4> QED  BY <1>3, <3>1, <4>1
    <3> QED  BY <3>3, <3>4, <3>5, <3>6
  <2> QED  BY <2>1, <2>2
<1>5. \A a \in 0..m-1 : e.mem[base + a] = l.mem[base + a]
  <2>1. CASE i.op \notin CW_LMEM_WR
    <3>1. e.mem = thr.mem /\ l.mem = lone.mem
      BY <2>1 DEF InStep
    <3> QED  BY <1>3, <3>1
  <2>2. CASE i.op \in CW_LMEM_WR
    <3>1. PICK s \in 0..m-1 : \E y \in Word : /\ e.mem = [thr.mem EXCEPT ![base + s] = y]
                                              /\ l.mem = [lone.mem EXCEPT ![base + s] = y]
      BY <2>2 DEF InStep
    <3>2. PICK y \in Word : /\ e.mem = [thr.mem EXCEPT ![base + s] = y]
                            /\ l.mem = [lone.mem EXCEPT ![base + s] = y]
      BY <3>1
    <3> SUFFICES ASSUME NEW a \in 0..m-1 PROVE e.mem[base + a] = l.mem[base + a]
      OBVIOUS
    <3>3. base + a \in 0..MemDepth-1 /\ base + s \in 0..MemDepth-1
      BY <1>1, Sizes
    <3>4. CASE base + a = base + s
      BY <1>3, <3>2, <3>3, <3>4
    <3>5. CASE base + a # base + s
      BY <1>3, <3>2, <3>3, <3>5
    <3> QED  BY <3>4, <3>5
  <2> QED  BY <2>1, <2>2
<1> QED  BY <1>1, <1>4, <1>5 DEF Alike

\* The other lanes of the thread do not notice.
LEMMA OthersAlike ==
    ASSUME NEW thr, NEW lone, NEW p \in 0..2, NEW K, NEW base, NEW m,
           Alike(thr, lone, p, K, base, m), NEW i, Keeps(i, K, m), NEW e, NEW l,
           IsThread(e), InStep(thr, lone, e, l, i, p, base, m),
           NEW lone2, NEW p2 \in 0..2, NEW K2, NEW base2, p2 # p,
           Alike(thr, lone2, p2, K2, base2, m), base + m <= base2 \/ base2 + m <= base
    PROVE  Alike(e, lone2, p2, K2, base2, m)
<1>1. \A r \in Bank : r \in 0..9 /\ r \in Reg /\ r + 10 * p \in Reg /\ r + 10 * p2 \in Reg
  <2>1. Bank = 0..9 /\ Reg = 0..31
    BY Numbers, Sizes DEF Bank
  <2> QED  BY <2>1
<1>2. /\ thr.regs \in [Reg -> Word] /\ thr.mem \in [0..MemDepth-1 -> Word]
      /\ K2 \subseteq Bank
      /\ \A r \in K2 : thr.regs[r + 10 * p2] = lone2.regs[r]
      /\ \A a \in 0..m-1 : thr.mem[base2 + a] = lone2.mem[base2 + a]
      /\ base \in Nat /\ base2 \in Nat /\ m \in Nat
      /\ base + m <= MemDepth /\ base2 + m <= MemDepth
  BY DEF Alike, IsThread
<1>3. \A r \in K2 : e.regs[r + 10 * p2] = lone2.regs[r]
  <2>1. CASE ~RegWr(i)
    <3>1. e.regs = thr.regs
      BY <2>1 DEF InStep
    <3> QED  BY <1>2, <3>1
  <2>2. CASE RegWr(i)
    <3>1. PICK q \in Word : e.regs = [thr.regs EXCEPT ![i.rd + 10 * p] = q]
      BY <2>2 DEF InStep
    <3>2. i.rd \in Bank
      BY DEF Keeps, SourceWord
    <3> SUFFICES ASSUME NEW r \in K2 PROVE e.regs[r + 10 * p2] = lone2.regs[r]
      OBVIOUS
    <3>3. r \in 0..9 /\ i.rd \in 0..9 /\ r + 10 * p2 \in Reg
      BY <1>1, <1>2, <3>2
    <3>4. r + 10 * p2 # i.rd + 10 * p
      BY <3>3
    <3>5. e.regs[r + 10 * p2] = thr.regs[r + 10 * p2]
      BY <1>2, <3>1, <3>3, <3>4
    <3> QED  BY <1>2, <3>5
  <2> QED  BY <2>1, <2>2
<1>4. \A a \in 0..m-1 : e.mem[base2 + a] = lone2.mem[base2 + a]
  <2>1. CASE i.op \notin CW_LMEM_WR
    <3>1. e.mem = thr.mem
      BY <2>1 DEF InStep
    <3> QED  BY <1>2, <3>1
  <2>2. CASE i.op \in CW_LMEM_WR
    <3>1. PICK s \in 0..m-1 : \E y \in Word : e.mem = [thr.mem EXCEPT ![base + s] = y]
      BY <2>2 DEF InStep
    <3>2. PICK y \in Word : e.mem = [thr.mem EXCEPT ![base + s] = y]
      BY <3>1
    <3> SUFFICES ASSUME NEW a \in 0..m-1 PROVE e.mem[base2 + a] = lone2.mem[base2 + a]
      OBVIOUS
    <3>0. /\ base \in Nat /\ base2 \in Nat /\ m \in Nat /\ MemDepth \in Nat
          /\ base2 + m <= MemDepth
      BY <1>2, Sizes
    <3>3. base2 + a # base + s /\ base2 + a \in 0..MemDepth-1
      BY <3>0
    <3>4. e.mem[base2 + a] = thr.mem[base2 + a]
      BY <1>2, <3>2, <3>3
    <3> QED  BY <1>2, <3>4
  <2> QED  BY <2>1, <2>2
<1> QED  BY <1>3, <1>4 DEF Alike, InStep

\* Nor does the memory outside the space.
LEMMA OutsideStays ==
    ASSUME NEW thr, NEW lone, NEW p, NEW K, NEW base, NEW m,
           Alike(thr, lone, p, K, base, m), NEW i, NEW e, NEW l,
           InStep(thr, lone, e, l, i, p, base, m)
    PROVE  /\ \A a \in 0..MemDepth-1 : a \notin base..base+m-1 => e.mem[a] = thr.mem[a]
           /\ e.sreg = thr.sreg
<1>1. thr.mem \in [0..MemDepth-1 -> Word] /\ base \in Nat /\ m \in Nat
  BY DEF Alike, IsThread
<1>2. \A a \in 0..MemDepth-1 : a \notin base..base+m-1 => e.mem[a] = thr.mem[a]
  <2>1. CASE i.op \notin CW_LMEM_WR
    BY <2>1 DEF InStep
  <2>2. CASE i.op \in CW_LMEM_WR
    <3>1. PICK s \in 0..m-1 : \E y \in Word : e.mem = [thr.mem EXCEPT ![base + s] = y]
      BY <2>2 DEF InStep
    <3>2. PICK y \in Word : e.mem = [thr.mem EXCEPT ![base + s] = y]
      BY <3>1
    <3>3. base + s \in base..base+m-1
      BY <1>1
    <3> QED  BY <1>1, <3>2, <3>3
  <2> QED  BY <2>1, <2>2
<1> QED  BY <1>2 DEF InStep

\* A bubble does nothing.
LEMMA BubbleIs ==
    ASSUME NEW thr, NEW const, NEW w, w.op = "NOP", ~w.s, w.cond = "ALWAYS"
    PROVE  /\ Effect(thr, const, w).regs = thr.regs /\ Effect(thr, const, w).mem = thr.mem
           /\ Effect(thr, const, w).sreg = thr.sreg
<1>1. ~RegWr(w) /\ w.op \notin CW_LMEM_WR
  BY DEF RegWr, CW_REGWR, CW_LMEM_WR
<1>2. Effect(thr, const, w) = [regs |-> thr.regs, mem |-> thr.mem, sreg |-> thr.sreg]
  BY <1>1 DEF Effect, oVALID
<1> QED  BY <1>2

-----------------------------------------------------------------------------
(* The task alone.                                                         *)

\* The function that Steps chooses exists, so that it follows the words one by one.
StepsTo(f, thr, const, prog, n) ==
    f = [k \in 0..n |-> IF k = 0 THEN thr ELSE Effect(f[k - 1], const, prog[k])]

LEMMA StepsExist ==
    ASSUME NEW thr, NEW const, NEW prog, NEW n \in Nat
    PROVE  \E f : StepsTo(f, thr, const, prog, n)
<1>. DEFINE Bad == {k \in 0..n : ~\E f : StepsTo(f, thr, const, prog, k)}
<1> SUFFICES ASSUME Bad # {} PROVE FALSE
  OBVIOUS
<1>1. PICK k \in Bad : \A l \in Bad : k <= l
  <2>1. Bad \subseteq Nat
    OBVIOUS
  <2>. HIDE DEF Bad
  <2> QED  BY <2>1, Least
<1>2. k # 0
  <2>1. StepsTo([j \in 0..0 |-> thr], thr, const, prog, 0)
    <3>. DEFINE f == [j \in 0..0 |-> thr]
    <3>1. \A j \in 0..0 : (IF j = 0 THEN thr ELSE Effect(f[j - 1], const, prog[j])) = thr
      OBVIOUS
    <3> QED  BY <3>1 DEF StepsTo
  <2> QED  BY <2>1
<1>3. PICK f : StepsTo(f, thr, const, prog, k - 1)
  <2>1. k - 1 \in 0..n /\ ~(k <= k - 1)
    BY <1>2
  <2> QED  BY <1>1, <2>1
<1>. DEFINE e == Effect(f[k - 1], const, prog[k])
            g == [j \in 0..k |-> IF j \in 0..k-1 THEN f[j] ELSE e]
<1>4. StepsTo(g, thr, const, prog, k)
  <2>0. k \in Nat /\ k > 0
    BY <1>2
  <2>1. \A j \in 0..k-1 : f[j] = IF j = 0 THEN thr ELSE Effect(f[j - 1], const, prog[j])
    BY <1>3 DEF StepsTo
  <2>2. \A j \in 0..k : g[j] = IF j = 0 THEN thr ELSE Effect(g[j - 1], const, prog[j])
    <3> SUFFICES ASSUME NEW j \in 0..k
                 PROVE  g[j] = IF j = 0 THEN thr ELSE Effect(g[j - 1], const, prog[j])
      OBVIOUS
    <3>1. CASE j \in 0..k-1
      <4>1. g[j] = f[j]
        BY <3>1
      <4>2. j # 0 => g[j - 1] = f[j - 1]
        BY <2>0, <3>1
      <4> QED  BY <2>1, <3>1, <4>1, <4>2
    <3>2. CASE j = k
      <4>1. g[k - 1] = f[k - 1]
        BY <2>0
      <4>2. g[k] = e
        BY <2>0
      <4> QED  BY <2>0, <3>2, <4>1, <4>2
    <3> QED  BY <2>0, <3>1, <3>2
  <2>3. DOMAIN g = 0..k /\ g = [j \in 0..k |-> g[j]]
    OBVIOUS
  <2>. HIDE DEF g
  <2> QED  BY <2>2, <2>3 DEF StepsTo
<1> QED  BY <1>1, <1>4

LEMMA StepsAre ==
    ASSUME NEW thr, NEW const, NEW prog, Len(prog) \in Nat
    PROVE  /\ Steps(thr, const, prog)[0] = thr
           /\ \A k \in 1..Len(prog) : Steps(thr, const, prog)[k] =
                 Effect(Steps(thr, const, prog)[k - 1], const, prog[k])
<1>. DEFINE n == Len(prog)
            c == CHOOSE f : f = [k \in 0..n |-> IF k = 0 THEN thr
                                                ELSE Effect(f[k - 1], const, prog[k])]
<1>1. Steps(thr, const, prog) = c
  BY DEF Steps
<1>2. StepsTo(c, thr, const, prog, n)
  <2>1. \E f : f = [k \in 0..n |-> IF k = 0 THEN thr ELSE Effect(f[k - 1], const, prog[k])]
    <3>1. \E f : StepsTo(f, thr, const, prog, n)
      BY StepsExist
    <3> QED  BY <3>1 DEF StepsTo
  <2> QED  BY <2>1 DEF StepsTo
<1>. HIDE DEF c
<1>3. \A k \in 0..n : c[k] = IF k = 0 THEN thr ELSE Effect(c[k - 1], const, prog[k])
  BY <1>2 DEF StepsTo
<1> QED  BY <1>1, <1>3

\* A program that keeps to itself, word by word.
LEMMA KnownIs ==
    ASSUME NEW prog \in Seq(SourceWord)
    PROVE  /\ Known(prog, 0) = {REGPIVOT}
           /\ \A k \in 1..Len(prog) : Known(prog, k) = Known(prog, k - 1) \cup Got(prog[k])
<1>1. Known(prog, 0) = {REGPIVOT}
  BY DEF Known
<1>2. ASSUME NEW k \in 1..Len(prog)
      PROVE  Known(prog, k) = Known(prog, k - 1) \cup Got(prog[k])
  <2>1. k \in Nat /\ k >= 1
    OBVIOUS
  <2>2. {l \in 1..k : RegWr(prog[l])} =
           {l \in 1..k-1 : RegWr(prog[l])} \cup {l \in {k} : RegWr(prog[l])}
    BY <2>1
  <2>3. \A r : r \in Known(prog, k) <=> r \in Known(prog, k - 1) \cup Got(prog[k])
    BY <2>2 DEF Known, Got
  <2> QED  BY <2>3
<1> QED  BY <1>1, <1>2

LEMMA ConfinedKeeps ==
    ASSUME NEW prog, NEW m, Confined(prog, m), NEW k \in 1..Len(prog)
    PROVE  Keeps(prog[k], Known(prog, k - 1), m)
<1>1. prog[k] \in SourceWord
  BY DEF Confined
<1> QED  BY <1>1 DEF Confined, Keeps

\* A thread that a confined program leaves: its pivot and its carry stay.
Plain(l, base) == IsThread(l) /\ ~l.sreg.c /\ l.regs[REGPIVOT] = base

LEMMA StayPlain ==
    ASSUME UnitsCompute, NEW l, NEW base, Plain(l, base), NEW const \in Consts,
           NEW K, NEW m, NEW i, Keeps(i, K, m)
    PROVE  Plain(Effect(l, const, i), base)
<1>. DEFINE e == Effect(l, const, i)
            q == Result(l, const, i)
<1>1. Fine(i) /\ i.cond = "ALWAYS" /\ ~i.s
  <2>1. 0 \in 0..2
    OBVIOUS
  <2>2. Fine(i)
    BY <2>1, SourceFine
  <2> QED  BY <2>2 DEF Keeps, SourceWord
<1>2. IsThread(l)
  BY DEF Plain
<1>3. IsThread(e)
  BY <1>1, <1>2, EffectKeeps
<1>4. /\ RegWr(i) => e.regs = [l.regs EXCEPT ![i.rd] = q]
      /\ ~RegWr(i) => e.regs = l.regs
      /\ i.op \in CW_LMEM_WR => e.mem = [l.mem EXCEPT ![Address(l, const, i)] = A(l, i)]
      /\ i.op \notin CW_LMEM_WR => e.mem = l.mem
      /\ i.s => e.sreg = AluSreg(CW_ALOPC(i.op), A(l, i), B(l, const, i), l.sreg.c)
      /\ ~i.s => e.sreg = l.sreg
  BY <1>1, EffectIs
<1>. HIDE DEF e, q
<1>5. e.regs[REGPIVOT] = l.regs[REGPIVOT]
  <2>1. RegWr(i) => i.rd # REGPIVOT
    BY DEF Keeps
  <2>2. l.regs \in [Reg -> Word] /\ REGPIVOT \in Reg
    BY <1>2, Numbers, Sizes DEF IsThread
  <2>3. CASE RegWr(i)
    <3>1. e.regs = [l.regs EXCEPT ![i.rd] = q] /\ i.rd # REGPIVOT
      BY <1>4, <2>1, <2>3
    <3> QED  BY <2>2, <3>1
  <2>4. CASE ~RegWr(i)
    BY <1>4, <2>4
  <2> QED  BY <2>3, <2>4
<1>6. e.sreg = l.sreg
  BY <1>1, <1>4
<1> QED  BY <1>3, <1>5, <1>6 DEF Plain, e

LEMMA AlonePlain ==
    ASSUME UnitsCompute, NEW prog, NEW m, Confined(prog, m), NEW thr, NEW base,
           Plain(thr, base), NEW const \in Consts
    PROVE  \A k \in 0..Len(prog) : Plain(Steps(thr, const, prog)[k], base)
<1>. DEFINE n == Len(prog)
            f == Steps(thr, const, prog)
            Bad == {k \in 0..n : ~Plain(f[k], base)}
<1>0. n \in Nat
  BY DEF Confined
<1>1. f[0] = thr /\ \A k \in 1..n : f[k] = Effect(f[k - 1], const, prog[k])
  BY <1>0, StepsAre
<1>. HIDE DEF f
<1>2. SUFFICES ASSUME Bad # {} PROVE FALSE
  BY DEF f
<1>3. PICK k \in Bad : \A j \in Bad : k <= j
  <2>1. Bad \subseteq Nat
    OBVIOUS
  <2>. HIDE DEF Bad
  <2> QED  BY <1>2, <2>1, Least
<1>4. k # 0
  BY <1>1
<1>5. k \in 1..n /\ k - 1 \in 0..n /\ ~(k <= k - 1)
  BY <1>0, <1>4
<1>6. Plain(f[k - 1], base)
  BY <1>3, <1>5
<1>7. Keeps(prog[k], Known(prog, k - 1), m)
  BY <1>5, ConfinedKeeps
<1>8. Plain(Effect(f[k - 1], const, prog[k]), base)
  BY <1>6, <1>7, StayPlain
<1> QED  BY <1>1, <1>3, <1>5, <1>8

\* The word with the offset of the task cycle is not for the program.
LEMMA SameEffect ==
    ASSUME NEW l, NEW c1, NEW c2, SameConsts(c1, c2), NEW K, NEW m, NEW i, Keeps(i, K, m)
    PROVE  Effect(l, c1, i) = Effect(l, c2, i)
<1>1. B(l, c1, i) = B(l, c2, i)
  <2>1. CASE i.op \in {"ADI", "SBI", "MVI"}
    BY <2>1, OperandB
  <2>2. CASE i.op = "LDCI"
    <3>1. c1[i.imm] = c2[i.imm]
      BY <2>2 DEF Keeps, SameConsts
    <3> QED  BY <2>2, <3>1, OperandB
  <2>3. CASE i.op \notin {"ADI", "SBI", "MVI", "LDCI"}
    BY <2>3, OperandB
  <2> QED  BY <2>1, <2>2, <2>3
<1>2. Address(l, c1, i) = Address(l, c2, i)
  BY <1>1 DEF Address
<1>3. Result(l, c1, i) = Result(l, c2, i)
  BY <1>1, <1>2 DEF Result
<1> QED  BY <1>1, <1>2, <1>3 DEF Effect

LEMMA AloneSame ==
    ASSUME NEW prog, NEW m, Confined(prog, m), NEW thr, NEW c1, NEW c2, SameConsts(c1, c2)
    PROVE  \A k \in 0..Len(prog) : Steps(thr, c1, prog)[k] = Steps(thr, c2, prog)[k]
<1>. DEFINE n == Len(prog)
            f == Steps(thr, c1, prog)
            g == Steps(thr, c2, prog)
            Bad == {k \in 0..n : f[k] # g[k]}
<1>0. n \in Nat
  BY DEF Confined
<1>1. f[0] = thr /\ \A k \in 1..n : f[k] = Effect(f[k - 1], c1, prog[k])
  BY <1>0, StepsAre
<1>2. g[0] = thr /\ \A k \in 1..n : g[k] = Effect(g[k - 1], c2, prog[k])
  BY <1>0, StepsAre
<1>. HIDE DEF f, g
<1>3. SUFFICES ASSUME Bad # {} PROVE FALSE
  BY DEF f, g
<1>4. PICK k \in Bad : \A j \in Bad : k <= j
  <2>1. Bad \subseteq Nat
    OBVIOUS
  <2>. HIDE DEF Bad
  <2> QED  BY <1>3, <2>1, Least
<1>5. k # 0
  BY <1>1, <1>2
<1>6. k \in 1..n /\ k - 1 \in 0..n /\ ~(k <= k - 1)
  BY <1>0, <1>5
<1>7. f[k - 1] = g[k - 1]
  BY <1>4, <1>6
<1>8. Keeps(prog[k], Known(prog, k - 1), m)
  BY <1>6, ConfinedKeeps
<1>9. Effect(f[k - 1], c1, prog[k]) = Effect(f[k - 1], c2, prog[k])
  BY <1>8, SameEffect
<1> QED  BY <1>1, <1>2, <1>4, <1>6, <1>7, <1>9

-----------------------------------------------------------------------------
(* Rows: the tasks of a thread, one behind the other in its local memory.  *)

LEMMA Grows == ASSUME NEW x \in Nat, NEW y \in Nat, NEW m \in Nat, x <= y PROVE x * m <= y * m
OBVIOUS

LEMMA RowsApart ==
    ASSUME NEW u \in Nat, NEW v \in Nat, NEW m \in Nat, u # v
    PROVE  u * m \in Nat /\ v * m \in Nat /\ (u * m + m <= v * m \/ v * m + m <= u * m)
<1>1. (u + 1) * m = u * m + m /\ (v + 1) * m = v * m + m /\ u * m \in Nat /\ v * m \in Nat
  OBVIOUS
<1>2. CASE u < v
  <2>1. (u + 1) * m <= v * m
    BY <1>2, Grows
  <2> QED  BY <1>1, <2>1
<1>3. CASE v < u
  <2>1. (v + 1) * m <= u * m
    BY <1>3, Grows
  <2> QED  BY <1>1, <2>1
<1> QED  BY <1>1, <1>2, <1>3

LEMMA RowFits ==
    ASSUME NEW n \in Nat, NEW m \in Nat, NEW d \in Nat, n * (3 * m) <= d, NEW u \in 0..3*n-1
    PROVE  u * m \in Nat /\ u * m + m <= d
<1>1. (u + 1) * m <= (3 * n) * m
  BY Grows
<1>2. (3 * n) * m = n * (3 * m) /\ (u + 1) * m = u * m + m /\ u * m \in Nat
  OBVIOUS
<1>. DEFINE a == u * m
            b == (3 * n) * m
            c == (u + 1) * m
            f == n * (3 * m)
<1>3. c <= b /\ b = f /\ c = a + m /\ a \in Nat /\ f <= d /\ f \in Nat
  BY <1>1, <1>2
<1>. HIDE DEF a, b, c, f
<1>4. a \in Nat /\ a + m <= d
  BY <1>3
<1> QED  BY <1>4 DEF a

\* The task of row u when it runs alone.
Row(g, c, prog, m, u) == Steps(StartOf(u * m, g), c, prog)

\* What a run works on: the memory that was given to the thread, the constants, the program
\* and the size of a task, which of how many task cycles it is, and that they fit.
Running(g, c, prog, m, cyc, n) ==
    /\ g \in [0..MemDepth-1 -> Word] /\ c \in Consts /\ Confined(prog, m)
    /\ m \in Nat /\ n \in Nat /\ cyc \in 0..n-1 /\ n * (3 * m) <= MemDepth

LEMMA RowIs ==
    ASSUME UnitsCompute, NEW g, NEW c, NEW prog, NEW m, NEW cyc, NEW n,
           Running(g, c, prog, m, cyc, n), NEW u \in 0..3*n-1
    PROVE  /\ u * m \in Nat /\ u * m + m <= MemDepth
           /\ \A k \in 0..Len(prog) : Plain(Row(g, c, prog, m, u)[k], u * m)
           /\ Row(g, c, prog, m, u)[0] = StartOf(u * m, g)
           /\ \A k \in 1..Len(prog) : Row(g, c, prog, m, u)[k] =
                 Effect(Row(g, c, prog, m, u)[k - 1], c, prog[k])
<1>1. u * m \in Nat /\ u * m + m <= MemDepth
  <2>1. n \in Nat /\ m \in Nat /\ n * (3 * m) <= MemDepth /\ MemDepth \in Nat
    BY Sizes DEF Running
  <2> QED  BY <2>1, RowFits
<1>. DEFINE b == u * m
            thr == StartOf(b, g)
<1>. HIDE DEF b
<1>2. Plain(thr, b)
  <2>1. b \in Word /\ 0 \in Word
    <3>1. b \in Nat /\ m \in Nat /\ b + m <= MemDepth
      BY <1>1 DEF b, Running
    <3> QED  BY <3>1, Sizes
  <2>2. thr.regs \in [Reg -> Word] /\ thr.mem = g /\ thr.sreg = SregReset
    BY <2>1 DEF StartOf
  <2>3. thr.regs[REGPIVOT] = b
    <3>1. REGPIVOT \in Reg
      BY Numbers, Sizes
    <3> QED  BY <3>1 DEF StartOf
  <2>4. SregReset.c = FALSE
    BY DEF SregReset
  <2>. HIDE DEF thr
  <2> QED  BY <2>2, <2>3, <2>4 DEF Plain, IsThread, Running
<1>3. Confined(prog, m) /\ c \in Consts /\ Len(prog) \in Nat
  BY DEF Running, Confined
<1>. HIDE DEF thr
<1>4. \A k \in 0..Len(prog) : Plain(Steps(thr, c, prog)[k], b)
  BY <1>2, <1>3, AlonePlain
<1>5. /\ Steps(thr, c, prog)[0] = thr
      /\ \A k \in 1..Len(prog) : Steps(thr, c, prog)[k] =
            Effect(Steps(thr, c, prog)[k - 1], c, prog[k])
  BY <1>3, StepsAre
<1>6. Row(g, c, prog, m, u) = Steps(thr, c, prog)
  BY DEF Row, thr, b
<1> QED  BY <1>1, <1>4, <1>5, <1>6 DEF thr, b

\* The space of row u is as it is after d words of its task alone, and so is the bank of
\* lane p, which works on it.
Space(thr, g, c, prog, m, u, d) ==
    \A a \in 0..m-1 : thr.mem[u * m + a] = Row(g, c, prog, m, u)[d].mem[u * m + a]
LaneAt(thr, g, c, prog, m, u, p, d) ==
    Alike(thr, Row(g, c, prog, m, u)[d], p, Known(prog, d), u * m, m)

\* The tasks of the cycles before are done and those of the cycles to come as they were
\* given.
Others(thr, g, c, prog, m, cyc, n) ==
    /\ \A u \in 0..3*cyc-1 : Space(thr, g, c, prog, m, u, Len(prog))
    /\ \A u \in 3*cyc+3..3*n-1 : Space(thr, g, c, prog, m, u, 0)

\* Behind k instructions and j words of the next, which is one instruction further for the
\* lanes before j.
InBlock(thr, g, c, prog, m, cyc, n, k, j) ==
    /\ \A p \in 0..2 : LaneAt(thr, g, c, prog, m, 3 * cyc + p, p, IF j > p THEN k + 1 ELSE k)
    /\ Others(thr, g, c, prog, m, cyc, n)

\* A word that changes nothing on the thread changes nothing of all this.
LEMMA OthersStay ==
    ASSUME NEW thr, NEW e, e.mem = thr.mem, NEW g, NEW c, NEW prog, NEW m, NEW cyc, NEW n,
           Others(thr, g, c, prog, m, cyc, n)
    PROVE  Others(e, g, c, prog, m, cyc, n)
BY DEF Others, Space

\* The word of lane p brings that lane, and no other, one instruction further.
LEMMA LaneStep ==
    ASSUME UnitsCompute, NEW thr, NEW g, NEW c, NEW prog, NEW m, NEW cyc, NEW n,
           Running(g, c, prog, m, cyc, n), NEW k \in 1..Len(prog), NEW p \in 0..2,
           InBlock(thr, g, c, prog, m, cyc, n, k - 1, p)
    PROVE  InBlock(Effect(thr, c, OnBank(prog[k], p)), g, c, prog, m, cyc, n, k - 1, p + 1)
<1>. DEFINE i == prog[k]
            e == Effect(thr, c, OnBank(i, p))
            u == 3 * cyc + p
            lone == Row(g, c, prog, m, u)[k - 1]
            l == Effect(lone, c, i)
            K == Known(prog, k - 1)
            b == u * m
<1>1. /\ m \in Nat /\ n \in Nat /\ cyc \in Nat /\ prog \in Seq(SourceWord) /\ c \in Consts
      /\ Confined(prog, m) /\ 3 * cyc + 3 <= 3 * n /\ Len(prog) \in Nat
  BY DEF Running, Confined
<1>2. Keeps(i, K, m)
  BY <1>1, ConfinedKeeps
<1>3. \A v \in 0..3*n-1 : v * m \in Nat /\ v * m + m <= MemDepth
  BY RowIs
<1>4. /\ u \in 0..3*n-1 /\ k - 1 \in 0..Len(prog) /\ k \in 0..Len(prog) /\ k - 1 + 1 = k
      /\ ~(p > p) /\ p + 1 > p
  BY <1>1
<1>5. Plain(lone, b) /\ Row(g, c, prog, m, u)[k] = l
  <2>1. /\ \A d \in 0..Len(prog) : Plain(Row(g, c, prog, m, u)[d], b)
        /\ \A d \in 1..Len(prog) : Row(g, c, prog, m, u)[d] =
                 Effect(Row(g, c, prog, m, u)[d - 1], c, prog[d])
    BY <1>4, RowIs
  <2> QED  BY <1>4, <2>1
<1>6. Alike(thr, lone, p, K, b, m)
  BY <1>4 DEF InBlock, LaneAt
<1>7. SameConsts(c, c)
  BY <1>1 DEF SameConsts
<1>8. InStep(thr, lone, e, l, i, p, b, m)
  BY <1>2, <1>6, <1>7, LaneInStep
<1>9. IsThread(e) /\ IsThread(l)
  <2>1. IsThread(thr) /\ IsThread(lone)
    BY <1>6 DEF Alike
  <2>2. Fine(i) /\ Fine(OnBank(i, p))
    BY <1>2, SourceFine
  <2> QED  BY <1>1, <2>1, <2>2, EffectKeeps
<1>10. Known(prog, k) = K \cup Got(i)
  BY <1>1, KnownIs
<1>. HIDE DEF e, l, i, lone, K
<1>11. Alike(e, l, p, K \cup Got(i), b, m)
  BY <1>2, <1>6, <1>8, <1>9, StayAlike
<1>12. ASSUME NEW q \in 0..2, q # p
       PROVE  LaneAt(e, g, c, prog, m, 3 * cyc + q, q, IF p > q THEN k - 1 + 1 ELSE k - 1)
  <2>. DEFINE d == IF p > q THEN k - 1 + 1 ELSE k - 1
              v == 3 * cyc + q
              b2 == v * m
              lone2 == Row(g, c, prog, m, v)[d]
              K2 == Known(prog, d)
  <2>1. Alike(thr, lone2, q, K2, b2, m)
    BY DEF InBlock, LaneAt
  <2>2. b + m <= b2 \/ b2 + m <= b
    <3>1. u \in Nat /\ v \in Nat /\ u # v
      BY <1>1, <1>12
    <3> QED  BY <1>1, <3>1, RowsApart
  <2>. HIDE DEF d, lone2, K2, b2, b
  <2>3. Alike(e, lone2, q, K2, b2, m)
    BY <1>2, <1>6, <1>8, <1>9, <1>12, <2>1, <2>2, OthersAlike
  <2> QED  BY <2>3 DEF LaneAt, d, lone2, K2, b2
<1>13. \A q \in 0..2 :
          LaneAt(e, g, c, prog, m, 3 * cyc + q, q, IF p + 1 > q THEN k - 1 + 1 ELSE k - 1)
  <2> SUFFICES ASSUME NEW q \in 0..2
               PROVE  LaneAt(e, g, c, prog, m, 3 * cyc + q, q,
                             IF p + 1 > q THEN k - 1 + 1 ELSE k - 1)
    OBVIOUS
  <2>1. CASE q = p
    <3>1. LaneAt(e, g, c, prog, m, u, p, k)
      BY <1>5, <1>10, <1>11 DEF LaneAt
    <3> QED  BY <1>4, <2>1, <3>1
  <2>2. CASE q # p
    <3>1. (IF p + 1 > q THEN k - 1 + 1 ELSE k - 1) = (IF p > q THEN k - 1 + 1 ELSE k - 1)
      BY <2>2
    <3> QED  BY <1>12, <2>2, <3>1
  <2> QED  BY <2>1, <2>2
<1>14. /\ \A a \in 0..MemDepth-1 : a \notin b..b+m-1 => e.mem[a] = thr.mem[a]
       /\ e.sreg = thr.sreg
  BY <1>6, <1>8, OutsideStays
<1>15. ASSUME NEW v \in 0..3*n-1, v # u, NEW d, Space(thr, g, c, prog, m, v, d)
       PROVE  Space(e, g, c, prog, m, v, d)
  <2> SUFFICES ASSUME NEW a \in 0..m-1
               PROVE  e.mem[v * m + a] = Row(g, c, prog, m, v)[d].mem[v * m + a]
    BY DEF Space
  <2>1. b + m <= v * m \/ v * m + m <= b
    <3>1. u \in Nat /\ v \in Nat
      BY <1>1
    <3> QED  BY <1>1, <1>15, <3>1, RowsApart
  <2>. DEFINE b2 == v * m
  <2>2. b2 \in Nat /\ b2 + m <= MemDepth /\ b \in Nat /\ MemDepth \in Nat
    BY <1>3, <1>4, Sizes
  <2>3. b + m <= b2 \/ b2 + m <= b
    BY <2>1
  <2>. HIDE DEF b2, b
  <2>4. b2 + a \in 0..MemDepth-1 /\ b2 + a \notin b..b+m-1
    BY <1>1, <2>2, <2>3
  <2>5. e.mem[b2 + a] = thr.mem[b2 + a]
    BY <1>14, <2>4
  <2>6. thr.mem[b2 + a] = Row(g, c, prog, m, v)[d].mem[b2 + a]
    BY <1>15 DEF Space, b2
  <2> QED  BY <2>5, <2>6 DEF b2
<1>16. Others(e, g, c, prog, m, cyc, n)
  <2>1. \A v \in 0..3*cyc-1 : Space(e, g, c, prog, m, v, Len(prog))
    <3> SUFFICES ASSUME NEW v \in 0..3*cyc-1 PROVE Space(e, g, c, prog, m, v, Len(prog))
      OBVIOUS
    <3>1. v \in 0..3*n-1 /\ v # u
      BY <1>1
    <3>2. Space(thr, g, c, prog, m, v, Len(prog))
      BY DEF InBlock, Others
    <3> QED  BY <1>15, <3>1, <3>2
  <2>2. \A v \in 3*cyc+3..3*n-1 : Space(e, g, c, prog, m, v, 0)
    <3> SUFFICES ASSUME NEW v \in 3*cyc+3..3*n-1 PROVE Space(e, g, c, prog, m, v, 0)
      OBVIOUS
    <3>1. v \in 0..3*n-1 /\ v # u
      BY <1>1
    <3>2. Space(thr, g, c, prog, m, v, 0)
      BY DEF InBlock, Others
    <3> QED  BY <1>15, <3>1, <3>2
  <2> QED  BY <2>1, <2>2 DEF Others
<1> QED  BY <1>13, <1>16 DEF InBlock, e, i

LEMMA BubbleStep ==
    ASSUME NEW thr, NEW g, NEW c, NEW prog, NEW m, NEW cyc, NEW n, NEW k, NEW j,
           InBlock(thr, g, c, prog, m, cyc, n, k, j)
    PROVE  InBlock(Effect(thr, c, nop), g, c, prog, m, cyc, n, k, j)
<1>. DEFINE e == Effect(thr, c, nop)
<1>1. e.regs = thr.regs /\ e.mem = thr.mem /\ e.sreg = thr.sreg
  <2>1. nop.op = "NOP" /\ ~nop.s /\ nop.cond = "ALWAYS"
    BY DEF nop, Word32
  <2> QED  BY <2>1, BubbleIs
<1>. HIDE DEF e
<1>2. ASSUME NEW p \in 0..2
      PROVE  LaneAt(e, g, c, prog, m, 3 * cyc + p, p, IF j > p THEN k + 1 ELSE k)
  <2>1. LaneAt(thr, g, c, prog, m, 3 * cyc + p, p, IF j > p THEN k + 1 ELSE k)
    BY DEF InBlock
  <2> QED  BY <1>1, <2>1 DEF LaneAt, Alike, IsThread
<1>3. Others(e, g, c, prog, m, cyc, n)
  BY <1>1, OthersStay DEF InBlock
<1> QED  BY <1>2, <1>3 DEF InBlock, e

\* Behind the words of its lanes an instruction is done.
LEMMA LanesDone ==
    ASSUME NEW thr, NEW g, NEW c, NEW prog, NEW m, NEW cyc, NEW n, NEW k \in Nat, NEW j \in Nat,
           j >= 3, InBlock(thr, g, c, prog, m, cyc, n, k, j)
    PROVE  InBlock(thr, g, c, prog, m, cyc, n, k + 1, 0)
<1>1. ASSUME NEW p \in 0..2
      PROVE  LaneAt(thr, g, c, prog, m, 3 * cyc + p, p, IF 0 > p THEN k + 1 + 1 ELSE k + 1)
  <2>1. LaneAt(thr, g, c, prog, m, 3 * cyc + p, p, IF j > p THEN k + 1 ELSE k)
    BY DEF InBlock
  <2>2. j > p /\ ~(0 > p)
    OBVIOUS
  <2> QED  BY <2>1, <2>2
<1>2. Others(thr, g, c, prog, m, cyc, n)
  BY DEF InBlock
<1> QED  BY <1>1, <1>2 DEF InBlock

\* An instruction that does nothing is done as soon as it is reached.
LEMMA NopDone ==
    ASSUME UnitsCompute, NEW thr, NEW g, NEW c, NEW prog, NEW m, NEW cyc, NEW n,
           Running(g, c, prog, m, cyc, n), NEW k \in 1..Len(prog), prog[k].op = "NOP",
           InBlock(thr, g, c, prog, m, cyc, n, k - 1, 0)
    PROVE  InBlock(thr, g, c, prog, m, cyc, n, k, 0)
<1>1. /\ m \in Nat /\ n \in Nat /\ cyc \in Nat /\ prog \in Seq(SourceWord)
      /\ Confined(prog, m) /\ 3 * cyc + 3 <= 3 * n
  BY DEF Running, Confined
<1>2. Known(prog, k) = Known(prog, k - 1)
  <2>1. Got(prog[k]) = {}
    BY DEF Got, RegWr, CW_REGWR
  <2>2. Known(prog, k) = Known(prog, k - 1) \cup Got(prog[k])
    BY <1>1, KnownIs
  <2> QED  BY <2>1, <2>2
<1>3. ASSUME NEW p \in 0..2
      PROVE  LaneAt(thr, g, c, prog, m, 3 * cyc + p, p, IF 0 > p THEN k + 1 ELSE k)
  <2>. DEFINE u == 3 * cyc + p
              lone == Row(g, c, prog, m, u)[k - 1]
              l == Row(g, c, prog, m, u)[k]
              K == Known(prog, k)
  <2>1. ~(0 > p)
    OBVIOUS
  <2>2. Alike(thr, lone, p, K, u * m, m)
    BY <1>2, <2>1 DEF InBlock, LaneAt
  <2>3. l = Effect(lone, c, prog[k])
    <3>1. u \in 0..3*n-1
      BY <1>1
    <3>2. \A d \in 1..Len(prog) : Row(g, c, prog, m, u)[d] =
                 Effect(Row(g, c, prog, m, u)[d - 1], c, prog[d])
      BY <3>1, RowIs
    <3> QED  BY <3>2
  <2>4. ~prog[k].s /\ prog[k].cond = "ALWAYS"
    <3>1. prog[k] \in SourceWord
      BY <1>1
    <3> QED  BY <1>1, <3>1 DEF Confined, SourceWord
  <2>. HIDE DEF lone, l, K
  <2>5. l.regs = lone.regs /\ l.mem = lone.mem /\ l.sreg = lone.sreg
    BY <2>3, <2>4, BubbleIs
  <2>6. Alike(thr, l, p, K, u * m, m)
    BY <2>2, <2>5 DEF Alike, IsThread
  <2> QED  BY <2>1, <2>6 DEF LaneAt, l, K
<1>4. Others(thr, g, c, prog, m, cyc, n)
  BY DEF InBlock
<1> QED  BY <1>3, <1>4 DEF InBlock

\* One word of the block of instruction k.
LEMMA BlockStep ==
    ASSUME UnitsCompute, NEW thr, NEW g, NEW c, NEW prog, NEW m, NEW cyc, NEW n,
           Running(g, c, prog, m, cyc, n), NEW k \in 1..Len(prog),
           NEW j \in 0..Len(Block(prog[k]))-1, InBlock(thr, g, c, prog, m, cyc, n, k - 1, j)
    PROVE  /\ j + 1 < Len(Block(prog[k])) =>
                 InBlock(Effect(thr, c, Block(prog[k])[j + 1]), g, c, prog, m, cyc, n, k - 1, j + 1)
           /\ j + 1 = Len(Block(prog[k])) =>
                 InBlock(Effect(thr, c, Block(prog[k])[j + 1]), g, c, prog, m, cyc, n, k, 0)
<1>. DEFINE i == prog[k]
            l == Len(Block(i))
            w == Block(i)[j + 1]
<1>1. i \in SourceWord
  BY DEF Running, Confined
<1>2. /\ i.op = "NOP" => l = 1 /\ Block(i)[1] = nop
      /\ i.op # "NOP" => /\ l = IF FpOp(i) THEN 5 ELSE 4
                         /\ \A d \in 1..3 : Block(i)[d] = OnBank(i, d - 1)
                         /\ Block(i)[4] = nop
                         /\ FpOp(i) => Block(i)[5] = nop
  BY <1>1, BlockIs
<1>3. CASE i.op = "NOP"
  <2>1. l = 1 /\ j = 0 /\ w = nop
    <3>1. l = 1 /\ Block(i)[1] = nop
      BY <1>2, <1>3
    <3>2. j = 0 /\ j + 1 = 1
      BY <3>1
    <3> QED  BY <3>1, <3>2
  <2>2. InBlock(thr, g, c, prog, m, cyc, n, k, 0)
    BY <1>3, <2>1, NopDone
  <2>3. InBlock(Effect(thr, c, w), g, c, prog, m, cyc, n, k, 0)
    BY <2>1, <2>2, BubbleStep
  <2> QED  BY <2>1, <2>3
<1>4. CASE i.op # "NOP" /\ j \in 0..2
  <2>1. w = OnBank(i, j) /\ j + 1 < l
    <3>1. j + 1 \in 1..3 /\ j + 1 - 1 = j
      BY <1>4
    <3> QED  BY <1>2, <1>4, <3>1
  <2>2. InBlock(Effect(thr, c, OnBank(i, j)), g, c, prog, m, cyc, n, k - 1, j + 1)
    BY <1>4, LaneStep
  <2> QED  BY <2>1, <2>2
<1>5. CASE i.op # "NOP" /\ j \notin 0..2
  <2>1. l \in {4, 5} /\ j \in Nat /\ j \in {3, 4} /\ w = nop
    <3>. DEFINE bl == Block(i)
    <3>0. /\ l = IF FpOp(i) THEN 5 ELSE 4
          /\ bl[4] = nop /\ (FpOp(i) => bl[5] = nop)
      BY <1>2, <1>5
    <3>1. j \in 0..l-1 /\ j \notin 0..2 /\ w = bl[j + 1]
      BY <1>5
    <3>. HIDE DEF bl, l, w
    <3>2. CASE FpOp(i)
      <4>1. l = 5
        BY <3>0, <3>2
      <4>2. j = 3 \/ j = 4
        BY <3>1, <4>1
      <4>3. j + 1 = 4 \/ j + 1 = 5
        BY <4>2
      <4> QED  BY <3>0, <3>1, <3>2, <4>1, <4>2, <4>3
    <3>3. CASE ~FpOp(i)
      <4>1. l = 4
        BY <3>0, <3>3
      <4>2. j = 3 /\ j + 1 = 4
        BY <3>1, <4>1
      <4> QED  BY <3>0, <3>1, <4>1, <4>2
    <3> QED  BY <3>2, <3>3
  <2>2. InBlock(Effect(thr, c, w), g, c, prog, m, cyc, n, k - 1, j)
    BY <2>1, BubbleStep
  <2>. DEFINE e == Effect(thr, c, w)
  <2>. HIDE DEF e, w, l
  <2>3. InBlock(e, g, c, prog, m, cyc, n, k - 1, j)
    BY <2>2 DEF e
  <2>4. InBlock(e, g, c, prog, m, cyc, n, k, 0)
    <3>1. j >= 3 /\ k - 1 \in Nat /\ k - 1 + 1 = k /\ j \in Nat
      BY <2>1
    <3>2. InBlock(e, g, c, prog, m, cyc, n, k - 1 + 1, 0)
      BY <2>3, <3>1, LanesDone
    <3> QED  BY <3>1, <3>2
  <2>5. InBlock(e, g, c, prog, m, cyc, n, k - 1, j + 1)
    <3>1. ASSUME NEW p \in 0..2
          PROVE  LaneAt(e, g, c, prog, m, 3 * cyc + p, p, IF j + 1 > p THEN k - 1 + 1 ELSE k - 1)
      <4>1. LaneAt(e, g, c, prog, m, 3 * cyc + p, p, IF j > p THEN k - 1 + 1 ELSE k - 1)
        BY <2>3 DEF InBlock
      <4>2. j + 1 > p /\ j > p
        BY <2>1
      <4> QED  BY <4>1, <4>2
    <3> QED  BY <2>3, <3>1 DEF InBlock
  <2> QED  BY <2>4, <2>5 DEF e, w, l
<1> QED  BY <1>3, <1>4, <1>5

-----------------------------------------------------------------------------
(* The prologue.                                                           *)

LEMMA PivotWords ==
    ASSUME NEW m \in Nat
    PROVE  /\ PivotOf(1, m) = Word32("ADI", FALSE, 19, 9, 0, m)
           /\ PivotOf(2, m) = Word32("ADI", FALSE, 29, 9, 0, 2 * m)
           /\ PivotOf(3, m) = Word32("ADI", TRUE, 7, 9, 0, 3 * m)
<1>1. /\ REGPIVOT + REG_PER_THREAD * 1 = 19 /\ REGPIVOT + REG_PER_THREAD * 2 = 29
      /\ REGPIVOT + REG_PER_THREAD * 3 = 39 /\ NUM_REG = 32 /\ REGPIVOT = 9
  BY Numbers
<1>2. 19 % 32 = 19 /\ 29 % 32 = 29 /\ 39 % 32 = 7
  OBVIOUS
<1>3. (19 >= 32) = FALSE /\ (29 >= 32) = FALSE /\ (39 >= 32) = TRUE
  OBVIOUS
<1>4. m * 1 = m /\ m * 2 = 2 * m /\ m * 3 = 3 * m
  OBVIOUS
<1>5. PivotOf(1, m) = Word32("ADI", FALSE, 19, 9, 0, m)
  BY <1>1, <1>2, <1>3, <1>4 DEF PivotOf
<1>6. PivotOf(2, m) = Word32("ADI", FALSE, 29, 9, 0, 2 * m)
  BY <1>1, <1>2, <1>3, <1>4 DEF PivotOf
<1>7. PivotOf(3, m) = Word32("ADI", TRUE, 7, 9, 0, 3 * m)
  BY <1>1, <1>2, <1>3, <1>4 DEF PivotOf
<1> QED  BY <1>5, <1>6, <1>7

\* Before word q + 1 of the prologue: the lanes get their pivots one after the other, and
\* nothing else happens to the tasks.
InPrologue(thr, g, c, prog, m, cyc, n, q) ==
    /\ IsThread(thr) /\ ~thr.sreg.c
    /\ \A p \in 0..2 : q >= 3 * p + 3 => thr.regs[REGPIVOT + 10 * p] = (3 * cyc + p) * m
    /\ \A u \in 0..3*cyc-1 : Space(thr, g, c, prog, m, u, Len(prog))
    /\ \A u \in 3*cyc..3*n-1 : Space(thr, g, c, prog, m, u, 0)

\* An addition to the first pivot.
LEMMA PivotSet ==
    ASSUME UnitsCompute, NEW thr, IsThread(thr), ~thr.sreg.c, NEW const \in Consts,
           NEW s \in BOOLEAN, NEW r \in Reg, NEW imm \in Word,
           thr.regs[REGPIVOT] + imm < DataSize,
           NEW e, e = Effect(thr, const, Word32("ADI", s, r, REGPIVOT, 0, imm))
    PROVE  /\ e.regs = [thr.regs EXCEPT ![r] = thr.regs[REGPIVOT] + imm]
           /\ e.mem = thr.mem /\ ~e.sreg.c
<1>. DEFINE w == Word32("ADI", s, r, REGPIVOT, 0, imm)
            a == thr.regs[REGPIVOT]
<1>1. /\ w.op = "ADI" /\ w.s = s /\ w.rd = r /\ w.ra = REGPIVOT /\ w.imm = imm
      /\ w.cond = "ALWAYS"
  BY DEF Word32
<1>2. a \in Word
  <2>1. REGPIVOT \in Reg
    BY Numbers, Sizes
  <2> QED  BY <2>1 DEF IsThread
<1>. HIDE DEF w
<1>3. RegWr(w) /\ w.op \notin CW_LMEM_WR /\ w.op \notin CW_LMEM_RD /\ ~FpOp(w)
      /\ CW_ALOPC(w.op) = "ADI"
  BY <1>1 DEF RegWr, CW_REGWR, Opcode, CW_LMEM_WR, CW_LMEM_RD, FpOp, CW_FPOP, CW_ALOPC
<1>4. A(thr, w) = a /\ B(thr, const, w) = imm
  BY <1>1, OperandB DEF A
<1>5. thr.sreg.c = FALSE
  BY DEF IsThread
<1>6. AluQ("ADI", a, imm, FALSE) = a + imm /\ ~AluSreg("ADI", a, imm, FALSE).c
  <2>1. a + imm < DataSize
    OBVIOUS
  <2> QED  BY <1>2, <2>1 DEF UnitsCompute
<1>7. Result(thr, const, w) = a + imm
  BY <1>3, <1>4, <1>5, <1>6 DEF Result
<1>8. /\ RegWr(w) => e.regs = [thr.regs EXCEPT ![w.rd] = Result(thr, const, w)]
      /\ ~RegWr(w) => e.regs = thr.regs
      /\ w.op \in CW_LMEM_WR =>
            e.mem = [thr.mem EXCEPT ![Address(thr, const, w)] = A(thr, w)]
      /\ w.op \notin CW_LMEM_WR => e.mem = thr.mem
      /\ w.s => e.sreg = AluSreg(CW_ALOPC(w.op), A(thr, w), B(thr, const, w), thr.sreg.c)
      /\ ~w.s => e.sreg = thr.sreg
  <2>. DEFINE v == Effect(thr, const, w)
  <2>1. /\ RegWr(w) => v.regs = [thr.regs EXCEPT ![w.rd] = Result(thr, const, w)]
        /\ ~RegWr(w) => v.regs = thr.regs
        /\ w.op \in CW_LMEM_WR =>
              v.mem = [thr.mem EXCEPT ![Address(thr, const, w)] = A(thr, w)]
        /\ w.op \notin CW_LMEM_WR => v.mem = thr.mem
        /\ w.s => v.sreg = AluSreg(CW_ALOPC(w.op), A(thr, w), B(thr, const, w), thr.sreg.c)
        /\ ~w.s => v.sreg = thr.sreg
    BY <1>1, EffectIs
  <2>2. e = v
    BY DEF w
  <2>. HIDE DEF v
  <2> QED  BY <2>1, <2>2
<1>. HIDE DEF a
<1>9. e.regs = [thr.regs EXCEPT ![r] = a + imm] /\ e.mem = thr.mem
  BY <1>1, <1>3, <1>7, <1>8
<1>10. ~e.sreg.c
  <2>1. CASE w.s
    BY <1>3, <1>4, <1>5, <1>6, <1>8, <2>1
  <2>2. CASE ~w.s
    BY <1>8, <2>2
  <2> QED  BY <2>1, <2>2
<1> QED  BY <1>9, <1>10 DEF a

\* A thread after a word that gives register r the value x and does nothing else.
Given(thr, e, r, x) ==
    e.regs = [thr.regs EXCEPT ![r] = x] /\ e.mem = thr.mem /\ e.sreg = thr.sreg

\* The offset of the task cycle goes into the first pivot.
LEMMA FirstPivotSet ==
    ASSUME UnitsCompute, NEW thr, IsThread(thr), NEW const \in Consts,
           NEW e, e = Effect(thr, const, Word32("LDCI", FALSE, REGPIVOT, 0, 0, 0))
    PROVE  Given(thr, e, REGPIVOT, const[0])
<1>. DEFINE w == Word32("LDCI", FALSE, REGPIVOT, 0, 0, 0)
<1>1. /\ w.op = "LDCI" /\ ~w.s /\ w.rd = REGPIVOT /\ w.ra = 0 /\ w.imm = 0
      /\ w.cond = "ALWAYS"
  BY DEF Word32
<1>. HIDE DEF w
<1>2. RegWr(w) /\ w.op \notin CW_LMEM_WR /\ w.op \notin CW_LMEM_RD /\ ~FpOp(w)
      /\ CW_ALOPC(w.op) = "MOV"
  BY <1>1 DEF RegWr, CW_REGWR, Opcode, CW_LMEM_WR, CW_LMEM_RD, FpOp, CW_FPOP, CW_ALOPC
<1>3. B(thr, const, w) = const[0]
  BY <1>1, OperandB
<1>4. A(thr, w) \in Word /\ const[0] \in Word /\ thr.sreg.c \in BOOLEAN
  <2>1. 0 \in Reg /\ 0 \in 0..NumConst-1
    BY Sizes
  <2> QED  BY <1>1, <2>1 DEF A, IsThread, Consts
<1>5. AluQ("MOV", A(thr, w), const[0], thr.sreg.c) = const[0]
  BY <1>4 DEF UnitsCompute
<1>6. Result(thr, const, w) = const[0]
  BY <1>2, <1>3, <1>5 DEF Result
<1>7. /\ RegWr(w) => e.regs = [thr.regs EXCEPT ![w.rd] = Result(thr, const, w)]
      /\ ~RegWr(w) => e.regs = thr.regs
      /\ w.op \in CW_LMEM_WR =>
            e.mem = [thr.mem EXCEPT ![Address(thr, const, w)] = A(thr, w)]
      /\ w.op \notin CW_LMEM_WR => e.mem = thr.mem
      /\ w.s => e.sreg = AluSreg(CW_ALOPC(w.op), A(thr, w), B(thr, const, w), thr.sreg.c)
      /\ ~w.s => e.sreg = thr.sreg
  <2>. DEFINE v == Effect(thr, const, w)
  <2>1. /\ RegWr(w) => v.regs = [thr.regs EXCEPT ![w.rd] = Result(thr, const, w)]
        /\ ~RegWr(w) => v.regs = thr.regs
        /\ w.op \in CW_LMEM_WR =>
              v.mem = [thr.mem EXCEPT ![Address(thr, const, w)] = A(thr, w)]
        /\ w.op \notin CW_LMEM_WR => v.mem = thr.mem
        /\ w.s => v.sreg = AluSreg(CW_ALOPC(w.op), A(thr, w), B(thr, const, w), thr.sreg.c)
        /\ ~w.s => v.sreg = thr.sreg
    BY <1>1, EffectIs
  <2>2. e = v
    BY DEF w
  <2>. HIDE DEF v
  <2> QED  BY <2>1, <2>2
<1> QED  BY <1>1, <1>2, <1>6, <1>7 DEF Given

LEMMA PivotValues ==
    ASSUME NEW m \in Nat, NEW n \in Nat, NEW cyc \in 0..n-1, NEW d \in Nat, n * (3 * m) <= d
    PROVE  /\ cyc * (3 * m) \in Nat /\ cyc * (3 * m) + 3 * m <= d
           /\ (3 * cyc + 0) * m = cyc * (3 * m)
           /\ (3 * cyc + 1) * m = cyc * (3 * m) + m
           /\ (3 * cyc + 2) * m = cyc * (3 * m) + 2 * m
<1>1. cyc \in Nat /\ cyc + 1 <= n /\ 3 * m \in Nat
  OBVIOUS
<1>2. (cyc + 1) * (3 * m) <= n * (3 * m)
  <2>. DEFINE k == 3 * m
  <2>1. k \in Nat /\ cyc + 1 \in Nat /\ n \in Nat
    BY <1>1
  <2>. HIDE DEF k
  <2>2. (cyc + 1) * k <= n * k
    BY <1>1, <2>1, Grows
  <2> QED  BY <2>2 DEF k
<1>3. (cyc + 1) * (3 * m) = cyc * (3 * m) + 3 * m /\ cyc * (3 * m) \in Nat
  BY <1>1
<1>4. /\ (3 * cyc + 0) * m = cyc * (3 * m)
      /\ (3 * cyc + 1) * m = cyc * (3 * m) + m
      /\ (3 * cyc + 2) * m = cyc * (3 * m) + 2 * m
  BY <1>1
<1>. DEFINE x == cyc * (3 * m)
            y == n * (3 * m)
            z == (cyc + 1) * (3 * m)
<1>5. x + 3 * m <= d
  <2>1. z <= y /\ z = x + 3 * m /\ y <= d
    BY <1>2, <1>3
  <2>2. x \in Nat /\ y \in Nat /\ 3 * m \in Nat
    BY <1>1, <1>3
  <2>. HIDE DEF x, y, z
  <2> QED  BY <2>1, <2>2
<1> QED  BY <1>3, <1>4, <1>5

\* The spaces follow the memory.
LEMMA SpacesStay ==
    ASSUME NEW thr, NEW e, e.mem = thr.mem, IsThread(e), ~e.sreg.c,
           NEW g, NEW c, NEW prog, NEW m, NEW cyc, NEW n, NEW q,
           InPrologue(thr, g, c, prog, m, cyc, n, q), NEW q2,
           \A p \in 0..2 : q2 >= 3 * p + 3 => e.regs[REGPIVOT + 10 * p] = (3 * cyc + p) * m
    PROVE  InPrologue(e, g, c, prog, m, cyc, n, q2)
BY DEF InPrologue, Space

LEMMA PrologueStep ==
    ASSUME UnitsCompute, NEW thr, NEW g, NEW c, NEW prog, NEW m, NEW cyc, NEW n,
           Running(g, c, prog, m, cyc, n), c[0] = cyc * (3 * m), NEW q \in 0..13,
           InPrologue(thr, g, c, prog, m, cyc, n, q)
    PROVE  InPrologue(Effect(thr, c, Prologue(m)[q + 1]), g, c, prog, m, cyc, n, q + 1)
<1>. DEFINE w == Prologue(m)[q + 1]
            e == Effect(thr, c, w)
            b == cyc * (3 * m)
<1>1. /\ m \in Nat /\ n \in Nat /\ cyc \in 0..n-1 /\ c \in Consts
      /\ b \in Nat /\ b + 3 * m < DataSize
      /\ (3 * cyc + 0) * m = b /\ (3 * cyc + 1) * m = b + m /\ (3 * cyc + 2) * m = b + 2 * m
  <2>1. /\ m \in Nat /\ n \in Nat /\ cyc \in 0..n-1 /\ c \in Consts
        /\ n * (3 * m) <= MemDepth /\ MemDepth \in Nat
    BY Sizes DEF Running
  <2>2. /\ b \in Nat /\ b + 3 * m <= MemDepth
        /\ (3 * cyc + 0) * m = b /\ (3 * cyc + 1) * m = b + m /\ (3 * cyc + 2) * m = b + 2 * m
    BY <2>1, PivotValues
  <2>. HIDE DEF b
  <2>3. b + 3 * m < DataSize
    BY <2>1, <2>2, Sizes
  <2> QED  BY <2>1, <2>2, <2>3
<1>. HIDE DEF b
<1>2. /\ IsThread(thr) /\ ~thr.sreg.c /\ thr.regs \in [Reg -> Word]
      /\ \A p \in 0..2 : q >= 3 * p + 3 => thr.regs[REGPIVOT + 10 * p] = (3 * cyc + p) * m
  BY DEF InPrologue, IsThread
<1>3. REGPIVOT = 9 /\ 9 \in Reg /\ 19 \in Reg /\ 29 \in Reg /\ 7 \in Reg
  BY Numbers, Sizes
<1>4. /\ \A k \in {1, 2, 4, 5, 7, 8, 10, 11, 13, 14} : Prologue(m)[k] = nop
      /\ Prologue(m)[3] = Word32("LDCI", FALSE, 9, 0, 0, 0)
      /\ Prologue(m)[6] = Word32("ADI", FALSE, 19, 9, 0, m)
      /\ Prologue(m)[9] = Word32("ADI", FALSE, 29, 9, 0, 2 * m)
      /\ Prologue(m)[12] = Word32("ADI", TRUE, 7, 9, 0, 3 * m)
  BY <1>1, <1>3, PrologueIs, PivotWords
<1>5. m \in Word /\ 2 * m \in Word /\ 3 * m \in Word
  BY <1>1, Sizes
<1>6. Fine(w) => IsThread(e)
  BY <1>1, <1>2, EffectKeeps
\* What is left to show once it is known what the word does.
<1>7. ASSUME IsThread(e), e.mem = thr.mem, ~e.sreg.c,
             \A p \in 0..2 : q + 1 >= 3 * p + 3 => e.regs[REGPIVOT + 10 * p] = (3 * cyc + p) * m
      PROVE  InPrologue(e, g, c, prog, m, cyc, n, q + 1)
  BY <1>7, SpacesStay
<1>8. CASE q + 1 \in {1, 2, 4, 5, 7, 8, 10, 11, 13, 14}
  <2>1. w = nop
    BY <1>4, <1>8
  <2>2. e.regs = thr.regs /\ e.mem = thr.mem /\ e.sreg = thr.sreg
    <3>1. nop.op = "NOP" /\ ~nop.s /\ nop.cond = "ALWAYS"
      BY DEF nop, Word32
    <3> QED  BY <2>1, <3>1, BubbleIs
  <2>3. IsThread(e)
    BY <1>2, <2>2 DEF IsThread
  <2>4. ASSUME NEW p \in 0..2, q + 1 >= 3 * p + 3
        PROVE  e.regs[REGPIVOT + 10 * p] = (3 * cyc + p) * m
    <3>1. q >= 3 * p + 3
      BY <1>8, <2>4
    <3> QED  BY <1>2, <2>2, <3>1
  <2> QED  BY <1>2, <1>7, <2>2, <2>3, <2>4
<1>9. CASE q + 1 = 3
  <2>1. w = Word32("LDCI", FALSE, REGPIVOT, 0, 0, 0)
    BY <1>3, <1>4, <1>9
  <2>2. e.regs = [thr.regs EXCEPT ![REGPIVOT] = c[0]] /\ e.mem = thr.mem /\ e.sreg = thr.sreg
    <3>1. e = Effect(thr, c, Word32("LDCI", FALSE, REGPIVOT, 0, 0, 0))
      BY <2>1
    <3>. HIDE DEF e
    <3>2. Given(thr, e, REGPIVOT, c[0])
      BY <1>1, <1>2, <3>1, FirstPivotSet
    <3> QED  BY <3>2 DEF Given
  <2>3. e.regs[9] = b
    BY <1>2, <1>3, <2>2 DEF b
  <2>4. IsThread(e)
    <3>1. c[0] \in Word
      <4>1. 0 \in 0..NumConst-1
        BY Sizes
      <4> QED  BY <1>1, <4>1 DEF Consts
    <3> QED  BY <1>2, <2>2, <3>1 DEF IsThread
  <2>5. ASSUME NEW p \in 0..2, q + 1 >= 3 * p + 3
        PROVE  e.regs[REGPIVOT + 10 * p] = (3 * cyc + p) * m
    <3>1. p = 0
      BY <1>9, <2>5
    <3> QED  BY <1>1, <1>3, <2>3, <3>1
  <2> QED  BY <1>2, <1>7, <2>2, <2>4, <2>5
\* The other pivots: what they have in common.
<1>10. ASSUME NEW s \in BOOLEAN, NEW r \in Reg, NEW imm \in Word, imm <= 3 * m, q >= 3, r # 9,
              w = Word32("ADI", s, r, 9, 0, imm)
       PROVE  /\ e.regs \in [Reg -> Word] /\ e.regs[r] = b + imm
              /\ \A x \in Reg \ {r} : e.regs[x] = thr.regs[x]
              /\ e.mem = thr.mem /\ ~e.sreg.c /\ IsThread(e)
  <2>1. thr.regs[REGPIVOT] = b
    <3>1. q >= 3 * 0 + 3 /\ REGPIVOT + 10 * 0 = REGPIVOT
      BY <1>3, <1>10
    <3>2. thr.regs[REGPIVOT + 10 * 0] = (3 * cyc + 0) * m
      BY <1>2, <3>1
    <3> QED  BY <1>1, <3>1, <3>2
  <2>2. b + imm \in Word /\ b + imm < DataSize
    <3>1. imm \in Nat
      BY <1>10, Sizes
    <3> QED  BY <1>1, <1>10, <3>1, Sizes
  <2>3. e = Effect(thr, c, Word32("ADI", s, r, REGPIVOT, 0, imm))
    BY <1>3, <1>10
  <2>. HIDE DEF e
  <2>4. /\ e.regs = [thr.regs EXCEPT ![r] = thr.regs[REGPIVOT] + imm]
        /\ e.mem = thr.mem /\ ~e.sreg.c
    BY <1>1, <1>2, <1>10, <2>1, <2>2, <2>3, PivotSet
  <2>5. Fine(w)
    <3>1. /\ w.op = "ADI" /\ w.s = s /\ w.rd = r /\ w.ra = 9 /\ w.rb = 0 /\ w.imm = imm
          /\ w.cond = "ALWAYS" /\ w \in LaidWord
      <4>1. r \in Nat /\ imm \in Nat
        BY Sizes
      <4> QED  BY <1>10, <4>1 DEF Word32, LaidWord, Opcode
    <3>2. 0 \in Reg
      BY Sizes
    <3>. HIDE DEF w
    <3> QED  BY <1>3, <3>1, <3>2 DEF Fine
  <2> QED  BY <1>2, <1>6, <2>1, <2>2, <2>4, <2>5
<1>11. CASE q + 1 = 6
  <2>1. w = Word32("ADI", FALSE, 19, 9, 0, m) /\ m <= 3 * m /\ q >= 3 /\ 19 # 9
    <3>1. w = Word32("ADI", FALSE, 19, 9, 0, m)
      BY <1>4, <1>11
    <3>2. m <= 3 * m /\ q >= 3
      BY <1>1, <1>11
    <3> QED  BY <3>1, <3>2
  <2>2. /\ e.regs[19] = b + m /\ \A x \in Reg \ {19} : e.regs[x] = thr.regs[x]
        /\ e.mem = thr.mem /\ ~e.sreg.c /\ IsThread(e)
    BY <1>3, <1>5, <1>10, <2>1
  <2>3. ASSUME NEW p \in 0..2, q + 1 >= 3 * p + 3
        PROVE  e.regs[REGPIVOT + 10 * p] = (3 * cyc + p) * m
    <3>1. p = 0 \/ p = 1
      BY <1>11, <2>3
    <3>2. CASE p = 0
      <4>1. q >= 3 * p + 3 /\ REGPIVOT + 10 * p \in Reg \ {19}
        BY <1>3, <1>11, <3>2
      <4> QED  BY <1>2, <2>2, <4>1
    <3>3. CASE p = 1
      BY <1>1, <1>3, <2>2, <3>3
    <3> QED  BY <3>1, <3>2, <3>3
  <2> QED  BY <1>7, <2>2, <2>3
<1>12. CASE q + 1 = 9
  <2>1. w = Word32("ADI", FALSE, 29, 9, 0, 2 * m) /\ 2 * m <= 3 * m /\ q >= 3 /\ 29 # 9
    <3>1. w = Word32("ADI", FALSE, 29, 9, 0, 2 * m)
      BY <1>4, <1>12
    <3>2. 2 * m <= 3 * m /\ q >= 3
      BY <1>1, <1>12
    <3> QED  BY <3>1, <3>2
  <2>2. /\ e.regs[29] = b + 2 * m /\ \A x \in Reg \ {29} : e.regs[x] = thr.regs[x]
        /\ e.mem = thr.mem /\ ~e.sreg.c /\ IsThread(e)
    BY <1>3, <1>5, <1>10, <2>1
  <2>3. ASSUME NEW p \in 0..2, q + 1 >= 3 * p + 3
        PROVE  e.regs[REGPIVOT + 10 * p] = (3 * cyc + p) * m
    <3>1. CASE p = 2
      BY <1>1, <1>3, <2>2, <3>1
    <3>2. CASE p # 2
      <4>1. q >= 3 * p + 3
        BY <1>12, <3>2
      <4>2. REGPIVOT + 10 * p \in Reg \ {29}
        BY <1>3, <3>2, Sizes
      <4> QED  BY <1>2, <2>2, <4>1, <4>2
    <3> QED  BY <3>1, <3>2
  <2> QED  BY <1>7, <2>2, <2>3
<1>13. CASE q + 1 = 12
  <2>1. w = Word32("ADI", TRUE, 7, 9, 0, 3 * m) /\ 3 * m <= 3 * m /\ q >= 3 /\ 7 # 9
    <3>1. w = Word32("ADI", TRUE, 7, 9, 0, 3 * m)
      BY <1>4, <1>13
    <3>2. 3 * m <= 3 * m /\ q >= 3
      BY <1>1, <1>13
    <3> QED  BY <3>1, <3>2
  <2>2. /\ \A x \in Reg \ {7} : e.regs[x] = thr.regs[x]
        /\ e.mem = thr.mem /\ ~e.sreg.c /\ IsThread(e)
    BY <1>3, <1>5, <1>10, <2>1
  <2>3. ASSUME NEW p \in 0..2, q + 1 >= 3 * p + 3
        PROVE  e.regs[REGPIVOT + 10 * p] = (3 * cyc + p) * m
    <3>1. q >= 3 * p + 3
      BY <1>13
    <3>2. REGPIVOT + 10 * p \in Reg \ {7}
      BY <1>3, Sizes
    <3> QED  BY <1>2, <2>2, <3>1, <3>2
  <2> QED  BY <1>7, <2>2, <2>3
<1>14. q + 1 \in 1..14
  OBVIOUS
<1> QED  BY <1>8, <1>9, <1>11, <1>12, <1>13, <1>14

LEMMA PrologueDone ==
    ASSUME UnitsCompute, NEW thr, NEW g, NEW c, NEW prog, NEW m, NEW cyc, NEW n,
           Running(g, c, prog, m, cyc, n), InPrologue(thr, g, c, prog, m, cyc, n, 14)
    PROVE  InBlock(thr, g, c, prog, m, cyc, n, 0, 0)
<1>1. /\ m \in Nat /\ n \in Nat /\ cyc \in Nat /\ prog \in Seq(SourceWord) /\ cyc <= n - 1
      /\ 3 * cyc + 3 <= 3 * n /\ Len(prog) \in Nat /\ 0 \in 0..Len(prog)
  BY DEF Running, Confined
<1>2. ASSUME NEW p \in 0..2
      PROVE  LaneAt(thr, g, c, prog, m, 3 * cyc + p, p, IF 0 > p THEN 0 + 1 ELSE 0)
  <2>. DEFINE u == 3 * cyc + p
              b == u * m
              lone == Row(g, c, prog, m, u)[0]
  <2>0. ~(0 > p) /\ u \in 0..3*n-1 /\ u \in 3*cyc..3*n-1 /\ 14 >= 3 * p + 3
    BY <1>1
  <2>1. /\ b \in Nat /\ b + m <= MemDepth
        /\ \A k \in 0..Len(prog) : Plain(Row(g, c, prog, m, u)[k], b)
    BY <2>0, RowIs
  <2>2. Plain(lone, b)
    BY <1>1, <2>1
  <2>3. thr.regs[REGPIVOT + 10 * p] = b /\ Space(thr, g, c, prog, m, u, 0)
        /\ IsThread(thr) /\ ~thr.sreg.c
    BY <2>0 DEF InPrologue
  <2>4. Known(prog, 0) = {REGPIVOT} /\ REGPIVOT \in Bank
    BY <1>1, KnownIs, Numbers DEF Bank
  <2>5. \A a \in 0..m-1 : thr.mem[b + a] = lone.mem[b + a]
    BY <2>3 DEF Space
  <2>. HIDE DEF b, lone
  <2>6. Alike(thr, lone, p, {REGPIVOT}, b, m)
    BY <1>1, <2>1, <2>2, <2>3, <2>4, <2>5 DEF Alike, Plain
  <2> QED  BY <2>0, <2>4, <2>6 DEF LaneAt, b, lone
<1>3. Others(thr, g, c, prog, m, cyc, n)
  <2>1. \A u \in 3*cyc+3..3*n-1 : u \in 3*cyc..3*n-1
    BY <1>1
  <2> QED  BY <2>1 DEF InPrologue, Others
<1> QED  BY <1>2, <1>3 DEF InBlock

LEMMA RunBegins ==
    ASSUME UnitsCompute, NEW thr, IsThread(thr), ~thr.sreg.c, NEW c, NEW prog, NEW m, NEW n,
           Running(thr.mem, c, prog, m, 0, n)
    PROVE  InPrologue(thr, thr.mem, c, prog, m, 0, n, 0)
<1>1. \A u \in 0..3*n-1 : Space(thr, thr.mem, c, prog, m, u, 0)
  <2> SUFFICES ASSUME NEW u \in 0..3*n-1 PROVE Space(thr, thr.mem, c, prog, m, u, 0)
    OBVIOUS
  <2>1. Row(thr.mem, c, prog, m, u)[0] = StartOf(u * m, thr.mem)
    BY RowIs
  <2> QED  BY <2>1 DEF Space, StartOf
<1>2. \A u \in 0..3*0-1 : FALSE
  OBVIOUS
<1>3. \A p \in 0..2 : ~(0 >= 3 * p + 3)
  OBVIOUS
<1>4. 3 * 0 = 0
  OBVIOUS
<1> QED  BY <1>1, <1>2, <1>3, <1>4 DEF InPrologue

\* The constants but the first do not matter for what becomes of a task.
LEMMA SpaceSame ==
    ASSUME NEW thr, NEW g, NEW prog, NEW m, Confined(prog, m), NEW c1, NEW c2,
           SameConsts(c1, c2), NEW u, NEW d \in 0..Len(prog), Space(thr, g, c1, prog, m, u, d)
    PROVE  Space(thr, g, c2, prog, m, u, d)
<1>1. Row(g, c1, prog, m, u)[d] = Row(g, c2, prog, m, u)[d]
  BY AloneSame DEF Row
<1> QED  BY <1>1 DEF Space

\* What a task cycle leaves.
LEMMA CycleDone ==
    ASSUME NEW thr, NEW g, NEW c, NEW prog, NEW m, NEW cyc, NEW n,
           Running(g, c, prog, m, cyc, n), InBlock(thr, g, c, prog, m, cyc, n, Len(prog), 0)
    PROVE  /\ IsThread(thr) /\ ~thr.sreg.c
           /\ \A u \in 0..3*(cyc+1)-1 : Space(thr, g, c, prog, m, u, Len(prog))
           /\ \A u \in 3*(cyc+1)..3*n-1 : Space(thr, g, c, prog, m, u, 0)
<1>1. n \in Nat /\ cyc \in Nat
  BY DEF Running
<1>2. ASSUME NEW p \in 0..2
      PROVE  /\ Space(thr, g, c, prog, m, 3 * cyc + p, Len(prog))
             /\ IsThread(thr) /\ ~thr.sreg.c
  <2>1. ~(0 > p)
    OBVIOUS
  <2>2. LaneAt(thr, g, c, prog, m, 3 * cyc + p, p, Len(prog))
    BY <2>1 DEF InBlock
  <2> QED  BY <2>2 DEF LaneAt, Alike, Space
<1>3. ASSUME NEW u \in 0..3*(cyc+1)-1
      PROVE  Space(thr, g, c, prog, m, u, Len(prog))
  <2>1. CASE u \in 0..3*cyc-1
    BY <2>1 DEF InBlock, Others
  <2>2. CASE u \notin 0..3*cyc-1
    <3>1. u - 3 * cyc \in 0..2 /\ u = 3 * cyc + (u - 3 * cyc)
      BY <1>1, <2>2
    <3>. DEFINE p == u - 3 * cyc
    <3>2. p \in 0..2 /\ u = 3 * cyc + p
      BY <3>1
    <3>. HIDE DEF p
    <3>3. Space(thr, g, c, prog, m, 3 * cyc + p, Len(prog))
      BY <1>2, <3>2
    <3> QED  BY <3>2, <3>3
  <2> QED  BY <2>1, <2>2
<1>4. ASSUME NEW u \in 3*(cyc+1)..3*n-1
      PROVE  Space(thr, g, c, prog, m, u, 0)
  <2>1. u \in 3*cyc+3..3*n-1
    BY <1>1
  <2> QED  BY <2>1 DEF InBlock, Others
<1>5. 0 \in 0..2
  OBVIOUS
<1> QED  BY <1>2, <1>3, <1>4, <1>5

LEMMA CycleBegins ==
    ASSUME NEW thr, IsThread(thr), ~thr.sreg.c, NEW g, NEW c, NEW prog, NEW m,
           Confined(prog, m), NEW cyc \in Nat, NEW n \in Nat,
           \A u \in 0..3*cyc-1 : Space(thr, g, c, prog, m, u, Len(prog)),
           \A u \in 3*cyc..3*n-1 : Space(thr, g, c, prog, m, u, 0),
           NEW c2, SameConsts(c, c2)
    PROVE  InPrologue(thr, g, c2, prog, m, cyc, n, 0)
<1>1. Len(prog) \in 0..Len(prog) /\ 0 \in 0..Len(prog)
  <2>1. Len(prog) \in Nat
    BY DEF Confined
  <2> QED  BY <2>1
<1>2. \A u \in 0..3*cyc-1 : Space(thr, g, c2, prog, m, u, Len(prog))
  <2> SUFFICES ASSUME NEW u \in 0..3*cyc-1 PROVE Space(thr, g, c2, prog, m, u, Len(prog))
    OBVIOUS
  <2>1. Space(thr, g, c, prog, m, u, Len(prog))
    OBVIOUS
  <2> QED  BY <1>1, <2>1, SpaceSame
<1>3. \A u \in 3*cyc..3*n-1 : Space(thr, g, c2, prog, m, u, 0)
  <2> SUFFICES ASSUME NEW u \in 3*cyc..3*n-1 PROVE Space(thr, g, c2, prog, m, u, 0)
    OBVIOUS
  <2>1. Space(thr, g, c, prog, m, u, 0)
    OBVIOUS
  <2> QED  BY <1>1, <2>1, SpaceSame
<1>4. \A p \in 0..2 : ~(0 >= 3 * p + 3)
  OBVIOUS
<1> QED  BY <1>2, <1>3, <1>4 DEF InPrologue

-----------------------------------------------------------------------------
(* The words of a layout.                                                  *)

LEMMA NopFine == Fine(nop)
<1>1. /\ nop.op = "NOP" /\ ~nop.s /\ nop.rd = 0 /\ nop.ra = 0 /\ nop.rb = 0 /\ nop.imm = 0
  BY DEF nop, Word32
<1>2. 0 \in Reg /\ 0 \in Word
  BY Sizes
<1> QED  BY <1>1, <1>2, NopLaid DEF Fine

LEMMA PrologueFine ==
    ASSUME NEW m \in Nat, 3 * m < DataSize, NEW q \in 1..14
    PROVE  Fine(Prologue(m)[q])
<1>1. REGPIVOT = 9 /\ 0 \in Reg /\ 9 \in Reg /\ 19 \in Reg /\ 29 \in Reg /\ 7 \in Reg
  BY Numbers, Sizes
<1>2. /\ \A k \in {1, 2, 4, 5, 7, 8, 10, 11, 13, 14} : Prologue(m)[k] = nop
      /\ Prologue(m)[3] = Word32("LDCI", FALSE, 9, 0, 0, 0)
      /\ Prologue(m)[6] = Word32("ADI", FALSE, 19, 9, 0, m)
      /\ Prologue(m)[9] = Word32("ADI", FALSE, 29, 9, 0, 2 * m)
      /\ Prologue(m)[12] = Word32("ADI", TRUE, 7, 9, 0, 3 * m)
  BY <1>1, PrologueIs, PivotWords
<1>3. m \in Word /\ 2 * m \in Word /\ 3 * m \in Word /\ 0 \in Word /\ 0 \in 0..NumConst-1
  BY Sizes
<1>4. ASSUME NEW op \in {"LDCI", "ADI"}, NEW s \in BOOLEAN, s => op = "ADI",
             NEW r \in Reg, NEW a \in Reg, NEW imm \in Word, op = "LDCI" => imm = 0
      PROVE  Fine(Word32(op, s, r, a, 0, imm))
  <2>. DEFINE w == Word32(op, s, r, a, 0, imm)
  <2>1. /\ w.op = op /\ w.s = s /\ w.rd = r /\ w.ra = a /\ w.rb = 0 /\ w.imm = imm
        /\ w \in LaidWord
    <3>1. r \in Nat /\ a \in Nat /\ imm \in Nat
      BY Sizes
    <3> QED  BY <3>1 DEF Word32, LaidWord, Opcode
  <2>. HIDE DEF w
  <2>2. Fine(w)
    BY <1>1, <1>3, <1>4, <2>1 DEF Fine
  <2> QED  BY <2>2 DEF w
<1>5. /\ Fine(Prologue(m)[3]) /\ Fine(Prologue(m)[6]) /\ Fine(Prologue(m)[9])
      /\ Fine(Prologue(m)[12])
  BY <1>1, <1>2, <1>3, <1>4
<1>6. q \in {1, 2, 4, 5, 7, 8, 10, 11, 13, 14} \/ q \in {3, 6, 9, 12}
  OBVIOUS
<1> QED  BY <1>2, <1>5, <1>6, NopFine

LEMMA BlockFine ==
    ASSUME NEW prog, NEW m, Confined(prog, m), NEW k \in 1..Len(prog),
           NEW j \in 1..Len(Block(prog[k]))
    PROVE  Fine(Block(prog[k])[j])
<1>. DEFINE i == prog[k]
            bl == Block(i)
<1>1. i \in SourceWord
  BY DEF Confined
<1>2. /\ i.op = "NOP" => Len(bl) = 1 /\ bl[1] = nop
      /\ i.op # "NOP" => /\ Len(bl) = IF FpOp(i) THEN 5 ELSE 4
                         /\ \A d \in 1..3 : bl[d] = OnBank(i, d - 1)
                         /\ bl[4] = nop
                         /\ FpOp(i) => bl[5] = nop
  BY <1>1, BlockIs
<1>3. \A p \in 0..2 : Fine(OnBank(i, p))
  <2>1. Keeps(i, Known(prog, k - 1), m)
    BY ConfinedKeeps
  <2> QED  BY <2>1, SourceFine
<1>. HIDE DEF bl
<1>4. j \in 1..Len(bl)
  BY DEF bl
<1>5. CASE i.op = "NOP"
  <2>1. j = 1
    <3>1. Len(bl) = 1
      BY <1>2, <1>5
    <3> QED  BY <1>4, <3>1
  <2> QED  BY <1>2, <1>5, <2>1, NopFine DEF bl
<1>6. CASE i.op # "NOP"
  <2>1. CASE j \in 1..3
    <3>1. j - 1 \in 0..2
      BY <2>1
    <3> QED  BY <1>2, <1>3, <1>6, <2>1, <3>1 DEF bl
  <2>2. CASE j \notin 1..3
    <3>1. bl[j] = nop
      <4>1. CASE FpOp(i)
        <5>1. Len(bl) = 5 /\ bl[4] = nop /\ bl[5] = nop
          BY <1>2, <1>6, <4>1
        <5>2. j = 4 \/ j = 5
          BY <1>4, <2>2, <5>1
        <5> QED  BY <5>1, <5>2
      <4>2. CASE ~FpOp(i)
        <5>1. Len(bl) = 4 /\ bl[4] = nop
          BY <1>2, <1>6, <4>2
        <5>2. j = 4
          BY <1>4, <2>2, <5>1
        <5> QED  BY <5>1, <5>2
      <4> QED  BY <4>1, <4>2
    <3> QED  BY <3>1, NopFine DEF bl
  <2> QED  BY <2>1, <2>2
<1> QED  BY <1>5, <1>6

LEMMA LayoutFine ==
    ASSUME NEW prog, NEW m \in Nat, Confined(prog, m)
    PROVE  \A a \in 1..Len(Layout(prog, m)) : Fine(Layout(prog, m)[a])
<1>. DEFINE n == Len(prog)
<1>1. prog \in Seq(SourceWord) /\ n \in Nat /\ 3 * m < DataSize
  BY Numbers DEF Confined
<1>2. PICK g : Laid(g, prog, m)
  BY <1>1, LaidOut
<1>. DEFINE Bad == {k \in 0..n : ~\A a \in 1..Len(g[k]) : Fine(g[k][a])}
<1>3. g \in [0..n -> Seq(LaidWord)] /\ g[0] = Prologue(m) /\ Layout(prog, m) = g[n]
      /\ \A k \in 1..n : g[k] = g[k - 1] \o Block(prog[k])
  BY <1>2 DEF Laid
<1>4. ASSUME Bad # {} PROVE FALSE
  <2>1. PICK k \in Bad : \A l \in Bad : k <= l
    <3>1. Bad \subseteq Nat
      BY <1>1
    <3>. HIDE DEF Bad
    <3> QED  BY <1>4, <3>1, Least
  <2>2. k # 0
    <3>1. Len(Prologue(m)) = 14
      BY PrologueIs
    <3> QED  BY <1>1, <1>3, <3>1, PrologueFine
  <2>3. k \in 1..n /\ k - 1 \in 0..n /\ ~(k <= k - 1) /\ k \in 0..n
    BY <1>1, <2>2
  <2>. DEFINE s == g[k - 1]
              t == Block(prog[k])
  <2>4. \A a \in 1..Len(s) : Fine(s[a])
    BY <2>1, <2>3
  <2>5. \A a \in 1..Len(t) : Fine(t[a])
    BY <2>3, BlockFine
  <2>6. s \in Seq(LaidWord) /\ t \in Seq(LaidWord) /\ g[k] = s \o t
    <3>1. prog[k] \in SourceWord
      BY <1>1, <2>3
    <3> QED  BY <1>3, <2>3, <3>1, BlockIs
  <2>. HIDE DEF s, t
  <2>7. /\ Len(s \o t) = Len(s) + Len(t)
        /\ \A a \in 1..Len(s) : (s \o t)[a] = s[a]
        /\ \A a \in 1..Len(t) : (s \o t)[Len(s) + a] = t[a]
    BY <2>6, Concat
  <2>8. ASSUME NEW a \in 1..Len(g[k]) PROVE Fine(g[k][a])
    <3>1. Len(s) \in Nat /\ Len(t) \in Nat /\ a \in 1..Len(s)+Len(t)
      BY <2>6, <2>7
    <3>2. CASE a <= Len(s)
      <4>1. a \in 1..Len(s)
        BY <3>1, <3>2
      <4> QED  BY <2>4, <2>6, <2>7, <4>1
    <3>3. CASE ~(a <= Len(s))
      <4>1. a - Len(s) \in 1..Len(t) /\ Len(s) + (a - Len(s)) = a
        BY <3>1, <3>3
      <4> QED  BY <2>5, <2>6, <2>7, <4>1
    <3> QED  BY <3>2, <3>3
  <2> QED  BY <2>1, <2>8
<1>. HIDE DEF Bad
<1>5. Bad = {}
  BY <1>4
<1> QED  BY <1>1, <1>3, <1>5 DEF Bad

-----------------------------------------------------------------------------
(* A thread in a task cycle, behind q words of the layout.                 *)

InRun(thr, g, c, prog, m, cyc, n, lay, q) ==
    \/ q \in 0..13 /\ InPrologue(thr, g, c, prog, m, cyc, n, q)
    \/ \E k \in 1..Len(prog) : \E j \in 0..Len(Block(prog[k]))-1 :
          q = Len(lay[k - 1]) + j /\ InBlock(thr, g, c, prog, m, cyc, n, k - 1, j)
    \/ q = Len(lay[Len(prog)]) /\ InBlock(thr, g, c, prog, m, cyc, n, Len(prog), 0)

LEMMA Reached ==
    ASSUME NEW thr, NEW g, NEW c, NEW prog, NEW m, NEW cyc, NEW n, NEW lay,
           Running(g, c, prog, m, cyc, n), Laid(lay, prog, m),
           NEW k \in 0..Len(prog), InBlock(thr, g, c, prog, m, cyc, n, k, 0)
    PROVE  InRun(thr, g, c, prog, m, cyc, n, lay, Len(lay[k]))
<1>1. prog \in Seq(SourceWord) /\ Len(prog) \in Nat
  BY DEF Running, Confined
<1>2. CASE k = Len(prog)
  BY <1>2 DEF InRun
<1>3. CASE k # Len(prog)
  <2>. DEFINE l == k + 1
  <2>1. l \in 1..Len(prog) /\ l - 1 = k
    BY <1>1, <1>3
  <2>. HIDE DEF l
  <2>2. prog[l] \in SourceWord
    BY <1>1, <2>1
  <2>3. 0 \in 0..Len(Block(prog[l]))-1
    <3>. DEFINE b == Len(Block(prog[l]))
    <3>1. b \in {1, 4, 5}
      <4>1. prog[l].op = "NOP" => b = 1
        BY <2>2, BlockIs
      <4>2. prog[l].op # "NOP" => b = IF FpOp(prog[l]) THEN 5 ELSE 4
        BY <2>2, BlockIs
      <4>. HIDE DEF b
      <4> QED  BY <4>1, <4>2
    <3>. HIDE DEF b
    <3>2. 0 \in 0..b-1
      BY <3>1
    <3> QED  BY <3>2 DEF b
  <2>4. Len(lay[l - 1]) = Len(lay[l - 1]) + 0
    <3>1. lay[l - 1] \in Seq(LaidWord)
      BY <2>1 DEF Laid
    <3> QED  BY <3>1
  <2> QED  BY <2>1, <2>3, <2>4 DEF InRun
<1> QED  BY <1>2, <1>3

LEMMA WordStep ==
    ASSUME UnitsCompute, NEW thr, NEW g, NEW c, NEW prog, NEW m, NEW cyc, NEW n, NEW lay,
           Running(g, c, prog, m, cyc, n), c[0] = cyc * (3 * m), Laid(lay, prog, m),
           NEW q \in 0..Len(Layout(prog, m))-1, InRun(thr, g, c, prog, m, cyc, n, lay, q)
    PROVE  InRun(Effect(thr, c, Layout(prog, m)[q + 1]), g, c, prog, m, cyc, n, lay, q + 1)
<1>. DEFINE w == Layout(prog, m)[q + 1]
            e == Effect(thr, c, w)
<1>1. prog \in Seq(SourceWord) /\ Len(prog) \in Nat /\ m \in Nat /\ 0 \in 0..Len(prog)
  BY DEF Running, Confined
<1>2. /\ Placed(Layout(prog, m), 0, Prologue(m))
      /\ Len(lay[0]) = 14 /\ Layout(prog, m) = lay[Len(prog)]
  BY <1>1, ProloguePlaced
<1>3. CASE q \in 0..13 /\ InPrologue(thr, g, c, prog, m, cyc, n, q)
  <2>1. w = Prologue(m)[q + 1]
    <3>1. Len(Prologue(m)) = 14
      BY <1>1, PrologueIs
    <3>2. q + 1 \in 1..14 /\ 0 + (q + 1) = q + 1
      BY <1>3
    <3>3. \A j \in 1..14 : Layout(prog, m)[0 + j] = Prologue(m)[j]
      BY <1>2, <3>1 DEF Placed
    <3> QED  BY <3>2, <3>3
  <2>2. InPrologue(Effect(thr, c, Prologue(m)[q + 1]), g, c, prog, m, cyc, n, q + 1)
    BY <1>3, PrologueStep
  <2>3. InPrologue(e, g, c, prog, m, cyc, n, q + 1)
    BY <2>1, <2>2
  <2>. HIDE DEF e
  <2>4. CASE q = 13
    <3>1. InPrologue(e, g, c, prog, m, cyc, n, 14)
      BY <2>3, <2>4
    <3>2. InBlock(e, g, c, prog, m, cyc, n, 0, 0)
      BY <3>1, PrologueDone
    <3>3. InRun(e, g, c, prog, m, cyc, n, lay, Len(lay[0]))
      BY <1>1, <3>2, Reached
    <3>4. q + 1 = Len(lay[0])
      BY <1>2, <2>4
    <3> QED  BY <3>3, <3>4 DEF e
  <2>5. CASE q # 13
    <3>1. q + 1 \in 0..13
      BY <1>3, <2>5
    <3> QED  BY <2>3, <3>1 DEF InRun, e
  <2> QED  BY <2>4, <2>5
<1>4. ASSUME NEW k \in 1..Len(prog), NEW j \in 0..Len(Block(prog[k]))-1,
             q = Len(lay[k - 1]) + j, InBlock(thr, g, c, prog, m, cyc, n, k - 1, j)
      PROVE  InRun(e, g, c, prog, m, cyc, n, lay, q + 1)
  <2>. DEFINE b == Len(Block(prog[k]))
              s == Len(lay[k - 1])
  <2>1. Placed(Layout(prog, m), s, Block(prog[k])) /\ Len(lay[k]) = s + b
    BY <1>1, BlockPlaced
  <2>2. s \in Nat /\ b \in Nat /\ \A d \in 1..b : Layout(prog, m)[s + d] = Block(prog[k])[d]
    BY <2>1 DEF Placed
  <2>3. /\ j + 1 \in 1..b /\ s + (j + 1) = q + 1 /\ s \in Nat /\ b \in Nat
        /\ j + 1 < b => j + 1 \in 0..b-1
    <3>1. s \in Nat /\ b \in Nat /\ j \in 0..b-1 /\ q = s + j
      BY <1>4, <2>2
    <3>. HIDE DEF s, b
    <3> QED  BY <3>1
  <2>4. w = Block(prog[k])[j + 1]
    <3>. DEFINE bl == Block(prog[k])
                la == Layout(prog, m)
    <3>1. (\A d \in 1..b : la[s + d] = bl[d]) /\ j + 1 \in 1..b /\ s + (j + 1) = q + 1
      BY <2>2, <2>3
    <3>. HIDE DEF s, b, bl, la
    <3>2. la[s + (j + 1)] = bl[j + 1]
      BY <3>1
    <3>3. la[q + 1] = bl[j + 1]
      BY <3>1, <3>2
    <3> QED  BY <3>3 DEF la, bl
  <2>5. /\ j + 1 < b => InBlock(Effect(thr, c, Block(prog[k])[j + 1]),
                                g, c, prog, m, cyc, n, k - 1, j + 1)
        /\ j + 1 = b => InBlock(Effect(thr, c, Block(prog[k])[j + 1]), g, c, prog, m, cyc, n, k, 0)
    BY <1>4, BlockStep
  <2>6. CASE j + 1 < b
    <3>1. InBlock(e, g, c, prog, m, cyc, n, k - 1, j + 1)
      BY <2>4, <2>5, <2>6
    <3>2. j + 1 \in 0..b-1 /\ q + 1 = s + (j + 1)
      <4>1. /\ j + 1 < b => j + 1 \in 0..b-1
            /\ s + (j + 1) = q + 1
        BY <2>3
      <4>. HIDE DEF s, b
      <4> QED  BY <2>6, <4>1
    <3>. HIDE DEF e
    <3> QED  BY <3>1, <3>2 DEF InRun
  <2>7. CASE j + 1 = b
    <3>1. InBlock(e, g, c, prog, m, cyc, n, k, 0)
      BY <2>4, <2>5, <2>7
    <3>2. k \in 0..Len(prog) /\ q + 1 = Len(lay[k])
      <4>1. q + 1 = s + b
        BY <2>3, <2>7
      <4>2. Len(lay[k]) = s + b
        BY <2>1
      <4>3. k \in 0..Len(prog)
        BY <1>1
      <4>. HIDE DEF s, b
      <4> QED  BY <4>1, <4>2, <4>3
    <3>. HIDE DEF e
    <3>3. InRun(e, g, c, prog, m, cyc, n, lay, Len(lay[k]))
      BY <3>1, <3>2, Reached
    <3> QED  BY <3>2, <3>3
  <2>8. j + 1 < b \/ j + 1 = b
    BY <2>2, <2>3
  <2> QED  BY <2>6, <2>7, <2>8
<1>5. q # Len(lay[Len(prog)])
  <2>1. Layout(prog, m) \in Seq(LaidWord)
    BY <1>2 DEF Placed
  <2>2. Len(Layout(prog, m)) \in Nat
    BY <2>1
  <2> QED  BY <1>2, <2>2
<1> QED  BY <1>3, <1>4, <1>5 DEF InRun

LEMMA RunDone ==
    ASSUME NEW thr, NEW g, NEW c, NEW prog, NEW m, NEW cyc, NEW n, NEW lay,
           Running(g, c, prog, m, cyc, n), Laid(lay, prog, m),
           InRun(thr, g, c, prog, m, cyc, n, lay, Len(Layout(prog, m)))
    PROVE  InBlock(thr, g, c, prog, m, cyc, n, Len(prog), 0)
<1>. DEFINE q == Len(Layout(prog, m))
<1>1. prog \in Seq(SourceWord) /\ m \in Nat
  BY DEF Running, Confined
<1>2. /\ Placed(Layout(prog, m), 0, Prologue(m))
      /\ Len(lay[0]) = 14 /\ Layout(prog, m) = lay[Len(prog)]
  BY <1>1, ProloguePlaced
<1>3. q \notin 0..13
  <2>1. Len(Prologue(m)) = 14
    BY <1>1, PrologueIs
  <2>2. 0 + 14 <= q
    BY <1>2, <2>1 DEF Placed
  <2>. HIDE DEF q
  <2> QED  BY <2>2
<1>4. ASSUME NEW k \in 1..Len(prog), NEW j \in 0..Len(Block(prog[k]))-1,
             q = Len(lay[k - 1]) + j
      PROVE  FALSE
  <2>. DEFINE b == Len(Block(prog[k]))
              s == Len(lay[k - 1])
  <2>1. Placed(Layout(prog, m), s, Block(prog[k]))
    BY <1>1, BlockPlaced
  <2>2. s \in Nat /\ b \in Nat /\ s + b <= q
    BY <2>1 DEF Placed
  <2>3. j \in 0..b-1 /\ q = s + j
    BY <1>4
  <2>. HIDE DEF s, b, q
  <2> QED  BY <2>2, <2>3
<1> QED  BY <1>3, <1>4 DEF InRun

-----------------------------------------------------------------------------
(* Where a task is.                                                        *)

LEMMA Division ==
    ASSUME NEW a \in Nat, NEW d \in Nat \ {0}
    PROVE  /\ a \div d \in Nat /\ a % d \in 0..d-1
           /\ d * (a \div d) <= a /\ a < d * (a \div d) + d
           /\ a = d * (a \div d) + (a % d)
OBVIOUS

LEMMA Quotient ==
    ASSUME NEW a \in Nat, NEW d \in Nat \ {0}, NEW q \in Nat, NEW r \in 0..d-1, a = d * q + r
    PROVE  a \div d = q /\ a % d = r
OBVIOUS

\* Which thread, and which row of its memory, is next.
LEMMA NextIs ==
    ASSUME NEW a \in Nat, NEW d \in Nat \ {0}
    PROVE  /\ (a + 1) % d = ((a % d) + 1) % d
           /\ (a % d) + 1 = d => (a + 1) \div d = a \div d + 1
           /\ (a % d) + 1 # d => (a + 1) \div d = a \div d
<1>. DEFINE q == a \div d
            r == a % d
<1>1. q \in Nat /\ r \in 0..d-1 /\ a = d * q + r
  BY Division
<1>. HIDE DEF q, r
<1>2. CASE r + 1 = d
  <2>1. a + 1 = d * (q + 1) + 0 /\ q + 1 \in Nat /\ 0 \in 0..d-1 /\ a + 1 \in Nat
    BY <1>1, <1>2
  <2>2. (a + 1) \div d = q + 1 /\ (a + 1) % d = 0
    BY <2>1, Quotient
  <2>3. d % d = 0
    <3>1. d = d * 1 + 0 /\ 0 \in 0..d-1 /\ d \in Nat
      OBVIOUS
    <3> QED  BY <3>1, Quotient
  <2> QED  BY <1>2, <2>2, <2>3 DEF q, r
<1>3. CASE r + 1 # d
  <2>1. a + 1 = d * q + (r + 1) /\ r + 1 \in 0..d-1 /\ a + 1 \in Nat
    BY <1>1, <1>3
  <2>2. (a + 1) \div d = q /\ (a + 1) % d = r + 1
    BY <1>1, <2>1, Quotient
  <2>3. (r + 1) % d = r + 1
    BY <2>1, ModSmall
  <2> QED  BY <1>3, <2>2, <2>3 DEF q, r
<1> QED  BY <1>2, <1>3

LEMMA RoundedUp ==
    ASSUME NEW a \in Nat \ {0}, NEW d \in Nat \ {0}
    PROVE  CeilDiv(a, d) \in Nat \ {0} /\ a <= d * CeilDiv(a, d)
<1>. DEFINE x == a + d - 1
            q == x \div d
<1>1. x \in Nat /\ d <= x /\ x = a + d - 1
  OBVIOUS
<1>. HIDE DEF x
<1>2. q \in Nat /\ x < d * q + d
  BY <1>1, Division
<1>3. CeilDiv(a, d) = q
  BY DEF CeilDiv, x
<1>. HIDE DEF q
<1>4. a <= d * q
  <2>. DEFINE y == d * q
  <2>1. y \in Nat
    BY <1>2
  <2>2. x < y + d
    BY <1>2
  <2>. HIDE DEF y
  <2>3. a <= y
    BY <1>1, <2>1, <2>2
  <2> QED  BY <2>3 DEF y
<1>5. q # 0
  <2> SUFFICES ASSUME q = 0 PROVE FALSE
    OBVIOUS
  <2>1. a <= d * 0
    BY <1>4
  <2> QED  BY <2>1
<1> QED  BY <1>2, <1>3, <1>4, <1>5

\* The rows of all the task cycles hold all the tasks.
RowsHold(a, d, n) ==
    n \in Nat \ {0} /\ \A idx \in 0..a-1 : idx % d \in 0..d-1 /\ idx \div d \in 0..3*n-1

LEMMA RowsHoldTasks ==
    ASSUME NEW a \in Nat \ {0}, NEW d \in Nat \ {0}
    PROVE  RowsHold(a, d, CeilDiv(CeilDiv(a, d), 3))
<1>. DEFINE r == CeilDiv(a, d)
            n == CeilDiv(r, 3)
<1>1. r \in Nat \ {0} /\ a <= d * r
  BY RoundedUp
<1>. HIDE DEF r
<1>2. n \in Nat \ {0} /\ r <= 3 * n
  <2>1. 3 \in Nat \ {0}
    OBVIOUS
  <2> QED  BY <1>1, <2>1, RoundedUp
<1>. HIDE DEF n
<1>3. ASSUME NEW idx \in 0..a-1
      PROVE  idx % d \in 0..d-1 /\ idx \div d \in 0..3*n-1
  <2>. DEFINE q == idx \div d
  <2>1. idx \in Nat /\ idx < a /\ q \in Nat /\ d * q <= idx /\ idx % d \in 0..d-1
    <3>1. idx \in Nat /\ idx < a
      OBVIOUS
    <3>2. q \in Nat /\ d * q <= idx /\ idx % d \in 0..d-1
      BY <3>1, Division, Zenon
    <3> QED  BY <3>1, <3>2
  <2>. HIDE DEF q
  <2>2. q < r
    <3> SUFFICES ASSUME r <= q PROVE FALSE
      BY <1>1, <2>1
    <3>1. r * d <= q * d
      BY <1>1, <2>1, Grows
    <3>2. r * d = d * r /\ q * d = d * q
      BY <1>1, <2>1
    <3>. DEFINE y == d * r
                z == d * q
    <3>3. y <= z /\ a <= y /\ z <= idx /\ y \in Nat /\ z \in Nat
      BY <1>1, <2>1, <3>1, <3>2
    <3>. HIDE DEF y, z
    <3> QED  BY <2>1, <3>3
  <2>3. q \in 0..3*n-1
    <3>1. r \in Nat /\ n \in Nat /\ r <= 3 * n /\ q \in Nat
      BY <1>1, <1>2, <2>1
    <3> QED  BY <2>2, <3>1
  <2> QED  BY <2>1, <2>3 DEF q
<1>4. RowsHold(a, d, n)
  BY <1>2, <1>3 DEF RowsHold
<1> QED  BY <1>4 DEF n, r

-----------------------------------------------------------------------------
(***************************************************************************)
(* The inductive invariant: what the driver and the device have been told, *)
(* where the two loops of the driver are, how far the device is in the     *)
(* words of a task cycle, and what has become of the tasks so far.         *)
(***************************************************************************)

Thr(t) == [regs |-> regs[t], mem |-> mem[t], sreg |-> sreg[t]]

Values ==
    /\ job \in Job /\ frame \in 1..Len(job.constants)
    /\ mem \in [Thread -> [0..MemDepth-1 -> Word]]
    /\ given \in [Thread -> [0..MemDepth-1 -> Word]]
    /\ regs \in [Thread -> [Reg -> Word]]
    /\ gmem \in Consts
    /\ \A t \in Thread : sreg[t].c \in BOOLEAN
    /\ Fits => \A t \in Thread : ~sreg[t].c

\* What the driver and the device have been told.
Told ==
    /\ at \in {"clear", "init", "write", "program", "const", "start", "run", "done", "read",
               "drawn"}
    /\ at \in {"clear", "init"} =>
          mtaskmem = 0 /\ ro_numtask = 0 /\ sz_per_task = 0 /\ num_cycles = 0
    /\ at \notin {"clear", "init"} =>
          /\ mtaskmem = job.mtaskmem /\ ro_numtask = Len(job.elements)
          /\ sz_per_task = mtaskmem * PARALLEL_CNT
          /\ num_cycles = CeilDiv(CeilDiv(ro_numtask, mnumthr), PARALLEL_CNT)
    /\ at \notin {"clear", "init", "write", "program"} => uploaded = Layout(job.program, mtaskmem)

\* Where the loops are.
Looped ==
    /\ at \notin {"write", "read"} => Loop0
    /\ at \in {"write", "read"} =>
          /\ idx_task \in 0..ro_numtask /\ idx_thread = ThreadOf(idx_task)
          /\ cycle_based_offset = BaseOf(idx_task)

Carried == Len(uploaded) - Len(pending)

\* What is left to carry out.
Fed ==
    /\ cur_cycle_idx \in 0..num_cycles /\ cur_task_ofst \in Nat
    /\ at # "run" => pending = <<>>
    /\ at = "run" =>
          /\ cur_cycle_idx < num_cycles
          /\ pending \in Seq(LaidWord) /\ Len(pending) <= Len(uploaded)
          /\ \A i \in 1..Len(pending) : pending[i] = uploaded[Carried + i]

\* What has been fetched.
Fetched ==
    /\ dst \in Seq([1..job.out -> Word]) /\ job.out * Len(dst) <= job.capacity
    /\ at = "read" => Len(dst) = idx_task
    /\ at = "drawn" => Len(dst) <= ro_numtask /\ (Len(dst) = ro_numtask \/ ~Room)
    /\ at \in {"read", "drawn"} /\ Fits =>
          \A n \in 1..Len(dst) : dst[n] =
             [k \in 1..job.out |-> mem[ThreadOf(n - 1)][BaseOf(n - 1) + job.ofst_out + k - 1]]

Lay == CHOOSE lay : Laid(lay, job.program, mtaskmem)

\* What has become of the tasks, when they fit.
Position ==
    /\ cur_task_ofst = cur_cycle_idx * sz_per_task /\ gmem[0] = cur_task_ofst
    /\ \A t \in Thread :
          InRun(Thr(t), given[t], gmem, job.program, mtaskmem, cur_cycle_idx, num_cycles, Lay,
                Carried)
RanAll ==
    \A t \in Thread : \A u \in 0..3*num_cycles-1 :
       Space(Thr(t), given[t], gmem, job.program, mtaskmem, u, Len(job.program))
Ran ==
    Fits => /\ at = "run" => Position
            /\ at \in {"done", "read", "drawn"} => RanAll

TasksInv == Values /\ Told /\ Looped /\ Fed /\ Fetched /\ Ran

LEMMA JobIs ==
    ASSUME NEW j \in Job
    PROVE  /\ j.mtaskmem \in Nat /\ j.ofst_in \in Nat
           /\ j.out \in Nat /\ j.ofst_out \in Nat /\ j.capacity \in Nat
           /\ Len(j.elements) \in Nat \ {0} /\ Len(j.constants) \in Nat \ {0}
           /\ \A f \in 1..Len(j.constants) :
                 \A a \in DOMAIN j.constants[f] : j.constants[f][a] \in Word
           /\ \A k \in 1..Len(j.elements) : j.elements[k] \in Seq(Word)
           /\ j.out + j.ofst_out <= j.mtaskmem
           /\ ro_max_word_per_thread = MemDepth
BY JobAssumption

\* Once the driver has been told about the tasks.
LEMMA ToldIs ==
    ASSUME TasksInv, at \notin {"clear", "init"}
    PROVE  /\ mtaskmem \in Nat /\ ro_numtask \in Nat \ {0} /\ num_cycles \in Nat \ {0}
           /\ sz_per_task = 3 * mtaskmem
           /\ \A idx \in 0..ro_numtask-1 :
                 ThreadOf(idx) \in Thread /\ idx \div mnumthr \in 0..3*num_cycles-1
           /\ Fits => num_cycles * (3 * mtaskmem) <= MemDepth
<1>1. /\ mtaskmem \in Nat /\ ro_numtask \in Nat \ {0}
      /\ num_cycles = CeilDiv(CeilDiv(ro_numtask, mnumthr), 3)
      /\ sz_per_task = mtaskmem * 3
  BY JobIs, Numbers DEF TasksInv, Values, Told
<1>2. mnumthr \in Nat \ {0} /\ Thread = 0..mnumthr-1
  BY Sizes
<1>3. \A idx \in 0..ro_numtask-1 :
         /\ num_cycles \in Nat \ {0} /\ idx % mnumthr \in 0..mnumthr-1
         /\ idx \div mnumthr \in 0..3*num_cycles-1
  <2>1. RowsHold(ro_numtask, mnumthr, num_cycles)
    BY <1>1, <1>2, RowsHoldTasks
  <2> QED  BY <2>1 DEF RowsHold
<1>4. 0 \in 0..ro_numtask-1
  BY <1>1
<1>5. num_cycles \in Nat \ {0}
  BY <1>3, <1>4
<1>6. sz_per_task = 3 * mtaskmem
  BY <1>1
<1>7. Fits => num_cycles * (3 * mtaskmem) <= MemDepth
  <2>1. ro_max_word_per_thread = MemDepth
    BY JobAssumption
  <2> QED  BY <1>6, <2>1 DEF Fits
<1> QED  BY <1>1, <1>2, <1>3, <1>5, <1>6, <1>7 DEF ThreadOf

\* A thread is one, and so it stays in a run.
LEMMA ThrIs ==
    ASSUME TasksInv, NEW t \in Thread
    PROVE  IsThread(Thr(t)) /\ (Fits => ~Thr(t).sreg.c) /\ given[t] \in [0..MemDepth-1 -> Word]
BY DEF TasksInv, Values, Thr, IsThread

LEMMA InRunning ==
    ASSUME AllConfined, TasksInv, Fits, at = "run", NEW t \in Thread
    PROVE  /\ Running(given[t], gmem, job.program, mtaskmem, cur_cycle_idx, num_cycles)
           /\ Laid(Lay, job.program, mtaskmem)
           /\ gmem[0] = cur_cycle_idx * (3 * mtaskmem)
<1>1. /\ mtaskmem \in Nat /\ num_cycles \in Nat \ {0}
      /\ sz_per_task = 3 * mtaskmem /\ num_cycles * (3 * mtaskmem) <= MemDepth
  BY ToldIs
<1>2. Confined(job.program, mtaskmem)
  BY DEF AllConfined, TasksInv, Values, Told
<1>3. cur_cycle_idx \in 0..num_cycles-1
  BY <1>1 DEF TasksInv, Fed
<1>4. given[t] \in [0..MemDepth-1 -> Word] /\ gmem \in Consts
  BY DEF TasksInv, Values
<1>5. gmem[0] = cur_cycle_idx * (3 * mtaskmem)
  BY <1>1 DEF TasksInv, Ran, Position
<1>6. Laid(Lay, job.program, mtaskmem)
  <2>1. job.program \in Seq(SourceWord)
    BY <1>2 DEF Confined
  <2>2. \E lay : Laid(lay, job.program, mtaskmem)
    BY <1>1, <2>1, LaidOut
  <2> QED  BY <2>2 DEF Lay
<1> QED  BY <1>1, <1>2, <1>3, <1>4, <1>5, <1>6 DEF Running

\* The invariant holds at the start.
LEMMA InitInv == TasksInit => TasksInv
<1> SUFFICES ASSUME TasksInit PROVE TasksInv
  OBVIOUS
<1>1. PICK x \in Garbage :
         /\ regs = [t \in Thread |-> [r \in Reg |-> x]]
         /\ mem = [t \in Thread |-> [a \in 0..MemDepth-1 |-> x]]
         /\ gmem = [a \in 0..NumConst-1 |-> x]
  BY DEF TasksInit
<1>2. x \in Word /\ job \in Job /\ Len(job.constants) \in Nat \ {0}
  BY JobAssumption DEF TasksInit
<1>3. /\ job.out \in Nat /\ job.capacity \in Nat
  BY <1>2, JobIs
<1>4. SregReset.c = FALSE
  BY DEF SregReset
<1>5. Values
  <2>1. frame \in 1..Len(job.constants)
    BY <1>2 DEF TasksInit
  <2>2. \A t \in Thread : ~sreg[t].c /\ sreg[t].c \in BOOLEAN
    BY <1>4 DEF TasksInit
  <2>3. mem \in [Thread -> [0..MemDepth-1 -> Word]] /\ given = mem
        /\ regs \in [Thread -> [Reg -> Word]] /\ gmem \in Consts
    BY <1>1, <1>2 DEF TasksInit, Consts
  <2> QED  BY <1>2, <2>1, <2>2, <2>3 DEF Values
<1>6. Told /\ Looped
  BY DEF TasksInit, Told, Looped, Loop0
<1>7. Fed
  BY DEF TasksInit, Fed
<1>8. Fetched
  <2>1. dst = <<>> /\ at = "clear"
    BY DEF TasksInit
  <2>2. dst \in Seq([1..job.out -> Word]) /\ Len(dst) = 0
    BY <2>1
  <2>3. job.out * 0 <= job.capacity
    BY <1>3
  <2> QED  BY <2>1, <2>2, <2>3 DEF Fetched
<1>9. Ran
  BY DEF TasksInit, Ran
<1> QED  BY <1>5, <1>6, <1>7, <1>8, <1>9 DEF TasksInv

\* A word carried out by every thread.
LEMMA ExecuteIs ==
    ASSUME NEW w, w.cond = "ALWAYS", Execute(w)
    PROVE  /\ regs' = [t \in Thread |-> regs'[t]]
           /\ mem' = [t \in Thread |-> mem'[t]]
           /\ \A t \in Thread : Thr(t)' = Effect(Thr(t), gmem, w)
<1>. DEFINE e(t) == Effect(Thr(t), gmem, w)
<1>1. /\ regs' = [t \in Thread |-> e(t).regs]
      /\ mem'  = [t \in Thread |-> e(t).mem]
      /\ sreg' = [t \in Thread |-> e(t).sreg]
  BY DEF Execute, Thr
<1>2. ASSUME NEW t \in Thread
      PROVE  \E r, m, s : e(t) = [regs |-> r, mem |-> m, sreg |-> s]
  BY DEF Effect, oVALID
<1>. HIDE DEF e
<1>3. ASSUME NEW t \in Thread
      PROVE  [regs |-> regs'[t], mem |-> mem'[t], sreg |-> sreg'[t]] = e(t)
  <2>1. PICK r, m, s : e(t) = [regs |-> r, mem |-> m, sreg |-> s]
    BY <1>2
  <2>2. regs'[t] = r /\ mem'[t] = m /\ sreg'[t] = s
    BY <1>1, <2>1
  <2> QED  BY <2>1, <2>2
<1>4. \A t \in Thread : Thr(t)' = e(t)
  BY <1>3 DEF Thr
<1>5. regs' = [t \in Thread |-> regs'[t]] /\ mem' = [t \in Thread |-> mem'[t]]
  BY <1>1
<1> QED  BY <1>4, <1>5 DEF e

\* In a run no carry is left.
LEMMA RunPlain ==
    ASSUME NEW thr, NEW g, NEW c, NEW prog, NEW m, NEW cyc, NEW n, NEW lay, NEW q,
           InRun(thr, g, c, prog, m, cyc, n, lay, q)
    PROVE  ~thr.sreg.c
<1>1. ASSUME NEW k, NEW j, InBlock(thr, g, c, prog, m, cyc, n, k, j)
      PROVE  ~thr.sreg.c
  <2>1. 0 \in 0..2
    OBVIOUS
  <2> QED  BY <1>1, <2>1 DEF InBlock, LaneAt, Alike
<1>2. InPrologue(thr, g, c, prog, m, cyc, n, q) => ~thr.sreg.c
  BY DEF InPrologue
<1> QED  BY <1>1, <1>2 DEF InRun

-----------------------------------------------------------------------------
(* Every step keeps the invariant.                                         *)

LEMMA MemClrKeeps == ASSUME TasksInv, MemClr PROVE TasksInv'
<1>1. Values'
  <2>1. mem' \in [Thread -> [0..MemDepth-1 -> Word]]
    <3>1. /\ mem \in [Thread -> [0..MemDepth-1 -> Word]]
          /\ mem' = [t \in Thread |->
                       [a \in 0..MemDepth-1 |-> IF a < ClearedWords THEN 0 ELSE mem[t][a]]]
      BY DEF MemClr, TasksInv, Values
    <3>2. 0 \in Word
      BY Sizes
    <3>3. ASSUME NEW t \in Thread, NEW a \in 0..MemDepth-1
          PROVE  (IF a < ClearedWords THEN 0 ELSE mem[t][a]) \in Word
      <4>1. mem[t][a] \in Word
        BY ONLY <3>1, <3>3
      <4> QED  BY ONLY <3>2, <4>1
    <3> QED  BY ONLY <3>1, <3>3
  <2> QED  BY <2>1 DEF MemClr, driverVars, deviceVars, TasksInv, Values, Fits
<1>2. Told'
  BY DEF MemClr, driverVars, deviceVars, TasksInv, Told
<1>3. Looped'
  BY DEF MemClr, loopVars, TasksInv, Looped, Loop0
<1>4. Fed'
  BY DEF MemClr, deviceVars, runVars, TasksInv, Fed
<1>5. Fetched'
  BY DEF MemClr, TasksInv, Fetched
<1>6. Ran'
  BY DEF MemClr, Ran
<1> QED  BY <1>1, <1>2, <1>3, <1>4, <1>5, <1>6 DEF TasksInv

LEMMA InitTaskKeeps == ASSUME TasksInv, InitTask PROVE TasksInv'
<1>1. num_cycles = 0 /\ sz_per_task = 0 /\ ro_numtask = 0
  BY DEF InitTask, TasksInv, Told
<1>2. Fits
  BY <1>1, Sizes, JobAssumption DEF Fits
<1>3. mtaskmem' \in Nat /\ ro_numtask' \in Nat \ {0} /\ num_cycles' \in Nat
  <2>1. mtaskmem' \in Nat /\ ro_numtask' \in Nat \ {0}
    BY JobIs DEF InitTask, TasksInv, Values
  <2>2. mnumthr \in Nat \ {0} /\ PARALLEL_CNT \in Nat \ {0}
    BY Sizes, Numbers
  <2>3. num_cycles' = CeilDiv(CeilDiv(ro_numtask', mnumthr), PARALLEL_CNT)
    BY DEF InitTask
  <2> QED  BY <2>1, <2>2, <2>3, RoundedUp
<1>4. Values'
  BY <1>2 DEF InitTask, TasksInv, Values
<1>5. Told'
  BY DEF InitTask, TasksInv, Told
<1>6. Looped'
  <2>1. idx_task = 0 /\ idx_thread = 0 /\ cycle_based_offset = 0
    BY DEF InitTask, TasksInv, Looped, Loop0
  <2>2. 0 % mnumthr = 0 /\ 0 \div mnumthr = 0
    BY Sizes
  <2>3. 0 * mtaskmem' = 0 /\ 0 \in 0..ro_numtask'
    <3>1. \A x \in Nat : 0 * x = 0 /\ 0 \in 0..x
      OBVIOUS
    <3> QED  BY <1>3, <3>1
  <2> QED  BY <2>1, <2>2, <2>3 DEF InitTask, loopVars, Looped, Loop0, ThreadOf, BaseOf
<1>7. Fed'
  BY <1>1, <1>3 DEF InitTask, runVars, TasksInv, Fed
<1>8. Fetched'
  BY DEF InitTask, TasksInv, Fetched
<1>9. Ran'
  BY DEF InitTask, Ran
<1> QED  BY <1>4, <1>5, <1>6, <1>7, <1>8, <1>9 DEF TasksInv

\* The loops of gppcu_write and gppcu_read go from task to task.
LEMMA NextTaskIs ==
    ASSUME TasksInv, at \in {"write", "read"}, idx_task < ro_numtask, NextTask,
           UNCHANGED <<at, mtaskmem, ro_numtask>>
    PROVE  Looped'
<1>1. /\ idx_task \in 0..ro_numtask /\ idx_thread = ThreadOf(idx_task)
      /\ cycle_based_offset = BaseOf(idx_task)
      /\ ro_numtask \in Nat /\ mtaskmem \in Nat
  BY ToldIs DEF TasksInv, Looped
<1>2. mnumthr \in Nat \ {0}
  BY Sizes
<1>3. idx_task \in Nat /\ idx_task + 1 \in 0..ro_numtask
  BY <1>1
<1>. DEFINE q == idx_task \div mnumthr
            r == (idx_task + 1) \div mnumthr
<1>4. /\ (idx_task + 1) % mnumthr = ((idx_task % mnumthr) + 1) % mnumthr
      /\ (idx_task % mnumthr) + 1 = mnumthr => r = q + 1
      /\ (idx_task % mnumthr) + 1 # mnumthr => r = q
  BY <1>2, <1>3, NextIs
<1>5. q \in Nat
  BY <1>2, <1>3, Division
<1>. HIDE DEF q, r
<1>6. (q + 1) * mtaskmem = q * mtaskmem + mtaskmem
  BY <1>1, <1>5
<1>7. idx_task' \in 0..ro_numtask' /\ idx_thread' = ThreadOf(idx_task')
  BY <1>1, <1>3, <1>4 DEF NextTask, ThreadOf
<1>8. cycle_based_offset' = r * mtaskmem
  BY <1>1, <1>4, <1>6 DEF NextTask, ThreadOf, BaseOf, q
<1>9. (BaseOf(idx_task))' = r * mtaskmem
  BY DEF BaseOf, NextTask, r
<1> QED  BY <1>7, <1>8, <1>9 DEF Looped

LEMMA WriteTaskKeeps == ASSUME TasksInv, WriteTask PROVE TasksInv'
<1>1. Looped'
  BY NextTaskIs DEF WriteTask, driverVars
<1>2. idx_thread \in Thread
  <2>1. idx_task \in 0..ro_numtask-1 /\ idx_thread = ThreadOf(idx_task)
    <3>1. idx_task \in 0..ro_numtask /\ idx_thread = ThreadOf(idx_task) /\ ro_numtask \in Nat
      BY ToldIs DEF WriteTask, TasksInv, Looped
    <3> QED  BY <3>1 DEF WriteTask
  <2> QED  BY <2>1, ToldIs DEF WriteTask
<1>3. mem' \in [Thread -> [0..MemDepth-1 -> Word]]
  <2>. DEFINE first == cycle_based_offset + job.ofst_in
              element == job.elements[idx_task + 1]
              at2(a) == LET k == (a - first) % MemDepth
                        IN  IF k < Len(element) THEN element[k + 1] ELSE mem[idx_thread][a]
              new == [a \in 0..MemDepth-1 |-> at2(a)]
  <2>1. mem' = [mem EXCEPT ![idx_thread] = new]
    BY DEF WriteTask
  <2>2. mem \in [Thread -> [0..MemDepth-1 -> Word]]
    BY DEF TasksInv, Values
  <2>3. element \in Seq(Word)
    <3>1. idx_task + 1 \in 1..Len(job.elements)
      <4>1. idx_task \in 0..ro_numtask /\ ro_numtask \in Nat /\ ro_numtask = Len(job.elements)
        BY ToldIs DEF WriteTask, TasksInv, Looped, Told
      <4> QED  BY <4>1 DEF WriteTask
    <3> QED  BY <3>1, JobIs DEF TasksInv, Values
  <2>4. first \in Int
    <3>1. mtaskmem \in Nat /\ idx_task \in Nat /\ job.ofst_in \in Nat
      <4>1. idx_task \in 0..ro_numtask /\ job \in Job
        BY DEF WriteTask, TasksInv, Looped, Values
      <4> QED  BY <4>1, ToldIs, JobIs DEF WriteTask
    <3>2. idx_task \div mnumthr \in Nat
      BY <3>1, Sizes, Division
    <3>3. BaseOf(idx_task) \in Nat
      BY <3>1, <3>2 DEF BaseOf
    <3>4. cycle_based_offset = BaseOf(idx_task)
      BY DEF WriteTask, TasksInv, Looped
    <3> QED  BY <3>1, <3>3, <3>4
  <2>. HIDE DEF first, element
  <2>5. ASSUME NEW a \in 0..MemDepth-1 PROVE at2(a) \in Word
    <3>. DEFINE k == (a - first) % MemDepth
    <3>1. k \in Nat
      BY <2>4, Sizes
    <3>. HIDE DEF k
    <3>2. k < Len(element) => element[k + 1] \in Word
      BY <2>3, <3>1
    <3>3. mem[idx_thread][a] \in Word
      BY <1>2, <2>2
    <3> QED  BY <3>2, <3>3 DEF k
  <2>. HIDE DEF at2
  <2>6. new \in [0..MemDepth-1 -> Word]
    BY <2>5
  <2>. HIDE DEF new
  <2> QED  BY <2>1, <2>2, <2>6
<1>4. Values'
  BY <1>3 DEF WriteTask, deviceVars, TasksInv, Values, Fits
<1>5. Told'
  BY DEF WriteTask, driverVars, deviceVars, TasksInv, Told
<1>6. Fed'
  BY DEF WriteTask, deviceVars, runVars, TasksInv, Fed
<1>7. Fetched'
  BY DEF WriteTask, TasksInv, Fetched
<1>8. Ran'
  BY DEF WriteTask, Ran
<1> QED  BY <1>1, <1>4, <1>5, <1>6, <1>7, <1>8 DEF TasksInv

LEMMA WriteEndsKeeps == ASSUME TasksInv, WriteEnds PROVE TasksInv'
<1>1. Values'
  BY DEF WriteEnds, isaVars, driverVars, deviceVars, TasksInv, Values, Fits
<1>2. Told'
  BY DEF WriteEnds, driverVars, deviceVars, TasksInv, Told
<1>3. Looped'
  BY DEF WriteEnds, Looped, Loop0
<1>4. Fed'
  BY DEF WriteEnds, isaVars, deviceVars, TasksInv, Fed
<1>5. Fetched'
  BY DEF WriteEnds, TasksInv, Fetched
<1>6. Ran'
  BY DEF WriteEnds, Ran
<1> QED  BY <1>1, <1>2, <1>3, <1>4, <1>5, <1>6 DEF TasksInv

LEMMA UploadProgramKeeps == ASSUME TasksInv, UploadProgram PROVE TasksInv'
<1>1. Values'
  BY DEF UploadProgram, isaVars, driverVars, TasksInv, Values, Fits
<1>2. Told'
  BY DEF UploadProgram, driverVars, TasksInv, Told
<1>3. Looped'
  BY DEF UploadProgram, loopVars, TasksInv, Looped, Loop0
<1>4. Fed'
  BY DEF UploadProgram, isaVars, TasksInv, Fed
<1>5. Fetched'
  BY DEF UploadProgram, TasksInv, Fetched
<1>6. Ran'
  BY DEF UploadProgram, Ran
<1> QED  BY <1>1, <1>2, <1>3, <1>4, <1>5, <1>6 DEF TasksInv

LEMMA WriteConstKeeps == ASSUME TasksInv, WriteConst PROVE TasksInv'
<1>1. gmem' \in Consts
  <2>1. gmem \in Consts /\ job \in Job /\ frame \in 1..Len(job.constants)
    BY DEF TasksInv, Values
  <2>2. \A a \in DOMAIN job.constants[frame] : job.constants[frame][a] \in Word
    BY <2>1, JobIs
  <2> QED  BY <2>1, <2>2 DEF WriteConst, Consts
<1>2. Values'
  BY <1>1 DEF WriteConst, driverVars, deviceVars, TasksInv, Values, Fits
<1>3. Told'
  BY DEF WriteConst, driverVars, deviceVars, TasksInv, Told
<1>4. Looped'
  BY DEF WriteConst, loopVars, TasksInv, Looped, Loop0
<1>5. Fed'
  BY DEF WriteConst, deviceVars, runVars, TasksInv, Fed
<1>6. Fetched'
  BY DEF WriteConst, TasksInv, Fetched
<1>7. Ran'
  BY DEF WriteConst, Ran
<1> QED  BY <1>2, <1>3, <1>4, <1>5, <1>6, <1>7 DEF TasksInv

\* The constant memory with the offset of a task cycle.
LEMMA OfferedIs ==
    ASSUME gmem \in Consts, NEW x \in Nat, Offered(x % DataSize)
    PROVE  /\ gmem' \in Consts /\ SameConsts(gmem, gmem') /\ gmem'[0] = x % DataSize
<1>1. x % DataSize \in Word
  BY ModWord
<1>2. 0 \in 0..NumConst-1 /\ \A a \in 1..NumConst-1 : a \in 0..NumConst-1 /\ a # 0
  BY Sizes
<1>. DEFINE y == x % DataSize
<1>. HIDE DEF y
<1>3. gmem' = [gmem EXCEPT ![0] = y] /\ y \in Word
  BY <1>1 DEF Offered, y
<1> QED  BY <1>2, <1>3 DEF Consts, SameConsts, y

\* What has been uploaded.
LEMMA LayIs ==
    ASSUME AllConfined, TasksInv, at \notin {"clear", "init"}
    PROVE  /\ Confined(job.program, mtaskmem) /\ mtaskmem \in Nat
           /\ Laid(Lay, job.program, mtaskmem)
           /\ Layout(job.program, mtaskmem) \in Seq(LaidWord)
           /\ \A a \in 1..Len(Layout(job.program, mtaskmem)) :
                 Fine(Layout(job.program, mtaskmem)[a])
<1>1. Confined(job.program, mtaskmem) /\ mtaskmem \in Nat
  BY ToldIs DEF AllConfined, TasksInv, Values, Told
<1>2. job.program \in Seq(SourceWord)
  BY <1>1 DEF Confined
<1>3. Laid(Lay, job.program, mtaskmem)
  <2>1. \E lay : Laid(lay, job.program, mtaskmem)
    BY <1>1, <1>2, LaidOut
  <2> QED  BY <2>1 DEF Lay
<1>4. Placed(Layout(job.program, mtaskmem), 0, Prologue(mtaskmem))
  BY <1>1, <1>2, <1>3, ProloguePlaced
<1>5. Layout(job.program, mtaskmem) \in Seq(LaidWord)
  BY <1>4 DEF Placed
<1> QED  BY <1>1, <1>3, <1>5, LayoutFine

LEMMA RunKeeps == ASSUME AllConfined, UnitsCompute, TasksInv, Run PROVE TasksInv'
<1>1. /\ Confined(job.program, mtaskmem) /\ Laid(Lay, job.program, mtaskmem)
      /\ uploaded \in Seq(LaidWord)
  <2>1. at = "start"
    BY DEF Run
  <2>2. uploaded = Layout(job.program, mtaskmem)
    BY <2>1 DEF TasksInv, Told
  <2> QED  BY <2>1, <2>2, LayIs
<1>2. /\ mtaskmem \in Nat /\ num_cycles \in Nat \ {0} /\ sz_per_task = 3 * mtaskmem
      /\ Fits => num_cycles * (3 * mtaskmem) <= MemDepth
  BY ToldIs DEF Run
<1>3. gmem' \in Consts /\ gmem'[0] = 0
  <2>1. gmem \in Consts /\ 0 \in Nat /\ 0 % DataSize = 0
    BY Sizes DEF TasksInv, Values
  <2>2. Offered(0 % DataSize)
    BY <2>1 DEF Run
  <2> QED  BY <2>1, <2>2, OfferedIs
<1>4. Values'
  BY <1>3 DEF Run, deviceVars, TasksInv, Values, Fits
<1>5. Told'
  BY DEF Run, driverVars, deviceVars, TasksInv, Told
<1>6. Looped'
  BY DEF Run, loopVars, TasksInv, Looped, Loop0
<1>7. Fed'
  <2>1. 0 \in 0..num_cycles /\ 0 < num_cycles
    BY <1>2
  <2>2. Carried' = 0 /\ Len(uploaded) <= Len(uploaded)
    BY <1>1 DEF Run, deviceVars, Carried
  <2>3. \A i \in 1..Len(uploaded) : 0 + i = i
    OBVIOUS
  <2> QED  BY <1>1, <2>1, <2>2, <2>3 DEF Run, deviceVars, Fed
<1>8. Fetched'
  BY DEF Run, TasksInv, Fetched
<1>9. Ran'
  <2> SUFFICES ASSUME Fits PROVE Position'
    BY DEF Run, deviceVars, Ran, Fits
  <2>1. Carried' = 0
    BY <1>1 DEF Run, deviceVars, Carried
  <2>2. Lay' = Lay
    BY DEF Run, driverVars, Lay
  <2>3. 0 * sz_per_task = 0
    BY <1>2
  <2>4. ASSUME NEW t \in Thread
        PROVE  InRun(Thr(t), mem[t], gmem', job.program, mtaskmem, 0, num_cycles, Lay, 0)
    <3>1. IsThread(Thr(t)) /\ ~Thr(t).sreg.c /\ Thr(t).mem = mem[t]
          /\ mem[t] \in [0..MemDepth-1 -> Word]
      BY ThrIs DEF Thr, TasksInv, Values
    <3>2. Running(mem[t], gmem', job.program, mtaskmem, 0, num_cycles)
      <4>1. 0 \in 0..num_cycles-1
        BY <1>2
      <4> QED  BY <1>1, <1>2, <1>3, <3>1, <4>1 DEF Running
    <3>3. InPrologue(Thr(t), mem[t], gmem', job.program, mtaskmem, 0, num_cycles, 0)
      BY <3>1, <3>2, RunBegins
    <3>4. 0 \in 0..13
      OBVIOUS
    <3> QED  BY <3>3, <3>4 DEF InRun
  <2>5. \A t \in Thread : Thr(t)' = Thr(t)
    BY DEF Run, Thr
  <2>6. /\ cur_task_ofst' = 0 /\ cur_cycle_idx' = 0 /\ given' = mem
        /\ UNCHANGED <<job, mtaskmem, num_cycles, sz_per_task>>
    BY DEF Run, driverVars, deviceVars
  <2>7. cur_task_ofst' = cur_cycle_idx' * sz_per_task' /\ gmem'[0] = cur_task_ofst'
    BY <1>3, <2>3, <2>6
  <2> QED  BY <2>1, <2>2, <2>4, <2>5, <2>6, <2>7 DEF Position
<1> QED  BY <1>4, <1>5, <1>6, <1>7, <1>8, <1>9 DEF TasksInv

\* The word that comes next.
LEMMA NextWord ==
    ASSUME AllConfined, TasksInv, at = "run", pending # <<>>
    PROVE  /\ uploaded = Layout(job.program, mtaskmem) /\ Carried \in 0..Len(uploaded)-1
           /\ Head(pending) = uploaded[Carried + 1] /\ Fine(Head(pending))
           /\ Tail(pending) \in Seq(LaidWord) /\ Len(Tail(pending)) <= Len(uploaded)
           /\ Len(uploaded) - Len(Tail(pending)) = Carried + 1
           /\ \A i \in 1..Len(Tail(pending)) : Tail(pending)[i] = uploaded[Carried + 1 + i]
<1>. DEFINE up == uploaded
            l == Len(pending)
            h == Len(up)
            q == h - l
<1>1. /\ up = Layout(job.program, mtaskmem) /\ up \in Seq(LaidWord)
      /\ \A a \in 1..Len(up) : Fine(up[a])
  <2>1. up = Layout(job.program, mtaskmem)
    BY DEF TasksInv, Told
  <2> QED  BY <2>1, LayIs
<1>2. /\ pending \in Seq(LaidWord) /\ l <= h
      /\ \A i \in 1..l : pending[i] = up[q + i]
  BY DEF TasksInv, Fed, Carried
<1>3. l \in Nat \ {0} /\ h \in Nat
  BY <1>1, <1>2
<1>4. /\ Head(pending) = pending[1] /\ Tail(pending) \in Seq(LaidWord)
      /\ Len(Tail(pending)) = l - 1
      /\ \A i \in 1..l-1 : Tail(pending)[i] = pending[i + 1]
  BY <1>2, <1>3
<1>5. Carried = q
  BY DEF Carried
<1>. HIDE DEF up, l, h
<1>6. q \in 0..h-1 /\ q + 1 \in 1..h /\ l - 1 <= h /\ h - (l - 1) = q + 1 /\ 1 \in 1..l
  BY <1>2, <1>3
<1>7. Head(pending) = up[q + 1] /\ Fine(Head(pending))
  BY <1>1, <1>2, <1>4, <1>6 DEF h
<1>8. \A i \in 1..l-1 : Tail(pending)[i] = up[q + 1 + i]
  <2>1. \A i \in 1..l-1 : i + 1 \in 1..l /\ q + (i + 1) = q + 1 + i
    BY <1>3, <1>6
  <2>. HIDE DEF q
  <2> QED  BY <1>2, <1>4, <2>1
<1>. HIDE DEF q
<1> QED  BY <1>1, <1>4, <1>5, <1>6, <1>7, <1>8 DEF up, h

LEMMA CarryOutWordKeeps ==
    ASSUME AllConfined, UnitsCompute, TasksInv, CarryOutWord PROVE TasksInv'
<1>. DEFINE w == Head(pending)
<1>1. /\ uploaded = Layout(job.program, mtaskmem) /\ Carried \in 0..Len(uploaded)-1
      /\ w = uploaded[Carried + 1] /\ Fine(w)
      /\ Tail(pending) \in Seq(LaidWord) /\ Len(Tail(pending)) <= Len(uploaded)
      /\ Len(uploaded) - Len(Tail(pending)) = Carried + 1
      /\ \A i \in 1..Len(Tail(pending)) : Tail(pending)[i] = uploaded[Carried + 1 + i]
  BY NextWord DEF CarryOutWord
<1>2. Execute(w) /\ pending' = Tail(pending) /\ at = "run"
      /\ UNCHANGED <<gmem, job, frame, at, mtaskmem, ro_numtask, sz_per_task, num_cycles,
                     uploaded, cur_task_ofst, cur_cycle_idx, dst, given>>
      /\ UNCHANGED <<idx_task, idx_thread, cycle_based_offset>>
  BY DEF CarryOutWord, driverVars, deviceVars, loopVars
<1>. HIDE DEF w
<1>3. /\ regs' = [t \in Thread |-> regs'[t]] /\ mem' = [t \in Thread |-> mem'[t]]
      /\ \A t \in Thread : Thr(t)' = Effect(Thr(t), gmem, w)
  <2>1. w.cond = "ALWAYS"
    BY <1>1 DEF Fine, LaidWord
  <2> QED  BY <1>2, <2>1, ExecuteIs
<1>4. \A t \in Thread : IsThread(Thr(t)')
  BY <1>1, <1>3, ThrIs, EffectKeeps DEF TasksInv, Values
<1>5. Carried' = Carried + 1
  BY <1>1, <1>2 DEF Carried
<1>6. Fits => Position'
  <2> SUFFICES ASSUME Fits PROVE Position'
    OBVIOUS
  <2>1. cur_task_ofst' = cur_cycle_idx' * sz_per_task' /\ gmem'[0] = cur_task_ofst'
    BY <1>2 DEF TasksInv, Ran, Position
  <2>2. Lay' = Lay
    BY <1>2 DEF Lay
  <2>3. ASSUME NEW t \in Thread
        PROVE  InRun(Thr(t)', given[t], gmem, job.program, mtaskmem, cur_cycle_idx, num_cycles,
                     Lay, Carried + 1)
    <3>1. /\ Running(given[t], gmem, job.program, mtaskmem, cur_cycle_idx, num_cycles)
          /\ Laid(Lay, job.program, mtaskmem) /\ gmem[0] = cur_cycle_idx * (3 * mtaskmem)
      BY <1>2, InRunning
    <3>2. InRun(Thr(t), given[t], gmem, job.program, mtaskmem, cur_cycle_idx, num_cycles, Lay,
                Carried)
      BY <1>2 DEF TasksInv, Ran, Position
    <3>3. Carried \in 0..Len(Layout(job.program, mtaskmem))-1
      BY <1>1
    <3>4. InRun(Effect(Thr(t), gmem, Layout(job.program, mtaskmem)[Carried + 1]), given[t], gmem,
                job.program, mtaskmem, cur_cycle_idx, num_cycles, Lay, Carried + 1)
      BY <3>1, <3>2, <3>3, WordStep
    <3> QED  BY <1>1, <1>3, <3>4
  <2> QED  BY <1>2, <1>5, <2>1, <2>2, <2>3 DEF Position
<1>7. Values'
  <2>1. \A t \in Thread : regs'[t] \in [Reg -> Word] /\ mem'[t] \in [0..MemDepth-1 -> Word]
                          /\ sreg'[t].c \in BOOLEAN
    BY <1>4 DEF IsThread, Thr
  <2>2. regs' \in [Thread -> [Reg -> Word]] /\ mem' \in [Thread -> [0..MemDepth-1 -> Word]]
    BY <1>3, <2>1
  <2>3. Fits' => \A t \in Thread : ~sreg'[t].c
    <3> SUFFICES ASSUME Fits', NEW t \in Thread PROVE ~sreg'[t].c
      OBVIOUS
    <3>1. Position'
      BY <1>2, <1>6 DEF Fits
    <3>2. ~Thr(t)'.sreg.c
      BY <3>1, RunPlain DEF Position
    <3> QED  BY <3>2 DEF Thr
  <2> QED  BY <1>2, <2>1, <2>2, <2>3 DEF TasksInv, Values
<1>8. Told'
  BY <1>2 DEF TasksInv, Told
<1>9. Looped'
  BY <1>2 DEF TasksInv, Looped, Loop0
<1>10. Fed'
  BY <1>1, <1>2, <1>5 DEF TasksInv, Fed
<1>11. Fetched'
  BY <1>2 DEF TasksInv, Fetched
<1>12. Ran'
  <2>1. Fits' = Fits /\ at' = "run"
    BY <1>2 DEF Fits
  <2> QED  BY <1>6, <2>1 DEF Ran
<1> QED  BY <1>7, <1>8, <1>9, <1>10, <1>11, <1>12 DEF TasksInv

\* At the end of a task cycle that fits.
LEMMA CycleEnds ==
    ASSUME AllConfined, UnitsCompute, TasksInv, Fits, at = "run", pending = <<>>, NEW t \in Thread
    PROVE  /\ \A u \in 0..3*(cur_cycle_idx+1)-1 :
                 Space(Thr(t), given[t], gmem, job.program, mtaskmem, u, Len(job.program))
           /\ \A u \in 3*(cur_cycle_idx+1)..3*num_cycles-1 :
                 Space(Thr(t), given[t], gmem, job.program, mtaskmem, u, 0)
<1>1. /\ Running(given[t], gmem, job.program, mtaskmem, cur_cycle_idx, num_cycles)
      /\ Laid(Lay, job.program, mtaskmem)
  BY InRunning
<1>2. Carried = Len(Layout(job.program, mtaskmem))
  <2>1. uploaded = Layout(job.program, mtaskmem)
    BY DEF TasksInv, Told
  <2>2. uploaded \in Seq(LaidWord)
    BY <2>1, LayIs
  <2> QED  BY <2>1, <2>2 DEF Carried
<1>3. InRun(Thr(t), given[t], gmem, job.program, mtaskmem, cur_cycle_idx, num_cycles, Lay, Carried)
  BY DEF TasksInv, Ran, Position
<1>4. InRun(Thr(t), given[t], gmem, job.program, mtaskmem, cur_cycle_idx, num_cycles, Lay,
            Len(Layout(job.program, mtaskmem)))
  BY <1>2, <1>3
<1>5. InBlock(Thr(t), given[t], gmem, job.program, mtaskmem, cur_cycle_idx, num_cycles,
              Len(job.program), 0)
  BY <1>1, <1>4, RunDone
<1> QED  BY <1>1, <1>5, CycleDone

\* The offset of the next task cycle is that of its first row.
LEMMA NextOffset ==
    ASSUME NEW cyc \in Nat, NEW n \in Nat, NEW m \in Nat, cyc + 1 < n, n * m <= MemDepth
    PROVE  (cyc * m + m) % DataSize = (cyc + 1) * m
<1>1. (cyc + 1) * m = cyc * m + m /\ (cyc + 1) * m \in Nat
  OBVIOUS
<1>2. (cyc + 1) * m <= n * m
  BY Grows
<1>. DEFINE x == (cyc + 1) * m
            y == n * m
<1>3. x \in Nat /\ x <= y /\ y <= MemDepth /\ y \in Nat
  BY <1>1, <1>2
<1>. HIDE DEF x, y
<1>4. x \in 0..DataSize-1 /\ DataSize \in Nat
  BY <1>3, Sizes
<1>5. x % DataSize = x
  BY <1>4, ModSmall
<1> QED  BY <1>1, <1>5 DEF x

LEMMA NextCycleKeeps == ASSUME AllConfined, UnitsCompute, TasksInv, NextCycle PROVE TasksInv'
<1>1. /\ at = "run" /\ pending = <<>> /\ cur_cycle_idx' = cur_cycle_idx + 1
      /\ UNCHANGED <<regs, sreg, mem, job, frame, mtaskmem, ro_numtask, sz_per_task, num_cycles,
                     uploaded, dst, given>>
      /\ UNCHANGED <<idx_task, idx_thread, cycle_based_offset>>
  BY DEF NextCycle, driverVars, deviceVars, loopVars
<1>2. /\ mtaskmem \in Nat /\ num_cycles \in Nat \ {0} /\ sz_per_task = 3 * mtaskmem
      /\ Fits => num_cycles * (3 * mtaskmem) <= MemDepth
  BY <1>1, ToldIs
<1>3. cur_cycle_idx \in 0..num_cycles-1 /\ cur_task_ofst \in Nat /\ gmem \in Consts
  BY <1>1, <1>2 DEF TasksInv, Fed, Values
<1>4. \A t \in Thread : Thr(t)' = Thr(t)
  BY <1>1 DEF Thr
<1>5. Looped'
  <2>1. at' # "write" /\ at' # "read"
    BY <1>1 DEF NextCycle
  <2> QED  BY <1>1, <2>1 DEF TasksInv, Looped, Loop0
<1>6. CASE cur_cycle_idx' = num_cycles
  <2>1. at' = "done" /\ UNCHANGED <<gmem, cur_task_ofst, pending>>
    BY <1>6 DEF NextCycle
  <2>2. Values'
    BY <1>1, <2>1 DEF TasksInv, Values, Fits
  <2>3. Told'
    BY <1>1, <2>1 DEF TasksInv, Told
  <2>4. Fed'
    BY <1>1, <1>2, <1>3, <1>6, <2>1 DEF TasksInv, Fed
  <2>5. Fetched'
    BY <1>1, <2>1 DEF TasksInv, Fetched
  <2>6. Ran'
    <3> SUFFICES ASSUME Fits PROVE RanAll'
      BY <1>1, <2>1 DEF Ran, Fits
    <3>1. cur_cycle_idx + 1 = num_cycles
      BY <1>1, <1>6
    <3>2. ASSUME NEW t \in Thread, NEW u \in 0..3*num_cycles-1
          PROVE  Space(Thr(t), given[t], gmem, job.program, mtaskmem, u, Len(job.program))
      BY <1>1, <3>1, CycleEnds
    <3> QED  BY <1>1, <1>4, <2>1, <3>2 DEF RanAll
  <2> QED  BY <1>5, <2>2, <2>3, <2>4, <2>5, <2>6 DEF TasksInv
<1>7. CASE cur_cycle_idx' # num_cycles
  <2>1. /\ cur_task_ofst' = (cur_task_ofst + sz_per_task) % DataSize
        /\ Offered((cur_task_ofst + sz_per_task) % DataSize)
        /\ pending' = uploaded /\ at' = "run"
    BY <1>1, <1>7 DEF NextCycle, Offered
  <2>2. cur_task_ofst + sz_per_task \in Nat
    BY <1>2, <1>3
  <2>3. gmem' \in Consts /\ SameConsts(gmem, gmem') /\ gmem'[0] = cur_task_ofst'
    BY <1>3, <2>1, <2>2, OfferedIs
  <2>4. cur_task_ofst' \in Nat
    BY <2>1, <2>2, Sizes
  <2>5. uploaded \in Seq(LaidWord) /\ uploaded = Layout(job.program, mtaskmem)
        /\ Confined(job.program, mtaskmem) /\ Laid(Lay, job.program, mtaskmem)
    <3>1. uploaded = Layout(job.program, mtaskmem)
      BY <1>1 DEF TasksInv, Told
    <3> QED  BY <1>1, <3>1, LayIs
  <2>6. Carried' = 0
    BY <1>1, <2>1, <2>5 DEF Carried
  <2>7. cur_cycle_idx + 1 \in 0..num_cycles-1
    BY <1>1, <1>2, <1>3, <1>7
  <2>8. Values'
    BY <1>1, <2>1, <2>3 DEF TasksInv, Values, Fits
  <2>9. Told'
    BY <1>1, <2>1 DEF TasksInv, Told
  <2>10. Fed'
    <3>1. \A i \in 1..Len(uploaded) : 0 + i = i
      OBVIOUS
    <3>2. Len(uploaded) <= Len(uploaded)
      BY <2>5
    <3>3. cur_cycle_idx' \in 0..num_cycles /\ cur_cycle_idx' < num_cycles
      BY <1>1, <1>2, <2>7
    <3> QED  BY <1>1, <2>1, <2>4, <2>5, <2>6, <3>1, <3>2, <3>3 DEF Fed
  <2>11. Fetched'
    BY <1>1, <2>1 DEF TasksInv, Fetched
  <2>12. Ran'
    <3> SUFFICES ASSUME Fits PROVE Position'
      BY <1>1, <2>1 DEF Ran, Fits
    <3>1. cur_task_ofst' = cur_cycle_idx' * sz_per_task'
      <4>1. cur_task_ofst = cur_cycle_idx * sz_per_task
        BY <1>1 DEF TasksInv, Ran, Position
      <4>2. (cur_cycle_idx * sz_per_task + sz_per_task) % DataSize
               = (cur_cycle_idx + 1) * sz_per_task
        <5>1. sz_per_task \in Nat /\ num_cycles * sz_per_task <= MemDepth
              /\ cur_cycle_idx + 1 < num_cycles
          BY <1>2, <2>7
        <5> QED  BY <1>2, <1>3, <5>1, NextOffset
      <4> QED  BY <1>1, <2>1, <4>1, <4>2
    <3>2. Lay' = Lay
      BY <1>1 DEF Lay
    <3>3. ASSUME NEW t \in Thread
          PROVE  InRun(Thr(t), given[t], gmem', job.program, mtaskmem, cur_cycle_idx + 1,
                       num_cycles, Lay, 0)
      <4>1. /\ \A u \in 0..3*(cur_cycle_idx+1)-1 :
                  Space(Thr(t), given[t], gmem, job.program, mtaskmem, u, Len(job.program))
            /\ \A u \in 3*(cur_cycle_idx+1)..3*num_cycles-1 :
                  Space(Thr(t), given[t], gmem, job.program, mtaskmem, u, 0)
        BY <1>1, CycleEnds
      <4>2. IsThread(Thr(t)) /\ ~Thr(t).sreg.c
        BY ThrIs
      <4>3. cur_cycle_idx + 1 \in Nat /\ num_cycles \in Nat
        BY <1>2, <1>3
      <4>4. InPrologue(Thr(t), given[t], gmem', job.program, mtaskmem, cur_cycle_idx + 1,
                       num_cycles, 0)
        BY <2>3, <2>5, <1>2, <4>1, <4>2, <4>3, CycleBegins
      <4>5. 0 \in 0..13
        OBVIOUS
      <4> QED  BY <4>4, <4>5 DEF InRun
    <3> QED  BY <1>1, <1>4, <2>3, <2>6, <3>1, <3>2, <3>3 DEF Position
  <2> QED  BY <1>5, <2>8, <2>9, <2>10, <2>11, <2>12 DEF TasksInv
<1> QED  BY <1>6, <1>7

\* What came out of the run stays while the results are fetched.
LEMMA RanStays ==
    ASSUME TasksInv, at \in {"done", "read"}, at' \in {"read", "drawn"},
           UNCHANGED <<regs, mem, sreg, gmem, job, given, mtaskmem, num_cycles, sz_per_task>>
    PROVE  Ran'
<1>1. Fits' = Fits
  BY DEF Fits
<1>2. Fits => RanAll
  BY DEF TasksInv, Ran
<1>3. \A t \in Thread : Thr(t)' = Thr(t)
  BY DEF Thr
<1>4. RanAll => RanAll'
  BY <1>3 DEF RanAll
<1> QED  BY <1>1, <1>2, <1>4 DEF Ran

LEMMA DownloadKeeps == ASSUME TasksInv, Download PROVE TasksInv'
<1>1. Values'
  BY DEF Download, isaVars, driverVars, deviceVars, TasksInv, Values, Fits
<1>2. Told'
  BY DEF Download, driverVars, deviceVars, TasksInv, Told
<1>3. Looped'
  <2>1. idx_task = 0 /\ idx_thread = 0 /\ cycle_based_offset = 0
    BY DEF Download, TasksInv, Looped, Loop0
  <2>2. 0 % mnumthr = 0 /\ 0 \div mnumthr = 0
    BY Sizes
  <2>3. 0 * mtaskmem = 0 /\ 0 \in 0..ro_numtask
    <3>1. mtaskmem \in Nat /\ ro_numtask \in Nat
      BY ToldIs DEF Download
    <3> QED  BY <3>1
  <2> QED  BY <2>1, <2>2, <2>3 DEF Download, loopVars, driverVars, Looped, Loop0, ThreadOf, BaseOf
<1>4. Fed'
  BY DEF Download, isaVars, deviceVars, TasksInv, Fed
<1>5. Fetched'
  <2>1. dst' = <<>> /\ at' = "read" /\ idx_task' = 0 /\ job' = job
    BY DEF Download, loopVars, TasksInv, Looped, Loop0
  <2>2. job.out * 0 <= job.capacity
    <3>1. job.out \in Nat /\ job.capacity \in Nat
      BY JobIs DEF TasksInv, Values
    <3> QED  BY <3>1
  <2>3. dst' \in Seq([1..job.out -> Word]) /\ Len(dst') = 0
    BY <2>1
  <2> QED  BY <2>1, <2>2, <2>3 DEF Fetched
<1>6. Ran'
  BY RanStays DEF Download, isaVars, driverVars, deviceVars
<1> QED  BY <1>1, <1>2, <1>3, <1>4, <1>5, <1>6 DEF TasksInv

\* The loop of gppcu_read is at the task that comes behind those fetched.
LEMMA ReadsTask ==
    ASSUME TasksInv, at = "read", idx_task < ro_numtask
    PROVE  /\ idx_task \in 0..ro_numtask-1 /\ idx_task = Len(dst)
           /\ idx_thread = ThreadOf(idx_task) /\ idx_thread \in Thread
           /\ cycle_based_offset = BaseOf(idx_task)
           /\ \A k \in 1..job.out :
                 /\ cycle_based_offset + job.ofst_out + k - 1 \in Nat
                 /\ Fits => cycle_based_offset + job.ofst_out + k - 1 \in 0..MemDepth-1
<1>1. /\ idx_task \in 0..ro_numtask /\ idx_thread = ThreadOf(idx_task)
      /\ cycle_based_offset = BaseOf(idx_task) /\ Len(dst) = idx_task
  BY DEF TasksInv, Looped, Fetched
<1>2. /\ mtaskmem \in Nat /\ ro_numtask \in Nat \ {0} /\ num_cycles \in Nat \ {0}
      /\ \A idx \in 0..ro_numtask-1 :
            ThreadOf(idx) \in Thread /\ idx \div mnumthr \in 0..3*num_cycles-1
      /\ Fits => num_cycles * (3 * mtaskmem) <= MemDepth
  BY ToldIs
<1>3. idx_task \in 0..ro_numtask-1
  BY <1>1, <1>2
<1>. DEFINE u == idx_task \div mnumthr
            b == u * mtaskmem
<1>4. u \in 0..3*num_cycles-1 /\ idx_thread \in Thread /\ cycle_based_offset = b
  BY <1>1, <1>2, <1>3 DEF BaseOf
<1>. HIDE DEF u
<1>5. u \in Nat /\ b \in Nat
  BY <1>2, <1>4
<1>6. Fits => b + mtaskmem <= MemDepth
  BY <1>2, <1>4, RowFits, Sizes
<1>7. job.out \in Nat /\ job.ofst_out \in Nat /\ job.out + job.ofst_out <= mtaskmem
  BY JobIs DEF TasksInv, Values, Told
<1>. HIDE DEF b
<1>8. ASSUME NEW k \in 1..job.out
      PROVE  /\ b + job.ofst_out + k - 1 \in Nat
             /\ Fits => b + job.ofst_out + k - 1 \in 0..MemDepth-1
  <2>. DEFINE o == job.ofst_out
              m == job.out
              d == MemDepth
  <2>1. b \in Nat /\ o \in Nat /\ m \in Nat /\ k \in 1..m /\ d \in Nat /\ mtaskmem \in Nat
        /\ m + o <= mtaskmem
    BY <1>2, <1>5, <1>7, <1>8, Sizes
  <2>2. Fits => b + mtaskmem <= d
    BY <1>6
  <2>. HIDE DEF o, m, d
  <2>3. b + o + k - 1 \in Nat /\ (b + mtaskmem <= d => b + o + k - 1 \in 0..d-1)
    BY <2>1
  <2> QED  BY <2>2, <2>3 DEF o, d
<1> QED  BY <1>1, <1>3, <1>4, <1>8

LEMMA ReadTaskKeeps == ASSUME TasksInv, ReadTask PROVE TasksInv'
<1>1. Looped'
  BY NextTaskIs DEF ReadTask, driverVars
<1>2. Values'
  BY DEF ReadTask, isaVars, deviceVars, TasksInv, Values, Fits
<1>3. Told'
  BY DEF ReadTask, driverVars, deviceVars, TasksInv, Told
<1>4. Fed'
  BY DEF ReadTask, isaVars, deviceVars, TasksInv, Fed
<1>5. Ran'
  BY RanStays DEF ReadTask, isaVars, driverVars, deviceVars
<1>6. Fetched'
  <2>. DEFINE l == Len(dst)
              o == cycle_based_offset + job.ofst_out
              new == [k \in 1..job.out |-> mem[idx_thread][(o + k - 1) % MemDepth]]
  <2>1. /\ dst' = Append(dst, new) /\ at' = "read" /\ idx_task' = idx_task + 1
        /\ UNCHANGED <<job, mem, mtaskmem, num_cycles, sz_per_task>>
    BY DEF ReadTask, NextTask, isaVars, driverVars, deviceVars
  <2>2. /\ idx_task \in 0..ro_numtask-1 /\ idx_task = l
        /\ idx_thread = ThreadOf(idx_task) /\ idx_thread \in Thread
        /\ cycle_based_offset = BaseOf(idx_task)
        /\ \A k \in 1..job.out :
              /\ o + k - 1 \in Nat
              /\ Fits => o + k - 1 \in 0..MemDepth-1
    BY ReadsTask DEF ReadTask
  <2>3. mem[idx_thread] \in [0..MemDepth-1 -> Word]
    BY <2>2 DEF TasksInv, Values
  <2>4. dst \in Seq([1..job.out -> Word]) /\ l \in Nat
    BY DEF TasksInv, Fetched
  <2>5. new \in [1..job.out -> Word]
    <3>1. \A k \in 1..job.out : (o + k - 1) % MemDepth \in 0..MemDepth-1
      BY <2>2, ModWord
    <3>. HIDE DEF o
    <3> QED  BY <2>3, <3>1
  <2>6. Fits => new = [k \in 1..job.out |->
                 mem[ThreadOf(idx_task)][BaseOf(idx_task) + job.ofst_out + k - 1]]
    <3> SUFFICES ASSUME Fits PROVE new = [k \in 1..job.out |-> mem[idx_thread][o + k - 1]]
      BY <2>2
    <3>1. \A k \in 1..job.out : (o + k - 1) % MemDepth = o + k - 1
      BY <2>2, ModSmall, Sizes
    <3>. HIDE DEF o
    <3> QED  BY <3>1
  <2>. HIDE DEF new
  <2>7. /\ dst' \in Seq([1..job.out -> Word]) /\ Len(dst') = l + 1
        /\ dst'[l + 1] = new /\ \A n \in 1..l : dst'[n] = dst[n]
    BY <2>1, <2>4, <2>5
  <2>8. job.out * (l + 1) <= job.capacity
    <3>1. job.out * (l + 1) < job.capacity
      BY DEF ReadTask, Room
    <3>2. job.out \in Nat /\ job.capacity \in Nat
      BY JobIs DEF TasksInv, Values
    <3>. DEFINE x == job.out * (l + 1)
    <3>3. x \in Nat
      BY <2>4, <3>2
    <3>. HIDE DEF x
    <3>4. x < job.capacity
      BY <3>1 DEF x
    <3>5. x <= job.capacity
      BY <3>2, <3>3, <3>4
    <3> QED  BY <3>5 DEF x
  <2>9. ASSUME Fits, NEW n \in 1..l+1
        PROVE  dst'[n] = [k \in 1..job.out |->
                             mem[ThreadOf(n - 1)][BaseOf(n - 1) + job.ofst_out + k - 1]]
    <3>1. CASE n = l + 1
      <4>1. n - 1 = idx_task
        BY <2>2, <2>4, <3>1
      <4> QED  BY <2>6, <2>7, <2>9, <3>1, <4>1
    <3>2. CASE n # l + 1
      <4>1. n \in 1..l
        BY <2>4, <2>9, <3>2
      <4>2. dst[n] = [k \in 1..job.out |->
                             mem[ThreadOf(n - 1)][BaseOf(n - 1) + job.ofst_out + k - 1]]
        BY <2>9, <4>1 DEF ReadTask, TasksInv, Fetched
      <4> QED  BY <2>7, <4>1, <4>2
    <3> QED  BY <3>1, <3>2
  <2>10. Len(dst') = idx_task'
    BY <2>1, <2>2, <2>7
  <2>11. Fits' = Fits /\ \A n : BaseOf(n)' = BaseOf(n) /\ ThreadOf(n)' = ThreadOf(n)
    BY <2>1 DEF Fits, BaseOf, ThreadOf
  <2>12. ASSUME Fits', NEW n \in 1..Len(dst')
         PROVE  dst'[n] = [k \in 1..job.out' |->
                   mem'[ThreadOf(n - 1)'][BaseOf(n - 1)' + job'.ofst_out + k - 1]]
    <3>1. dst'[n] = [k \in 1..job.out |->
                         mem[ThreadOf(n - 1)][BaseOf(n - 1) + job.ofst_out + k - 1]]
      BY <2>7, <2>9, <2>11, <2>12
    <3>2. BaseOf(n - 1)' = BaseOf(n - 1) /\ ThreadOf(n - 1)' = ThreadOf(n - 1)
      BY <2>11
    <3> QED  BY <2>1, <3>1, <3>2
  <2>. HIDE DEF l
  <2>13. dst' \in Seq([1..job'.out -> Word]) /\ job'.out * Len(dst') <= job'.capacity
    BY <2>1, <2>7, <2>8
  <2> QED  BY <2>1, <2>10, <2>12, <2>13 DEF Fetched
<1> QED  BY <1>1, <1>2, <1>3, <1>4, <1>5, <1>6 DEF TasksInv

LEMMA ReadEndsKeeps == ASSUME TasksInv, ReadEnds PROVE TasksInv'
<1>1. Values'
  BY DEF ReadEnds, isaVars, driverVars, deviceVars, TasksInv, Values, Fits
<1>2. Told'
  BY DEF ReadEnds, driverVars, deviceVars, TasksInv, Told
<1>3. Looped'
  BY DEF ReadEnds, Looped, Loop0
<1>4. Fed'
  BY DEF ReadEnds, isaVars, deviceVars, TasksInv, Fed
<1>5. Ran'
  BY RanStays DEF ReadEnds, isaVars, driverVars, deviceVars
<1>6. Fetched'
  <2>1. /\ at = "read" /\ at' = "drawn" /\ (idx_task = ro_numtask \/ ~Room)
        /\ UNCHANGED <<job, mem, dst, mtaskmem, ro_numtask, num_cycles, sz_per_task>>
    BY DEF ReadEnds, isaVars, driverVars, deviceVars
  <2>2. Len(dst) = idx_task /\ idx_task <= ro_numtask
    <3>1. Len(dst) = idx_task /\ idx_task \in 0..ro_numtask
      BY <2>1 DEF TasksInv, Fetched, Looped
    <3> QED  BY <3>1
  <2>3. Fits' = Fits /\ Room' = Room /\ \A n : BaseOf(n)' = BaseOf(n) /\ ThreadOf(n)' = ThreadOf(n)
    BY <2>1 DEF Fits, Room, BaseOf, ThreadOf
  <2>4. ASSUME Fits', NEW n \in 1..Len(dst)
        PROVE  dst[n] = [k \in 1..job.out |->
                  mem[ThreadOf(n - 1)'][BaseOf(n - 1)' + job.ofst_out + k - 1]]
    <3>1. dst[n] = [k \in 1..job.out |->
                       mem[ThreadOf(n - 1)][BaseOf(n - 1) + job.ofst_out + k - 1]]
      BY <2>1, <2>3, <2>4 DEF TasksInv, Fetched
    <3>2. BaseOf(n - 1)' = BaseOf(n - 1) /\ ThreadOf(n - 1)' = ThreadOf(n - 1)
      BY <2>3
    <3> QED  BY <3>1, <3>2
  <2>5. dst \in Seq([1..job.out -> Word]) /\ job.out * Len(dst) <= job.capacity
    BY DEF TasksInv, Fetched
  <2> QED  BY <2>1, <2>2, <2>3, <2>4, <2>5 DEF Fetched
<1> QED  BY <1>1, <1>2, <1>3, <1>4, <1>5, <1>6 DEF TasksInv

LEMMA NextRoundKeeps == ASSUME TasksInv, NextRound PROVE TasksInv'
<1>1. Values'
  <2>1. frame + 1 \in 1..Len(job.constants)
    <3>1. frame \in 1..Len(job.constants) /\ Len(job.constants) \in Nat /\ frame < Len(job.constants)
      BY JobIs DEF NextRound, TasksInv, Values
    <3> QED  BY <3>1
  <2> QED  BY <2>1 DEF NextRound, isaVars, driverVars, deviceVars, TasksInv, Values, Fits
<1>2. Told'
  BY DEF NextRound, driverVars, deviceVars, TasksInv, Told
<1>3. Looped'
  BY DEF NextRound, loopVars, TasksInv, Looped, Loop0
<1>4. Fed'
  BY DEF NextRound, isaVars, deviceVars, TasksInv, Fed
<1>5. Fetched'
  BY DEF NextRound, TasksInv, Fetched
<1>6. Ran'
  BY DEF NextRound, Ran
<1> QED  BY <1>1, <1>2, <1>3, <1>4, <1>5, <1>6 DEF TasksInv

LEMMA NextKeeps ==
    ASSUME AllConfined, UnitsCompute, TasksInv, [TasksNext]_tasksVars PROVE TasksInv'
<1>1. CASE TasksNext
  <2>1. CASE MemClr
    BY <2>1, MemClrKeeps
  <2>2. CASE InitTask
    BY <2>2, InitTaskKeeps
  <2>3. CASE WriteTask
    BY <2>3, WriteTaskKeeps
  <2>4. CASE WriteEnds
    BY <2>4, WriteEndsKeeps
  <2>5. CASE UploadProgram
    BY <2>5, UploadProgramKeeps
  <2>6. CASE WriteConst
    BY <2>6, WriteConstKeeps
  <2>7. CASE Run
    BY <2>7, RunKeeps
  <2>8. CASE CarryOutWord
    BY <2>8, CarryOutWordKeeps
  <2>9. CASE NextCycle
    BY <2>9, NextCycleKeeps
  <2>10. CASE Download
    BY <2>10, DownloadKeeps
  <2>11. CASE ReadTask
    BY <2>11, ReadTaskKeeps
  <2>12. CASE ReadEnds
    BY <2>12, ReadEndsKeeps
  <2>13. CASE NextRound
    BY <2>13, NextRoundKeeps
  <2> QED  BY <1>1, <2>1, <2>2, <2>3, <2>4, <2>5, <2>6, <2>7, <2>8, <2>9, <2>10, <2>11, <2>12,
              <2>13 DEF TasksNext
<1>2. CASE UNCHANGED tasksVars
  <2>. USE <1>2 DEF tasksVars, isaVars, driverVars, deviceVars, loopVars
  <2>1. Values'
    BY DEF TasksInv, Values, Fits
  <2>2. Told' /\ Looped' /\ Fed'
    BY DEF TasksInv, Told, Looped, Loop0, ThreadOf, BaseOf, Fed, Carried
  <2>3. Fits' = Fits /\ Room' = Room /\ Carried' = Carried /\ Lay' = Lay
        /\ \A n : BaseOf(n)' = BaseOf(n) /\ ThreadOf(n)' = ThreadOf(n)
    BY DEF Fits, Room, Carried, Lay, BaseOf, ThreadOf
  <2>4. Fetched'
    BY <2>3 DEF TasksInv, Fetched
  <2>5. \A t \in Thread : Thr(t)' = Thr(t)
    BY DEF Thr
  <2>6. RanAll => RanAll'
    BY <2>5 DEF RanAll
  <2>7. Position => Position'
    BY <2>3, <2>5 DEF Position
  <2>8. Ran'
    BY <2>3, <2>6, <2>7 DEF TasksInv, Ran
  <2> QED  BY <2>1, <2>2, <2>4, <2>8 DEF TasksInv
<1> QED  BY <1>1, <1>2

-----------------------------------------------------------------------------
(* What the invariant says.                                                *)

\* The space of a task, once the run has ended.
LEMMA SpaceOfTask ==
    ASSUME TasksInv, at \notin {"clear", "init"}, RanAll, NEW idx \in 0..ro_numtask-1
    PROVE  \A k \in 0..mtaskmem-1 :
              mem[ThreadOf(idx)][BaseOf(idx) + k] = Alone(idx)[BaseOf(idx) + k]
<1>. DEFINE u == idx \div mnumthr
            t == ThreadOf(idx)
<1>1. u \in 0..3*num_cycles-1 /\ t \in Thread /\ BaseOf(idx) = u * mtaskmem
  BY ToldIs DEF BaseOf
<1>2. Alone(idx) = Row(given[t], gmem, job.program, mtaskmem, u)[Len(job.program)].mem
  BY DEF Alone, Row, BaseOf
<1>. HIDE DEF u, t
<1>3. Space(Thr(t), given[t], gmem, job.program, mtaskmem, u, Len(job.program))
  BY <1>1 DEF RanAll
<1>4. Thr(t).mem = mem[t]
  BY DEF Thr
<1> QED  BY <1>1, <1>2, <1>3, <1>4 DEF Space, t

LEMMA InvType == ASSUME TasksInv PROVE TasksType
<1>1. idx_thread \in Thread /\ idx_task \in 0..ro_numtask
  <2>1. CASE at \notin {"write", "read"}
    <3>1. idx_task = 0 /\ idx_thread = 0
      BY <2>1 DEF TasksInv, Looped, Loop0
    <3>2. 0 \in Thread
      BY Sizes
    <3>3. ro_numtask \in Nat
      BY ToldIs DEF TasksInv, Told
    <3> QED  BY <3>1, <3>2, <3>3
  <2>2. CASE at \in {"write", "read"}
    <3>1. idx_task \in 0..ro_numtask /\ idx_thread = idx_task % mnumthr /\ ro_numtask \in Nat
      BY <2>2, ToldIs DEF TasksInv, Looped, ThreadOf
    <3>2. mnumthr \in Nat \ {0} /\ Thread = 0..mnumthr-1
      BY Sizes
    <3> QED  BY <3>1, <3>2, Division
  <2> QED  BY <2>1, <2>2
<1>2. /\ frame \in 1..Len(job.constants)
      /\ mem \in [Thread -> [0..MemDepth-1 -> Word]] /\ regs \in [Thread -> [Reg -> Word]]
  BY DEF TasksInv, Values
<1>3. cur_cycle_idx \in 0..num_cycles /\ job.out * Len(dst) <= job.capacity
  BY DEF TasksInv, Fed, Fetched
<1> QED  BY <1>1, <1>2, <1>3 DEF TasksType, TasksInv, Told

LEMMA InvRunAlone == ASSUME TasksInv PROVE TasksRunAlone
<1> SUFFICES ASSUME at = "done", Fits, NEW idx \in 0..ro_numtask-1 PROVE RanAlone(idx)
  BY DEF TasksRunAlone
<1>. DEFINE b == BaseOf(idx)
<1>1. \A k \in 0..mtaskmem-1 : mem[ThreadOf(idx)][b + k] = Alone(idx)[b + k]
  BY SpaceOfTask DEF TasksInv, Ran
<1>2. b \in Nat /\ mtaskmem \in Nat
  <2>1. idx \in Nat /\ mnumthr \in Nat \ {0} /\ mtaskmem \in Nat
    BY Sizes, ToldIs
  <2>2. idx \div mnumthr \in Nat
    BY <2>1, Division
  <2> QED  BY <2>1, <2>2 DEF BaseOf
<1>3. b = BaseOf(idx)
  OBVIOUS
<1>. HIDE DEF b
<1>4. ASSUME NEW a \in b..b+mtaskmem-1 PROVE mem[ThreadOf(idx)][a] = Alone(idx)[a]
  <2>. DEFINE k == a - b
  <2>1. k \in 0..mtaskmem-1 /\ b + k = a
    BY <1>2
  <2>. HIDE DEF k
  <2>2. mem[ThreadOf(idx)][b + k] = Alone(idx)[b + k]
    BY <1>1, <2>1
  <2> QED  BY <2>1, <2>2
<1> QED  BY <1>3, <1>4 DEF RanAlone

LEMMA InvInOrder == ASSUME TasksInv PROVE ResultsInOrder
<1> SUFFICES ASSUME at = "drawn", Fits
             PROVE  /\ Len(dst) = ro_numtask \/ ~Room
                    /\ \A n \in 1..Len(dst) : dst[n] =
                          [k \in 1..job.out |-> Alone(n - 1)[BaseOf(n - 1) + job.ofst_out + k - 1]]
  BY DEF ResultsInOrder
<1>1. /\ Len(dst) <= ro_numtask /\ (Len(dst) = ro_numtask \/ ~Room)
      /\ \A n \in 1..Len(dst) : dst[n] =
            [k \in 1..job.out |-> mem[ThreadOf(n - 1)][BaseOf(n - 1) + job.ofst_out + k - 1]]
      /\ dst \in Seq([1..job.out -> Word]) /\ RanAll
  BY DEF TasksInv, Fetched, Ran
<1>2. /\ mtaskmem \in Nat /\ ro_numtask \in Nat
      /\ job.out \in Nat /\ job.ofst_out \in Nat /\ job.out + job.ofst_out <= mtaskmem
  BY ToldIs, JobIs DEF TasksInv, Values, Told
<1>3. ASSUME NEW n \in 1..Len(dst)
      PROVE  [k \in 1..job.out |-> mem[ThreadOf(n - 1)][BaseOf(n - 1) + job.ofst_out + k - 1]]
           = [k \in 1..job.out |-> Alone(n - 1)[BaseOf(n - 1) + job.ofst_out + k - 1]]
  <2>. DEFINE idx == n - 1
              b == BaseOf(idx)
              o == job.ofst_out
  <2>1. idx \in 0..ro_numtask-1
    BY <1>1, <1>2
  <2>2. b \in Nat
    <3>1. idx \in Nat /\ mnumthr \in Nat \ {0}
      BY <2>1, Sizes
    <3>2. idx \div mnumthr \in Nat
      BY <3>1, Division
    <3> QED  BY <1>2, <3>2 DEF BaseOf
  <2>. HIDE DEF idx
  <2>3. \A k \in 0..mtaskmem-1 : mem[ThreadOf(idx)][b + k] = Alone(idx)[b + k]
    BY <1>1, <2>1, SpaceOfTask
  <2>. HIDE DEF b
  <2>4. ASSUME NEW k \in 1..job.out
        PROVE  mem[ThreadOf(idx)][b + o + k - 1] = Alone(idx)[b + o + k - 1]
    <3>. DEFINE j == o + k - 1
    <3>1. j \in 0..mtaskmem-1 /\ b + o + k - 1 = b + j
      BY <1>2, <2>2
    <3>. HIDE DEF j, o
    <3> QED  BY <2>3, <3>1
  <2> QED  BY <2>4 DEF idx, b
<1> QED  BY <1>1, <1>3

-----------------------------------------------------------------------------
(* The theorems: for programs that keep to themselves and units that give   *)
(* words.                                                                  *)

LEMMA TasksInvAlways == ASSUME AllConfined, UnitsCompute PROVE TasksSpec => []TasksInv
<1>1. TasksInit => TasksInv
  BY InitInv
<1>2. TasksInv /\ [TasksNext]_tasksVars => TasksInv'
  BY NextKeeps
<1> QED  BY <1>1, <1>2, PTL DEF TasksSpec

\* The memories, the registers and the counters of the loops and of the run stay what they
\* are declared to be, and the array that the results are fetched into is never overrun
\* (gppcu.c:421-497, GPPCU_TEST_QUEUE.v:154-178).
THEOREM TasksTypeCorrect == ASSUME AllConfined, UnitsCompute PROVE TasksSpec => []TasksType
<1>1. TasksInv => TasksType
  BY InvType
<1> QED  BY <1>1, TasksInvAlways, PTL

\* However many threads, tasks, words and instructions there are: after a run that fits, the
\* space of every task holds what the program as it was written leaves there when it runs
\* for that task alone.  The prologue, the banks of the lanes and the bubbles that the
\* driver lays out (gppcu.c:296-392) and the offsets that the queue hands out
\* (GPPCU_TEST_QUEUE.v:154-178) amount to that.
THEOREM TasksRunAloneAlways ==
    ASSUME AllConfined, UnitsCompute PROVE TasksSpec => []TasksRunAlone
<1>1. TasksInv => TasksRunAlone
  BY InvRunAlone
<1> QED  BY <1>1, TasksInvAlways, PTL

\* The array gets those results in the order of the tasks, all of them or as many as leave
\* room behind them (gppcu.c:456-497, app.c:377-386).
THEOREM ResultsAlwaysInOrder ==
    ASSUME AllConfined, UnitsCompute PROVE TasksSpec => []ResultsInOrder
<1>1. TasksInv => ResultsInOrder
  BY InvInOrder
<1> QED  BY <1>1, TasksInvAlways, PTL

-----------------------------------------------------------------------------
(* The shader: a program carried out piece by piece.                       *)

\* A thread behind a program.
After(thr, c, p) == Steps(thr, c, p)[Len(p)]

\* A program is its pieces, one behind the other.
LEMMA AfterConcat ==
    ASSUME NEW thr, NEW c, NEW S, NEW p \in Seq(S), NEW q \in Seq(S)
    PROVE  After(thr, c, p \o q) = After(After(thr, c, p), c, q)
<1>. DEFINE n == Len(p)
            l == Len(q)
            pq == p \o q
            f == Steps(thr, c, pq)
            g == Steps(thr, c, p)
            h == Steps(g[n], c, q)
<1>1. /\ Len(pq) = n + l /\ n \in Nat /\ l \in Nat
      /\ \A k \in 1..n : pq[k] = p[k]
      /\ \A k \in 1..l : pq[n + k] = q[k]
  BY Concat
<1>2. f[0] = thr /\ \A k \in 1..Len(pq) : f[k] = Effect(f[k - 1], c, pq[k])
  <2>1. Len(pq) \in Nat
    BY <1>1
  <2>. HIDE DEF pq
  <2> QED  BY <2>1, StepsAre
<1>3. g[0] = thr /\ \A k \in 1..n : g[k] = Effect(g[k - 1], c, p[k])
  BY <1>1, StepsAre
<1>4. h[0] = g[n] /\ \A k \in 1..l : h[k] = Effect(h[k - 1], c, q[k])
  BY <1>1, StepsAre
<1>. DEFINE m == Len(pq)
<1>. HIDE DEF f, g, h, n, l, pq, m
<1>5. m = n + l /\ \A k \in 1..m : f[k] = Effect(f[k - 1], c, pq[k])
  BY <1>1, <1>2 DEF m
<1>6. f[n] = g[n]
  <2>. DEFINE Bad == {k \in 0..n : f[k] # g[k]}
  <2> SUFFICES ASSUME Bad # {} PROVE FALSE
    BY <1>1
  <2>1. PICK k \in Bad : \A j \in Bad : k <= j
    <3>1. Bad \subseteq Nat
      OBVIOUS
    <3>. HIDE DEF Bad
    <3> QED  BY <3>1, Least
  <2>2. k \in 1..n /\ k \in 1..m /\ k - 1 \in 0..n /\ ~(k <= k - 1)
    BY <1>1, <1>2, <1>3, <1>5, <2>1
  <2>3. f[k - 1] = g[k - 1]
    BY <2>1, <2>2
  <2>4. pq[k] = p[k]
    BY <1>1, <2>2
  <2> QED  BY <1>3, <1>5, <2>1, <2>2, <2>3, <2>4
<1>7. f[n + l] = h[l]
  <2>. DEFINE Bad == {k \in 0..l : f[n + k] # h[k]}
  <2> SUFFICES ASSUME Bad # {} PROVE FALSE
    BY <1>1
  <2>1. PICK k \in Bad : \A j \in Bad : k <= j
    <3>1. Bad \subseteq Nat
      OBVIOUS
    <3>. HIDE DEF Bad
    <3> QED  BY <3>1, Least
  <2>2. k # 0
    <3>1. n + 0 = n
      BY <1>1
    <3> QED  BY <1>4, <1>6, <2>1, <3>1
  <2>3. /\ k \in 1..l /\ n + k \in 1..m /\ k - 1 \in 0..l /\ ~(k <= k - 1)
        /\ n + k - 1 = n + (k - 1)
    BY <1>1, <1>5, <2>1, <2>2
  <2>4. f[n + (k - 1)] = h[k - 1]
    BY <2>1, <2>3
  <2>5. pq[n + k] = q[k]
    BY <1>1, <2>3
  <2>6. f[n + k] = Effect(f[n + (k - 1)], c, pq[n + k])
    <3>. DEFINE x == n + k
    <3>1. x \in 1..m /\ x - 1 = n + (k - 1)
      BY <1>1, <2>3
    <3>. HIDE DEF x
    <3>2. f[x] = Effect(f[x - 1], c, pq[x])
      BY <1>5, <3>1
    <3> QED  BY <3>1, <3>2 DEF x
  <2>7. h[k] = Effect(h[k - 1], c, q[k])
    BY <1>4, <2>3
  <2>8. f[n + k] = h[k]
    BY <2>4, <2>5, <2>6, <2>7
  <2> QED  BY <2>1, <2>8
<1> QED  BY <1>5, <1>7 DEF After, f, g, h, n, l, pq, m

\* f holds a thread before the program p and after each word of it.
Follows(f, thr, c, p) ==
    f[0] = thr /\ \A k \in 1..Len(p) : f[k] = Effect(f[k - 1], c, p[k])

LEMMA StepsFollow ==
    ASSUME NEW thr, NEW c, NEW p, Len(p) \in Nat PROVE Follows(Steps(thr, c, p), thr, c, p)
BY StepsAre DEF Follows

\* Pieces of one, four and five words.
LEMMA AfterOne ==
    ASSUME NEW thr, NEW c, NEW a1 PROVE After(thr, c, <<a1>>) = Effect(thr, c, a1)
<1>. DEFINE p == <<a1>>
            f == Steps(thr, c, p)
<1>1. Len(p) = 1 /\ p[1] = a1
  OBVIOUS
<1>. HIDE DEF p
<1>2. f[0] = thr /\ \A k \in 1..1 : f[k] = Effect(f[k - 1], c, p[k])
  <2>1. Len(p) \in Nat /\ Len(p) = 1
    BY <1>1
  <2>2. Follows(f, thr, c, p)
    BY <2>1, StepsFollow
  <2> QED  BY <2>1, <2>2 DEF Follows
<1>. HIDE DEF f
<1>3. f[1] = Effect(thr, c, a1)
  BY <1>1, <1>2
<1> QED  BY <1>1, <1>3 DEF After, f, p

LEMMA AfterFour ==
    ASSUME NEW thr, NEW c, NEW a1, NEW a2, NEW a3, NEW a4
    PROVE  After(thr, c, <<a1, a2, a3, a4>>)
              = Effect(Effect(Effect(Effect(thr, c, a1), c, a2), c, a3), c, a4)
<1>. DEFINE q == <<a1, a2, a3, a4>>
            g == Steps(thr, c, q)
<1>1. Len(q) = 4 /\ q[1] = a1 /\ q[2] = a2 /\ q[3] = a3 /\ q[4] = a4
  OBVIOUS
<1>. HIDE DEF q
<1>2. g[0] = thr /\ \A k \in 1..4 : g[k] = Effect(g[k - 1], c, q[k])
  <2>1. Len(q) \in Nat /\ Len(q) = 4
    BY <1>1
  <2>2. Follows(g, thr, c, q)
    BY <2>1, StepsFollow
  <2> QED  BY <2>1, <2>2 DEF Follows
<1>. HIDE DEF g
<1>3. g[4] = Effect(Effect(Effect(Effect(thr, c, a1), c, a2), c, a3), c, a4)
  <2>1. /\ g[1] = Effect(g[0], c, q[1]) /\ g[2] = Effect(g[1], c, q[2])
        /\ g[3] = Effect(g[2], c, q[3]) /\ g[4] = Effect(g[3], c, q[4])
    BY <1>2
  <2> QED  BY <1>1, <1>2, <2>1
<1> QED  BY <1>1, <1>3 DEF After, g, q

LEMMA AfterFive ==
    ASSUME NEW thr, NEW c, NEW a1, NEW a2, NEW a3, NEW a4, NEW a5
    PROVE  After(thr, c, <<a1, a2, a3, a4, a5>>)
              = Effect(Effect(Effect(Effect(Effect(thr, c, a1), c, a2), c, a3), c, a4), c, a5)
<1>. DEFINE r == <<a1, a2, a3, a4, a5>>
            h == Steps(thr, c, r)
<1>1. Len(r) = 5 /\ r[1] = a1 /\ r[2] = a2 /\ r[3] = a3 /\ r[4] = a4 /\ r[5] = a5
  OBVIOUS
<1>. HIDE DEF r
<1>2. h[0] = thr /\ \A k \in 1..5 : h[k] = Effect(h[k - 1], c, r[k])
  <2>1. Len(r) \in Nat /\ Len(r) = 5
    BY <1>1
  <2>2. Follows(h, thr, c, r)
    BY <2>1, StepsFollow
  <2> QED  BY <2>1, <2>2 DEF Follows
<1>. HIDE DEF h
<1>3. h[5] = Effect(Effect(Effect(Effect(Effect(thr, c, a1), c, a2), c, a3), c, a4), c, a5)
  <2>1. /\ h[1] = Effect(h[0], c, r[1]) /\ h[2] = Effect(h[1], c, r[2])
        /\ h[3] = Effect(h[2], c, r[3]) /\ h[4] = Effect(h[3], c, r[4])
        /\ h[5] = Effect(h[4], c, r[5])
    BY <1>2
  <2> QED  BY <1>1, <1>2, <2>1
<1> QED  BY <1>1, <1>3 DEF After, h, r

-----------------------------------------------------------------------------
(* The words of the shader.                                                *)

\* A word that only sets register r to v; a word that only sets the word at a to v.
Sets(thr, e, r, v) ==
    IsThread(e) /\ e.regs = [thr.regs EXCEPT ![r] = v] /\ e.mem = thr.mem /\ e.sreg = thr.sreg
Puts(thr, e, a, v) ==
    IsThread(e) /\ e.regs = thr.regs /\ e.mem = [thr.mem EXCEPT ![a] = v] /\ e.sreg = thr.sreg

\* The words that the firmware writes.
WordOf(w, op, rd, ra, rb, imm) ==
    /\ w \in SourceWord /\ Fine(w) /\ w.cond = "ALWAYS" /\ ~w.s
    /\ w.op = op /\ w.rd = rd /\ w.ra = ra /\ w.rb = rb /\ w.imm = imm

LEMMA WordIs ==
    ASSUME NEW op \in Opcode, NEW rd \in Bank, NEW ra \in Bank, NEW rb \in Bank,
           NEW imm \in Word, op = "LDCI" => imm \in 0..NumConst-1
    PROVE  WordOf(Word32(op, FALSE, rd, ra, rb, imm), op, rd, ra, rb, imm)
<1>. DEFINE w == Word32(op, FALSE, rd, ra, rb, imm)
<1>1. /\ w.cond = "ALWAYS" /\ w.s = FALSE
      /\ w.op = op /\ w.rd = rd /\ w.ra = ra /\ w.rb = rb /\ w.imm = imm
  BY DEF Word32
<1>2. Bank = 0..9 /\ imm \in Nat /\ Reg = 0..31
  BY Numbers, Sizes DEF Bank
<1>3. w \in SourceWord
  BY <1>2 DEF Word32, SourceWord
<1>4. rd \in Nat /\ ra \in Nat /\ rb \in Nat
  BY <1>2
<1>5. w \in LaidWord
  BY <1>2, <1>4 DEF Word32, LaidWord
<1>6. rd \in Reg /\ ra \in Reg /\ rb \in Reg
  BY <1>2
<1>. HIDE DEF w
<1> QED  BY <1>1, <1>3, <1>5, <1>6 DEF Fine, WordOf, w

LEMMA WordSets ==
    ASSUME UnitsCompute, NEW thr, IsThread(thr), NEW c \in Consts, NEW w, Fine(w), ~w.s,
           w.cond = "ALWAYS", RegWr(w), w.op \notin CW_LMEM_WR
    PROVE  Sets(thr, Effect(thr, c, w), w.rd, Result(thr, c, w))
<1>. DEFINE e == Effect(thr, c, w)
            q == Result(thr, c, w)
<1>0. /\ RegWr(w) => e.regs = [thr.regs EXCEPT ![w.rd] = q]
      /\ ~RegWr(w) => e.regs = thr.regs
      /\ w.op \in CW_LMEM_WR => e.mem = [thr.mem EXCEPT ![Address(thr, c, w)] = A(thr, w)]
      /\ w.op \notin CW_LMEM_WR => e.mem = thr.mem
      /\ w.s => e.sreg = AluSreg(CW_ALOPC(w.op), A(thr, w), B(thr, c, w), thr.sreg.c)
      /\ ~w.s => e.sreg = thr.sreg
  BY EffectIs
<1>1. e.regs = [thr.regs EXCEPT ![w.rd] = q] /\ e.mem = thr.mem /\ e.sreg = thr.sreg
  BY <1>0
<1>2. IsThread(e)
  BY EffectKeeps
<1> QED  BY <1>1, <1>2 DEF Sets

LEMMA MovIs ==
    ASSUME UnitsCompute, NEW x \in Word, NEW y \in Word, NEW z \in BOOLEAN
    PROVE  AluQ("MOV", x, y, z) = y
BY DEF UnitsCompute

\* A constant, an immediate, a copy.
LEMMA LdciSets ==
    ASSUME UnitsCompute, NEW thr, IsThread(thr), NEW c \in Consts,
           NEW r \in Bank, NEW a \in 0..NumConst-1, a \in Word
    PROVE  Sets(thr, Effect(thr, c, gp_ldci(r, a)), r, c[a])
<1>. DEFINE w == gp_ldci(r, a)
<1>1. 0 \in Bank /\ "LDCI" \in Opcode
  BY Numbers DEF Bank, Opcode
<1>0. WordOf(w, "LDCI", r, 0, 0, a)
  BY <1>1, WordIs DEF gp_ldci
<1>. HIDE DEF w
<1>2. /\ Fine(w) /\ w.cond = "ALWAYS" /\ ~w.s /\ w.op = "LDCI" /\ w.rd = r /\ w.imm = a
  BY <1>0 DEF WordOf
<1>3. RegWr(w) /\ w.op \notin CW_LMEM_WR /\ w.op \notin CW_LMEM_RD /\ ~FpOp(w)
      /\ CW_ALOPC(w.op) = "MOV"
  BY <1>2 DEF RegWr, CW_REGWR, Opcode, CW_LMEM_WR, CW_LMEM_RD, FpOp, CW_FPOP, CW_ALOPC
<1>4. A(thr, w) \in Word /\ B(thr, c, w) \in Word /\ thr.sreg.c \in BOOLEAN
  BY <1>2, OperandInWord DEF IsThread
<1>5. B(thr, c, w) = c[a]
  BY <1>2, OperandB
<1>6. Result(thr, c, w) = c[a]
  <2>1. AluQ("MOV", A(thr, w), B(thr, c, w), thr.sreg.c) = B(thr, c, w)
    BY <1>4, MovIs
  <2> QED  BY <1>3, <1>5, <2>1 DEF Result
<1>7. Sets(thr, Effect(thr, c, w), w.rd, Result(thr, c, w))
  BY <1>2, <1>3, WordSets
<1> QED  BY <1>2, <1>6, <1>7 DEF w

LEMMA MviSets ==
    ASSUME UnitsCompute, NEW thr, IsThread(thr), NEW c \in Consts, NEW r \in Bank, NEW x \in Word
    PROVE  Sets(thr, Effect(thr, c, gp_mvi(r, x)), r, x)
<1>. DEFINE w == gp_mvi(r, x)
<1>1. 0 \in Bank /\ "MVI" \in Opcode
  BY Numbers DEF Bank, Opcode
<1>0. WordOf(w, "MVI", r, 0, 0, x)
  BY <1>1, WordIs DEF gp_mvi
<1>. HIDE DEF w
<1>2. /\ Fine(w) /\ w.cond = "ALWAYS" /\ ~w.s /\ w.op = "MVI" /\ w.rd = r /\ w.imm = x
  BY <1>0 DEF WordOf
<1>3. RegWr(w) /\ w.op \notin CW_LMEM_WR /\ w.op \notin CW_LMEM_RD /\ ~FpOp(w)
      /\ CW_ALOPC(w.op) = "MOV"
  BY <1>2 DEF RegWr, CW_REGWR, Opcode, CW_LMEM_WR, CW_LMEM_RD, FpOp, CW_FPOP, CW_ALOPC
<1>4. A(thr, w) \in Word /\ B(thr, c, w) \in Word /\ thr.sreg.c \in BOOLEAN
  BY <1>2, OperandInWord DEF IsThread
<1>5. B(thr, c, w) = x
  BY <1>2, OperandB
<1>6. Result(thr, c, w) = x
  BY <1>3, <1>4, <1>5, MovIs DEF Result
<1>7. Sets(thr, Effect(thr, c, w), w.rd, Result(thr, c, w))
  BY <1>2, <1>3, WordSets
<1> QED  BY <1>2, <1>6, <1>7 DEF w

LEMMA CopySets ==
    ASSUME UnitsCompute, NEW thr, IsThread(thr), ~thr.sreg.c, NEW c \in Consts,
           NEW r \in Bank, NEW s \in Bank
    PROVE  Sets(thr, Effect(thr, c, gp_adi(r, s, 0)), r, thr.regs[s])
<1>. DEFINE w == gp_adi(r, s, 0)
<1>1. 0 \in Bank /\ "ADI" \in Opcode /\ 0 \in Word
  BY Numbers, Sizes DEF Bank, Opcode
<1>0. WordOf(w, "ADI", r, s, 0, 0)
  BY <1>1, WordIs DEF gp_adi
<1>. HIDE DEF w
<1>2. /\ Fine(w) /\ w.cond = "ALWAYS" /\ ~w.s /\ w.op = "ADI" /\ w.rd = r /\ w.ra = s
      /\ w.imm = 0
  BY <1>0 DEF WordOf
<1>3. RegWr(w) /\ w.op \notin CW_LMEM_WR /\ w.op \notin CW_LMEM_RD /\ ~FpOp(w)
      /\ CW_ALOPC(w.op) = "ADI"
  BY <1>2 DEF RegWr, CW_REGWR, Opcode, CW_LMEM_WR, CW_LMEM_RD, FpOp, CW_FPOP, CW_ALOPC
<1>. DEFINE y == thr.regs[s]
<1>4. A(thr, w) = y /\ y \in Word /\ B(thr, c, w) = 0 /\ thr.sreg.c = FALSE
  BY <1>2, OperandInWord, OperandB DEF IsThread, A
<1>. HIDE DEF y
<1>5. y + 0 < DataSize /\ y + 0 = y
  BY <1>4, Sizes
<1>6. AluQ("ADI", y, 0, FALSE) = y
  BY <1>1, <1>4, <1>5 DEF UnitsCompute
<1>7. Result(thr, c, w) = y
  BY <1>3, <1>4, <1>6 DEF Result
<1>8. Sets(thr, Effect(thr, c, w), w.rd, Result(thr, c, w))
  BY <1>2, <1>3, WordSets
<1> QED  BY <1>2, <1>7, <1>8 DEF w, y

\* A product, a sum; the word nearest to a number.
LEMMA FpSets ==
    ASSUME UnitsCompute, NEW thr, IsThread(thr), NEW c \in Consts, NEW op \in {"FMUL", "FADD"},
           NEW r \in Bank, NEW s \in Bank, NEW u \in Bank
    PROVE  Sets(thr, Effect(thr, c, gp_fp(op, r, s, u)), r, FpuQ(op, thr.regs[s], thr.regs[u]))
<1>. DEFINE w == gp_fp(op, r, s, u)
<1>1. op \in Opcode /\ 0 \in Word /\ op # "LDCI"
  BY Sizes DEF Opcode
<1>2. WordOf(w, op, r, s, u, 0)
  BY <1>1, WordIs DEF gp_fp
<1>. HIDE DEF w
<1>3. Fine(w) /\ w.cond = "ALWAYS" /\ ~w.s /\ w.op = op /\ w.rd = r /\ w.ra = s /\ w.rb = u
      /\ w.imm = 0
  BY <1>2 DEF WordOf
<1>4. RegWr(w) /\ w.op \notin CW_LMEM_WR /\ w.op \notin CW_LMEM_RD /\ FpOp(w)
      /\ w.op \notin {"ADI", "SBI", "MVI", "LDCI"}
  BY <1>3 DEF RegWr, CW_REGWR, Opcode, CW_LMEM_WR, CW_LMEM_RD, FpOp, CW_FPOP
<1>5. B(thr, c, w) = thr.regs[u]
  <2>. DEFINE y == thr.regs[u]
  <2>1. B(thr, c, w) = (y + 0) % DataSize
    BY <1>3, <1>4, OperandB
  <2>2. y \in 0..DataSize-1 /\ DataSize \in Nat
    <3>1. u \in Reg
      BY Numbers, Sizes DEF Bank
    <3>2. Word = 0..DataSize-1 /\ DataSize \in Nat
      BY Sizes
    <3> QED  BY <3>1, <3>2 DEF IsThread
  <2>. HIDE DEF y
  <2>3. y + 0 = y
    BY <2>2
  <2> QED  BY <2>1, <2>2, <2>3, ModSmall DEF y
<1>6. A(thr, w) = thr.regs[s]
  BY <1>3 DEF A
<1>7. Result(thr, c, w) = FpuQ(op, thr.regs[s], thr.regs[u])
  BY <1>3, <1>4, <1>5, <1>6 DEF Result
<1>8. Sets(thr, Effect(thr, c, w), w.rd, Result(thr, c, w))
  BY <1>3, <1>4, WordSets
<1> QED  BY <1>3, <1>7, <1>8 DEF w

LEMMA FtoiSets ==
    ASSUME UnitsCompute, NEW thr, IsThread(thr), NEW c \in Consts,
           NEW r \in Bank, NEW s \in Bank
    PROVE  Sets(thr, Effect(thr, c, gp_fp("FTOI", r, s, 0)), r, FpuQ("FTOI", thr.regs[s], 0))
<1>. DEFINE w == gp_fp("FTOI", r, s, 0)
<1>1. "FTOI" \in Opcode /\ 0 \in Word /\ 0 \in Bank
  BY Sizes, Numbers DEF Opcode, Bank
<1>2. WordOf(w, "FTOI", r, s, 0, 0)
  BY <1>1, WordIs DEF gp_fp
<1>. HIDE DEF w
<1>3. Fine(w) /\ w.cond = "ALWAYS" /\ ~w.s /\ w.op = "FTOI" /\ w.rd = r /\ w.ra = s
  BY <1>2 DEF WordOf
<1>4. RegWr(w) /\ w.op \notin CW_LMEM_WR /\ w.op \notin CW_LMEM_RD /\ FpOp(w)
  BY <1>3 DEF RegWr, CW_REGWR, Opcode, CW_LMEM_WR, CW_LMEM_RD, FpOp, CW_FPOP
<1>5. A(thr, w) \in Word /\ B(thr, c, w) \in Word /\ A(thr, w) = thr.regs[s]
  BY <1>3, OperandInWord DEF A
<1>6. FpuQ("FTOI", A(thr, w), B(thr, c, w)) = FpuQ("FTOI", A(thr, w), 0)
  <2>1. \A x, y \in Word : FpuQ("FTOI", x, y) = FpuQ("FTOI", x, 0)
    BY DEF UnitsCompute
  <2> QED  BY <1>5, <2>1
<1>7. Result(thr, c, w) = FpuQ("FTOI", thr.regs[s], 0)
  BY <1>3, <1>4, <1>5, <1>6 DEF Result
<1>8. Sets(thr, Effect(thr, c, w), w.rd, Result(thr, c, w))
  BY <1>3, <1>4, WordSets
<1> QED  BY <1>3, <1>7, <1>8 DEF w

\* A word of the task's space.
LEMMA PivotAddress ==
    ASSUME NEW thr, NEW c, NEW w, w.op \in {"LDL", "STL"}, w.rb = REGPIVOT,
           NEW b \in Nat, NEW k \in Nat, thr.regs[REGPIVOT] = b, w.imm = k, b + k < MemDepth
    PROVE  Address(thr, c, w) = b + k
<1>1. B(thr, c, w) = (b + k) % DataSize
  <2>1. w.op \notin {"ADI", "SBI", "MVI", "LDCI"}
    OBVIOUS
  <2> QED  BY <2>1, OperandB
<1>. DEFINE x == b + k
<1>2. x \in 0..DataSize-1 /\ x \in 0..MemDepth-1 /\ DataSize \in Nat /\ MemDepth \in Nat
  BY Sizes
<1>. HIDE DEF x
<1>3. x % DataSize = x /\ x % MemDepth = x
  BY <1>2, ModSmall
<1> QED  BY <1>1, <1>3 DEF Address, x

LEMMA LdlSets ==
    ASSUME UnitsCompute, NEW thr, IsThread(thr), NEW c \in Consts, NEW r \in Bank,
           NEW b \in Nat, NEW k \in Nat, thr.regs[REGPIVOT] = b, b + k < MemDepth
    PROVE  Sets(thr, Effect(thr, c, gp_ldl(r, k)), r, thr.mem[b + k])
<1>. DEFINE w == gp_ldl(r, k)
<1>1. "LDL" \in Opcode /\ 0 \in Bank /\ REGPIVOT \in Bank /\ k \in Word
  BY Sizes, Numbers DEF Opcode, Bank
<1>2. WordOf(w, "LDL", r, 0, REGPIVOT, k)
  BY <1>1, WordIs DEF gp_ldl
<1>. HIDE DEF w
<1>3. Fine(w) /\ w.cond = "ALWAYS" /\ ~w.s /\ w.op = "LDL" /\ w.rd = r /\ w.rb = REGPIVOT
      /\ w.imm = k
  BY <1>2 DEF WordOf
<1>4. RegWr(w) /\ w.op \notin CW_LMEM_WR /\ w.op \in CW_LMEM_RD
  BY <1>3 DEF RegWr, CW_REGWR, Opcode, CW_LMEM_WR, CW_LMEM_RD
<1>5. Address(thr, c, w) = b + k
  BY <1>3, PivotAddress
<1>6. Result(thr, c, w) = thr.mem[b + k]
  BY <1>4, <1>5 DEF Result
<1>7. Sets(thr, Effect(thr, c, w), w.rd, Result(thr, c, w))
  BY <1>3, <1>4, WordSets
<1> QED  BY <1>3, <1>6, <1>7 DEF w

LEMMA StlPuts ==
    ASSUME UnitsCompute, NEW thr, IsThread(thr), NEW c \in Consts, NEW r \in Bank,
           NEW b \in Nat, NEW k \in Nat, thr.regs[REGPIVOT] = b, b + k < MemDepth
    PROVE  Puts(thr, Effect(thr, c, gp_stl(r, k)), b + k, thr.regs[r])
<1>. DEFINE w == gp_stl(r, k)
            e == Effect(thr, c, w)
<1>1. "STL" \in Opcode /\ 0 \in Bank /\ REGPIVOT \in Bank /\ k \in Word
  BY Sizes, Numbers DEF Opcode, Bank
<1>2. WordOf(w, "STL", 0, r, REGPIVOT, k)
  BY <1>1, WordIs DEF gp_stl
<1>. HIDE DEF w
<1>3. Fine(w) /\ w.cond = "ALWAYS" /\ ~w.s /\ w.op = "STL" /\ w.ra = r /\ w.rb = REGPIVOT
      /\ w.imm = k
  BY <1>2 DEF WordOf
<1>4. ~RegWr(w) /\ w.op \in CW_LMEM_WR
  BY <1>3 DEF RegWr, CW_REGWR, Opcode, CW_LMEM_WR
<1>5. Address(thr, c, w) = b + k
  BY <1>3, PivotAddress
<1>6. /\ RegWr(w) => e.regs = [thr.regs EXCEPT ![w.rd] = Result(thr, c, w)]
      /\ ~RegWr(w) => e.regs = thr.regs
      /\ w.op \in CW_LMEM_WR => e.mem = [thr.mem EXCEPT ![Address(thr, c, w)] = A(thr, w)]
      /\ w.op \notin CW_LMEM_WR => e.mem = thr.mem
      /\ w.s => e.sreg = AluSreg(CW_ALOPC(w.op), A(thr, w), B(thr, c, w), thr.sreg.c)
      /\ ~w.s => e.sreg = thr.sreg
  BY <1>3, EffectIs
<1>7. IsThread(e)
  BY <1>3, EffectKeeps
<1>8. A(thr, w) = thr.regs[r]
  BY <1>3 DEF A
<1>. HIDE DEF e
<1>9. Puts(thr, e, b + k, thr.regs[r])
  BY <1>3, <1>4, <1>5, <1>6, <1>7, <1>8 DEF Puts
<1> QED  BY <1>9 DEF e, w

-----------------------------------------------------------------------------
(* The shader's pieces.                                                    *)

\* A thread with the task at b and these local words; with a point in its first registers
\* and a sum under way.
Standing(e, b, mm) == IsThread(e) /\ ~e.sreg.c /\ e.regs[REGPIVOT] = b /\ e.mem = mm
Summing(e, b, mm, v, y) ==
    Standing(e, b, mm) /\ e.regs[acc] = y /\ \A r \in 0..3 : e.regs[r] = v[r + 1]

LEMMA SetsIs ==
    ASSUME NEW thr, IsThread(thr), NEW e, NEW r \in Bank, NEW x, Sets(thr, e, r, x)
    PROVE  /\ IsThread(e) /\ e.mem = thr.mem /\ e.sreg = thr.sreg /\ e.regs[r] = x
           /\ \A q \in Reg \ {r} : e.regs[q] = thr.regs[q]
<1>1. Bank = 0..9 /\ Reg = 0..31
  BY Numbers, Sizes DEF Bank
<1>2. thr.regs \in [Reg -> Word] /\ r \in Reg
  BY <1>1 DEF IsThread
<1>3. IsThread(e) /\ e.regs = [thr.regs EXCEPT ![r] = x] /\ e.mem = thr.mem /\ e.sreg = thr.sreg
  BY DEF Sets
<1> QED  BY <1>2, <1>3

\* The registers of the shader are different ones.
LEMMA Registers ==
    /\ acc = 4 /\ calc = 5 /\ loader = 6 /\ REGPIVOT \notin 0..6
    /\ 0..6 \subseteq Bank /\ REGPIVOT \in Bank /\ Bank \subseteq Reg /\ 0..6 \subseteq Nat
BY Numbers, Sizes DEF Bank, acc, calc, loader

LEMMA ConstsIn ==
    ASSUME NEW c \in Consts, NEW a \in 0..31
    PROVE  a \in 0..NumConst-1 /\ a \in Word /\ c[a] \in Word
<1>1. NumConst = 32 /\ DataSize \in Nat /\ NumConst <= DataSize /\ Word = 0..DataSize-1
  BY Sizes, JobAssumption
<1>2. a \in 0..NumConst-1 /\ a \in Word
  BY <1>1
<1> QED  BY <1>2 DEF Consts

\* The product of one row is added to the sum.
RowTerm(v, c, col, row) ==
    FpuQ("FMUL", v[row + 1], c[COFST_MAT4_WORLD_VIEW_PROJ + col + 4 * row])

LEMMA TermIs ==
    ASSUME UnitsCompute, NEW c \in Consts, NEW b, NEW mm, NEW v, NEW y,
           NEW e, Summing(e, b, mm, v, y), NEW col \in 0..3, NEW row \in 0..3
    PROVE  Summing(After(e, c, Term(col, row)), b, mm, v, Plus(y, RowTerm(v, c, col, row)))
<1>. DEFINE a == COFST_MAT4_WORLD_VIEW_PROJ + col + 4 * row
            w1 == gp_ldci(loader, a)
            w2 == gp_fp("FMUL", calc, row, loader)
            w3 == gp_adi(loader, acc, 0)
            w4 == gp_fp("FADD", acc, loader, calc)
            e1 == Effect(e, c, w1)
            e2 == Effect(e1, c, w2)
            e3 == Effect(e2, c, w3)
            e4 == Effect(e3, c, w4)
            t == FpuQ("FMUL", v[row + 1], c[a])
<1>0. a \in 0..31
  BY DEF COFST_MAT4_WORLD_VIEW_PROJ
<1>1. After(e, c, Term(col, row)) = e4
  <2>1. Term(col, row) = <<w1, w2, w3, w4>>
    BY DEF Term
  <2>. HIDE DEF w1, w2, w3, w4
  <2>2. After(e, c, <<w1, w2, w3, w4>>)
           = Effect(Effect(Effect(Effect(e, c, w1), c, w2), c, w3), c, w4)
    BY AfterFour
  <2> QED  BY <2>1, <2>2
<1>. HIDE DEF a, e1, e2, e3, e4, t
<1>2. /\ loader \in Bank /\ acc \in Bank /\ calc \in Bank /\ row \in Bank /\ row \in 0..3
      /\ loader \in Reg /\ acc \in Reg /\ calc \in Reg /\ row \in Reg /\ REGPIVOT \in Reg
      /\ loader = 6 /\ acc = 4 /\ calc = 5 /\ REGPIVOT \notin 0..6 /\ 0..6 \subseteq Reg
  BY Registers
<1>3. /\ IsThread(e) /\ e.sreg.c = FALSE /\ e.regs[REGPIVOT] = b /\ e.mem = mm
      /\ e.regs[acc] = y /\ \A r \in 0..3 : e.regs[r] = v[r + 1]
  BY UnitsCompute DEF Summing, Standing, IsThread
<1>4. /\ IsThread(e1) /\ e1.mem = e.mem /\ e1.sreg = e.sreg /\ e1.regs[loader] = c[a]
      /\ \A q \in Reg \ {loader} : e1.regs[q] = e.regs[q]
  <2>1. Sets(e, e1, loader, c[a])
    BY <1>0, <1>2, <1>3, ConstsIn, LdciSets DEF e1
  <2> QED  BY <1>2, <1>3, <2>1, SetsIs
<1>5. /\ IsThread(e2) /\ e2.mem = e1.mem /\ e2.sreg = e1.sreg
      /\ e2.regs[calc] = FpuQ("FMUL", e1.regs[row], e1.regs[loader])
      /\ \A q \in Reg \ {calc} : e2.regs[q] = e1.regs[q]
  <2>1. Sets(e1, e2, calc, FpuQ("FMUL", e1.regs[row], e1.regs[loader]))
    BY <1>2, <1>4, FpSets DEF e2
  <2> QED  BY <1>2, <1>4, <2>1, SetsIs
<1>6. /\ IsThread(e3) /\ e3.mem = e2.mem /\ e3.sreg = e2.sreg /\ e3.regs[loader] = e2.regs[acc]
      /\ \A q \in Reg \ {loader} : e3.regs[q] = e2.regs[q]
  <2>1. ~e2.sreg.c
    BY <1>3, <1>4, <1>5
  <2>2. Sets(e2, e3, loader, e2.regs[acc])
    BY <1>2, <1>5, <2>1, CopySets DEF e3
  <2> QED  BY <1>2, <1>5, <2>2, SetsIs
<1>7. /\ IsThread(e4) /\ e4.mem = e3.mem /\ e4.sreg = e3.sreg
      /\ e4.regs[acc] = FpuQ("FADD", e3.regs[loader], e3.regs[calc])
      /\ \A q \in Reg \ {acc} : e4.regs[q] = e3.regs[q]
  <2>1. Sets(e3, e4, acc, FpuQ("FADD", e3.regs[loader], e3.regs[calc]))
    BY <1>2, <1>6, FpSets DEF e4
  <2> QED  BY <1>2, <1>6, <2>1, SetsIs
<1>8. e1.regs[row] = v[row + 1] /\ e2.regs[calc] = t
  <2>1. e1.regs[row] = e.regs[row]
    BY <1>2, <1>4
  <2>2. e1.regs[row] = v[row + 1]
    BY <1>3, <2>1
  <2> QED  BY <1>4, <1>5, <2>2 DEF t
<1>9. e3.regs[loader] = y /\ e3.regs[calc] = t
  <2>1. e2.regs[acc] = e1.regs[acc] /\ e1.regs[acc] = e.regs[acc] /\ e3.regs[calc] = e2.regs[calc]
    BY <1>2, <1>4, <1>5, <1>6
  <2> QED  BY <1>3, <1>6, <1>8, <2>1
<1>10. \A q \in Reg \ {acc, calc, loader} : e4.regs[q] = e.regs[q]
  BY <1>4, <1>5, <1>6, <1>7
<1>11. e4.regs[REGPIVOT] = b /\ \A r \in 0..3 : e4.regs[r] = v[r + 1]
  <2>1. REGPIVOT \in Reg \ {acc, calc, loader} /\ 0..3 \subseteq Reg \ {acc, calc, loader}
    BY <1>2
  <2> QED  BY <1>3, <1>10, <2>1
<1>12. e4.mem = mm /\ e4.sreg.c = FALSE
  BY <1>3, <1>4, <1>5, <1>6, <1>7
<1>13. Summing(e4, b, mm, v, Plus(y, t))
  BY <1>7, <1>9, <1>11, <1>12 DEF Summing, Standing, Plus
<1> QED  BY <1>1, <1>13 DEF a, t, RowTerm

LEMMA ShaderWords ==
    ASSUME NEW r \in Bank, NEW s \in Bank, NEW u \in Bank, NEW k \in Nat
    PROVE  /\ gp_ldl(r, k) \in SourceWord /\ gp_stl(r, k) \in SourceWord
           /\ gp_ldci(r, k) \in SourceWord /\ gp_mvi(r, k) \in SourceWord
           /\ gp_adi(r, s, k) \in SourceWord
           /\ \A op \in {"FMUL", "FADD", "FTOI"} : gp_fp(op, r, s, u) \in SourceWord
<1>1. 0 \in Bank /\ REGPIVOT \in Bank /\ 0 \in Nat
  BY Numbers DEF Bank
<1>2. ASSUME NEW op \in Opcode, NEW rd \in Bank, NEW ra \in Bank, NEW rb \in Bank, NEW imm \in Nat
      PROVE  Word32(op, FALSE, rd, ra, rb, imm) \in SourceWord
  BY DEF Word32, SourceWord
<1>3. {"LDL", "STL", "LDCI", "MVI", "ADI", "FMUL", "FADD", "FTOI"} \subseteq Opcode
  BY DEF Opcode
<1>4. gp_ldl(r, k) \in SourceWord
  BY <1>1, <1>2, <1>3 DEF gp_ldl
<1>5. gp_stl(r, k) \in SourceWord
  BY <1>1, <1>2, <1>3 DEF gp_stl
<1>6. gp_ldci(r, k) \in SourceWord
  BY <1>1, <1>2, <1>3 DEF gp_ldci
<1>7. gp_mvi(r, k) \in SourceWord
  BY <1>1, <1>2, <1>3 DEF gp_mvi
<1>8. gp_adi(r, s, k) \in SourceWord
  BY <1>1, <1>2, <1>3 DEF gp_adi
<1>9. \A op \in {"FMUL", "FADD", "FTOI"} : gp_fp(op, r, s, u) \in SourceWord
  BY <1>1, <1>2, <1>3 DEF gp_fp
<1> QED  BY <1>4, <1>5, <1>6, <1>7, <1>8, <1>9

\* The pieces are sequences of words.
LEMMA SeqOne == ASSUME NEW S, NEW a1 \in S PROVE <<a1>> \in Seq(S)
OBVIOUS

LEMMA SeqFour ==
    ASSUME NEW S, NEW a1 \in S, NEW a2 \in S, NEW a3 \in S, NEW a4 \in S
    PROVE  <<a1, a2, a3, a4>> \in Seq(S)
OBVIOUS

LEMMA SeqFive ==
    ASSUME NEW S, NEW a1 \in S, NEW a2 \in S, NEW a3 \in S, NEW a4 \in S, NEW a5 \in S
    PROVE  <<a1, a2, a3, a4, a5>> \in Seq(S)
OBVIOUS

LEMMA SeqBoth == ASSUME NEW S, NEW p \in Seq(S), NEW q \in Seq(S) PROVE p \o q \in Seq(S)
OBVIOUS

LEMMA TermWords ==
    ASSUME NEW col \in 0..3, NEW row \in 0..3 PROVE Term(col, row) \in Seq(SourceWord)
<1>1. /\ loader \in Bank /\ acc \in Bank /\ calc \in Bank /\ row \in Bank
      /\ COFST_MAT4_WORLD_VIEW_PROJ + col + 4 * row \in Nat /\ 0 \in Nat
  BY Registers DEF COFST_MAT4_WORLD_VIEW_PROJ
<1>. DEFINE w1 == gp_ldci(loader, COFST_MAT4_WORLD_VIEW_PROJ + col + 4 * row)
            w2 == gp_fp("FMUL", calc, row, loader)
            w3 == gp_adi(loader, acc, 0)
            w4 == gp_fp("FADD", acc, loader, calc)
<1>2. w1 \in SourceWord /\ w2 \in SourceWord /\ w3 \in SourceWord /\ w4 \in SourceWord
  BY <1>1, ShaderWords
<1>3. Term(col, row) = <<w1, w2, w3, w4>>
  BY DEF Term
<1>. HIDE DEF w1, w2, w3, w4
<1> QED  BY <1>2, <1>3, SeqFour

\* A thread with a point in its first registers.
Pointed(e, b, mm, v) == Standing(e, b, mm) /\ \A r \in 0..3 : e.regs[r] = v[r + 1]

LEMMA Offsets ==
    /\ COFST_FLOAT_ONE = 1 /\ COFST_WIDTH_HALF = 14 /\ COFST_HEIGHT_HALF = 15
    /\ COFST_MAT4_WORLD_VIEW_PROJ = 16 /\ OFST_VEC3_VTEX_INPUT = 1
    /\ OFST_VECI4_VTEX_OUTPUT = 4 /\ OFST_TABLE = 8 /\ TASK_SPACE = 12
BY DEF COFST_FLOAT_ONE, COFST_WIDTH_HALF, COFST_HEIGHT_HALF, COFST_MAT4_WORLD_VIEW_PROJ,
       OFST_VEC3_VTEX_INPUT, OFST_VECI4_VTEX_OUTPUT, OFST_TABLE, TASK_SPACE

\* The sum of the four rows for a column.
RowSum(v, c, col) ==
    Plus(Plus(Plus(Plus(0, RowTerm(v, c, col, 0)), RowTerm(v, c, col, 1)),
              RowTerm(v, c, col, 2)), RowTerm(v, c, col, 3))

LEMMA ComponentIs ==
    ASSUME UnitsCompute, NEW c \in Consts, NEW b \in Nat, b + 11 < MemDepth, NEW mm, NEW v,
           NEW e, Pointed(e, b, mm, v), NEW col \in 0..3
    PROVE  Pointed(After(e, c, Component(col)), b, [mm EXCEPT ![b + 8 + col] = RowSum(v, c, col)], v)
<1>. DEFINE w1 == gp_mvi(acc, 0)
            w2 == gp_stl(acc, OFST_TABLE + col)
            p0 == <<w1>>
            p1 == p0 \o Term(col, 0)
            p2 == p1 \o Term(col, 1)
            p3 == p2 \o Term(col, 2)
            p4 == p3 \o Term(col, 3)
            p5 == p4 \o <<w2>>
            y0 == 0
            y1 == Plus(y0, RowTerm(v, c, col, 0))
            y2 == Plus(y1, RowTerm(v, c, col, 1))
            y3 == Plus(y2, RowTerm(v, c, col, 2))
            y4 == Plus(y3, RowTerm(v, c, col, 3))
<1>0. 0 \in 0..3 /\ 1 \in 0..3 /\ 2 \in 0..3 /\ 3 \in 0..3
  OBVIOUS
<1>1. Component(col) = p5
  BY DEF Component
<1>2. w1 \in SourceWord /\ w2 \in SourceWord
  <2>1. acc \in Bank /\ 0 \in Bank /\ 0 \in Nat /\ OFST_TABLE + col \in Nat
    BY Registers, Offsets
  <2> QED  BY <2>1, ShaderWords
<1>3. /\ Term(col, 0) \in Seq(SourceWord) /\ Term(col, 1) \in Seq(SourceWord)
      /\ Term(col, 2) \in Seq(SourceWord) /\ Term(col, 3) \in Seq(SourceWord)
  BY <1>0, TermWords
<1>4. RowSum(v, c, col) = y4
  BY DEF RowSum
<1>. HIDE DEF w1, w2, y0, y1, y2, y3, y4
<1>5. p0 \in Seq(SourceWord) /\ <<w2>> \in Seq(SourceWord)
  BY <1>2, SeqOne
<1>6. p1 \in Seq(SourceWord) /\ p2 \in Seq(SourceWord)
      /\ p3 \in Seq(SourceWord) /\ p4 \in Seq(SourceWord)
  <2>. HIDE DEF p0
  <2>1. p1 \in Seq(SourceWord)
    BY <1>3, <1>5, SeqBoth
  <2>. HIDE DEF p1
  <2>2. p2 \in Seq(SourceWord)
    BY <1>3, <2>1, SeqBoth
  <2>. HIDE DEF p2
  <2>3. p3 \in Seq(SourceWord)
    BY <1>3, <2>2, SeqBoth
  <2>. HIDE DEF p3
  <2> QED  BY <1>3, <2>1, <2>2, <2>3, SeqBoth
<1>7. After(e, c, p0) = Effect(e, c, w1)
  BY AfterOne
<1>8. After(e, c, p1) = After(After(e, c, p0), c, Term(col, 0))
  <2>. HIDE DEF p0
  <2> QED  BY <1>3, <1>5, AfterConcat
<1>9. After(e, c, p2) = After(After(e, c, p1), c, Term(col, 1))
  <2>. HIDE DEF p1
  <2> QED  BY <1>3, <1>6, AfterConcat
<1>10. After(e, c, p3) = After(After(e, c, p2), c, Term(col, 2))
  <2>. HIDE DEF p2
  <2> QED  BY <1>3, <1>6, AfterConcat
<1>11. After(e, c, p4) = After(After(e, c, p3), c, Term(col, 3))
  <2>. HIDE DEF p3
  <2> QED  BY <1>3, <1>6, AfterConcat
<1>12. After(e, c, p5) = Effect(After(e, c, p4), c, w2)
  <2>. DEFINE q == <<w2>>
  <2>. HIDE DEF p4, q
  <2>0. q \in Seq(SourceWord)
    BY <1>5 DEF q
  <2>1. After(e, c, p4 \o q) = After(After(e, c, p4), c, q)
    BY <1>6, <2>0, AfterConcat
  <2> QED  BY <2>1, AfterOne DEF q
<1>. DEFINE e0 == After(e, c, p0)
            e1 == After(e, c, p1)
            e2 == After(e, c, p2)
            e3 == After(e, c, p3)
            e4 == After(e, c, p4)
            e5 == After(e, c, p5)
<1>. HIDE DEF p0, p1, p2, p3, p4, p5
<1>13. Summing(e0, b, mm, v, y0)
  <2>1. /\ IsThread(e) /\ ~e.sreg.c /\ e.regs[REGPIVOT] = b /\ e.mem = mm
        /\ \A r \in 0..3 : e.regs[r] = v[r + 1]
    BY DEF Pointed, Standing
  <2>2. acc \in Bank /\ 0 \in Word
    BY Registers, Sizes
  <2>3. Sets(e, e0, acc, y0)
    BY <1>7, <2>1, <2>2, MviSets DEF w1, y0
  <2>. HIDE DEF e0
  <2>4. /\ IsThread(e0) /\ e0.mem = e.mem /\ e0.sreg = e.sreg /\ e0.regs[acc] = y0
        /\ \A q \in Reg \ {acc} : e0.regs[q] = e.regs[q]
    BY <2>1, <2>2, <2>3, SetsIs
  <2>5. REGPIVOT \in Reg \ {acc} /\ 0..3 \subseteq Reg \ {acc}
    BY Registers
  <2> QED  BY <2>1, <2>4, <2>5 DEF Summing, Standing
<1>14. Summing(e1, b, mm, v, y1)
  BY <1>8, <1>13, <1>0, TermIs DEF y1
<1>15. Summing(e2, b, mm, v, y2)
  BY <1>9, <1>14, <1>0, TermIs DEF y2
<1>16. Summing(e3, b, mm, v, y3)
  BY <1>10, <1>15, <1>0, TermIs DEF y3
<1>17. Summing(e4, b, mm, v, y4)
  BY <1>11, <1>16, <1>0, TermIs DEF y4
<1>18. Pointed(e5, b, [mm EXCEPT ![b + 8 + col] = y4], v)
  <2>. HIDE DEF e4, e5
  <2>1. /\ IsThread(e4) /\ ~e4.sreg.c /\ e4.regs[REGPIVOT] = b /\ e4.mem = mm
        /\ e4.regs[acc] = y4 /\ \A r \in 0..3 : e4.regs[r] = v[r + 1]
    BY <1>17 DEF Summing, Standing
  <2>. DEFINE k == OFST_TABLE + col
  <2>2. k \in Nat /\ b + k = b + 8 + col /\ b + k < MemDepth /\ acc \in Bank
    BY Offsets, Registers, Sizes
  <2>3. e5 = Effect(e4, c, gp_stl(acc, k))
    BY <1>12 DEF w2, e4, e5
  <2>. HIDE DEF k
  <2>4. Puts(e4, e5, b + k, e4.regs[acc])
    BY <2>1, <2>2, <2>3, StlPuts
  <2>5. IsThread(e5) /\ e5.regs = e4.regs /\ e5.mem = [e4.mem EXCEPT ![b + k] = e4.regs[acc]]
        /\ e5.sreg = e4.sreg
    BY <2>4 DEF Puts
  <2>6. e5.mem = [mm EXCEPT ![b + 8 + col] = y4]
    BY <2>1, <2>2, <2>5
  <2> QED  BY <2>1, <2>5, <2>6 DEF Pointed, Standing
<1> QED  BY <1>1, <1>4, <1>18 DEF e5

LEMMA ComponentWords == ASSUME NEW col \in 0..3 PROVE Component(col) \in Seq(SourceWord)
<1>. DEFINE w1 == gp_mvi(acc, 0)
            w2 == gp_stl(acc, OFST_TABLE + col)
            t0 == Term(col, 0)
            t1 == Term(col, 1)
            t2 == Term(col, 2)
            t3 == Term(col, 3)
            p0 == <<w1>>
            q == <<w2>>
<1>1. acc \in Bank /\ 0 \in Bank /\ 0 \in Nat /\ OFST_TABLE + col \in Nat
      /\ 0 \in 0..3 /\ 1 \in 0..3 /\ 2 \in 0..3 /\ 3 \in 0..3
  BY Registers, Offsets
<1>2. w1 \in SourceWord /\ w2 \in SourceWord
  BY <1>1, ShaderWords
<1>3. Component(col) = p0 \o t0 \o t1 \o t2 \o t3 \o q
  BY DEF Component
<1>. HIDE DEF w1, w2
<1>4. p0 \in Seq(SourceWord) /\ q \in Seq(SourceWord)
  BY <1>2, SeqOne
<1>5. t0 \in Seq(SourceWord) /\ t1 \in Seq(SourceWord)
      /\ t2 \in Seq(SourceWord) /\ t3 \in Seq(SourceWord)
  BY <1>1, TermWords
<1>. HIDE DEF p0, q, t0, t1, t2, t3
<1> QED  BY <1>3, <1>4, <1>5

LEMMA ToScreenWords ==
    ASSUME NEW reg \in 0..1, NEW k \in 0..3, NEW half \in 0..31
    PROVE  ToScreen(reg, k, half) \in Seq(SourceWord)
<1>. DEFINE w1 == gp_ldl(reg, OFST_TABLE + k)
            w2 == gp_ldci(acc, half)
            w3 == gp_fp("FADD", calc, acc, reg)
            w4 == gp_fp("FTOI", acc, calc, 0)
            w5 == gp_stl(acc, OFST_VECI4_VTEX_OUTPUT + k)
<1>1. /\ acc \in Bank /\ calc \in Bank /\ reg \in Bank /\ 0 \in Bank
      /\ OFST_TABLE + k \in Nat /\ half \in Nat /\ OFST_VECI4_VTEX_OUTPUT + k \in Nat
  BY Registers, Offsets
<1>2. w1 \in SourceWord /\ w2 \in SourceWord /\ w3 \in SourceWord /\ w4 \in SourceWord
      /\ w5 \in SourceWord
  BY <1>1, ShaderWords
<1>3. ToScreen(reg, k, half) = <<w1, w2, w3, w4, w5>>
  BY DEF ToScreen
<1>. HIDE DEF w1, w2, w3, w4, w5
<1> QED  BY <1>2, <1>3, SeqFive

\* A component is moved to the middle of the screen.
Moved(mm, c, b, k, half) == [mm EXCEPT ![b + 4 + k] = OnScreen(c[half], mm[b + 8 + k])]

LEMMA ToScreenIs ==
    ASSUME UnitsCompute, NEW c \in Consts, NEW b \in Nat, b + 11 < MemDepth, NEW mm,
           NEW e, Standing(e, b, mm), NEW reg \in 0..1, NEW k \in 0..1, NEW half \in 0..31
    PROVE  Standing(After(e, c, ToScreen(reg, k, half)), b, Moved(mm, c, b, k, half))
<1>. DEFINE i == OFST_TABLE + k
            o == OFST_VECI4_VTEX_OUTPUT + k
            w1 == gp_ldl(reg, i)
            w2 == gp_ldci(acc, half)
            w3 == gp_fp("FADD", calc, acc, reg)
            w4 == gp_fp("FTOI", acc, calc, 0)
            w5 == gp_stl(acc, o)
            e1 == Effect(e, c, w1)
            e2 == Effect(e1, c, w2)
            e3 == Effect(e2, c, w3)
            e4 == Effect(e3, c, w4)
            e5 == Effect(e4, c, w5)
            t == OnScreen(c[half], mm[b + i])
<1>1. After(e, c, ToScreen(reg, k, half)) = e5
  <2>1. ToScreen(reg, k, half) = <<w1, w2, w3, w4, w5>>
    BY DEF ToScreen
  <2>. HIDE DEF w1, w2, w3, w4, w5
  <2>2. After(e, c, <<w1, w2, w3, w4, w5>>)
           = Effect(Effect(Effect(Effect(Effect(e, c, w1), c, w2), c, w3), c, w4), c, w5)
    BY AfterFive
  <2> QED  BY <2>1, <2>2
<1>2. /\ i \in Nat /\ o \in Nat /\ b + i = b + 8 + k /\ b + o = b + 4 + k
      /\ b + i < MemDepth /\ b + o < MemDepth
  BY Offsets, Sizes
<1>. HIDE DEF i, o, e1, e2, e3, e4, e5, t
<1>3. /\ acc \in Bank /\ calc \in Bank /\ reg \in Bank /\ acc \in Reg /\ calc \in Reg
      /\ reg \in Reg /\ REGPIVOT \in Reg /\ reg # acc /\ reg # calc
      /\ acc = 4 /\ calc = 5 /\ REGPIVOT \notin {reg, acc, calc}
  BY Registers
<1>4. IsThread(e) /\ e.sreg.c = FALSE /\ e.regs[REGPIVOT] = b /\ e.mem = mm
  BY DEF Standing, IsThread
<1>5. /\ IsThread(e1) /\ e1.mem = e.mem /\ e1.sreg = e.sreg /\ e1.regs[reg] = e.mem[b + i]
      /\ \A q \in Reg \ {reg} : e1.regs[q] = e.regs[q]
  <2>1. Sets(e, e1, reg, e.mem[b + i])
    BY <1>2, <1>3, <1>4, LdlSets DEF e1
  <2> QED  BY <1>3, <1>4, <2>1, SetsIs
<1>6. /\ IsThread(e2) /\ e2.mem = e1.mem /\ e2.sreg = e1.sreg /\ e2.regs[acc] = c[half]
      /\ \A q \in Reg \ {acc} : e2.regs[q] = e1.regs[q]
  <2>1. Sets(e1, e2, acc, c[half])
    BY <1>3, <1>5, ConstsIn, LdciSets DEF e2
  <2> QED  BY <1>3, <1>5, <2>1, SetsIs
<1>7. /\ IsThread(e3) /\ e3.mem = e2.mem /\ e3.sreg = e2.sreg
      /\ e3.regs[calc] = FpuQ("FADD", e2.regs[acc], e2.regs[reg])
      /\ \A q \in Reg \ {calc} : e3.regs[q] = e2.regs[q]
  <2>1. Sets(e2, e3, calc, FpuQ("FADD", e2.regs[acc], e2.regs[reg]))
    BY <1>3, <1>6, FpSets DEF e3
  <2> QED  BY <1>3, <1>6, <2>1, SetsIs
<1>8. /\ IsThread(e4) /\ e4.mem = e3.mem /\ e4.sreg = e3.sreg
      /\ e4.regs[acc] = FpuQ("FTOI", e3.regs[calc], 0)
      /\ \A q \in Reg \ {acc} : e4.regs[q] = e3.regs[q]
  <2>1. Sets(e3, e4, acc, FpuQ("FTOI", e3.regs[calc], 0))
    BY <1>3, <1>7, FtoiSets DEF e4
  <2> QED  BY <1>3, <1>7, <2>1, SetsIs
<1>9. e4.regs[acc] = t
  <2>1. e2.regs[reg] = mm[b + i]
    BY <1>3, <1>4, <1>5, <1>6
  <2> QED  BY <1>6, <1>7, <1>8, <2>1 DEF OnScreen, t
<1>10. e4.regs[REGPIVOT] = b /\ e4.mem = mm /\ e4.sreg.c = FALSE
  <2>1. /\ e4.regs[REGPIVOT] = e3.regs[REGPIVOT] /\ e3.regs[REGPIVOT] = e2.regs[REGPIVOT]
        /\ e2.regs[REGPIVOT] = e1.regs[REGPIVOT] /\ e1.regs[REGPIVOT] = e.regs[REGPIVOT]
    BY <1>3, <1>5, <1>6, <1>7, <1>8
  <2> QED  BY <1>4, <1>5, <1>6, <1>7, <1>8, <2>1
<1>11. Puts(e4, e5, b + o, e4.regs[acc])
  BY <1>2, <1>3, <1>8, <1>10, StlPuts DEF e5
<1>12. IsThread(e5) /\ e5.regs = e4.regs /\ e5.mem = [mm EXCEPT ![b + o] = t] /\ e5.sreg = e4.sreg
  BY <1>9, <1>10, <1>11 DEF Puts
<1>13. Standing(e5, b, [mm EXCEPT ![b + o] = t])
  BY <1>10, <1>12 DEF Standing
<1> QED  BY <1>1, <1>2, <1>13 DEF t, Moved

\* The point is loaded, with the one behind it.
Loading ==
    << gp_stl(REGPIVOT, 0), gp_ldl(0, OFST_VEC3_VTEX_INPUT),
       gp_ldl(1, OFST_VEC3_VTEX_INPUT + 1), gp_ldl(2, OFST_VEC3_VTEX_INPUT + 2),
       gp_ldci(3, COFST_FLOAT_ONE) >>

LEMMA LoadingWords == Loading \in Seq(SourceWord)
<1>. DEFINE w1 == gp_stl(REGPIVOT, 0)
            w2 == gp_ldl(0, OFST_VEC3_VTEX_INPUT)
            w3 == gp_ldl(1, OFST_VEC3_VTEX_INPUT + 1)
            w4 == gp_ldl(2, OFST_VEC3_VTEX_INPUT + 2)
            w5 == gp_ldci(3, COFST_FLOAT_ONE)
<1>1. /\ REGPIVOT \in Bank /\ 0 \in Bank /\ 1 \in Bank /\ 2 \in Bank /\ 3 \in Bank
      /\ 0 \in Nat /\ OFST_VEC3_VTEX_INPUT \in Nat /\ OFST_VEC3_VTEX_INPUT + 1 \in Nat
      /\ OFST_VEC3_VTEX_INPUT + 2 \in Nat /\ COFST_FLOAT_ONE \in Nat
  BY Registers, Offsets
<1>2. w1 \in SourceWord /\ w2 \in SourceWord /\ w3 \in SourceWord /\ w4 \in SourceWord
      /\ w5 \in SourceWord
  BY <1>1, ShaderWords
<1>3. Loading = <<w1, w2, w3, w4, w5>>
  BY DEF Loading
<1>. HIDE DEF w1, w2, w3, w4, w5
<1> QED  BY <1>2, <1>3, SeqFive

LEMMA AppendIs ==
    ASSUME NEW S, NEW v \in Seq(S), NEW x \in S
    PROVE  (\A k \in 1..Len(v) : Append(v, x)[k] = v[k]) /\ Append(v, x)[Len(v) + 1] = x
<1>1. Append(v, x)[Len(v) + 1] = x
  BY AppendProperties
<1>2. \A k \in 1..Len(v) : Append(v, x)[k] = v[k]
  BY AppendProperties
<1> QED  BY <1>1, <1>2

LEMMA AppendFour ==
    ASSUME NEW S, NEW v \in Seq(S), NEW x \in S
    PROVE  Len(v) = 3 => /\ Append(v, x)[1] = v[1] /\ Append(v, x)[2] = v[2]
                         /\ Append(v, x)[3] = v[3] /\ Append(v, x)[4] = x
<1>. DEFINE a == Append(v, x)
            n == Len(v)
<1>1. (\A k \in 1..n : a[k] = v[k]) /\ a[n + 1] = x
  BY AppendIs
<1>. HIDE DEF a, n
<1>2. n = 3 => a[1] = v[1] /\ a[2] = v[2] /\ a[3] = v[3] /\ a[4] = x
  BY <1>1
<1> QED  BY <1>2 DEF a, n

LEMMA LoadingIs ==
    ASSUME UnitsCompute, NEW c \in Consts, NEW b \in Nat, b + 11 < MemDepth,
           NEW e, Standing(e, b, e.mem), NEW v \in Seq(Word), Len(v) = 3,
           \A k \in 1..3 : e.mem[b + k] = v[k]
    PROVE  Pointed(After(e, c, Loading), b, [e.mem EXCEPT ![b] = b], Append(v, c[COFST_FLOAT_ONE]))
<1>. DEFINE w1 == gp_stl(REGPIVOT, 0)
            w2 == gp_ldl(0, 1)
            w3 == gp_ldl(1, 2)
            w4 == gp_ldl(2, 3)
            w5 == gp_ldci(3, 1)
            e1 == Effect(e, c, w1)
            e2 == Effect(e1, c, w2)
            e3 == Effect(e2, c, w3)
            e4 == Effect(e3, c, w4)
            e5 == Effect(e4, c, w5)
            mm == [e.mem EXCEPT ![b] = b]
            v4 == Append(v, c[1])
<1>1. After(e, c, Loading) = e5
  <2>1. Loading = <<w1, w2, w3, w4, w5>>
    BY Offsets DEF Loading
  <2>. HIDE DEF w1, w2, w3, w4, w5
  <2>2. After(e, c, <<w1, w2, w3, w4, w5>>)
           = Effect(Effect(Effect(Effect(Effect(e, c, w1), c, w2), c, w3), c, w4), c, w5)
    BY AfterFive
  <2> QED  BY <2>1, <2>2
<1>2. v4[1] = v[1] /\ v4[2] = v[2] /\ v4[3] = v[3] /\ v4[4] = c[1]
  <2>1. 1 \in 0..31
    OBVIOUS
  <2>2. c[1] \in Word
    BY <2>1, ConstsIn
  <2> QED  BY <2>2, AppendFour
<1>3. IsThread(e) /\ e.sreg.c = FALSE /\ e.regs[REGPIVOT] = b
      /\ e.mem \in [0..MemDepth-1 -> Word]
  BY DEF Standing, IsThread
<1>4. /\ b + 0 = b /\ b + 0 < MemDepth /\ b + 1 < MemDepth /\ b + 2 < MemDepth
      /\ b + 3 < MemDepth /\ b \in 0..MemDepth-1 /\ b + 1 \in 0..MemDepth-1
      /\ b + 2 \in 0..MemDepth-1 /\ b + 3 \in 0..MemDepth-1
      /\ b + 1 # b /\ b + 2 # b /\ b + 3 # b
  BY Sizes
<1>5. mm[b + 1] = v[1] /\ mm[b + 2] = v[2] /\ mm[b + 3] = v[3]
  BY <1>3, <1>4
<1>. HIDE DEF e1, e2, e3, e4, e5, v4, mm
<1>6. /\ REGPIVOT \in Bank /\ 0 \in Bank /\ 1 \in Bank /\ 2 \in Bank /\ 3 \in Bank
      /\ REGPIVOT \in Reg /\ 0 \in Reg /\ 1 \in Reg /\ 2 \in Reg /\ 3 \in Reg
      /\ REGPIVOT \notin 0..3 /\ 0 \in Nat /\ 1 \in Nat /\ 2 \in Nat /\ 3 \in Nat
  BY Registers
<1>7. IsThread(e1) /\ e1.regs = e.regs /\ e1.mem = mm /\ e1.sreg = e.sreg
  <2>1. Puts(e, e1, b + 0, e.regs[REGPIVOT])
    BY <1>3, <1>4, <1>6, StlPuts DEF e1
  <2> QED  BY <1>3, <1>4, <2>1 DEF Puts, mm
<1>8. /\ IsThread(e2) /\ e2.mem = mm /\ e2.sreg = e1.sreg /\ e2.regs[0] = v[1]
      /\ \A q \in Reg \ {0} : e2.regs[q] = e1.regs[q]
  <2>1. e1.regs[REGPIVOT] = b
    BY <1>3, <1>7
  <2>2. Sets(e1, e2, 0, e1.mem[b + 1])
    BY <1>4, <1>6, <1>7, <2>1, LdlSets DEF e2
  <2>3. /\ IsThread(e2) /\ e2.mem = e1.mem /\ e2.sreg = e1.sreg /\ e2.regs[0] = e1.mem[b + 1]
        /\ \A q \in Reg \ {0} : e2.regs[q] = e1.regs[q]
    <3>. DEFINE x == e1.mem[b + 1]
    <3>1. 0 \in Bank /\ IsThread(e1) /\ Sets(e1, e2, 0, x)
      BY <1>6, <1>7, <2>2
    <3>. HIDE DEF x
    <3>2. /\ IsThread(e2) /\ e2.mem = e1.mem /\ e2.sreg = e1.sreg /\ e2.regs[0] = x
          /\ \A q \in Reg \ {0} : e2.regs[q] = e1.regs[q]
      BY <3>1, SetsIs
    <3> QED  BY <3>2 DEF x
  <2> QED  BY <1>5, <1>7, <2>3
<1>9. /\ IsThread(e3) /\ e3.mem = mm /\ e3.sreg = e2.sreg /\ e3.regs[1] = v[2]
      /\ \A q \in Reg \ {1} : e3.regs[q] = e2.regs[q]
  <2>1. e2.regs[REGPIVOT] = b
    BY <1>3, <1>6, <1>7, <1>8
  <2>2. Sets(e2, e3, 1, e2.mem[b + 2])
    BY <1>4, <1>6, <1>8, <2>1, LdlSets DEF e3
  <2>3. /\ IsThread(e3) /\ e3.mem = e2.mem /\ e3.sreg = e2.sreg /\ e3.regs[1] = e2.mem[b + 2]
        /\ \A q \in Reg \ {1} : e3.regs[q] = e2.regs[q]
    BY <1>6, <1>8, <2>2, SetsIs
  <2> QED  BY <1>5, <1>8, <2>3
<1>10. /\ IsThread(e4) /\ e4.mem = mm /\ e4.sreg = e3.sreg /\ e4.regs[2] = v[3]
       /\ \A q \in Reg \ {2} : e4.regs[q] = e3.regs[q]
  <2>1. e3.regs[REGPIVOT] = b
    BY <1>3, <1>6, <1>7, <1>8, <1>9
  <2>2. Sets(e3, e4, 2, e3.mem[b + 3])
    BY <1>4, <1>6, <1>9, <2>1, LdlSets DEF e4
  <2>3. /\ IsThread(e4) /\ e4.mem = e3.mem /\ e4.sreg = e3.sreg /\ e4.regs[2] = e3.mem[b + 3]
        /\ \A q \in Reg \ {2} : e4.regs[q] = e3.regs[q]
    BY <1>6, <1>9, <2>2, SetsIs
  <2> QED  BY <1>5, <1>9, <2>3
<1>11. /\ IsThread(e5) /\ e5.mem = mm /\ e5.sreg = e4.sreg /\ e5.regs[3] = c[1]
       /\ \A q \in Reg \ {3} : e5.regs[q] = e4.regs[q]
  <2>1. 1 \in 0..31
    OBVIOUS
  <2>2. Sets(e4, e5, 3, c[1])
    BY <1>6, <1>10, <2>1, ConstsIn, LdciSets DEF e5
  <2>3. /\ IsThread(e5) /\ e5.mem = e4.mem /\ e5.sreg = e4.sreg /\ e5.regs[3] = c[1]
        /\ \A q \in Reg \ {3} : e5.regs[q] = e4.regs[q]
    BY <1>6, <1>10, <2>2, SetsIs
  <2> QED  BY <1>10, <2>3
<1>12. e5.regs[0] = v4[1] /\ e5.regs[1] = v4[2] /\ e5.regs[2] = v4[3] /\ e5.regs[3] = v4[4]
  BY <1>2, <1>6, <1>8, <1>9, <1>10, <1>11
<1>13. \A r \in 0..3 : e5.regs[r] = v4[r + 1]
  BY <1>12
<1>14. e5.regs[REGPIVOT] = b /\ e5.sreg.c = FALSE
  BY <1>3, <1>6, <1>7, <1>8, <1>9, <1>10, <1>11
<1>15. Pointed(e5, b, mm, v4)
  BY <1>11, <1>13, <1>14 DEF Pointed, Standing
<1> QED  BY <1>1, <1>15, Offsets DEF v4, mm

\* The whole shader: the point stays, and the two words behind it are where it is on the
\* screen.
Point(mm, b, v) == v \in Seq(Word) /\ Len(v) = 3 /\ \A k \in 1..3 : mm[b + k] = v[k]
Shaded(mm, b, v, c) ==
    /\ \A k \in 1..3 : mm[b + k] = v[k]
    /\ mm[b + 4] = OnScreen(c[COFST_WIDTH_HALF], Product(v, c, 0))
    /\ mm[b + 5] = OnScreen(c[COFST_HEIGHT_HALF], Product(v, c, 1))

LEMMA ShaderIs ==
    ASSUME UnitsCompute, NEW c \in Consts, NEW b \in Nat, b + 11 < MemDepth,
           NEW e, Standing(e, b, e.mem), NEW v, Point(e.mem, b, v)
    PROVE  Shaded(After(e, c, VertexShader).mem, b, v, c)
<1>. DEFINE C0 == Component(0)
            C1 == Component(1)
            C2 == Component(2)
            C3 == Component(3)
            T0 == ToScreen(0, 0, 14)
            T1 == ToScreen(1, 1, 15)
            p1 == Loading \o C0
            p2 == p1 \o C1
            p3 == p2 \o C2
            p4 == p3 \o C3
            p5 == p4 \o T0
            p6 == p5 \o T1
            v4 == Append(v, c[1])
            m0 == [e.mem EXCEPT ![b] = b]
            m1 == [m0 EXCEPT ![b + 8 + 0] = RowSum(v4, c, 0)]
            m2 == [m1 EXCEPT ![b + 8 + 1] = RowSum(v4, c, 1)]
            m3 == [m2 EXCEPT ![b + 8 + 2] = RowSum(v4, c, 2)]
            m4 == [m3 EXCEPT ![b + 8 + 3] = RowSum(v4, c, 3)]
            m5 == Moved(m4, c, b, 0, 14)
            m6 == Moved(m5, c, b, 1, 15)
<1>1. VertexShader = p6
  BY Offsets DEF VertexShader, Loading
<1>2. /\ 0 \in 0..3 /\ 1 \in 0..3 /\ 2 \in 0..3 /\ 3 \in 0..3 /\ 0 \in 0..1 /\ 1 \in 0..1
      /\ 14 \in 0..31 /\ 15 \in 0..31
  OBVIOUS
<1>3. /\ Loading \in Seq(SourceWord) /\ C0 \in Seq(SourceWord) /\ C1 \in Seq(SourceWord)
      /\ C2 \in Seq(SourceWord) /\ C3 \in Seq(SourceWord) /\ T0 \in Seq(SourceWord)
      /\ T1 \in Seq(SourceWord)
  BY <1>2, LoadingWords, ComponentWords, ToScreenWords
<1>. HIDE DEF C0, C1, C2, C3, T0, T1
<1>4. p1 \in Seq(SourceWord)
  BY <1>3, SeqBoth
<1>5. p2 \in Seq(SourceWord)
  <2>. HIDE DEF p1
  <2> QED  BY <1>3, <1>4, SeqBoth
<1>6. p3 \in Seq(SourceWord)
  <2>. HIDE DEF p2
  <2> QED  BY <1>3, <1>5, SeqBoth
<1>7. p4 \in Seq(SourceWord)
  <2>. HIDE DEF p3
  <2> QED  BY <1>3, <1>6, SeqBoth
<1>8. p5 \in Seq(SourceWord)
  <2>. HIDE DEF p4
  <2> QED  BY <1>3, <1>7, SeqBoth
<1>9. After(e, c, p1) = After(After(e, c, Loading), c, C0)
  BY <1>3, AfterConcat
<1>10. After(e, c, p2) = After(After(e, c, p1), c, C1)
  <2>. HIDE DEF p1
  <2> QED  BY <1>3, <1>4, AfterConcat
<1>11. After(e, c, p3) = After(After(e, c, p2), c, C2)
  <2>. HIDE DEF p2
  <2> QED  BY <1>3, <1>5, AfterConcat
<1>12. After(e, c, p4) = After(After(e, c, p3), c, C3)
  <2>. HIDE DEF p3
  <2> QED  BY <1>3, <1>6, AfterConcat
<1>13. After(e, c, p5) = After(After(e, c, p4), c, T0)
  <2>. HIDE DEF p4
  <2> QED  BY <1>3, <1>7, AfterConcat
<1>14. After(e, c, p6) = After(After(e, c, p5), c, T1)
  <2>. HIDE DEF p5
  <2> QED  BY <1>3, <1>8, AfterConcat
<1>. HIDE DEF p1, p2, p3, p4, p5, p6, v4, m0, m1, m2, m3, m4, m5, m6
<1>15. Pointed(After(e, c, Loading), b, m0, v4)
  <2>1. v \in Seq(Word) /\ Len(v) = 3 /\ \A k \in 1..3 : e.mem[b + k] = v[k]
    BY DEF Point
  <2> QED  BY <2>1, LoadingIs, Offsets DEF m0, v4
<1>16. Pointed(After(e, c, p1), b, m1, v4)
  BY <1>2, <1>9, <1>15, ComponentIs DEF C0, m1
<1>17. Pointed(After(e, c, p2), b, m2, v4)
  BY <1>2, <1>10, <1>16, ComponentIs DEF C1, m2
<1>18. Pointed(After(e, c, p3), b, m3, v4)
  BY <1>2, <1>11, <1>17, ComponentIs DEF C2, m3
<1>19. Pointed(After(e, c, p4), b, m4, v4)
  BY <1>2, <1>12, <1>18, ComponentIs DEF C3, m4
<1>20. Standing(After(e, c, p5), b, m5)
  <2>1. Standing(After(e, c, p4), b, m4)
    BY <1>19 DEF Pointed
  <2> QED  BY <1>2, <1>13, <2>1, ToScreenIs DEF T0, m5
<1>21. Standing(After(e, c, p6), b, m6)
  BY <1>2, <1>14, <1>20, ToScreenIs DEF T1, m6
<1>22. After(e, c, VertexShader).mem = m6
  BY <1>1, <1>21 DEF Standing
<1>23. RowSum(v4, c, 0) = Product(v, c, 0) /\ RowSum(v4, c, 1) = Product(v, c, 1)
  BY Offsets DEF RowSum, RowTerm, Product, v4
<1>24. /\ e.mem \in [0..MemDepth-1 -> Word]
       /\ \A k \in 0..11 : b + k \in 0..MemDepth-1
       /\ \A k, l \in 0..11 : k # l => b + k # b + l
       /\ b + 0 = b /\ b + 8 + 0 = b + 8 /\ b + 8 + 1 = b + 9 /\ b + 8 + 2 = b + 10
       /\ b + 8 + 3 = b + 11 /\ b + 4 + 0 = b + 4 /\ b + 4 + 1 = b + 5
       /\ b + 1 # b /\ b + 2 # b /\ b + 3 # b
  <2>1. e.mem \in [0..MemDepth-1 -> Word]
    BY DEF Standing, IsThread
  <2>2. MemDepth \in Nat
    BY Sizes
  <2>3. \A k \in 0..11 : b + k \in 0..MemDepth-1
    BY <2>2
  <2>4. \A k, l \in 0..11 : k # l => b + k # b + l
    OBVIOUS
  <2>5. /\ b + 0 = b /\ b + 8 + 0 = b + 8 /\ b + 8 + 1 = b + 9 /\ b + 8 + 2 = b + 10
        /\ b + 8 + 3 = b + 11 /\ b + 4 + 0 = b + 4 /\ b + 4 + 1 = b + 5
        /\ b + 1 # b /\ b + 2 # b /\ b + 3 # b
    OBVIOUS
  <2> QED  BY <2>1, <2>3, <2>4, <2>5
<1>25. /\ \A k \in 1..3 : m6[b + k] = v[k]
       /\ m6[b + 4] = OnScreen(c[14], RowSum(v4, c, 0))
       /\ m6[b + 5] = OnScreen(c[15], RowSum(v4, c, 1))
  <2>. DEFINE D == 0..MemDepth-1
  <2>1. DOMAIN m0 = D /\ DOMAIN m1 = D /\ DOMAIN m2 = D /\ DOMAIN m3 = D /\ DOMAIN m4 = D
        /\ DOMAIN m5 = D
    BY <1>24 DEF m0, m1, m2, m3, m4, m5, Moved
  <2>. DEFINE q0 == RowSum(v4, c, 0)
              q1 == RowSum(v4, c, 1)
              q2 == RowSum(v4, c, 2)
              q3 == RowSum(v4, c, 3)
  <2>. HIDE DEF D, q0, q1, q2, q3
  <2>2. /\ b \in D /\ b + 1 \in D /\ b + 2 \in D /\ b + 3 \in D /\ b + 4 \in D /\ b + 5 \in D
        /\ b + 8 \in D /\ b + 9 \in D /\ b + 10 \in D /\ b + 11 \in D
    BY <1>24 DEF D
  <2>3. m4[b + 8] = q0 /\ m4[b + 9] = q1
        /\ m4[b + 1] = e.mem[b + 1] /\ m4[b + 2] = e.mem[b + 2] /\ m4[b + 3] = e.mem[b + 3]
    <3>1. /\ m0[b + 1] = e.mem[b + 1] /\ m0[b + 2] = e.mem[b + 2] /\ m0[b + 3] = e.mem[b + 3]
      BY <1>24, <2>2 DEF m0, D
    <3>2. m1[b + 8] = q0
          /\ m1[b + 1] = m0[b + 1] /\ m1[b + 2] = m0[b + 2] /\ m1[b + 3] = m0[b + 3]
      BY <1>24, <2>1, <2>2 DEF m1, q0
    <3>3. m2[b + 8] = m1[b + 8] /\ m2[b + 9] = q1
          /\ m2[b + 1] = m1[b + 1] /\ m2[b + 2] = m1[b + 2] /\ m2[b + 3] = m1[b + 3]
      BY <1>24, <2>1, <2>2 DEF m2, q1
    <3>4. m3[b + 8] = m2[b + 8] /\ m3[b + 9] = m2[b + 9]
          /\ m3[b + 1] = m2[b + 1] /\ m3[b + 2] = m2[b + 2] /\ m3[b + 3] = m2[b + 3]
      BY <1>24, <2>1, <2>2 DEF m3
    <3>5. m4[b + 8] = m3[b + 8] /\ m4[b + 9] = m3[b + 9]
          /\ m4[b + 1] = m3[b + 1] /\ m4[b + 2] = m3[b + 2] /\ m4[b + 3] = m3[b + 3]
      BY <1>24, <2>1, <2>2 DEF m4
    <3> QED  BY <3>1, <3>2, <3>3, <3>4, <3>5
  <2>4. m5[b + 4] = OnScreen(c[14], m4[b + 8]) /\ m5[b + 9] = m4[b + 9]
        /\ m5[b + 1] = m4[b + 1] /\ m5[b + 2] = m4[b + 2] /\ m5[b + 3] = m4[b + 3]
    BY <1>24, <2>1, <2>2 DEF m5, Moved
  <2>5. m6[b + 5] = OnScreen(c[15], m5[b + 9]) /\ m6[b + 4] = m5[b + 4]
        /\ m6[b + 1] = m5[b + 1] /\ m6[b + 2] = m5[b + 2] /\ m6[b + 3] = m5[b + 3]
    BY <1>24, <2>1, <2>2 DEF m6, Moved
  <2>6. m6[b + 1] = v[1] /\ m6[b + 2] = v[2] /\ m6[b + 3] = v[3]
    BY <2>3, <2>4, <2>5 DEF Point
  <2>7. \A k \in 1..3 : m6[b + k] = v[k]
    BY <2>6
  <2> QED  BY <2>3, <2>4, <2>5, <2>7 DEF q0, q1
<1> QED  BY <1>22, <1>23, <1>25, Offsets DEF Shaded

-----------------------------------------------------------------------------
(* The points, from the elements that the driver writes to the array that  *)
(* it fetches the results into.                                            *)

\* A point in the space of its task.
PointAt(m, idx) ==
    \A k \in 1..3 : m[ThreadOf(idx)][BaseOf(idx) + k] = job.elements[idx + 1][k]

\* Before a run and while its results are fetched, the constants are those of the frame.
ConstantsWritten ==
    at \notin {"clear", "init", "write", "program", "const"} =>
       \A a \in 1..31 : a \in DOMAIN job.constants[frame] => gmem[a] = job.constants[frame][a]

\* The points are in their places, in every frame: the shader leaves them there.
PointsPut ==
    (Fits /\ job.program = VertexShader) =>
       /\ at = "write" => \A idx \in 0..idx_task-1 : PointAt(mem, idx)
       /\ at \in {"program", "const", "start"} =>
             \A idx \in 0..ro_numtask-1 : PointAt(mem, idx)
       /\ at \in {"run", "done", "read", "drawn"} =>
             \A idx \in 0..ro_numtask-1 : PointAt(given, idx)

\* The space of a task of the shader, and its point.
LEMMA ShaderTask ==
    ASSUME ShaderJobs, TasksInv, at \notin {"clear", "init"}, Fits, job.program = VertexShader,
           NEW idx \in 0..ro_numtask-1
    PROVE  /\ mtaskmem = 12 /\ job.ofst_in = 1 /\ job.out = 3 /\ job.ofst_out = 4
           /\ ThreadOf(idx) \in Thread
           /\ BaseOf(idx) \in Nat /\ BaseOf(idx) + 12 <= MemDepth
           /\ job.elements[idx + 1] \in Seq(Word) /\ Len(job.elements[idx + 1]) = 3
<1>1. /\ job \in Job /\ mtaskmem = job.mtaskmem /\ ro_numtask = Len(job.elements)
  BY DEF TasksInv, Values, Told
<1>2. /\ mtaskmem = 12 /\ job.ofst_in = 1 /\ job.out = 3 /\ job.ofst_out = 4
      /\ \A k \in 1..Len(job.elements) : Len(job.elements[k]) = 3
  BY <1>1, Offsets DEF ShaderJobs
<1>3. /\ ThreadOf(idx) \in Thread /\ idx \div mnumthr \in 0..3*num_cycles-1
      /\ num_cycles \in Nat /\ num_cycles * (3 * mtaskmem) <= MemDepth
      /\ mtaskmem \in Nat /\ ro_numtask \in Nat
  BY ToldIs
<1>4. BaseOf(idx) \in Nat /\ BaseOf(idx) + mtaskmem <= MemDepth
  BY <1>3, RowFits, Sizes DEF BaseOf
<1>5. idx + 1 \in 1..Len(job.elements)
  BY <1>1, <1>3
<1>6. job.elements[idx + 1] \in Seq(Word)
  BY <1>1, <1>5, JobIs
<1> QED  BY <1>2, <1>3, <1>4, <1>5, <1>6

\* What the shader does to a task that it has to itself.
LEMMA ShaderAlone ==
    ASSUME UnitsCompute, ShaderJobs, TasksInv, at \notin {"clear", "init"}, Fits,
           job.program = VertexShader, NEW idx \in 0..ro_numtask-1, PointAt(given, idx)
    PROVE  Shaded(Alone(idx), BaseOf(idx), job.elements[idx + 1], gmem)
<1>. DEFINE t == ThreadOf(idx)
            b == BaseOf(idx)
            g == given[t]
            v == job.elements[idx + 1]
            e == StartOf(b, g)
<1>1. /\ t \in Thread /\ b \in Nat /\ b + 12 <= MemDepth /\ v \in Seq(Word) /\ Len(v) = 3
  BY ShaderTask
<1>2. g \in [0..MemDepth-1 -> Word] /\ gmem \in Consts
  BY <1>1, ThrIs DEF TasksInv, Values
<1>3. Alone(idx) = After(e, gmem, VertexShader).mem
  BY DEF Alone, After
<1>4. \A k \in 1..3 : g[b + k] = v[k]
  BY DEF PointAt
<1>. HIDE DEF t, b, v, g
<1>5. b + 11 < MemDepth /\ b \in Word /\ 0 \in Word /\ REGPIVOT \in Reg
  BY <1>1, Sizes, Numbers
<1>6. Standing(e, b, e.mem) /\ e.mem = g
  <2>1. e.regs = [r \in Reg |-> IF r = REGPIVOT THEN b ELSE 0] /\ e.mem = g
        /\ e.sreg = SregReset
    BY DEF StartOf
  <2>2. SregReset.c = FALSE
    BY DEF SregReset
  <2>. HIDE DEF e
  <2> QED  BY <1>2, <1>5, <2>1, <2>2 DEF Standing, IsThread
<1>. HIDE DEF e
<1>7. Point(e.mem, b, v)
  BY <1>1, <1>4, <1>6 DEF Point
<1>8. Shaded(After(e, gmem, VertexShader).mem, b, v, gmem)
  BY <1>2, <1>1, <1>5, <1>6, <1>7, ShaderIs
<1> QED  BY <1>3, <1>8 DEF b, v

LEMMA ConstantsKept ==
    ASSUME TasksInv, ConstantsWritten, [TasksNext]_tasksVars PROVE ConstantsWritten'
<1>1. ASSUME UNCHANGED <<gmem, job, frame, at>> PROVE ConstantsWritten'
  BY <1>1 DEF ConstantsWritten
<1>2. CASE MemClr \/ InitTask \/ WriteTask \/ WriteEnds \/ UploadProgram \/ NextRound
  <2>1. at' \in {"init", "write", "program", "const"}
    BY <1>2 DEF MemClr, InitTask, WriteTask, WriteEnds, UploadProgram, NextRound
  <2> QED  BY <2>1 DEF ConstantsWritten
<1>3. CASE WriteConst
  <2>1. gmem \in Consts /\ DOMAIN gmem = 0..NumConst-1 /\ NumConst = 32
    BY Sizes DEF TasksInv, Values, Consts
  <2>2. \A a \in 1..31 : a \in DOMAIN job.constants[frame] => gmem'[a] = job.constants[frame][a]
    BY <1>3, <2>1 DEF WriteConst
  <2> QED  BY <1>3, <2>2 DEF WriteConst, ConstantsWritten
<1>4. ASSUME UNCHANGED <<job, frame>>,
             \A a \in 1..31 : gmem'[a] = gmem[a],
             at \notin {"clear", "init", "write", "program", "const"}
      PROVE  ConstantsWritten'
  BY <1>4 DEF ConstantsWritten
<1>5. ASSUME NEW x, Offered(x) PROVE \A a \in 1..31 : gmem'[a] = gmem[a]
  <2>1. DOMAIN gmem = 0..NumConst-1 /\ NumConst = 32
    BY Sizes DEF TasksInv, Values, Consts
  <2>2. \A a \in 1..31 : a \in DOMAIN gmem /\ a # 0
    BY <2>1
  <2> QED  BY <1>5, <2>2 DEF Offered
<1>6. CASE Run
  BY <1>4, <1>5, <1>6 DEF Run
<1>7. CASE NextCycle
  <2>1. \A a \in 1..31 : gmem'[a] = gmem[a]
    BY <1>5, <1>7 DEF NextCycle
  <2> QED  BY <1>4, <1>7, <2>1 DEF NextCycle
<1>8. CASE CarryOutWord
  BY <1>1, <1>8 DEF CarryOutWord
<1>9. CASE Download \/ ReadTask \/ ReadEnds
  <2>1. UNCHANGED <<gmem, job, frame>> /\ at \in {"done", "read"}
    BY <1>9 DEF Download, ReadTask, ReadEnds, isaVars
  <2> QED  BY <1>4, <2>1
<1>10. CASE UNCHANGED tasksVars
  BY <1>1, <1>10 DEF tasksVars, isaVars
<1> QED  BY <1>2, <1>3, <1>6, <1>7, <1>8, <1>9, <1>10 DEF TasksNext

\* The loop of gppcu_write puts a point in its place and leaves the ones before it.
LEMMA ModBehind ==
    ASSUME NEW n \in Nat, NEW x \in Int, -n <= x, x < 0 PROVE x % n = x + n
OBVIOUS

LEMMA WritesPoint ==
    ASSUME ShaderJobs, TasksInv, WriteTask, Fits, job.program = VertexShader,
           \A idx \in 0..idx_task-1 : PointAt(mem, idx)
    PROVE  \A idx \in 0..idx_task : PointAt(mem', idx)
<1>1. /\ idx_task \in 0..ro_numtask-1 /\ idx_thread = ThreadOf(idx_task)
      /\ cycle_based_offset = BaseOf(idx_task) /\ idx_task \in Nat /\ ro_numtask \in Nat
  <2>1. /\ idx_task \in 0..ro_numtask /\ idx_thread = ThreadOf(idx_task)
        /\ cycle_based_offset = BaseOf(idx_task) /\ ro_numtask \in Nat
    BY ToldIs DEF WriteTask, TasksInv, Looped
  <2> QED  BY <2>1 DEF WriteTask
<1>. DEFINE v == job.elements[idx_task + 1]
            l == Len(v)
            y == BaseOf(idx_task)
            t == ThreadOf(idx_task)
            first == cycle_based_offset + job.ofst_in
            new == [a \in 0..MemDepth-1 |->
                      IF (a - first) % MemDepth < l THEN v[((a - first) % MemDepth) + 1]
                      ELSE mem[t][a]]
<1>2. /\ mtaskmem = 12 /\ job.ofst_in = 1 /\ t \in Thread /\ y \in Nat /\ y + 12 <= MemDepth
      /\ l = 3
  BY <1>1, ShaderTask DEF WriteTask
<1>3. mem \in [Thread -> [0..MemDepth-1 -> Word]] /\ MemDepth \in Nat
  BY Sizes DEF TasksInv, Values
<1>4. mem' = [mem EXCEPT ![t] = new]
  BY <1>1 DEF WriteTask
<1>5. first = y + 1
  BY <1>1, <1>2
<1>. HIDE DEF v, l, y, t, first
<1>6. mem'[t] = new /\ \A s \in Thread \ {t} : mem'[s] = mem[s]
  BY <1>2, <1>3, <1>4
<1>7. ASSUME NEW a \in 0..MemDepth-1
      PROVE  new[a] = IF (a - (y + 1)) % MemDepth < 3 THEN v[((a - (y + 1)) % MemDepth) + 1]
                      ELSE mem[t][a]
  BY <1>2, <1>5
<1>. HIDE DEF new
<1>8. PointAt(mem', idx_task)
  <2>1. ASSUME NEW k \in 1..3 PROVE new[y + k] = v[k]
    <3>1. y + k \in 0..MemDepth-1 /\ (y + k) - (y + 1) = k - 1
      BY <1>2, <1>3
    <3>2. k - 1 \in 0..MemDepth-1 /\ k - 1 < 3 /\ (k - 1) + 1 = k
      BY <1>2, <1>3
    <3>. DEFINE j == k - 1
    <3>3. j % MemDepth = j
      BY <1>3, <3>2, ModSmall
    <3>. DEFINE a == y + k
    <3>4. new[a] = IF (a - (y + 1)) % MemDepth < 3 THEN v[((a - (y + 1)) % MemDepth) + 1]
                   ELSE mem[t][a]
      BY <1>7, <3>1
    <3>5. a - (y + 1) = j
      BY <3>1
    <3>. HIDE DEF a, j
    <3>6. j < 3 /\ j + 1 = k
      BY <3>2 DEF j
    <3> QED  BY <3>3, <3>4, <3>5, <3>6 DEF a
  <2> QED  BY <1>6, <2>1 DEF PointAt, v, y, t
<1>9. ASSUME NEW idx \in 0..idx_task-1 PROVE PointAt(mem', idx)
  <2>. DEFINE x == BaseOf(idx)
              s == ThreadOf(idx)
  <2>1. idx \in 0..ro_numtask-1 /\ idx \in Nat /\ idx # idx_task
    BY <1>1
  <2>2. s \in Thread /\ x \in Nat /\ x + 12 <= MemDepth
    BY <2>1, ShaderTask DEF WriteTask
  <2>3. \A k \in 1..3 : mem[s][x + k] = job.elements[idx + 1][k]
    BY <1>9 DEF PointAt
  <2>4. CASE s # t
    <3>1. mem'[s] = mem[s]
      BY <1>6, <2>2, <2>4
    <3> QED  BY <2>3, <3>1 DEF PointAt
  <2>5. CASE s = t
    <3>1. x + 12 <= y \/ y + 12 <= x
      <4>. DEFINE d == mnumthr
                  q == idx \div d
                  r == idx_task \div d
      <4>1. d \in Nat \ {0}
        BY Sizes
      <4>2. q \in Nat /\ idx = d * q + (idx % d) /\ r \in Nat /\ idx_task = d * r + (idx_task % d)
        BY <1>1, <2>1, <4>1, Division
      <4>3. idx % d = idx_task % d
        BY <2>5 DEF ThreadOf, t
      <4>4. x = q * 12 /\ y = r * 12
        BY <1>2 DEF BaseOf, y
      <4>. HIDE DEF d, q, r, x
      <4>5. q # r
        BY <2>1, <4>2, <4>3
      <4>6. q * 12 + 12 <= r * 12 \/ r * 12 + 12 <= q * 12
        BY <4>2, <4>5
      <4> QED  BY <4>4, <4>6
    <3>. HIDE DEF x, s
    <3>2. ASSUME NEW k \in 1..3 PROVE new[x + k] = mem[t][x + k]
      <4>. DEFINE a == x + k
                  z == a - (y + 1)
      <4>1. a \in 0..MemDepth-1 /\ z \in Int
        BY <1>2, <1>3, <2>2
      <4>2. new[a] = IF z % MemDepth < 3 THEN v[(z % MemDepth) + 1] ELSE mem[t][a]
        BY <1>7, <4>1
      <4>3. ~(z % MemDepth < 3)
        <5>1. CASE x + 12 <= y
          <6>1. -MemDepth <= z /\ z < 0 /\ ~(z + MemDepth < 3)
            BY <1>2, <1>3, <2>2, <5>1
          <6>. HIDE DEF z
          <6> QED  BY <1>3, <4>1, <6>1, ModBehind
        <5>2. CASE y + 12 <= x
          <6>1. z \in 0..MemDepth-1 /\ ~(z < 3)
            BY <1>2, <1>3, <2>2, <5>2
          <6>. HIDE DEF z
          <6>2. z % MemDepth = z
            BY <1>3, <6>1, ModSmall
          <6> QED  BY <6>1, <6>2
        <5> QED  BY <3>1, <5>1, <5>2
      <4>. HIDE DEF a, z
      <4>4. new[a] = mem[t][a]
        BY <4>2, <4>3
      <4> QED  BY <4>4 DEF a
    <3>3. \A k \in 1..3 : mem'[s][x + k] = job.elements[idx + 1][k]
      BY <1>6, <2>3, <2>5, <3>2
    <3> QED  BY <3>3 DEF PointAt, x, s
  <2> QED  BY <2>4, <2>5
<1>10. \A idx \in 0..idx_task : idx = idx_task \/ idx \in 0..idx_task-1
  BY <1>1
<1> QED  BY <1>8, <1>9, <1>10

\* The shader has left the points where they were given.
LEMMA PointsLeft ==
    ASSUME UnitsCompute, ShaderJobs, TasksInv, Fits, job.program = VertexShader,
           at \in {"done", "read", "drawn"}, NEW idx \in 0..ro_numtask-1, PointAt(given, idx)
    PROVE  PointAt(mem, idx)
<1>1. RanAll
  BY DEF TasksInv, Ran
<1>2. \A k \in 0..mtaskmem-1 : mem[ThreadOf(idx)][BaseOf(idx) + k] = Alone(idx)[BaseOf(idx) + k]
  BY <1>1, SpaceOfTask
<1>3. mtaskmem = 12
  BY ShaderTask
<1>4. Shaded(Alone(idx), BaseOf(idx), job.elements[idx + 1], gmem)
  BY ShaderAlone
<1>5. \A k \in 1..3 : k \in 0..mtaskmem-1
  BY <1>3
<1> QED  BY <1>2, <1>4, <1>5 DEF Shaded, PointAt

LEMMA PointsKept ==
    ASSUME UnitsCompute, ShaderJobs, TasksInv, PointsPut, [TasksNext]_tasksVars PROVE PointsPut'
<1>1. ASSUME UNCHANGED <<job, mtaskmem>>
      PROVE  \A idx : PointAt(mem, idx)' = PointAt(mem', idx)
                      /\ PointAt(given, idx)' = PointAt(given', idx)
  BY <1>1 DEF PointAt, ThreadOf, BaseOf
<1>2. ASSUME UNCHANGED <<num_cycles, sz_per_task>> PROVE Fits' = Fits
  BY <1>2 DEF Fits
<1>3. CASE MemClr
  BY <1>3 DEF MemClr, PointsPut
<1>4. CASE InitTask
  <2>1. idx_task' = 0 /\ at' = "write"
    BY <1>4 DEF InitTask, loopVars, TasksInv, Looped, Loop0
  <2>2. 0..0-1 = {}
    OBVIOUS
  <2> QED  BY <2>1, <2>2 DEF PointsPut
<1>5. CASE WriteTask
  <2>1. /\ UNCHANGED <<job, mtaskmem, num_cycles, sz_per_task, at>> /\ at = "write"
        /\ idx_task' = idx_task + 1
    BY <1>5 DEF WriteTask, NextTask, driverVars, deviceVars
  <2>2. idx_task \in Int /\ 0..idx_task+1-1 = 0..idx_task
    <3>1. idx_task \in Int
      BY <2>1 DEF TasksInv, Looped
    <3> QED  BY <3>1
  <2>3. (Fits /\ job.program = VertexShader) => \A idx \in 0..idx_task : PointAt(mem', idx)
    BY <1>5, <2>1, WritesPoint DEF PointsPut
  <2>4. 0..idx_task'-1 = 0..idx_task
    BY <2>1, <2>2
  <2>5. (Fits' /\ job'.program = VertexShader) => \A idx \in 0..idx_task'-1 : PointAt(mem, idx)'
    BY <1>1, <1>2, <2>1, <2>3, <2>4
  <2>6. at' = "write"
    BY <2>1
  <2> QED  BY <2>5, <2>6 DEF PointsPut
<1>6. CASE WriteEnds
  <2>1. /\ UNCHANGED <<job, mtaskmem, num_cycles, sz_per_task, ro_numtask, mem>>
        /\ at = "write" /\ at' = "program" /\ idx_task = ro_numtask
    BY <1>6 DEF WriteEnds, isaVars, driverVars, deviceVars
  <2> QED  BY <1>1, <1>2, <2>1 DEF PointsPut
<1>7. CASE UploadProgram \/ WriteConst
  <2>1. /\ UNCHANGED <<job, mtaskmem, num_cycles, sz_per_task, ro_numtask, mem>>
        /\ at \in {"program", "const"} /\ at' \in {"const", "start"}
    BY <1>7 DEF UploadProgram, WriteConst, isaVars, driverVars, deviceVars
  <2> QED  BY <1>1, <1>2, <2>1 DEF PointsPut
<1>8. CASE Run
  <2>1. /\ UNCHANGED <<job, mtaskmem, num_cycles, sz_per_task, ro_numtask>>
        /\ at = "start" /\ at' = "run" /\ given' = mem
    BY <1>8 DEF Run, driverVars, deviceVars
  <2> QED  BY <1>1, <1>2, <2>1 DEF PointsPut
<1>9. ASSUME UNCHANGED <<job, mtaskmem, num_cycles, sz_per_task, ro_numtask, given>>,
             at \in {"run", "done", "read", "drawn"}, at' \in {"run", "done", "read", "drawn"}
      PROVE  PointsPut'
  BY <1>1, <1>2, <1>9 DEF PointsPut
<1>10. CASE CarryOutWord \/ NextCycle
  <2>1. /\ UNCHANGED <<job, mtaskmem, num_cycles, sz_per_task, ro_numtask, given>>
        /\ at = "run" /\ at' \in {"run", "done"}
    BY <1>10 DEF CarryOutWord, NextCycle, driverVars, deviceVars
  <2> QED  BY <1>9, <2>1
<1>11. CASE Download \/ ReadTask \/ ReadEnds
  <2>1. /\ UNCHANGED <<job, mtaskmem, num_cycles, sz_per_task, ro_numtask, given>>
        /\ at \in {"done", "read"} /\ at' \in {"read", "drawn"}
    BY <1>11 DEF Download, ReadTask, ReadEnds, driverVars, deviceVars
  <2> QED  BY <1>9, <2>1
<1>12. CASE NextRound
  <2>1. /\ UNCHANGED <<job, mtaskmem, num_cycles, sz_per_task, ro_numtask, mem>>
        /\ at = "drawn" /\ at' = "const"
    BY <1>12 DEF NextRound, isaVars, driverVars, deviceVars
  <2>2. (Fits /\ job.program = VertexShader) => \A idx \in 0..ro_numtask-1 : PointAt(mem, idx)
    BY <2>1, PointsLeft DEF PointsPut
  <2> QED  BY <1>1, <1>2, <2>1, <2>2 DEF PointsPut
<1>13. CASE UNCHANGED tasksVars
  <2>1. UNCHANGED <<job, mtaskmem, num_cycles, sz_per_task, ro_numtask, given, mem, at, idx_task>>
    BY <1>13 DEF tasksVars, isaVars, driverVars, deviceVars, loopVars
  <2> QED  BY <1>1, <1>2, <2>1 DEF PointsPut
<1> QED  BY <1>3, <1>4, <1>5, <1>6, <1>7, <1>8, <1>10, <1>11, <1>12, <1>13 DEF TasksNext

\* The invariant of the tasks, for the shader.
ShaderInv == TasksInv /\ ConstantsWritten /\ PointsPut

LEMMA ShaderInvAlways ==
    ASSUME AllConfined, UnitsCompute, ShaderJobs PROVE TasksSpec => []ShaderInv
<1>1. TasksInit => ShaderInv
  <2>1. TasksInit => ConstantsWritten /\ PointsPut
    BY DEF TasksInit, ConstantsWritten, PointsPut
  <2> QED  BY <2>1, InitInv DEF ShaderInv
<1>2. ShaderInv /\ [TasksNext]_tasksVars => ShaderInv'
  BY NextKeeps, ConstantsKept, PointsKept DEF ShaderInv
<1> QED  BY <1>1, <1>2, PTL DEF TasksSpec

LEMMA InvTransformed ==
    ASSUME UnitsCompute, ShaderJobs, ShaderInv PROVE VerticesTransformed
<1> SUFFICES ASSUME at = "drawn", Fits, job.program = VertexShader, NEW n \in 1..Len(dst)
             PROVE  LET v == job.elements[n]
                        c == job.constants[frame]
                    IN  /\ dst[n][1] = OnScreen(c[COFST_WIDTH_HALF], Product(v, c, 0))
                        /\ dst[n][2] = OnScreen(c[COFST_HEIGHT_HALF], Product(v, c, 1))
  BY DEF VerticesTransformed
<1>. DEFINE v == job.elements[n]
            c == job.constants[frame]
            idx == n - 1
            b == BaseOf(idx)
<1>1. /\ Len(dst) <= ro_numtask /\ Len(dst) \in Nat /\ ro_numtask \in Nat
      /\ dst[n] = [k \in 1..job.out |-> Alone(idx)[b + job.ofst_out + k - 1]]
  <2>1. Len(dst) <= ro_numtask /\ Len(dst) \in Nat
    BY DEF ShaderInv, TasksInv, Fetched
  <2>2. ro_numtask \in Nat
    BY ToldIs DEF ShaderInv
  <2>3. ResultsInOrder
    BY InvInOrder DEF ShaderInv
  <2> QED  BY <2>1, <2>2, <2>3 DEF ResultsInOrder
<1>2. idx \in 0..ro_numtask-1 /\ idx + 1 = n
  BY <1>1
<1>. HIDE DEF idx
<1>3. job.out = 3 /\ job.ofst_out = 4 /\ b \in Nat
  BY <1>2, ShaderTask DEF ShaderInv
<1>4. Shaded(Alone(idx), b, v, gmem)
  <2>1. PointAt(given, idx)
    BY <1>2 DEF ShaderInv, PointsPut
  <2> QED  BY <1>2, <2>1, ShaderAlone DEF ShaderInv
<1>5. dst[n][1] = Alone(idx)[b + 4] /\ dst[n][2] = Alone(idx)[b + 5]
  <2>1. 1 \in 1..3 /\ 2 \in 1..3 /\ b + 4 + 1 - 1 = b + 4 /\ b + 4 + 2 - 1 = b + 5
    BY <1>3
  <2>. HIDE DEF b
  <2>2. dst[n] = [k \in 1..3 |-> Alone(idx)[b + 4 + k - 1]]
    BY <1>1, <1>3
  <2> QED  BY <2>1, <2>2
<1>6. \A a \in 1..31 : (a \in {1, 14, 15} \/ 16 <= a) => gmem[a] = c[a]
  <2>1. job \in Job /\ frame \in 1..Len(job.constants)
    BY DEF ShaderInv, TasksInv, Values
  <2>2. {1, 14, 15} \cup 16..31 \subseteq DOMAIN c
    BY <2>1, Offsets DEF ShaderJobs
  <2>3. \A a \in 1..31 : a \in DOMAIN c => gmem[a] = c[a]
    BY DEF ShaderInv, ConstantsWritten
  <2>4. \A a \in 1..31 : (a \in {1, 14, 15} \/ 16 <= a) => a \in {1, 14, 15} \cup 16..31
    OBVIOUS
  <2>. HIDE DEF c
  <2>5. SUFFICES ASSUME NEW a \in 1..31, a \in {1, 14, 15} \/ 16 <= a PROVE gmem[a] = c[a]
    OBVIOUS
  <2>6. a \in {1, 14, 15} \cup 16..31
    BY <2>4, <2>5
  <2>7. a \in DOMAIN c
    BY ONLY <2>2, <2>6
  <2> QED  BY <2>3, <2>7
<1>7. ASSUME NEW col \in 0..1 PROVE Product(v, gmem, col) = Product(v, c, col)
  <2>1. gmem[1] = c[1]
    BY <1>6
  <2>2. /\ gmem[16 + col + 4 * 0] = c[16 + col + 4 * 0]
        /\ gmem[16 + col + 4 * 1] = c[16 + col + 4 * 1]
        /\ gmem[16 + col + 4 * 2] = c[16 + col + 4 * 2]
        /\ gmem[16 + col + 4 * 3] = c[16 + col + 4 * 3]
    <3>1. ASSUME NEW k \in 0..3 PROVE gmem[16 + col + 4 * k] = c[16 + col + 4 * k]
      <4>. DEFINE x == 16 + col + 4 * k
      <4>1. x \in 1..31 /\ 16 <= x
        BY <1>7, <3>1
      <4>. HIDE DEF x, c
      <4>2. gmem[x] = c[x]
        BY <1>6, <4>1
      <4> QED  BY <4>2 DEF x
    <3>2. 0 \in 0..3 /\ 1 \in 0..3 /\ 2 \in 0..3 /\ 3 \in 0..3
      OBVIOUS
    <3>. HIDE DEF c
    <3> QED  BY <3>1, <3>2
  <2>. HIDE DEF v, c
  <2> QED  BY <2>1, <2>2, Offsets DEF Product
<1>8. gmem[14] = c[14] /\ gmem[15] = c[15]
  BY <1>6
<1>9. Product(v, gmem, 0) = Product(v, c, 0) /\ Product(v, gmem, 1) = Product(v, c, 1)
  BY <1>7
<1> QED  BY <1>4, <1>5, <1>8, <1>9, Offsets DEF Shaded

\* What the frame loop draws are the vertices under the matrix of the frame, moved to the
\* middle of the screen, for every number of vertices, threads and frames, every word size
\* and every floating point unit: the words that the application uploads as its shader
\* (app.c:244-386) compute what the processor would, to the order of the sums
\* (main.c:131-250).
THEOREM VerticesAlwaysTransformed ==
    ASSUME AllConfined, UnitsCompute, ShaderJobs PROVE TasksSpec => []VerticesTransformed
<1>1. ShaderInv => VerticesTransformed
  BY InvTransformed
<1> QED  BY <1>1, ShaderInvAlways, PTL
=============================================================================
