------------------------ MODULE GPPCU_PROGRAM_proofs ------------------------
(***************************************************************************)
(* What the driver's layout of a program is, word by word: the prologue,   *)
(* and behind it block after block, for programs of every length.  Both    *)
(* the hardware's view of a program (GPPCU_DEVICE_proofs) and the tasks'   *)
(* (GPPCU_TASKS_proofs) start from here.                                   *)
(***************************************************************************)
EXTENDS GPPCU_PROGRAM, Integers, SequenceTheorems, NaturalsInduction,
    WellFoundedInduction, TLAPS

-----------------------------------------------------------------------------
(* Sequences put one behind the other.                                     *)

Before == {ss \in Nat \X Nat : ss[1] < ss[2]}

LEMMA BeforeWf == IsWellFoundedOn(Before, Nat)
BY NatLessThanWellFounded DEF OpToRel, Before

LEMMA Least ==
    ASSUME NEW T, T \subseteq Nat, T # {}
    PROVE  \E x \in T : \A y \in T : x <= y
<1>1. PICK x \in T : \A y \in T : ~(<<y, x>> \in Before)
  BY BeforeWf, WFMin
<1>2. \A y \in T : ~(y < x)
  BY <1>1 DEF Before
<1> QED  BY <1>2

\* What stands at the first n places of the sequences ss, chained: the function exists.
Chain(f, ss, n) == f = [i \in 1..n |-> IF i = 1 THEN ss[i] ELSE f[i - 1] \o ss[i]]

LEMMA ChainExists ==
    ASSUME NEW ss, NEW n \in Nat
    PROVE  \E f : Chain(f, ss, n)
<1>. DEFINE Bad == {k \in 0..n : ~\E f : Chain(f, ss, k)}
<1> SUFFICES ASSUME Bad # {} PROVE FALSE
  OBVIOUS
<1>1. PICK k \in Bad : \A l \in Bad : k <= l
  <2>1. Bad \subseteq Nat
    OBVIOUS
  <2>. HIDE DEF Bad
  <2> QED  BY <2>1, Least
<1>2. k # 0
  <2>1. Chain([i \in 1..0 |-> 0], ss, 0)
    BY DEF Chain
  <2> QED  BY <2>1
<1>3. PICK f : Chain(f, ss, k - 1)
  <2>1. k - 1 \in 0..n /\ ~(k <= k - 1)
    BY <1>2
  <2> QED  BY <1>1, <2>1
<1>. DEFINE g == [i \in 1..k |-> IF i \in 1..k-1 THEN f[i]
                                ELSE IF i = 1 THEN ss[i] ELSE f[k - 1] \o ss[k]]
<1>4. Chain(g, ss, k)
  <2>0. k \in Nat /\ k > 0
    BY <1>2
  <2>1. \A i \in 1..k-1 : f[i] = IF i = 1 THEN ss[i] ELSE f[i - 1] \o ss[i]
    BY <1>3 DEF Chain
  <2>2. \A i \in 1..k : g[i] = IF i = 1 THEN ss[i] ELSE g[i - 1] \o ss[i]
    <3> SUFFICES ASSUME NEW i \in 1..k PROVE g[i] = IF i = 1 THEN ss[i] ELSE g[i - 1] \o ss[i]
      OBVIOUS
    <3>1. CASE i \in 1..k-1
      <4>1. g[i] = f[i]
        BY <3>1
      <4>2. i # 1 => g[i - 1] = f[i - 1]
        BY <2>0, <3>1
      <4> QED  BY <2>1, <3>1, <4>1, <4>2
    <3>2. CASE i = k
      <4>1. k # 1 => k - 1 \in 1..k-1 /\ k - 1 \in 1..k
        BY <2>0
      <4>2. k # 1 => g[k - 1] = f[k - 1]
        BY <4>1
      <4>3. g[k] = IF k = 1 THEN ss[k] ELSE f[k - 1] \o ss[k]
        BY <2>0
      <4> QED  BY <3>2, <4>2, <4>3
    <3> QED  BY <2>0, <3>1, <3>2
  <2>3. DOMAIN g = 1..k /\ g = [i \in 1..k |-> g[i]]
    OBVIOUS
  <2>. HIDE DEF g
  <2> QED  BY <2>2, <2>3 DEF Chain
<1> QED  BY <1>1, <1>4

\* FlattenSeq is the last of the chain.
LEMMA FlattenIsChain ==
    ASSUME NEW ss, Len(ss) \in Nat, Len(ss) # 0
    PROVE  \E f : Chain(f, ss, Len(ss)) /\ Seqs!FlattenSeq(ss) = f[Len(ss)]
<1>. DEFINE c == CHOOSE f : f = [i \in 1..Len(ss) |-> IF i = 1 THEN ss[i] ELSE f[i - 1] \o ss[i]]
<1>1. \E f : f = [i \in 1..Len(ss) |-> IF i = 1 THEN ss[i] ELSE f[i - 1] \o ss[i]]
  BY ChainExists DEF Chain
<1>2. c = [i \in 1..Len(ss) |-> IF i = 1 THEN ss[i] ELSE c[i - 1] \o ss[i]]
  BY <1>1
<1>3. Seqs!FlattenSeq(ss) = c[Len(ss)]
  BY DEF Seqs!FlattenSeq
<1> QED  BY <1>2, <1>3 DEF Chain

-----------------------------------------------------------------------------
(* The layout of a program, block behind block.                            *)

\* The words of a layout.
LaidWord ==
    [cond : {"ALWAYS"}, op : Opcode, s : BOOLEAN, rd : Nat, ra : Nat, rb : Nat, imm : Nat]

LEMMA Numbers == NUM_REG = 32 /\ PARALLEL_CNT = 3 /\ REG_PER_THREAD = 10 /\ REGPIVOT = 9
BY DEF NUM_REG, PARALLEL_CNT, REG_PER_THREAD, REGPIVOT

LEMMA NopLaid == nop \in LaidWord /\ nop.op = "NOP"
BY DEF nop, Word32, LaidWord, Opcode

\* An instruction on the bank of a lane.
LEMMA OnBankIs ==
    ASSUME NEW i \in SourceWord, NEW p \in 0..2
    PROVE  /\ OnBank(i, p) \in LaidWord /\ OnBank(i, p).op = i.op
           /\ OnBank(i, p).rd = IF i.op \in instr_useregd THEN i.rd + p * 10 ELSE i.rd
           /\ OnBank(i, p).ra = IF i.op \in instr_userega THEN i.ra + p * 10 ELSE i.ra
           /\ OnBank(i, p).rb = IF i.op \in instr_useregb THEN i.rb + p * 10 ELSE i.rb
           /\ OnBank(i, p).s = i.s /\ OnBank(i, p).imm = i.imm
<1>. DEFINE d == IF i.op \in instr_useregd THEN i.rd + p * 10 ELSE i.rd
            a == IF i.op \in instr_userega THEN i.ra + p * 10 ELSE i.ra
            b == IF i.op \in instr_useregb THEN i.rb + p * 10 ELSE i.rb
<1>1. OnBank(i, p) = [i EXCEPT !.rd = d, !.ra = a, !.rb = b]
  BY Numbers DEF OnBank
<1>2. i.rd \in Nat /\ i.ra \in Nat /\ i.rb \in Nat /\ p * 10 \in Nat
  BY Numbers DEF SourceWord, Bank
<1>3. d \in Nat /\ a \in Nat /\ b \in Nat
  BY <1>2
<1>. HIDE DEF d, a, b
<1>4. /\ [i EXCEPT !.rd = d, !.ra = a, !.rb = b] \in LaidWord
      /\ [i EXCEPT !.rd = d, !.ra = a, !.rb = b].op = i.op
      /\ [i EXCEPT !.rd = d, !.ra = a, !.rb = b].rd = d
      /\ [i EXCEPT !.rd = d, !.ra = a, !.rb = b].ra = a
      /\ [i EXCEPT !.rd = d, !.ra = a, !.rb = b].rb = b
      /\ [i EXCEPT !.rd = d, !.ra = a, !.rb = b].s = i.s
      /\ [i EXCEPT !.rd = d, !.ra = a, !.rb = b].imm = i.imm
  BY <1>3 DEF SourceWord, LaidWord
<1> QED  BY <1>1, <1>4 DEF d, a, b

\* One word behind a sequence.
LEMMA Behind ==
    ASSUME NEW X, NEW s \in Seq(X), NEW x \in X
    PROVE  /\ s \o <<x>> \in Seq(X) /\ Len(s \o <<x>>) = Len(s) + 1
           /\ \A k \in 1..Len(s) : (s \o <<x>>)[k] = s[k]
           /\ (s \o <<x>>)[Len(s) + 1] = x
<1>1. <<x>> \in Seq(X) /\ Len(<<x>>) = 1 /\ <<x>>[1] = x /\ Len(s) \in Nat
  OBVIOUS
<1>2. /\ s \o <<x>> \in Seq(X) /\ Len(s \o <<x>>) = Len(s) + 1
      /\ \A k \in 1..Len(s) + 1 : (s \o <<x>>)[k] = IF k <= Len(s) THEN s[k] ELSE <<x>>[k - Len(s)]
  BY <1>1, ConcatProperties
<1>3. Len(s) + 1 \in 1..Len(s) + 1 /\ ~(Len(s) + 1 <= Len(s)) /\ Len(s) + 1 - Len(s) = 1
  BY <1>1
<1>4. \A k \in 1..Len(s) : k \in 1..Len(s) + 1 /\ k <= Len(s)
  BY <1>1
<1> QED  BY <1>1, <1>2, <1>3, <1>4

\* The words of a block.
LEMMA BlockIs ==
    ASSUME NEW i \in SourceWord
    PROVE  /\ Block(i) \in Seq(LaidWord)
           /\ i.op = "NOP" => Len(Block(i)) = 1 /\ Block(i)[1] = nop
           /\ i.op # "NOP" => /\ Len(Block(i)) = IF FpOp(i) THEN 5 ELSE 4
                              /\ \A k \in 1..3 : Block(i)[k] = OnBank(i, k - 1)
                              /\ Block(i)[4] = nop
                              /\ FpOp(i) => Block(i)[5] = nop
<1>1. CASE i.op = "NOP"
  BY <1>1, NopLaid DEF Block
<1>2. CASE i.op # "NOP"
  <2>. DEFINE lanes == [k \in 1..PARALLEL_CNT |-> OnBank(i, k - 1)]
              tail  == IF i.op \in FpRange THEN <<nop>> ELSE <<>>
  <2>1. lanes \in Seq(LaidWord) /\ Len(lanes) = 3 /\ \A k \in 1..3 : lanes[k] = OnBank(i, k - 1)
    <3>1. \A k \in 1..3 : OnBank(i, k - 1) \in LaidWord
      <4> SUFFICES ASSUME NEW k \in 1..3 PROVE OnBank(i, k - 1) \in LaidWord
        OBVIOUS
      <4>1. k - 1 \in 0..2
        OBVIOUS
      <4> QED  BY <4>1, OnBankIs
    <3>2. lanes = [k \in 1..3 |-> OnBank(i, k - 1)]
      BY Numbers
    <3>3. lanes \in [1..3 -> LaidWord] /\ \A k \in 1..3 : lanes[k] = OnBank(i, k - 1)
      BY <3>1, <3>2
    <3>. HIDE DEF lanes
    <3>4. lanes \in Seq(LaidWord)
      <4>1. 3 \in Nat
        OBVIOUS
      <4> QED  BY <3>3, <4>1, SeqDef
    <3>5. Len(lanes) = 3
      BY <3>3, <3>4, LenProperties
    <3> QED  BY <3>3, <3>4, <3>5
  <2>2. <<nop>> \in Seq(LaidWord) /\ Len(<<nop>>) = 1
    BY NopLaid
  <2>3. tail \in Seq(LaidWord) /\ (FpOp(i) => tail = <<nop>>) /\ (~FpOp(i) => tail = <<>>)
    BY NopLaid DEF FpOp, FpRange, CW_FPOP
  <2>4. Block(i) = lanes \o <<nop>> \o tail
    BY <1>2 DEF Block
  <2>. HIDE DEF lanes, tail
  <2>5. /\ lanes \o <<nop>> \in Seq(LaidWord) /\ Len(lanes \o <<nop>>) = 4
        /\ \A k \in 1..3 : (lanes \o <<nop>>)[k] = OnBank(i, k - 1)
        /\ (lanes \o <<nop>>)[4] = nop
    <3>1. /\ lanes \o <<nop>> \in Seq(LaidWord) /\ Len(lanes \o <<nop>>) = Len(lanes) + 1
          /\ \A k \in 1..Len(lanes) : (lanes \o <<nop>>)[k] = lanes[k]
          /\ (lanes \o <<nop>>)[Len(lanes) + 1] = nop
      BY <2>1, NopLaid, Behind
    <3>2. 3 + 1 = 4
      OBVIOUS
    <3> QED  BY <2>1, <3>1, <3>2
  <2>6. CASE FpOp(i)
    <3>1. Block(i) = (lanes \o <<nop>>) \o <<nop>>
      BY <2>3, <2>4, <2>6
    <3>. DEFINE four == lanes \o <<nop>>
    <3>2. four \in Seq(LaidWord) /\ Len(four) = 4 /\ Block(i) = four \o <<nop>>
      BY <2>5, <3>1
    <3>3. (\A k \in 1..3 : four[k] = OnBank(i, k - 1)) /\ four[4] = nop
      BY <2>5
    <3>. HIDE DEF four
    <3>4. /\ Block(i) \in Seq(LaidWord) /\ Len(Block(i)) = 5
          /\ \A k \in 1..4 : Block(i)[k] = four[k]
          /\ Block(i)[5] = nop
      <4>1. /\ four \o <<nop>> \in Seq(LaidWord) /\ Len(four \o <<nop>>) = Len(four) + 1
            /\ \A k \in 1..Len(four) : (four \o <<nop>>)[k] = four[k]
            /\ (four \o <<nop>>)[Len(four) + 1] = nop
        BY <3>2, NopLaid, Behind
      <4>2. 4 + 1 = 5
        OBVIOUS
      <4> QED  BY <3>2, <4>1, <4>2
    <3> QED  BY <1>2, <2>6, <3>3, <3>4
  <2>7. CASE ~FpOp(i)
    <3>1. Block(i) = (lanes \o <<nop>>) \o <<>>
      BY <2>3, <2>4, <2>7
    <3>2. Block(i) = lanes \o <<nop>>
      BY <2>5, <3>1, ConcatEmptySeq
    <3> QED  BY <1>2, <2>5, <2>7, <3>2
  <2> QED  BY <2>6, <2>7
<1> QED  BY <1>1, <1>2

\* A word of the prologue that sets a pivot.
LEMMA PivotIs ==
    ASSUME NEW p \in 1..3, NEW m \in Nat
    PROVE  PivotOf(p, m) \in LaidWord /\ PivotOf(p, m).op = "ADI"
<1>. DEFINE field == REGPIVOT + REG_PER_THREAD * p
<1>1. field \in Nat /\ NUM_REG = 32 /\ REGPIVOT = 9
  BY Numbers
<1>2. field % NUM_REG \in Nat /\ (field >= NUM_REG) \in BOOLEAN /\ m * p \in Nat
  <2>. HIDE DEF field
  <2>1. field % 32 \in 0..31
    BY <1>1
  <2> QED  BY <1>1, <2>1
<1>3. PivotOf(p, m) = Word32("ADI", field >= NUM_REG, field % NUM_REG, REGPIVOT, 0, m * p)
  BY DEF PivotOf
<1>. HIDE DEF field
<1> QED  BY <1>1, <1>2, <1>3 DEF Word32, LaidWord, Opcode

\* Two sequences, position by position.
LEMMA Concat ==
    ASSUME NEW X, NEW s \in Seq(X), NEW t \in Seq(X)
    PROVE  /\ s \o t \in Seq(X) /\ Len(s \o t) = Len(s) + Len(t)
           /\ \A k \in 1..Len(s) : (s \o t)[k] = s[k]
           /\ \A k \in 1..Len(t) : (s \o t)[Len(s) + k] = t[k]
<1>. DEFINE n == Len(s)
            l == Len(t)
            c == s \o t
<1>1. /\ c \in Seq(X) /\ Len(c) = n + l /\ n \in Nat /\ l \in Nat
      /\ \A k \in 1..n + l : c[k] = IF k <= n THEN s[k] ELSE t[k - n]
  BY ConcatProperties
<1>. HIDE DEF n, l, c
<1>2. \A k \in 1..n : k \in 1..n + l /\ k <= n
  BY <1>1
<1>3. \A k \in 1..l : n + k \in 1..n + l /\ ~(n + k <= n) /\ n + k - n = k
  BY <1>1
<1>4. \A k \in 1..n : c[k] = s[k]
  BY <1>1, <1>2
<1>5. \A k \in 1..l : c[n + k] = t[k]
  <2> SUFFICES ASSUME NEW k \in 1..l PROVE c[n + k] = t[k]
    OBVIOUS
  <2>1. c[n + k] = IF n + k <= n THEN s[n + k] ELSE t[n + k - n]
    BY <1>1, <1>3
  <2> QED  BY <1>3, <2>1
<1> QED  BY <1>1, <1>4, <1>5 DEF n, l, c

LEMMA PrologueIs ==
    ASSUME NEW m \in Nat
    PROVE  /\ Prologue(m) \in Seq(LaidWord) /\ Len(Prologue(m)) = 14
           /\ \A k \in {1, 2, 4, 5, 7, 8, 10, 11, 13, 14} : Prologue(m)[k] = nop
           /\ \A k \in {3, 6, 9, 12} : Prologue(m)[k].op \in {"LDCI", "ADI"}
           /\ Prologue(m)[3] = Word32("LDCI", FALSE, REGPIVOT, 0, 0, 0)
           /\ Prologue(m)[6] = PivotOf(1, m) /\ Prologue(m)[9] = PivotOf(2, m)
           /\ Prologue(m)[12] = PivotOf(3, m)
<1>. DEFINE ldci == Word32("LDCI", FALSE, REGPIVOT, 0, 0, 0)
            ss == [p \in 1..PARALLEL_CNT |-> <<nop, nop, PivotOf(p, m)>>]
<1>1. ldci \in LaidWord /\ ldci.op = "LDCI"
  BY Numbers DEF Word32, LaidWord, Opcode
<1>2. PICK x \in LaidWord, y \in LaidWord, z \in LaidWord :
         /\ x = PivotOf(1, m) /\ y = PivotOf(2, m) /\ z = PivotOf(3, m)
         /\ x.op = "ADI" /\ y.op = "ADI" /\ z.op = "ADI"
  <2>1. 1 \in 1..3 /\ 2 \in 1..3 /\ 3 \in 1..3
    OBVIOUS
  <2>2. \A p \in 1..3 : PivotOf(p, m) \in LaidWord /\ PivotOf(p, m).op = "ADI"
    BY PivotIs
  <2> QED  BY <2>1, <2>2
<1>3. Seqs!FlattenSeq(ss) = (<<nop, nop, x>> \o <<nop, nop, y>>) \o <<nop, nop, z>>
  <2>1. Len(ss) = 3 /\ ss[1] = <<nop, nop, x>> /\ ss[2] = <<nop, nop, y>> /\ ss[3] = <<nop, nop, z>>
    BY <1>2, Numbers
  <2>. HIDE DEF ss
  <2>2. PICK f : Chain(f, ss, 3) /\ Seqs!FlattenSeq(ss) = f[3]
    <3>1. Len(ss) \in Nat /\ Len(ss) # 0
      BY <2>1
    <3> QED  BY <2>1, <3>1, FlattenIsChain
  <2>3. \A i \in 1..3 : f[i] = IF i = 1 THEN ss[i] ELSE f[i - 1] \o ss[i]
    BY <2>2 DEF Chain
  <2>4. f[1] = ss[1] /\ f[2] = f[1] \o ss[2] /\ f[3] = f[2] \o ss[3]
    <3>1. 2 - 1 = 1 /\ 3 - 1 = 2 /\ 1 \in 1..3 /\ 2 \in 1..3 /\ 3 \in 1..3 /\ 2 # 1 /\ 3 # 1
      OBVIOUS
    <3>2. f[1] = ss[1]
      BY <2>3, <3>1
    <3>3. f[2] = f[2 - 1] \o ss[2]
      BY <2>3, <3>1
    <3>4. f[3] = f[3 - 1] \o ss[3]
      BY <2>3, <3>1
    <3> QED  BY <3>1, <3>2, <3>3, <3>4
  <2> QED  BY <2>1, <2>2, <2>4
<1>4. Prologue(m) = (<<nop, nop, ldci>> \o Seqs!FlattenSeq(ss)) \o <<nop, nop>>
  BY DEF Prologue
<1>. HIDE DEF ldci, ss
<1>. DEFINE a == <<nop, nop, ldci>>
            b == <<nop, nop, x>>
            v == <<nop, nop, y>>
            w == <<nop, nop, z>>
            c == b \o v
            d == c \o w
            e == a \o d
<1>5. Prologue(m) = e \o <<nop, nop>>
  BY <1>3, <1>4
<1>6. /\ a \in Seq(LaidWord) /\ Len(a) = 3 /\ a[1] = nop /\ a[2] = nop /\ a[3] = ldci
  BY <1>1, NopLaid
<1>7. /\ b \in Seq(LaidWord) /\ Len(b) = 3 /\ b[1] = nop /\ b[2] = nop /\ b[3] = x
      /\ v \in Seq(LaidWord) /\ Len(v) = 3 /\ v[1] = nop /\ v[2] = nop /\ v[3] = y
      /\ w \in Seq(LaidWord) /\ Len(w) = 3 /\ w[1] = nop /\ w[2] = nop /\ w[3] = z
  BY NopLaid
<1>. HIDE DEF a, b, v, w
<1>8. /\ c \in Seq(LaidWord) /\ Len(c) = 6
      /\ c[1] = nop /\ c[2] = nop /\ c[3] = x /\ c[4] = nop /\ c[5] = nop /\ c[6] = y
  <2>1. /\ c \in Seq(LaidWord) /\ Len(c) = Len(b) + Len(v)
        /\ \A k \in 1..Len(b) : c[k] = b[k]
        /\ \A k \in 1..Len(v) : c[Len(b) + k] = v[k]
    <3>1. b \in Seq(LaidWord) /\ v \in Seq(LaidWord)
      BY <1>7
    <3> QED  BY <3>1, Concat
  <2>. HIDE DEF c
  <2>2. c[3 + 1] = v[1] /\ c[3 + 2] = v[2] /\ c[3 + 3] = v[3]
    BY <1>7, <2>1
  <2>3. 3 + 1 = 4 /\ 3 + 2 = 5 /\ 3 + 3 = 6
    OBVIOUS
  <2>4. c[1] = b[1] /\ c[2] = b[2] /\ c[3] = b[3]
    BY <1>7, <2>1
  <2> QED  BY <1>7, <2>1, <2>2, <2>3, <2>4
<1>9. /\ d \in Seq(LaidWord) /\ Len(d) = 9
      /\ d[1] = nop /\ d[2] = nop /\ d[3] = x /\ d[4] = nop /\ d[5] = nop /\ d[6] = y
      /\ d[7] = nop /\ d[8] = nop /\ d[9] = z
  <2>. HIDE DEF c
  <2>1. /\ d \in Seq(LaidWord) /\ Len(d) = Len(c) + Len(w)
        /\ \A k \in 1..Len(c) : d[k] = c[k]
        /\ \A k \in 1..Len(w) : d[Len(c) + k] = w[k]
    <3>1. c \in Seq(LaidWord) /\ w \in Seq(LaidWord)
      BY <1>7, <1>8
    <3> QED  BY <3>1, Concat
  <2>. HIDE DEF d
  <2>2. d[6 + 1] = w[1] /\ d[6 + 2] = w[2] /\ d[6 + 3] = w[3]
    BY <1>7, <1>8, <2>1
  <2>3. 6 + 1 = 7 /\ 6 + 2 = 8 /\ 6 + 3 = 9
    OBVIOUS
  <2>4. d[1] = c[1] /\ d[2] = c[2] /\ d[3] = c[3] /\ d[4] = c[4] /\ d[5] = c[5] /\ d[6] = c[6]
    BY <1>8, <2>1
  <2> QED  BY <1>7, <1>8, <2>1, <2>2, <2>3, <2>4
<1>. HIDE DEF d
<1>10. /\ e \in Seq(LaidWord) /\ Len(e) = 12
       /\ e[1] = nop /\ e[2] = nop /\ e[3] = ldci /\ e[4] = nop /\ e[5] = nop /\ e[6] = x
       /\ e[7] = nop /\ e[8] = nop /\ e[9] = y /\ e[10] = nop /\ e[11] = nop /\ e[12] = z
  <2>1. /\ e \in Seq(LaidWord) /\ Len(e) = Len(a) + Len(d)
        /\ \A k \in 1..Len(a) : e[k] = a[k]
        /\ \A k \in 1..Len(d) : e[Len(a) + k] = d[k]
    <3>1. a \in Seq(LaidWord) /\ d \in Seq(LaidWord)
      BY <1>6, <1>9
    <3> QED  BY <3>1, Concat
  <2>. HIDE DEF e
  <2>2. e[1] = a[1] /\ e[2] = a[2] /\ e[3] = a[3]
    BY <1>6, <2>1
  <2>3. /\ e[3 + 1] = d[1] /\ e[3 + 2] = d[2] /\ e[3 + 3] = d[3] /\ e[3 + 4] = d[4]
        /\ e[3 + 5] = d[5] /\ e[3 + 6] = d[6] /\ e[3 + 7] = d[7] /\ e[3 + 8] = d[8]
        /\ e[3 + 9] = d[9]
    BY <1>6, <1>9, <2>1
  <2>4. /\ 3 + 1 = 4 /\ 3 + 2 = 5 /\ 3 + 3 = 6 /\ 3 + 4 = 7 /\ 3 + 5 = 8 /\ 3 + 6 = 9
        /\ 3 + 7 = 10 /\ 3 + 8 = 11 /\ 3 + 9 = 12
    OBVIOUS
  <2> QED  BY <1>6, <1>9, <2>1, <2>2, <2>3, <2>4
<1>. HIDE DEF e
<1>. DEFINE u == <<nop, nop>>
<1>11. u \in Seq(LaidWord) /\ Len(u) = 2 /\ u[1] = nop /\ u[2] = nop
  BY NopLaid
<1>12. Prologue(m) = e \o u
  BY <1>5
<1>. HIDE DEF u
<1>13. /\ Prologue(m) \in Seq(LaidWord) /\ Len(Prologue(m)) = Len(e) + Len(u)
       /\ \A k \in 1..Len(e) : Prologue(m)[k] = e[k]
       /\ \A k \in 1..Len(u) : Prologue(m)[Len(e) + k] = u[k]
  <2>1. e \in Seq(LaidWord) /\ u \in Seq(LaidWord)
    BY <1>10, <1>11
  <2> QED  BY <1>12, <2>1, Concat
<1>14. Prologue(m)[12 + 1] = u[1] /\ Prologue(m)[12 + 2] = u[2]
  BY <1>10, <1>11, <1>13
<1>15. 12 + 1 = 13 /\ 12 + 2 = 14
  OBVIOUS
<1>16. /\ Prologue(m)[13] = nop /\ Prologue(m)[14] = nop
       /\ Prologue(m)[1] = nop /\ Prologue(m)[2] = nop /\ Prologue(m)[4] = nop
       /\ Prologue(m)[5] = nop /\ Prologue(m)[7] = nop /\ Prologue(m)[8] = nop
       /\ Prologue(m)[10] = nop /\ Prologue(m)[11] = nop
  BY <1>10, <1>11, <1>13, <1>14, <1>15
<1>17. /\ Prologue(m)[3] = ldci /\ Prologue(m)[6] = x /\ Prologue(m)[9] = y
       /\ Prologue(m)[12] = z
  BY <1>10, <1>13
<1>18. /\ Prologue(m)[3] = Word32("LDCI", FALSE, REGPIVOT, 0, 0, 0)
       /\ Prologue(m)[6] = PivotOf(1, m) /\ Prologue(m)[9] = PivotOf(2, m)
       /\ Prologue(m)[12] = PivotOf(3, m)
  BY <1>2, <1>17 DEF ldci
<1>19. /\ Prologue(m) \in Seq(LaidWord) /\ Len(Prologue(m)) = 14
       /\ \A k \in {3, 6, 9, 12} : Prologue(m)[k].op \in {"LDCI", "ADI"}
  BY <1>1, <1>2, <1>10, <1>11, <1>13, <1>15, <1>17
<1> QED  BY <1>16, <1>18, <1>19

\* The layout grows block by block: g[k] is what stands behind instruction k.
Laid(g, prog, m) ==
    /\ g \in [0..Len(prog) -> Seq(LaidWord)]
    /\ g[0] = Prologue(m)
    /\ \A k \in 1..Len(prog) : g[k] = g[k - 1] \o Block(prog[k])
    /\ Layout(prog, m) = g[Len(prog)]

LEMMA ChainInSeq ==
    ASSUME NEW X, NEW n \in Nat, NEW ss, NEW f, Chain(f, ss, n), \A k \in 1..n : ss[k] \in Seq(X)
    PROVE  \A k \in 1..n : f[k] \in Seq(X)
<1>. DEFINE Bad == {k \in 1..n : f[k] \notin Seq(X)}
<1> SUFFICES ASSUME Bad # {} PROVE FALSE
  OBVIOUS
<1>1. PICK k \in Bad : \A l \in Bad : k <= l
  <2>1. Bad \subseteq Nat
    OBVIOUS
  <2>. HIDE DEF Bad
  <2> QED  BY <2>1, Least
<1>2. \A i \in 1..n : f[i] = IF i = 1 THEN ss[i] ELSE f[i - 1] \o ss[i]
  BY DEF Chain
<1>3. k # 1
  BY <1>2
<1>4. k - 1 \in 1..n /\ ~(k <= k - 1)
  BY <1>3
<1>5. f[k - 1] \in Seq(X)
  BY <1>1, <1>4
<1>6. f[k] = f[k - 1] \o ss[k]
  BY <1>2, <1>3
<1> QED  BY <1>5, <1>6, ConcatProperties

LEMMA LaidOut ==
    ASSUME NEW prog \in Seq(SourceWord), NEW m \in Nat
    PROVE  \E g : Laid(g, prog, m)
<1>. DEFINE n == Len(prog)
            blocks == [k \in 1..n |-> Block(prog[k])]
            pr == Prologue(m)
<1>1. n \in Nat /\ \A k \in 1..n : prog[k] \in SourceWord
  OBVIOUS
<1>2. \A k \in 1..n : Block(prog[k]) \in Seq(LaidWord)
  BY <1>1, BlockIs
<1>3. Len(blocks) = n /\ \A k \in 1..n : blocks[k] = Block(prog[k])
  <2>1. blocks \in [1..n -> Seq(LaidWord)]
    BY <1>2
  <2>2. blocks \in Seq(Seq(LaidWord))
    <3>. HIDE DEF blocks, n
    <3> QED  BY <1>1, <2>1, SeqDef
  <2>3. DOMAIN blocks = 1..n
    OBVIOUS
  <2>4. DOMAIN blocks = 1..Len(blocks) /\ Len(blocks) \in Nat
    <3>. HIDE DEF blocks
    <3> QED  BY <2>2, LenProperties
  <2>5. Len(blocks) = n
    <3>. DEFINE l == Len(blocks)
    <3>1. 1..n = 1..l /\ l \in Nat
      BY <2>3, <2>4
    <3>. HIDE DEF l, n
    <3>2. \A i : i \in 1..n <=> i \in 1..l
      BY <3>1
    <3>3. n \in Nat
      BY <1>1
    <3>4. n <= l
      BY <3>1, <3>2, <3>3
    <3>5. l <= n
      BY <3>1, <3>2, <3>3
    <3>6. n = l
      BY <3>1, <3>3, <3>4, <3>5
    <3> QED  BY <3>6 DEF l
  <2> QED  BY <2>5
<1>4. pr \in Seq(LaidWord)
  BY PrologueIs
<1>5. Layout(prog, m) = pr \o Seqs!FlattenSeq(blocks)
  BY DEF Layout
<1>6. CASE n = 0
  <2>1. blocks = <<>>
    BY <1>6
  <2>2. Seqs!FlattenSeq(blocks) = <<>>
    <3>. HIDE DEF blocks
    <3> QED  BY <1>3, <1>6, <2>1 DEF Seqs!FlattenSeq
  <2>. HIDE DEF pr
  <2>3. Layout(prog, m) = pr
    BY <1>4, <1>5, <2>2, ConcatEmptySeq
  <2>. DEFINE g == [k \in 0..n |-> pr]
  <2>4. g \in [0..n -> Seq(LaidWord)] /\ g[0] = pr /\ g[n] = pr
    BY <1>4, <1>6
  <2>5. \A k \in 1..n : FALSE
    BY <1>6
  <2>. HIDE DEF g
  <2>6. Laid(g, prog, m)
    BY <2>3, <2>4, <2>5 DEF Laid, pr
  <2> QED  BY <2>6
<1>7. CASE n # 0
  <2>. HIDE DEF blocks, pr
  <2>1. PICK f : Chain(f, blocks, n) /\ Seqs!FlattenSeq(blocks) = f[n]
    BY <1>1, <1>3, <1>7, FlattenIsChain
  <2>. HIDE DEF n
  <2>2. \A k \in 1..n : f[k] \in Seq(LaidWord)
    <3>1. \A k \in 1..n : blocks[k] \in Seq(LaidWord)
      BY <1>2, <1>3
    <3> QED  BY <1>1, <2>1, <3>1, ChainInSeq
  <2>3. \A i \in 1..n : f[i] = IF i = 1 THEN blocks[i] ELSE f[i - 1] \o blocks[i]
    BY <2>1 DEF Chain
  <2>. DEFINE g == [k \in 0..n |-> IF k = 0 THEN pr ELSE pr \o f[k]]
  <2>4. g[0] = pr /\ \A k \in 1..n : g[k] = pr \o f[k]
    BY <1>1
  <2>5. \A k \in 1..n : pr \o f[k] \in Seq(LaidWord)
    BY <1>4, <2>2, ConcatProperties
  <2>6. g \in [0..n -> Seq(LaidWord)]
    BY <1>1, <1>4, <2>5
  <2>. HIDE DEF g
  <2>7. \A k \in 1..n : g[k] = g[k - 1] \o Block(prog[k])
    <3> SUFFICES ASSUME NEW k \in 1..n PROVE g[k] = g[k - 1] \o Block(prog[k])
      OBVIOUS
    <3>1. CASE k = 1
      <4>1. 1 - 1 = 0 /\ 1 \in 1..n
        BY <3>1
      <4>2. f[1] = Block(prog[1])
        BY <1>3, <2>3, <4>1
      <4> QED  BY <2>4, <3>1, <4>1, <4>2
    <3>2. CASE k # 1
      <4>1. k - 1 \in 1..n
        BY <1>1, <3>2
      <4>2. f[k] = f[k - 1] \o Block(prog[k])
        BY <1>3, <2>3, <3>2
      <4>3. f[k - 1] \in Seq(LaidWord) /\ Block(prog[k]) \in Seq(LaidWord)
        BY <1>2, <2>2, <4>1
      <4>4. (pr \o f[k - 1]) \o Block(prog[k]) = pr \o (f[k - 1] \o Block(prog[k]))
        <5>. DEFINE s == f[k - 1]
                    t == Block(prog[k])
        <5>1. s \in Seq(LaidWord) /\ t \in Seq(LaidWord)
          BY <4>3
        <5>. HIDE DEF s, t
        <5>2. (pr \o s) \o t = pr \o (s \o t)
          BY <1>4, <5>1, ConcatAssociative
        <5> QED  BY <5>2 DEF s, t
      <4> QED  BY <2>4, <4>1, <4>2, <4>4
    <3> QED  BY <3>1, <3>2
  <2>8. n \in 1..n
    BY <1>1, <1>7
  <2>9. Laid(g, prog, m)
    BY <1>5, <2>1, <2>4, <2>6, <2>7, <2>8 DEF Laid, pr, n
  <2> QED  BY <2>9
<1> QED  BY <1>6, <1>7

\* What has been laid stays, at its place.
LEMMA LaidStays ==
    ASSUME NEW prog \in Seq(SourceWord), NEW m \in Nat, NEW g, Laid(g, prog, m)
    PROVE  \A k \in 0..Len(prog) :
              /\ Len(g[k]) <= Len(Layout(prog, m))
              /\ \A i \in 1..Len(g[k]) : Layout(prog, m)[i] = g[k][i]
<1>. DEFINE n == Len(prog)
            lay == g[n]
            Ok(k) == Len(g[k]) <= Len(lay) /\ \A i \in 1..Len(g[k]) : lay[i] = g[k][i]
            Bad == {d \in 0..n : ~Ok(n - d)}
<1>1. n \in Nat /\ g \in [0..n -> Seq(LaidWord)] /\ Layout(prog, m) = lay
  BY DEF Laid
<1>2. \A k \in 1..n : g[k] = g[k - 1] \o Block(prog[k]) /\ Block(prog[k]) \in Seq(LaidWord)
  <2>1. \A k \in 1..n : g[k] = g[k - 1] \o Block(prog[k])
    BY DEF Laid
  <2>2. \A k \in 1..n : prog[k] \in SourceWord
    OBVIOUS
  <2>3. \A k \in 1..n : Block(prog[k]) \in Seq(LaidWord)
    BY <2>2, BlockIs
  <2> QED  BY <2>1, <2>3
<1>3. Bad = {}
  <2> SUFFICES ASSUME Bad # {} PROVE FALSE
    OBVIOUS
  <2>1. PICK d \in Bad : \A l \in Bad : d <= l
    <3>1. Bad \subseteq Nat
      BY <1>1
    <3>. HIDE DEF Bad
    <3> QED  BY <3>1, Least
  <2>. HIDE DEF n
  <2>2. d \in 0..n /\ ~Ok(n - d)
    BY <2>1
  <2>3. d # 0
    <3>1. n - 0 = n /\ n \in 0..n
      BY <1>1
    <3>2. Len(lay) \in Nat
      BY <1>1, <3>1
    <3>3. Ok(n)
      BY <3>2
    <3>. HIDE DEF Ok
    <3> QED  BY <2>2, <3>1, <3>3
  <2>. DEFINE k == n - d + 1
  <2>4. k \in 1..n /\ k - 1 = n - d /\ n - (d - 1) = k /\ d - 1 \in 0..n /\ ~(d <= d - 1)
    BY <1>1, <2>2, <2>3
  <2>5. Ok(k)
    <3>. HIDE DEF Ok
    <3> QED  BY <2>1, <2>4
  <2>. DEFINE s == g[k - 1]
              t == Block(prog[k])
  <2>6. s \in Seq(LaidWord) /\ t \in Seq(LaidWord) /\ g[k] = s \o t
    <3>1. k - 1 \in 0..n
      BY <1>1, <2>4
    <3> QED  BY <1>1, <1>2, <2>4, <3>1
  <2>7. /\ Len(g[k]) = Len(s) + Len(t) /\ Len(s) \in Nat /\ Len(t) \in Nat
        /\ \A i \in 1..Len(s) : g[k][i] = s[i]
    <3>. HIDE DEF s, t
    <3>1. /\ Len(s \o t) = Len(s) + Len(t) /\ \A i \in 1..Len(s) : (s \o t)[i] = s[i]
      BY <2>6, Concat
    <3>2. Len(s) \in Nat /\ Len(t) \in Nat
      BY <2>6
    <3> QED  BY <2>6, <3>1, <3>2
  <2>8. Ok(k - 1)
    <3>1. Len(lay) \in Nat
      <4>1. n \in 0..n
        BY <1>1
      <4> QED  BY <1>1, <4>1
    <3>2. Len(g[k]) <= Len(lay) /\ \A i \in 1..Len(g[k]) : lay[i] = g[k][i]
      BY <2>5
    <3>. HIDE DEF lay, t, k
    <3>3. Len(s) <= Len(lay)
      BY <2>7, <3>1, <3>2
    <3>4. \A i \in 1..Len(s) : i \in 1..Len(g[k])
      BY <2>7
    <3>5. \A i \in 1..Len(s) : lay[i] = s[i]
      BY <2>7, <3>2, <3>4
    <3> QED  BY <3>3, <3>5
  <2>. HIDE DEF Ok
  <2> QED  BY <2>2, <2>4, <2>8
<1>4. \A k \in 0..n : Ok(k)
  <2> SUFFICES ASSUME NEW k \in 0..n PROVE Ok(k)
    OBVIOUS
  <2>. HIDE DEF n, Ok
  <2>1. n - k \in 0..n /\ n - (n - k) = k
    BY <1>1
  <2> QED  BY <1>3, <2>1
<1> QED  BY <1>1, <1>4

\* The words of t stand in a layout, behind so many others.
Placed(lay, from, t) ==
    /\ lay \in Seq(LaidWord) /\ from \in Nat /\ Len(t) \in Nat /\ from + Len(t) <= Len(lay)
    /\ \A j \in 1..Len(t) : lay[from + j] = t[j]

\* A block stands behind what has been laid before it.
LEMMA BlockPlaced ==
    ASSUME NEW prog \in Seq(SourceWord), NEW m \in Nat, NEW g, Laid(g, prog, m),
           NEW k \in 1..Len(prog)
    PROVE  /\ Placed(Layout(prog, m), Len(g[k - 1]), Block(prog[k]))
           /\ Len(g[k]) = Len(g[k - 1]) + Len(Block(prog[k]))
<1>. DEFINE n == Len(prog)
            lay == Layout(prog, m)
            s == g[k - 1]
            t == Block(prog[k])
<1>1. s \in Seq(LaidWord) /\ t \in Seq(LaidWord) /\ g[k] = s \o t
  <2>1. k - 1 \in 0..n /\ prog[k] \in SourceWord
    OBVIOUS
  <2>2. g[k] = s \o t /\ g \in [0..n -> Seq(LaidWord)]
    BY DEF Laid
  <2> QED  BY <2>1, <2>2, BlockIs
<1>2. /\ Len(g[k]) <= Len(lay) /\ \A i \in 1..Len(g[k]) : lay[i] = g[k][i]
  <2>1. k \in 0..n
    OBVIOUS
  <2> QED  BY <2>1, LaidStays
<1>5. lay \in Seq(LaidWord)
  <2>1. lay = g[n] /\ g \in [0..n -> Seq(LaidWord)] /\ n \in 0..n
    BY DEF Laid
  <2> QED  BY <2>1
<1>. HIDE DEF s, t, lay
<1>3. /\ Len(g[k]) = Len(s) + Len(t) /\ Len(s) \in Nat /\ Len(t) \in Nat
      /\ \A i \in 1..Len(t) : g[k][Len(s) + i] = t[i]
  <2>1. /\ Len(s \o t) = Len(s) + Len(t)
        /\ \A i \in 1..Len(t) : (s \o t)[Len(s) + i] = t[i]
    BY <1>1, Concat
  <2>2. Len(s) \in Nat /\ Len(t) \in Nat
    BY <1>1
  <2> QED  BY <1>1, <2>1, <2>2
<1>4. \A j \in 1..Len(t) : lay[Len(s) + j] = t[j]
  <2> SUFFICES ASSUME NEW j \in 1..Len(t) PROVE lay[Len(s) + j] = t[j]
    OBVIOUS
  <2>1. Len(s) + j \in 1..Len(g[k])
    BY <1>3
  <2> QED  BY <1>2, <1>3, <2>1
<1>6. Placed(lay, Len(s), t)
  BY <1>2, <1>3, <1>4, <1>5 DEF Placed
<1> QED  BY <1>3, <1>6 DEF s, t, lay

\* The prologue stands at the front.
LEMMA ProloguePlaced ==
    ASSUME NEW prog \in Seq(SourceWord), NEW m \in Nat, NEW g, Laid(g, prog, m)
    PROVE  /\ Placed(Layout(prog, m), 0, Prologue(m))
           /\ Len(g[0]) = 14 /\ Layout(prog, m) = g[Len(prog)]
<1>. DEFINE n == Len(prog)
            lay == Layout(prog, m)
            pr == Prologue(m)
<1>1. lay = g[n] /\ g \in [0..n -> Seq(LaidWord)] /\ n \in 0..n /\ g[0] = pr
  BY DEF Laid
<1>2. Len(lay) \in Nat /\ lay \in Seq(LaidWord)
  BY <1>1
<1>3. Len(pr) = 14
  BY PrologueIs
<1>4. Len(g[0]) <= Len(lay) /\ \A i \in 1..Len(g[0]) : lay[i] = g[0][i]
  <2>1. 0 \in 0..n
    OBVIOUS
  <2> QED  BY <2>1, LaidStays
<1>. HIDE DEF lay, pr
<1>5. Len(lay) >= 14 /\ \A i \in 1..14 : lay[i] = pr[i]
  BY <1>1, <1>2, <1>3, <1>4
<1>6. Placed(lay, 0, pr)
  BY <1>2, <1>3, <1>5 DEF Placed
<1> QED  BY <1>1, <1>3, <1>6 DEF lay, pr
=============================================================================
