------------------------- MODULE LCD_DISPLAY_proofs -------------------------
(***************************************************************************)
(* For every timing and every use of the button: the registers keep their  *)
(* ranges, the panel stays in step, and each pixel comes from the address  *)
(* the properties of LCD_DISPLAY name.                                     *)
(*                                                                         *)
(* The argument is one invariant, InStep, that says for each value of the  *)
(* two counters what the pulses are and how far the panel has come.  vcnt  *)
(* is clocked by the other counter's pulse, so it changes when hcnt leaves *)
(* THPW, inside what the panel takes for a line; and the button puts both  *)
(* counters to zero and leaves the pulses and the panel alone, so nothing  *)
(* is said for vcnt = 0 until the pulses have caught up.                   *)
(***************************************************************************)
EXTENDS LCD_DISPLAY, TLAPS

InPicture(v) == VSTART <= v /\ v < VSTART + TVD

(* The ranges, without those that follow from the rest.                    *)
Ranges ==
    /\ inRST \in BOOLEAN /\ oHSYNC \in BOOLEAN /\ oVSYNC \in BOOLEAN
    /\ hcnt \in 0 .. HSUM /\ vcnt \in 0 .. VSUM
    /\ ~inRST => hcnt = 0 /\ vcnt = 0

PulsesKept ==
    /\ hcnt >= 1 => (oHSYNC <=> hcnt > THPW)
    /\ hcnt = 0 /\ vcnt >= 1 => oHSYNC
    /\ vcnt >= TVPW /\ ~(hcnt = THPW + 1 /\ vcnt = TVPW) => oVSYNC
    /\ vcnt < TVPW /\ hcnt >= 1 /\ ~(hcnt = THPW + 1 /\ vcnt = 0) => ~oVSYNC

(* How much of a line the panel has taken.                                 *)
Columns(h) == IF h <= 1 THEN THD
              ELSE IF h <= HSTART THEN 0
              ELSE IF h <= HSTART + THD THEN h - HSTART ELSE THD
Lines(v, h) == IF v < VSTART THEN 0
               ELSE IF v >= VSTART + TVD THEN TVD
               ELSE IF 2 <= h /\ h <= THPW THEN v - VSTART + 1 ELSE v - VSTART

ColumnsKept ==
    /\ hpos \in 0 .. THD
    /\ vcnt >= 1 \/ hcnt >= 2 => hpos = IF InPicture(vcnt) THEN Columns(hcnt) ELSE 0

LinesKept ==
    /\ vpos \in 0 .. TVD
    /\ hpos # 0 => vpos < TVD
    /\ vcnt >= 1 => vpos = Lines(vcnt, hcnt)

InStep == Ranges /\ PulsesKept /\ ColumnsKept /\ LinesKept

(* TimingAssumption in the form the provers use.                           *)
LEMMA Timing ==
    /\ THD \in Nat /\ TVD \in Nat /\ THB \in Nat /\ THPW \in Nat /\ TVB \in Nat /\ TVPW \in Nat
    /\ THD >= 1 /\ TVD >= 1 /\ THB >= 1 /\ THPW >= 1 /\ TVB >= 1 /\ TVPW >= 1
    /\ THFP \in Nat /\ TVFP \in Nat /\ HRANGE \in Nat /\ VRANGE \in Nat
    /\ HSUM \in Nat /\ VSUM \in Nat /\ HSTART \in Nat /\ VSTART \in Nat
    /\ HSUM = HSTART + THD + THFP /\ VSUM = VSTART + TVD + TVFP
    /\ HSTART = THPW + THB /\ VSTART = TVPW + TVB
    /\ HSUM <= HRANGE /\ VSUM <= VRANGE
  BY TimingAssumption, SMT DEF HSUM, VSUM, HSTART, VSTART

(* What one clock does to a counter that is within its period.             *)
LEMMA CountStep ==
    ASSUME NEW n \in Nat, NEW sum \in Nat, NEW range \in Nat, n <= sum, sum <= range
    PROVE  /\ Count(n, sum, range) \in 0 .. sum
           /\ Count(n, sum, range) = n + 1 \/ (Count(n, sum, range) = 0 /\ n + 1 >= sum)
  BY SMT DEF Count

(* The pulse of the lines rises when hcnt leaves THPW, and only then.      *)
LEMMA RiseAtWidth ==
    ASSUME Ranges, PulsesKept
    PROVE  HsyncRises <=> hcnt = THPW
  BY Timing, SMT DEF Ranges, PulsesKept, HsyncRises, HsyncLevel

LEMMA InitInStep == DisplayInit => InStep
  <1>. SUFFICES ASSUME DisplayInit PROVE InStep
    OBVIOUS
  <1>0. hcnt \in 0 .. HSUM /\ vcnt \in 0 .. VSUM
    BY Timing, SMT DEF DisplayInit, LcdInit
  <1>1. Ranges
    BY <1>0, Zenon DEF DisplayInit, LcdInit, Ranges
  <1>2. PulsesKept
    BY Timing, SMT DEF DisplayInit, LcdInit, PulsesKept
  <1>3. ColumnsKept
    BY Timing, SMT DEF DisplayInit, LcdInit, ColumnsKept
  <1>4. LinesKept
    BY Timing, SMT DEF DisplayInit, LcdInit, LinesKept
  <1>. QED  BY <1>1, <1>2, <1>3, <1>4 DEF InStep

(* The counters after a clock.                                             *)
LEMMA CountersStep ==
    ASSUME Ranges, PulsesKept, LcdClock
    PROVE  /\ hcnt' \in 0 .. HSUM /\ vcnt' \in 0 .. VSUM
           /\ inRST' = inRST
           /\ hcnt' = hcnt + 1 \/ (hcnt' = 0 /\ hcnt + 1 >= HSUM) \/ (hcnt' = 0 /\ ~inRST)
           /\ hcnt # THPW => vcnt' = vcnt
           /\ hcnt = THPW => vcnt' = vcnt + 1 \/ (vcnt' = 0 /\ vcnt + 1 >= VSUM)
  <1>1. hcnt \in Nat /\ vcnt \in Nat /\ hcnt <= HSUM /\ vcnt <= VSUM
    BY Timing, SMT DEF Ranges
  <1>2. HsyncRises <=> hcnt = THPW
    BY RiseAtWidth
  <1>. DEFINE h == Count(hcnt, HSUM, HRANGE)
             v == Count(vcnt, VSUM, VRANGE)
  <1>3. /\ h \in 0 .. HSUM
        /\ h = hcnt + 1 \/ (h = 0 /\ hcnt + 1 >= HSUM)
    BY <1>1, Timing, CountStep
  <1>4. /\ v \in 0 .. VSUM
        /\ v = vcnt + 1 \/ (v = 0 /\ vcnt + 1 >= VSUM)
    BY <1>1, Timing, CountStep
  <1>5. /\ hcnt' = IF inRST THEN h ELSE 0
        /\ vcnt' = IF ~inRST THEN 0 ELSE IF hcnt = THPW THEN v ELSE vcnt
        /\ inRST' = inRST
    BY <1>2 DEF LcdClock
  <1>. HIDE DEF h, v
  <1>6. CASE inRST
    BY <1>1, <1>3, <1>4, <1>5, <1>6, Timing, SMT
  <1>7. CASE ~inRST
    BY <1>1, <1>5, <1>7, Timing, SMT DEF Ranges
  <1>. QED  BY <1>6, <1>7

LEMMA RangesStep ==
    ASSUME InStep, LcdClock
    PROVE  Ranges'
  <1>1. hcnt' \in 0 .. HSUM /\ vcnt' \in 0 .. VSUM /\ inRST' = inRST
    BY CountersStep DEF InStep
  <1>2. ~inRST => hcnt' = 0 /\ vcnt' = 0
    BY DEF LcdClock
  <1>3. HsyncLevel \in BOOLEAN /\ VsyncLevel \in BOOLEAN
    BY DEF InStep, Ranges, HsyncLevel, VsyncLevel
  <1>4. inRST' \in BOOLEAN /\ oHSYNC' \in BOOLEAN /\ oVSYNC' \in BOOLEAN
    BY <1>1, <1>3, Zenon DEF InStep, Ranges, LcdClock
  <1>5. ~inRST' => hcnt' = 0 /\ vcnt' = 0
    BY <1>1, <1>2, Zenon
  <1>. QED  BY <1>1, <1>4, <1>5 DEF Ranges

(* Each part of the invariant holds after the clock because of all parts   *)
(* before it.                                                              *)
LEMMA PulsesStep ==
    ASSUME InStep, LcdClock
    PROVE  PulsesKept'
  <1>. USE Timing, CountersStep
  <1>0. /\ oHSYNC' = HsyncLevel /\ oVSYNC' = VsyncLevel
        /\ hcnt \in 0 .. HSUM /\ vcnt \in 0 .. VSUM
        /\ ~inRST => hcnt = 0 /\ vcnt = 0
    BY DEF LcdClock, InStep, Ranges
  <1>1. hcnt' >= 1 => (oHSYNC' <=> hcnt' > THPW)
    BY <1>0, SMT DEF InStep, PulsesKept, HsyncLevel
  <1>2. hcnt' = 0 /\ vcnt' >= 1 => oHSYNC'
    BY <1>0, SMT DEF InStep, PulsesKept, HsyncLevel
  <1>3. vcnt' >= TVPW /\ ~(hcnt' = THPW + 1 /\ vcnt' = TVPW) => oVSYNC'
    BY <1>0, SMT DEF InStep, PulsesKept, VsyncLevel
  <1>4. vcnt' < TVPW /\ hcnt' >= 1 /\ ~(hcnt' = THPW + 1 /\ vcnt' = 0) => ~oVSYNC'
    BY <1>0, SMT DEF InStep, PulsesKept, VsyncLevel
  <1>. QED  BY <1>1, <1>2, <1>3, <1>4 DEF PulsesKept

LEMMA ColumnsStep ==
    ASSUME InStep, LcdClock, PanelClock
    PROVE  ColumnsKept'
  <1>. USE Timing, CountersStep
  <1>0. /\ hpos' = IF ~oHSYNC THEN 0 ELSE IF oDE THEN hpos + 1 ELSE hpos
        /\ hcnt \in 0 .. HSUM /\ vcnt \in 0 .. VSUM
        /\ ~inRST => hcnt = 0 /\ vcnt = 0
    BY DEF PanelClock, InStep, Ranges
  <1>1. hpos' \in 0 .. THD
    BY <1>0, SMT DEF InStep, ColumnsKept, Columns, InPicture, oDE, DataEnable
  <1>2. vcnt' >= 1 \/ hcnt' >= 2 => hpos' = IF InPicture(vcnt') THEN Columns(hcnt') ELSE 0
    BY <1>0, SMT DEF InStep, PulsesKept, ColumnsKept, Columns, InPicture, oDE, DataEnable
  <1>. QED  BY <1>1, <1>2, Zenon DEF ColumnsKept, InPicture, Columns

LEMMA LinesStep ==
    ASSUME InStep, LcdClock, PanelClock
    PROVE  LinesKept'
  <1>. USE Timing, CountersStep
  <1>0. /\ hpos' = IF ~oHSYNC THEN 0 ELSE IF oDE THEN hpos + 1 ELSE hpos
        /\ vpos' = IF ~oVSYNC THEN 0
                   ELSE IF ~oHSYNC /\ hpos # 0 THEN vpos + 1 ELSE vpos
        /\ hcnt \in 0 .. HSUM /\ vcnt \in 0 .. VSUM
        /\ ~inRST => hcnt = 0 /\ vcnt = 0
        /\ hpos \in 0 .. THD /\ vpos \in 0 .. TVD
    BY DEF PanelClock, InStep, Ranges, ColumnsKept, LinesKept
  <1>1. vpos' \in 0 .. TVD
    BY <1>0, SMT DEF InStep, LinesKept
  <1>2. hpos' # 0 => vpos' < TVD
    BY <1>0, SMT DEF InStep, ColumnsKept, LinesKept, Columns, InPicture, Lines, oDE, DataEnable
  <1>3. vcnt' >= 1 => vpos' = Lines(vcnt', hcnt')
    BY <1>0, SMT DEF InStep, PulsesKept, ColumnsKept, LinesKept, Columns, InPicture, Lines
  <1>. QED  BY <1>1, <1>2, <1>3, Zenon DEF LinesKept, Lines

(* The button: nothing is promised of the panel until the pulses catch up. *)
LEMMA ButtonStep ==
    ASSUME InStep, Button
    PROVE  InStep'
  <1>1. CASE Press
    <2>1. /\ inRST' = FALSE /\ hcnt' = 0 /\ vcnt' = 0
          /\ UNCHANGED <<oHSYNC, oVSYNC, hpos, vpos>>
      BY <1>1 DEF Press, Button
    <2>2. hcnt' \in 0 .. HSUM /\ vcnt' \in 0 .. VSUM
      BY <2>1, Timing, SMT
    <2>3. Ranges'
      BY <2>1, <2>2, Zenon DEF InStep, Ranges
    <2>4. PulsesKept'
      BY <2>1, Timing, SMT DEF PulsesKept
    <2>5. ColumnsKept' /\ LinesKept'
      BY <2>1, Timing, SMT DEF InStep, ColumnsKept, LinesKept
    <2>. QED  BY <2>3, <2>4, <2>5 DEF InStep
  <1>2. CASE Release
    BY <1>2, Timing, SMT DEF InStep, Ranges, PulsesKept, ColumnsKept, LinesKept, Release, Button,
       Columns, Lines, InPicture
  <1>. QED  BY <1>1, <1>2 DEF Button

LEMMA StaysInStep == InStep /\ [DisplayNext]_displayVars => InStep'
  <1>. SUFFICES ASSUME InStep, [DisplayNext]_displayVars PROVE InStep'
    OBVIOUS
  <1>1. CASE DisplayClock
    BY <1>1, RangesStep, PulsesStep, ColumnsStep, LinesStep DEF DisplayClock, InStep
  <1>2. CASE Button
    BY <1>2, ButtonStep
  <1>3. CASE UNCHANGED displayVars
    BY <1>3 DEF displayVars, lcdVars, InStep, Ranges, PulsesKept, ColumnsKept, LinesKept,
       Columns, Lines, InPicture, HSTART, VSTART, HSUM, VSUM
  <1>. QED  BY <1>1, <1>2, <1>3 DEF DisplayNext
-----------------------------------------------------------------------------
(* Pixels and addresses.                                                   *)

LEMMA PanelFollows == InStep => PanelInStep
  BY Timing, SMT DEF InStep, Ranges, ColumnsKept, LinesKept, PanelInStep, oDE, DataEnable,
     Columns, Lines, InPicture

(* When data enable is set, the clock before counted one column less; if   *)
(* it had data enable too it was of the same line.                         *)
LEMMA ClockBefore ==
    ASSUME InStep, LcdClock, oDE'
    PROVE  /\ hcnt' = hcnt + 1
           /\ IF hcnt' = HSTART THEN ~oDE ELSE oDE /\ vcnt' = vcnt
  <1>. USE Timing
  <1>1. /\ HSTART <= hcnt' /\ hcnt' < HSTART + THD
        /\ VSTART <= vcnt' /\ vcnt' < VSTART + TVD
    BY DEF oDE, DataEnable
  <1>2. hcnt \in 0 .. HSUM /\ vcnt \in 0 .. VSUM
    BY DEF InStep, Ranges
  <1>3. hcnt' = hcnt + 1
    BY <1>1, <1>2, CountersStep, SMT DEF InStep
  <1>4. hcnt' = HSTART => ~oDE
    BY <1>2, <1>3, SMT DEF oDE, DataEnable
  <1>5. hcnt' # HSTART => vcnt' = vcnt
    BY <1>1, <1>2, <1>3, CountersStep, SMT DEF InStep
  <1>6. hcnt' # HSTART => oDE
    BY <1>1, <1>2, <1>3, <1>5, SMT DEF oDE, DataEnable
  <1>. QED  BY <1>3, <1>4, <1>5, <1>6

LEMMA BufferAddress ==
    ASSUME NEW v \in Nat, NEW h \in Nat
    PROVE  buff_addr(v, h) \in Nat /\ buff_addr(0, 0) = 0
  <1>1. v \div 2 \in Nat /\ h \div 2 \in Nat /\ 0 \div 2 = 0
    BY SMT
  <1>. DEFINE d == v \div 2
             e == h \div 2
  <1>2. d \in Nat /\ e \in Nat
    BY <1>1
  <1>. HIDE DEF d, e
  <1>3. d * PITCH + e \in Nat /\ 0 * PITCH + 0 = 0
    BY <1>2, PitchAssumption, SMT
  <1>. QED  BY <1>1, <1>3 DEF buff_addr, d, e

(* The registers behind the picture's addresses.                           *)
PixelKept ==
    /\ oHADDR \in 0 .. THD - 1 /\ oVADDR \in 0 .. TVD - 1
    /\ readdata \in Nat
    /\ PixelShown

LEMMA PixelInit == DisplayInit => PixelKept
  BY Timing, PitchAssumption, SMT DEF DisplayInit, LcdInit, PixelKept, PixelShown, oDE, DataEnable

LEMMA PixelClock ==
    ASSUME InStep, InStep', PixelKept, DisplayClock
    PROVE  PixelKept'
  <1>. USE Timing
  <1>0. LcdClock /\ ReadBuffer
    BY DEF DisplayClock
  <1>1. /\ oHADDR' = IF oDE THEN hcnt - HSTART ELSE 0
        /\ oVADDR' = IF oDE THEN vcnt - VSTART ELSE 0
        /\ hcnt \in 0 .. HSUM /\ vcnt \in 0 .. VSUM
    BY <1>0 DEF LcdClock, InStep, Ranges
  <1>2. oHADDR' \in 0 .. THD - 1 /\ oVADDR' \in 0 .. TVD - 1
    BY <1>1, SMT DEF oDE, DataEnable
  <1>3. buff_addr(oVADDR, oHADDR) \in Nat /\ buff_addr(oVADDR', oHADDR') \in Nat
    <2>1. oVADDR \in Nat /\ oHADDR \in Nat /\ oVADDR' \in Nat /\ oHADDR' \in Nat
      BY <1>2, SMT DEF PixelKept
    <2>. QED  BY <2>1, BufferAddress
  <1>4. readdata' \in Nat
    BY <1>0, <1>3 DEF ReadBuffer, PixelKept
  <1>5. ASSUME oDE'
        PROVE  readdata' = IF hpos' = 0 THEN 0
                           ELSE (vpos' \div 2) * PITCH + (hpos' - 1) \div 2
    <2>1. readdata' = buff_addr(oVADDR', oHADDR')
      BY <1>0, <1>5 DEF ReadBuffer
    <2>2. hpos' = hcnt' - HSTART /\ vpos' = vcnt' - VSTART
      <3>1. PanelInStep'
        <4>1. (InStep => PanelInStep)'
          BY PanelFollows, PTL
        <4>. QED  BY <4>1
      <3>. QED  BY <3>1, <1>5 DEF PanelInStep
    <2>3. /\ hcnt' = hcnt + 1
          /\ IF hcnt' = HSTART THEN ~oDE ELSE oDE /\ vcnt' = vcnt
      BY <1>0, <1>5, ClockBefore
    <2>4. CASE hcnt' = HSTART
      <3>1. oVADDR' = 0 /\ oHADDR' = 0 /\ hpos' = 0
        BY <1>1, <2>2, <2>3, <2>4, SMT
      <3>. QED  BY <3>1, <2>1, BufferAddress
    <2>5. CASE hcnt' # HSTART
      <3>1. oVADDR' = vpos' /\ oHADDR' = hpos' - 1 /\ hpos' # 0
        BY <1>1, <2>2, <2>3, <2>5, SMT
      <3>. QED  BY <3>1, <2>1 DEF buff_addr
    <2>. QED  BY <2>4, <2>5
  <1>. QED  BY <1>2, <1>4, <1>5 DEF PixelKept, PixelShown

(* The linear address counts the pixels the panel has taken, for every     *)
(* line but the first of the counters, where the panel may lag.            *)
AddressKept ==
    /\ oADDR \in 0 .. THD * TVD
    /\ vcnt >= 1 => oADDR = vpos * THD + hpos

LEMMA Rows ==
    ASSUME NEW v \in Nat, NEW k \in Nat, NEW n \in Nat
    PROVE  /\ v * n \in Nat /\ (v + 1) * n = v * n + n /\ 0 * n = 0
           /\ v + 1 <= k => v * n + n <= n * k
  <1>1. v * n \in Nat /\ (v + 1) * n = v * n + n /\ 0 * n = 0
    BY SMT
  <1>2. ASSUME v + 1 <= k PROVE v * n + n <= n * k
    <2>1. PICK d \in Nat : k = v + 1 + d
      <3>1. k - (v + 1) \in Nat /\ k = v + 1 + (k - (v + 1))
        BY <1>2, SMT
      <3>. QED  BY <3>1
    <2>2. n * k = v * n + n + n * d /\ n * d \in Nat
      BY <2>1, SMT
    <2>. QED  BY <1>1, <2>2, SMT
  <1>. QED  BY <1>1, <1>2

LEMMA AddressInit == DisplayInit => AddressKept
  <1>1. THD * TVD \in Nat
    BY Timing, Rows
  <1>. QED  BY <1>1, SMT DEF DisplayInit, LcdInit, AddressKept

LEMMA AddressClock ==
    ASSUME InStep, InStep', AddressKept, DisplayClock
    PROVE  AddressKept'
  <1>. USE Timing
  <1>0. /\ LcdClock
        /\ hpos' = IF ~oHSYNC THEN 0 ELSE IF oDE THEN hpos + 1 ELSE hpos
        /\ vpos' = IF ~oVSYNC THEN 0
                   ELSE IF ~oHSYNC /\ hpos # 0 THEN vpos + 1 ELSE vpos
        /\ oADDR' = IF ~oVSYNC THEN 0 ELSE IF oDE THEN oADDR + 1 ELSE oADDR
        /\ hcnt \in 0 .. HSUM /\ vcnt \in 0 .. VSUM
        /\ hpos \in 0 .. THD /\ vpos \in 0 .. TVD
    BY DEF DisplayClock, LcdClock, NextAddress, PanelClock, InStep, Ranges, ColumnsKept, LinesKept
  <1>1. THD * TVD \in Nat /\ vpos * THD \in Nat /\ 0 * THD = 0
        /\ (vpos + 1) * THD = vpos * THD + THD
        /\ (vpos + 1 <= TVD => vpos * THD + THD <= THD * TVD)
    BY <1>0, Rows
  <1>2. oDE => vcnt >= 1 /\ hpos < THD /\ vpos + 1 <= TVD /\ oHSYNC
    BY <1>0, SMT DEF InStep, PulsesKept, ColumnsKept, LinesKept, Columns, Lines, InPicture,
                     oDE, DataEnable
  <1>3. oADDR' \in 0 .. THD * TVD
    <2>. DEFINE p == vpos * THD
                q == THD * TVD
    <2>1. p \in Nat /\ q \in Nat /\ (vpos + 1 <= TVD => p + THD <= q)
      BY <1>1
    <2>2. oADDR \in 0 .. q /\ (vcnt >= 1 => oADDR = p + hpos)
      BY DEF AddressKept
    <2>. HIDE DEF p, q
    <2>3. oADDR' \in 0 .. q
      BY <1>0, <1>2, <2>1, <2>2, SMT
    <2>. QED  BY <2>3 DEF q
  <1>4. ASSUME vcnt' >= 1 PROVE oADDR' = vpos' * THD + hpos'
    <2>1. CASE vcnt = 0
      <3>1. hcnt = THPW /\ vcnt' = 1
        BY <1>0, <1>4, <2>1, CountersStep, SMT DEF InStep
      <3>2. ~oVSYNC /\ ~oHSYNC
        BY <1>0, <2>1, <3>1, SMT DEF InStep, PulsesKept
      <3>. QED  BY <1>0, <1>1, <3>2
    <2>2. CASE vcnt >= 1 /\ ~oVSYNC
      <3>1. vpos' = 0 /\ oADDR' = 0
        BY <1>0, <2>2
      <3>2. hpos' = 0
        BY <1>0, <2>2, SMT DEF InStep, PulsesKept, ColumnsKept, Columns, InPicture,
                               oDE, DataEnable
      <3>. QED  BY <1>1, <3>1, <3>2, SMT
    <2>3. CASE vcnt >= 1 /\ oVSYNC
      <3>1. oADDR = vpos * THD + hpos
        BY <2>3 DEF AddressKept
      <3>2. CASE oDE
        <4>1. vpos' = vpos /\ hpos' = hpos + 1 /\ oADDR' = oADDR + 1
          BY <1>0, <1>2, <2>3, <3>2
        <4>. QED  BY <1>0, <1>1, <3>1, <4>1, SMT
      <3>3. CASE ~oDE /\ oHSYNC
        BY <1>0, <2>3, <3>1, <3>3
      <3>4. CASE ~oDE /\ ~oHSYNC /\ hpos = 0
        BY <1>0, <2>3, <3>1, <3>4
      <3>5. CASE ~oDE /\ ~oHSYNC /\ hpos # 0
        <4>1. hpos = THD
          BY <1>0, <2>3, <3>5, SMT DEF InStep, PulsesKept, ColumnsKept, Columns, InPicture
        <4>2. vpos' = vpos + 1 /\ hpos' = 0 /\ oADDR' = oADDR
          BY <1>0, <2>3, <3>5
        <4>. QED  BY <1>0, <1>1, <3>1, <4>1, <4>2, SMT
      <3>. QED  BY <3>2, <3>3, <3>4, <3>5
    <2>. QED  BY <1>0, <2>1, <2>2, <2>3, SMT
  <1>. QED  BY <1>3, <1>4 DEF AddressKept

LEMMA PixelStep == InStep /\ InStep' /\ PixelKept /\ [DisplayNext]_displayVars => PixelKept'
  <1>. SUFFICES ASSUME InStep, InStep', PixelKept, [DisplayNext]_displayVars
                PROVE  PixelKept'
    OBVIOUS
  <1>1. CASE DisplayClock
    BY <1>1, PixelClock
  <1>2. CASE Button
    <2>1. UNCHANGED <<oHADDR, oVADDR, readdata, hpos, vpos>>
      BY <1>2 DEF Button, Press, Release
    <2>2. oDE' => oDE
      BY <1>2, Timing, SMT DEF Button, Press, Release, oDE, DataEnable
    <2>. QED  BY <2>1, <2>2 DEF PixelKept, PixelShown
  <1>3. CASE UNCHANGED displayVars
    BY <1>3 DEF displayVars, lcdVars, PixelKept, PixelShown, oDE
  <1>. QED  BY <1>1, <1>2, <1>3 DEF DisplayNext

LEMMA AddressStep ==
    InStep /\ InStep' /\ AddressKept /\ [DisplayNext]_displayVars => AddressKept'
  <1>. SUFFICES ASSUME InStep, InStep', AddressKept, [DisplayNext]_displayVars
                PROVE  AddressKept'
    OBVIOUS
  <1>1. CASE DisplayClock
    BY <1>1, AddressClock
  <1>2. CASE Button
    <2>1. UNCHANGED <<oADDR, hpos, vpos>> /\ (vcnt' = 0 \/ vcnt' = vcnt)
      BY <1>2 DEF Button, Press, Release
    <2>2. vcnt' >= 1 => vcnt' = vcnt
      BY <2>1, SMT
    <2>. QED  BY <2>1, <2>2 DEF AddressKept
  <1>3. CASE UNCHANGED displayVars
    BY <1>3 DEF displayVars, lcdVars, AddressKept
  <1>. QED  BY <1>1, <1>2, <1>3 DEF DisplayNext

LEMMA LinearFollows == InStep /\ AddressKept => LinearAddress
  BY Timing, SMT DEF InStep, Ranges, AddressKept, LinearAddress, oDE, DataEnable

LEMMA TypeFollows == InStep /\ PixelKept /\ AddressKept => DisplayType
  BY DEF InStep, Ranges, ColumnsKept, LinesKept, PixelKept, AddressKept, DisplayType
-----------------------------------------------------------------------------
LEMMA AlwaysInStep == DisplaySpec => []InStep
  BY InitInStep, StaysInStep, PTL DEF DisplaySpec

LEMMA AlwaysPixel == DisplaySpec => []PixelKept
  BY AlwaysInStep, PixelInit, PixelStep, PTL DEF DisplaySpec

LEMMA AlwaysAddress == DisplaySpec => []AddressKept
  BY AlwaysInStep, AddressInit, AddressStep, PTL DEF DisplaySpec

(* The counters, the addresses and the panel keep their ranges             *)
(* (LCD_CON.v:99-147).                                                     *)
THEOREM DisplayTypeCorrect == DisplaySpec => []DisplayType
  BY AlwaysInStep, AlwaysPixel, AlwaysAddress, TypeFollows, PTL

(* Whatever the button did, no pixel meets a panel at another place        *)
(* (LCD_CON.v:99-157).                                                     *)
THEOREM PanelNeverSlips == DisplaySpec => []PanelInStep
  BY AlwaysInStep, PanelFollows, PTL

(* Each pixel taken is the buffer's pixel of the column before             *)
(* (LCD_CON.v:113-122, TOP.v:61-97).                                       *)
THEOREM PixelsComeFromTheBuffer == DisplaySpec => []PixelShown
  <1>1. PixelKept => PixelShown
    BY DEF PixelKept
  <1>. QED  BY <1>1, AlwaysPixel, PTL

(* The linear address is that of the pixel taken (LCD_CON.v:117-121).      *)
THEOREM AddressesAreExact == DisplaySpec => []LinearAddress
  BY AlwaysInStep, AlwaysAddress, LinearFollows, PTL
=============================================================================
