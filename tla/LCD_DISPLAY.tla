---------------------------- MODULE LCD_DISPLAY ----------------------------
(***************************************************************************)
(* The path of a pixel (TOP.v): the generator LCD_CON, the frame buffer    *)
(* that it reads, and the panel behind it.  Buffer pixels are named by     *)
(* their addresses.  The panel is external: it takes a pixel on each edge  *)
(* of DCLK with DE set, begins a line at a HSYNC pulse and a frame at a    *)
(* VSYNC pulse (model B of LCD.v:16-17); hpos and vpos are where the next  *)
(* pixel goes.                                                             *)
(***************************************************************************)
EXTENDS LCD_CON

CONSTANT PITCH      \* buffer pixels of a line (TOP.v:73: 400)
ASSUME PitchAssumption == PITCH \in Nat

VARIABLES readdata,     \* address whose pixel the buffer presents
          hpos, vpos
displayVars == <<lcdVars, readdata, hpos, vpos>>

\* Mutant of buff_addr: columns are not halved.
buff_addr_Column(v, h) == (v \div 2) * PITCH + h

(* Each pixel of the buffer covers two columns and two lines.              *)
buff_addr(v, h) == (v \div 2) * PITCH + h \div 2

DisplayInit ==
    /\ LcdInit
    /\ readdata = 0
    /\ hpos = 0 /\ vpos = 0

(* The buffer is clocked by ~(oDE & clk): it reads at the falling edge of  *)
(* each clock with data enable.  Where data enable ends, right behind a    *)
(* rising edge, the gated clock may pulse and the buffer may read again.   *)
ReadBuffer ==
    IF oDE' THEN readdata' = buff_addr(oVADDR', oHADDR')
    ELSE readdata' \in {readdata}
            \cup (IF oDE THEN {buff_addr(oVADDR, oHADDR),
                               buff_addr(oVADDR', oHADDR')} ELSE {})

(* The panel looks at the signals as they are before the edge.             *)
PanelClock ==
    /\ hpos' = IF ~oHSYNC THEN 0 ELSE IF oDE THEN hpos + 1 ELSE hpos
    /\ vpos' = IF ~oVSYNC THEN 0
               ELSE IF ~oHSYNC /\ hpos # 0 THEN vpos + 1 ELSE vpos

DisplayClock == LcdClock /\ ReadBuffer /\ PanelClock
Button == (Press \/ Release) /\ UNCHANGED <<readdata, hpos, vpos>>

DisplayNext == DisplayClock \/ Button
DisplaySpec == DisplayInit /\ [][DisplayNext]_displayVars
               /\ WF_displayVars(DisplayClock)
-----------------------------------------------------------------------------
(* Every register stays in its range: the counters pass the sum of their   *)
(* periods by nothing, and the addresses stay inside the picture.          *)
DisplayType ==
    /\ inRST \in BOOLEAN /\ oHSYNC \in BOOLEAN /\ oVSYNC \in BOOLEAN
    /\ hcnt \in 0 .. HSUM /\ vcnt \in 0 .. VSUM
    /\ oHADDR \in 0 .. THD - 1 /\ oVADDR \in 0 .. TVD - 1
    /\ oADDR \in 0 .. THD * TVD
    /\ readdata \in Nat
    /\ hpos \in 0 .. THD /\ vpos \in 0 .. TVD

(* Whenever data enable is set the panel is at the column and the line     *)
(* that the generator counts, however often and however briefly the button *)
(* was pressed: the pulses of the two counters, one of them clocked by the *)
(* other's pulse, bring the panel back in step before the next pixel.      *)
PanelInStep ==
    oDE => /\ hpos = hcnt - HSTART /\ hpos < THD
           /\ vpos = vcnt - VSTART /\ vpos < TVD

(* What the panel takes at a column and a line: the addresses are a clock  *)
(* behind, so the picture begins one column to the right, and the first    *)
(* column of every line shows the first pixel of the buffer.               *)
PixelShown ==
    oDE => readdata = IF hpos = 0 THEN 0
                      ELSE (vpos \div 2) * PITCH + (hpos - 1) \div 2

(* The linear address is that of the pixel taken, from the first pixel of  *)
(* a frame to its last, with nothing left of the frame before.             *)
LinearAddress == oDE => oADDR = vpos * THD + hpos

(* When the button is left alone, the last pixel of a frame is taken again *)
(* and again: neither counter gets stuck beyond its period.                *)
LastPixel == oDE /\ hpos = THD - 1 /\ vpos = TVD - 1
FramesGoOn == <>[]inRST => []<>LastPixel
=============================================================================
