------------------------------ MODULE LCD_CON ------------------------------
(***************************************************************************)
(* The raster generator of the display (HDL/LCD/LCD_CON.v): two counters,  *)
(* the synchronisation pulses, the data enable and the addresses of the    *)
(* picture.  One LcdClock is one rising edge of iCLK together with the     *)
(* edge of oHSYNC it may cause; inRST is the push button of the board and  *)
(* acts at once, clock or no clock.                                        *)
(***************************************************************************)
EXTENDS Naturals

CONSTANTS THD, TVD,          \* columns and lines of the picture
          THB, THFP, THPW,   \* horizontal back porch, front porch, pulse width
          TVB, TVFP, TVPW,   \* the same of a frame, in lines
          HRANGE, VRANGE     \* numbers of values of hcnt (2^HBW), vcnt (2^VBW)

HSUM == THD + THB + THFP + THPW
VSUM == TVD + TVB + TVFP + TVPW
HSTART == THPW + THB
VSTART == TVPW + TVB

(* A pulse and a back porch are there to be seen, and a register of        *)
(* bit_fit(SUM - 1) bits holds every number below SUM.                     *)
ASSUME TimingAssumption ==
    /\ {THD, TVD, THB, THPW, TVB, TVPW} \subseteq Nat \ {0}
    /\ {THFP, TVFP, HRANGE, VRANGE} \subseteq Nat
    /\ HSUM <= HRANGE /\ VSUM <= VRANGE

\* Mutant of DataEnable: a column too many.
DataEnable_Wide(h, v) == /\ THPW + THB <= h /\ h <= THPW + THB + THD
                         /\ TVPW + TVB <= v /\ v < TVPW + TVB + TVD

VARIABLES inRST, hcnt, vcnt, oHSYNC, oVSYNC, oHADDR, oVADDR, oADDR
lcdVars == <<inRST, hcnt, vcnt, oHSYNC, oVSYNC, oHADDR, oVADDR, oADDR>>

(* Registers of this device come up cleared.                               *)
LcdInit ==
    /\ inRST \in BOOLEAN
    /\ hcnt = 0 /\ vcnt = 0
    /\ oHSYNC = FALSE /\ oVSYNC = FALSE
    /\ oHADDR = 0 /\ oVADDR = 0 /\ oADDR = 0

DataEnable(h, v) == /\ HSTART <= h /\ h < HSTART + THD
                    /\ VSTART <= v /\ v < VSTART + TVD
oDE == DataEnable(hcnt, vcnt)

\* Mutants of Count: a step beyond the sum; no way back to zero.
Count_TooFar(n, sum, range) == IF n <= sum THEN n + 1 ELSE 0
Count_Stays(n, sum, range) == IF n < sum THEN n + 1 ELSE n

(* n + 1 in a register of that range, or back to zero.  The comparison     *)
(* lets the sum itself pass: a line has HSUM + 1 clocks, unless the        *)
(* register overflows first.                                               *)
Count(n, sum, range) == IF n < sum /\ n + 1 # range THEN n + 1 ELSE 0

HsyncLevel == IF hcnt < THPW THEN FALSE
              ELSE IF hcnt < HSUM THEN TRUE ELSE oHSYNC
VsyncLevel == IF vcnt < TVPW THEN FALSE
              ELSE IF vcnt < VSUM THEN TRUE ELSE oVSYNC
HsyncRises == ~oHSYNC /\ HsyncLevel

\* Mutant of NextAddress: cleared with every line.
NextAddress_EachLine == IF ~oHSYNC THEN 0 ELSE IF oDE THEN oADDR + 1 ELSE oADDR
NextAddress == IF ~oVSYNC THEN 0 ELSE IF oDE THEN oADDR + 1 ELSE oADDR

LcdClock ==
    /\ hcnt' = IF inRST THEN Count(hcnt, HSUM, HRANGE) ELSE 0
    /\ vcnt' = IF ~inRST THEN 0
               ELSE IF HsyncRises THEN Count(vcnt, VSUM, VRANGE) ELSE vcnt
    /\ oHSYNC' = HsyncLevel
    /\ oVSYNC' = VsyncLevel
    /\ oHADDR' = IF oDE THEN hcnt - HSTART ELSE 0
    /\ oVADDR' = IF oDE THEN vcnt - VSTART ELSE 0
    /\ oADDR' = NextAddress
    /\ UNCHANGED inRST

(* The button is pressed: both counters are cleared at once, and nothing   *)
(* else is.                                                                *)
Press ==
    /\ inRST
    /\ inRST' = FALSE
    /\ hcnt' = 0 /\ vcnt' = 0
    /\ UNCHANGED <<oHSYNC, oVSYNC, oHADDR, oVADDR, oADDR>>

Release ==
    /\ ~inRST
    /\ inRST' = TRUE
    /\ UNCHANGED <<hcnt, vcnt, oHSYNC, oVSYNC, oHADDR, oVADDR, oADDR>>
=============================================================================
