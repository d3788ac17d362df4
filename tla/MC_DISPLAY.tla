---------------------------- MODULE MC_DISPLAY ----------------------------
(***************************************************************************)
(* A picture of eight columns and six lines, with short porches.  HSUM is  *)
(* 15 and VSUM 12: both counters have one value more than their sum, and   *)
(* four bits hold it, as ten bits do for 889 and 535.                      *)
(***************************************************************************)
EXTENDS LCD_DISPLAY
=============================================================================
