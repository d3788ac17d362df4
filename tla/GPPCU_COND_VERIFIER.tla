------------------------ MODULE GPPCU_COND_VERIFIER ------------------------
(***************************************************************************)
(* Conditional execution: the condition field of an instruction against    *)
(* the status register of the thread (GPPCU_COND_VERIFIER.v).              *)
(***************************************************************************)

\* The status flags that are in use.
Sreg == [v : BOOLEAN, c : BOOLEAN, n : BOOLEAN, z : BOOLEAN]

SregReset == [v |-> FALSE, c |-> FALSE, n |-> FALSE, z |-> FALSE]

\* Code 15 (COND_RESERVED) has no row: instructions do not use it.
Condition ==
    {"ALWAYS", "NEVER", "C", "NC", "Z", "NZ", "V", "NV", "N", "NN",
     "NEG", "POS", "EQ", "GR", "LT"}

Negative(s) == (~s.v /\ s.n) \/ (s.v /\ s.c)
Positive(s) == (~s.v /\ ~s.n) \/ (s.v /\ ~s.c)

oVALID(cond, s) ==
    CASE cond = "ALWAYS" -> TRUE
      [] cond = "NEVER"  -> FALSE
      [] cond = "C"      -> s.c
      [] cond = "NC"     -> ~s.c
      [] cond = "Z"      -> s.z
      [] cond = "NZ"     -> ~s.z
      [] cond = "V"      -> s.v
      [] cond = "NV"     -> ~s.v
      [] cond = "N"      -> s.n
      [] cond = "NN"     -> ~s.n
      [] cond \in {"NEG", "LT"} -> Negative(s)
      [] cond \in {"POS", "GR"} -> Positive(s)
      [] cond = "EQ"     -> ~s.c /\ s.z
=============================================================================
