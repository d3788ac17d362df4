------------------------------ MODULE MC_UART ------------------------------
(***************************************************************************)
(* Rings of three places, so that each holds two bytes, FIFOs of two, and  *)
(* programs that write, that read and that do both.                        *)
(***************************************************************************)
EXTENDS JTAG_UART_DRIVER

Call(op, size, nonblock) == [op |-> op, size |-> size, nonblock |-> nonblock]
Writes == {Call("write", 3, FALSE), Call("write", 2, TRUE)}
Reads == {Call("read", 3, FALSE), Call("read", 1, TRUE)}
Timeouts == {Call("ioctl", 0, FALSE)}

Closes == {Call("close", 0, FALSE), Call("close", 0, TRUE)}
MC_Workloads ==
    {[calls |-> Writes \cup Closes \cup Timeouts, sends |-> FALSE, budget |-> Endless],
     [calls |-> Reads, sends |-> TRUE, budget |-> Endless],
     [calls |-> {Call("write", 2, FALSE), Call("read", 2, FALSE)},
      sends |-> TRUE, budget |-> 3]}
MC_WriteOnly == {w \in MC_Workloads : ~w.sends}
=============================================================================
