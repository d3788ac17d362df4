----------------------------- MODULE JTAG_UART -----------------------------
(***************************************************************************)
(* The serial port to the host (SYSTEM_jtag_uart_0.v): a FIFO for each     *)
(* direction, the two interrupts and the activity bit.  The host at the    *)
(* other end of the cable is external: it may be absent, come and go.      *)
(* A clock of the device is not a step; a register access of the processor *)
(* or an access of the host is.                                            *)
(***************************************************************************)
EXTENDS Naturals, Sequences

CONSTANTS WDEPTH, RDEPTH,   \* places of the FIFOs (64)
          WMARK, RMARK,     \* their interrupt thresholds (8)
          MODULUS           \* bytes are numbered modulo MODULUS
ASSUME UartAssumption ==
    /\ {WDEPTH, RDEPTH, MODULUS} \subseteq Nat \ {0}
    /\ WMARK \in 0 .. WDEPTH - 1 /\ RMARK \in 0 .. RDEPTH - 1

VARIABLES wfifo, rfifo,     \* towards the host, from the host
          ien_AE, ien_AF,   \* interrupt enables: almost empty, almost full
          pause_irq,        \* the host has paused with bytes in rfifo
          ac,               \* host activity since the bit was cleared
          hostSent,         \* external: number of the host's next byte
          hostGot           \* external: number of the byte the host expects
uartVars == <<wfifo, rfifo, ien_AE, ien_AF, pause_irq, ac, hostSent, hostGot>>

ipen_AE == ien_AE /\ Len(wfifo) <= WMARK
ipen_AF == ien_AF /\ (pause_irq \/ RDEPTH - Len(rfifo) <= RMARK)
av_irq == ipen_AE \/ ipen_AF
\* Mutant of WSPACE: the depth of the FIFO.
WSPACE_Depth == WDEPTH
WSPACE == WDEPTH - Len(wfifo)

(* The number that follows a chunk, if the chunk is the bytes expected;    *)
(* MODULUS, which no byte has, if not.                                     *)
Following(expected, chunk) ==
    IF \A i \in DOMAIN chunk : chunk[i] = (expected + i - 1) % MODULUS
    THEN (expected + Len(chunk)) % MODULUS ELSE MODULUS

\* Mutant of WriteControl: the activity bit is not cleared.
WriteControl_KeepsActivity(re, we, clear) ==
    /\ ien_AF' = re /\ ien_AE' = we
    /\ UNCHANGED <<ac, wfifo, rfifo, pause_irq, hostSent, hostGot>>

(* The processor writes the control register: activity is cleared only on  *)
(* request.                                                                *)
WriteControl(re, we, clear) ==
    /\ ien_AF' = re /\ ien_AE' = we
    /\ ac' = (ac /\ ~clear)
    /\ UNCHANGED <<wfifo, rfifo, pause_irq, hostSent, hostGot>>

(* The processor writes the data register; a full FIFO drops the byte.     *)
WriteData(byte) ==
    /\ wfifo' = IF Len(wfifo) < WDEPTH THEN Append(wfifo, byte) ELSE wfifo
    /\ UNCHANGED <<rfifo, ien_AE, ien_AF, pause_irq, ac, hostSent, hostGot>>

(* A byte of the host reaches a FIFO, if there is room for it.             *)
Arrives(fifo) == Len(fifo) < RDEPTH /\ hostSent' = (hostSent + 1) % MODULUS
                 /\ rfifo' = Append(fifo, hostSent) /\ ac' = TRUE

(* The processor reads the data register: RVALID is sampled a clock before *)
(* RAVAIL, and a byte of the host may arrive in between.                   *)
ReadData(late) ==
    LET rest == IF rfifo = << >> THEN rfifo ELSE Tail(rfifo)
    IN  /\ IF late THEN Arrives(rest)
                   ELSE rfifo' = rest /\ UNCHANGED <<hostSent, ac>>
        /\ pause_irq' = FALSE
        /\ UNCHANGED <<wfifo, ien_AE, ien_AF, hostGot>>

HostSend ==
    /\ Arrives(rfifo)
    /\ UNCHANGED <<wfifo, ien_AE, ien_AF, pause_irq, hostGot>>

(* The host looks in: it shows activity, takes at least one byte if there  *)
(* is any, and pauses, which interrupts if bytes of its own are waiting.   *)
HostPoll ==
    /\ \E k \in 0 .. Len(wfifo) :
        /\ k = 0 => wfifo = << >>
        /\ wfifo' = SubSeq(wfifo, k + 1, Len(wfifo))
        /\ hostGot' = Following(hostGot, SubSeq(wfifo, 1, k))
    /\ ac' = TRUE
    /\ pause_irq' = (pause_irq \/ rfifo # << >>)
    /\ UNCHANGED <<rfifo, ien_AE, ien_AF, hostSent>>
=============================================================================
