-------------------------- MODULE JTAG_UART_DRIVER --------------------------
(***************************************************************************)
(* The interrupt driven driver of the serial port (Hello_bsp/drivers/src/  *)
(* altera_avalon_jtag_uart_*.c): the program's calls, the interrupt        *)
(* routine and the alarm that watches for the host share two ring buffers, *)
(* the copy of the interrupt enables and a count of idle seconds.  There   *)
(* is one program and no operating system: the locks and the event flags   *)
(* are empty, a blocked call spins, and interrupts do not nest.  A step of *)
(* the program is what it does between two looks at a variable that the    *)
(* interrupts change; a step of the interrupt routine is one access to the *)
(* device.                                                                 *)
(***************************************************************************)
EXTENDS JTAG_UART

CONSTANTS BUF_LEN,       \* places of a ring (2048)
          TIMEOUT,       \* idle seconds after which the host is gone (10)
          INT_MAX,
          Workloads      \* [calls, sends, budget]: the calls of a program,
                         \* whether a host sends, how many of both
ASSUME DriverAssumption ==
    /\ BUF_LEN \in Nat /\ BUF_LEN >= 2
    /\ TIMEOUT \in Nat /\ INT_MAX \in Nat
    /\ 2 <= TIMEOUT /\ TIMEOUT < INT_MAX - 1
(* The library writes, reads and closes, and sets a time to wait.          *)
LibraryCall == [op : {"write", "read", "close", "ioctl"}, size : Nat, nonblock : BOOLEAN]
Workload == [calls : SUBSET LibraryCall, sends : BOOLEAN, budget : Nat]
ASSUME WorkloadAssumption == Workloads \subseteq Workload

VARIABLES tx_buf, tx_in, tx_out, rx_buf, rx_in, rx_out,
          irq_enable, host_inactive, timeout,
          pc, call,     \* the program: where it is, its call with its locals
          isr,          \* the interrupt routine with its locals
          txGiven,      \* number of the next byte a write copies
          rxTaken,      \* number of the byte the next read expects
          workload
ringVars == <<tx_buf, tx_in, tx_out, rx_buf, rx_in, rx_out>>
watchVars == <<irq_enable, host_inactive, timeout>>
ghostVars == <<txGiven, rxTaken, workload>>
driverVars == <<uartVars, ringVars, watchVars, ghostVars, pc, call, isr>>

Endless == 1000
(* A call or a byte of the host, while the workload has one left.          *)
Spend == /\ workload.budget > 0
         /\ workload' = IF workload.budget = Endless THEN workload
                        ELSE [workload EXCEPT !.budget = @ - 1]

Index == 0 .. BUF_LEN - 1
NoCall == [op |-> "none", left |-> 0, nonblock |-> FALSE, moved |-> 0,
           seen |-> 0, n |-> 0, chunk |-> << >>, result |-> "none"]
NoIsr == [at |-> "off", ri |-> FALSE, wi |-> FALSE, space |-> 0, avail |-> FALSE]

SetEnable(enable, clear) ==
    /\ irq_enable' = enable
    /\ WriteControl(enable.RE, enable.WE, clear)

(* altera_avalon_jtag_uart_init: only the read interrupt is on.            *)
DriverInit ==
    /\ workload \in Workloads
    /\ wfifo = << >> /\ rfifo = << >>
    /\ ien_AE = FALSE /\ ien_AF = TRUE
    /\ pause_irq = FALSE /\ ac = FALSE
    /\ hostSent = 0 /\ hostGot = 0
    /\ tx_buf = [i \in Index |-> 0] /\ tx_in = 0 /\ tx_out = 0
    /\ rx_buf = [i \in Index |-> 0] /\ rx_in = 0 /\ rx_out = 0
    /\ irq_enable = [RE |-> TRUE, WE |-> FALSE]
    /\ host_inactive = 0 /\ timeout = TIMEOUT
    /\ pc = "idle" /\ call = NoCall /\ isr = NoIsr
    /\ txGiven = 0 /\ rxTaken = 0

(* The bytes of a ring, oldest first.                                      *)
RingLen(in, out) == (in + BUF_LEN - out) % BUF_LEN
Ring(buf, in, out) ==
    [i \in 1 .. RingLen(in, out) |-> buf[(out + i - 1) % BUF_LEN]]
Smaller(a, b) == IF a < b THEN a ELSE b
HostGone == host_inactive >= timeout
-----------------------------------------------------------------------------
(* The program.  At(p) is the guard of its step at p: it runs while no     *)
(* interrupt does.                                                         *)
At(p) == isr.at = "off" /\ pc = p

StartCall ==
    /\ At("idle")
    /\ Spend
    /\ \E c \in workload.calls :
        /\ call' = [NoCall EXCEPT !.op = c.op, !.left = c.size,
                                  !.nonblock = c.nonblock]
        /\ pc' = c.op
    /\ UNCHANGED <<uartVars, ringVars, watchVars, txGiven, rxTaken, isr>>

Return(result) == pc' = "return" /\ call' = [call EXCEPT !.result = result]

(* What a read or a write returns: the bytes moved, or an error.           *)
Outcome(c) == IF c.moved > 0 THEN "moved"
              ELSE IF c.nonblock THEN "EWOULDBLOCK" ELSE "EIO"

EndCall ==
    /\ At("return")
    /\ pc' = "idle" /\ call' = NoCall
    /\ UNCHANGED <<uartVars, ringVars, watchVars, ghostVars, isr>>

\* Mutant of TxRoom: the place that tells a full ring from an empty one is used.
TxRoom_Full(in, out) == IF in < out THEN out - in ELSE BUF_LEN - in

(* Room for one memcpy into the transmit ring.                             *)
TxRoom(in, out) == IF in < out THEN out - 1 - in
                   ELSE IF out > 0 THEN BUF_LEN - in
                   ELSE BUF_LEN - 1 - in

WriteLook ==
    /\ At("write")
    /\ LET n == Smaller(TxRoom(tx_in, tx_out), call.left)
       IN  /\ call' = [call EXCEPT !.seen = tx_out, !.n = n]
           /\ pc' = IF n = 0 THEN "write_enable" ELSE "write_copy"
    /\ UNCHANGED <<uartVars, ringVars, watchVars, ghostVars, isr>>

WriteCopy ==
    /\ At("write_copy")
    /\ tx_buf' = [i \in Index |->
                    IF i \in tx_in .. tx_in + call.n - 1
                    THEN (txGiven + i - tx_in) % MODULUS ELSE tx_buf[i]]
    /\ pc' = "write_publish"
    /\ UNCHANGED <<uartVars, tx_in, tx_out, rx_buf, rx_in, rx_out, watchVars,
                   ghostVars, call, isr>>

WritePublish ==
    /\ At("write_publish")
    /\ tx_in' = (tx_in + call.n) % BUF_LEN
    /\ txGiven' = (txGiven + call.n) % MODULUS
    /\ call' = [call EXCEPT !.left = @ - call.n, !.moved = @ + call.n, !.n = 0]
    /\ pc' = IF call'.left > 0 THEN "write" ELSE "write_enable"
    /\ UNCHANGED <<uartVars, tx_buf, tx_out, rx_buf, rx_in, rx_out, watchVars,
                   rxTaken, workload, isr>>

(* With interrupts off: set WE in the copy and in the device.              *)
WriteEnable ==
    /\ At("write_enable")
    /\ SetEnable([irq_enable EXCEPT !.WE = TRUE], FALSE)
    /\ IF call.left = 0 \/ call.nonblock THEN Return(Outcome(call))
       ELSE pc' = "write_spin" /\ UNCHANGED call
    /\ UNCHANGED <<ringVars, host_inactive, timeout, ghostVars, isr>>

WriteSpin ==
    /\ At("write_spin")
    /\ call.seen # tx_out \/ HostGone
    /\ pc' = "write_check"
    /\ UNCHANGED <<uartVars, ringVars, watchVars, ghostVars, call, isr>>

(* Any idle second at all ends the call (:187).                            *)
WriteCheck ==
    /\ At("write_check")
    /\ IF host_inactive # 0 THEN Return(Outcome(call))
       ELSE pc' = "write" /\ UNCHANGED call
    /\ UNCHANGED <<uartVars, ringVars, watchVars, ghostVars, isr>>
-----------------------------------------------------------------------------
RxBytes(in, out) == IF in >= out THEN in - out ELSE BUF_LEN - out

ReadLook ==
    /\ At("read")
    /\ LET n == Smaller(RxBytes(rx_in, rx_out), call.left)
           c == [call EXCEPT !.seen = rx_in, !.n = n]
       IN  IF n > 0 THEN call' = c /\ pc' = "read_copy"
           ELSE IF call.moved > 0 THEN call' = c /\ pc' = "read_enable"
           ELSE IF call.nonblock
           THEN call' = [c EXCEPT !.result = Outcome(c)] /\ pc' = "return"
           ELSE call' = c /\ pc' = "read_spin"
    /\ UNCHANGED <<uartVars, ringVars, watchVars, ghostVars, isr>>

ReadCopy ==
    /\ At("read_copy")
    /\ call' = [call EXCEPT !.chunk =
                    [i \in 1 .. call.n |-> rx_buf[rx_out + i - 1]]]
    /\ pc' = "read_release"
    /\ UNCHANGED <<uartVars, ringVars, watchVars, ghostVars, isr>>

ReadRelease ==
    /\ At("read_release")
    /\ rx_out' = (rx_out + call.n) % BUF_LEN
    /\ rxTaken' = Following(rxTaken, call.chunk)
    /\ call' = [call EXCEPT !.left = @ - call.n, !.moved = @ + call.n,
                            !.n = 0, !.chunk = << >>]
    /\ pc' = IF call'.left > 0 THEN "read" ELSE "read_enable"
    /\ UNCHANGED <<uartVars, tx_buf, tx_in, tx_out, rx_buf, rx_in, watchVars,
                   txGiven, workload, isr>>

\* Mutant of ReadSpin: the absent host is not looked at.
ReadSpin_Forever ==
    /\ At("read_spin") /\ call.seen # rx_in
    /\ pc' = "read_check"
    /\ UNCHANGED <<uartVars, ringVars, watchVars, ghostVars, call, isr>>

ReadSpin ==
    /\ At("read_spin")
    /\ call.seen # rx_in \/ HostGone
    /\ pc' = "read_check"
    /\ UNCHANGED <<uartVars, ringVars, watchVars, ghostVars, call, isr>>

ReadCheck ==
    /\ At("read_check")
    /\ IF call.seen = rx_in THEN Return(Outcome(call))
       ELSE pc' = "read" /\ UNCHANGED call
    /\ UNCHANGED <<uartVars, ringVars, watchVars, ghostVars, isr>>

ReadEnable ==
    /\ At("read_enable")
    /\ SetEnable([irq_enable EXCEPT !.RE = TRUE], FALSE)
    /\ Return(Outcome(call))
    /\ UNCHANGED <<ringVars, host_inactive, timeout, ghostVars, isr>>

(* close waits until the transmit ring is empty or the host is gone.       *)
Close ==
    /\ At("close")
    /\ IF tx_out # tx_in /\ ~HostGone
       THEN call.nonblock /\ Return("EWOULDBLOCK")
       ELSE Return("closed")
    /\ UNCHANGED <<uartVars, ringVars, watchVars, ghostVars, isr>>

(* ioctl TIOCSTIMEOUT; its argument comes as the size of the call.         *)
SetTimeout ==
    /\ At("ioctl")
    /\ timeout' = IF timeout = INT_MAX THEN timeout
                  ELSE IF 2 <= call.left /\ call.left < INT_MAX THEN call.left
                  ELSE INT_MAX - 1
    /\ Return(IF timeout = INT_MAX THEN "ENOTTY" ELSE "set")
    /\ UNCHANGED <<uartVars, ringVars, irq_enable, host_inactive, ghostVars, isr>>

Program ==
    \/ StartCall \/ EndCall
    \/ WriteLook \/ WriteCopy \/ WritePublish \/ WriteEnable
    \/ WriteSpin \/ WriteCheck
    \/ ReadLook \/ ReadCopy \/ ReadRelease \/ ReadSpin \/ ReadCheck \/ ReadEnable
    \/ Close \/ SetTimeout
-----------------------------------------------------------------------------
(* The interrupt routine.                                                  *)
Interrupt ==
    /\ isr.at = "off" /\ av_irq
    /\ isr' = [NoIsr EXCEPT !.at = "control"]
    /\ UNCHANGED <<uartVars, ringVars, watchVars, ghostVars, pc, call>>

ReadControl ==
    /\ isr.at = "control"
    /\ isr' = IF ~av_irq THEN NoIsr
              ELSE [at |-> IF ipen_AF THEN "receive" ELSE "send",
                    ri |-> ipen_AF, wi |-> ipen_AE, space |-> WSPACE,
                    avail |-> ipen_AF]
    /\ UNCHANGED <<uartVars, ringVars, watchVars, ghostVars, pc, call>>

\* Mutant of RxFull: the index does not wrap.
RxFull_NoWrap == rx_in + 1 = rx_out
RxFull == (rx_in + 1) % BUF_LEN = rx_out

(* Stop when the ring is full or the FIFO gives no byte; then turn the     *)
(* interrupt off if the last look saw more.                                *)
Receive ==
    /\ isr.at = "receive" /\ ~RxFull
    /\ \/ ReadData(FALSE) /\ UNCHANGED workload
       \/ workload.sends /\ ReadData(TRUE) /\ Spend
    /\ IF rfifo = << >>
       THEN /\ isr' = [isr EXCEPT !.at = "received", !.avail = rfifo' # << >>]
            /\ UNCHANGED <<rx_buf, rx_in>>
       ELSE /\ isr' = [isr EXCEPT !.avail = rfifo' # << >>]
            /\ rx_buf' = [rx_buf EXCEPT ![rx_in] = Head(rfifo)]
            /\ rx_in' = (rx_in + 1) % BUF_LEN
    /\ UNCHANGED <<tx_buf, tx_in, tx_out, rx_out, watchVars, txGiven, rxTaken,
                   pc, call>>

AfterReceive == [isr EXCEPT !.at = IF isr.wi THEN "send" ELSE "control",
                            !.avail = FALSE]
\* Mutant of ReceiveEnd: the read interrupt stays on when the ring is full.
ReceiveEnd_LeavesOn ==
    /\ isr.at = "received" \/ (isr.at = "receive" /\ RxFull)
    /\ isr' = AfterReceive
    /\ UNCHANGED <<uartVars, irq_enable, ringVars, host_inactive, timeout,
                   ghostVars, pc, call>>

ReceiveEnd ==
    /\ isr.at = "received" \/ (isr.at = "receive" /\ RxFull)
    /\ IF isr.avail THEN SetEnable([irq_enable EXCEPT !.RE = FALSE], FALSE)
                    ELSE UNCHANGED <<irq_enable, uartVars>>
    /\ isr' = AfterReceive
    /\ UNCHANGED <<ringVars, host_inactive, timeout, ghostVars, pc, call>>

Send ==
    /\ isr.at = "send" /\ isr.space > 0 /\ tx_out # tx_in
    /\ WriteData(tx_buf[tx_out])
    /\ tx_out' = (tx_out + 1) % BUF_LEN
    /\ isr' = [isr EXCEPT !.space = @ - 1]
    /\ UNCHANGED <<tx_buf, tx_in, rx_buf, rx_in, rx_out, watchVars, ghostVars,
                   pc, call>>

\* Mutant of SendEnd: the write interrupt goes off also with bytes left.
SendEnd_Always ==
    /\ isr.at = "send" /\ (isr.space = 0 \/ tx_out = tx_in)
    /\ SetEnable([irq_enable EXCEPT !.WE = FALSE], FALSE)
    /\ isr' = [NoIsr EXCEPT !.at = "control"]
    /\ UNCHANGED <<ringVars, host_inactive, timeout, ghostVars, pc, call>>

SendEnd ==
    /\ isr.at = "send" /\ (isr.space = 0 \/ tx_out = tx_in)
    /\ IF isr.space > 0 THEN SetEnable([irq_enable EXCEPT !.WE = FALSE], FALSE)
                        ELSE UNCHANGED <<irq_enable, uartVars>>
    /\ isr' = [NoIsr EXCEPT !.at = "control"]
    /\ UNCHANGED <<ringVars, host_inactive, timeout, ghostVars, pc, call>>

Isr == ReadControl \/ Receive \/ ReceiveEnd \/ Send \/ SendEnd

(* The alarm, once a second: has the host shown itself?                    *)
Second ==
    /\ isr.at = "off"
    /\ IF ac
       THEN /\ SetEnable(irq_enable, TRUE)
            /\ host_inactive' = 0
       ELSE /\ host_inactive' = IF host_inactive < INT_MAX - 2
                                THEN host_inactive + 1 ELSE host_inactive
            /\ UNCHANGED <<irq_enable, uartVars>>
    /\ UNCHANGED <<ringVars, timeout, ghostVars, pc, call, isr>>

Host == /\ \/ HostPoll /\ UNCHANGED workload
           \/ workload.sends /\ HostSend /\ Spend
        /\ UNCHANGED <<ringVars, watchVars, txGiven, rxTaken, pc, call, isr>>

DriverNext == Program \/ Interrupt \/ Isr \/ Second \/ Host
(* The processor executes; interrupts, which may come at any time, are not *)
(* so frequent that they leave no time for the program.  The host owes     *)
(* nothing.                                                                *)
DriverSpec ==
    /\ DriverInit /\ [][DriverNext]_driverVars
    /\ WF_driverVars(Isr) /\ SF_driverVars(Interrupt)
    /\ SF_driverVars(Second) /\ SF_driverVars(Program)
-----------------------------------------------------------------------------
(* Every variable has its type, and the copy of the interrupt enables      *)
(* that the program and the interrupts share is what the device has.       *)
DriverType ==
    /\ {tx_in, tx_out, rx_in, rx_out} \subseteq Index
    /\ tx_buf \in [Index -> 0 .. MODULUS - 1]
    /\ rx_buf \in [Index -> 0 .. MODULUS - 1]
    /\ irq_enable = [RE |-> ien_AF, WE |-> ien_AE]
    /\ host_inactive \in 0 .. INT_MAX - 2
    /\ timeout \in 2 .. INT_MAX - 1
    /\ Len(wfifo) <= WDEPTH /\ Len(rfifo) <= RDEPTH
    /\ isr.space \in 0 .. WDEPTH
    /\ call.n < BUF_LEN

(* Both directions are channels: what a write copied is what the host      *)
(* takes, what the host sent is what a read delivers, complete, once and   *)
(* in order, although the rings change under the calls.                    *)
Tx == INSTANCE CHANNEL WITH Capacity <- BUF_LEN - 1 + WDEPTH, Modulus <- MODULUS,
        q <- wfifo \o Ring(tx_buf, tx_in, tx_out), given <- txGiven, taken <- hostGot
Rx == INSTANCE CHANNEL WITH Capacity <- BUF_LEN - 1 + RDEPTH, Modulus <- MODULUS,
        q <- Ring(rx_buf, rx_in, rx_out) \o rfifo, given <- hostSent, taken <- rxTaken
TxChannel == Tx!ChannelSpec
RxChannel == Rx!ChannelSpec

(* No byte is left lying: while there are bytes to send the write          *)
(* interrupt is on, or the call that put them there is about to turn it    *)
(* on; while the read interrupt is off there are bytes for the next read,  *)
(* which will turn it on.                                                  *)
Publishing == call.op = "write" /\ call.moved > 0
              /\ pc \in {"write", "write_copy", "write_publish", "write_enable"}
Releasing == call.op = "read" /\ call.moved > 0
KeepsGoing ==
    /\ tx_in # tx_out => irq_enable.WE \/ Publishing
    /\ ~irq_enable.RE => rx_in # rx_out \/ Releasing

(* An answer waits no longer than the host is there: a write and a close   *)
(* return, unless the program has asked to wait for ever.                  *)
Sending == pc # "idle" /\ call.op \in {"write", "close"}
SendReturns == Sending ~> (~Sending \/ timeout = INT_MAX - 1)

(* A read returns or sees the host show itself.                            *)
Reading == pc # "idle" /\ call.op = "read"
ReadReturns == Reading ~> (~Reading \/ ac \/ timeout = INT_MAX - 1)

(* The interrupt routine, which loops until nothing is pending, ends       *)
(* whatever the host does.                                                 *)
IsrReturns == isr.at # "off" ~> isr.at = "off"

(* A write fails with EIO only when the host is taken for gone: "Host not  *)
(* connected" (write.c:214), after "the time to wait until assuming host   *)
(* is not connected" (ioctl.c:61).                                         *)
Fails == call.result = "none" /\ call'.result = "EIO"
EioMeansGone == [][Fails /\ call.op = "write" => HostGone]_driverVars
=============================================================================
