----------------------- MODULE JTAG_UART_DRIVER_proofs -----------------------
(***************************************************************************)
(* For every size of the rings and the FIFOs, every threshold, every       *)
(* program and every host: the indices keep their ranges, the copy of the  *)
(* interrupt enables is the device's, and no byte is left lying.           *)
(*                                                                         *)
(* Turning the read interrupt off is the delicate step.  The routine does  *)
(* it when the device still has bytes, which need not mean that the ring   *)
(* is full: a byte may have arrived behind the one read last.  What saves  *)
(* the driver is that the interrupt was raised for at least one byte, so   *)
(* the ring is not empty and the next read turns the interrupt on again.   *)
(***************************************************************************)
EXTENDS JTAG_UART_DRIVER, Integers, SequenceTheorems, TLAPS

Byte == 0 .. MODULUS - 1
Pcs == {"idle", "write", "write_copy", "write_publish", "write_enable", "write_spin",
        "write_check", "read", "read_copy", "read_release", "read_spin", "read_check",
        "read_enable", "close", "ioctl", "return"}
IsrAt == {"off", "control", "receive", "received", "send"}

(* A call; its chunk and its result are of no concern here.                *)
CallType ==
    call \in [op : {"none", "write", "read", "close", "ioctl"}, left : Nat,
              nonblock : BOOLEAN, moved : Nat, seen : Index, n : Index,
              chunk : {call.chunk}, result : {call.result}]

DeviceKept ==
    /\ wfifo \in Seq(Byte) /\ Len(wfifo) <= WDEPTH
    /\ rfifo \in Seq(Byte) /\ Len(rfifo) <= RDEPTH
    /\ ien_AE \in BOOLEAN /\ ien_AF \in BOOLEAN /\ pause_irq \in BOOLEAN /\ ac \in BOOLEAN
    /\ hostSent \in Byte
    /\ pause_irq => rfifo # << >>

RingsKept ==
    /\ tx_in \in Index /\ tx_out \in Index /\ rx_in \in Index /\ rx_out \in Index
    /\ tx_buf \in [Index -> Byte] /\ rx_buf \in [Index -> Byte]
    /\ txGiven \in Byte

WatchKept ==
    /\ irq_enable = [RE |-> ien_AF, WE |-> ien_AE]
    /\ host_inactive \in 0 .. INT_MAX - 2
    /\ timeout \in 2 .. INT_MAX - 1

IsrKept ==
    /\ isr \in [at : IsrAt, ri : BOOLEAN, wi : BOOLEAN, space : 0 .. WDEPTH, avail : BOOLEAN]
    /\ isr.at = "receive" => rfifo # << >> \/ rx_in # rx_out
    /\ isr.at = "received" => rx_in # rx_out

ProgramKept ==
    /\ workload \in Workload
    /\ pc \in Pcs /\ CallType
    /\ pc = "write_copy" \/ pc = "write_publish" \/ pc = "read_copy" \/ pc = "read_release"
          => call.n > 0 /\ call.n <= call.left
    /\ pc \in {"write", "write_copy", "write_publish", "write_enable", "write_spin",
                "write_check"} => call.op = "write"
    /\ pc \in {"read", "read_copy", "read_release", "read_spin", "read_check", "read_enable"}
          => call.op = "read"
    /\ pc \in {"read_spin", "read_check"} => call.moved = 0

(* The two wake-ups, with the place up to which a read is bound to turn    *)
(* the interrupt on.                                                       *)
SendsOn == tx_in # tx_out => ien_AE \/ Publishing
ReceivesOn ==
    ~ien_AF => rx_in # rx_out
               \/ (call.moved > 0 /\ pc \in {"read", "read_copy", "read_release", "read_enable"})

DriverInv ==
    /\ DeviceKept /\ RingsKept /\ WatchKept /\ IsrKept /\ ProgramKept
    /\ SendsOn /\ ReceivesOn

LEMMA Sizes ==
    /\ BUF_LEN \in Nat /\ BUF_LEN >= 2 /\ INT_MAX \in Nat /\ TIMEOUT \in Nat
    /\ 2 <= TIMEOUT /\ TIMEOUT < INT_MAX - 1
    /\ WDEPTH \in Nat /\ WDEPTH > 0 /\ RDEPTH \in Nat /\ RDEPTH > 0
    /\ MODULUS \in Nat /\ MODULUS > 0
    /\ WMARK \in Nat /\ RMARK \in Nat /\ RMARK < RDEPTH
  BY DriverAssumption, UartAssumption, SMT

LEMMA Modulo == ASSUME NEW n \in Nat, n > 0, NEW x \in Nat
                PROVE  x % n \in 0 .. n - 1
  BY SMT

(* One place further in a ring.                                            *)
LEMMA NextIndex == ASSUME NEW i \in Index PROVE (i + 1) % BUF_LEN \in Index
  <1>1. i + 1 \in Nat
    BY Sizes, SMT DEF Index
  <1>. QED  BY <1>1, Sizes, Modulo DEF Index

LEMMA DriverInitInv == DriverInit => DriverInv
  <1>. SUFFICES ASSUME DriverInit PROVE DriverInv
    OBVIOUS
  <1>1. 0 \in Index /\ 0 \in Byte /\ 0 \in 0 .. WDEPTH /\ 0 \in 0 .. INT_MAX - 2
        /\ TIMEOUT \in 2 .. INT_MAX - 1
    BY Sizes, SMT DEF Index, Byte
  <1>2. DeviceKept
    BY <1>1, Sizes, SMT DEF DriverInit, DeviceKept
  <1>3. RingsKept
    BY <1>1 DEF DriverInit, RingsKept
  <1>4. WatchKept
    BY <1>1 DEF DriverInit, WatchKept
  <1>5. IsrKept
    BY <1>1 DEF DriverInit, IsrKept, NoIsr, IsrAt
  <1>6. ProgramKept
    BY <1>1, WorkloadAssumption DEF DriverInit, ProgramKept, CallType, NoCall, Pcs
  <1>7. SendsOn /\ ReceivesOn
    BY DEF DriverInit, SendsOn, ReceivesOn
  <1>. QED  BY <1>2, <1>3, <1>4, <1>5, <1>6, <1>7 DEF DriverInv

(* A call or a byte of the host costs the workload, and changes nothing    *)
(* else of it.                                                             *)
LEMMA SpendKeeps == ASSUME workload \in Workload, Spend PROVE workload' \in Workload
  <1>1. CASE workload.budget = Endless
    BY <1>1 DEF Spend
  <1>2. CASE workload.budget # Endless
    <2>1. workload.budget - 1 \in Nat
      BY <1>2, SMT DEF Spend, Workload
    <2>2. workload' = [workload EXCEPT !.budget = workload.budget - 1]
      BY <1>2 DEF Spend
    <2>. QED  BY <2>1, <2>2, SMT DEF Workload
  <1>. QED  BY <1>1, <1>2

(* The room for one copy is less than a ring.                              *)
LEMMA Chunks ==
    ASSUME RingsKept, NEW left \in Nat
    PROVE  /\ Smaller(TxRoom(tx_in, tx_out), left) \in Index
           /\ Smaller(RxBytes(rx_in, rx_out), left) \in Index
           /\ Smaller(TxRoom(tx_in, tx_out), left) <= left
           /\ Smaller(RxBytes(rx_in, rx_out), left) <= left
  BY Sizes, SMT DEF RingsKept, Index, Smaller, TxRoom, RxBytes

(* The program's steps that leave the device and the rings alone.          *)
QuietStep == StartCall \/ EndCall \/ WriteLook \/ WriteSpin \/ WriteCheck
             \/ ReadLook \/ ReadCopy \/ ReadSpin \/ ReadCheck \/ Close

LEMMA QuietFrame ==
    ASSUME DriverInv, QuietStep
    PROVE  DeviceKept' /\ RingsKept' /\ WatchKept' /\ IsrKept'
  <1>1. UNCHANGED <<uartVars, ringVars, watchVars, txGiven, isr>>
    BY DEF QuietStep, StartCall, EndCall, WriteLook, WriteSpin, WriteCheck,
           ReadLook, ReadCopy, ReadSpin, ReadCheck, Close, ghostVars
  <1>. QED  BY <1>1 DEF DriverInv, DeviceKept, RingsKept, WatchKept, IsrKept,
                        uartVars, ringVars, watchVars

LEMMA QuietProgram ==
    ASSUME DriverInv, QuietStep
    PROVE  ProgramKept' /\ SendsOn' /\ ReceivesOn'
  <1>0. /\ ProgramKept /\ RingsKept /\ SendsOn /\ ReceivesOn
        /\ UNCHANGED <<uartVars, ringVars>>
    BY DEF DriverInv, QuietStep, StartCall, EndCall, WriteLook, WriteSpin, WriteCheck,
           ReadLook, ReadCopy, ReadSpin, ReadCheck, Close
  <1>c. /\ call.left \in Nat /\ call.moved \in Nat /\ call.n \in Index /\ 0 \in Index
    BY <1>0, Sizes, SMT DEF ProgramKept, CallType, Index
  <1>. USE <1>0 DEF ProgramKept, CallType, Pcs, SendsOn, ReceivesOn, Publishing,
                    uartVars, ringVars
  <1>1. CASE StartCall
    <2>1. PICK c \in workload.calls :
            /\ call' = [NoCall EXCEPT !.op = c.op, !.left = c.size, !.nonblock = c.nonblock]
            /\ pc' = c.op
      BY <1>1 DEF StartCall
    <2>2. /\ c.op \in {"write", "read", "close", "ioctl"} /\ c.size \in Nat
          /\ c.nonblock \in BOOLEAN /\ pc = "idle"
      BY <1>1 DEF Workload, LibraryCall, StartCall, At
    <2>3. call' = [op |-> c.op, left |-> c.size, nonblock |-> c.nonblock, moved |-> 0,
                   seen |-> 0, n |-> 0, chunk |-> << >>, result |-> "none"]
      BY <2>1 DEF NoCall
    <2>4. workload' \in Workload
      BY <1>1, SpendKeeps DEF StartCall
    <2>5. CallType' /\ call'.op = c.op /\ call'.moved = 0
      BY <1>c, <2>2, <2>3
    <2>6. /\ pc' \in {"write", "read", "close", "ioctl"} /\ call'.op = pc'
      BY <2>1, <2>2, <2>5
    <2>7. ProgramKept'
      BY <2>4, <2>5, <2>6
    <2>. QED  BY <2>2, <2>7
  <1>2. CASE EndCall
    BY <1>c, <1>2 DEF EndCall, At, NoCall, ghostVars
  <1>3. CASE WriteLook
    <2>1. /\ Smaller(TxRoom(tx_in, tx_out), call.left) \in Index
          /\ Smaller(TxRoom(tx_in, tx_out), call.left) <= call.left
      BY <1>c, Chunks
    <2>. DEFINE n == Smaller(TxRoom(tx_in, tx_out), call.left)
    <2>2. /\ pc = "write" /\ call' = [call EXCEPT !.seen = tx_out, !.n = n]
          /\ pc' = IF n = 0 THEN "write_enable" ELSE "write_copy"
          /\ UNCHANGED workload /\ n \in Index /\ n <= call.left /\ tx_out \in Index
      BY <1>3, <2>1 DEF WriteLook, At, ghostVars, RingsKept
    <2>. HIDE DEF n
    <2>3. n # 0 => n > 0
      BY <2>2, Sizes, SMT DEF Index
    <2>. QED  BY <2>2, <2>3
  <1>4. CASE WriteSpin
    BY <1>4 DEF WriteSpin, At, ghostVars
  <1>5. CASE WriteCheck
    BY <1>5 DEF WriteCheck, At, Return, ghostVars
  <1>6. CASE ReadLook
    <2>1. /\ Smaller(RxBytes(rx_in, rx_out), call.left) \in Index
          /\ Smaller(RxBytes(rx_in, rx_out), call.left) <= call.left
      BY <1>c, Chunks
    <2>. DEFINE n == Smaller(RxBytes(rx_in, rx_out), call.left)
               c == [call EXCEPT !.seen = rx_in, !.n = n]
    <2>2. /\ pc = "read" /\ n \in Index /\ n <= call.left /\ rx_in \in Index /\ UNCHANGED workload
          /\ \/ call' = c /\ pc' = "read_copy" /\ n > 0
             \/ call' = c /\ pc' = "read_enable" /\ call.moved > 0
             \/ pc' = "return" /\ ~(call.moved > 0)
                /\ call' = [c EXCEPT !.result = Outcome(c)]
             \/ call' = c /\ pc' = "read_spin" /\ ~(call.moved > 0)
      BY <1>6, <2>1 DEF ReadLook, At, ghostVars, RingsKept
    <2>. HIDE DEF n
    <2>3. ~(call.moved > 0) => call.moved = 0
      BY <1>c, SMT
    <2>. QED  BY <2>2, <2>3
  <1>7. CASE ReadCopy
    <2>. DEFINE bytes == [i \in 1 .. call.n |-> rx_buf[rx_out + i - 1]]
    <2>1. /\ pc = "read_copy" /\ pc' = "read_release" /\ UNCHANGED workload
          /\ call' = [call EXCEPT !.chunk = bytes]
      BY <1>7 DEF ReadCopy, At, ghostVars
    <2>. HIDE DEF bytes
    <2>. QED  BY <2>1
  <1>8. CASE ReadSpin
    BY <1>8 DEF ReadSpin, At, ghostVars
  <1>9. CASE ReadCheck
    BY <1>9 DEF ReadCheck, At, Return, ghostVars
  <1>10. CASE Close
    BY <1>10 DEF Close, At, Return, ghostVars
  <1>. QED  BY <1>1, <1>2, <1>3, <1>4, <1>5, <1>6, <1>7, <1>8, <1>9, <1>10 DEF QuietStep
-----------------------------------------------------------------------------
(* The steps that change a ring or an enable, one lemma each.              *)
LEMMA WriteCopyInv == ASSUME DriverInv, WriteCopy PROVE DriverInv'
  <1>1. /\ pc = "write_copy" /\ pc' = "write_publish"
        /\ UNCHANGED <<uartVars, tx_in, tx_out, rx_buf, rx_in, rx_out, watchVars, ghostVars,
                       call, isr>>
        /\ tx_buf' = [i \in Index |->
                        IF i \in tx_in .. tx_in + call.n - 1
                        THEN (txGiven + i - tx_in) % MODULUS ELSE tx_buf[i]]
    BY DEF WriteCopy, At
  <1>2. RingsKept /\ ProgramKept /\ DeviceKept /\ WatchKept /\ IsrKept /\ SendsOn /\ ReceivesOn
    BY DEF DriverInv
  <1>3. ASSUME NEW i \in Index
        PROVE  tx_buf'[i] \in Byte
    <2>1. CASE i \in tx_in .. tx_in + call.n - 1
      <3>1. txGiven + i - tx_in \in Nat
        BY <1>2, <2>1, Sizes, SMT DEF RingsKept, Index, Byte
      <3>2. (txGiven + i - tx_in) % MODULUS \in Byte
        BY <3>1, Sizes, Modulo DEF Byte
      <3>. QED  BY <1>1, <2>1, <3>2
    <2>2. CASE i \notin tx_in .. tx_in + call.n - 1
      BY <1>1, <1>2, <2>2 DEF RingsKept
    <2>. QED  BY <2>1, <2>2
  <1>4. tx_buf' \in [Index -> Byte]
    BY <1>1, <1>3
  <1>5. RingsKept'
    BY <1>1, <1>2, <1>4 DEF RingsKept, ghostVars
  <1>6. DeviceKept' /\ WatchKept' /\ IsrKept'
    BY <1>1, <1>2 DEF DeviceKept, WatchKept, IsrKept, uartVars, watchVars
  <1>7. ProgramKept' /\ SendsOn' /\ ReceivesOn'
    BY <1>1, <1>2 DEF ProgramKept, CallType, Pcs, SendsOn, ReceivesOn, Publishing, uartVars,
                      ghostVars
  <1>. QED  BY <1>5, <1>6, <1>7 DEF DriverInv

LEMMA WritePublishInv == ASSUME DriverInv, WritePublish PROVE DriverInv'
  <1>1. /\ pc = "write_publish" /\ pc' \in {"write", "write_enable"}
        /\ UNCHANGED <<uartVars, tx_buf, tx_out, rx_buf, rx_in, rx_out, watchVars, rxTaken,
                       workload, isr>>
        /\ tx_in' = (tx_in + call.n) % BUF_LEN
        /\ txGiven' = (txGiven + call.n) % MODULUS
        /\ call' = [call EXCEPT !.left = call.left - call.n, !.moved = call.moved + call.n, !.n = 0]
    BY DEF WritePublish, At
  <1>2. RingsKept /\ ProgramKept /\ DeviceKept /\ WatchKept /\ IsrKept /\ SendsOn /\ ReceivesOn
    BY DEF DriverInv
  <1>3. tx_in' \in Index /\ txGiven' \in Byte
    <2>0. tx_in \in Index /\ call.n \in Index /\ txGiven \in Byte
      BY <1>2 DEF RingsKept, ProgramKept, CallType
    <2>1. tx_in + call.n \in Nat /\ txGiven + call.n \in Nat
      BY <2>0, Sizes, SMT DEF Index, Byte
    <2>. QED  BY <1>1, <2>1, Sizes, Modulo DEF Index, Byte
  <1>4. RingsKept'
    BY <1>1, <1>2, <1>3 DEF RingsKept
  <1>5. DeviceKept' /\ WatchKept' /\ IsrKept'
    BY <1>1, <1>2 DEF DeviceKept, WatchKept, IsrKept, uartVars, watchVars
  <1>6. ProgramKept' /\ call'.moved > 0 /\ call'.op = "write"
    <2>1. /\ call.left - call.n \in Nat /\ call.moved + call.n \in Nat /\ 0 \in Index
          /\ call.moved + call.n > 0
      BY <1>1, <1>2, Sizes, SMT DEF ProgramKept, CallType, Index
    <2>. QED  BY <1>1, <1>2, <2>1 DEF ProgramKept, CallType, Pcs
  <1>7. SendsOn' /\ ReceivesOn'
    BY <1>1, <1>2, <1>6 DEF SendsOn, ReceivesOn, Publishing, uartVars
  <1>. QED  BY <1>4, <1>5, <1>6, <1>7 DEF DriverInv

(* Setting the enables keeps the rest of the device.                       *)
LEMMA EnableDevice ==
    ASSUME DriverInv, NEW e \in [RE : BOOLEAN, WE : BOOLEAN], NEW clear \in BOOLEAN,
           SetEnable(e, clear)
    PROVE  /\ DeviceKept' /\ ien_AF' = e.RE /\ ien_AE' = e.WE /\ rfifo' = rfifo
           /\ irq_enable' = [RE |-> ien_AF', WE |-> ien_AE']
  <1>1. /\ irq_enable' = e /\ ien_AF' = e.RE /\ ien_AE' = e.WE /\ ac' = (ac /\ ~clear)
        /\ UNCHANGED <<wfifo, rfifo, pause_irq, hostSent, hostGot>>
    BY DEF SetEnable, WriteControl
  <1>2. DeviceKept
    BY DEF DriverInv
  <1>3. ac' \in BOOLEAN
    BY <1>1, <1>2 DEF DeviceKept
  <1>. QED  BY <1>1, <1>2, <1>3 DEF DeviceKept

LEMMA EnableFrame ==
    ASSUME DriverInv, NEW e \in [RE : BOOLEAN, WE : BOOLEAN], NEW clear \in BOOLEAN,
           SetEnable(e, clear), UNCHANGED <<rx_in, rx_out, isr>>
    PROVE  /\ DeviceKept' /\ IsrKept' /\ ien_AF' = e.RE /\ ien_AE' = e.WE
           /\ irq_enable' = [RE |-> ien_AF', WE |-> ien_AE']
  <1>1. /\ DeviceKept' /\ ien_AF' = e.RE /\ ien_AE' = e.WE /\ rfifo' = rfifo
        /\ irq_enable' = [RE |-> ien_AF', WE |-> ien_AE']
    BY EnableDevice
  <1>. QED  BY <1>1 DEF DriverInv, IsrKept

LEMMA WriteEnableInv == ASSUME DriverInv, WriteEnable PROVE DriverInv'
  <1>1. RingsKept /\ ProgramKept /\ DeviceKept /\ WatchKept /\ IsrKept /\ SendsOn /\ ReceivesOn
    BY DEF DriverInv
  <1>2. /\ pc = "write_enable" /\ pc' \in {"return", "write_spin"}
        /\ UNCHANGED <<ringVars, host_inactive, timeout, ghostVars, isr>>
        /\ call' = call \/ call' = [call EXCEPT !.result = Outcome(call)]
    BY DEF WriteEnable, At, Return
  <1>. DEFINE e == [irq_enable EXCEPT !.WE = TRUE]
  <1>3. SetEnable(e, FALSE)
    BY DEF WriteEnable
  <1>4. e \in [RE : BOOLEAN, WE : BOOLEAN] /\ e.RE = ien_AF /\ e.WE = TRUE
    <2>1. /\ irq_enable \in [RE : BOOLEAN, WE : BOOLEAN]
          /\ irq_enable.RE = ien_AF /\ irq_enable.WE = ien_AE
      BY <1>1 DEF WatchKept, DeviceKept
    <2>. QED  BY <2>1
  <1>. HIDE DEF e
  <1>5. /\ DeviceKept' /\ IsrKept' /\ ien_AF' = ien_AF /\ ien_AE' = TRUE
        /\ irq_enable' = [RE |-> ien_AF', WE |-> ien_AE']
    BY <1>2, <1>3, <1>4, EnableFrame DEF ringVars
  <1>6. RingsKept' /\ WatchKept' /\ SendsOn'
    BY <1>1, <1>2, <1>5 DEF RingsKept, WatchKept, SendsOn, ringVars, ghostVars
  <1>7. ProgramKept' /\ ReceivesOn'
    BY <1>1, <1>2, <1>5 DEF ProgramKept, CallType, Pcs, ReceivesOn, ringVars, ghostVars
  <1>. QED  BY <1>5, <1>6, <1>7 DEF DriverInv

LEMMA ReadReleaseInv == ASSUME DriverInv, ReadRelease PROVE DriverInv'
  <1>1. /\ pc = "read_release" /\ pc' \in {"read", "read_enable"}
        /\ UNCHANGED <<uartVars, tx_buf, tx_in, tx_out, rx_buf, rx_in, watchVars, txGiven,
                       workload, isr>>
        /\ rx_out' = (rx_out + call.n) % BUF_LEN
        /\ call' = [call EXCEPT !.left = call.left - call.n, !.moved = call.moved + call.n,
                                !.n = 0, !.chunk = << >>]
    BY DEF ReadRelease, At
  <1>2. RingsKept /\ ProgramKept /\ DeviceKept /\ WatchKept /\ IsrKept /\ SendsOn /\ ReceivesOn
    BY DEF DriverInv
  <1>3. rx_out' \in Index
    <2>0. rx_out \in Index /\ call.n \in Index
      BY <1>2 DEF RingsKept, ProgramKept, CallType
    <2>1. rx_out + call.n \in Nat
      BY <2>0, Sizes, SMT DEF Index
    <2>. QED  BY <1>1, <2>1, Sizes, Modulo DEF Index
  <1>4. isr.at = "off"
    BY DEF ReadRelease, At
  <1>5. RingsKept' /\ DeviceKept' /\ WatchKept' /\ IsrKept'
    BY <1>1, <1>2, <1>3, <1>4 DEF RingsKept, DeviceKept, WatchKept, IsrKept, uartVars, watchVars
  <1>6. ProgramKept' /\ call'.moved > 0 /\ call'.op = "read"
    <2>1. /\ call.left - call.n \in Nat /\ call.moved + call.n \in Nat /\ 0 \in Index
          /\ call.moved + call.n > 0
      BY <1>1, <1>2, Sizes, SMT DEF ProgramKept, CallType, Index
    <2>. QED  BY <1>1, <1>2, <2>1 DEF ProgramKept, CallType, Pcs
  <1>7. SendsOn' /\ ReceivesOn'
    BY <1>1, <1>2, <1>6 DEF SendsOn, ReceivesOn, Publishing, ProgramKept, uartVars
  <1>. QED  BY <1>5, <1>6, <1>7 DEF DriverInv

LEMMA ReadEnableInv == ASSUME DriverInv, ReadEnable PROVE DriverInv'
  <1>1. RingsKept /\ ProgramKept /\ DeviceKept /\ WatchKept /\ IsrKept /\ SendsOn /\ ReceivesOn
    BY DEF DriverInv
  <1>2. /\ pc = "read_enable" /\ pc' = "return"
        /\ UNCHANGED <<ringVars, host_inactive, timeout, ghostVars, isr>>
        /\ call' = [call EXCEPT !.result = Outcome(call)]
    BY DEF ReadEnable, At, Return
  <1>. DEFINE e == [irq_enable EXCEPT !.RE = TRUE]
  <1>3. SetEnable(e, FALSE)
    BY DEF ReadEnable
  <1>4. e \in [RE : BOOLEAN, WE : BOOLEAN] /\ e.RE = TRUE /\ e.WE = ien_AE
    <2>1. /\ irq_enable \in [RE : BOOLEAN, WE : BOOLEAN]
          /\ irq_enable.RE = ien_AF /\ irq_enable.WE = ien_AE
      BY <1>1 DEF WatchKept, DeviceKept
    <2>. QED  BY <2>1
  <1>. HIDE DEF e
  <1>5. /\ DeviceKept' /\ IsrKept' /\ ien_AF' = TRUE /\ ien_AE' = ien_AE
        /\ irq_enable' = [RE |-> ien_AF', WE |-> ien_AE']
    BY <1>2, <1>3, <1>4, EnableFrame DEF ringVars
  <1>6. RingsKept' /\ WatchKept' /\ ReceivesOn'
    BY <1>1, <1>2, <1>5 DEF RingsKept, WatchKept, ReceivesOn, ringVars, ghostVars
  <1>7. ProgramKept' /\ SendsOn'
    BY <1>1, <1>2, <1>5 DEF ProgramKept, CallType, Pcs, SendsOn, Publishing, ringVars, ghostVars
  <1>. QED  BY <1>5, <1>6, <1>7 DEF DriverInv

LEMMA SetTimeoutInv == ASSUME DriverInv, SetTimeout PROVE DriverInv'
  <1>1. RingsKept /\ ProgramKept /\ DeviceKept /\ WatchKept /\ IsrKept /\ SendsOn /\ ReceivesOn
    BY DEF DriverInv
  <1>2. /\ pc = "ioctl" /\ pc' = "return"
        /\ UNCHANGED <<uartVars, ringVars, irq_enable, host_inactive, ghostVars, isr>>
    BY DEF SetTimeout, At, Return
  <1>3. timeout' \in 2 .. INT_MAX - 1
    BY <1>1, Sizes, SMT DEF SetTimeout, WatchKept, ProgramKept, CallType
  <1>4. RingsKept' /\ DeviceKept' /\ WatchKept' /\ IsrKept'
    BY <1>1, <1>2, <1>3 DEF RingsKept, DeviceKept, WatchKept, IsrKept, uartVars, ringVars, ghostVars
  <1>5. \E r : call' = [call EXCEPT !.result = r]
    BY DEF SetTimeout, Return
  <1>6. ProgramKept' /\ SendsOn' /\ ReceivesOn'
    BY <1>1, <1>2, <1>5 DEF ProgramKept, CallType, Pcs, SendsOn, ReceivesOn, Publishing,
                            uartVars, ringVars, ghostVars
  <1>. QED  BY <1>4, <1>6 DEF DriverInv
-----------------------------------------------------------------------------
(* The interrupt routine.                                                  *)
IsrType == [at : IsrAt, ri : BOOLEAN, wi : BOOLEAN, space : 0 .. WDEPTH, avail : BOOLEAN]

(* What the routine, the alarm and the host leave alone.                   *)
LEMMA ProgramFrame ==
    ASSUME DriverInv, UNCHANGED <<workload, pc, call>>
    PROVE  ProgramKept'
  BY DEF DriverInv, ProgramKept, CallType

LEMMA Sampling ==
    ASSUME DriverInv
    PROVE  /\ ipen_AF \in BOOLEAN /\ ipen_AE \in BOOLEAN /\ WSPACE \in 0 .. WDEPTH
           /\ ipen_AF => rfifo # << >>
  <1>1. DeviceKept
    BY DEF DriverInv
  <1>2. WSPACE \in 0 .. WDEPTH
    BY <1>1, Sizes, SMT DEF DeviceKept, WSPACE
  <1>3. RDEPTH - Len(rfifo) <= RMARK => rfifo # << >>
    BY <1>1, Sizes, SMT DEF DeviceKept
  <1>. QED  BY <1>1, <1>2, <1>3 DEF DeviceKept, ipen_AF, ipen_AE

LEMMA EnterInv == ASSUME DriverInv, Interrupt \/ ReadControl PROVE DriverInv'
  <1>1. UNCHANGED <<uartVars, ringVars, watchVars, ghostVars, pc, call>>
    BY DEF Interrupt, ReadControl
  <1>2. 0 \in 0 .. WDEPTH
    BY Sizes, SMT
  <1>3. CASE Interrupt
    <2>1. isr' = [at |-> "control", ri |-> FALSE, wi |-> FALSE, space |-> 0, avail |-> FALSE]
      BY <1>3 DEF Interrupt, NoIsr
    <2>. QED  BY <1>1, <1>2, <2>1 DEF DriverInv, DeviceKept, RingsKept, WatchKept, IsrKept, IsrAt,
              ProgramKept, CallType, SendsOn, ReceivesOn, Publishing,
              uartVars, ringVars, watchVars, ghostVars
  <1>4. CASE ReadControl
    <2>. DEFINE af == ipen_AF
               ae == ipen_AE
               sp == WSPACE
    <2>1. isr' = NoIsr \/ isr' = [at |-> IF af THEN "receive" ELSE "send",
                                 ri |-> af, wi |-> ae, space |-> sp, avail |-> af]
      BY <1>4 DEF ReadControl
    <2>2. af \in BOOLEAN /\ ae \in BOOLEAN /\ sp \in 0 .. WDEPTH /\ (af => rfifo # << >>)
      BY Sampling
    <2>. HIDE DEF af, ae, sp
    <2>3. isr' \in IsrType /\ isr'.at # "received" /\ (isr'.at = "receive" => rfifo # << >>)
      <3>. DEFINE at == IF af THEN "receive" ELSE "send"
      <3>1. at \in IsrAt /\ at # "received" /\ (at = "receive" => rfifo # << >>)
        BY <2>2 DEF IsrAt
      <3>2. isr' = NoIsr \/ isr' = [at |-> at, ri |-> af, wi |-> ae, space |-> sp, avail |-> af]
        BY <2>1
      <3>. HIDE DEF at
      <3>3. CASE isr' = NoIsr
        BY <1>2, <3>3 DEF NoIsr, IsrType, IsrAt
      <3>4. CASE isr' = [at |-> at, ri |-> af, wi |-> ae, space |-> sp, avail |-> af]
        <4>1. isr'.at = at
          BY <3>4
        <4>2. isr' \in IsrType
          BY <2>2, <3>1, <3>4 DEF IsrType
        <4>. QED  BY <3>1, <4>1, <4>2
      <3>. QED  BY <3>2, <3>3, <3>4
    <2>. QED  BY <1>1, <2>3 DEF DriverInv, DeviceKept, RingsKept, WatchKept, IsrKept, IsrType,
              ProgramKept, CallType, SendsOn, ReceivesOn, Publishing,
              uartVars, ringVars, watchVars, ghostVars
  <1>. QED  BY <1>3, <1>4

(* A byte of the host may reach the FIFO with the read of another.         *)
LEMMA ReadDataKeeps ==
    ASSUME DeviceKept, NEW late \in BOOLEAN, ReadData(late)
    PROVE  DeviceKept' /\ UNCHANGED <<ien_AE, ien_AF>>
  <1>1. /\ UNCHANGED <<wfifo, ien_AE, ien_AF, hostGot>> /\ pause_irq' = FALSE
    BY DEF ReadData
  <1>. DEFINE rest == IF rfifo = << >> THEN rfifo ELSE Tail(rfifo)
  <1>2. rest \in Seq(Byte) /\ Len(rest) <= RDEPTH
    <2>1. CASE rfifo = << >>
      BY <2>1 DEF DeviceKept
    <2>2. CASE rfifo # << >>
      <3>1. Tail(rfifo) \in Seq(Byte) /\ Len(Tail(rfifo)) = Len(rfifo) - 1
        BY <2>2 DEF DeviceKept
      <3>. QED  BY <2>2, <3>1, Sizes, SMT DEF DeviceKept
    <2>. QED  BY <2>1, <2>2
  <1>3. \/ rfifo' = rest /\ hostSent' = hostSent /\ ac' = ac
        \/ /\ Len(rest) < RDEPTH /\ rfifo' = Append(rest, hostSent) /\ ac' = TRUE
           /\ hostSent' = (hostSent + 1) % MODULUS
    BY DEF ReadData, Arrives
  <1>. HIDE DEF rest
  <1>4. (hostSent + 1) % MODULUS \in Byte
    <2>1. hostSent + 1 \in Nat
      BY Sizes, SMT DEF DeviceKept, Byte
    <2>. QED  BY <2>1, Sizes, Modulo DEF Byte
  <1>5. /\ rfifo' \in Seq(Byte) /\ Len(rfifo') <= RDEPTH /\ hostSent' \in Byte
        /\ ac' \in BOOLEAN
    <2>1. hostSent \in Byte /\ ac \in BOOLEAN
      BY DEF DeviceKept
    <2>2. Len(rest) < RDEPTH => /\ Append(rest, hostSent) \in Seq(Byte)
                                /\ Len(Append(rest, hostSent)) <= RDEPTH
      BY <1>2, <2>1, Sizes, SMT
    <2>. QED  BY <1>2, <1>3, <1>4, <2>1, <2>2
  <1>. QED  BY <1>1, <1>5 DEF DeviceKept

LEMMA ReceiveInv == ASSUME DriverInv, Receive PROVE DriverInv'
  <1>1. /\ isr.at = "receive" /\ ~RxFull
        /\ UNCHANGED <<tx_buf, tx_in, tx_out, rx_out, watchVars, txGiven, rxTaken, pc, call>>
        /\ IF rfifo = << >>
           THEN /\ isr' = [isr EXCEPT !.at = "received", !.avail = rfifo' # << >>]
                /\ UNCHANGED <<rx_buf, rx_in>>
           ELSE /\ isr' = [isr EXCEPT !.avail = rfifo' # << >>]
                /\ rx_buf' = [rx_buf EXCEPT ![rx_in] = Head(rfifo)]
                /\ rx_in' = (rx_in + 1) % BUF_LEN
    BY DEF Receive
  <1>2. RingsKept /\ ProgramKept /\ DeviceKept /\ WatchKept /\ IsrKept /\ SendsOn /\ ReceivesOn
    BY DEF DriverInv
  <1>3. \E late \in BOOLEAN : ReadData(late)
    BY DEF Receive
  <1>4. DeviceKept' /\ UNCHANGED <<ien_AE, ien_AF>>
    BY <1>2, <1>3, ReadDataKeeps
  <1>5. workload' \in Workload
    BY <1>2, SpendKeeps DEF Receive, ProgramKept
  <1>6. ProgramKept'
    BY <1>1, <1>2, <1>5 DEF ProgramKept, CallType
  <1>. DEFINE more == rfifo' # << >>
  <1>7. CASE rfifo = << >>
    <2>1. rx_in # rx_out
      BY <1>1, <1>2, <1>7 DEF IsrKept
    <2>2. /\ isr' = [isr EXCEPT !.at = "received", !.avail = more]
          /\ UNCHANGED <<rx_buf, rx_in>> /\ more \in BOOLEAN
      BY <1>1, <1>7
    <2>. HIDE DEF more
    <2>3. IsrKept'
      BY <1>1, <1>2, <2>1, <2>2 DEF IsrKept, IsrAt
    <2>4. RingsKept' /\ WatchKept' /\ SendsOn' /\ ReceivesOn'
      BY <1>1, <1>2, <1>4, <2>1, <2>2 DEF RingsKept, WatchKept, SendsOn, ReceivesOn, Publishing,
         watchVars
    <2>. QED  BY <1>4, <1>6, <2>3, <2>4 DEF DriverInv
  <1>8. CASE rfifo # << >>
    <2>1. /\ isr' = [isr EXCEPT !.avail = more] /\ more \in BOOLEAN
          /\ rx_buf' = [rx_buf EXCEPT ![rx_in] = Head(rfifo)]
          /\ rx_in' = (rx_in + 1) % BUF_LEN /\ rx_out' = rx_out
      BY <1>1, <1>8
    <2>. HIDE DEF more
    <2>2. rx_in' \in Index /\ rx_in' # rx_out'
      BY <1>1, <1>2, <2>1, NextIndex DEF RxFull, RingsKept
    <2>3. Head(rfifo) \in Byte
      BY <1>2, <1>8 DEF DeviceKept
    <2>4. IsrKept'
      BY <1>1, <1>2, <2>1, <2>2 DEF IsrKept, IsrAt
    <2>5. RingsKept'
      BY <1>1, <1>2, <2>1, <2>2, <2>3 DEF RingsKept
    <2>6. WatchKept' /\ SendsOn' /\ ReceivesOn'
      BY <1>1, <1>2, <1>4, <2>2 DEF WatchKept, SendsOn, ReceivesOn, Publishing, watchVars
    <2>. QED  BY <1>4, <1>6, <2>4, <2>5, <2>6 DEF DriverInv
  <1>. QED  BY <1>7, <1>8

(* Turning the read interrupt off leaves bytes for the next read.          *)
LEMMA ReceiveEndInv == ASSUME DriverInv, ReceiveEnd PROVE DriverInv'
  <1>1. /\ isr.at = "received" \/ (isr.at = "receive" /\ RxFull)
        /\ isr' = AfterReceive
        /\ UNCHANGED <<ringVars, host_inactive, timeout, ghostVars, pc, call>>
    BY DEF ReceiveEnd
  <1>2. RingsKept /\ ProgramKept /\ DeviceKept /\ WatchKept /\ IsrKept /\ SendsOn /\ ReceivesOn
    BY DEF DriverInv
  <1>3. rx_in # rx_out
    <2>1. (rx_in + 1) % BUF_LEN # rx_in
      <3>1. CASE rx_in + 1 < BUF_LEN
        BY <1>2, <3>1, Sizes, SMT DEF RingsKept, Index
      <3>2. CASE rx_in + 1 = BUF_LEN
        BY <1>2, <3>2, Sizes, SMT DEF RingsKept, Index
      <3>. QED  BY <1>2, <3>1, <3>2, Sizes, SMT DEF RingsKept, Index
    <2>. QED  BY <1>1, <1>2, <2>1 DEF IsrKept, RxFull
  <1>4. IsrKept'
    <2>. DEFINE at == IF isr.wi THEN "send" ELSE "control"
    <2>1. at \in IsrAt /\ at # "receive" /\ at # "received"
      BY DEF IsrAt
    <2>2. isr' = [isr EXCEPT !.at = at, !.avail = FALSE]
      BY <1>1 DEF AfterReceive
    <2>. HIDE DEF at
    <2>. QED  BY <1>2, <2>1, <2>2 DEF IsrKept
  <1>5. RingsKept' /\ ProgramKept'
    BY <1>1, <1>2 DEF RingsKept, ProgramKept, CallType, ringVars, ghostVars
  <1>6. DeviceKept' /\ WatchKept' /\ SendsOn' /\ ReceivesOn'
    <2>1. CASE isr.avail
      <3>. DEFINE e == [irq_enable EXCEPT !.RE = FALSE]
      <3>1. SetEnable(e, FALSE)
        BY <2>1 DEF ReceiveEnd
      <3>2. e \in [RE : BOOLEAN, WE : BOOLEAN] /\ e.RE = FALSE /\ e.WE = ien_AE
        <4>1. /\ irq_enable \in [RE : BOOLEAN, WE : BOOLEAN]
              /\ irq_enable.RE = ien_AF /\ irq_enable.WE = ien_AE
          BY <1>2 DEF WatchKept, DeviceKept
        <4>. QED  BY <4>1
      <3>. HIDE DEF e
      <3>3. /\ DeviceKept' /\ ien_AE' = ien_AE
            /\ irq_enable' = [RE |-> ien_AF', WE |-> ien_AE']
        BY <3>1, <3>2, EnableDevice
      <3>. QED  BY <1>1, <1>2, <1>3, <3>3 DEF WatchKept, SendsOn, ReceivesOn, Publishing, ringVars
    <2>2. CASE ~isr.avail
      BY <1>1, <1>2, <2>2 DEF ReceiveEnd, DeviceKept, WatchKept, SendsOn, ReceivesOn,
         Publishing, uartVars, ringVars
    <2>. QED  BY <2>1, <2>2
  <1>. QED  BY <1>4, <1>5, <1>6 DEF DriverInv

LEMMA SendInv == ASSUME DriverInv, Send PROVE DriverInv'
  <1>1. /\ isr.at = "send" /\ isr.space > 0 /\ tx_out # tx_in
        /\ WriteData(tx_buf[tx_out])
        /\ tx_out' = (tx_out + 1) % BUF_LEN
        /\ isr' = [isr EXCEPT !.space = isr.space - 1]
        /\ UNCHANGED <<tx_buf, tx_in, rx_buf, rx_in, rx_out, watchVars, ghostVars, pc, call>>
    BY DEF Send
  <1>2. RingsKept /\ ProgramKept /\ DeviceKept /\ WatchKept /\ IsrKept /\ SendsOn /\ ReceivesOn
    BY DEF DriverInv
  <1>3. tx_out' \in Index /\ tx_buf[tx_out] \in Byte
    BY <1>1, <1>2, NextIndex DEF RingsKept
  <1>4. DeviceKept' /\ UNCHANGED <<ien_AE, ien_AF>>
    <2>1. /\ wfifo' = IF Len(wfifo) < WDEPTH THEN Append(wfifo, tx_buf[tx_out]) ELSE wfifo
          /\ UNCHANGED <<rfifo, ien_AE, ien_AF, pause_irq, ac, hostSent, hostGot>>
      BY <1>1 DEF WriteData
    <2>2. wfifo' \in Seq(Byte) /\ Len(wfifo') <= WDEPTH
      BY <1>2, <1>3, <2>1, Sizes, SMT DEF DeviceKept
    <2>. QED  BY <1>2, <2>1, <2>2 DEF DeviceKept
  <1>5. RingsKept' /\ WatchKept' /\ ProgramKept'
    BY <1>1, <1>2, <1>3, <1>4 DEF RingsKept, WatchKept, ProgramKept, CallType, watchVars, ghostVars
  <1>6. IsrKept'
    <2>1. isr.space - 1 \in 0 .. WDEPTH
      BY <1>1, <1>2, Sizes, SMT DEF IsrKept
    <2>. QED  BY <1>1, <1>2, <2>1 DEF IsrKept
  <1>7. SendsOn' /\ ReceivesOn'
    BY <1>1, <1>2, <1>4 DEF SendsOn, ReceivesOn, Publishing
  <1>. QED  BY <1>4, <1>5, <1>6, <1>7 DEF DriverInv

(* Turning the write interrupt off leaves the ring empty.                  *)
LEMMA SendEndInv == ASSUME DriverInv, SendEnd PROVE DriverInv'
  <1>1. /\ isr.at = "send" /\ (isr.space = 0 \/ tx_out = tx_in)
        /\ isr' = [NoIsr EXCEPT !.at = "control"]
        /\ UNCHANGED <<ringVars, host_inactive, timeout, ghostVars, pc, call>>
    BY DEF SendEnd
  <1>2. RingsKept /\ ProgramKept /\ DeviceKept /\ WatchKept /\ IsrKept /\ SendsOn /\ ReceivesOn
    BY DEF DriverInv
  <1>3. IsrKept'
    <2>1. isr' = [at |-> "control", ri |-> FALSE, wi |-> FALSE, space |-> 0, avail |-> FALSE]
      BY <1>1 DEF NoIsr
    <2>2. 0 \in 0 .. WDEPTH
      BY Sizes, SMT
    <2>. QED  BY <2>1, <2>2 DEF IsrKept, IsrAt
  <1>4. RingsKept' /\ ProgramKept'
    BY <1>1, <1>2 DEF RingsKept, ProgramKept, CallType, ringVars, ghostVars
  <1>5. DeviceKept' /\ WatchKept' /\ SendsOn' /\ ReceivesOn'
    <2>1. CASE isr.space > 0
      <3>. DEFINE e == [irq_enable EXCEPT !.WE = FALSE]
      <3>1. SetEnable(e, FALSE)
        BY <2>1 DEF SendEnd
      <3>2. e \in [RE : BOOLEAN, WE : BOOLEAN] /\ e.RE = ien_AF /\ e.WE = FALSE
        <4>1. /\ irq_enable \in [RE : BOOLEAN, WE : BOOLEAN]
              /\ irq_enable.RE = ien_AF /\ irq_enable.WE = ien_AE
          BY <1>2 DEF WatchKept, DeviceKept
        <4>. QED  BY <4>1
      <3>. HIDE DEF e
      <3>3. /\ DeviceKept' /\ ien_AF' = ien_AF
            /\ irq_enable' = [RE |-> ien_AF', WE |-> ien_AE']
        BY <3>1, <3>2, EnableDevice
      <3>4. tx_in = tx_out
        BY <1>1, <2>1, SMT
      <3>. QED  BY <1>1, <1>2, <3>3, <3>4 DEF WatchKept, SendsOn, ReceivesOn, ringVars
    <2>2. CASE ~(isr.space > 0)
      BY <1>1, <1>2, <2>2 DEF SendEnd, DeviceKept, WatchKept, SendsOn, ReceivesOn,
         Publishing, uartVars, ringVars
    <2>. QED  BY <2>1, <2>2
  <1>. QED  BY <1>3, <1>4, <1>5 DEF DriverInv
-----------------------------------------------------------------------------
(* The alarm and the host.                                                 *)
LEMMA SecondInv == ASSUME DriverInv, Second PROVE DriverInv'
  <1>1. UNCHANGED <<ringVars, timeout, ghostVars, pc, call, isr>>
    BY DEF Second
  <1>2. RingsKept /\ ProgramKept /\ DeviceKept /\ WatchKept /\ IsrKept /\ SendsOn /\ ReceivesOn
    BY DEF DriverInv
  <1>3. host_inactive' \in 0 .. INT_MAX - 2
    <2>1. CASE ac
      BY <2>1, Sizes, SMT DEF Second
    <2>2. CASE ~ac
      BY <1>2, <2>2, Sizes, SMT DEF Second, WatchKept
    <2>. QED  BY <2>1, <2>2
  <1>4. /\ DeviceKept' /\ UNCHANGED <<ien_AE, ien_AF, rfifo>>
        /\ irq_enable' = [RE |-> ien_AF', WE |-> ien_AE']
    <2>1. CASE ac
      <3>1. SetEnable(irq_enable, TRUE)
        BY <2>1 DEF Second
      <3>2. /\ irq_enable \in [RE : BOOLEAN, WE : BOOLEAN]
            /\ irq_enable.RE = ien_AF /\ irq_enable.WE = ien_AE
        BY <1>2 DEF WatchKept, DeviceKept
      <3>. QED  BY <3>1, <3>2, EnableDevice
    <2>2. CASE ~ac
      BY <1>2, <2>2 DEF Second, DeviceKept, WatchKept, uartVars
    <2>. QED  BY <2>1, <2>2
  <1>5. RingsKept' /\ WatchKept' /\ IsrKept'
    BY <1>1, <1>2, <1>3, <1>4 DEF RingsKept, WatchKept, IsrKept, ringVars, ghostVars
  <1>6. ProgramKept' /\ SendsOn' /\ ReceivesOn'
    BY <1>1, <1>2, <1>4 DEF ProgramKept, CallType, SendsOn, ReceivesOn, Publishing, ringVars,
       ghostVars
  <1>. QED  BY <1>4, <1>5, <1>6 DEF DriverInv

(* A byte that arrives finds room.                                         *)
LEMMA ArrivesKeeps ==
    ASSUME DeviceKept, HostSend
    PROVE  DeviceKept' /\ UNCHANGED <<ien_AE, ien_AF>> /\ rfifo' # << >>
  <1>1. /\ UNCHANGED <<wfifo, ien_AE, ien_AF, pause_irq, hostGot>>
        /\ Len(rfifo) < RDEPTH /\ hostSent' = (hostSent + 1) % MODULUS
        /\ rfifo' = Append(rfifo, hostSent) /\ ac' = TRUE
    BY DEF HostSend, Arrives
  <1>2. hostSent' \in Byte
    <2>1. hostSent + 1 \in Nat
      BY Sizes, SMT DEF DeviceKept, Byte
    <2>. QED  BY <1>1, <2>1, Sizes, Modulo DEF Byte
  <1>3. rfifo' \in Seq(Byte) /\ Len(rfifo') = Len(rfifo) + 1
    BY <1>1 DEF DeviceKept
  <1>4. rfifo' # << >> /\ Len(rfifo') <= RDEPTH
    BY <1>1, <1>3, Sizes, SMT DEF DeviceKept
  <1>. QED  BY <1>1, <1>2, <1>3, <1>4 DEF DeviceKept

LEMMA PollKeeps ==
    ASSUME DeviceKept, HostPoll
    PROVE  DeviceKept' /\ UNCHANGED <<ien_AE, ien_AF, rfifo>>
  <1>1. PICK k \in 0 .. Len(wfifo) : wfifo' = SubSeq(wfifo, k + 1, Len(wfifo))
    BY DEF HostPoll
  <1>2. /\ ac' = TRUE /\ pause_irq' = (pause_irq \/ rfifo # << >>)
        /\ UNCHANGED <<rfifo, ien_AE, ien_AF, hostSent>>
    BY DEF HostPoll
  <1>3. wfifo' \in Seq(Byte) /\ Len(wfifo') <= Len(wfifo)
    <2>1. wfifo \in Seq(Byte) /\ Len(wfifo) \in Nat
      BY DEF DeviceKept
    <2>2. k + 1 \in 1 .. Len(wfifo) + 1
      BY <1>1, <2>1, SMT
    <2>3. \A i \in k + 1 .. Len(wfifo) : wfifo[i] \in Byte
      BY <1>1, <2>1, SMT
    <2>4. /\ SubSeq(wfifo, k + 1, Len(wfifo)) \in Seq(Byte)
          /\ Len(SubSeq(wfifo, k + 1, Len(wfifo)))
                = IF k + 1 <= Len(wfifo) THEN Len(wfifo) - (k + 1) + 1 ELSE 0
      BY <1>1, <2>1, <2>2, <2>3, SubSeqProperties
    <2>. QED  BY <1>1, <2>1, <2>4, SMT
  <1>4. Len(wfifo') <= WDEPTH
    BY <1>3, Sizes, SMT DEF DeviceKept
  <1>. QED  BY <1>2, <1>3, <1>4 DEF DeviceKept

LEMMA HostInv == ASSUME DriverInv, Host PROVE DriverInv'
  <1>1. UNCHANGED <<ringVars, watchVars, txGiven, rxTaken, pc, call, isr>>
    BY DEF Host
  <1>2. RingsKept /\ ProgramKept /\ DeviceKept /\ WatchKept /\ IsrKept /\ SendsOn /\ ReceivesOn
    BY DEF DriverInv
  <1>3. /\ DeviceKept' /\ UNCHANGED <<ien_AE, ien_AF>> /\ workload' \in Workload
        /\ rfifo # << >> => rfifo' # << >>
    <2>1. CASE HostPoll /\ UNCHANGED workload
      BY <1>2, <2>1, PollKeeps DEF ProgramKept
    <2>2. CASE workload.sends /\ HostSend /\ Spend
      BY <1>2, <2>2, ArrivesKeeps, SpendKeeps DEF ProgramKept
    <2>. QED  BY <2>1, <2>2 DEF Host
  <1>4. RingsKept' /\ WatchKept' /\ IsrKept'
    BY <1>1, <1>2, <1>3 DEF RingsKept, WatchKept, IsrKept, ringVars, watchVars
  <1>5. ProgramKept' /\ SendsOn' /\ ReceivesOn'
    BY <1>1, <1>2, <1>3 DEF ProgramKept, CallType, SendsOn, ReceivesOn, Publishing, ringVars
  <1>. QED  BY <1>3, <1>4, <1>5 DEF DriverInv
-----------------------------------------------------------------------------
LEMMA DriverStepInv == DriverInv /\ [DriverNext]_driverVars => DriverInv'
  <1>. SUFFICES ASSUME DriverInv, [DriverNext]_driverVars PROVE DriverInv'
    OBVIOUS
  <1>1. CASE Program
    <2>1. CASE QuietStep
      BY <2>1, QuietFrame, QuietProgram DEF DriverInv
    <2>2. CASE WriteCopy
      BY <2>2, WriteCopyInv
    <2>3. CASE WritePublish
      BY <2>3, WritePublishInv
    <2>4. CASE WriteEnable
      BY <2>4, WriteEnableInv
    <2>5. CASE ReadRelease
      BY <2>5, ReadReleaseInv
    <2>6. CASE ReadEnable
      BY <2>6, ReadEnableInv
    <2>7. CASE SetTimeout
      BY <2>7, SetTimeoutInv
    <2>. QED  BY <1>1, <2>1, <2>2, <2>3, <2>4, <2>5, <2>6, <2>7 DEF Program, QuietStep
  <1>2. CASE Interrupt
    BY <1>2, EnterInv
  <1>3. CASE Isr
    BY <1>3, EnterInv, ReceiveInv, ReceiveEndInv, SendInv, SendEndInv DEF Isr
  <1>4. CASE Second
    BY <1>4, SecondInv
  <1>5. CASE Host
    BY <1>5, HostInv
  <1>6. CASE UNCHANGED driverVars
    BY <1>6 DEF DriverInv, DeviceKept, RingsKept, WatchKept, IsrKept, ProgramKept, CallType,
       SendsOn, ReceivesOn, Publishing, driverVars, uartVars, ringVars, watchVars, ghostVars
  <1>. QED  BY <1>1, <1>2, <1>3, <1>4, <1>5, <1>6 DEF DriverNext

LEMMA DriverInvariant == DriverSpec => []DriverInv
  BY DriverInitInv, DriverStepInv, PTL DEF DriverSpec

(* The indices of the rings, the FIFOs, the count of idle seconds and the  *)
(* time to wait keep their ranges, a copy is shorter than a ring, and the  *)
(* program's and the interrupts' copy of the enables is the device's       *)
(* (init.c:105-225, write.c:84-216, read.c:101-203).                       *)
THEOREM DriverTypeCorrect == DriverSpec => []DriverType
  <1>1. DriverInv => DriverType
    <2>. SUFFICES ASSUME DriverInv PROVE DriverType
      OBVIOUS
    <2>1. RingsKept /\ ProgramKept /\ DeviceKept /\ WatchKept /\ IsrKept
      BY DEF DriverInv
    <2>2. call.n < BUF_LEN
      BY <2>1, Sizes, SMT DEF ProgramKept, CallType, Index
    <2>3. isr.space \in 0 .. WDEPTH
      BY <2>1 DEF IsrKept
    <2>. QED  BY <2>1, <2>2, <2>3 DEF DriverType, RingsKept, DeviceKept, WatchKept, Byte
  <1>. QED  BY <1>1, DriverInvariant, PTL

(* No byte is left lying: while there is one to send, the write interrupt  *)
(* is on or a write is about to turn it on; while the read interrupt is    *)
(* off, there is a byte for the next read, which turns it on (init.c:161,  *)
(* :187, write.c:135-139, read.c:188-195).                                 *)
THEOREM NoByteLeftLying == DriverSpec => []KeepsGoing
  <1>1. DriverInv => KeepsGoing
    <2>. SUFFICES ASSUME DriverInv PROVE KeepsGoing
      OBVIOUS
    <2>1. irq_enable.RE = ien_AF /\ irq_enable.WE = ien_AE
      BY DEF DriverInv, WatchKept
    <2>2. call.moved > 0 /\ pc \in {"read", "read_copy", "read_release", "read_enable"}
            => Releasing
      BY DEF DriverInv, ProgramKept, Releasing
    <2>. QED  BY <2>1, <2>2 DEF DriverInv, SendsOn, ReceivesOn, KeepsGoing
  <1>. QED  BY <1>1, DriverInvariant, PTL
-----------------------------------------------------------------------------
(* The driver implements CHANNEL in both directions.  The invariant says   *)
(* what the bytes inside are: consecutive numbers, from the one that comes *)
(* out next to the one that was put in last.  A call copies while          *)
(* interrupts move the other end of its ring, so the invariant also says,  *)
(* of a copy that is not yet published or released, that it lies outside   *)
(* the bytes the interrupt routine takes, or within those it leaves alone. *)

(* Remainders.                                                             *)
LEMMA Division ==
    ASSUME NEW n \in Nat, n > 0, NEW x \in Nat
    PROVE  (x % n) \in 0 .. n - 1 /\ \E q \in Nat : x = n * q + (x % n)
  BY SMT

LEMMA Remainder ==
    ASSUME NEW n \in Nat, n > 0, NEW x \in Nat, NEW q \in Nat, NEW r \in 0 .. n - 1,
           x = n * q + r
    PROVE  x % n = r
  BY SMT

LEMMA AddModulo ==
    ASSUME NEW n \in Nat, n > 0, NEW a \in Nat, NEW b \in Nat
    PROVE  ((a % n) + b) % n = (a + b) % n
  <1>. DEFINE ra == a % n
             r == (ra + b) % n
  <1>1. ra \in 0 .. n - 1 /\ \E p \in Nat : a = n * p + ra
    BY Division
  <1>2. PICK p \in Nat : a = n * p + ra
    BY <1>1
  <1>3. ra + b \in Nat
    BY <1>1, SMT
  <1>4. r \in 0 .. n - 1 /\ \E q \in Nat : ra + b = n * q + r
    <2>. HIDE DEF ra
    <2>. QED  BY <1>3, Division
  <1>5. PICK q \in Nat : ra + b = n * q + r
    BY <1>4
  <1>6. a + b = n * (p + q) + r /\ p + q \in Nat /\ a + b \in Nat
    <2>. HIDE DEF ra, r
    <2>. QED  BY <1>1, <1>2, <1>4, <1>5, SMT
  <1>7. (a + b) % n = r
    <2>. HIDE DEF r
    <2>1. \A x, k \in Nat : x = n * k + r => x % n = r
      BY <1>4, Remainder
    <2>. QED  BY <1>6, <2>1
  <1>. QED  BY <1>7

LEMMA Wraps ==
    ASSUME NEW x \in Nat, x < 2 * BUF_LEN
    PROVE  x % BUF_LEN = IF x < BUF_LEN THEN x ELSE x - BUF_LEN
  <1>1. CASE x < BUF_LEN
    BY <1>1, Sizes, SMT
  <1>2. CASE ~(x < BUF_LEN)
    BY <1>2, Sizes, SMT
  <1>. QED  BY <1>1, <1>2

-----------------------------------------------------------------------------
(* Sequences of consecutive numbers.                                       *)
Numbered(first, k) == [i \in 1 .. k |-> (first + i - 1) % MODULUS]
Consecutive(q, first, next) ==
    /\ first \in Byte
    /\ \A i \in 1 .. Len(q) : q[i] = (first + i - 1) % MODULUS
    /\ next = (first + Len(q)) % MODULUS

LEMMA Number ==
    ASSUME NEW first \in Nat, NEW k \in Nat
    PROVE  /\ (first + k) % MODULUS \in Byte
           /\ \A j \in Nat : (((first + k) % MODULUS) + j) % MODULUS = (first + k + j) % MODULUS
  <1>1. first + k \in Nat
    BY SMT
  <1>. QED  BY <1>1, Sizes, Modulo, AddModulo DEF Byte

LEMMA NumberedSeq ==
    ASSUME NEW first \in Byte, NEW k \in Nat
    PROVE  /\ Numbered(first, k) \in Seq(Byte) /\ Len(Numbered(first, k)) = k
           /\ \A i \in 1 .. k : Numbered(first, k)[i] = (first + i - 1) % MODULUS
  <1>1. first \in Nat
    BY Sizes, SMT DEF Byte
  <1>2. ASSUME NEW i \in 1 .. k PROVE (first + i - 1) % MODULUS \in Byte
    <2>1. first + i - 1 \in Nat
      BY <1>1, SMT
    <2>. QED  BY <2>1, Sizes, Modulo DEF Byte
  <1>3. Numbered(first, k) \in [1 .. k -> Byte]
    BY <1>2 DEF Numbered
  <1>. QED  BY <1>3, SeqDef DEF Numbered

(* Numbers that follow make the sequence longer.                           *)
LEMMA PutNumbers ==
    ASSUME NEW q \in Seq(Byte), NEW first, NEW next, Consecutive(q, first, next), NEW k \in Nat
    PROVE  /\ next \in Byte
           /\ q \o Numbered(next, k) \in Seq(Byte)
           /\ Len(q \o Numbered(next, k)) = Len(q) + k
           /\ Consecutive(q \o Numbered(next, k), first, (next + k) % MODULUS)
  <1>. DEFINE r == q \o Numbered(next, k)
  <1>1. first \in Byte /\ first \in Nat /\ Len(q) \in Nat /\ next = (first + Len(q)) % MODULUS
    BY Sizes, SMT DEF Byte, Consecutive
  <1>2. next \in Byte /\ \A j \in Nat : (next + j) % MODULUS = (first + Len(q) + j) % MODULUS
    BY <1>1, Number
  <1>3. /\ Numbered(next, k) \in Seq(Byte) /\ Len(Numbered(next, k)) = k
        /\ \A i \in 1 .. k : Numbered(next, k)[i] = (next + i - 1) % MODULUS
    BY <1>2, NumberedSeq
  <1>4. /\ r \in Seq(Byte) /\ Len(r) = Len(q) + k
        /\ \A i \in 1 .. Len(q) + k :
              r[i] = IF i <= Len(q) THEN q[i] ELSE Numbered(next, k)[i - Len(q)]
    BY <1>3, ConcatProperties
  <1>. HIDE DEF r
  <1>5. ASSUME NEW i \in 1 .. Len(r) PROVE r[i] = (first + i - 1) % MODULUS
    <2>1. CASE i <= Len(q)
      <3>1. i \in 1 .. Len(q) /\ i \in 1 .. Len(q) + k
        BY <1>1, <1>4, <2>1, SMT
      <3>. QED  BY <1>4, <2>1, <3>1 DEF Consecutive
    <2>2. CASE ~(i <= Len(q))
      <3>1. /\ i - Len(q) \in 1 .. k /\ i \in 1 .. Len(q) + k /\ i - Len(q) - 1 \in Nat
            /\ first + Len(q) + (i - Len(q) - 1) = first + i - 1
        BY <1>1, <1>4, <2>2, SMT
      <3>2. r[i] = (next + (i - Len(q)) - 1) % MODULUS
        BY <1>3, <1>4, <2>2, <3>1
      <3>3. next + (i - Len(q)) - 1 = next + (i - Len(q) - 1)
        BY <1>1, <1>2, Sizes, SMT DEF Byte
      <3>. QED  BY <1>2, <3>1, <3>2, <3>3
    <2>. QED  BY <2>1, <2>2
  <1>6. (next + k) % MODULUS = (first + Len(r)) % MODULUS
    <2>1. first + Len(q) + k = first + Len(r)
      BY <1>1, <1>4, SMT
    <2>. QED  BY <1>2, <2>1
  <1>7. Consecutive(r, first, (next + k) % MODULUS)
    BY <1>1, <1>5, <1>6 DEF Consecutive
  <1>. QED  BY <1>2, <1>4, <1>7 DEF r

(* What comes out of the front leaves the rest as it was.                  *)
LEMMA TakeNumbers ==
    ASSUME NEW q \in Seq(Byte), NEW first, NEW next, Consecutive(q, first, next),
           NEW k \in 0 .. Len(q)
    PROVE  /\ SubSeq(q, 1, k) = Numbered(first, k)
           /\ SubSeq(q, k + 1, Len(q)) \in Seq(Byte)
           /\ Consecutive(SubSeq(q, k + 1, Len(q)), (first + k) % MODULUS, next)
  <1>. DEFINE rest == SubSeq(q, k + 1, Len(q))
             start == SubSeq(q, 1, k)
  <1>1. /\ first \in Byte /\ first \in Nat /\ Len(q) \in Nat /\ k \in Nat /\ k <= Len(q)
        /\ next = (first + Len(q)) % MODULUS
    BY Sizes, SMT DEF Byte, Consecutive
  <1>2. /\ (first + k) % MODULUS \in Byte
        /\ \A j \in Nat : (((first + k) % MODULUS) + j) % MODULUS = (first + k + j) % MODULUS
    BY <1>1, Number
  <1>3. \A i \in 1 .. Len(q) : q[i] \in Byte
    BY ElementOfSeq
  <1>4. start = Numbered(first, k)
    <2>1. \A i \in 1 .. k : q[i] \in Byte
      BY <1>1, <1>3, SMT
    <2>2. /\ start \in Seq(Byte) /\ Len(start) = (IF 1 <= k THEN k - 1 + 1 ELSE 0)
          /\ \A i \in 1 .. k - 1 + 1 : start[i] = q[1 + i - 1]
      BY <1>1, <2>1, SubSeqProperties
    <2>3. Len(start) = k
      BY <1>1, <2>2, SMT
    <2>4. ASSUME NEW i \in 1 .. k PROVE start[i] = (first + i - 1) % MODULUS
      <3>1. i \in 1 .. k - 1 + 1 /\ 1 + i - 1 = i /\ i \in 1 .. Len(q)
        BY <1>1, SMT
      <3>. QED  BY <2>2, <3>1 DEF Consecutive
    <2>. HIDE DEF start
    <2>5. /\ Numbered(first, k) \in Seq(Byte) /\ Len(Numbered(first, k)) = k
          /\ \A i \in 1 .. k : Numbered(first, k)[i] = (first + i - 1) % MODULUS
      BY <1>1, NumberedSeq
    <2>. QED  BY <2>2, <2>3, <2>4, <2>5, SeqEqual
  <1>5. /\ rest \in Seq(Byte) /\ Len(rest) = Len(q) - k
        /\ \A i \in 1 .. Len(q) - k : rest[i] = q[k + i]
    <2>1. k + 1 \in Int /\ \A i \in k + 1 .. Len(q) : q[i] \in Byte
      BY <1>1, <1>3, SMT
    <2>2. /\ rest \in Seq(Byte)
          /\ Len(rest) = (IF k + 1 <= Len(q) THEN Len(q) - (k + 1) + 1 ELSE 0)
          /\ \A i \in 1 .. Len(q) - (k + 1) + 1 : rest[i] = q[k + 1 + i - 1]
      BY <1>1, <2>1, SubSeqProperties
    <2>. HIDE DEF rest
    <2>3. Len(rest) = Len(q) - k
      BY <1>1, <2>2, SMT
    <2>4. ASSUME NEW i \in 1 .. Len(q) - k PROVE rest[i] = q[k + i]
      <3>1. i \in 1 .. Len(q) - (k + 1) + 1 /\ k + 1 + i - 1 = k + i
        BY <1>1, SMT
      <3>. QED  BY <2>2, <3>1
    <2>. QED  BY <2>2, <2>3, <2>4
  <1>. HIDE DEF rest, start
  <1>6. ASSUME NEW i \in 1 .. Len(rest)
        PROVE  rest[i] = (((first + k) % MODULUS) + i - 1) % MODULUS
    <2>1. /\ i \in 1 .. Len(q) - k /\ k + i \in 1 .. Len(q) /\ i - 1 \in Nat
          /\ first + (k + i) - 1 = first + k + (i - 1)
      BY <1>1, <1>5, SMT
    <2>2. rest[i] = (first + k + (i - 1)) % MODULUS
      BY <1>5, <2>1 DEF Consecutive
    <2>3. ((first + k) % MODULUS) + i - 1 = ((first + k) % MODULUS) + (i - 1)
      <3>1. \A x \in Byte : x + i - 1 = x + (i - 1)
        BY Sizes, SMT DEF Byte
      <3>. QED  BY <1>2, <3>1
    <2>. QED  BY <1>2, <2>1, <2>2, <2>3
  <1>7. next = (((first + k) % MODULUS) + Len(rest)) % MODULUS
    <2>1. Len(rest) \in Nat /\ first + k + Len(rest) = first + Len(q)
      BY <1>1, <1>5, SMT
    <2>. QED  BY <1>1, <1>2, <2>1
  <1>. QED  BY <1>2, <1>4, <1>5, <1>6, <1>7 DEF Consecutive, rest, start
-----------------------------------------------------------------------------
(* The bytes of a ring: how many there are, and the place of each.         *)
Place(out, i) == IF out + i - 1 < BUF_LEN THEN out + i - 1 ELSE (out + i - 1) - BUF_LEN

LEMMA RingCount ==
    ASSUME NEW in \in Index, NEW out \in Index
    PROVE  /\ RingLen(in, out) = IF out <= in THEN in - out ELSE in + BUF_LEN - out
           /\ RingLen(in, out) \in Nat /\ RingLen(in, out) <= BUF_LEN - 1
  <1>0. in \in Nat /\ in < BUF_LEN /\ out \in Nat /\ out < BUF_LEN
    BY Sizes, SMT DEF Index
  <1>. DEFINE x == in + BUF_LEN - out
  <1>1. x \in Nat /\ x < 2 * BUF_LEN
    BY <1>0, Sizes, SMT
  <1>2. RingLen(in, out) = IF x < BUF_LEN THEN x ELSE x - BUF_LEN
    <2>1. RingLen(in, out) = x % BUF_LEN
      BY DEF RingLen
    <2>. HIDE DEF x
    <2>. QED  BY <1>1, <2>1, Wraps
  <1>. QED  BY <1>0, <1>2, Sizes, SMT

LEMMA RingSeq ==
    ASSUME NEW buf \in [Index -> Byte], NEW in \in Index, NEW out \in Index
    PROVE  /\ Ring(buf, in, out) \in Seq(Byte)
           /\ Len(Ring(buf, in, out)) = RingLen(in, out)
           /\ \A i \in 1 .. RingLen(in, out) :
                 Place(out, i) \in Index /\ Ring(buf, in, out)[i] = buf[Place(out, i)]
  <1>0. in \in Nat /\ in < BUF_LEN /\ out \in Nat /\ out < BUF_LEN
    BY Sizes, SMT DEF Index
  <1>1. RingLen(in, out) \in Nat /\ RingLen(in, out) <= BUF_LEN - 1
    BY RingCount
  <1>3. ASSUME NEW i \in 1 .. RingLen(in, out)
        PROVE  Place(out, i) \in Index /\ (out + i - 1) % BUF_LEN = Place(out, i)
    <2>. DEFINE x == out + i - 1
    <2>1. x \in Nat /\ x < 2 * BUF_LEN
      BY <1>0, <1>1, Sizes, SMT
    <2>2. Place(out, i) = IF x < BUF_LEN THEN x ELSE x - BUF_LEN
      BY DEF Place
    <2>. HIDE DEF x
    <2>3. x % BUF_LEN = Place(out, i)
      BY <2>1, <2>2, Wraps
    <2>4. x % BUF_LEN \in Index
      BY <2>1, Sizes, Modulo DEF Index
    <2>. QED  BY <2>3, <2>4 DEF x
  <1>4. Ring(buf, in, out) \in [1 .. RingLen(in, out) -> Byte]
    BY <1>3 DEF Ring
  <1>6. Ring(buf, in, out) \in Seq(Byte) /\ Len(Ring(buf, in, out)) = RingLen(in, out)
    BY <1>1, <1>4, SeqDef DEF Ring
  <1>. QED  BY <1>3, <1>6 DEF Ring

(* A place further on in a ring, not beyond its end.                       *)
LEMMA FurtherIndex ==
    ASSUME NEW i \in Index, NEW n \in Nat, i + n <= BUF_LEN
    PROVE  /\ (i + n) % BUF_LEN \in Index
           /\ (i + n) % BUF_LEN = IF i + n < BUF_LEN THEN i + n ELSE 0
  <1>. DEFINE x == i + n
  <1>1. x \in Nat /\ x < 2 * BUF_LEN /\ x <= BUF_LEN
    BY Sizes, SMT DEF Index
  <1>. HIDE DEF x
  <1>2. x % BUF_LEN \in Index
    BY <1>1, Sizes, Modulo DEF Index
  <1>3. x % BUF_LEN = IF x < BUF_LEN THEN x ELSE x - BUF_LEN
    BY <1>1, Wraps
  <1>4. ~(x < BUF_LEN) => x - BUF_LEN = 0
    BY <1>1, Sizes, SMT
  <1>. QED  BY <1>2, <1>3, <1>4 DEF x

(* What is written behind the newest byte is not in the ring.              *)
LEMMA RingUntouched ==
    ASSUME NEW buf \in [Index -> Byte], NEW buf2 \in [Index -> Byte],
           NEW in \in Index, NEW out \in Index, NEW n \in Nat,
           in + n <= BUF_LEN, RingLen(in, out) + n <= BUF_LEN - 1,
           \A i \in Index : ~(in <= i /\ i < in + n) => buf2[i] = buf[i]
    PROVE  Ring(buf2, in, out) = Ring(buf, in, out)
  <1>0. in \in Nat /\ in < BUF_LEN /\ out \in Nat /\ out < BUF_LEN
    BY Sizes, SMT DEF Index
  <1>1. RingLen(in, out) = IF out <= in THEN in - out ELSE in + BUF_LEN - out
    BY RingCount
  <1>2. ASSUME NEW i \in 1 .. RingLen(in, out)
        PROVE  Ring(buf2, in, out)[i] = Ring(buf, in, out)[i]
    <2>1. /\ Place(out, i) \in Index /\ Ring(buf, in, out)[i] = buf[Place(out, i)]
          /\ Ring(buf2, in, out)[i] = buf2[Place(out, i)]
      BY RingSeq
    <2>2. ~(in <= Place(out, i) /\ Place(out, i) < in + n)
      BY <1>0, <1>1, Sizes, SMT DEF Place
    <2>. QED  BY <2>1, <2>2
  <1>3. /\ Ring(buf, in, out) \in Seq(Byte) /\ Len(Ring(buf, in, out)) = RingLen(in, out)
        /\ Ring(buf2, in, out) \in Seq(Byte) /\ Len(Ring(buf2, in, out)) = RingLen(in, out)
    BY RingSeq
  <1>. QED  BY <1>2, <1>3, SeqEqual

(* Further bytes at the end of the ring.                                   *)
Further(i, n) == IF i + n < BUF_LEN THEN i + n ELSE 0
Holds(buf, at, s) == \A j \in 1 .. Len(s) : s[j] = buf[at + j - 1]

LEMMA RingGrows ==
    ASSUME NEW buf \in [Index -> Byte], NEW in \in Index, NEW out \in Index, NEW n \in Nat,
           NEW in2 \in Index, in2 = Further(in, n),
           in + n <= BUF_LEN, RingLen(in, out) + n <= BUF_LEN - 1,
           NEW new \in Seq(Byte), Len(new) = n, Holds(buf, in, new)
    PROVE  /\ Ring(buf, in2, out) = Ring(buf, in, out) \o new
           /\ RingLen(in2, out) = RingLen(in, out) + n
  <1>0. /\ in \in Nat /\ in < BUF_LEN /\ out \in Nat /\ out < BUF_LEN /\ in2 \in Nat
        /\ BUF_LEN \in Nat /\ in2 = IF in + n < BUF_LEN THEN in + n ELSE 0
    BY Sizes, SMT DEF Index, Further
  <1>9. \A j \in 1 .. n : new[j] = buf[in + j - 1]
    BY DEF Holds
  <1>1. RingLen(in, out) = IF out <= in THEN in - out ELSE in + BUF_LEN - out
    BY RingCount, <1>0
  <1>2. RingLen(in2, out) = IF out <= in2 THEN in2 - out ELSE in2 + BUF_LEN - out
    BY RingCount, <1>0
  <1>3. Ring(buf, in, out) \in Seq(Byte) /\ Len(Ring(buf, in, out)) = RingLen(in, out)
    BY RingSeq, <1>0
  <1>4. Ring(buf, in2, out) \in Seq(Byte) /\ Len(Ring(buf, in2, out)) = RingLen(in2, out)
    BY RingSeq, <1>0
  <1>5. RingLen(in2, out) = RingLen(in, out) + n
    BY <1>0, <1>1, <1>2, Sizes, SMT
  <1>. DEFINE r == Ring(buf, in, out)
             s == r \o new
             k == RingLen(in, out)
  <1>6. /\ s \in Seq(Byte) /\ Len(s) = k + n
        /\ \A i \in 1 .. k + n : s[i] = IF i <= k THEN r[i] ELSE new[i - k]
    <2>. HIDE DEF r, k
    <2>1. r \in Seq(Byte) /\ Len(r) = k
      BY <1>3 DEF r, k
    <2>2. /\ r \o new \in Seq(Byte) /\ Len(r \o new) = Len(r) + Len(new)
          /\ \A i \in 1 .. Len(r) + Len(new) :
                (r \o new)[i] = IF i <= Len(r) THEN r[i] ELSE new[i - Len(r)]
      BY <2>1, ConcatProperties
    <2>. QED  BY <2>1, <2>2
  <1>7. ASSUME NEW i \in 1 .. RingLen(in2, out)
        PROVE  Ring(buf, in2, out)[i] = s[i]
    <2>0. i \in 1 .. k + n
      BY <1>5
    <2>1. Ring(buf, in2, out)[i] = buf[Place(out, i)]
      BY RingSeq, <1>0
    <2>2. CASE i <= k
      <3>1. i \in 1 .. k
        BY <1>0, <1>1, <2>2, Sizes, SMT
      <3>2. r[i] = buf[Place(out, i)]
        BY <3>1, <1>0, RingSeq
      <3>. HIDE DEF r, s, k
      <3>. QED  BY <1>6, <2>0, <2>1, <2>2, <3>2
    <2>3. CASE ~(i <= k)
      <3>1. i - k \in 1 .. n /\ Place(out, i) = in + (i - k) - 1
        BY <1>0, <1>1, <1>5, <2>3, Sizes, SMT DEF Place
      <3>. HIDE DEF r, s, k
      <3>2. new[i - k] = buf[Place(out, i)]
        BY <1>9, <3>1
      <3>. QED  BY <1>6, <2>0, <2>1, <2>3, <3>2
    <2>. QED  BY <2>2, <2>3
  <1>8. Ring(buf, in2, out) = s
    <2>. HIDE DEF s
    <2>. QED  BY <1>4, <1>5, <1>6, <1>7, SeqEqual
  <1>. QED  BY <1>5, <1>8

(* Bytes taken from the front of the ring.                                 *)
LEMMA RingShrinks ==
    ASSUME NEW buf \in [Index -> Byte], NEW in \in Index, NEW out \in Index, NEW n \in Nat,
           NEW out2 \in Index, out2 = Further(out, n),
           out + n <= BUF_LEN, n <= RingLen(in, out),
           NEW old \in Seq(Byte), Len(old) = n, Holds(buf, out, old)
    PROVE  /\ Ring(buf, in, out) = old \o Ring(buf, in, out2)
           /\ RingLen(in, out2) = RingLen(in, out) - n
  <1>0. /\ in \in Nat /\ in < BUF_LEN /\ out \in Nat /\ out < BUF_LEN /\ out2 \in Nat
        /\ BUF_LEN \in Nat /\ out2 = IF out + n < BUF_LEN THEN out + n ELSE 0
    BY Sizes, SMT DEF Index, Further
  <1>9. \A j \in 1 .. n : old[j] = buf[out + j - 1]
    BY DEF Holds
  <1>1. RingLen(in, out) = IF out <= in THEN in - out ELSE in + BUF_LEN - out
    BY RingCount, <1>0
  <1>2. /\ RingLen(in, out2) = IF out2 <= in THEN in - out2 ELSE in + BUF_LEN - out2
        /\ RingLen(in, out2) \in Nat
    BY RingCount, <1>0
  <1>3. Ring(buf, in, out) \in Seq(Byte) /\ Len(Ring(buf, in, out)) = RingLen(in, out)
    BY RingSeq, <1>0
  <1>4. Ring(buf, in, out2) \in Seq(Byte) /\ Len(Ring(buf, in, out2)) = RingLen(in, out2)
    BY RingSeq, <1>0
  <1>5. RingLen(in, out2) = RingLen(in, out) - n
    BY <1>0, <1>1, <1>2, Sizes, SMT
  <1>. DEFINE r == Ring(buf, in, out2)
             s == old \o r
             k == RingLen(in, out2)
  <1>6. /\ s \in Seq(Byte) /\ Len(s) = n + k
        /\ \A i \in 1 .. n + k : s[i] = IF i <= n THEN old[i] ELSE r[i - n]
    <2>. HIDE DEF r, k
    <2>1. r \in Seq(Byte) /\ Len(r) = k
      BY <1>4 DEF r, k
    <2>2. /\ old \o r \in Seq(Byte) /\ Len(old \o r) = Len(old) + Len(r)
          /\ \A i \in 1 .. Len(old) + Len(r) :
                (old \o r)[i] = IF i <= Len(old) THEN old[i] ELSE r[i - Len(old)]
      BY <2>1, ConcatProperties
    <2>. QED  BY <2>1, <2>2
  <1>7. RingLen(in, out) = n + k
    BY <1>0, <1>1, <1>2, <1>5, Sizes, SMT
  <1>8. ASSUME NEW i \in 1 .. RingLen(in, out)
        PROVE  Ring(buf, in, out)[i] = s[i]
    <2>0. i \in 1 .. n + k
      BY <1>7
    <2>1. Ring(buf, in, out)[i] = buf[Place(out, i)]
      BY RingSeq, <1>0
    <2>2. CASE i <= n
      <3>1. i \in 1 .. n /\ Place(out, i) = out + i - 1
        BY <1>0, <2>2, Sizes, SMT DEF Place
      <3>. HIDE DEF r, s, k
      <3>2. old[i] = buf[Place(out, i)]
        BY <1>9, <3>1
      <3>. QED  BY <1>6, <2>0, <2>1, <2>2, <3>2
    <2>3. CASE ~(i <= n)
      <3>1. i - n \in 1 .. k /\ Place(out2, i - n) = Place(out, i)
        BY <1>0, <1>1, <1>2, <1>5, <2>3, Sizes, SMT DEF Place
      <3>2. r[i - n] = buf[Place(out2, i - n)]
        BY <3>1, <1>0, RingSeq
      <3>. HIDE DEF r, s, k
      <3>. QED  BY <1>6, <2>0, <2>1, <2>3, <3>1, <3>2
    <2>. QED  BY <2>2, <2>3
  <1>10. Ring(buf, in, out) = s
    <2>. HIDE DEF s
    <2>. QED  BY <1>3, <1>6, <1>7, <1>8, SeqEqual
  <1>. QED  BY <1>5, <1>10
-----------------------------------------------------------------------------
(* The invariant of the two directions.                                    *)
TxRing == Ring(tx_buf, tx_in, tx_out)
RxRing == Ring(rx_buf, rx_in, rx_out)
TxLine == wfifo \o TxRing
RxLine == RxRing \o rfifo

TxNumbers == Consecutive(TxLine, hostGot, txGiven)
RxNumbers == Consecutive(RxLine, rxTaken, hostSent)

(* The routine sends no more than the FIFO had room for when it looked.    *)
SpaceKept ==
    isr.at \in {"receive", "received", "send"} => isr.space + Len(wfifo) <= WDEPTH

(* A copy in progress: its place, and its bytes once they are there.       *)
WriteKept ==
    /\ pc \in {"write_copy", "write_publish"} =>
          /\ tx_in + call.n <= BUF_LEN
          /\ RingLen(tx_in, tx_out) + call.n <= BUF_LEN - 1
    /\ pc = "write_publish" =>
          \A j \in 1 .. call.n : tx_buf[tx_in + j - 1] = (txGiven + j - 1) % MODULUS
ReadKept ==
    /\ pc \in {"read_copy", "read_release"} =>
          rx_out + call.n <= BUF_LEN /\ call.n <= RingLen(rx_in, rx_out)
    /\ pc = "read_release" =>
          call.chunk = [i \in 1 .. call.n |-> rx_buf[rx_out + i - 1]]

ChannelInv == DriverInv /\ TxNumbers /\ RxNumbers /\ SpaceKept /\ WriteKept /\ ReadKept

(* What a step does to a line: bytes in, bytes out, or nothing.            *)
TxStep == TxNumbers' /\ (Tx!ChannelNext \/ UNCHANGED Tx!channelVars)
RxStep == RxNumbers' /\ (Rx!ChannelNext \/ UNCHANGED Rx!channelVars)

LEMMA Lines ==
    ASSUME NEW f \in Seq(Byte), NEW buf \in [Index -> Byte], NEW in \in Index, NEW out \in Index
    PROVE  /\ Ring(buf, in, out) \in Seq(Byte)
           /\ Len(Ring(buf, in, out)) = RingLen(in, out)
           /\ RingLen(in, out) \in Nat /\ RingLen(in, out) <= BUF_LEN - 1
           /\ f \o Ring(buf, in, out) \in Seq(Byte)
           /\ Len(f \o Ring(buf, in, out)) = Len(f) + RingLen(in, out)
           /\ Ring(buf, in, out) \o f \in Seq(Byte)
           /\ Len(Ring(buf, in, out) \o f) = RingLen(in, out) + Len(f)
  <1>1. Ring(buf, in, out) \in Seq(Byte) /\ Len(Ring(buf, in, out)) = RingLen(in, out)
    BY RingSeq
  <1>2. RingLen(in, out) \in Nat /\ RingLen(in, out) <= BUF_LEN - 1
    BY RingCount
  <1>3. /\ f \o Ring(buf, in, out) \in Seq(Byte)
        /\ Len(f \o Ring(buf, in, out)) = Len(f) + Len(Ring(buf, in, out))
    BY <1>1, ConcatProperties
  <1>4. /\ Ring(buf, in, out) \o f \in Seq(Byte)
        /\ Len(Ring(buf, in, out) \o f) = Len(Ring(buf, in, out)) + Len(f)
    BY <1>1, ConcatProperties
  <1>. QED  BY <1>1, <1>2, <1>3, <1>4

LEMMA LinesFit ==
    ASSUME DriverInv
    PROVE  /\ TxLine \in Seq(Byte) /\ Len(TxLine) \in Nat /\ Len(TxLine) <= BUF_LEN - 1 + WDEPTH
           /\ RxLine \in Seq(Byte) /\ Len(RxLine) \in Nat /\ Len(RxLine) <= BUF_LEN - 1 + RDEPTH
           /\ Len(TxLine) = Len(wfifo) + RingLen(tx_in, tx_out)
           /\ Len(RxLine) = RingLen(rx_in, rx_out) + Len(rfifo)
           /\ TxRing \in Seq(Byte) /\ Len(TxRing) = RingLen(tx_in, tx_out)
           /\ RxRing \in Seq(Byte) /\ Len(RxRing) = RingLen(rx_in, rx_out)
  <1>1. /\ wfifo \in Seq(Byte) /\ Len(wfifo) <= WDEPTH /\ Len(wfifo) \in Nat
        /\ rfifo \in Seq(Byte) /\ Len(rfifo) <= RDEPTH /\ Len(rfifo) \in Nat
    BY DEF DriverInv, DeviceKept
  <1>2. /\ tx_in \in Index /\ tx_out \in Index /\ rx_in \in Index /\ rx_out \in Index
        /\ tx_buf \in [Index -> Byte] /\ rx_buf \in [Index -> Byte]
    BY DEF DriverInv, RingsKept
  <1>3. /\ TxLine \in Seq(Byte) /\ Len(TxLine) = Len(wfifo) + RingLen(tx_in, tx_out)
        /\ RingLen(tx_in, tx_out) \in Nat /\ RingLen(tx_in, tx_out) <= BUF_LEN - 1
        /\ TxRing \in Seq(Byte) /\ Len(TxRing) = RingLen(tx_in, tx_out)
    <2>. USE <1>1, <1>2 DEF TxLine, TxRing
    <2>1. TxRing \in Seq(Byte) /\ Len(TxRing) = RingLen(tx_in, tx_out)
      BY RingSeq
    <2>2. RingLen(tx_in, tx_out) \in Nat /\ RingLen(tx_in, tx_out) <= BUF_LEN - 1
      BY RingCount
    <2>3. TxLine \in Seq(Byte) /\ Len(TxLine) = Len(wfifo) + RingLen(tx_in, tx_out)
      BY Lines
    <2>. QED  BY <2>1, <2>2, <2>3
  <1>4. /\ RxLine \in Seq(Byte) /\ Len(RxLine) = RingLen(rx_in, rx_out) + Len(rfifo)
        /\ RingLen(rx_in, rx_out) \in Nat /\ RingLen(rx_in, rx_out) <= BUF_LEN - 1
        /\ RxRing \in Seq(Byte) /\ Len(RxRing) = RingLen(rx_in, rx_out)
    <2>. USE <1>1, <1>2 DEF RxLine, RxRing
    <2>1. RxRing \in Seq(Byte) /\ Len(RxRing) = RingLen(rx_in, rx_out)
      BY RingSeq
    <2>2. RingLen(rx_in, rx_out) \in Nat /\ RingLen(rx_in, rx_out) <= BUF_LEN - 1
      BY RingCount
    <2>3. RxLine \in Seq(Byte) /\ Len(RxLine) = RingLen(rx_in, rx_out) + Len(rfifo)
      BY Lines
    <2>. QED  BY <2>1, <2>2, <2>3
  <1>5. /\ Len(TxLine) \in Nat /\ Len(TxLine) <= BUF_LEN - 1 + WDEPTH
        /\ Len(RxLine) \in Nat /\ Len(RxLine) <= BUF_LEN - 1 + RDEPTH
    BY <1>1, <1>3, <1>4, Sizes, SMT
  <1>. QED  BY <1>3, <1>4, <1>5

LEMMA TxStays ==
    ASSUME TxNumbers, TxLine' = TxLine, UNCHANGED <<txGiven, hostGot>>
    PROVE  TxStep
  BY DEF TxNumbers, Consecutive, TxStep, TxLine, TxRing, Tx!channelVars

LEMMA RxStays ==
    ASSUME RxNumbers, RxLine' = RxLine, UNCHANGED <<hostSent, rxTaken>>
    PROVE  RxStep
  BY DEF RxNumbers, Consecutive, RxStep, RxLine, RxRing, Rx!channelVars

LEMMA TxPuts ==
    ASSUME DriverInv, TxNumbers, NEW k \in Nat, k > 0,
           Len(TxLine) + k <= BUF_LEN - 1 + WDEPTH,
           TxLine' = TxLine \o Numbered(txGiven, k),
           txGiven' = (txGiven + k) % MODULUS, hostGot' = hostGot
    PROVE  TxStep
  <1>1. TxLine \in Seq(Byte) /\ Len(TxLine) \in Nat
    BY LinesFit
  <1>2. TxNumbers'
    BY <1>1, PutNumbers DEF TxNumbers
  <1>3. k \in 1 .. BUF_LEN - 1 + WDEPTH
    BY <1>1, Sizes, SMT
  <1>4. Tx!Put(k)
    BY DEF Tx!Put, Tx!Numbers, Numbered, TxLine, TxRing
  <1>. QED  BY <1>2, <1>3, <1>4 DEF TxStep, Tx!ChannelNext

LEMMA RxPuts ==
    ASSUME DriverInv, RxNumbers, Len(RxLine) + 1 <= BUF_LEN - 1 + RDEPTH,
           RxLine' = RxLine \o <<hostSent>>,
           hostSent' = (hostSent + 1) % MODULUS, rxTaken' = rxTaken
    PROVE  RxStep
  <1>1. RxLine \in Seq(Byte) /\ Len(RxLine) \in Nat
    BY LinesFit
  <1>2. <<hostSent>> = Numbered(hostSent, 1)
    <2>1. hostSent \in Nat /\ hostSent < MODULUS
      BY Sizes, SMT DEF DriverInv, DeviceKept, Byte
    <2>2. (hostSent + 1 - 1) % MODULUS = hostSent
      BY <2>1, Sizes, SMT
    <2>3. Numbered(hostSent, 1) = [i \in 1 .. 1 |-> hostSent]
      BY <2>2, SMT DEF Numbered
    <2>. QED  BY <2>3, SMT
  <1>3. RxNumbers'
    BY <1>1, <1>2, PutNumbers DEF RxNumbers
  <1>4. 1 \in 1 .. BUF_LEN - 1 + RDEPTH
    BY <1>1, Sizes, SMT
  <1>5. Rx!Put(1)
    BY <1>2 DEF Rx!Put, Rx!Numbers, Numbered, RxLine, RxRing
  <1>. QED  BY <1>3, <1>4, <1>5 DEF RxStep, Rx!ChannelNext

(* The front of a line, when it is taken out, is what was expected.        *)
LEMMA Front ==
    ASSUME NEW a \in Seq(Byte), NEW b \in Seq(Byte), NEW first, NEW next,
           Consecutive(a \o b, first, next)
    PROVE  /\ Following(first, a) = (first + Len(a)) % MODULUS
           /\ SubSeq(a \o b, Len(a) + 1, Len(a \o b)) = b
  <1>. DEFINE q == a \o b
  <1>1. /\ q \in Seq(Byte) /\ Len(q) = Len(a) + Len(b) /\ Len(a) \in Nat /\ Len(b) \in Nat
        /\ \A i \in 1 .. Len(a) + Len(b) : q[i] = IF i <= Len(a) THEN a[i] ELSE b[i - Len(a)]
    BY ConcatProperties
  <1>. HIDE DEF q
  <1>2. ASSUME NEW i \in DOMAIN a PROVE a[i] = (first + i - 1) % MODULUS
    <2>1. i \in 1 .. Len(a)
      BY LenProperties
    <2>2. i \in 1 .. Len(a) + Len(b) /\ i \in 1 .. Len(q) /\ i <= Len(a)
      BY <1>1, <2>1, SMT
    <2>3. q[i] = a[i]
      BY <1>1, <2>2
    <2>. QED  BY <2>2, <2>3 DEF Consecutive, q
  <1>3. Following(first, a) = (first + Len(a)) % MODULUS
    BY <1>2 DEF Following
  <1>4. SubSeq(q, Len(a) + 1, Len(q)) = b
    <2>. DEFINE r == SubSeq(q, Len(a) + 1, Len(q))
    <2>1. \A i \in Len(a) + 1 .. Len(q) : q[i] \in Byte
      <3>1. ASSUME NEW i \in Len(a) + 1 .. Len(q) PROVE i \in 1 .. Len(q)
        BY <1>1, SMT
      <3>. QED  BY <1>1, <3>1, ElementOfSeq
    <2>2. Len(a) + 1 \in Int /\ Len(q) \in Int
      BY <1>1, SMT
    <2>3. /\ r \in Seq(Byte)
          /\ Len(r) = (IF Len(a) + 1 <= Len(q) THEN Len(q) - (Len(a) + 1) + 1 ELSE 0)
          /\ \A i \in 1 .. Len(q) - (Len(a) + 1) + 1 : r[i] = q[Len(a) + 1 + i - 1]
      BY <2>1, <2>2, SubSeqProperties
    <2>. HIDE DEF r
    <2>4. Len(r) = Len(b)
      BY <1>1, <2>3, SMT
    <2>5. ASSUME NEW i \in 1 .. Len(b) PROVE r[i] = b[i]
      <3>1. /\ i \in 1 .. Len(q) - (Len(a) + 1) + 1
            /\ Len(a) + 1 + i - 1 \in 1 .. Len(a) + Len(b)
            /\ ~(Len(a) + 1 + i - 1 <= Len(a)) /\ (Len(a) + 1 + i - 1) - Len(a) = i
        BY <1>1, SMT
      <3>2. r[i] = q[Len(a) + 1 + i - 1]
        BY <2>3, <3>1
      <3>. QED  BY <1>1, <3>1, <3>2
    <2>6. r = b
      BY <2>3, <2>4, <2>5, SeqEqual
    <2>. QED  BY <2>6 DEF r
  <1>. QED  BY <1>3, <1>4 DEF q

LEMMA TxTakes ==
    ASSUME DriverInv, TxNumbers, NEW a \in Seq(Byte), Len(a) > 0,
           TxLine' \in Seq(Byte), TxLine = a \o TxLine',
           hostGot' = Following(hostGot, a), txGiven' = txGiven
    PROVE  TxStep
  <1>. DEFINE k == Len(a)
  <1>1. /\ TxLine \in Seq(Byte) /\ Len(TxLine) \in Nat
        /\ Len(TxLine) <= BUF_LEN - 1 + WDEPTH
    BY LinesFit
  <1>2. /\ TxLine' = SubSeq(TxLine, k + 1, Len(TxLine))
        /\ hostGot' = (hostGot + k) % MODULUS
    BY Front DEF TxNumbers
  <1>3. k \in Nat /\ k <= Len(TxLine)
    <2>1. Len(TxLine) = Len(a) + Len(TxLine') /\ Len(TxLine') \in Nat /\ Len(a) \in Nat
      BY ConcatProperties
    <2>. QED  BY <1>1, <2>1, SMT
  <1>4. k > 0
    OBVIOUS
  <1>. HIDE DEF k
  <1>5. k \in 1 .. BUF_LEN - 1 + WDEPTH /\ k \in 0 .. Len(TxLine)
    BY <1>1, <1>3, <1>4, Sizes, SMT
  <1>6. TxNumbers' /\ SubSeq(TxLine, 1, k) = Numbered(hostGot, k)
    <2>. DEFINE rest == SubSeq(TxLine, k + 1, Len(TxLine))
    <2>1. Consecutive(TxLine, hostGot, txGiven)
      BY DEF TxNumbers
    <2>2. /\ SubSeq(TxLine, 1, k) = Numbered(hostGot, k)
          /\ Consecutive(rest, (hostGot + k) % MODULUS, txGiven)
      BY <1>1, <1>5, <2>1, TakeNumbers
    <2>3. rest = TxLine'
      BY <1>2
    <2>. HIDE DEF rest
    <2>4. Consecutive(TxLine', hostGot', txGiven')
      BY <1>2, <2>2, <2>3
    <2>. QED  BY <2>2, <2>4 DEF TxNumbers, TxLine, TxRing, Consecutive
  <1>7. Tx!Take(k)
    BY <1>2, <1>3, <1>6 DEF Tx!Take, Tx!Numbers, Numbered, TxLine, TxRing
  <1>. QED  BY <1>5, <1>6, <1>7 DEF TxStep, Tx!ChannelNext

LEMMA RxTakes ==
    ASSUME DriverInv, RxNumbers, NEW a \in Seq(Byte), Len(a) > 0,
           RxLine' \in Seq(Byte), RxLine = a \o RxLine',
           rxTaken' = Following(rxTaken, a), hostSent' = hostSent
    PROVE  RxStep
  <1>. DEFINE k == Len(a)
  <1>1. /\ RxLine \in Seq(Byte) /\ Len(RxLine) \in Nat
        /\ Len(RxLine) <= BUF_LEN - 1 + RDEPTH
    BY LinesFit
  <1>2. /\ RxLine' = SubSeq(RxLine, k + 1, Len(RxLine))
        /\ rxTaken' = (rxTaken + k) % MODULUS
    BY Front DEF RxNumbers
  <1>3. k \in Nat /\ k <= Len(RxLine)
    <2>1. Len(RxLine) = Len(a) + Len(RxLine') /\ Len(RxLine') \in Nat /\ Len(a) \in Nat
      BY ConcatProperties
    <2>. QED  BY <1>1, <2>1, SMT
  <1>4. k > 0
    OBVIOUS
  <1>. HIDE DEF k
  <1>5. k \in 1 .. BUF_LEN - 1 + RDEPTH /\ k \in 0 .. Len(RxLine)
    BY <1>1, <1>3, <1>4, Sizes, SMT
  <1>6. RxNumbers' /\ SubSeq(RxLine, 1, k) = Numbered(rxTaken, k)
    <2>. DEFINE rest == SubSeq(RxLine, k + 1, Len(RxLine))
    <2>1. Consecutive(RxLine, rxTaken, hostSent)
      BY DEF RxNumbers
    <2>2. /\ SubSeq(RxLine, 1, k) = Numbered(rxTaken, k)
          /\ Consecutive(rest, (rxTaken + k) % MODULUS, hostSent)
      BY <1>1, <1>5, <2>1, TakeNumbers
    <2>3. rest = RxLine'
      BY <1>2
    <2>. HIDE DEF rest
    <2>4. Consecutive(RxLine', rxTaken', hostSent')
      BY <1>2, <2>2, <2>3
    <2>. QED  BY <2>2, <2>4 DEF RxNumbers, RxLine, RxRing, Consecutive
  <1>7. Rx!Take(k)
    BY <1>2, <1>3, <1>6 DEF Rx!Take, Rx!Numbers, Numbered, RxLine, RxRing
  <1>. QED  BY <1>5, <1>6, <1>7 DEF RxStep, Rx!ChannelNext
-----------------------------------------------------------------------------
(* The program's steps.                                                    *)
ChannelStep == TxStep /\ RxStep /\ SpaceKept' /\ WriteKept' /\ ReadKept'
Copying == {"write_copy", "write_publish", "read_copy", "read_release"}

LEMMA Regroup == \A a, b, c \in Seq(Byte) : (a \o b) \o c = a \o (b \o c)
  BY ConcatAssociative

LEMMA LinesStay ==
    ASSUME ChannelInv, UNCHANGED <<wfifo, rfifo, ringVars, hostSent, hostGot, txGiven, rxTaken>>
    PROVE  TxStep /\ RxStep
  <1>1. TxLine' = TxLine /\ RxLine' = RxLine
    BY DEF TxLine, RxLine, TxRing, RxRing, ringVars
  <1>. QED  BY <1>1, TxStays, RxStays DEF ChannelInv

(* What one copy may move: it ends with the array, leaves the place that   *)
(* tells a full ring from an empty one, and takes bytes that are there.    *)
LEMMA Roomy ==
    ASSUME NEW in \in Index, NEW out \in Index, NEW left \in Nat
    PROVE  /\ in + Smaller(TxRoom(in, out), left) <= BUF_LEN
           /\ RingLen(in, out) + Smaller(TxRoom(in, out), left) <= BUF_LEN - 1
           /\ out + Smaller(RxBytes(in, out), left) <= BUF_LEN
           /\ Smaller(RxBytes(in, out), left) <= RingLen(in, out)
  <1>0. in \in Nat /\ in < BUF_LEN /\ out \in Nat /\ out < BUF_LEN
    BY Sizes, SMT DEF Index
  <1>1. RingLen(in, out) = IF out <= in THEN in - out ELSE in + BUF_LEN - out
    BY RingCount
  <1>2. /\ in + Smaller(TxRoom(in, out), left) <= BUF_LEN
        /\ RingLen(in, out) + Smaller(TxRoom(in, out), left) <= BUF_LEN - 1
    BY <1>0, <1>1, Sizes, SMT DEF Smaller, TxRoom
  <1>3. /\ out + Smaller(RxBytes(in, out), left) <= BUF_LEN
        /\ Smaller(RxBytes(in, out), left) <= RingLen(in, out)
    BY <1>0, <1>1, Sizes, SMT DEF Smaller, RxBytes
  <1>. QED  BY <1>2, <1>3

(* Steps that copy nothing.                                                *)
PlainStep == StartCall \/ EndCall \/ WriteEnable \/ WriteSpin \/ WriteCheck \/ ReadSpin
             \/ ReadCheck \/ ReadEnable \/ Close \/ SetTimeout

LEMMA PlainKeeps == ASSUME ChannelInv, PlainStep PROVE ChannelStep
  <1>1. /\ UNCHANGED <<wfifo, rfifo, ringVars, hostSent, hostGot, txGiven, rxTaken, isr>>
        /\ isr.at = "off"
    BY DEF PlainStep, StartCall, EndCall, WriteEnable, WriteSpin, WriteCheck, ReadSpin,
           ReadCheck, ReadEnable, Close, SetTimeout, At, SetEnable, WriteControl,
           uartVars, ghostVars
  <1>2. pc' \notin Copying
    <2>1. CASE StartCall
      <3>1. PICK c \in workload.calls : pc' = c.op
        BY <2>1 DEF StartCall
      <3>2. c.op \in {"write", "read", "close", "ioctl"}
        BY DEF ChannelInv, DriverInv, ProgramKept, Workload, LibraryCall
      <3>. QED  BY <3>1, <3>2 DEF Copying
    <2>2. CASE ~StartCall
      <3>1. pc' \in {"idle", "return", "write_spin", "write_check", "write", "read_check", "read"}
        BY <2>2 DEF PlainStep, EndCall, WriteEnable, WriteSpin, WriteCheck, ReadSpin,
           ReadCheck, ReadEnable, Close, SetTimeout, Return
      <3>. QED  BY <3>1 DEF Copying
    <2>. QED  BY <2>1, <2>2
  <1>3. TxStep /\ RxStep
    BY <1>1, LinesStay
  <1>4. SpaceKept' /\ WriteKept' /\ ReadKept'
    BY <1>1, <1>2 DEF SpaceKept, WriteKept, ReadKept, Copying
  <1>. QED  BY <1>3, <1>4 DEF ChannelStep

LEMMA LookKeeps == ASSUME ChannelInv, WriteLook \/ ReadLook PROVE ChannelStep
  <1>1. /\ UNCHANGED <<wfifo, rfifo, ringVars, hostSent, hostGot, txGiven, rxTaken, isr>>
        /\ isr.at = "off"
    BY DEF WriteLook, ReadLook, At, uartVars, ghostVars
  <1>2. TxStep /\ RxStep /\ SpaceKept'
    BY <1>1, LinesStay DEF SpaceKept
  <1>3. /\ tx_in \in Index /\ tx_out \in Index /\ rx_in \in Index /\ rx_out \in Index
        /\ call.left \in Nat
        /\ call \in [op : {"none", "write", "read", "close", "ioctl"}, left : Nat,
              nonblock : BOOLEAN, moved : Nat, seen : Index, n : Index,
              chunk : {call.chunk}, result : {call.result}]
    BY DEF ChannelInv, DriverInv, RingsKept, ProgramKept, CallType
  <1>4. CASE WriteLook
    <2>. DEFINE n == Smaller(TxRoom(tx_in, tx_out), call.left)
    <2>1. /\ pc' \in {"write_enable", "write_copy"}
          /\ call' = [call EXCEPT !.seen = tx_out, !.n = n]
      BY <1>4 DEF WriteLook
    <2>2. tx_in + n <= BUF_LEN /\ RingLen(tx_in, tx_out) + n <= BUF_LEN - 1
      BY <1>3, Roomy
    <2>. HIDE DEF n
    <2>3. call'.n = n
      BY <1>3, <2>1
    <2>. QED  BY <1>1, <1>2, <2>1, <2>2, <2>3 DEF ChannelStep, WriteKept, ReadKept, ringVars
  <1>5. CASE ReadLook
    <2>. DEFINE n == Smaller(RxBytes(rx_in, rx_out), call.left)
    <2>1. /\ pc' \in {"read_copy", "read_enable", "return", "read_spin"}
          /\ pc' = "read_copy" => call' = [call EXCEPT !.seen = rx_in, !.n = n]
      BY <1>5 DEF ReadLook
    <2>2. rx_out + n <= BUF_LEN /\ n <= RingLen(rx_in, rx_out)
      BY <1>3, Roomy
    <2>. HIDE DEF n
    <2>3. pc' = "read_copy" => call'.n = n
      BY <1>3, <2>1
    <2>. QED  BY <1>1, <1>2, <2>1, <2>2, <2>3 DEF ChannelStep, WriteKept, ReadKept, ringVars
  <1>. QED  BY <1>4, <1>5

LEMMA ReadCopyKeeps == ASSUME ChannelInv, ReadCopy PROVE ChannelStep
  <1>1. /\ UNCHANGED <<wfifo, rfifo, ringVars, hostSent, hostGot, txGiven, rxTaken, isr>>
        /\ isr.at = "off" /\ pc = "read_copy" /\ pc' = "read_release"
    BY DEF ReadCopy, At, uartVars, ghostVars
  <1>2. TxStep /\ RxStep /\ SpaceKept' /\ WriteKept'
    BY <1>1, LinesStay DEF SpaceKept, WriteKept
  <1>. DEFINE bytes == [i \in 1 .. call.n |-> rx_buf[rx_out + i - 1]]
  <1>3. call' = [call EXCEPT !.chunk = bytes]
    BY DEF ReadCopy
  <1>4. call'.n = call.n /\ call'.chunk = bytes
    <2>. HIDE DEF bytes
    <2>. QED  BY <1>3 DEF ChannelInv, DriverInv, ProgramKept, CallType
  <1>5. rx_out + call.n <= BUF_LEN /\ call.n <= RingLen(rx_in, rx_out)
    BY <1>1 DEF ChannelInv, ReadKept
  <1>6. ReadKept'
    BY <1>1, <1>4, <1>5 DEF ReadKept, ringVars
  <1>. QED  BY <1>2, <1>6 DEF ChannelStep

(* The copy lies behind the newest byte of the ring.                       *)
LEMMA WriteCopyKeeps == ASSUME ChannelInv, WriteCopy PROVE ChannelStep
  <1>1. /\ UNCHANGED <<wfifo, rfifo, tx_in, tx_out, rx_buf, rx_in, rx_out, hostSent, hostGot,
                       txGiven, rxTaken, call, isr>>
        /\ isr.at = "off" /\ pc = "write_copy" /\ pc' = "write_publish"
        /\ tx_buf' = [i \in Index |->
                        IF i \in tx_in .. tx_in + call.n - 1
                        THEN (txGiven + i - tx_in) % MODULUS ELSE tx_buf[i]]
    BY DEF WriteCopy, At, uartVars, ghostVars
  <1>2. /\ tx_in \in Index /\ tx_out \in Index /\ tx_buf \in [Index -> Byte] /\ txGiven \in Byte
        /\ call.n \in Index
        /\ tx_in + call.n <= BUF_LEN /\ RingLen(tx_in, tx_out) + call.n <= BUF_LEN - 1
    BY <1>1 DEF ChannelInv, DriverInv, RingsKept, ProgramKept, CallType, WriteKept
  <1>3. tx_buf' \in [Index -> Byte]
    <2>1. DriverInv'
      BY WriteCopyInv DEF ChannelInv
    <2>. QED  BY <2>1 DEF DriverInv, RingsKept
  <1>4. TxRing' = TxRing
    <2>1. \A i \in Index : ~(tx_in <= i /\ i < tx_in + call.n) => tx_buf'[i] = tx_buf[i]
      <3>1. \A i \in Index : ~(tx_in <= i /\ i < tx_in + call.n)
                             => i \notin tx_in .. tx_in + call.n - 1
        BY <1>2, Sizes, SMT DEF Index
      <3>. QED  BY <1>1, <3>1
    <2>2. call.n \in Nat
      BY <1>2, Sizes, SMT DEF Index
    <2>3. Ring(tx_buf', tx_in, tx_out) = Ring(tx_buf, tx_in, tx_out)
      BY <1>2, <1>3, <2>1, <2>2, RingUntouched
    <2>. QED  BY <1>1, <2>3 DEF TxRing
  <1>5. TxStep /\ RxStep
    BY <1>1, <1>4, TxStays, RxStays DEF ChannelInv, TxLine, RxLine, RxRing
  <1>6. \A j \in 1 .. call.n : tx_buf'[tx_in + j - 1] = (txGiven + j - 1) % MODULUS
    <2>1. SUFFICES ASSUME NEW j \in 1 .. call.n
                   PROVE  tx_buf'[tx_in + j - 1] = (txGiven + j - 1) % MODULUS
      OBVIOUS
    <2>2. /\ tx_in + j - 1 \in Index /\ tx_in + j - 1 \in tx_in .. tx_in + call.n - 1
          /\ txGiven + (tx_in + j - 1) - tx_in = txGiven + j - 1
      BY <1>2, Sizes, SMT DEF Index, Byte
    <2>. QED  BY <1>1, <2>2
  <1>7. SpaceKept' /\ WriteKept' /\ ReadKept'
    BY <1>1, <1>2, <1>6 DEF SpaceKept, WriteKept, ReadKept
  <1>. QED  BY <1>5, <1>7 DEF ChannelStep

LEMMA WritePublishKeeps == ASSUME ChannelInv, WritePublish PROVE ChannelStep
  <1>1. /\ UNCHANGED <<wfifo, rfifo, tx_buf, tx_out, rx_buf, rx_in, rx_out, hostSent, hostGot,
                       rxTaken, isr>>
        /\ isr.at = "off" /\ pc = "write_publish" /\ pc' \in {"write", "write_enable"}
        /\ tx_in' = (tx_in + call.n) % BUF_LEN
        /\ txGiven' = (txGiven + call.n) % MODULUS
    BY DEF WritePublish, At, uartVars
  <1>2. /\ tx_in \in Index /\ tx_out \in Index /\ tx_buf \in [Index -> Byte] /\ txGiven \in Byte
        /\ call.n \in Nat /\ call.n > 0
        /\ tx_in + call.n <= BUF_LEN /\ RingLen(tx_in, tx_out) + call.n <= BUF_LEN - 1
        /\ \A j \in 1 .. call.n : tx_buf[tx_in + j - 1] = (txGiven + j - 1) % MODULUS
    <2>1. call.n \in Index
      BY DEF ChannelInv, DriverInv, ProgramKept, CallType
    <2>2. call.n \in Nat
      BY <2>1, Sizes, SMT DEF Index
    <2>. QED  BY <1>1, <2>2 DEF ChannelInv, DriverInv, RingsKept, ProgramKept, WriteKept
  <1>. DEFINE new == Numbered(txGiven, call.n)
  <1>3. /\ new \in Seq(Byte) /\ Len(new) = call.n
        /\ \A j \in 1 .. call.n : new[j] = tx_buf[tx_in + j - 1]
    BY <1>2, NumberedSeq
  <1>4. tx_in' \in Index /\ tx_in' = IF tx_in + call.n < BUF_LEN THEN tx_in + call.n ELSE 0
    BY <1>1, <1>2, FurtherIndex
  <1>5. TxRing' = TxRing \o new
    <2>. HIDE DEF new
    <2>0. ASSUME NEW in2 \in Index, NEW n \in Nat, NEW b \in Seq(Byte),
                 in2 = Further(tx_in, n), Len(b) = n, Holds(tx_buf, tx_in, b),
                 tx_in + n <= BUF_LEN, RingLen(tx_in, tx_out) + n <= BUF_LEN - 1
          PROVE  Ring(tx_buf, in2, tx_out) = Ring(tx_buf, tx_in, tx_out) \o b
      BY <1>2, <2>0, RingGrows
    <2>1. Ring(tx_buf, tx_in', tx_out) = Ring(tx_buf, tx_in, tx_out) \o new
      <3>1. tx_in' = Further(tx_in, call.n) /\ Holds(tx_buf, tx_in, new)
        BY <1>3, <1>4 DEF Further, Holds
      <3>. QED  BY <1>2, <1>3, <1>4, <2>0, <3>1
    <2>. QED  BY <1>1, <2>1 DEF TxRing
  <1>6. TxLine' = TxLine \o new
    <2>. HIDE DEF new
    <2>1. wfifo \in Seq(Byte) /\ TxRing \in Seq(Byte)
      BY LinesFit DEF ChannelInv, DriverInv, DeviceKept
    <2>2. wfifo \o (TxRing \o new) = (wfifo \o TxRing) \o new
      BY <1>3, <2>1, ConcatAssociative
    <2>. QED  BY <1>1, <1>5, <2>2 DEF TxLine
  <1>7. Len(TxLine) + call.n <= BUF_LEN - 1 + WDEPTH
    <2>1. Len(TxLine) = Len(wfifo) + RingLen(tx_in, tx_out) /\ RingLen(tx_in, tx_out) \in Nat
      BY <1>2, LinesFit, RingCount DEF ChannelInv
    <2>2. Len(wfifo) \in Nat /\ Len(wfifo) <= WDEPTH
      BY DEF ChannelInv, DriverInv, DeviceKept
    <2>. QED  BY <1>2, <2>1, <2>2, Sizes, SMT
  <1>8. TxStep
    BY <1>1, <1>2, <1>6, <1>7, TxPuts DEF ChannelInv
  <1>9. RxStep
    BY <1>1, RxStays DEF ChannelInv, RxLine, RxRing
  <1>10. SpaceKept' /\ WriteKept' /\ ReadKept'
    BY <1>1 DEF SpaceKept, WriteKept, ReadKept
  <1>. QED  BY <1>8, <1>9, <1>10 DEF ChannelStep

LEMMA ReadReleaseKeeps == ASSUME ChannelInv, ReadRelease PROVE ChannelStep
  <1>1. /\ UNCHANGED <<wfifo, rfifo, tx_buf, tx_in, tx_out, rx_buf, rx_in, hostSent, hostGot,
                       txGiven, isr>>
        /\ isr.at = "off" /\ pc = "read_release" /\ pc' \in {"read", "read_enable"}
        /\ rx_out' = (rx_out + call.n) % BUF_LEN
        /\ rxTaken' = Following(rxTaken, call.chunk)
    BY DEF ReadRelease, At, uartVars
  <1>2. /\ rx_in \in Index /\ rx_out \in Index /\ rx_buf \in [Index -> Byte]
        /\ call.n \in Nat /\ call.n > 0
        /\ rx_out + call.n <= BUF_LEN /\ call.n <= RingLen(rx_in, rx_out)
        /\ call.chunk = [i \in 1 .. call.n |-> rx_buf[rx_out + i - 1]]
    <2>1. call.n \in Index
      BY DEF ChannelInv, DriverInv, ProgramKept, CallType
    <2>2. call.n \in Nat
      BY <2>1, Sizes, SMT DEF Index
    <2>. QED  BY <1>1, <2>2 DEF ChannelInv, DriverInv, RingsKept, ProgramKept, ReadKept
  <1>3. /\ call.chunk \in Seq(Byte) /\ Len(call.chunk) = call.n
        /\ \A j \in 1 .. call.n : call.chunk[j] = rx_buf[rx_out + j - 1]
    <2>. DEFINE c == call.chunk
               n == call.n
    <2>1. \A i \in 1 .. n : rx_out + i - 1 \in Index
      BY <1>2, Sizes, SMT DEF Index
    <2>2. n \in Nat /\ c = [i \in 1 .. n |-> rx_buf[rx_out + i - 1]]
      BY <1>2
    <2>. HIDE DEF c, n
    <2>3. c \in [1 .. n -> Byte] /\ \A j \in 1 .. n : c[j] = rx_buf[rx_out + j - 1]
      BY <1>2, <2>1, <2>2
    <2>4. c \in Seq(Byte) /\ Len(c) = n
      BY <2>2, <2>3, SeqDef
    <2>. QED  BY <2>3, <2>4 DEF c, n
  <1>4. rx_out' \in Index /\ rx_out' = IF rx_out + call.n < BUF_LEN THEN rx_out + call.n ELSE 0
    BY <1>1, <1>2, FurtherIndex
  <1>5. RxRing = call.chunk \o RxRing'
    <2>0. ASSUME NEW out2 \in Index, NEW n \in Nat, NEW c \in Seq(Byte),
                 out2 = Further(rx_out, n), Len(c) = n, Holds(rx_buf, rx_out, c),
                 rx_out + n <= BUF_LEN, n <= RingLen(rx_in, rx_out)
          PROVE  Ring(rx_buf, rx_in, rx_out) = c \o Ring(rx_buf, rx_in, out2)
      <3>1. rx_buf \in [Index -> Byte] /\ rx_in \in Index /\ rx_out \in Index
        BY <1>2
      <3>. QED  BY <3>1, <2>0, RingShrinks
    <2>1. Ring(rx_buf, rx_in, rx_out) = call.chunk \o Ring(rx_buf, rx_in, rx_out')
      <3>1. rx_out' = Further(rx_out, call.n) /\ Holds(rx_buf, rx_out, call.chunk)
        BY <1>3, <1>4 DEF Further, Holds
      <3>. QED  BY <1>2, <1>3, <1>4, <2>0, <3>1
    <2>. QED  BY <1>1, <2>1 DEF RxRing
  <1>6. RxLine = call.chunk \o RxLine' /\ RxLine' \in Seq(Byte)
    <2>1. DriverInv'
      BY ReadReleaseInv DEF ChannelInv
    <2>2. rfifo \in Seq(Byte) /\ RxRing' \in Seq(Byte) /\ RxLine' \in Seq(Byte)
      <3>1. Ring(rx_buf, rx_in, rx_out') \in Seq(Byte)
        BY <1>2, <1>4, RingSeq
      <3>2. rfifo \in Seq(Byte)
        BY DEF ChannelInv, DriverInv, DeviceKept
      <3>3. Ring(rx_buf, rx_in, rx_out') \o rfifo \in Seq(Byte)
        BY <1>2, <1>4, <3>2, Lines
      <3>. QED  BY <1>1, <3>1, <3>2, <3>3 DEF RxRing, RxLine
    <2>3. (call.chunk \o RxRing') \o rfifo = call.chunk \o (RxRing' \o rfifo)
      BY <1>3, <2>2, Regroup
    <2>. QED  BY <1>1, <1>5, <2>2, <2>3 DEF RxLine
  <1>7. RxStep
    BY <1>1, <1>2, <1>3, <1>6, RxTakes DEF ChannelInv
  <1>8. TxStep
    BY <1>1, TxStays DEF ChannelInv, TxLine, TxRing
  <1>9. SpaceKept' /\ WriteKept' /\ ReadKept'
    BY <1>1 DEF SpaceKept, WriteKept, ReadKept
  <1>. QED  BY <1>7, <1>8, <1>9 DEF ChannelStep
-----------------------------------------------------------------------------
(* The interrupt routine, the alarm and the host.                          *)
LEMMA CopyKept ==
    ASSUME ChannelInv, UNCHANGED <<ringVars, txGiven, pc, call>>
    PROVE  WriteKept' /\ ReadKept'
  BY DEF ChannelInv, WriteKept, ReadKept, ringVars

LEMMA LookingKeeps ==
    ASSUME ChannelInv, Interrupt \/ ReadControl \/ ReceiveEnd \/ SendEnd \/ Second
    PROVE  ChannelStep
  <1>1. UNCHANGED <<wfifo, rfifo, ringVars, hostSent, hostGot, txGiven, rxTaken, pc, call>>
    BY DEF Interrupt, ReadControl, ReceiveEnd, SendEnd, Second, SetEnable, WriteControl,
           uartVars, ghostVars
  <1>2. TxStep /\ RxStep /\ WriteKept' /\ ReadKept'
    BY <1>1, LinesStay, CopyKept
  <1>3. SpaceKept'
    <2>1. CASE Interrupt \/ SendEnd
      <3>1. isr' = [NoIsr EXCEPT !.at = "control"]
        BY <2>1 DEF Interrupt, SendEnd
      <3>. QED  BY <3>1 DEF SpaceKept, NoIsr
    <2>2. CASE ReadControl
      <3>1. isr'.at = "off" \/ isr'.space = WSPACE
        BY <2>2 DEF ReadControl, NoIsr
      <3>2. WSPACE + Len(wfifo) = WDEPTH
        BY Sizes, SMT DEF WSPACE, ChannelInv, DriverInv, DeviceKept
      <3>3. isr'.space + Len(wfifo') <= WDEPTH \/ isr'.at = "off"
        BY <1>1, <3>1, <3>2, Sizes, SMT
      <3>. QED  BY <3>3 DEF SpaceKept
    <2>3. CASE ReceiveEnd
      <3>1. isr.at \in {"receive", "received"}
        BY <2>3 DEF ReceiveEnd
      <3>2. isr'.space = isr.space
        <4>. DEFINE at == IF isr.wi THEN "send" ELSE "control"
        <4>1. isr' = [isr EXCEPT !.at = at, !.avail = FALSE]
          BY <2>3 DEF ReceiveEnd, AfterReceive
        <4>. HIDE DEF at
        <4>. QED  BY <4>1 DEF ChannelInv, DriverInv, IsrKept
      <3>. QED  BY <1>1, <3>1, <3>2 DEF ChannelInv, SpaceKept
    <2>4. CASE Second
      BY <1>1, <2>4 DEF Second, ChannelInv, SpaceKept
    <2>. QED  BY <2>1, <2>2, <2>3, <2>4
  <1>. QED  BY <1>2, <1>3 DEF ChannelStep

(* The oldest byte goes from the ring to the end of the FIFO.              *)
LEMMA SendKeeps == ASSUME ChannelInv, Send PROVE ChannelStep
  <1>1. /\ isr.at = "send" /\ isr.space > 0 /\ tx_out # tx_in
        /\ wfifo' = IF Len(wfifo) < WDEPTH THEN Append(wfifo, tx_buf[tx_out]) ELSE wfifo
        /\ tx_out' = (tx_out + 1) % BUF_LEN
        /\ isr' = [isr EXCEPT !.space = isr.space - 1]
        /\ UNCHANGED <<rfifo, hostSent, hostGot, tx_buf, tx_in, rx_buf, rx_in, rx_out,
                       txGiven, rxTaken, pc, call>>
    BY DEF Send, WriteData, ghostVars
  <1>2. /\ tx_in \in Index /\ tx_out \in Index /\ tx_buf \in [Index -> Byte]
        /\ wfifo \in Seq(Byte) /\ Len(wfifo) \in Nat
        /\ isr.space \in 0 .. WDEPTH /\ isr.space + Len(wfifo) <= WDEPTH
    BY <1>1 DEF ChannelInv, DriverInv, RingsKept, DeviceKept, IsrKept, SpaceKept
  <1>3. wfifo' = Append(wfifo, tx_buf[tx_out]) /\ tx_buf[tx_out] \in Byte
    <2>1. Len(wfifo) < WDEPTH
      BY <1>1, <1>2, Sizes, SMT
    <2>. QED  BY <1>1, <1>2, <2>1
  <1>4. tx_out' \in Index /\ tx_out' = Further(tx_out, 1) /\ tx_out + 1 <= BUF_LEN
    <2>1. tx_out + 1 <= BUF_LEN
      BY <1>2, Sizes, SMT DEF Index
    <2>. QED  BY <1>1, <1>2, <2>1, FurtherIndex DEF Further
  <1>5. 1 <= RingLen(tx_in, tx_out)
    <2>1. RingLen(tx_in, tx_out) = IF tx_out <= tx_in THEN tx_in - tx_out
                                   ELSE tx_in + BUF_LEN - tx_out
      BY <1>2, RingCount
    <2>2. tx_in \in Nat /\ tx_out \in Nat /\ tx_out < BUF_LEN /\ tx_out # tx_in
      BY <1>1, <1>2, Sizes, SMT DEF Index
    <2>. QED  BY <2>1, <2>2, Sizes, SMT
  <1>. DEFINE one == <<tx_buf[tx_out]>>
  <1>6. one \in Seq(Byte) /\ Len(one) = 1 /\ Holds(tx_buf, tx_out, one)
    <2>1. one \in Seq(Byte) /\ Len(one) = 1 /\ one[1] = tx_buf[tx_out]
      BY <1>3
    <2>2. tx_out + 1 - 1 = tx_out /\ \A j \in 1 .. 1 : j = 1
      BY <1>2, Sizes, SMT DEF Index
    <2>. HIDE DEF one
    <2>. QED  BY <2>1, <2>2 DEF Holds
  <1>. HIDE DEF one
  <1>7. /\ TxRing = one \o TxRing' /\ TxRing' \in Seq(Byte)
        /\ RingLen(tx_in, tx_out') = RingLen(tx_in, tx_out) - 1
    <2>1. ASSUME NEW out2 \in Index, out2 = Further(tx_out, 1)
          PROVE  /\ Ring(tx_buf, tx_in, tx_out) = one \o Ring(tx_buf, tx_in, out2)
                 /\ RingLen(tx_in, out2) = RingLen(tx_in, tx_out) - 1
                 /\ Ring(tx_buf, tx_in, out2) \in Seq(Byte)
      <3>1. /\ Ring(tx_buf, tx_in, tx_out) = one \o Ring(tx_buf, tx_in, out2)
            /\ RingLen(tx_in, out2) = RingLen(tx_in, tx_out) - 1
        <4>0. PICK n \in Nat : n = 1
          OBVIOUS
        <4>1. /\ tx_buf \in [Index -> Byte] /\ tx_in \in Index /\ tx_out \in Index
              /\ tx_out + n <= BUF_LEN /\ n <= RingLen(tx_in, tx_out) /\ Len(one) = n
              /\ out2 = Further(tx_out, n) /\ one \in Seq(Byte) /\ Holds(tx_buf, tx_out, one)
          BY <1>2, <1>4, <1>5, <1>6, <2>1, <4>0
        <4>2. /\ Ring(tx_buf, tx_in, tx_out) = one \o Ring(tx_buf, tx_in, out2)
              /\ RingLen(tx_in, out2) = RingLen(tx_in, tx_out) - n
          BY <4>1, RingShrinks
        <4>. QED  BY <4>0, <4>2
      <3>. QED  BY <1>2, <3>1, RingSeq
    <2>. QED  BY <1>1, <1>4, <2>1 DEF TxRing
  <1>8. TxLine' = TxLine
    <2>1. wfifo' = wfifo \o one
      BY <1>2, <1>3, AppendIsConcat DEF one
    <2>2. (wfifo \o one) \o TxRing' = wfifo \o (one \o TxRing')
      BY <1>2, <1>6, <1>7, Regroup
    <2>. QED  BY <1>7, <2>1, <2>2 DEF TxLine
  <1>9. TxStep /\ RxStep
    BY <1>1, <1>8, TxStays, RxStays DEF ChannelInv, RxLine, RxRing
  <1>10. SpaceKept'
    <2>1. Len(wfifo') = Len(wfifo) + 1
      BY <1>2, <1>3
    <2>2. isr'.space = isr.space - 1
      BY <1>1 DEF ChannelInv, DriverInv, IsrKept
    <2>3. isr'.space + Len(wfifo') <= WDEPTH
      BY <1>2, <2>1, <2>2, Sizes, SMT
    <2>. QED  BY <2>3 DEF SpaceKept
  <1>11. WriteKept' /\ ReadKept'
    <2>1. ReadKept'
      BY <1>1 DEF ChannelInv, ReadKept
    <2>2. RingLen(tx_in, tx_out) + call.n <= BUF_LEN - 1
            => RingLen(tx_in, tx_out') + call.n <= BUF_LEN - 1
      <3>1. RingLen(tx_in, tx_out) \in Nat /\ call.n \in Index
        BY <1>2, RingCount DEF ChannelInv, DriverInv, ProgramKept, CallType
      <3>. QED  BY <1>7, <3>1, Sizes, SMT DEF Index
    <2>3. WriteKept'
      BY <1>1, <2>2 DEF ChannelInv, WriteKept
    <2>. QED  BY <2>1, <2>3
  <1>. QED  BY <1>9, <1>10, <1>11 DEF ChannelStep

(* A byte of the host at the end of what is on its way to the program.     *)
LEMMA ByteArrives ==
    ASSUME ChannelInv, NEW rest \in Seq(Byte), RxRing' \in Seq(Byte), RxLine = RxRing' \o rest,
           Len(RxRing') <= BUF_LEN - 1, Arrives(rest), rxTaken' = rxTaken
    PROVE  RxStep
  <1>1. /\ Len(rest) < RDEPTH /\ hostSent' = (hostSent + 1) % MODULUS
        /\ rfifo' = Append(rest, hostSent)
    BY DEF Arrives
  <1>2. hostSent \in Byte
    BY DEF ChannelInv, DriverInv, DeviceKept
  <1>3. rfifo' = rest \o <<hostSent>> /\ <<hostSent>> \in Seq(Byte)
    BY <1>1, <1>2, AppendIsConcat
  <1>4. RxLine' = RxLine \o <<hostSent>>
    <2>1. (RxRing' \o rest) \o <<hostSent>> = RxRing' \o (rest \o <<hostSent>>)
      BY <1>3, Regroup
    <2>. QED  BY <1>3, <2>1 DEF RxLine
  <1>5. Len(RxLine) + 1 <= BUF_LEN - 1 + RDEPTH
    <2>1. \A a, b \in Seq(Byte) : Len(a \o b) = Len(a) + Len(b) /\ Len(a) \in Nat /\ Len(b) \in Nat
      BY ConcatProperties
    <2>2. Len(RxLine) = Len(RxRing') + Len(rest) /\ Len(RxRing') \in Nat /\ Len(rest) \in Nat
      BY <2>1
    <2>. QED  BY <1>1, <2>2, Sizes, SMT
  <1>. QED  BY <1>1, <1>4, <1>5, RxPuts DEF ChannelInv

LEMMA ReceiveKeeps == ASSUME ChannelInv, Receive PROVE ChannelStep
  <1>. DEFINE rest == IF rfifo = << >> THEN rfifo ELSE Tail(rfifo)
  <1>1. /\ isr.at = "receive" /\ ~RxFull
        /\ UNCHANGED <<wfifo, hostGot, tx_buf, tx_in, tx_out, rx_out, txGiven, rxTaken, pc, call>>
        /\ Arrives(rest) \/ (rfifo' = rest /\ hostSent' = hostSent)
    BY DEF Receive, ReadData
  <1>2. /\ rx_in \in Index /\ rx_out \in Index /\ rx_buf \in [Index -> Byte]
        /\ rfifo \in Seq(Byte) /\ call.n \in Index
    BY DEF ChannelInv, DriverInv, RingsKept, DeviceKept, ProgramKept, CallType
  <1>3. rest \in Seq(Byte)
    BY <1>2
  <1>4. TxStep
    BY <1>1, TxStays DEF ChannelInv, TxLine, TxRing
  <1>5. SpaceKept'
    <2>. DEFINE more == rfifo' # << >>
    <2>1. \/ isr' = [isr EXCEPT !.at = "received", !.avail = more]
          \/ isr' = [isr EXCEPT !.avail = more]
      BY DEF Receive
    <2>. HIDE DEF more
    <2>2. isr'.space = isr.space
      BY <2>1 DEF ChannelInv, DriverInv, IsrKept
    <2>. QED  BY <1>1, <2>2 DEF ChannelInv, SpaceKept
  <1>6. WriteKept'
    BY <1>1 DEF ChannelInv, WriteKept
  <1>. HIDE DEF rest
  <1>7. /\ RxRing' \in Seq(Byte) /\ RxLine = RxRing' \o rest
        /\ Len(RxRing') <= BUF_LEN - 1 /\ ReadKept'
    <2>0. RingLen(rx_in, rx_out) = IF rx_out <= rx_in THEN rx_in - rx_out
                                   ELSE rx_in + BUF_LEN - rx_out
      BY <1>2, RingCount
    <2>1. CASE rfifo = << >>
      <3>1. UNCHANGED <<rx_buf, rx_in>> /\ rest = rfifo
        BY <2>1 DEF Receive, rest
      <3>2. RxRing' = RxRing /\ RxRing \in Seq(Byte) /\ Len(RxRing) <= BUF_LEN - 1
        BY <1>1, <1>2, <3>1, Lines DEF RxRing
      <3>. QED  BY <1>1, <3>1, <3>2 DEF ChannelInv, RxLine, ReadKept
    <2>2. CASE rfifo # << >>
      <3>1. /\ rx_buf' = [rx_buf EXCEPT ![rx_in] = Head(rfifo)]
            /\ rx_in' = (rx_in + 1) % BUF_LEN /\ rest = Tail(rfifo)
        BY <2>2 DEF Receive, rest
      <3>2. rx_in' \in Index /\ rx_in' = Further(rx_in, 1) /\ rx_in + 1 <= BUF_LEN
        <4>1. rx_in + 1 <= BUF_LEN
          BY <1>2, Sizes, SMT DEF Index
        <4>. QED  BY <1>2, <3>1, <4>1, FurtherIndex DEF Further
      <3>3. RingLen(rx_in, rx_out) + 1 <= BUF_LEN - 1
        <4>1. Further(rx_in, 1) # rx_out
          BY <1>1, <3>1, <3>2 DEF RxFull
        <4>. QED  BY <1>2, <2>0, <4>1, Sizes, SMT DEF Further, Index
      <3>. DEFINE one == <<Head(rfifo)>>
      <3>4. /\ Head(rfifo) \in Byte /\ one \in Seq(Byte) /\ Len(one) = 1 /\ one[1] = Head(rfifo)
            /\ rfifo = one \o rest
        BY <1>2, <2>2, <3>1, HeadTailProperties
      <3>. HIDE DEF one
      <3>5. /\ rx_buf' \in [Index -> Byte] /\ rx_buf'[rx_in] = Head(rfifo)
            /\ \A i \in Index : i # rx_in => rx_buf'[i] = rx_buf[i]
        BY <1>2, <3>1, <3>4
      <3>6. Holds(rx_buf', rx_in, one)
        <4>1. rx_in + 1 - 1 = rx_in /\ \A j \in 1 .. 1 : j = 1
          BY <1>2, Sizes, SMT DEF Index
        <4>. QED  BY <3>4, <3>5, <4>1 DEF Holds
      <3>7. ASSUME NEW b \in [Index -> Byte], NEW in2 \in Index, in2 = Further(rx_in, 1),
                   \A i \in Index : i # rx_in => b[i] = rx_buf[i], Holds(b, rx_in, one)
            PROVE  /\ Ring(b, in2, rx_out) = Ring(rx_buf, rx_in, rx_out) \o one
                   /\ RingLen(in2, rx_out) = RingLen(rx_in, rx_out) + 1
                   /\ Ring(b, in2, rx_out) \in Seq(Byte)
                   /\ Len(Ring(b, in2, rx_out)) <= BUF_LEN - 1
        <4>1. \A i \in Index : ~(rx_in <= i /\ i < rx_in + 1) => b[i] = rx_buf[i]
          <5>1. \A i \in Index : ~(rx_in <= i /\ i < rx_in + 1) => i # rx_in
            BY <1>2, Sizes, SMT DEF Index
          <5>. QED  BY <3>7, <5>1
        <4>2. Ring(b, rx_in, rx_out) = Ring(rx_buf, rx_in, rx_out)
          BY <1>2, <3>2, <3>3, <4>1, RingUntouched
        <4>3. /\ Ring(b, in2, rx_out) = Ring(b, rx_in, rx_out) \o one
              /\ RingLen(in2, rx_out) = RingLen(rx_in, rx_out) + 1
          <5>0. PICK n \in Nat : n = 1
            OBVIOUS
          <5>1. /\ rx_in \in Index /\ rx_out \in Index /\ rx_in + n <= BUF_LEN
                /\ RingLen(rx_in, rx_out) + n <= BUF_LEN - 1
                /\ in2 = Further(rx_in, n) /\ one \in Seq(Byte) /\ Len(one) = n
                /\ Holds(b, rx_in, one)
            BY <1>2, <3>2, <3>3, <3>4, <3>7, <5>0
          <5>2. /\ Ring(b, in2, rx_out) = Ring(b, rx_in, rx_out) \o one
                /\ RingLen(in2, rx_out) = RingLen(rx_in, rx_out) + n
            BY <5>1, RingGrows
          <5>. QED  BY <5>0, <5>2
        <4>4. /\ Ring(b, in2, rx_out) \in Seq(Byte)
              /\ Len(Ring(b, in2, rx_out)) = RingLen(in2, rx_out)
          BY <1>2, RingSeq
        <4>. QED  BY <3>3, <4>2, <4>3, <4>4
      <3>8. /\ RxRing' = RxRing \o one /\ RingLen(rx_in', rx_out) = RingLen(rx_in, rx_out) + 1
            /\ RxRing' \in Seq(Byte) /\ Len(RxRing') <= BUF_LEN - 1
        BY <1>1, <3>2, <3>5, <3>6, <3>7 DEF RxRing
      <3>9. RxLine = RxRing' \o rest
        <4>1. RxRing \in Seq(Byte)
          BY LinesFit DEF ChannelInv
        <4>2. (RxRing \o one) \o rest = RxRing \o (one \o rest)
          BY <1>3, <3>4, <4>1, Regroup
        <4>. QED  BY <3>4, <3>8, <4>2 DEF RxLine
      <3>10. ReadKept'
        <4>1. call.n <= RingLen(rx_in, rx_out) => call.n <= RingLen(rx_in', rx_out)
          <5>1. RingLen(rx_in, rx_out) \in Nat
            BY <1>2, RingCount
          <5>. QED  BY <1>2, <3>8, <5>1, Sizes, SMT DEF Index
        <4>2. ASSUME rx_out + call.n <= BUF_LEN, call.n <= RingLen(rx_in, rx_out)
              PROVE  [i \in 1 .. call.n |-> rx_buf'[rx_out + i - 1]]
                     = [i \in 1 .. call.n |-> rx_buf[rx_out + i - 1]]
          <5>1. \A i \in 1 .. call.n : rx_out + i - 1 \in Index /\ rx_out + i - 1 # rx_in
            BY <1>2, <2>0, <4>2, Sizes, SMT DEF Index
          <5>. QED  BY <3>5, <5>1
        <4>. QED  BY <1>1, <4>1, <4>2 DEF ChannelInv, ReadKept
      <3>. QED  BY <3>8, <3>9, <3>10
    <2>. QED  BY <2>1, <2>2
  <1>8. RxStep
    <2>1. CASE Arrives(rest)
      BY <1>1, <1>3, <1>7, <2>1, ByteArrives
    <2>2. CASE rfifo' = rest /\ hostSent' = hostSent
      <3>1. RxLine' = RxLine
        BY <1>7, <2>2 DEF RxLine
      <3>. QED  BY <1>1, <2>2, <3>1, RxStays DEF ChannelInv
    <2>. QED  BY <1>1, <2>1, <2>2
  <1>. QED  BY <1>4, <1>5, <1>6, <1>7, <1>8 DEF ChannelStep

LEMMA PollTakes ==
    ASSUME ChannelInv, HostPoll, UNCHANGED <<ringVars, txGiven>>
    PROVE  TxStep
  <1>1. PICK k \in 0 .. Len(wfifo) :
            /\ k = 0 => wfifo = << >>
            /\ wfifo' = SubSeq(wfifo, k + 1, Len(wfifo))
            /\ hostGot' = Following(hostGot, SubSeq(wfifo, 1, k))
    BY DEF HostPoll
  <1>2. /\ wfifo \in Seq(Byte) /\ Len(wfifo) \in Nat /\ k \in Nat /\ k <= Len(wfifo)
        /\ hostGot \in Byte
    <2>1. wfifo \in Seq(Byte) /\ Len(wfifo) \in Nat /\ hostGot \in Byte
      BY DEF ChannelInv, DriverInv, DeviceKept, TxNumbers, Consecutive
    <2>. QED  BY <2>1, SMT
  <1>. DEFINE a == SubSeq(wfifo, 1, k)
             b == SubSeq(wfifo, k + 1, Len(wfifo))
  <1>3. /\ a \in Seq(Byte) /\ Len(a) = k /\ b \in Seq(Byte) /\ Len(b) = Len(wfifo) - k
        /\ \A i \in 1 .. k : a[i] = wfifo[i]
        /\ \A i \in 1 .. Len(wfifo) - k : b[i] = wfifo[k + i]
    <2>0. \A i \in 1 .. Len(wfifo) : wfifo[i] \in Byte
      BY <1>2, ElementOfSeq
    <2>1. /\ \A i \in 1 .. k : wfifo[i] \in Byte
          /\ \A i \in k + 1 .. Len(wfifo) : wfifo[i] \in Byte
          /\ k + 1 \in Int
      BY <1>2, <2>0, SMT
    <2>2. /\ a \in Seq(Byte) /\ Len(a) = (IF 1 <= k THEN k - 1 + 1 ELSE 0)
          /\ \A i \in 1 .. k - 1 + 1 : a[i] = wfifo[1 + i - 1]
      BY <1>2, <2>1, SubSeqProperties
    <2>3. /\ b \in Seq(Byte)
          /\ Len(b) = (IF k + 1 <= Len(wfifo) THEN Len(wfifo) - (k + 1) + 1 ELSE 0)
          /\ \A i \in 1 .. Len(wfifo) - (k + 1) + 1 : b[i] = wfifo[k + 1 + i - 1]
      BY <1>2, <2>1, SubSeqProperties
    <2>. HIDE DEF a, b
    <2>4. Len(a) = k /\ Len(b) = Len(wfifo) - k
      BY <1>2, <2>2, <2>3, SMT
    <2>5. ASSUME NEW i \in 1 .. k PROVE a[i] = wfifo[i]
      <3>1. i \in 1 .. k - 1 + 1 /\ 1 + i - 1 = i
        BY <1>2, SMT
      <3>. QED  BY <2>2, <3>1
    <2>6. ASSUME NEW i \in 1 .. Len(wfifo) - k PROVE b[i] = wfifo[k + i]
      <3>1. i \in 1 .. Len(wfifo) - (k + 1) + 1 /\ k + 1 + i - 1 = k + i
        BY <1>2, SMT
      <3>. QED  BY <2>3, <3>1
    <2>. QED  BY <2>2, <2>3, <2>4, <2>5, <2>6
  <1>. HIDE DEF a, b
  <1>4. wfifo = a \o b
    <2>. DEFINE s == a \o b
    <2>1. /\ s \in Seq(Byte) /\ Len(s) = Len(a) + Len(b)
          /\ \A i \in 1 .. Len(a) + Len(b) : s[i] = IF i <= Len(a) THEN a[i] ELSE b[i - Len(a)]
      BY <1>3, ConcatProperties
    <2>. HIDE DEF s
    <2>2. Len(s) = Len(wfifo) /\ Len(a) + Len(b) = Len(wfifo)
      BY <1>2, <1>3, <2>1, SMT
    <2>3. ASSUME NEW i \in 1 .. Len(wfifo) PROVE s[i] = wfifo[i]
      <3>1. CASE i <= k
        <4>1. i \in 1 .. k
          BY <1>2, <3>1, SMT
        <4>. QED  BY <1>3, <2>1, <2>2, <3>1, <4>1
      <3>2. CASE ~(i <= k)
        <4>1. i - k \in 1 .. Len(wfifo) - k /\ k + (i - k) = i
          BY <1>2, <3>2, SMT
        <4>2. s[i] = b[i - k]
          BY <1>3, <2>1, <2>2, <3>2
        <4>. QED  BY <1>3, <4>1, <4>2
      <3>. QED  BY <3>1, <3>2
    <2>4. s = wfifo
      BY <1>2, <2>1, <2>2, <2>3, SeqEqual
    <2>. QED  BY <2>4 DEF s
  <1>5. TxLine = a \o TxLine' /\ TxLine' \in Seq(Byte)
    <2>1. wfifo' = b /\ TxRing' = TxRing /\ TxRing \in Seq(Byte)
      BY <1>1, LinesFit DEF TxRing, ringVars, ChannelInv, b
    <2>2. (a \o b) \o TxRing = a \o (b \o TxRing)
      BY <1>3, <2>1, Regroup
    <2>3. b \o TxRing \in Seq(Byte)
      BY <1>3, <2>1, ConcatProperties
    <2>. QED  BY <1>4, <2>1, <2>2, <2>3 DEF TxLine
  <1>6. CASE k > 0
    BY <1>1, <1>3, <1>5, <1>6, TxTakes DEF ChannelInv, a
  <1>7. CASE ~(k > 0)
    <2>1. k = 0 /\ wfifo = << >>
      BY <1>1, <1>2, <1>7, SMT
    <2>2. wfifo' = wfifo
      <3>1. Len(b) = 0
        BY <1>2, <1>3, <2>1, SMT
      <3>2. b = << >>
        BY <1>3, <3>1, EmptySeq
      <3>. QED  BY <1>1, <2>1, <3>2 DEF b
    <2>3. hostGot' = hostGot
      <3>1. a = << >>
        BY <1>3, <2>1, EmptySeq
      <3>2. Following(hostGot, << >>) = (hostGot + 0) % MODULUS
        BY DEF Following
      <3>3. (hostGot + 0) % MODULUS = hostGot
        BY <1>2, Sizes, SMT DEF Byte
      <3>. QED  BY <1>1, <3>1, <3>2, <3>3 DEF a
    <2>4. TxLine' = TxLine
      BY <2>2 DEF TxLine, TxRing, ringVars
    <2>. QED  BY <2>3, <2>4, TxStays DEF ChannelInv
  <1>. QED  BY <1>6, <1>7

LEMMA HostKeeps == ASSUME ChannelInv, Host PROVE ChannelStep
  <1>1. UNCHANGED <<ringVars, txGiven, rxTaken, pc, call, isr>>
    BY DEF Host
  <1>2. WriteKept' /\ ReadKept'
    BY <1>1, CopyKept
  <1>3. CASE HostPoll
    <2>1. TxStep
      BY <1>1, <1>3, PollTakes
    <2>2. RxStep
      BY <1>1, <1>3, RxStays DEF HostPoll, ChannelInv, RxLine, RxRing, ringVars
    <2>3. SpaceKept'
      <3>1. Len(wfifo') <= Len(wfifo) /\ Len(wfifo') \in Nat /\ Len(wfifo) \in Nat
        <4>1. PICK k \in 0 .. Len(wfifo) : wfifo' = SubSeq(wfifo, k + 1, Len(wfifo))
          BY <1>3 DEF HostPoll
        <4>2. wfifo \in Seq(Byte) /\ Len(wfifo) \in Nat
          BY DEF ChannelInv, DriverInv, DeviceKept
        <4>3. k + 1 \in Int /\ \A i \in k + 1 .. Len(wfifo) : i \in 1 .. Len(wfifo)
          BY <4>2, SMT
        <4>4. \A i \in k + 1 .. Len(wfifo) : wfifo[i] \in Byte
          BY <4>2, <4>3, ElementOfSeq
        <4>5. Len(SubSeq(wfifo, k + 1, Len(wfifo)))
                = IF k + 1 <= Len(wfifo) THEN Len(wfifo) - (k + 1) + 1 ELSE 0
          BY <4>2, <4>3, <4>4, SubSeqProperties
        <4>. QED  BY <4>1, <4>2, <4>5, SMT
      <3>2. isr.space \in Nat /\ isr' = isr
        BY <1>1, Sizes, SMT DEF ChannelInv, DriverInv, IsrKept
      <3>3. isr.space + Len(wfifo) <= WDEPTH => isr'.space + Len(wfifo') <= WDEPTH
        BY <3>1, <3>2, Sizes, SMT
      <3>. QED  BY <3>2, <3>3 DEF ChannelInv, SpaceKept
    <2>. QED  BY <1>2, <2>1, <2>2, <2>3 DEF ChannelStep
  <1>4. CASE HostSend
    <2>1. Arrives(rfifo) /\ UNCHANGED <<wfifo, hostGot>>
      BY <1>4 DEF HostSend
    <2>2. TxStep
      BY <1>1, <2>1, TxStays DEF ChannelInv, TxLine, TxRing, ringVars
    <2>3. RxStep
      <3>1. /\ RxRing' = RxRing /\ RxRing \in Seq(Byte) /\ rfifo \in Seq(Byte)
            /\ RxLine = RxRing \o rfifo
        BY <1>1, LinesFit DEF RxRing, RxLine, ringVars, ChannelInv, DriverInv, DeviceKept
      <3>2. Len(RxRing) <= BUF_LEN - 1
        BY LinesFit, RingCount DEF ChannelInv, DriverInv, RingsKept
      <3>. QED  BY <1>1, <2>1, <3>1, <3>2, ByteArrives
    <2>4. SpaceKept'
      BY <1>1, <2>1 DEF ChannelInv, SpaceKept
    <2>. QED  BY <1>2, <2>2, <2>3, <2>4 DEF ChannelStep
  <1>. QED  BY <1>3, <1>4 DEF Host

LEMMA ChannelStepKeeps ==
    ASSUME ChannelInv, [DriverNext]_driverVars
    PROVE  ChannelStep /\ ChannelInv'
  <1>1. ChannelStep
    <2>1. CASE Program
      BY <2>1, PlainKeeps, LookKeeps, WriteCopyKeeps, WritePublishKeeps, ReadCopyKeeps,
         ReadReleaseKeeps DEF Program, PlainStep
    <2>2. CASE Interrupt \/ Second
      BY <2>2, LookingKeeps
    <2>3. CASE Isr
      BY <2>3, LookingKeeps, ReceiveKeeps, SendKeeps DEF Isr
    <2>4. CASE Host
      BY <2>4, HostKeeps
    <2>5. CASE UNCHANGED driverVars
      <3>1. /\ UNCHANGED <<wfifo, rfifo, ringVars, hostSent, hostGot, txGiven, rxTaken>>
            /\ UNCHANGED <<pc, call, isr>>
        BY <2>5 DEF driverVars, uartVars, ghostVars
      <3>2. SpaceKept'
        BY <3>1 DEF ChannelInv, SpaceKept
      <3>. QED  BY <3>1, <3>2, LinesStay, CopyKept DEF ChannelStep
    <2>. QED  BY <2>1, <2>2, <2>3, <2>4, <2>5 DEF DriverNext
  <1>2. DriverInv'
    BY DriverStepInv DEF ChannelInv
  <1>. QED  BY <1>1, <1>2 DEF ChannelStep, TxStep, RxStep, ChannelInv

LEMMA ChannelStarts ==
    ASSUME DriverInit PROVE ChannelInv /\ Tx!ChannelInit /\ Rx!ChannelInit
  <1>1. /\ wfifo = << >> /\ rfifo = << >> /\ hostSent = 0 /\ hostGot = 0 /\ tx_in = 0 /\ tx_out = 0
        /\ rx_in = 0 /\ rx_out = 0 /\ txGiven = 0 /\ rxTaken = 0 /\ pc = "idle" /\ isr.at = "off"
    BY DEF DriverInit, NoIsr
  <1>2. DriverInv
    BY DriverInitInv
  <1>3. RingLen(0, 0) = 0 /\ 0 \in Index
    <2>1. 0 \in Index /\ 0 - 0 = 0
      BY Sizes, SMT DEF Index
    <2>. QED  BY <2>1, RingCount
  <1>4. TxRing = << >> /\ RxRing = << >>
    <2>1. TxRing \in Seq(Byte) /\ Len(TxRing) = 0 /\ RxRing \in Seq(Byte) /\ Len(RxRing) = 0
      BY <1>1, <1>2, <1>3, LinesFit
    <2>. QED  BY <2>1, EmptySeq
  <1>5. TxLine = << >> /\ RxLine = << >>
    <2>1. << >> \o << >> = << >>
      OBVIOUS
    <2>. QED  BY <1>1, <1>4, <2>1 DEF TxLine, RxLine
  <1>6. Consecutive(<< >>, 0, 0)
    <2>1. 0 \in Byte /\ (0 + 0) % MODULUS = 0 /\ Len(<< >>) = 0
      BY Sizes, SMT DEF Byte
    <2>2. \A i \in 1 .. Len(<< >>) : FALSE
      OBVIOUS
    <2>. QED  BY <2>1, <2>2 DEF Consecutive
  <1>7. ChannelInv
    BY <1>1, <1>2, <1>5, <1>6 DEF ChannelInv, TxNumbers, RxNumbers, SpaceKept, WriteKept, ReadKept
  <1>8. Tx!ChannelInit /\ Rx!ChannelInit
    BY <1>1, <1>5 DEF Tx!ChannelInit, Rx!ChannelInit, TxLine, RxLine, TxRing, RxRing
  <1>. QED  BY <1>7, <1>8

LEMMA ChannelInvariant == DriverSpec => []ChannelInv
  BY ChannelStarts, ChannelStepKeeps, PTL DEF DriverSpec

(* What write() copies into the ring is what the host gets: complete, once *)
(* and in order, although the interrupt routine empties the ring while it  *)
(* is filled (write.c:84-216, init.c:171-201).                             *)
THEOREM TransmitsInOrder == DriverSpec => TxChannel
  <1>1. DriverInit => Tx!ChannelInit
    BY ChannelStarts
  <1>2. ChannelInv /\ [DriverNext]_driverVars => [Tx!ChannelNext]_(Tx!channelVars)
    BY ChannelStepKeeps DEF ChannelStep, TxStep
  <1>. QED  BY <1>1, <1>2, ChannelInvariant, PTL DEF DriverSpec, TxChannel, Tx!ChannelSpec

(* What the host sends is what read() delivers, although the interrupt     *)
(* routine fills the ring while it is emptied and bytes arrive between two *)
(* of its looks at the device (read.c:101-203, init.c:137-169).            *)
THEOREM ReceivesInOrder == DriverSpec => RxChannel
  <1>1. DriverInit => Rx!ChannelInit
    BY ChannelStarts
  <1>2. ChannelInv /\ [DriverNext]_driverVars => [Rx!ChannelNext]_(Rx!channelVars)
    BY ChannelStepKeeps DEF ChannelStep, RxStep
  <1>. QED  BY <1>1, <1>2, ChannelInvariant, PTL DEF DriverSpec, RxChannel, Rx!ChannelSpec
=============================================================================
