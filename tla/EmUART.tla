------------------------------- MODULE EmUART -------------------------------
(***************************************************************************)
(* Hardware/EmUARTDragonball.cpp: the serial unit of the emulated processor *)
(* with its two FIFOs, and what the registers of Hardware/EmRegsEZ.cpp, the *)
(* line drivers of Hardware/EmHAL.cpp and the transports of                 *)
(* PreferenceMgr.cpp do with it.  Everything happens in the CPU thread, or  *)
(* in the UI thread while the CPU thread is suspended, so every access to a *)
(* register is one action.  The transports take bytes in by themselves.     *)
(*                                                                          *)
(* A byte that arrives carries its number and where it is from, a byte that *)
(* the device sends its number.  A register is the set of its bits that are *)
(* set; fState always repeats the registers as of the last access.          *)
(***************************************************************************)
EXTENDS Integers, Sequences, FiniteSets

CONSTANTS
  RxSize, TxSize,  \* PrvFIFOSize
  Controls,        \* values that the device's software writes to uControl
  Miscs,           \* values that it writes to uMisc
  ResetDrivers,    \* line drivers that are on with the registers of a reset
  MaxRx,           \* bound on the bytes that arrive
  MaxTx            \* bound on the bytes that the software sends

Devices == {"serial", "ir"}
ControlBits ==
  {"UART_ENABLE", "RX_ENABLE", "TX_ENABLE", "RX_FULL_ENABLE", "RX_HALF_ENABLE",
   "RX_RDY_ENABLE", "TX_EMPTY_ENABLE", "TX_HALF_ENABLE", "TX_AVAIL_ENABLE"}
MiscBits == {"LOOP", "RTS_CONT", "RTS"}

ASSUME SizeAssumption == RxSize \in Nat \ {0} /\ TxSize \in Nat \ {0}
ASSUME RegisterAssumption ==
  Controls \subseteq SUBSET ControlBits /\ Miscs \subseteq SUBSET MiscBits
ASSUME DriverAssumption == ResetDrivers \in SUBSET Devices /\ ResetDrivers # Devices
ASSUME BoundAssumption == MaxRx \in Nat /\ MaxTx \in Nat

VARIABLES
  bits,      \* the bits that the software sets, in uControl, uTransmit and uMisc
  status,    \* the bits that the UART sets, in uReceive and uTransmit
  pending,   \* the UART's bit of intPendingLo
  fRxFIFO,   \* bytes received
  fTxFIFO,   \* bytes to be transmitted
  drivers,   \* the line drivers that are on
  open,      \* the devices whose transport is open
  buffer,    \* bytes in the buffer of each transport
  fNeedPostLoad,
  arrived, sent,       \* the number of bytes that arrived, and that the software sent
  lastRead,  \* the last byte from each source that the software read
  lastOut    \* the last byte that a transport was given

registers == <<bits, status, pending>>
fifos     == <<fRxFIFO, fTxFIFO>>
lines     == <<drivers, open>>
history   == <<arrived, sent, lastRead, lastOut>>
vars      == <<registers, fifos, lines, buffer, fNeedPostLoad, history>>

-----------------------------------------------------------------------------
(* EmThreadSafeQueue. *)

Put(fifo, value) == Append(fifo, value)

\* Mutant: Peek in the place of Get.
GetKeeps(fifo) == fifo

Get(fifo) == Tail(fifo)

GetFree(fifo, size) == size - Len(fifo)

-----------------------------------------------------------------------------
(* EmUARTDragonball. *)

\* GetTransport: the line driver that is on decides.
UARTDevice(on) ==
  IF "serial" \in on THEN "serial" ELSE IF "ir" \in on THEN "ir" ELSE "none"

\* Mutant: whatever has arrived is buffered.
BytesToBufferAll(fifo, device) == Len(buffer[device])

\* As many bytes as have arrived and there is room for.
BytesToBuffer(fifo, device) ==
  LET room == GetFree(fifo, RxSize) IN
    IF Len(buffer[device]) > room THEN room ELSE Len(buffer[device])

\* The transport can be read, and RTS as of the last access permits it.
MayReceive(device) == device \in open /\ bits \cap {"RTS_CONT", "RTS"} # {}

\* Mutant: the transport's buffer is emptied, and what does not fit is lost.
ReceiveRxFIFOLoses(fifo, device) ==
  IF MayReceive(device)
  THEN [fifo |-> fifo \o SubSeq(buffer[device], 1, BytesToBuffer(fifo, device)),
        buffer |-> [buffer EXCEPT ![device] = <<>>]]
  ELSE [fifo |-> fifo, buffer |-> buffer]

ReceiveRxFIFO(fifo, device) ==
  IF MayReceive(device)
  THEN LET n == BytesToBuffer(fifo, device) IN
         [fifo |-> fifo \o SubSeq(buffer[device], 1, n),
          buffer |-> [buffer EXCEPT ![device] = SubSeq(@, n + 1, Len(@))]]
  ELSE [fifo |-> fifo, buffer |-> buffer]

\* The bits that tell of FIFOs with so many bytes in them.
StatusOf(rx, tx) ==
     (IF rx = RxSize THEN {"RX_FIFO_FULL"} ELSE {})
  \cup (IF RxSize - rx <= RxSize \div 2 THEN {"RX_FIFO_HALF"} ELSE {})
  \cup (IF rx > 0 THEN {"DATA_READY"} ELSE {})
  \cup (IF tx = 0 THEN {"TX_FIFO_EMPTY"} ELSE {})
  \cup (IF tx < TxSize \div 2 THEN {"TX_FIFO_HALF"} ELSE {})
  \cup (IF tx < TxSize THEN {"TX_AVAIL"} ELSE {})

\* UpdateUARTInterrupts: a condition is met whose interrupt is enabled.
Wanted(control, state) ==
  \/ "RX_FULL_ENABLE" \in control /\ "RX_FIFO_FULL" \in state
  \/ "RX_HALF_ENABLE" \in control /\ "RX_FIFO_HALF" \in state
  \/ "RX_RDY_ENABLE" \in control /\ "DATA_READY" \in state
  \/ "TX_EMPTY_ENABLE" \in control /\ "TX_FIFO_EMPTY" \in state
  \/ "TX_HALF_ENABLE" \in control /\ "TX_FIFO_HALF" \in state
  \/ "TX_AVAIL_ENABLE" \in control /\ "TX_AVAIL" \in state

\* UpdateState, for new registers and for FIFOs as the caller leaves them: receive,
\* set the bits, and, for a full read, get a byte.  The bits tell of the FIFO
\* before that byte was taken.
UpdateState(new, on, rx, tx, refreshRxData) ==
  LET received == ReceiveRxFIFO(rx, UARTDevice(on))
      state == StatusOf(Len(received.fifo), Len(tx))
      gets == /\ refreshRxData /\ "DATA_READY" \in state
              /\ {"UART_ENABLE", "RX_ENABLE"} \subseteq new
  IN
    /\ bits' = new
    /\ status' = state
    /\ pending' = Wanted(new, state)
    /\ buffer' = received.buffer
    /\ fTxFIFO' = tx
    /\ IF gets
       THEN LET byte == Head(received.fifo) IN
              /\ fRxFIFO' = Get(received.fifo)
              /\ lastRead' = [lastRead EXCEPT ![byte.from] = byte.number]
       ELSE fRxFIFO' = received.fifo /\ UNCHANGED lastRead

\* A FIFO is flushed when its half of the UART is disabled.
Flushed(bit, new, fifo) == IF bit \in bits \ new THEN <<>> ELSE fifo

\* The transport is given all of them.
TransmitTxFIFO(fifo) == [out |-> fifo[Len(fifo)], fifo |-> <<>>]

Transmits(new, byte) == byte # 0 /\ {"UART_ENABLE", "TX_ENABLE"} \subseteq new

\* Loopback: what is written to TX_DATA is received.
LoopBack(new, byte, rx) ==
  IF Transmits(new, byte) /\ "LOOP" \in new /\ GetFree(rx, RxSize) > 0
  THEN Put(rx, [from |-> "loop", number |-> byte])
  ELSE rx

\* Otherwise it is queued if there is room, and with a transport that is open sent
\* at once.  Without one it waits for CTS, or is dropped if CTS is ignored.
Queued(new, on, byte, tx) ==
  /\ Transmits(new, byte) /\ "LOOP" \notin new
  /\ UARTDevice(on) \in open \/ "IGNORE_CTS" \notin new
  /\ GetFree(tx, TxSize) > 0

\* StateChanged: registers and line drivers have new values, and unless byte is 0,
\* it was written to TX_DATA.
StateChanged(new, on, byte) ==
  LET rx == LoopBack(new, byte, Flushed("RX_ENABLE", new, fRxFIFO))
      tx == Flushed("TX_ENABLE", new, fTxFIFO)
  IN
    \/ /\ ~Queued(new, on, byte, tx)
       /\ UpdateState(new, on, rx, tx, FALSE)
       /\ UNCHANGED lastOut
    \/ /\ Queued(new, on, byte, tx) /\ UARTDevice(on) \notin open
       /\ UpdateState(new, on, rx, Put(tx, byte), FALSE)
       /\ UNCHANGED lastOut
    \/ /\ Queued(new, on, byte, tx) /\ UARTDevice(on) \in open
       /\ UpdateState(new, on, rx, TransmitTxFIFO(Put(tx, byte)).fifo, FALSE)
       /\ lastOut' = TransmitTxFIFO(Put(tx, byte)).out

-----------------------------------------------------------------------------
(* The registers, EmRegsEZ. *)

\* Mutant: the periodic look at the UART is gone.
CycleSlowlyBlind == UNCHANGED vars

\* CycleSlowly, and a read of a register other than uReceive.
CycleSlowly ==
  /\ UpdateState(bits, drivers, fRxFIFO, fTxFIFO, FALSE)
  /\ UNCHANGED <<lines, fNeedPostLoad, arrived, sent, lastOut>>

\* uartRead of uReceive as a word.
ReadReceive ==
  /\ UpdateState(bits, drivers, fRxFIFO, fTxFIFO, TRUE)
  /\ UNCHANGED <<lines, fNeedPostLoad, arrived, sent, lastOut>>

\* uartWrite of uControl or uMisc.
WriteControl ==
  /\ \/ \E value \in Controls: StateChanged((bits \ ControlBits) \cup value, drivers, 0)
     \/ \E value \in Miscs: StateChanged((bits \ MiscBits) \cup value, drivers, 0)
  /\ UNCHANGED <<lines, fNeedPostLoad, arrived, sent>>

\* uartWrite of uTransmit: of TX_DATA, of IGNORE_CTS, or of both.
WriteTransmit ==
  \E new \in {bits \cup {"IGNORE_CTS"}, bits \ {"IGNORE_CTS"}}:
    /\ \/ StateChanged(new, drivers, 0) /\ UNCHANGED sent
       \/ sent < MaxTx /\ StateChanged(new, drivers, sent + 1) /\ sent' = sent + 1
    /\ UNCHANGED <<lines, fNeedPostLoad, arrived>>

-----------------------------------------------------------------------------
(* The line drivers, EmHAL, and the transports. *)

\* portXDataWrite and, by CompareLineDriverStates, LineDriverChanged.  Open may fail, as
\* if there were no transport; it does nothing if the transport is open.  The device
\* never turns both drivers on.
LineDriverChanged ==
  \E d \in Devices:
    \/ /\ drivers = {}
       /\ drivers' = {d}
       /\ open' \in {open, open \cup {d}}
       /\ UNCHANGED <<registers, fifos, buffer, fNeedPostLoad, history>>
    \/ /\ d \in drivers
       /\ drivers' = drivers \ {d}
       /\ open' = open \ {d}
       /\ UNCHANGED <<registers, fifos, buffer, fNeedPostLoad, history>>

\* SetTransports, with the CPU thread suspended: each transport is deleted and replaced,
\* and opened if its line driver is on.
SetTransports ==
  /\ open' \in SUBSET drivers
  /\ buffer' = [d \in Devices |-> <<>>]
  /\ UNCHANGED <<drivers, registers, fifos, fNeedPostLoad, history>>

\* Bytes arrive at a transport that is open.
Arrive ==
  \E d \in open:
    /\ arrived < MaxRx
    /\ arrived' = arrived + 1
    /\ buffer' = [buffer EXCEPT ![d] = Append(@, [from |-> d, number |-> arrived + 1])]
    /\ UNCHANGED <<registers, fifos, lines, fNeedPostLoad, sent, lastRead, lastOut>>

-----------------------------------------------------------------------------
(* Resets, files and sessions. *)

\* EmRegsEZ::Reset of the hardware.  The transports stay as they are.
Reset ==
  /\ StateChanged({}, ResetDrivers, 0)
  /\ drivers' = ResetDrivers
  /\ UNCHANGED <<open, fNeedPostLoad, arrived, sent>>

\* EmRegsEZ::Load of registers that some session saved; the FIFOs are not in the file.
Load ==
  \E control \in Controls, misc \in Miscs, ignore \in SUBSET {"IGNORE_CTS"},
     on \in SUBSET Devices \ {Devices}:
    /\ StateChanged(control \cup misc \cup ignore, on, 0)
    /\ drivers' = on
    /\ fNeedPostLoad' = TRUE
    /\ UNCHANGED <<open, arrived, sent>>

\* EmPatchMgr::PostLoad, at the next call of the OS: transports are opened, none is closed.
PostLoad ==
  /\ fNeedPostLoad
  /\ fNeedPostLoad' = FALSE
  /\ \E opened \in SUBSET drivers: open' = open \cup opened
  /\ UNCHANGED <<drivers, registers, fifos, buffer, history>>

\* The session ends, which closes all transports, and another begins.
NewSession ==
  /\ bits' = {} /\ status' = StatusOf(0, 0) /\ pending' = FALSE
  /\ fRxFIFO' = <<>> /\ fTxFIFO' = <<>>
  /\ drivers' = ResetDrivers /\ open' = {}
  /\ fNeedPostLoad' = FALSE
  /\ UNCHANGED <<buffer, history>>

-----------------------------------------------------------------------------
Init ==
  /\ bits = {} /\ status = StatusOf(0, 0) /\ pending = FALSE
  /\ fRxFIFO = <<>> /\ fTxFIFO = <<>>
  /\ drivers = ResetDrivers /\ open = {}
  /\ buffer = [d \in Devices |-> <<>>]
  /\ fNeedPostLoad = FALSE
  /\ arrived = 0 /\ sent = 0 /\ lastOut = 0
  /\ lastRead = [d \in Devices \cup {"loop"} |-> 0]

Next ==
  \/ CycleSlowly \/ ReadReceive \/ WriteControl \/ WriteTransmit
  \/ LineDriverChanged \/ SetTransports \/ Arrive
  \/ Reset \/ Load \/ PostLoad \/ NewSession

Spec == Init /\ [][Next]_vars

\* The CPU thread calls CycleSlowly again and again while it runs.
FairSpec == Spec /\ WF_vars(CycleSlowly)

-----------------------------------------------------------------------------
(* Properties. *)

Byte == [from: Devices \cup {"loop"}, number: Nat]
Statuses ==
  {"RX_FIFO_FULL", "RX_FIFO_HALF", "DATA_READY", "TX_FIFO_EMPTY", "TX_FIFO_HALF", "TX_AVAIL"}

\* Every variable keeps its type; no FIFO is given more than it takes (the assertion in
\* EmThreadSafeQueue::Put).
TypeOK ==
  /\ bits \in SUBSET (ControlBits \cup MiscBits \cup {"IGNORE_CTS"})
  /\ status \in SUBSET Statuses
  /\ pending \in BOOLEAN
  /\ fRxFIFO \in Seq(Byte) /\ Len(fRxFIFO) <= RxSize
  /\ fTxFIFO \in Seq(Nat) /\ Len(fTxFIFO) <= TxSize
  /\ drivers \in SUBSET Devices /\ open \in SUBSET Devices
  /\ buffer \in [Devices -> Seq(Byte)]
  /\ fNeedPostLoad \in BOOLEAN
  /\ arrived \in Nat /\ sent \in Nat /\ lastOut \in Nat
  /\ lastRead \in [Devices \cup {"loop"} -> Nat]

\* The bytes from each source are read in the order in which they came and none twice,
\* over any flush, reset, change of the line driver or of the transports: what was read
\* last comes before all that is in the FIFO, and that before all that waits.
ReceivedInOrder ==
  \A d \in Devices \cup {"loop"}:
    LET line == fRxFIFO \o (IF d = "loop" THEN <<>> ELSE buffer[d]) IN
      \A i \in 1..Len(line): line[i].from = d =>
        /\ lastRead[d] < line[i].number
        /\ \A j \in 1..(i - 1): line[j].from = d => line[j].number < line[i].number

\* The bytes that the software sends go out in order and none twice.
SentInOrder ==
  \A i \in 1..Len(fTxFIFO):
    lastOut < fTxFIFO[i] /\ \A j \in 1..(i - 1): fTxFIFO[j] < fTxFIFO[i]

\* Order in both directions: the two FIFOs are emptied, flushed, filled and bypassed by
\* the software, resets, files and transports, and none of them knows of the others.
BytesInOrder == ReceivedInOrder /\ SentInOrder

Holds(s, byte) == \E j \in 1..Len(s): s[j] = byte

\* A byte leaves the transport's buffer only for the FIFO, and the FIFO only to be read
\* or because the receiver was disabled, unless transport or UART are replaced.
ReceivedBytesStay ==
  [][\/ SetTransports \/ NewSession
     \/ /\ \A d \in Devices: \A i \in 1..Len(buffer[d]):
             \/ Holds(buffer'[d], buffer[d][i]) \/ Holds(fRxFIFO', buffer[d][i])
             \/ lastRead'[d] = buffer[d][i].number
        /\ \/ "RX_ENABLE" \in bits \ bits'
           \/ \A i \in 1..Len(fRxFIFO):
                \/ Holds(fRxFIFO', fRxFIFO[i])
                \/ lastRead'[fRxFIFO[i].from] = fRxFIFO[i].number]_vars

\* A device that heeds TX_AVAIL loses no byte: one written to an enabled transmitter is
\* queued or sent, unless it is looped back, or nobody is there and CTS is ignored.
AvailableMeansAccepted ==
  [][(/\ sent' # sent /\ "TX_AVAIL" \in status
      /\ {"UART_ENABLE", "TX_ENABLE"} \subseteq bits' /\ "LOOP" \notin bits'
      /\ UARTDevice(drivers) \in open \/ "IGNORE_CTS" \notin bits')
     => lastOut' = sent' \/ \E i \in 1..Len(fTxFIFO'): fTxFIFO'[i] = sent']_vars

\* Neither direction loses a byte, whatever else an access does before and after.
NoByteLost == ReceivedBytesStay /\ AvailableMeansAccepted

\* The bits and the interrupt tell of the FIFOs, or of the FIFOs with the byte that was
\* read last.
StatusTellsTruth ==
  /\ \E lag \in {0, 1}: status = StatusOf(Len(fRxFIFO) + lag, Len(fTxFIFO))
  /\ pending = Wanted(bits, status)

\* Nothing is left in the FIFO of a transmitter that is disabled, over resets and loads:
\* nothing old goes out when it is enabled again.
DisabledTransmitterIsEmpty == "TX_ENABLE" \notin bits => fTxFIFO = <<>>

\* A byte is waiting, and the device wants to be told.
Expecting ==
  /\ "RX_RDY_ENABLE" \in bits
  /\ UARTDevice(drivers) \in open /\ bits \cap {"RTS_CONT", "RTS"} # {}
  /\ buffer[UARTDevice(drivers)] # <<>>

\* Bytes that arrive are announced by an interrupt, unless the device stops waiting.
BytesAreAnnounced == Expecting ~> (pending \/ ~Expecting)

-----------------------------------------------------------------------------
(* What comments say and the code does not do: no run checks these. *)

\* "While this bit is low, the receiver is disabled and the receive FIFO is flushed": so
\* nothing is in it.
DisabledReceiverIsEmpty == "RX_ENABLE" \notin bits => fRxFIFO = <<>>

\* Data that "needs to be sent to the host serial port" is sent when more is written to a
\* transmitter that is enabled, with the port open: the FIFO does not stay full.
FullFIFOIsSent ==
  [][(/\ sent' # sent /\ Len(fTxFIFO) = TxSize
      /\ {"UART_ENABLE", "TX_ENABLE"} \subseteq bits' /\ "LOOP" \notin bits'
      /\ UARTDevice(drivers) \in open)
     => Len(fTxFIFO') < TxSize]_vars

\* Transports are open only while their line drivers are on.
OpenMeansDriver == open \subseteq drivers
=============================================================================
