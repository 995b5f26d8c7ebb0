---------------------------- MODULE EmUART_proofs ----------------------------
(***************************************************************************)
(* Theorems about EmUART, for FIFOs of any size, whatever the software      *)
(* writes to the registers and however many bytes come and go.              *)
(*                                                                          *)
(* Every access ends in UpdateState, most of them by way of StateChanged:   *)
(* Updated and Changed say once what these two do to the FIFOs, and each    *)
(* theorem has one step per action that cites them.                         *)
(***************************************************************************)
EXTENDS EmUART, SequenceTheorems, TLAPS

Bits == ControlBits \cup MiscBits \cup {"IGNORE_CTS"}
Sources == Devices \cup {"loop"}

-----------------------------------------------------------------------------
(* What the operators do. *)

\* A receiver's FIFO gets no more than it has room for, and the rest stays.
LEMMA Received ==
  ASSUME TypeOK, NEW on \in SUBSET Devices,
         NEW rx \in Seq(Byte), Len(rx) <= RxSize
  PROVE  LET r == ReceiveRxFIFO(rx, UARTDevice(on)) IN
           /\ r.fifo \in Seq(Byte) /\ Len(r.fifo) <= RxSize
           /\ r.buffer \in [Devices -> Seq(Byte)]
<1> DEFINE d == UARTDevice(on)
           b == buffer[d]
           n == BytesToBuffer(rx, d)
<1>1. CASE MayReceive(d)
  <2>1. d \in Devices
    BY <1>1 DEF MayReceive, TypeOK
  <2>2. b \in Seq(Byte) /\ Len(b) \in Nat /\ Len(rx) \in Nat /\ RxSize \in Nat
    BY <2>1, LenProperties, SizeAssumption DEF TypeOK
  <2>3. n \in Nat /\ n <= Len(b) /\ n <= RxSize - Len(rx)
    BY <2>2 DEF BytesToBuffer, GetFree
  <2>4. \A i \in 1..Len(b): b[i] \in Byte
    BY <2>2, ElementOfSeq
  <2>5. SubSeq(b, 1, n) \in Seq(Byte) /\ Len(SubSeq(b, 1, n)) = n
    <3> HIDE DEF n, b
    <3>1. \A i \in 1..n: b[i] \in Byte
      BY <2>2, <2>3, <2>4
    <3>2. 1 \in Int /\ n \in Int
      BY <2>3
    <3>3. QED
      BY <3>1, <3>2, <2>3, SubSeqProperties
  <2>6. SubSeq(b, n + 1, Len(b)) \in Seq(Byte)
    <3> HIDE DEF n, b
    <3>1. \A i \in (n + 1)..Len(b): b[i] \in Byte
      BY <2>2, <2>3, <2>4
    <3>2. n + 1 \in Int /\ Len(b) \in Int
      BY <2>2, <2>3
    <3>3. QED
      BY <3>1, <3>2, SubSeqProperties
  <2>7. /\ rx \o SubSeq(b, 1, n) \in Seq(Byte)
        /\ Len(rx \o SubSeq(b, 1, n)) = Len(rx) + n
    <3> HIDE DEF n, b
    <3>1. QED
      BY <2>5, ConcatProperties
  <2>8. ReceiveRxFIFO(rx, d) = [fifo |-> rx \o SubSeq(b, 1, n),
                               buffer |-> [buffer EXCEPT ![d] = SubSeq(b, n + 1, Len(b))]]
    BY <1>1 DEF ReceiveRxFIFO
  <2>9. [buffer EXCEPT ![d] = SubSeq(b, n + 1, Len(b))] \in [Devices -> Seq(Byte)]
    <3> HIDE DEF n, b, d
    <3>1. QED
      BY <2>6 DEF TypeOK
  <2>10. QED
    <3> HIDE DEF n, b
    <3>1. QED
      BY <2>2, <2>3, <2>7, <2>8, <2>9
<1>2. CASE ~MayReceive(d)
  BY <1>2 DEF ReceiveRxFIFO, TypeOK
<1>3. QED
  BY <1>1, <1>2

\* UpdateState: the types, the lag of the bits behind a full read, and the other
\* FIFO as the caller leaves it.
LEMMA Updated ==
  ASSUME TypeOK, NEW new \in SUBSET Bits, NEW on \in SUBSET Devices,
         NEW rx \in Seq(Byte), Len(rx) <= RxSize, NEW tx, Len(tx) \in Nat,
         NEW refresh \in BOOLEAN,
         UpdateState(new, on, rx, tx, refresh)
  PROVE  /\ bits' = new /\ fTxFIFO' = tx
         /\ status' \in SUBSET Statuses /\ pending' \in BOOLEAN
         /\ fRxFIFO' \in Seq(Byte) /\ Len(fRxFIFO') <= RxSize
         /\ buffer' \in [Devices -> Seq(Byte)]
         /\ lastRead' \in [Sources -> Nat]
         /\ StatusTellsTruth'
<1> DEFINE r == ReceiveRxFIFO(rx, UARTDevice(on))
           state == StatusOf(Len(r.fifo), Len(tx))
           byte == Head(r.fifo)
<1>1. /\ r.fifo \in Seq(Byte) /\ Len(r.fifo) <= RxSize
      /\ r.buffer \in [Devices -> Seq(Byte)]
  BY Received
<1>2. /\ bits' = new /\ fTxFIFO' = tx /\ status' = state /\ pending' = Wanted(new, state)
      /\ buffer' = r.buffer
  BY DEF UpdateState
<1>3. \/ fRxFIFO' = r.fifo /\ lastRead' = lastRead
      \/ /\ "DATA_READY" \in state
         /\ fRxFIFO' = Tail(r.fifo)
         /\ lastRead' = [lastRead EXCEPT ![byte.from] = byte.number]
  BY DEF UpdateState, Get
<1>4. state \in SUBSET Statuses /\ Wanted(new, state) \in BOOLEAN
  BY DEF StatusOf, Statuses, Wanted
<1>5. "DATA_READY" \in state => Len(r.fifo) > 0
  BY DEF StatusOf
<1> HIDE DEF r, state
<1>6. CASE fRxFIFO' = r.fifo /\ lastRead' = lastRead
  <2>1. lastRead' \in [Sources -> Nat]
    BY <1>6 DEF TypeOK, Sources
  <2>2. Len(fRxFIFO') \in Nat
    BY <1>1, <1>6, LenProperties
  <2>3. status' = StatusOf(Len(fRxFIFO') + 0, Len(fTxFIFO'))
    BY <1>2, <1>6, <2>2 DEF state
  <2>4. QED
    BY <1>1, <1>2, <1>4, <1>6, <2>1, <2>3 DEF StatusTellsTruth
<1>7. CASE /\ "DATA_READY" \in state
           /\ fRxFIFO' = Tail(r.fifo)
           /\ lastRead' = [lastRead EXCEPT ![byte.from] = byte.number]
  <2>1. Len(r.fifo) \in Nat /\ Len(r.fifo) > 0 /\ r.fifo # <<>>
    BY <1>1, <1>5, <1>7, LenProperties, EmptySeq
  <2>2. /\ fRxFIFO' \in Seq(Byte) /\ Len(fRxFIFO') = Len(r.fifo) - 1
        /\ byte \in Byte
    BY <1>1, <1>7, <2>1, HeadTailProperties
  <2>3. lastRead' \in [Sources -> Nat]
    BY <1>7, <2>2 DEF Byte, Sources, TypeOK
  <2>4. status' = StatusOf(Len(fRxFIFO') + 1, Len(fTxFIFO'))
    <3>1. Len(fRxFIFO') + 1 = Len(r.fifo)
      BY <2>1, <2>2
    <3>2. QED
      BY <1>2, <3>1 DEF state
  <2>5. Len(fRxFIFO') <= RxSize
    BY <1>1, <2>1, <2>2, SizeAssumption
  <2>6. QED
    BY <1>2, <1>4, <1>1, <2>2, <2>3, <2>4, <2>5 DEF StatusTellsTruth
<1>8. QED
  BY <1>3, <1>6, <1>7

\* StateChanged: as UpdateState, and the transmitter's FIFO loses all it held when it is
\* disabled, takes the byte if it has room, and then gives all to a transport that is open.
LEMMA Changed ==
  ASSUME TypeOK, NEW new \in SUBSET Bits, NEW on \in SUBSET Devices, NEW byte \in Nat,
         StateChanged(new, on, byte)
  PROVE  LET tx == Flushed("TX_ENABLE", new, fTxFIFO) IN
         /\ bits' = new
         /\ status' \in SUBSET Statuses /\ pending' \in BOOLEAN
         /\ fRxFIFO' \in Seq(Byte) /\ Len(fRxFIFO') <= RxSize
         /\ buffer' \in [Devices -> Seq(Byte)]
         /\ lastRead' \in [Sources -> Nat]
         /\ StatusTellsTruth'
         /\ tx \in Seq(Nat) /\ Len(tx) <= TxSize
         /\ \/ fTxFIFO' = tx /\ lastOut' = lastOut
            \/ /\ byte # 0 /\ "TX_ENABLE" \in new /\ Len(tx) < TxSize
               /\ \/ fTxFIFO' = Append(tx, byte) /\ lastOut' = lastOut
                  \/ fTxFIFO' = <<>> /\ lastOut' = byte
<1> DEFINE rx0 == Flushed("RX_ENABLE", new, fRxFIFO)
           rx == LoopBack(new, byte, rx0)
           tx == Flushed("TX_ENABLE", new, fTxFIFO)
<1>1. RxSize \in Nat /\ TxSize \in Nat
  BY SizeAssumption
<1>2. /\ tx \in Seq(Nat) /\ Len(tx) <= TxSize
      /\ rx0 \in Seq(Byte) /\ Len(rx0) <= RxSize
  <2>1. <<>> \in Seq(Nat) /\ <<>> \in Seq(Byte) /\ Len(<<>>) = 0
    BY EmptySeq
  <2>2. QED
    BY <1>1, <2>1 DEF Flushed, TypeOK
<1>3. rx \in Seq(Byte) /\ Len(rx) <= RxSize
  <2>1. [from |-> "loop", number |-> byte] \in Byte
    BY DEF Byte
  <2>2. CASE rx = rx0
    BY <1>2, <2>2
  <2>3. CASE rx = Append(rx0, [from |-> "loop", number |-> byte]) /\ RxSize - Len(rx0) > 0
    <3> HIDE DEF rx0
    <3>1. Len(rx0) \in Nat
      BY <1>2, LenProperties
    <3>2. rx \in Seq(Byte) /\ Len(rx) = Len(rx0) + 1
      BY <1>2, <2>1, <2>3, AppendProperties
    <3>3. QED
      BY <1>1, <2>3, <3>1, <3>2
  <2>4. QED
    BY <2>2, <2>3 DEF LoopBack, Put, GetFree
<1>4. Len(tx) \in Nat
  BY <1>2, LenProperties
<1> DEFINE Rest == /\ bits' = new
                   /\ status' \in SUBSET Statuses /\ pending' \in BOOLEAN
                   /\ fRxFIFO' \in Seq(Byte) /\ Len(fRxFIFO') <= RxSize
                   /\ buffer' \in [Devices -> Seq(Byte)]
                   /\ lastRead' \in [Sources -> Nat]
                   /\ StatusTellsTruth'
<1>5. ASSUME NEW t, Len(t) \in Nat, UpdateState(new, on, rx, t, FALSE)
      PROVE  Rest /\ fTxFIFO' = t
  <2> HIDE DEF rx
  <2>1. QED
    BY <1>3, <1>5, Updated
<1>6. CASE UpdateState(new, on, rx, tx, FALSE) /\ UNCHANGED lastOut
  <2> HIDE DEF tx, rx
  <2>1. Rest /\ fTxFIFO' = tx
    BY <1>4, <1>5, <1>6
  <2>2. QED
    BY <1>2, <1>6, <2>1 DEF tx
<1>7. Queued(new, on, byte, tx) => byte # 0 /\ "TX_ENABLE" \in new /\ Len(tx) < TxSize
  <2> HIDE DEF tx
  <2>1. QED
    BY <1>1, <1>4 DEF Queued, Transmits, GetFree
<1>8. /\ Append(tx, byte) \in Seq(Nat) /\ Len(Append(tx, byte)) = Len(tx) + 1
      /\ Append(tx, byte)[Len(tx) + 1] = byte
  <2> HIDE DEF tx
  <2>1. QED
    BY <1>2, AppendProperties
<1>9. Len(Append(tx, byte)) \in Nat
  <2> HIDE DEF tx
  <2>1. QED
    BY <1>4, <1>8
<1>10. CASE /\ Queued(new, on, byte, tx)
            /\ UpdateState(new, on, rx, Put(tx, byte), FALSE) /\ UNCHANGED lastOut
  <2> HIDE DEF tx, rx
  <2>1. Rest /\ fTxFIFO' = Append(tx, byte)
    BY <1>5, <1>9, <1>10 DEF Put
  <2>2. QED
    BY <1>2, <1>7, <1>10, <2>1 DEF tx
<1>11. CASE /\ Queued(new, on, byte, tx)
            /\ UpdateState(new, on, rx, TransmitTxFIFO(Put(tx, byte)).fifo, FALSE)
            /\ lastOut' = TransmitTxFIFO(Put(tx, byte)).out
  <2> HIDE DEF tx, rx
  <2>1. /\ TransmitTxFIFO(Put(tx, byte)).fifo = <<>>
        /\ TransmitTxFIFO(Put(tx, byte)).out = byte
    BY <1>8 DEF TransmitTxFIFO, Put
  <2>2. Rest /\ fTxFIFO' = <<>>
    <3>1. Len(<<>>) \in Nat
      BY EmptySeq
    <3>2. UpdateState(new, on, rx, <<>>, FALSE)
      BY <1>11, <2>1
    <3>3. QED
      BY <1>5, <3>1, <3>2
  <2>3. QED
    BY <1>2, <1>7, <1>11, <2>1, <2>2 DEF tx
<1>12. QED
  BY <1>6, <1>10, <1>11 DEF StateChanged

-----------------------------------------------------------------------------
(* Types, and what the registers tell. *)

\* The accesses that neither touch the registers nor the FIFOs.
LEMMA Aside ==
  ASSUME LineDriverChanged \/ SetTransports \/ Arrive \/ PostLoad
  PROVE  UNCHANGED <<registers, fifos, sent, lastRead, lastOut>>
BY DEF LineDriverChanged, SetTransports, Arrive, PostLoad, history

\* The registers that a write, a reset or a file gives are registers.
LEMMA NewRegisters ==
  ASSUME TypeOK
  PROVE  /\ bits \in SUBSET Bits /\ drivers \in SUBSET Devices
         /\ \A value \in Controls: (bits \ ControlBits) \cup value \in SUBSET Bits
         /\ \A value \in Miscs: (bits \ MiscBits) \cup value \in SUBSET Bits
         /\ \A new \in {bits \cup {"IGNORE_CTS"}, bits \ {"IGNORE_CTS"}}: new \in SUBSET Bits
         /\ \A control \in Controls, misc \in Miscs, ignore \in SUBSET {"IGNORE_CTS"}:
              control \cup misc \cup ignore \in SUBSET Bits
         /\ {} \in SUBSET Bits /\ ResetDrivers \in SUBSET Devices
<1>1. bits \in SUBSET Bits /\ drivers \in SUBSET Devices
  BY DEF TypeOK, Bits
<1>2. \A value \in Controls: value \subseteq ControlBits
  BY RegisterAssumption
<1>3. \A value \in Miscs: value \subseteq MiscBits
  BY RegisterAssumption
<1>4. QED
  BY <1>1, <1>2, <1>3, DriverAssumption DEF Bits

\* Every step is one of these: two that only look, writes and files that change the
\* registers, a new session, and those aside.
LEMMA Steps ==
  ASSUME TypeOK, [Next]_vars
  PROVE  \/ \E refresh \in BOOLEAN:
              /\ UpdateState(bits, drivers, fRxFIFO, fTxFIFO, refresh)
              /\ UNCHANGED <<lines, fNeedPostLoad, arrived, sent, lastOut>>
         \/ \E new \in SUBSET Bits, on \in SUBSET Devices, byte \in Nat:
              /\ StateChanged(new, on, byte)
              /\ byte \in {0, sent + 1} /\ sent' = (IF byte = 0 THEN sent ELSE byte)
              /\ drivers' = on /\ open' = open /\ fNeedPostLoad' \in {fNeedPostLoad, TRUE}
              /\ arrived' = arrived
         \/ LineDriverChanged \/ SetTransports \/ Arrive \/ PostLoad
         \/ NewSession
         \/ UNCHANGED vars
<1> DEFINE Changes(new, on, byte) ==
             /\ StateChanged(new, on, byte)
             /\ byte \in {0, sent + 1} /\ sent' = (IF byte = 0 THEN sent ELSE byte)
             /\ drivers' = on /\ open' = open /\ fNeedPostLoad' \in {fNeedPostLoad, TRUE}
             /\ arrived' = arrived
<1>1. sent \in Nat /\ 0 \in Nat /\ sent + 1 \in Nat /\ sent + 1 # 0
  BY DEF TypeOK
<1>2. CASE CycleSlowly \/ ReadReceive
  BY <1>2 DEF CycleSlowly, ReadReceive
<1>3. CASE WriteControl
  <2>1. PICK new \in SUBSET Bits: StateChanged(new, drivers, 0)
    BY <1>3, NewRegisters DEF WriteControl
  <2>2. Changes(new, drivers, 0)
    BY <1>3, <2>1 DEF WriteControl, lines
  <2>3. QED
    BY <1>1, <2>2, NewRegisters
<1>4. CASE WriteTransmit
  <2>1. PICK new \in SUBSET Bits:
          /\ \/ StateChanged(new, drivers, 0) /\ UNCHANGED sent
             \/ StateChanged(new, drivers, sent + 1) /\ sent' = sent + 1
          /\ UNCHANGED <<lines, fNeedPostLoad, arrived>>
    BY <1>4, NewRegisters DEF WriteTransmit
  <2>2. Changes(new, drivers, 0) \/ Changes(new, drivers, sent + 1)
    BY <1>1, <2>1 DEF lines
  <2>3. QED
    BY <1>1, <2>2, NewRegisters
<1>5. CASE Reset
  <2>1. Changes({}, ResetDrivers, 0)
    BY <1>5 DEF Reset
  <2>2. QED
    BY <1>1, <2>1, NewRegisters
<1>6. CASE Load
  <2>1. PICK new \in SUBSET Bits, on \in SUBSET Devices: Changes(new, on, 0)
    <3>1. PICK control \in Controls, misc \in Miscs, ignore \in SUBSET {"IGNORE_CTS"},
               on \in SUBSET Devices \ {Devices}:
            /\ StateChanged(control \cup misc \cup ignore, on, 0)
            /\ drivers' = on
            /\ fNeedPostLoad' = TRUE
            /\ UNCHANGED <<open, arrived, sent>>
      BY <1>6 DEF Load
    <3>2. Changes(control \cup misc \cup ignore, on, 0)
      BY <3>1
    <3>3. QED
      BY <3>2, NewRegisters
  <2>2. QED
    BY <1>1, <2>1
<1>7. QED
  BY <1>2, <1>3, <1>4, <1>5, <1>6 DEF Next

LEMMA InitTyped == Init => TypeOK /\ StatusTellsTruth
<1> SUFFICES ASSUME Init PROVE TypeOK /\ StatusTellsTruth
  OBVIOUS
<1>1. /\ <<>> \in Seq(Byte) /\ <<>> \in Seq(Nat) /\ Len(<<>>) = 0
      /\ RxSize \in Nat /\ TxSize \in Nat
  BY EmptySeq, SizeAssumption
<1>2. StatusOf(0, 0) \in SUBSET Statuses /\ StatusOf(0 + 0, 0) = StatusOf(0, 0)
  BY DEF StatusOf, Statuses
<1>3. Wanted({}, StatusOf(0, 0)) = FALSE
  BY DEF Wanted
<1>4. TypeOK
  <2>1. /\ fRxFIFO \in Seq(Byte) /\ Len(fRxFIFO) <= RxSize
        /\ fTxFIFO \in Seq(Nat) /\ Len(fTxFIFO) <= TxSize
    BY <1>1 DEF Init
  <2>2. drivers \in SUBSET Devices /\ open \in SUBSET Devices
    BY DriverAssumption DEF Init
  <2>3. /\ buffer \in [Devices -> Seq(Byte)]
        /\ lastRead \in [Devices \cup {"loop"} -> Nat]
    BY <1>1 DEF Init
  <2>4. QED
    BY <1>2, <2>1, <2>2, <2>3 DEF Init, TypeOK
<1>5. StatusTellsTruth
  <2>1. status = StatusOf(Len(fRxFIFO) + 0, Len(fTxFIFO))
    BY <1>1, <1>2 DEF Init
  <2>2. pending = Wanted(bits, status)
    BY <1>3 DEF Init
  <2>3. QED
    BY <2>1, <2>2 DEF StatusTellsTruth
<1>6. QED
  BY <1>4, <1>5

LEMMA NextTyped == TypeOK /\ StatusTellsTruth /\ [Next]_vars => TypeOK' /\ StatusTellsTruth'
<1> SUFFICES ASSUME TypeOK, StatusTellsTruth, [Next]_vars PROVE TypeOK' /\ StatusTellsTruth'
  OBVIOUS
<1>1. /\ <<>> \in Seq(Byte) /\ <<>> \in Seq(Nat) /\ Len(<<>>) = 0
      /\ RxSize \in Nat /\ TxSize \in Nat
  BY EmptySeq, SizeAssumption
<1>2. ASSUME NEW refresh \in BOOLEAN,
             UpdateState(bits, drivers, fRxFIFO, fTxFIFO, refresh),
             UNCHANGED <<lines, fNeedPostLoad, arrived, sent, lastOut>>
      PROVE  TypeOK' /\ StatusTellsTruth'
  <2>1. /\ bits \in SUBSET Bits /\ drivers \in SUBSET Devices
        /\ fRxFIFO \in Seq(Byte) /\ Len(fRxFIFO) <= RxSize /\ Len(fTxFIFO) \in Nat
    BY NewRegisters, LenProperties DEF TypeOK
  <2>2. /\ bits' = bits /\ fTxFIFO' = fTxFIFO
        /\ status' \in SUBSET Statuses /\ pending' \in BOOLEAN
        /\ fRxFIFO' \in Seq(Byte) /\ Len(fRxFIFO') <= RxSize
        /\ buffer' \in [Devices -> Seq(Byte)]
        /\ lastRead' \in [Sources -> Nat]
        /\ StatusTellsTruth'
    BY <1>2, <2>1, Updated
  <2>3. QED
    BY <1>2, <2>2 DEF TypeOK, lines, Sources
<1>3. ASSUME NEW new \in SUBSET Bits, NEW on \in SUBSET Devices, NEW byte \in Nat,
             StateChanged(new, on, byte), sent' = (IF byte = 0 THEN sent ELSE byte),
             drivers' = on, open' = open, fNeedPostLoad' \in {fNeedPostLoad, TRUE},
             arrived' = arrived
      PROVE  TypeOK' /\ StatusTellsTruth'
  <2> DEFINE tx == Flushed("TX_ENABLE", new, fTxFIFO)
  <2>1. /\ bits' = new
        /\ status' \in SUBSET Statuses /\ pending' \in BOOLEAN
        /\ fRxFIFO' \in Seq(Byte) /\ Len(fRxFIFO') <= RxSize
        /\ buffer' \in [Devices -> Seq(Byte)]
        /\ lastRead' \in [Sources -> Nat]
        /\ StatusTellsTruth'
        /\ tx \in Seq(Nat) /\ Len(tx) <= TxSize
        /\ \/ fTxFIFO' = tx /\ lastOut' = lastOut
           \/ /\ Len(tx) < TxSize
              /\ \/ fTxFIFO' = Append(tx, byte) /\ lastOut' = lastOut
                 \/ fTxFIFO' = <<>> /\ lastOut' = byte
    BY <1>3, Changed
  <2> HIDE DEF tx
  <2>2. Len(tx) \in Nat /\ Append(tx, byte) \in Seq(Nat) /\ Len(Append(tx, byte)) = Len(tx) + 1
    BY <2>1, LenProperties, AppendProperties
  <2>3. fTxFIFO' \in Seq(Nat) /\ Len(fTxFIFO') <= TxSize /\ lastOut' \in Nat
    <3>1. fTxFIFO' \in Seq(Nat) /\ Len(fTxFIFO') <= TxSize
      <4>1. CASE fTxFIFO' = tx
        BY <2>1, <4>1
      <4>2. CASE fTxFIFO' = Append(tx, byte) /\ Len(tx) < TxSize
        BY <1>1, <2>2, <4>2
      <4>3. CASE fTxFIFO' = <<>>
        BY <1>1, <4>3
      <4>4. QED
        BY <2>1, <4>1, <4>2, <4>3
    <3>2. lastOut' \in Nat
      BY <2>1 DEF TypeOK
    <3>3. QED
      BY <3>1, <3>2
  <2>4. sent' \in Nat /\ arrived' \in Nat /\ fNeedPostLoad' \in BOOLEAN
    BY <1>3 DEF TypeOK
  <2>5. QED
    BY <1>3, <2>1, <2>3, <2>4 DEF TypeOK, Bits, Sources
<1>4. CASE LineDriverChanged
  <2>1. drivers' \in SUBSET Devices /\ open' \in SUBSET Devices
    BY <1>4 DEF LineDriverChanged, TypeOK
  <2>2. QED
    BY <1>4, <2>1 DEF LineDriverChanged, TypeOK, StatusTellsTruth, registers, fifos, history
<1>5. CASE SetTransports
  BY <1>1, <1>5 DEF SetTransports, TypeOK, StatusTellsTruth, registers, fifos, history
<1>6. CASE Arrive
  <2>1. PICK d \in open:
          /\ arrived' = arrived + 1
          /\ buffer' = [buffer EXCEPT ![d] = Append(@, [from |-> d, number |-> arrived + 1])]
    BY <1>6 DEF Arrive
  <2>2. d \in Devices /\ [from |-> d, number |-> arrived + 1] \in Byte
    BY DEF TypeOK, Byte
  <2>3. Append(buffer[d], [from |-> d, number |-> arrived + 1]) \in Seq(Byte)
    BY <2>2, AppendProperties DEF TypeOK
  <2>4. buffer' \in [Devices -> Seq(Byte)]
    BY <2>1, <2>2, <2>3 DEF TypeOK
  <2>5. QED
    BY <1>6, <2>1, <2>4 DEF Arrive, TypeOK, StatusTellsTruth, registers, fifos, lines
<1>7. CASE PostLoad
  BY <1>7 DEF PostLoad, TypeOK, StatusTellsTruth, registers, fifos, history
<1>8. CASE NewSession
  <2>1. StatusOf(0, 0) \in SUBSET Statuses /\ StatusOf(0 + 0, 0) = StatusOf(0, 0)
    BY DEF StatusOf, Statuses
  <2>2. Wanted({}, StatusOf(0, 0)) = FALSE
    BY DEF Wanted
  <2>3. status' = StatusOf(Len(fRxFIFO') + 0, Len(fTxFIFO')) /\ pending' = Wanted(bits', status')
    BY <1>1, <1>8, <2>1, <2>2 DEF NewSession
  <2>4. QED
    <3>1. /\ fRxFIFO' \in Seq(Byte) /\ Len(fRxFIFO') <= RxSize
          /\ fTxFIFO' \in Seq(Nat) /\ Len(fTxFIFO') <= TxSize
      BY <1>1, <1>8 DEF NewSession
    <3>2. drivers' \in SUBSET Devices /\ open' \in SUBSET Devices
      BY <1>8, DriverAssumption DEF NewSession
    <3>3. TypeOK'
      BY <1>8, <2>1, <3>1, <3>2 DEF NewSession, TypeOK, history
    <3>4. StatusTellsTruth'
      BY <2>3 DEF StatusTellsTruth
    <3>5. QED
      BY <3>3, <3>4
<1>9. CASE UNCHANGED vars
  BY <1>9 DEF vars, TypeOK, StatusTellsTruth, registers, fifos, lines, history
<1>10. QED
  BY <1>2, <1>3, <1>4, <1>5, <1>6, <1>7, <1>8, <1>9, Steps

\* Every variable keeps its type, and the FIFOs their size: Put's assertion holds whatever
\* is written to the registers.
THEOREM Typing == Spec => []TypeOK
BY InitTyped, NextTyped, PTL DEF Spec

\* The UART's bits and its interrupt always tell of the FIFOs as they are, or as they were
\* before the last byte was read.
THEOREM Truth == Spec => []StatusTellsTruth
BY InitTyped, NextTyped, PTL DEF Spec

-----------------------------------------------------------------------------
(* The transmitter. *)

\* A register access that only looks leaves the transmitter alone.
LEMMA Looked ==
  ASSUME TypeOK, NEW refresh \in BOOLEAN,
         UpdateState(bits, drivers, fRxFIFO, fTxFIFO, refresh)
  PROVE  bits' = bits /\ fTxFIFO' = fTxFIFO
BY DEF UpdateState

LEMMA NextDisabled ==
  ASSUME TypeOK, DisabledTransmitterIsEmpty, [Next]_vars
  PROVE  DisabledTransmitterIsEmpty'
<1>1. ASSUME NEW refresh \in BOOLEAN,
             UpdateState(bits, drivers, fRxFIFO, fTxFIFO, refresh)
      PROVE  DisabledTransmitterIsEmpty'
  BY <1>1, Looked DEF DisabledTransmitterIsEmpty
<1>2. ASSUME NEW new \in SUBSET Bits, NEW on \in SUBSET Devices, NEW byte \in Nat,
             StateChanged(new, on, byte)
      PROVE  DisabledTransmitterIsEmpty'
  <2> DEFINE tx == Flushed("TX_ENABLE", new, fTxFIFO)
  <2>1. /\ bits' = new
        /\ fTxFIFO' = tx \/ "TX_ENABLE" \in new
    BY <1>2, Changed
  <2>2. "TX_ENABLE" \notin new => tx = <<>>
    BY DEF Flushed, DisabledTransmitterIsEmpty
  <2>3. QED
    BY <2>1, <2>2 DEF DisabledTransmitterIsEmpty
<1>3. CASE LineDriverChanged \/ SetTransports \/ Arrive \/ PostLoad
  BY <1>3, Aside DEF DisabledTransmitterIsEmpty, registers, fifos
<1>4. CASE NewSession
  BY <1>4 DEF NewSession, DisabledTransmitterIsEmpty
<1>5. CASE UNCHANGED vars
  BY <1>5 DEF vars, registers, fifos, DisabledTransmitterIsEmpty
<1>6. QED
  BY <1>1, <1>2, <1>3, <1>4, <1>5, Steps

\* Nothing is left in the FIFO of a transmitter that is disabled: StateChanged flushes it
\* when the bit falls, in a write, a reset or a load, and queues only when the bit is set.
THEOREM Disabling == Spec => []DisabledTransmitterIsEmpty
<1>1. Init => DisabledTransmitterIsEmpty
  BY DEF Init, DisabledTransmitterIsEmpty
<1>2. TypeOK /\ DisabledTransmitterIsEmpty /\ [Next]_vars => DisabledTransmitterIsEmpty'
  BY NextDisabled
<1>3. QED
  BY <1>1, <1>2, Typing, PTL DEF Spec

\* What is queued or went out was sent: the next byte is later than all of these.
Outgoing ==
  /\ lastOut <= sent
  /\ \A i \in 1..Len(fTxFIFO): fTxFIFO[i] <= sent
  /\ SentInOrder

LEMMA NextOutgoing ==
  ASSUME TypeOK, Outgoing, [Next]_vars
  PROVE  Outgoing'
<1>1. /\ sent \in Nat /\ lastOut \in Nat
      /\ fTxFIFO \in Seq(Nat) /\ Len(fTxFIFO) \in Nat
      /\ \A i \in 1..Len(fTxFIFO): fTxFIFO[i] \in Nat
  BY LenProperties, ElementOfSeq DEF TypeOK
<1>2. ASSUME UNCHANGED <<fTxFIFO, sent, lastOut>>
      PROVE  Outgoing'
  BY <1>2 DEF Outgoing, SentInOrder
<1>3. ASSUME fTxFIFO' = <<>>, lastOut' \in Nat, sent' \in Nat, lastOut' <= sent'
      PROVE  Outgoing'
  <2>1. Len(fTxFIFO') = 0
    BY <1>3
  <2>2. QED
    BY <1>3, <2>1 DEF Outgoing, SentInOrder
<1>4. ASSUME NEW refresh \in BOOLEAN,
             UpdateState(bits, drivers, fRxFIFO, fTxFIFO, refresh),
             UNCHANGED <<lines, fNeedPostLoad, arrived, sent, lastOut>>
      PROVE  Outgoing'
  BY <1>2, <1>4, Looked
<1>5. ASSUME NEW new \in SUBSET Bits, NEW on \in SUBSET Devices, NEW byte \in Nat,
             StateChanged(new, on, byte),
             byte \in {0, sent + 1}, sent' = (IF byte = 0 THEN sent ELSE byte)
      PROVE  Outgoing'
  <2> DEFINE tx == Flushed("TX_ENABLE", new, fTxFIFO)
  <2>1. \/ fTxFIFO' = tx /\ lastOut' = lastOut
        \/ /\ byte # 0
           /\ \/ fTxFIFO' = Append(tx, byte) /\ lastOut' = lastOut
              \/ fTxFIFO' = <<>> /\ lastOut' = byte
    BY <1>5, Changed
  <2>2. tx = fTxFIFO \/ tx = <<>>
    BY DEF Flushed
  <2>3. /\ tx \in Seq(Nat) /\ Len(tx) \in Nat
        /\ \A i \in 1..Len(tx): /\ tx[i] \in Nat /\ tx[i] <= sent /\ lastOut < tx[i]
                                /\ \A j \in 1..(i - 1): tx[j] < tx[i]
    <3>1. CASE tx = fTxFIFO
      <4> HIDE DEF tx
      <4>1. QED
        BY <1>1, <3>1 DEF Outgoing, SentInOrder
    <3>2. CASE tx = <<>>
      <4> HIDE DEF tx
      <4>1. tx \in Seq(Nat) /\ Len(tx) = 0
        BY <3>2, EmptySeq
      <4>2. QED
        BY <4>1
    <3>3. QED
      BY <2>2, <3>1, <3>2
  <2> HIDE DEF tx
  <2>4. CASE fTxFIFO' = tx /\ lastOut' = lastOut
    <3>1. sent' \in Nat /\ sent <= sent'
      BY <1>1, <1>5
    <3>2. \A i \in 1..Len(fTxFIFO'): fTxFIFO'[i] <= sent'
      BY <1>1, <2>3, <2>4, <3>1
    <3>3. SentInOrder'
      BY <2>3, <2>4 DEF SentInOrder
    <3>4. QED
      BY <1>1, <2>4, <3>1, <3>2, <3>3 DEF Outgoing
  <2>5. CASE byte # 0 /\ fTxFIFO' = Append(tx, byte) /\ lastOut' = lastOut
    <3>1. byte = sent + 1 /\ sent' = byte
      BY <1>5, <2>5
    <3>2. /\ Len(fTxFIFO') = Len(tx) + 1
          /\ \A i \in 1..Len(tx): fTxFIFO'[i] = tx[i]
          /\ fTxFIFO'[Len(tx) + 1] = byte
      BY <2>3, <2>5, AppendProperties
    <3>3. ASSUME NEW i \in 1..Len(fTxFIFO')
          PROVE  /\ fTxFIFO'[i] <= sent' /\ lastOut' < fTxFIFO'[i]
                 /\ \A j \in 1..(i - 1): fTxFIFO'[j] < fTxFIFO'[i]
      <4>1. CASE i \in 1..Len(tx)
        BY <1>1, <2>3, <2>5, <3>1, <3>2, <4>1
      <4>2. CASE i = Len(tx) + 1
        <5>1. fTxFIFO'[i] = sent + 1
          BY <3>1, <3>2, <4>2
        <5>2. \A j \in 1..(i - 1): fTxFIFO'[j] <= sent /\ fTxFIFO'[j] \in Nat
          BY <2>3, <3>2, <4>2
        <5>3. lastOut' <= sent
          BY <2>5 DEF Outgoing
        <5>4. QED
          BY <1>1, <2>5, <3>1, <5>1, <5>2, <5>3
      <4>3. QED
        BY <2>3, <3>2, <4>1, <4>2
    <3>4. lastOut' <= sent'
      BY <1>1, <2>5, <3>1 DEF Outgoing
    <3>5. QED
      BY <3>3, <3>4 DEF Outgoing, SentInOrder
  <2>6. CASE byte # 0 /\ fTxFIFO' = <<>> /\ lastOut' = byte
    BY <1>1, <1>3, <1>5, <2>6
  <2>7. QED
    BY <2>1, <2>4, <2>5, <2>6
<1>6. CASE LineDriverChanged \/ SetTransports \/ Arrive \/ PostLoad
  BY <1>2, <1>6, Aside DEF fifos
<1>7. CASE NewSession
  <2>1. lastOut <= sent
    BY DEF Outgoing
  <2>2. fTxFIFO' = <<>> /\ lastOut' = lastOut /\ sent' = sent
    BY <1>7 DEF NewSession, history
  <2>3. QED
    BY <1>1, <1>3, <2>1, <2>2
<1>8. CASE UNCHANGED vars
  BY <1>2, <1>8 DEF vars, fifos, history
<1>9. QED
  BY <1>4, <1>5, <1>6, <1>7, <1>8, Steps

\* What the software sends goes out in order and none of it twice.  Outgoing is needed
\* because SentInOrder alone does not say that a byte to come is a later one.
THEOREM Sending == Spec => []SentInOrder
<1>1. Init => Outgoing
  <2> SUFFICES ASSUME Init PROVE Outgoing
    OBVIOUS
  <2>1. Len(fTxFIFO) = 0 /\ lastOut = 0 /\ sent = 0
    BY DEF Init
  <2>2. QED
    BY <2>1 DEF Outgoing, SentInOrder
<1>2. TypeOK /\ Outgoing /\ [Next]_vars => Outgoing'
  BY NextOutgoing
<1>3. Outgoing => SentInOrder
  BY DEF Outgoing
<1>4. QED
  BY <1>1, <1>2, <1>3, Typing, PTL DEF Spec

\* One step of AvailableMeansAccepted.
Accepts ==
  (/\ sent' # sent /\ "TX_AVAIL" \in status
   /\ {"UART_ENABLE", "TX_ENABLE"} \subseteq bits' /\ "LOOP" \notin bits'
   /\ UARTDevice(drivers) \in open \/ "IGNORE_CTS" \notin bits')
  => lastOut' = sent' \/ \E i \in 1..Len(fTxFIFO'): fTxFIFO'[i] = sent'

\* Nothing but a write to TX_DATA sends.
LEMMA OnlyWritesSend ==
  ASSUME [Next]_vars, sent' # sent
  PROVE  \E new \in {bits \cup {"IGNORE_CTS"}, bits \ {"IGNORE_CTS"}}:
           StateChanged(new, drivers, sent + 1) /\ sent' = sent + 1
<1>1. CASE WriteTransmit
  BY <1>1 DEF WriteTransmit
<1>2. CASE CycleSlowly \/ ReadReceive \/ WriteControl \/ Reset \/ Load
  BY <1>2 DEF CycleSlowly, ReadReceive, WriteControl, Reset, Load
<1>3. CASE LineDriverChanged \/ SetTransports \/ Arrive \/ PostLoad
  BY <1>3, Aside
<1>4. CASE NewSession \/ UNCHANGED vars
  BY <1>4 DEF NewSession, vars, history
<1>5. QED
  BY <1>1, <1>2, <1>3, <1>4 DEF Next

\* A device that heeds TX_AVAIL loses no byte.  It rests on Truth: the bit tells of the
\* FIFO as it is, whoever looked last.
THEOREM Accepting == Spec => AvailableMeansAccepted
<1>1. TypeOK /\ StatusTellsTruth /\ [Next]_vars => Accepts
  <2> SUFFICES ASSUME TypeOK, StatusTellsTruth, [Next]_vars,
                      sent' # sent, "TX_AVAIL" \in status,
                      {"UART_ENABLE", "TX_ENABLE"} \subseteq bits', "LOOP" \notin bits',
                      UARTDevice(drivers) \in open \/ "IGNORE_CTS" \notin bits'
               PROVE  lastOut' = sent' \/ \E i \in 1..Len(fTxFIFO'): fTxFIFO'[i] = sent'
    BY DEF Accepts
  <2>1. PICK new \in {bits \cup {"IGNORE_CTS"}, bits \ {"IGNORE_CTS"}}:
          StateChanged(new, drivers, sent + 1) /\ sent' = sent + 1
    BY OnlyWritesSend
  <2> DEFINE byte == sent + 1
             tx == Flushed("TX_ENABLE", new, fTxFIFO)
  <2>2. /\ byte \in Nat /\ byte # 0 /\ new \in SUBSET Bits /\ drivers \in SUBSET Devices
        /\ TxSize \in Nat /\ Len(fTxFIFO) \in Nat
    BY NewRegisters, LenProperties, SizeAssumption DEF TypeOK
  <2>3. bits' = new /\ tx \in Seq(Nat) /\ Len(tx) <= TxSize
    BY <2>1, <2>2, Changed
  <2>4. Len(fTxFIFO) < TxSize
    BY <2>2 DEF StatusTellsTruth, StatusOf
  <2>5. Len(tx) < TxSize
    <3>1. tx = fTxFIFO \/ (tx = <<>> /\ Len(<<>>) = 0)
      BY EmptySeq DEF Flushed
    <3>2. QED
      BY <2>2, <2>4, <3>1, SizeAssumption
  <2>6. Queued(new, drivers, byte, tx)
    <3> HIDE DEF tx
    <3>1. Len(tx) \in Nat
      BY <2>3, LenProperties
    <3>2. GetFree(tx, TxSize) > 0
      BY <2>2, <2>5, <3>1 DEF GetFree
    <3>3. Transmits(new, byte)
      BY <2>2, <2>3 DEF Transmits
    <3>4. QED
      BY <2>3, <3>2, <3>3 DEF Queued
  <2>7. /\ Len(Append(tx, byte)) = Len(tx) + 1 /\ Append(tx, byte)[Len(tx) + 1] = byte
        /\ Len(tx) \in Nat
    <3> HIDE DEF tx, byte
    <3>1. QED
      BY <2>2, <2>3, AppendProperties, LenProperties
  <2>8. fTxFIFO' = Append(tx, byte) \/ lastOut' = byte
    <3>1. TransmitTxFIFO(Put(tx, byte)).out = byte
      <4> HIDE DEF tx, byte
      <4>1. QED
        BY <2>7 DEF TransmitTxFIFO, Put
    <3>2. fTxFIFO' = Put(tx, byte) \/ lastOut' = TransmitTxFIFO(Put(tx, byte)).out
      BY <2>1, <2>6 DEF StateChanged, UpdateState
    <3>3. QED
      BY <3>1, <3>2 DEF Put
  <2>9. CASE fTxFIFO' = Append(tx, byte)
    <3> HIDE DEF tx
    <3>1. Len(tx) + 1 \in 1..Len(fTxFIFO') /\ fTxFIFO'[Len(tx) + 1] = sent'
      BY <2>1, <2>7, <2>9
    <3>2. QED
      BY <3>1
  <2>10. QED
    BY <2>1, <2>8, <2>9
<1>2. Accepts => [Accepts]_vars
  OBVIOUS
<1>3. AvailableMeansAccepted <=> [][Accepts]_vars
  BY DEF AvailableMeansAccepted, Accepts
<1>4. QED
  BY <1>1, <1>3, Typing, Truth, PTL DEF Spec

-----------------------------------------------------------------------------
(* The receiver. *)

\* What is in the buffers is ordered, after all that was read from the same device ...
BuffersOrdered(buf, last) ==
  \A d \in Devices: \A k \in 1..Len(buf[d]):
    /\ buf[d][k].from = d /\ last[d] < buf[d][k].number /\ buf[d][k].number <= arrived
    /\ \A j \in 1..(k - 1): buf[d][j].number < buf[d][k].number

\* ... and so is what is in the FIFO, of which everything precedes the buffers.  out bounds
\* the bytes that were looped back, arrived the others.
FIFOOrdered(fifo, buf, last, out) ==
  \A i \in 1..Len(fifo):
    /\ last[fifo[i].from] < fifo[i].number
    /\ fifo[i].number <= (IF fifo[i].from = "loop" THEN out ELSE arrived)
    /\ \A j \in 1..(i - 1): fifo[j].from = fifo[i].from => fifo[j].number < fifo[i].number
    /\ \A d \in Devices: \A k \in 1..Len(buf[d]):
         fifo[i].from = d => fifo[i].number < buf[d][k].number

\* Nothing that was read is later than what came.
ReadBefore(last, out) == last["loop"] <= out /\ \A d \in Devices: last[d] <= arrived

InLine(fifo, buf, last, out) ==
  BuffersOrdered(buf, last) /\ FIFOOrdered(fifo, buf, last, out) /\ ReadBefore(last, out)

\* Elements of sequences of bytes are bytes.
LEMMA Bytes ==
  ASSUME NEW s \in Seq(Byte)
  PROVE  /\ Len(s) \in Nat
         /\ \A i \in 1..Len(s): s[i] \in Byte /\ s[i].from \in Sources /\ s[i].number \in Nat
<1>1. Len(s) \in Nat /\ \A i \in 1..Len(s): s[i] \in Byte
  BY LenProperties, ElementOfSeq
<1>2. QED
  BY <1>1 DEF Byte, Sources

\* ReceiveRxFIFO moves the head of a buffer behind the FIFO.
LEMMA ReceivedInLine ==
  ASSUME TypeOK, NEW on \in SUBSET Devices, NEW out \in Nat,
         NEW rx \in Seq(Byte), Len(rx) <= RxSize, InLine(rx, buffer, lastRead, out)
  PROVE  LET r == ReceiveRxFIFO(rx, UARTDevice(on)) IN
           InLine(r.fifo, r.buffer, lastRead, out)
<1> DEFINE d == UARTDevice(on)
           b == buffer[d]
           n == BytesToBuffer(rx, d)
           fifo == rx \o SubSeq(b, 1, n)
           buf == [buffer EXCEPT ![d] = SubSeq(b, n + 1, Len(b))]
<1>1. CASE MayReceive(d)
  <2>1. d \in Devices
    BY <1>1 DEF MayReceive, TypeOK
  <2>2. /\ b \in Seq(Byte) /\ Len(b) \in Nat /\ Len(rx) \in Nat /\ RxSize \in Nat
        /\ \A i \in 1..Len(b): b[i] \in Byte /\ b[i].from \in Sources /\ b[i].number \in Nat
        /\ \A i \in 1..Len(rx): rx[i] \in Byte /\ rx[i].from \in Sources /\ rx[i].number \in Nat
        /\ arrived \in Nat
    BY <2>1, Bytes, SizeAssumption DEF TypeOK
  <2>3. n \in Nat /\ n <= Len(b)
    BY <2>2 DEF BytesToBuffer, GetFree
  <2>4. ReceiveRxFIFO(rx, d).fifo = fifo /\ ReceiveRxFIFO(rx, d).buffer = buf
    BY <1>1 DEF ReceiveRxFIFO
  <2>5. /\ SubSeq(b, 1, n) \in Seq(Byte) /\ Len(SubSeq(b, 1, n)) = n
        /\ \A i \in 1..n: SubSeq(b, 1, n)[i] = b[i]
    <3> HIDE DEF n, b
    <3>1. 1 \in Int /\ n \in Int /\ \A i \in 1..n: b[i] \in Byte
      BY <2>2, <2>3
    <3>2. QED
      BY <3>1, <2>3, SubSeqProperties
  <2>6. /\ SubSeq(b, n + 1, Len(b)) \in Seq(Byte)
        /\ Len(SubSeq(b, n + 1, Len(b))) = Len(b) - n
        /\ \A k \in 1..(Len(b) - n): SubSeq(b, n + 1, Len(b))[k] = b[n + k]
    <3> HIDE DEF n, b
    <3>1. /\ n + 1 \in Int /\ Len(b) \in Int
          /\ \A i \in (n + 1)..Len(b): b[i] \in Byte
      BY <2>2, <2>3
    <3>2. /\ SubSeq(b, n + 1, Len(b)) \in Seq(Byte)
          /\ Len(SubSeq(b, n + 1, Len(b))) = IF n + 1 <= Len(b) THEN Len(b) - (n + 1) + 1 ELSE 0
          /\ \A k \in 1..(Len(b) - (n + 1) + 1): SubSeq(b, n + 1, Len(b))[k] = b[n + 1 + k - 1]
      BY <3>1, SubSeqProperties
    <3>3. Len(SubSeq(b, n + 1, Len(b))) = Len(b) - n
      BY <2>2, <2>3, <3>2
    <3>4. ASSUME NEW k \in 1..(Len(b) - n)
          PROVE  SubSeq(b, n + 1, Len(b))[k] = b[n + k]
      <4>1. k \in 1..(Len(b) - (n + 1) + 1) /\ n + 1 + k - 1 = n + k
        BY <2>2, <2>3
      <4>2. SubSeq(b, n + 1, Len(b))[k] = b[n + 1 + k - 1]
        BY <3>2, <4>1
      <4>3. QED
        BY <4>1, <4>2
    <3>5. QED
      BY <3>2, <3>3, <3>4
  <2>7. /\ Len(fifo) = Len(rx) + n
        /\ \A i \in 1..Len(rx): fifo[i] = rx[i]
        /\ \A i \in (Len(rx) + 1)..(Len(rx) + n):
             fifo[i] = b[i - Len(rx)] /\ i - Len(rx) \in 1..n
    <3> HIDE DEF n, b
    <3>1. /\ Len(fifo) = Len(rx) + n
          /\ \A i \in 1..Len(rx): fifo[i] = rx[i]
          /\ \A i \in (Len(rx) + 1)..(Len(rx) + n):
               fifo[i] = SubSeq(b, 1, n)[i - Len(rx)]
      BY <2>5, ConcatProperties
    <3>2. \A i \in (Len(rx) + 1)..(Len(rx) + n): i - Len(rx) \in 1..n
      BY <2>2, <2>3
    <3>3. QED
      BY <2>5, <3>1, <3>2
  <2>8. /\ \A e \in Devices: e # d => buf[e] = buffer[e]
        /\ Len(buf[d]) = Len(b) - n
        /\ \A k \in 1..Len(buf[d]): buf[d][k] = b[n + k] /\ n + k \in 1..Len(b)
    <3> HIDE DEF n, b, d
    <3>1. buf[d] = SubSeq(b, n + 1, Len(b)) /\ \A e \in Devices: e # d => buf[e] = buffer[e]
      BY <2>1 DEF TypeOK
    <3>2. \A k \in 1..(Len(b) - n): n + k \in 1..Len(b)
      BY <2>2, <2>3
    <3>3. QED
      BY <2>6, <3>1, <3>2
  <2>9. \A k \in 1..Len(b):
          /\ b[k].from = d /\ lastRead[d] < b[k].number /\ b[k].number <= arrived
          /\ \A j \in 1..(k - 1): b[j].number < b[k].number
          /\ \A i \in 1..Len(rx): rx[i].from = d => rx[i].number < b[k].number
    BY <2>1 DEF InLine, BuffersOrdered, FIFOOrdered
  <2>10. d # "loop"
    BY <2>1 DEF Devices
  <2> HIDE DEF n, b, d, fifo, buf
  <2>11. BuffersOrdered(buf, lastRead)
    <3> SUFFICES ASSUME NEW e \in Devices, NEW k \in 1..Len(buf[e])
                 PROVE  /\ buf[e][k].from = e /\ lastRead[e] < buf[e][k].number
                        /\ buf[e][k].number <= arrived
                        /\ \A j \in 1..(k - 1): buf[e][j].number < buf[e][k].number
      BY DEF BuffersOrdered
    <3>1. CASE e # d
      BY <2>8, <3>1 DEF InLine, BuffersOrdered
    <3>2. CASE e = d
      <4>1. buf[d][k] = b[n + k] /\ n + k \in 1..Len(b)
        BY <2>8, <3>2
      <4>2. ASSUME NEW j \in 1..(k - 1)
            PROVE  buf[d][j].number < buf[d][k].number
        <5>1. j \in 1..Len(buf[d]) /\ n + j \in 1..((n + k) - 1)
          BY <2>2, <2>3, <2>8, <3>2
        <5>2. \A l \in 1..((n + k) - 1): b[l].number < b[n + k].number
          BY <2>9, <4>1
        <5>3. QED
          BY <2>8, <4>1, <5>1, <5>2
      <4>3. QED
        BY <2>8, <2>9, <3>2, <4>2
    <3>3. QED
      BY <3>1, <3>2
  <2>12. FIFOOrdered(fifo, buf, lastRead, out)
    <3> SUFFICES ASSUME NEW i \in 1..Len(fifo)
                 PROVE  /\ lastRead[fifo[i].from] < fifo[i].number
                        /\ fifo[i].number <= (IF fifo[i].from = "loop" THEN out ELSE arrived)
                        /\ \A j \in 1..(i - 1):
                             fifo[j].from = fifo[i].from => fifo[j].number < fifo[i].number
                        /\ \A e \in Devices: \A k \in 1..Len(buf[e]):
                             fifo[i].from = e => fifo[i].number < buf[e][k].number
      BY DEF FIFOOrdered
    <3>1. CASE i \in 1..Len(rx)
      <4>1. \A j \in 1..(i - 1): j \in 1..Len(rx)
        BY <2>2, <3>1
      <4>2. /\ lastRead[rx[i].from] < rx[i].number
            /\ rx[i].number <= (IF rx[i].from = "loop" THEN out ELSE arrived)
            /\ \A j \in 1..(i - 1): rx[j].from = rx[i].from => rx[j].number < rx[i].number
            /\ \A e \in Devices: \A k \in 1..Len(buffer[e]):
                 rx[i].from = e => rx[i].number < buffer[e][k].number
        BY <3>1 DEF InLine, FIFOOrdered
      <4>3. ASSUME NEW e \in Devices, NEW k \in 1..Len(buf[e]), rx[i].from = e
            PROVE  rx[i].number < buf[e][k].number
        BY <2>8, <2>9, <3>1, <4>2, <4>3
      <4>4. QED
        BY <2>7, <3>1, <4>1, <4>2, <4>3
    <3>2. CASE i \in (Len(rx) + 1)..(Len(rx) + n)
      <4> DEFINE m == i - Len(rx)
      <4>1. fifo[i] = b[m] /\ m \in 1..n /\ m \in 1..Len(b)
        BY <2>2, <2>3, <2>7, <3>2
      <4>2. b[m].from = d /\ lastRead[d] < b[m].number /\ b[m].number <= arrived
        BY <2>9, <4>1
      <4>3. ASSUME NEW j \in 1..(i - 1), fifo[j].from = d
            PROVE  fifo[j].number < b[m].number
        <5>1. CASE j \in 1..Len(rx)
          BY <2>7, <2>9, <4>1, <4>3, <5>1
        <5>2. CASE j \in (Len(rx) + 1)..(Len(rx) + n)
          <6>1. fifo[j] = b[j - Len(rx)] /\ j - Len(rx) \in 1..(m - 1)
            BY <2>2, <2>3, <2>7, <3>2, <5>2
          <6>2. QED
            BY <2>9, <4>1, <6>1
        <5>3. j \in 1..Len(rx) \/ j \in (Len(rx) + 1)..(Len(rx) + n)
          BY <2>2, <2>3, <3>2
        <5>4. QED
          BY <5>1, <5>2, <5>3
      <4>4. ASSUME NEW k \in 1..Len(buf[d])
            PROVE  b[m].number < buf[d][k].number
        <5> HIDE DEF m
        <5>1. buf[d][k] = b[n + k] /\ n + k \in 1..Len(b) /\ m \in 1..((n + k) - 1)
          BY <2>2, <2>3, <2>8, <4>1
        <5>2. \A l \in 1..((n + k) - 1): b[l].number < b[n + k].number
          BY <2>9, <5>1
        <5>3. QED
          BY <5>1, <5>2
      <4> HIDE DEF m
      <4>5. QED
        BY <2>10, <4>1, <4>2, <4>3, <4>4
    <3>3. QED
      BY <2>2, <2>3, <2>7, <3>1, <3>2
  <2>13. QED
    BY <2>4, <2>11, <2>12 DEF InLine, d
<1>2. CASE ~MayReceive(d)
  BY <1>2 DEF ReceiveRxFIFO
<1>3. QED
  BY <1>1, <1>2

\* Get takes the first byte of the FIFO, which thereby becomes the last that was read.
LEMMA ReadInLine ==
  ASSUME NEW fifo \in Seq(Byte), fifo # <<>>, NEW buf \in [Devices -> Seq(Byte)],
         NEW last \in [Sources -> Nat], NEW out \in Nat, arrived \in Nat,
         InLine(fifo, buf, last, out)
  PROVE  InLine(Tail(fifo), buf,
                [last EXCEPT ![Head(fifo).from] = Head(fifo).number], out)
<1> DEFINE rest == Tail(fifo)
           byte == Head(fifo)
           read == [last EXCEPT ![byte.from] = byte.number]
<1>1. /\ Len(fifo) \in Nat /\ Len(fifo) >= 1
      /\ \A i \in 1..Len(fifo): fifo[i] \in Byte /\ fifo[i].from \in Sources /\ fifo[i].number \in Nat
  BY Bytes, EmptySeq
<1>2. byte = fifo[1] /\ byte.from \in Sources /\ byte.number \in Nat
  <2>1. byte = fifo[1]
    BY HeadTailProperties
  <2>2. QED
    BY <1>1, <2>1
<1>3. /\ Len(rest) = Len(fifo) - 1
      /\ \A i \in 1..Len(rest): rest[i] = fifo[i + 1] /\ i + 1 \in 1..Len(fifo)
  <2>1. Len(rest) = Len(fifo) - 1 /\ \A i \in 1..Len(rest): rest[i] = fifo[i + 1]
    BY HeadTailProperties
  <2>2. QED
    BY <1>1, <2>1
<1>4. \A f \in Sources: read[f] = (IF f = byte.from THEN byte.number ELSE last[f])
  OBVIOUS
<1>5. \A d \in Devices: d \in Sources /\ d # "loop"
  BY DEF Devices, Sources
<1>6. \A i \in 1..Len(fifo):
        /\ last[fifo[i].from] < fifo[i].number
        /\ fifo[i].number <= (IF fifo[i].from = "loop" THEN out ELSE arrived)
        /\ \A j \in 1..(i - 1): fifo[j].from = fifo[i].from => fifo[j].number < fifo[i].number
        /\ \A d \in Devices: \A k \in 1..Len(buf[d]):
             fifo[i].from = d => fifo[i].number < buf[d][k].number
  BY DEF InLine, FIFOOrdered
<1> HIDE DEF rest, byte, read
<1>7. BuffersOrdered(buf, read)
  <2> SUFFICES ASSUME NEW d \in Devices, NEW k \in 1..Len(buf[d])
               PROVE  read[d] < buf[d][k].number
    BY DEF InLine, BuffersOrdered
  <2>1. last[d] < buf[d][k].number
    BY DEF InLine, BuffersOrdered
  <2>2. fifo[1].from = d => fifo[1].number < buf[d][k].number
    BY <1>1, <1>6
  <2>3. QED
    BY <1>2, <1>4, <1>5, <2>1, <2>2
<1>8. FIFOOrdered(rest, buf, read, out)
  <2> SUFFICES ASSUME NEW i \in 1..Len(rest)
               PROVE  /\ read[rest[i].from] < rest[i].number
                      /\ rest[i].number <= (IF rest[i].from = "loop" THEN out ELSE arrived)
                      /\ \A j \in 1..(i - 1): rest[j].from = rest[i].from => rest[j].number < rest[i].number
                      /\ \A d \in Devices: \A k \in 1..Len(buf[d]):
                           rest[i].from = d => rest[i].number < buf[d][k].number
    BY DEF FIFOOrdered
  <2>1. rest[i] = fifo[i + 1] /\ i + 1 \in 1..Len(fifo) /\ rest[i].from \in Sources
    BY <1>1, <1>3
  <2>2. /\ last[rest[i].from] < rest[i].number
        /\ rest[i].number <= (IF rest[i].from = "loop" THEN out ELSE arrived)
        /\ \A l \in 1..((i + 1) - 1): fifo[l].from = rest[i].from => fifo[l].number < rest[i].number
        /\ \A d \in Devices: \A k \in 1..Len(buf[d]):
             rest[i].from = d => rest[i].number < buf[d][k].number
    BY <1>6, <2>1
  <2>3. 1 \in 1..((i + 1) - 1)
    BY <1>1, <1>3
  <2>4. read[rest[i].from] < rest[i].number
    BY <1>2, <1>4, <2>1, <2>2, <2>3
  <2>5. ASSUME NEW j \in 1..(i - 1), rest[j].from = rest[i].from
        PROVE  rest[j].number < rest[i].number
    <3>1. j \in 1..Len(rest) /\ j + 1 \in 1..((i + 1) - 1)
      BY <1>1, <1>3
    <3>2. QED
      BY <1>3, <2>2, <2>5, <3>1
  <2>6. QED
    BY <2>2, <2>4, <2>5
<1>9. ReadBefore(read, out)
  <2>1. byte.number <= (IF byte.from = "loop" THEN out ELSE arrived)
    BY <1>1, <1>2, <1>6
  <2>2. "loop" \in Sources
    BY DEF Sources
  <2>3. QED
    BY <1>2, <1>4, <1>5, <2>1, <2>2 DEF InLine, ReadBefore
<1>10. QED
  BY <1>7, <1>8, <1>9 DEF InLine, rest, read, byte

\* UpdateState receives, and may read a byte.
LEMMA UpdatedInLine ==
  ASSUME TypeOK, NEW new, NEW on \in SUBSET Devices, NEW out \in Nat,
         NEW rx \in Seq(Byte), Len(rx) <= RxSize, NEW tx, NEW refresh \in BOOLEAN,
         InLine(rx, buffer, lastRead, out),
         UpdateState(new, on, rx, tx, refresh)
  PROVE  InLine(fRxFIFO', buffer', lastRead', out)
<1> DEFINE r == ReceiveRxFIFO(rx, UARTDevice(on))
           state == StatusOf(Len(r.fifo), Len(tx))
           byte == Head(r.fifo)
<1>1. r.fifo \in Seq(Byte) /\ r.buffer \in [Devices -> Seq(Byte)] /\ Len(r.fifo) \in Nat
  BY Received, LenProperties
<1>2. InLine(r.fifo, r.buffer, lastRead, out)
  BY ReceivedInLine
<1>3. buffer' = r.buffer
  BY DEF UpdateState
<1>4. \/ fRxFIFO' = r.fifo /\ lastRead' = lastRead
      \/ /\ "DATA_READY" \in state
         /\ fRxFIFO' = Tail(r.fifo)
         /\ lastRead' = [lastRead EXCEPT ![byte.from] = byte.number]
  BY DEF UpdateState, Get
<1>5. "DATA_READY" \in state => r.fifo # <<>>
  <2>1. "DATA_READY" \in state => Len(r.fifo) > 0
    BY DEF StatusOf
  <2>2. Len(<<>>) = 0
    BY EmptySeq
  <2> HIDE DEF r, state
  <2>3. QED
    BY <2>1, <2>2
<1>6. lastRead \in [Sources -> Nat] /\ arrived \in Nat
  BY DEF TypeOK, Sources
<1> HIDE DEF r, state
<1>7. CASE fRxFIFO' = r.fifo /\ lastRead' = lastRead
  BY <1>2, <1>3, <1>7
<1>8. CASE /\ "DATA_READY" \in state
           /\ fRxFIFO' = Tail(r.fifo)
           /\ lastRead' = [lastRead EXCEPT ![byte.from] = byte.number]
  BY <1>1, <1>2, <1>3, <1>5, <1>6, <1>8, ReadInLine
<1>9. QED
  BY <1>4, <1>7, <1>8

\* StateChanged flushes, and loops back a byte that is later than all that came before.
LEMMA ChangedInLine ==
  ASSUME TypeOK, NEW new \in SUBSET Bits, NEW on \in SUBSET Devices, NEW byte \in Nat,
         byte \in {0, sent + 1}, sent' = (IF byte = 0 THEN sent ELSE byte),
         arrived' = arrived,
         InLine(fRxFIFO, buffer, lastRead, sent),
         StateChanged(new, on, byte)
  PROVE  InLine(fRxFIFO, buffer, lastRead, sent)'
<1> DEFINE rx0 == Flushed("RX_ENABLE", new, fRxFIFO)
           loop == [from |-> "loop", number |-> byte]
           rx == LoopBack(new, byte, rx0)
<1>1. /\ RxSize \in Nat /\ sent \in Nat /\ sent' \in Nat /\ sent <= sent' /\ arrived \in Nat
      /\ buffer \in [Devices -> Seq(Byte)]
  BY SizeAssumption DEF TypeOK
<1>2. /\ rx0 \in Seq(Byte) /\ Len(rx0) <= RxSize /\ Len(rx0) \in Nat
      /\ \A i \in 1..Len(rx0): rx0[i].from \in Sources /\ rx0[i].number \in Nat
      /\ FIFOOrdered(rx0, buffer, lastRead, sent)
  <2>1. CASE rx0 = fRxFIFO
    <3> HIDE DEF rx0
    <3>1. QED
      BY <2>1, Bytes DEF TypeOK, InLine
  <2>2. CASE rx0 = <<>>
    <3> HIDE DEF rx0
    <3>1. rx0 \in Seq(Byte) /\ Len(rx0) = 0
      BY <2>2, EmptySeq
    <3>2. QED
      BY <1>1, <3>1 DEF FIFOOrdered
  <2>3. QED
    BY <2>1, <2>2 DEF Flushed
<1>3. \/ rx = rx0
      \/ byte # 0 /\ rx = Append(rx0, loop) /\ RxSize - Len(rx0) > 0
  BY DEF LoopBack, Transmits, Put, GetFree
<1> HIDE DEF rx0, rx
<1>4. FIFOOrdered(rx0, buffer, lastRead, sent')
  <2> SUFFICES ASSUME NEW i \in 1..Len(rx0)
               PROVE  rx0[i].number <= (IF rx0[i].from = "loop" THEN sent' ELSE arrived)
    BY <1>2 DEF FIFOOrdered
  <2>1. rx0[i].number <= (IF rx0[i].from = "loop" THEN sent ELSE arrived) /\ rx0[i].number \in Nat
    BY <1>2 DEF FIFOOrdered
  <2>2. QED
    BY <1>1, <2>1
<1>5. ReadBefore(lastRead, sent')
  <2>1. lastRead["loop"] \in Nat /\ lastRead["loop"] <= sent
    BY DEF TypeOK, InLine, ReadBefore
  <2>2. QED
    BY <1>1, <2>1 DEF InLine, ReadBefore
<1>6. rx \in Seq(Byte) /\ Len(rx) <= RxSize /\ FIFOOrdered(rx, buffer, lastRead, sent')
  <2>1. CASE rx = rx0
    BY <1>2, <1>4, <2>1
  <2>2. CASE byte # 0 /\ rx = Append(rx0, loop) /\ RxSize - Len(rx0) > 0
    <3>1. loop \in Byte /\ loop.from = "loop" /\ loop.number = byte
      BY DEF Byte
    <3>2. byte = sent + 1 /\ sent' = byte
      BY <2>2
    <3>3. /\ rx \in Seq(Byte) /\ Len(rx) = Len(rx0) + 1
          /\ \A i \in 1..Len(rx0): rx[i] = rx0[i]
          /\ rx[Len(rx0) + 1] = loop
      BY <1>2, <2>2, <3>1, AppendProperties
    <3> HIDE DEF loop
    <3>4. ASSUME NEW i \in 1..Len(rx)
          PROVE  /\ lastRead[rx[i].from] < rx[i].number
                 /\ rx[i].number <= (IF rx[i].from = "loop" THEN sent' ELSE arrived)
                 /\ \A j \in 1..(i - 1): rx[j].from = rx[i].from => rx[j].number < rx[i].number
                 /\ \A d \in Devices: \A k \in 1..Len(buffer[d]):
                      rx[i].from = d => rx[i].number < buffer[d][k].number
      <4>1. CASE i \in 1..Len(rx0)
        <5>1. \A j \in 1..(i - 1): j \in 1..Len(rx0)
          BY <1>2, <4>1
        <5>2. QED
          BY <1>4, <3>3, <4>1, <5>1 DEF FIFOOrdered
      <4>2. CASE i = Len(rx0) + 1
        <5>1. rx[i] = loop
          BY <3>3, <4>2
        <5>2. lastRead["loop"] < byte
          BY <1>1, <3>2 DEF InLine, ReadBefore, TypeOK
        <5>3. ASSUME NEW j \in 1..(i - 1), rx[j].from = "loop"
              PROVE  rx[j].number < byte
          <6>1. j \in 1..Len(rx0) /\ rx[j] = rx0[j]
            BY <1>2, <3>3, <4>2
          <6>2. rx0[j].number <= sent /\ rx0[j].number \in Nat
            BY <1>2, <5>3, <6>1 DEF FIFOOrdered
          <6>3. QED
            BY <1>1, <3>2, <6>1, <6>2
        <5>4. \A d \in Devices: d # "loop"
          BY DEF Devices
        <5>5. QED
          BY <1>1, <3>1, <3>2, <5>1, <5>2, <5>3, <5>4
      <4>3. QED
        BY <1>2, <3>3, <4>1, <4>2
    <3>5. Len(rx) <= RxSize
      BY <1>1, <1>2, <2>2, <3>3
    <3>6. QED
      BY <3>3, <3>4, <3>5 DEF FIFOOrdered
  <2>3. QED
    BY <1>3, <2>1, <2>2
<1>7. InLine(rx, buffer, lastRead, sent')
  BY <1>5, <1>6 DEF InLine
<1>8. PICK tx: UpdateState(new, on, rx, tx, FALSE)
  BY DEF StateChanged, rx, rx0
<1>9. InLine(fRxFIFO', buffer', lastRead', sent')
  BY <1>1, <1>6, <1>7, <1>8, UpdatedInLine
<1>10. QED
  BY <1>9 DEF InLine, BuffersOrdered, FIFOOrdered, ReadBefore

LEMMA NextInLine ==
  ASSUME TypeOK, InLine(fRxFIFO, buffer, lastRead, sent), [Next]_vars
  PROVE  InLine(fRxFIFO, buffer, lastRead, sent)'
<1>1. /\ sent \in Nat /\ arrived \in Nat
      /\ fRxFIFO \in Seq(Byte) /\ Len(fRxFIFO) <= RxSize /\ Len(fRxFIFO) \in Nat
      /\ \A i \in 1..Len(fRxFIFO): fRxFIFO[i].from \in Sources /\ fRxFIFO[i].number \in Nat
      /\ buffer \in [Devices -> Seq(Byte)]
  BY Bytes DEF TypeOK
<1>2. ASSUME UNCHANGED <<fRxFIFO, buffer, lastRead, sent, arrived>>
      PROVE  InLine(fRxFIFO, buffer, lastRead, sent)'
  BY <1>2 DEF InLine, BuffersOrdered, FIFOOrdered, ReadBefore
<1>3. ASSUME NEW refresh \in BOOLEAN,
             UpdateState(bits, drivers, fRxFIFO, fTxFIFO, refresh),
             UNCHANGED <<lines, fNeedPostLoad, arrived, sent, lastOut>>
      PROVE  InLine(fRxFIFO, buffer, lastRead, sent)'
  <2>1. drivers \in SUBSET Devices
    BY DEF TypeOK
  <2>2. InLine(fRxFIFO', buffer', lastRead', sent)
    BY <1>1, <1>3, <2>1, UpdatedInLine
  <2>3. QED
    BY <1>3, <2>2 DEF InLine, BuffersOrdered, FIFOOrdered, ReadBefore
<1>4. ASSUME NEW new \in SUBSET Bits, NEW on \in SUBSET Devices, NEW byte \in Nat,
             StateChanged(new, on, byte), byte \in {0, sent + 1},
             sent' = (IF byte = 0 THEN sent ELSE byte), arrived' = arrived
      PROVE  InLine(fRxFIFO, buffer, lastRead, sent)'
  BY <1>4, ChangedInLine
<1>5. CASE LineDriverChanged \/ PostLoad
  BY <1>2, <1>5 DEF LineDriverChanged, PostLoad, fifos, history
<1>6. CASE SetTransports
  <2>1. \A d \in Devices: buffer'[d] = <<>> /\ Len(buffer'[d]) = 0
    BY <1>6, EmptySeq DEF SetTransports
  <2>2. UNCHANGED <<fRxFIFO, lastRead, sent, arrived>>
    BY <1>6 DEF SetTransports, fifos, history
  <2>3. BuffersOrdered(buffer, lastRead)'
    BY <2>1 DEF BuffersOrdered
  <2>4. FIFOOrdered(fRxFIFO, buffer, lastRead, sent)'
    BY <2>1, <2>2 DEF InLine, FIFOOrdered
  <2>5. QED
    BY <2>2, <2>3, <2>4 DEF InLine, ReadBefore
<1>7. CASE Arrive
  <2>1. PICK d \in open:
          /\ arrived' = arrived + 1
          /\ buffer' = [buffer EXCEPT ![d] = Append(@, [from |-> d, number |-> arrived + 1])]
    BY <1>7 DEF Arrive
  <2> DEFINE b == buffer[d]
             new == [from |-> d, number |-> arrived + 1]
  <2>2. d \in Devices /\ new \in Byte /\ new.from = d /\ new.number = arrived + 1
    BY DEF TypeOK, Byte
  <2>3. /\ b \in Seq(Byte) /\ Len(b) \in Nat
        /\ \A k \in 1..Len(b): b[k].number \in Nat
        /\ \A e \in Devices: e # d => buffer'[e] = buffer[e]
        /\ buffer'[d] = Append(b, new)
    BY <1>1, <2>1, <2>2, Bytes
  <2>4. /\ Len(buffer'[d]) = Len(b) + 1
        /\ \A k \in 1..Len(b): buffer'[d][k] = b[k]
        /\ buffer'[d][Len(b) + 1] = new
    <3> HIDE DEF b, new
    <3>1. QED
      BY <2>2, <2>3, AppendProperties
  <2>5. UNCHANGED <<fRxFIFO, lastRead, sent>>
    BY <1>7 DEF Arrive, fifos
  <2>6. /\ \A e \in Devices: lastRead[e] \in Nat /\ lastRead[e] <= arrived
        /\ ReadBefore(lastRead, sent)'
    BY <1>1, <2>1, <2>5 DEF TypeOK, InLine, ReadBefore
  <2>7. \A e \in Devices: \A k \in 1..Len(buffer[e]):
          /\ buffer[e][k].from = e /\ lastRead[e] < buffer[e][k].number
          /\ buffer[e][k].number <= arrived
          /\ \A j \in 1..(k - 1): buffer[e][j].number < buffer[e][k].number
    BY DEF InLine, BuffersOrdered
  <2> HIDE DEF b, new
  <2>8. ASSUME NEW e \in Devices, NEW k \in 1..Len(buffer'[e])
        PROVE  \/ /\ k \in 1..Len(buffer[e]) /\ buffer'[e][k] = buffer[e][k]
                  /\ \A j \in 1..(k - 1): j \in 1..Len(buffer[e]) /\ buffer'[e][j] = buffer[e][j]
               \/ /\ e = d /\ buffer'[e][k] = new
                  /\ \A j \in 1..(k - 1): j \in 1..Len(buffer[e]) /\ buffer'[e][j] = buffer[e][j]
    <3>1. CASE e # d
      <4>1. Len(buffer[e]) \in Nat
        BY <1>1, LenProperties
      <4>2. QED
        BY <2>3, <3>1, <4>1
    <3>2. CASE e = d
      <4>1. k \in 1..Len(b) \/ k = Len(b) + 1
        BY <2>3, <2>4, <3>2
      <4>2. \A j \in 1..(k - 1): j \in 1..Len(b)
        BY <2>3, <4>1
      <4>3. QED
        BY <2>4, <3>2, <4>1, <4>2 DEF b
    <3>3. QED
      BY <3>1, <3>2
  <2>9. ASSUME NEW e \in Devices, NEW k \in 1..Len(buffer[e])
        PROVE  buffer[e][k].number \in Nat
    BY <1>1, Bytes
  <2>10. BuffersOrdered(buffer, lastRead)'
    <3> SUFFICES ASSUME NEW e \in Devices, NEW k \in 1..Len(buffer'[e])
                 PROVE  /\ buffer'[e][k].from = e /\ lastRead[e] < buffer'[e][k].number
                        /\ buffer'[e][k].number <= arrived'
                        /\ \A j \in 1..(k - 1): buffer'[e][j].number < buffer'[e][k].number
      BY <2>5 DEF BuffersOrdered
    <3>1. CASE /\ k \in 1..Len(buffer[e]) /\ buffer'[e][k] = buffer[e][k]
               /\ \A j \in 1..(k - 1): j \in 1..Len(buffer[e]) /\ buffer'[e][j] = buffer[e][j]
      BY <1>1, <2>1, <2>7, <2>9, <3>1
    <3>2. CASE /\ e = d /\ buffer'[e][k] = new
               /\ \A j \in 1..(k - 1): j \in 1..Len(buffer[e]) /\ buffer'[e][j] = buffer[e][j]
      BY <1>1, <2>1, <2>2, <2>6, <2>7, <2>9, <3>2
    <3>3. QED
      BY <2>8, <3>1, <3>2
  <2>11. FIFOOrdered(fRxFIFO, buffer, lastRead, sent)'
    <3> SUFFICES ASSUME NEW i \in 1..Len(fRxFIFO)
                 PROVE  /\ lastRead[fRxFIFO[i].from] < fRxFIFO[i].number
                        /\ fRxFIFO[i].number <= (IF fRxFIFO[i].from = "loop" THEN sent ELSE arrived')
                        /\ \A j \in 1..(i - 1):
                             fRxFIFO[j].from = fRxFIFO[i].from => fRxFIFO[j].number < fRxFIFO[i].number
                        /\ \A e \in Devices: \A k \in 1..Len(buffer'[e]):
                             fRxFIFO[i].from = e => fRxFIFO[i].number < buffer'[e][k].number
      BY <2>5 DEF FIFOOrdered
    <3>1. /\ lastRead[fRxFIFO[i].from] < fRxFIFO[i].number
          /\ fRxFIFO[i].number <= (IF fRxFIFO[i].from = "loop" THEN sent ELSE arrived)
          /\ \A j \in 1..(i - 1):
               fRxFIFO[j].from = fRxFIFO[i].from => fRxFIFO[j].number < fRxFIFO[i].number
          /\ \A e \in Devices: \A k \in 1..Len(buffer[e]):
               fRxFIFO[i].from = e => fRxFIFO[i].number < buffer[e][k].number
      BY DEF InLine, FIFOOrdered
    <3>2. fRxFIFO[i].number <= (IF fRxFIFO[i].from = "loop" THEN sent ELSE arrived')
      BY <1>1, <2>1, <3>1
    <3>3. ASSUME NEW e \in Devices, NEW k \in 1..Len(buffer'[e]), fRxFIFO[i].from = e
          PROVE  fRxFIFO[i].number < buffer'[e][k].number
      <4>1. CASE k \in 1..Len(buffer[e]) /\ buffer'[e][k] = buffer[e][k]
        BY <3>1, <3>3, <4>1
      <4>2. CASE buffer'[e][k] = new
        <5>1. e # "loop"
          BY DEF Devices
        <5>2. fRxFIFO[i].number <= arrived
          BY <3>1, <3>3, <5>1
        <5>3. QED
          BY <1>1, <2>2, <4>2, <5>2
      <4>3. QED
        BY <2>8, <4>1, <4>2
    <3>4. QED
      BY <3>1, <3>2, <3>3
  <2>12. QED
    BY <2>6, <2>10, <2>11 DEF InLine
<1>8. CASE NewSession
  <2>1. fRxFIFO' = <<>> /\ Len(fRxFIFO') = 0
    BY <1>8, EmptySeq DEF NewSession
  <2>2. UNCHANGED <<buffer, lastRead, sent, arrived>>
    BY <1>8 DEF NewSession, history
  <2>3. QED
    BY <2>1, <2>2 DEF InLine, BuffersOrdered, FIFOOrdered, ReadBefore
<1>9. CASE UNCHANGED vars
  BY <1>2, <1>9 DEF vars, fifos, history
<1>10. QED
  BY <1>3, <1>4, <1>5, <1>6, <1>7, <1>8, <1>9, Steps

\* What is in line is what ReceivedInOrder says of the FIFO followed by a buffer.
LEMMA InLineInOrder ==
  ASSUME TypeOK, InLine(fRxFIFO, buffer, lastRead, sent)
  PROVE  ReceivedInOrder
<1>1. SUFFICES ASSUME NEW d \in Sources
               PROVE  LET line == fRxFIFO \o (IF d = "loop" THEN <<>> ELSE buffer[d]) IN
                        \A i \in 1..Len(line): line[i].from = d =>
                          /\ lastRead[d] < line[i].number
                          /\ \A j \in 1..(i - 1): line[j].from = d => line[j].number < line[i].number
  BY DEF ReceivedInOrder, Sources
<1> DEFINE rest == IF d = "loop" THEN <<>> ELSE buffer[d]
           line == fRxFIFO \o rest
           n == Len(fRxFIFO)
<1>2. /\ fRxFIFO \in Seq(Byte) /\ n \in Nat
      /\ rest \in Seq(Byte) /\ Len(rest) \in Nat
      /\ (d = "loop" => Len(rest) = 0)
      /\ (d # "loop" => d \in Devices /\ rest = buffer[d])
  <2>1. <<>> \in Seq(Byte) /\ Len(<<>>) = 0
    BY EmptySeq
  <2>2. d # "loop" => d \in Devices
    BY DEF Sources
  <2>3. rest \in Seq(Byte)
    BY <2>1, <2>2 DEF TypeOK
  <2> HIDE DEF rest
  <2>4. Len(rest) \in Nat /\ fRxFIFO \in Seq(Byte) /\ n \in Nat
    BY <2>3, LenProperties DEF TypeOK
  <2>5. QED
    BY <2>1, <2>2, <2>3, <2>4 DEF rest
<1> HIDE DEF rest
<1>3. /\ Len(line) = n + Len(rest)
      /\ \A i \in 1..n: line[i] = fRxFIFO[i]
      /\ \A i \in (n + 1)..(n + Len(rest)): line[i] = rest[i - n] /\ i - n \in 1..Len(rest)
  <2>1. /\ Len(line) = n + Len(rest)
        /\ \A i \in 1..n: line[i] = fRxFIFO[i]
        /\ \A i \in (n + 1)..(n + Len(rest)): line[i] = rest[i - n]
    BY <1>2, ConcatProperties
  <2>2. QED
    BY <1>2, <2>1
<1> HIDE DEF line, n
<1>4. ASSUME NEW i \in 1..Len(line), line[i].from = d
      PROVE  /\ lastRead[d] < line[i].number
             /\ \A j \in 1..(i - 1): line[j].from = d => line[j].number < line[i].number
  <2>1. CASE i \in 1..n
    <3>1. \A j \in 1..(i - 1): j \in 1..n
      BY <1>2, <2>1
    <3>2. QED
      BY <1>3, <1>4, <2>1, <3>1 DEF InLine, FIFOOrdered, n
  <2>2. CASE i \in (n + 1)..(n + Len(rest))
    <3> DEFINE m == i - n
    <3>1. line[i] = rest[m] /\ m \in 1..Len(rest)
      BY <1>3, <2>2
    <3>2. d \in Devices /\ rest = buffer[d]
      BY <1>2, <3>1
    <3>3. /\ lastRead[d] < rest[m].number
          /\ \A j \in 1..(m - 1): rest[j].number < rest[m].number
      BY <3>1, <3>2 DEF InLine, BuffersOrdered
    <3>4. ASSUME NEW j \in 1..(i - 1), line[j].from = d
          PROVE  line[j].number < line[i].number
      <4>1. CASE j \in 1..n
        <5>1. fRxFIFO[j].from = d => fRxFIFO[j].number < buffer[d][m].number
          BY <3>1, <3>2, <4>1 DEF InLine, FIFOOrdered, n
        <5>2. QED
          BY <1>3, <3>1, <3>2, <3>4, <4>1, <5>1
      <4>2. CASE j \in (n + 1)..(n + Len(rest))
        <5>1. line[j] = rest[j - n] /\ j - n \in 1..(m - 1)
          BY <1>2, <1>3, <2>2, <4>2
        <5>2. QED
          BY <3>1, <3>3, <5>1
      <4>3. QED
        BY <1>2, <2>2, <4>1, <4>2
    <3>5. QED
      BY <3>1, <3>3, <3>4
  <2>3. QED
    BY <1>2, <1>3, <2>1, <2>2
<1>5. QED
  BY <1>4 DEF line, rest

LEMMA InitInLine == Init => InLine(fRxFIFO, buffer, lastRead, sent)
<1> SUFFICES ASSUME Init PROVE InLine(fRxFIFO, buffer, lastRead, sent)
  OBVIOUS
<1>1. /\ Len(fRxFIFO) = 0 /\ \A d \in Devices: Len(buffer[d]) = 0
      /\ lastRead["loop"] <= sent /\ \A d \in Devices: lastRead[d] <= arrived
  BY DEF Init
<1>2. QED
  BY <1>1 DEF InLine, BuffersOrdered, FIFOOrdered, ReadBefore

\* The bytes from each source are read in the order in which they came and none of them
\* twice.  What waits outside the FIFO and what is to come must be bounded too: InLine.
THEOREM Receiving == Spec => []ReceivedInOrder
<1> DEFINE Inv == InLine(fRxFIFO, buffer, lastRead, sent)
<1>1. Init => Inv
  BY InitInLine
<1>2. TypeOK /\ Inv /\ [Next]_vars => Inv'
  BY NextInLine
<1>3. TypeOK /\ Inv => ReceivedInOrder
  BY InLineInOrder
<1> HIDE DEF Inv
<1>4. QED
  BY <1>1, <1>2, <1>3, Typing, PTL DEF Spec

\* Both directions at once.
THEOREM InOrder == Spec => []BytesInOrder
<1>1. SentInOrder /\ ReceivedInOrder => BytesInOrder
  BY DEF BytesInOrder
<1>2. QED
  BY <1>1, Sending, Receiving, PTL

-----------------------------------------------------------------------------
(* No byte is lost. *)

\* ReceiveRxFIFO keeps what is in the FIFO, and what it does not take in the buffer.
LEMMA ReceivedStays ==
  ASSUME TypeOK, NEW on \in SUBSET Devices, NEW rx \in Seq(Byte), Len(rx) <= RxSize
  PROVE  LET r == ReceiveRxFIFO(rx, UARTDevice(on)) IN
           /\ \A i \in 1..Len(rx): Holds(r.fifo, rx[i])
           /\ \A e \in Devices: \A k \in 1..Len(buffer[e]):
                Holds(r.buffer[e], buffer[e][k]) \/ Holds(r.fifo, buffer[e][k])
<1> DEFINE d == UARTDevice(on)
           b == buffer[d]
           n == BytesToBuffer(rx, d)
           fifo == rx \o SubSeq(b, 1, n)
           rest == SubSeq(b, n + 1, Len(b))
           buf == [buffer EXCEPT ![d] = rest]
<1>1. CASE MayReceive(d)
  <2>1. d \in Devices
    BY <1>1 DEF MayReceive, TypeOK
  <2>2. /\ b \in Seq(Byte) /\ Len(b) \in Nat /\ Len(rx) \in Nat /\ RxSize \in Nat
        /\ \A i \in 1..Len(b): b[i] \in Byte
    BY <2>1, Bytes, SizeAssumption DEF TypeOK
  <2>3. n \in Nat /\ n <= Len(b)
    BY <2>2 DEF BytesToBuffer, GetFree
  <2>4. ReceiveRxFIFO(rx, d).fifo = fifo /\ ReceiveRxFIFO(rx, d).buffer = buf
    BY <1>1 DEF ReceiveRxFIFO
  <2>5. /\ SubSeq(b, 1, n) \in Seq(Byte) /\ Len(SubSeq(b, 1, n)) = n
        /\ \A i \in 1..n: SubSeq(b, 1, n)[i] = b[i]
    <3> HIDE DEF n, b
    <3>1. 1 \in Int /\ n \in Int /\ \A i \in 1..n: b[i] \in Byte
      BY <2>2, <2>3
    <3>2. QED
      BY <3>1, <2>3, SubSeqProperties
  <2>6. /\ Len(rest) = IF n + 1 <= Len(b) THEN Len(b) - (n + 1) + 1 ELSE 0
        /\ \A k \in 1..(Len(b) - (n + 1) + 1): rest[k] = b[n + 1 + k - 1]
    <3> HIDE DEF n, b
    <3>1. n + 1 \in Int /\ Len(b) \in Int /\ \A i \in (n + 1)..Len(b): b[i] \in Byte
      BY <2>2, <2>3
    <3>2. QED
      BY <3>1, SubSeqProperties
  <2>7. /\ Len(fifo) = Len(rx) + n
        /\ \A i \in 1..Len(rx): fifo[i] = rx[i]
        /\ \A i \in (Len(rx) + 1)..(Len(rx) + n): fifo[i] = SubSeq(b, 1, n)[i - Len(rx)]
    <3> HIDE DEF n, b
    <3>1. QED
      BY <2>5, ConcatProperties
  <2>8. buf[d] = rest /\ \A e \in Devices: e # d => buf[e] = buffer[e]
    <3> HIDE DEF rest, d
    <3>1. QED
      BY <2>1 DEF TypeOK
  <2> HIDE DEF n, b, d, fifo, rest, buf
  <2>9. ASSUME NEW i \in 1..Len(rx) PROVE Holds(fifo, rx[i])
    <3>1. i \in 1..Len(fifo) /\ fifo[i] = rx[i]
      BY <2>2, <2>3, <2>7
    <3>2. QED
      BY <3>1 DEF Holds
  <2>10. ASSUME NEW k \in 1..Len(b) PROVE Holds(rest, b[k]) \/ Holds(fifo, b[k])
    <3>1. CASE k <= n
      <4>1. /\ Len(rx) + k \in 1..Len(fifo) /\ Len(rx) + k \in (Len(rx) + 1)..(Len(rx) + n)
            /\ (Len(rx) + k) - Len(rx) = k /\ k \in 1..n
        BY <2>2, <2>3, <2>7, <3>1
      <4>2. fifo[Len(rx) + k] = b[k]
        BY <2>5, <2>7, <4>1
      <4>3. QED
        BY <4>1, <4>2 DEF Holds
    <3>2. CASE n < k
      <4>1. /\ k - n \in 1..(Len(b) - (n + 1) + 1) /\ n + 1 + (k - n) - 1 = k
            /\ k - n \in 1..Len(rest)
        BY <2>2, <2>3, <2>6, <3>2
      <4>2. rest[k - n] = b[n + 1 + (k - n) - 1]
        BY <2>6, <4>1
      <4>3. rest[k - n] = b[k]
        BY <4>1, <4>2
      <4>4. QED
        BY <4>1, <4>3 DEF Holds
    <3>3. QED
      BY <2>2, <2>3, <3>1, <3>2
  <2>11. ASSUME NEW e \in Devices, NEW k \in 1..Len(buffer[e])
         PROVE  Holds(buf[e], buffer[e][k]) \/ Holds(fifo, buffer[e][k])
    <3>1. CASE e = d
      BY <2>8, <2>10, <3>1 DEF b
    <3>2. CASE e # d
      BY <2>8, <3>2 DEF Holds
    <3>3. QED
      BY <3>1, <3>2
  <2>12. QED
    BY <2>4, <2>9, <2>11 DEF d
<1>2. CASE ~MayReceive(d)
  BY <1>2 DEF ReceiveRxFIFO, Holds
<1>3. QED
  BY <1>1, <1>2

\* UpdateState keeps them too, but for the byte that is read.
LEMMA UpdatedStays ==
  ASSUME TypeOK, BuffersOrdered(buffer, lastRead),
         NEW new, NEW on \in SUBSET Devices, NEW tx, NEW refresh \in BOOLEAN,
         NEW rx \in Seq(Byte), Len(rx) <= RxSize,
         UpdateState(new, on, rx, tx, refresh)
  PROVE  /\ \A i \in 1..Len(rx):
              Holds(fRxFIFO', rx[i]) \/ lastRead'[rx[i].from] = rx[i].number
         /\ \A e \in Devices: \A k \in 1..Len(buffer[e]):
              \/ Holds(buffer'[e], buffer[e][k]) \/ Holds(fRxFIFO', buffer[e][k])
              \/ lastRead'[e] = buffer[e][k].number
<1> DEFINE r == ReceiveRxFIFO(rx, UARTDevice(on))
           state == StatusOf(Len(r.fifo), Len(tx))
           byte == Head(r.fifo)
<1>1. r.fifo \in Seq(Byte) /\ Len(r.fifo) \in Nat
  BY Received, LenProperties
<1>2. /\ \A i \in 1..Len(rx): Holds(r.fifo, rx[i])
      /\ \A e \in Devices: \A k \in 1..Len(buffer[e]):
           Holds(r.buffer[e], buffer[e][k]) \/ Holds(r.fifo, buffer[e][k])
  BY ReceivedStays
<1>3. buffer' = r.buffer
  BY DEF UpdateState
<1>4. \/ fRxFIFO' = r.fifo
      \/ /\ "DATA_READY" \in state
         /\ fRxFIFO' = Tail(r.fifo)
         /\ lastRead' = [lastRead EXCEPT ![byte.from] = byte.number]
  BY DEF UpdateState, Get
<1>5. "DATA_READY" \in state => Len(r.fifo) > 0
  BY DEF StatusOf
<1>6. \A e \in Devices: \A k \in 1..Len(buffer[e]): buffer[e][k].from = e
  BY DEF BuffersOrdered
<1> HIDE DEF r, state
<1>7. CASE fRxFIFO' = r.fifo
  BY <1>2, <1>3, <1>7
<1>8. CASE /\ "DATA_READY" \in state
           /\ fRxFIFO' = Tail(r.fifo)
           /\ lastRead' = [lastRead EXCEPT ![byte.from] = byte.number]
  <2>1. Len(r.fifo) > 0 /\ r.fifo # <<>>
    BY <1>1, <1>5, <1>8, EmptySeq
  <2>2. /\ byte = r.fifo[1]
        /\ Len(fRxFIFO') = Len(r.fifo) - 1
        /\ \A i \in 1..Len(fRxFIFO'): fRxFIFO'[i] = r.fifo[i + 1]
    BY <1>1, <1>8, <2>1, HeadTailProperties
  <2>3. byte.from \in Sources
    BY <1>1, <2>1, <2>2, Bytes
  <2>4. lastRead'[byte.from] = byte.number
    BY <1>8, <2>3 DEF TypeOK, Sources
  <2> HIDE DEF byte
  <2>5. ASSUME NEW x, Holds(r.fifo, x)
        PROVE  Holds(fRxFIFO', x) \/ lastRead'[x.from] = x.number
    <3>1. PICK j \in 1..Len(r.fifo): r.fifo[j] = x
      BY <2>5 DEF Holds
    <3>2. CASE j = 1
      BY <2>2, <2>4, <3>1, <3>2
    <3>3. CASE j # 1
      <4>1. j - 1 \in 1..Len(fRxFIFO') /\ (j - 1) + 1 = j
        BY <1>1, <2>2, <3>3
      <4>2. fRxFIFO'[j - 1] = x
        BY <2>2, <3>1, <4>1
      <4>3. QED
        BY <4>1, <4>2 DEF Holds
    <3>4. QED
      BY <3>2, <3>3
  <2>6. QED
    BY <1>2, <1>3, <1>6, <2>5
<1>9. QED
  BY <1>4, <1>7, <1>8

\* One step of ReceivedBytesStay.
Stays ==
  \/ SetTransports \/ NewSession
  \/ /\ \A d \in Devices: \A i \in 1..Len(buffer[d]):
          \/ Holds(buffer'[d], buffer[d][i]) \/ Holds(fRxFIFO', buffer[d][i])
          \/ lastRead'[d] = buffer[d][i].number
     /\ \/ "RX_ENABLE" \in bits \ bits'
        \/ \A i \in 1..Len(fRxFIFO):
             \/ Holds(fRxFIFO', fRxFIFO[i])
             \/ lastRead'[fRxFIFO[i].from] = fRxFIFO[i].number

\* StateChanged does not flush the receiver unless it is disabled, and what is looped back
\* comes behind the rest.
LEMMA ChangedStays ==
  ASSUME TypeOK, BuffersOrdered(buffer, lastRead),
         NEW new \in SUBSET Bits, NEW on \in SUBSET Devices, NEW byte \in Nat,
         StateChanged(new, on, byte)
  PROVE  Stays
<1> DEFINE rx0 == Flushed("RX_ENABLE", new, fRxFIFO)
           loop == [from |-> "loop", number |-> byte]
           rx == LoopBack(new, byte, rx0)
<1>1. PICK tx: UpdateState(new, on, rx, tx, FALSE)
  BY DEF StateChanged
<1>2. bits' = new
  BY <1>1 DEF UpdateState
<1>3. rx0 = fRxFIFO \/ (rx0 = <<>> /\ "RX_ENABLE" \in bits \ new)
  BY DEF Flushed
<1>4. rx = rx0 \/ (rx = Append(rx0, loop) /\ RxSize - Len(rx0) > 0)
  BY DEF LoopBack, Put, GetFree
<1>5. rx0 \in Seq(Byte) /\ Len(rx0) \in Nat /\ Len(rx0) <= RxSize /\ RxSize \in Nat
  <2>1. /\ <<>> \in Seq(Byte) /\ Len(<<>>) = 0 /\ RxSize \in Nat
        /\ fRxFIFO \in Seq(Byte) /\ Len(fRxFIFO) <= RxSize
    BY EmptySeq, SizeAssumption DEF TypeOK
  <2> HIDE DEF rx0
  <2>2. CASE rx0 = fRxFIFO
    BY <2>1, <2>2, LenProperties
  <2>3. CASE rx0 = <<>>
    <3>1. rx0 \in Seq(Byte) /\ Len(rx0) = 0
      BY <2>3, EmptySeq
    <3>2. QED
      BY <2>1, <3>1
  <2>4. QED
    BY <1>3, <2>2, <2>3
<1> HIDE DEF rx, rx0
<1>6. /\ rx \in Seq(Byte) /\ Len(rx) <= RxSize
      /\ \A i \in 1..Len(rx0): i \in 1..Len(rx) /\ rx[i] = rx0[i]
  <2>1. CASE rx = rx0
    BY <1>5, <2>1
  <2>2. CASE rx = Append(rx0, loop) /\ RxSize - Len(rx0) > 0
    <3>1. loop \in Byte
      BY DEF Byte
    <3> HIDE DEF loop
    <3>2. /\ rx \in Seq(Byte) /\ Len(rx) = Len(rx0) + 1
          /\ \A i \in 1..Len(rx0): rx[i] = rx0[i]
      BY <1>5, <2>2, <3>1, AppendProperties
    <3>3. QED
      BY <1>5, <2>2, <3>2
  <2>3. QED
    BY <1>4, <2>1, <2>2
<1>7. /\ \A i \in 1..Len(rx):
           Holds(fRxFIFO', rx[i]) \/ lastRead'[rx[i].from] = rx[i].number
      /\ \A e \in Devices: \A k \in 1..Len(buffer[e]):
           \/ Holds(buffer'[e], buffer[e][k]) \/ Holds(fRxFIFO', buffer[e][k])
           \/ lastRead'[e] = buffer[e][k].number
  BY <1>1, <1>6, UpdatedStays
<1>8. CASE rx0 = fRxFIFO
  <2>1. \A i \in 1..Len(fRxFIFO):
          Holds(fRxFIFO', fRxFIFO[i]) \/ lastRead'[fRxFIFO[i].from] = fRxFIFO[i].number
    BY <1>6, <1>7, <1>8
  <2>2. QED
    BY <1>7, <2>1 DEF Stays
<1>9. CASE "RX_ENABLE" \in bits \ new
  BY <1>2, <1>7, <1>9 DEF Stays
<1>10. QED
  BY <1>3, <1>8, <1>9

\* A byte that has arrived is not lost between the transport and the software, whatever
\* happens to registers and line drivers; the order of the buffers says which byte a read
\* took.
THEOREM Staying == Spec => ReceivedBytesStay
<1> DEFINE Inv == InLine(fRxFIFO, buffer, lastRead, sent)
<1>1. TypeOK /\ Inv /\ [Next]_vars => [Stays]_vars
  <2> SUFFICES ASSUME TypeOK, Inv, [Next]_vars PROVE Stays \/ UNCHANGED vars
    OBVIOUS
  <2>1. BuffersOrdered(buffer, lastRead)
    BY DEF InLine
  <2>2. fRxFIFO \in Seq(Byte) /\ Len(fRxFIFO) <= RxSize /\ drivers \in SUBSET Devices
    BY DEF TypeOK
  <2>3. ASSUME fRxFIFO' = fRxFIFO,
               \A d \in Devices: \A i \in 1..Len(buffer[d]): Holds(buffer'[d], buffer[d][i])
        PROVE  Stays
    BY <2>3 DEF Stays, Holds
  <2>4. \A d \in Devices: \A i \in 1..Len(buffer[d]): Holds(buffer[d], buffer[d][i])
    BY DEF Holds
  <2>5. CASE \E refresh \in BOOLEAN: UpdateState(bits, drivers, fRxFIFO, fTxFIFO, refresh)
    BY <2>1, <2>2, <2>5, UpdatedStays DEF Stays
  <2>6. CASE \E new \in SUBSET Bits, on \in SUBSET Devices, byte \in Nat:
               StateChanged(new, on, byte)
    BY <2>1, <2>6, ChangedStays
  <2>7. CASE LineDriverChanged \/ PostLoad
    <3>1. UNCHANGED <<fRxFIFO, buffer>>
      BY <2>7 DEF LineDriverChanged, PostLoad, fifos
    <3>2. QED
      BY <2>3, <2>4, <3>1
  <2>8. CASE SetTransports \/ NewSession
    BY <2>8 DEF Stays
  <2>9. CASE Arrive
    <3>1. PICK d \in open, x \in Byte:
            buffer' = [buffer EXCEPT ![d] = Append(@, x)] /\ fRxFIFO' = fRxFIFO
      <4>1. PICK d \in open:
              buffer' = [buffer EXCEPT ![d] = Append(@, [from |-> d, number |-> arrived + 1])]
        BY <2>9 DEF Arrive
      <4>2. fRxFIFO' = fRxFIFO
        BY <2>9 DEF Arrive, fifos
      <4>3. [from |-> d, number |-> arrived + 1] \in Byte
        BY DEF Byte, TypeOK
      <4>4. QED
        BY <4>1, <4>2, <4>3
    <3>2. ASSUME NEW e \in Devices, NEW i \in 1..Len(buffer[e])
          PROVE  Holds(buffer'[e], buffer[e][i])
      <4>1. buffer[e] \in Seq(Byte) /\ Len(buffer[e]) \in Nat
        BY LenProperties DEF TypeOK
      <4>2. buffer'[e] = buffer[e] \/ buffer'[e] = Append(buffer[e], x)
        BY <3>1 DEF TypeOK
      <4>3. CASE buffer'[e] = Append(buffer[e], x)
        <5>1. Len(buffer'[e]) = Len(buffer[e]) + 1 /\ buffer'[e][i] = buffer[e][i]
          BY <3>1, <4>1, <4>3, AppendProperties
        <5>2. QED
          BY <4>1, <5>1 DEF Holds
      <4>4. QED
        BY <2>4, <4>2, <4>3
    <3>3. QED
      BY <2>3, <3>1, <3>2
  <2>10. QED
    BY <2>5, <2>6, <2>7, <2>8, <2>9, Steps
<1>2. Init => Inv
  BY InitInLine
<1>3. TypeOK /\ Inv /\ [Next]_vars => Inv'
  BY NextInLine
<1>4. ReceivedBytesStay <=> [][Stays]_vars
  BY DEF ReceivedBytesStay, Stays
<1> HIDE DEF Inv
<1>5. QED
  BY <1>1, <1>2, <1>3, <1>4, Typing, PTL DEF Spec

\* Neither direction loses a byte.
THEOREM NothingLost == Spec => NoByteLost
<1>1. ReceivedBytesStay /\ AvailableMeansAccepted => NoByteLost
  BY DEF NoByteLost
<1>2. QED
  BY <1>1, Staying, Accepting, PTL
=============================================================================
