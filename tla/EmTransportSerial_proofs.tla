---------------------- MODULE EmTransportSerial_proofs ----------------------
(***************************************************************************)
(* Theorems about EmTransportSerial, for every bound on the bytes that are  *)
(* written, arrive and are moved at once.                                   *)
(*                                                                          *)
(* TypeOK and ThreadsWithinPort are inductive together: Open may start the  *)
(* threads with free locks and empty hands because no others are left.  The *)
(* two refinement theorems rest on HandsTyped: that a thread's buffer is    *)
(* empty while not in use makes the concatenation of the buffers a queue.   *)
(***************************************************************************)
EXTENDS EmTransportSerial, SequenceTheorems, TLAPS

-----------------------------------------------------------------------------
(* Sequences. *)

\* The bytes that a step takes from the front of a buffer, and the rest.
LEMMA Slices ==
  ASSUME NEW s \in Seq(Nat), NEW n \in 0..Len(s)
  PROVE  /\ SubSeq(s, 1, n) \in Seq(Nat)
         /\ SubSeq(s, n + 1, Len(s)) \in Seq(Nat)
<1>1. /\ Len(s) \in Nat /\ n \in Nat
      /\ \A i \in 1..Len(s): s[i] \in Nat
  BY LenProperties, ElementOfSeq
<1>2. /\ \A i \in 1..n: s[i] \in Nat
      /\ \A i \in (n + 1)..Len(s): s[i] \in Nat
  BY <1>1
<1>3. 1 \in Int /\ n \in Int /\ n + 1 \in Int /\ Len(s) \in Int
  BY <1>1
<1>4. SubSeq(s, 1, n) \in Seq(Nat)
  BY <1>2, <1>3, SubSeqProperties
<1>5. SubSeq(s, n + 1, Len(s)) \in Seq(Nat)
  BY <1>2, <1>3, SubSeqProperties
<1>6. QED
  BY <1>4, <1>5

\* Taking bytes from the front of one of two buffers that make up a queue.
LEMMA SliceOfQueue ==
  ASSUME NEW s \in Seq(Nat), NEW t \in Seq(Nat), NEW n \in 0..Len(s)
  PROVE  /\ SubSeq(s \o t, 1, n) = SubSeq(s, 1, n)
         /\ SubSeq(s \o t, n + 1, Len(s \o t)) = SubSeq(s, n + 1, Len(s)) \o t
<1> DEFINE q == s \o t
           rest == SubSeq(s, n + 1, Len(s))
<1>1. /\ q \in Seq(Nat) /\ Len(q) = Len(s) + Len(t)
      /\ \A i \in 1..Len(s) + Len(t): q[i] = IF i <= Len(s) THEN s[i] ELSE t[i - Len(s)]
  BY ConcatProperties
<1>2. Len(s) \in Nat /\ Len(t) \in Nat /\ n \in Nat /\ n <= Len(s)
  BY LenProperties
<1>3. /\ \A i \in 1..Len(s): s[i] \in Nat
      /\ \A i \in 1..Len(q): q[i] \in Nat
  BY <1>1, ElementOfSeq
<1>4. /\ rest \in Seq(Nat) /\ Len(rest) = Len(s) - n
      /\ \A i \in 1..(Len(s) - n): rest[i] = s[n + i]
  <2>1. /\ rest \in Seq(Nat)
        /\ Len(rest) = IF n + 1 <= Len(s) THEN Len(s) - (n + 1) + 1 ELSE 0
        /\ \A i \in 1..(Len(s) - (n + 1) + 1): rest[i] = s[n + 1 + i - 1]
    <3>1. \A i \in (n + 1)..Len(s): s[i] \in Nat
      BY <1>2, <1>3
    <3>2. QED
      BY <3>1, <1>2, SubSeqProperties
  <2> HIDE DEF rest
  <2>2. \A i \in 1..(Len(s) - n): n + 1 + i - 1 = n + i
    BY <1>2
  <2>3. QED
    BY <2>1, <2>2, <1>2
<1> HIDE DEF rest, q
<1>5. SubSeq(q, 1, n) = SubSeq(s, 1, n)
  <2>1. /\ SubSeq(q, 1, n) \in Seq(Nat)
        /\ Len(SubSeq(q, 1, n)) = n
        /\ \A i \in 1..n: SubSeq(q, 1, n)[i] = q[i]
    <3>1. \A i \in 1..n: q[i] \in Nat
      BY <1>1, <1>2, <1>3
    <3>2. /\ SubSeq(q, 1, n) \in Seq(Nat)
          /\ Len(SubSeq(q, 1, n)) = IF 1 <= n THEN n - 1 + 1 ELSE 0
          /\ \A i \in 1..(n - 1 + 1): SubSeq(q, 1, n)[i] = q[1 + i - 1]
      BY <3>1, <1>2, SubSeqProperties
    <3>3. \A i \in 1..n: 1 + i - 1 = i
      BY <1>2
    <3>4. QED
      BY <3>2, <3>3, <1>2
  <2>2. /\ SubSeq(s, 1, n) \in Seq(Nat)
        /\ Len(SubSeq(s, 1, n)) = n
        /\ \A i \in 1..n: SubSeq(s, 1, n)[i] = s[i]
    <3>1. \A i \in 1..n: s[i] \in Nat
      BY <1>2, <1>3
    <3>2. /\ SubSeq(s, 1, n) \in Seq(Nat)
          /\ Len(SubSeq(s, 1, n)) = IF 1 <= n THEN n - 1 + 1 ELSE 0
          /\ \A i \in 1..(n - 1 + 1): SubSeq(s, 1, n)[i] = s[1 + i - 1]
      BY <3>1, <1>2, SubSeqProperties
    <3>3. \A i \in 1..n: 1 + i - 1 = i
      BY <1>2
    <3>4. QED
      BY <3>2, <3>3, <1>2
  <2>3. \A i \in 1..n: q[i] = s[i]
    BY <1>1, <1>2
  <2>4. QED
    BY <2>1, <2>2, <2>3, SeqEqual
<1>6. SubSeq(q, n + 1, Len(q)) = rest \o t
  <2>1. /\ SubSeq(q, n + 1, Len(q)) \in Seq(Nat)
        /\ Len(SubSeq(q, n + 1, Len(q))) = Len(q) - n
        /\ \A i \in 1..(Len(q) - n): SubSeq(q, n + 1, Len(q))[i] = q[n + i]
    <3>1. \A i \in (n + 1)..Len(q): q[i] \in Nat
      BY <1>1, <1>2, <1>3
    <3>2. n + 1 \in Int /\ Len(q) \in Int /\ n <= Len(q)
      BY <1>1, <1>2
    <3>3. /\ SubSeq(q, n + 1, Len(q)) \in Seq(Nat)
          /\ Len(SubSeq(q, n + 1, Len(q)))
               = IF n + 1 <= Len(q) THEN Len(q) - (n + 1) + 1 ELSE 0
          /\ \A i \in 1..(Len(q) - (n + 1) + 1):
               SubSeq(q, n + 1, Len(q))[i] = q[n + 1 + i - 1]
      BY <3>1, <3>2, SubSeqProperties
    <3>4. \A i \in 1..(Len(q) - n): n + 1 + i - 1 = n + i
      BY <1>2, <3>2
    <3>5. QED
      BY <3>2, <3>3, <3>4, <1>2
  <2>2. /\ rest \o t \in Seq(Nat)
        /\ Len(rest \o t) = Len(rest) + Len(t)
        /\ \A i \in 1..Len(rest) + Len(t):
             (rest \o t)[i] = IF i <= Len(rest) THEN rest[i] ELSE t[i - Len(rest)]
    BY <1>4, ConcatProperties
  <2>3. /\ Len(rest) + Len(t) = Len(q) - n /\ Len(rest) \in Nat
        /\ Len(q) - n \in Nat
    BY <1>1, <1>2, <1>4
  <2>4. ASSUME NEW i \in 1..(Len(q) - n)
        PROVE  SubSeq(q, n + 1, Len(q))[i] = (rest \o t)[i]
    <3>1. /\ n + i \in 1..Len(s) + Len(t)
          /\ n + i <= Len(s) <=> i <= Len(rest)
          /\ n + i - Len(s) = i - Len(rest)
          /\ i <= Len(rest) => i \in 1..(Len(s) - n)
          /\ i \in 1..Len(rest) + Len(t)
      BY <1>1, <1>2, <1>4
    <3>2. CASE i <= Len(rest)
      <4>1. q[n + i] = s[n + i] /\ (rest \o t)[i] = rest[i] /\ rest[i] = s[n + i]
        BY <1>1, <1>4, <2>2, <3>1, <3>2
      <4>2. QED
        BY <2>1, <4>1
    <3>3. CASE ~(i <= Len(rest))
      <4>1. q[n + i] = t[n + i - Len(s)]
        <5>1. ~(n + i <= Len(s))
          BY <3>1, <3>3
        <5>2. QED
          BY <1>1, <3>1, <5>1
      <4>2. (rest \o t)[i] = t[i - Len(rest)]
        BY <2>2, <3>1, <3>3
      <4>3. QED
        BY <2>1, <3>1, <4>1, <4>2
    <3>4. QED
      BY <3>2, <3>3
  <2>5. QED
    BY <2>1, <2>2, <2>3, <2>4, SeqEqual
<1>7. QED
  BY <1>5, <1>6 DEF q, rest

\* Concatenation is associative, for any three buffers.
LEMMA Associative ==
  ASSUME NEW s \in Seq(Nat), NEW t \in Seq(Nat), NEW u \in Seq(Nat)
  PROVE  (s \o t) \o u = s \o (t \o u)
BY ConcatAssociative

\* The numbered bytes of one Write.
LEMMA Chunk ==
  ASSUME NEW n \in Nat, NEW m \in Nat
  PROVE  [i \in 1..n |-> m + i] \in Seq(Nat)
<1> DEFINE e(i) == m + i
<1>1. \A i \in 1..n: e(i) \in Nat
  OBVIOUS
<1>2. [i \in 1..n |-> e(i)] \in Seq(Nat)
  <2> HIDE DEF e
  <2>1. QED
    BY <1>1, IsASeq
<1>3. QED
  BY <1>2

-----------------------------------------------------------------------------
(* Typing and the life of the threads. *)

Buffers ==
  {fReadBuffer, readerBuf, incoming, received, fWriteBuffer, writerBuf, wire}
    \subseteq Seq(Nat)

\* Each step that moves bytes keeps the buffers sequences of byte numbers.
LEMMA BuffersTyped ==
  ASSUME BoundsAssumption, TypeOK, [Next]_vars
  PROVE  Buffers'
<1> USE DEF TypeOK, Buffers, QuitOrWait
<1>0. /\ sent \in Nat /\ arrived \in Nat /\ MaxChunk \in Nat /\ <<>> \in Seq(Nat)
      /\ \A m \in Nat: m + 1 \in Nat
  BY EmptySeq DEF BoundsAssumption
<1>1. CASE Write
  <2>1. PICK n \in 1..MaxChunk:
          fWriteBuffer' = fWriteBuffer \o [i \in 1..n |-> sent + i]
    BY <1>1 DEF Write
  <2>2. fWriteBuffer' \in Seq(Nat)
    BY <2>1, <1>0, Chunk, ConcatProperties
  <2>3. QED
    BY <2>2, <1>1 DEF Write, input
<1>2. CASE Read
  <2>1. PICK n \in 1..MaxChunk:
          LET len == IF n > Len(fReadBuffer) THEN Len(fReadBuffer) ELSE n IN
            /\ received' = received \o SubSeq(fReadBuffer, 1, len)
            /\ fReadBuffer' = SubSeq(fReadBuffer, len + 1, Len(fReadBuffer))
    BY <1>2 DEF Read
  <2> DEFINE len == IF n > Len(fReadBuffer) THEN Len(fReadBuffer) ELSE n
  <2>2. Len(fReadBuffer) \in Nat
    BY LenProperties
  <2>3. len \in 0..Len(fReadBuffer)
    BY <2>2, <1>0
  <2>4. received' \in Seq(Nat) /\ fReadBuffer' \in Seq(Nat)
    BY <2>1, <2>3, Slices, ConcatProperties
  <2>5. QED
    BY <2>4, <1>2 DEF Read, output
<1>3. CASE Arrive
  <2>1. arrived + 1 \in Nat
    BY <1>0
  <2>2. incoming' \in Seq(Nat)
    BY <1>3, <2>1, AppendProperties DEF Arrive
  <2>3. QED
    BY <2>2, <1>3 DEF Arrive, output
<1>4. CASE ReadPort
  BY <1>4, <1>0 DEF ReadPort, output
<1>5. CASE PutIncomingData
  BY <1>5, <1>0, ConcatProperties DEF PutIncomingData, output
<1>6. CASE GetOutgoingData
  BY <1>6, <1>0 DEF GetOutgoingData, input
<1>7. CASE WritePort
  <2>1. PICK n \in 0..Len(writerBuf): wire' = wire \o SubSeq(writerBuf, 1, n)
    BY <1>7 DEF WritePort
  <2>2. wire' \in Seq(Nat)
    BY <2>1, Slices, ConcatProperties
  <2>3. QED
    BY <2>2, <1>7, <1>0 DEF WritePort, input
<1>8. CASE UNCHANGED <<input, output>>
  BY <1>8 DEF input, output
<1>9. CASE HangUp
  BY <1>9 DEF HangUp, output
<1>10. QED
  BY <1>1, <1>2, <1>3, <1>4, <1>5, <1>6, <1>7, <1>8, <1>9
     DEF Next, Client, CommRead, CommWrite, Environment, OpenFails, Open, SetConfig, Close,
         SignalThreads, JoinThreads, WakeCommWrite, Select, StartCommWrite, CommWriteWakes,
         OutgoingDataSize, DescriptorTaken, SpuriousWakeup, vars

\* The variables that are no buffers, locks or places.
LEMMA ScalarsTyped ==
  ASSUME BoundsAssumption, TypeOK, [Next]_vars
  PROVE  /\ {fCommEstablished, descriptor0, fTimeToQuit, signal, waiting, hungUp}'
              \subseteq BOOLEAN
         /\ fCommHandle' \in {0, Handle}
         /\ {fails, arrived, sent}' \subseteq Nat
<1> USE DEF TypeOK, QuitOrWait
<1>0. \A m \in Nat: m + 1 \in Nat /\ \A n \in 1..MaxChunk: m + n \in Nat
  BY DEF BoundsAssumption
<1>1. CASE OpenFails \/ Open
  BY <1>0, <1>1 DEF OpenFails, Open, locks, input, output
<1>2. CASE SetConfig \/ Close
  BY <1>0, <1>2 DEF SetConfig, Close, locks, input, output
<1>3. CASE SignalThreads \/ JoinThreads
  BY <1>3 DEF SignalThreads, JoinThreads, locks, input, output
<1>4. CASE Read \/ WakeCommWrite
  BY <1>4 DEF Read, WakeCommWrite, port, locks, input, output
<1>5. CASE Write
  BY <1>0, <1>5 DEF Write, port, input
<1>6. CASE CommRead
  BY <1>6 DEF CommRead, Select, ReadPort, PutIncomingData, port, locks, input, output
<1>7. CASE CommWrite
  BY <1>7 DEF CommWrite, StartCommWrite, CommWriteWakes, OutgoingDataSize, GetOutgoingData,
              WritePort, port, locks, input, output
<1>8. CASE Environment
  BY <1>0, <1>8 DEF Environment, Arrive, HangUp, DescriptorTaken, SpuriousWakeup, port, locks,
              input, output
<1>9. CASE UNCHANGED vars
  BY <1>9 DEF vars, port, locks, input, output
<1>10. QED
  BY <1>1, <1>2, <1>3, <1>4, <1>5, <1>6, <1>7, <1>8, <1>9 DEF Next, Client

\* The locks and the threads' hands.
LEMMA HandsStep ==
  ASSUME HandsTyped, ThreadsWithinPort, [Next]_vars
  PROVE  HandsTyped'
<1> USE DEF HandsTyped, QuitOrWait
<1>1. CASE OpenFails
  BY <1>1 DEF OpenFails, locks, input, output, control
<1>2. CASE Open
  BY <1>2 DEF Open, locks, input, output, ThreadsWithinPort
<1>3. CASE SetConfig \/ Close
  BY <1>3 DEF SetConfig, Close, locks, input, output
<1>4. CASE SignalThreads \/ JoinThreads
  BY <1>4 DEF SignalThreads, JoinThreads, locks, input, output
<1>5. CASE Read
  <2>1. UNCHANGED <<locks, readerBuf, output, control>>
    BY <1>5 DEF Read
  <2>2. QED
    BY <2>1 DEF locks, output, control
<1>6. CASE Write \/ WakeCommWrite
  BY <1>6 DEF Write, WakeCommWrite, input, output
<1>7. CASE CommRead
  BY <1>7 DEF CommRead, Select, ReadPort, PutIncomingData, locks, input, output
<1>8. CASE StartCommWrite \/ CommWriteWakes
  BY <1>8 DEF StartCommWrite, CommWriteWakes, input, output
<1>9. CASE OutgoingDataSize \/ GetOutgoingData
  BY <1>9 DEF OutgoingDataSize, GetOutgoingData, locks, input, output
<1>10. CASE WritePort
  BY <1>10 DEF WritePort, input
<1>11. CASE Environment
  BY <1>11 DEF Environment, Arrive, HangUp, DescriptorTaken, SpuriousWakeup, locks, input,
               output, control
<1>12. CASE UNCHANGED vars
  BY <1>12 DEF vars, locks, input, output, control
<1>13. QED
  BY <1>1, <1>2, <1>3, <1>4, <1>5, <1>6, <1>7, <1>8, <1>9, <1>10, <1>11, <1>12
     DEF Next, Client, CommWrite

\* The steps that open, close, start, end or join.
LEMMA ThreadsStep ==
  ASSUME ThreadsWithinPort, [Next]_vars
  PROVE  ThreadsWithinPort'
<1> USE DEF ThreadsWithinPort, QuitOrWait, Handle
<1>1. CASE OpenFails \/ Open
  BY <1>1 DEF OpenFails, Open, control
<1>2. CASE SetConfig \/ Close \/ SignalThreads
  BY <1>2 DEF SetConfig, Close, SignalThreads
<1>3. CASE JoinThreads
  BY <1>3 DEF JoinThreads
<1>4. CASE Read \/ Write \/ WakeCommWrite
  BY <1>4 DEF Read, Write, WakeCommWrite, port, control
<1>5. CASE CommRead
  BY <1>5 DEF CommRead, Select, ReadPort, PutIncomingData, port
<1>6. CASE CommWrite
  BY <1>6 DEF CommWrite, StartCommWrite, CommWriteWakes, OutgoingDataSize, GetOutgoingData,
              WritePort, port
<1>7. CASE Environment
  BY <1>7 DEF Environment, Arrive, HangUp, DescriptorTaken, SpuriousWakeup, port, control
<1>8. CASE UNCHANGED vars
  BY <1>8 DEF vars, port, control
<1>9. QED
  BY <1>1, <1>2, <1>3, <1>4, <1>5, <1>6, <1>7, <1>8 DEF Next, Client

\* Both hold from the start and every step keeps them.
LEMMA Invariants == Spec => [](TypeOK /\ ThreadsWithinPort)
<1>1. Init => TypeOK /\ ThreadsWithinPort
  <2> HAVE Init
  <2>1. {fReadBuffer, readerBuf, incoming, received, fWriteBuffer, writerBuf, wire}
          \subseteq Seq(Nat)
    BY EmptySeq DEF Init
  <2>2. HandsTyped /\ ThreadsWithinPort
    BY DEF Init, HandsTyped, ThreadsWithinPort
  <2>3. {fCommEstablished, descriptor0, fTimeToQuit, signal, waiting, hungUp}
          \subseteq BOOLEAN
    <3>1. /\ fCommEstablished \in BOOLEAN /\ descriptor0 \in BOOLEAN
          /\ fTimeToQuit \in BOOLEAN /\ signal \in BOOLEAN
          /\ waiting \in BOOLEAN /\ hungUp \in BOOLEAN
      BY DEF Init
    <3>2. QED
      BY <3>1
  <2>4. fCommHandle \in {0, Handle} /\ {fails, arrived, sent} \subseteq Nat
    BY DEF Init
  <2>5. QED
    BY <2>1, <2>2, <2>3, <2>4 DEF TypeOK
<1>2. TypeOK /\ ThreadsWithinPort /\ [Next]_vars => TypeOK'
  <2> HAVE TypeOK /\ ThreadsWithinPort /\ [Next]_vars
  <2>1. Buffers'
    BY BuffersTyped, BoundsAssumption
  <2>2. HandsTyped'
    BY HandsStep DEF TypeOK
  <2>3. QED
    BY <2>1, <2>2, ScalarsTyped, BoundsAssumption DEF TypeOK, Buffers
<1>3. TypeOK /\ ThreadsWithinPort /\ [Next]_vars => ThreadsWithinPort'
  BY ThreadsStep
<1>4. QED
  BY <1>1, <1>2, <1>3, PTL DEF Spec

\* Types, locks and buffers of EmTransportSerial over every interleaving of the
\* client with CommRead and CommWrite.
THEOREM Typing == Spec => []TypeOK
<1>1. QED
  BY Invariants, PTL

\* CommRead and CommWrite exist exactly while the port is open: CloseCommPort
\* never closes a descriptor that one of them uses, and an Open that fails after
\* CreateCommThreads leaves none behind.
THEOREM Threads == Spec => []ThreadsWithinPort
<1>1. QED
  BY Invariants, PTL

\* PutOutgoingData and CommWrite, once each holds the lock that the other needs,
\* hold it for ever: no step of any thread or of the outside releases one.
THEOREM Deadlock == Spec => EmbraceLasts
<1>1. TypeOK /\ [Next]_vars => (Embrace => Embrace')
  <2> SUFFICES ASSUME TypeOK, [Next]_vars, Embrace
               PROVE  Embrace'
    OBVIOUS
  <2> USE DEF Embrace, TypeOK, HandsTyped
  <2>1. CASE Client
    BY <2>1 DEF Client, OpenFails, Open, SetConfig, Close, SignalThreads, JoinThreads, Read,
                Write, WakeCommWrite
  <2>2. CASE CommRead
    BY <2>2 DEF CommRead, Select, ReadPort, PutIncomingData
  <2>3. CASE CommWrite
    BY <2>3 DEF CommWrite, StartCommWrite, CommWriteWakes, OutgoingDataSize, GetOutgoingData,
                WritePort
  <2>4. CASE Environment
    BY <2>4 DEF Environment, Arrive, HangUp, DescriptorTaken, SpuriousWakeup, control
  <2>5. CASE UNCHANGED vars
    BY <2>5 DEF vars, control
  <2>6. QED
    BY <2>1, <2>2, <2>3, <2>4, <2>5 DEF Next
<1>2. QED
  BY <1>1, Typing, PTL DEF Spec, EmbraceLasts

-----------------------------------------------------------------------------
(* The transport implements a stream of bytes in each direction. *)

\* What the client's Write and the two threads do to the bytes on their way out.
LEMMA OutgoingStep ==
  ASSUME BoundsAssumption, TypeOK, [Next]_vars
  PROVE  [Outgoing!Next]_(Outgoing!stream)
<1> DEFINE Same == UNCHANGED <<sent, writerBuf, fWriteBuffer, wire>>
<1>0. /\ writerBuf \in Seq(Nat) /\ fWriteBuffer \in Seq(Nat) /\ wire \in Seq(Nat)
      /\ sent \in Nat /\ MaxOut \in Nat /\ MaxChunk \in Nat
  BY DEF TypeOK, BoundsAssumption
<1>1. CASE Write
  <2>1. PICK n \in 1..MaxChunk:
          /\ sent + n <= MaxOut
          /\ sent' = sent + n
          /\ fWriteBuffer' = fWriteBuffer \o [i \in 1..n |-> sent + i]
    BY <1>1 DEF Write
  <2>2. [i \in 1..n |-> sent + i] \in Seq(Nat)
    BY <1>0, Chunk
  <2>3. writerBuf \o (fWriteBuffer \o [i \in 1..n |-> sent + i])
          = (writerBuf \o fWriteBuffer) \o [i \in 1..n |-> sent + i]
    <3> DEFINE b == [i \in 1..n |-> sent + i]
    <3>1. b \in Seq(Nat)
      BY <2>2
    <3> HIDE DEF b
    <3>2. writerBuf \o (fWriteBuffer \o b) = (writerBuf \o fWriteBuffer) \o b
      BY <1>0, <3>1, Associative, Zenon
    <3>3. QED
      BY <3>2 DEF b
  <2>4. writerBuf' = writerBuf /\ wire' = wire
    BY <1>1 DEF Write
  <2>5. n \in 1..(MaxOut - sent)
    BY <1>0, <2>1
  <2>6. Outgoing!Put
    BY <2>1, <2>3, <2>4, <2>5 DEF Outgoing!Put
  <2>7. QED
    BY <2>6 DEF Outgoing!Next
<1>2. CASE GetOutgoingData
  <2>1. writerBuf = <<>>
    BY <1>2 DEF GetOutgoingData, TypeOK, HandsTyped
  <2>2. /\ writerBuf' = fWriteBuffer /\ fWriteBuffer' = <<>>
        /\ UNCHANGED <<sent, wire>>
    BY <1>2 DEF GetOutgoingData
  <2>3. fWriteBuffer \o <<>> = <<>> \o fWriteBuffer
    BY <1>0, ConcatEmptySeq
  <2>4. QED
    BY <2>1, <2>2, <2>3 DEF Outgoing!stream
<1>3. CASE WritePort
  <2>1. PICK n \in 0..Len(writerBuf): wire' = wire \o SubSeq(writerBuf, 1, n)
    BY <1>3 DEF WritePort
  <2>2. writerBuf' = <<>> /\ UNCHANGED <<sent, fWriteBuffer>>
    BY <1>3 DEF WritePort
  <2> DEFINE m == Len(writerBuf)
             q == writerBuf \o fWriteBuffer
  <2>3. m \in Nat /\ Len(fWriteBuffer) \in Nat /\ Len(q) = m + Len(fWriteBuffer)
    BY <1>0, LenProperties, ConcatProperties
  <2>4. SubSeq(q, 1, n) = SubSeq(writerBuf, 1, n)
    BY <1>0, SliceOfQueue
  <2>5. SubSeq(q, m + 1, Len(q)) = SubSeq(writerBuf, m + 1, m) \o fWriteBuffer
    <3>1. m \in 0..Len(writerBuf)
      BY <2>3
    <3>2. QED
      BY <1>0, <3>1, SliceOfQueue
  <2>6. SubSeq(writerBuf, m + 1, m) = <<>>
    BY <1>0, <2>3, SubSeqEmpty
  <2>7. (writerBuf \o fWriteBuffer)' = <<>> \o fWriteBuffer
    BY <2>2
  <2>8. CASE m = 0
    <3>1. writerBuf = <<>>
      BY <1>0, <2>8, EmptySeq
    <3>2. SubSeq(writerBuf, 1, n) = <<>>
      BY <2>1, <2>3, <2>8, <1>0, SubSeqEmpty
    <3>3. wire' = wire
      BY <2>1, <3>2, <1>0, ConcatEmptySeq
    <3>4. QED
      BY <2>2, <3>1, <3>3 DEF Outgoing!stream
  <2>9. CASE m # 0
    <3>1. m \in 1..Len(q)
      BY <2>3, <2>9
    <3>2. Outgoing!Deliver
      BY <2>1, <2>2, <2>4, <2>5, <2>6, <2>7, <3>1 DEF Outgoing!Deliver
    <3>3. QED
      BY <3>2 DEF Outgoing!Next
  <2>10. QED
    BY <2>8, <2>9
<1>4. CASE Same
  BY <1>4 DEF Outgoing!stream
<1>5. Client => Write \/ Same
  BY DEF Client, OpenFails, Open, SetConfig, Close, SignalThreads, JoinThreads, Read,
         WakeCommWrite, output
<1>6. CommRead => Same
  BY DEF CommRead, Select, ReadPort, PutIncomingData, output
<1>7. CommWrite => GetOutgoingData \/ WritePort \/ Same
  BY DEF CommWrite, StartCommWrite, CommWriteWakes, OutgoingDataSize, output
<1>8. Environment => Same
  BY DEF Environment, Arrive, HangUp, DescriptorTaken, SpuriousWakeup, output
<1>9. UNCHANGED vars => Same
  BY DEF vars, output
<1>10. QED
  BY <1>1, <1>2, <1>3, <1>4, <1>5, <1>6, <1>7, <1>8, <1>9 DEF Next

\* PutOutgoingData, GetOutgoingData and CommWrite together pass on the bytes of
\* the client's Writes in order and once each, over every opening and closing.
THEOREM OutgoingBytes == Spec => OutgoingSpec
<1>1. Init => Outgoing!Init
  <2> HAVE Init
  <2>1. <<>> \o <<>> = <<>>
    BY EmptySeq, ConcatEmptySeq
  <2>2. QED
    BY <2>1 DEF Init, Outgoing!Init
<1>2. TypeOK /\ [Next]_vars => [Outgoing!Next]_(Outgoing!stream)
  BY OutgoingStep, BoundsAssumption
<1>3. QED
  BY <1>1, <1>2, Typing, PTL DEF Spec, OutgoingSpec, Outgoing!Spec

\* What arrivals, CommRead and the client's Read do to the bytes on their way in.
LEMMA IncomingStep ==
  ASSUME BoundsAssumption, TypeOK, [Next]_vars
  PROVE  [Incoming!Next]_(Incoming!stream)
<1> DEFINE Same == UNCHANGED <<arrived, fReadBuffer, readerBuf, incoming, received>>
<1>0. /\ fReadBuffer \in Seq(Nat) /\ readerBuf \in Seq(Nat) /\ incoming \in Seq(Nat)
      /\ fReadBuffer \o readerBuf \in Seq(Nat) /\ readerBuf \o incoming \in Seq(Nat)
      /\ received \in Seq(Nat) /\ <<>> \in Seq(Nat)
      /\ arrived \in Nat /\ MaxIn \in Nat /\ MaxChunk \in Nat
  <2>1. fReadBuffer \in Seq(Nat) /\ readerBuf \in Seq(Nat) /\ incoming \in Seq(Nat)
    BY DEF TypeOK
  <2>2. fReadBuffer \o readerBuf \in Seq(Nat) /\ readerBuf \o incoming \in Seq(Nat)
    BY <2>1, ConcatProperties
  <2>3. QED
    BY <2>1, <2>2, EmptySeq DEF TypeOK, BoundsAssumption
<1>1. CASE Arrive
  <2>1. /\ arrived < MaxIn /\ arrived' = arrived + 1
        /\ incoming' = Append(incoming, arrived + 1)
        /\ UNCHANGED <<fReadBuffer, readerBuf, received>>
    BY <1>1 DEF Arrive
  <2> DEFINE b == [i \in 1..1 |-> arrived + i]
  <2>2. b = <<arrived + 1>>
    BY <1>0
  <2>3. b \in Seq(Nat)
    BY <1>0, Chunk
  <2>4. incoming' = incoming \o b
    <3>1. arrived + 1 \in Nat
      BY <1>0
    <3>2. Append(incoming, arrived + 1) = incoming \o <<arrived + 1>>
      BY <1>0, <3>1, AppendIsConcat
    <3>3. QED
      BY <2>1, <2>2, <3>2
  <2> HIDE DEF b
  <2>5. (fReadBuffer \o readerBuf) \o (incoming \o b)
          = ((fReadBuffer \o readerBuf) \o incoming) \o b
    <3> DEFINE front == fReadBuffer \o readerBuf
    <3>1. front \in Seq(Nat)
      BY <1>0
    <3> HIDE DEF front
    <3>2. (front \o incoming) \o b = front \o (incoming \o b)
      BY <1>0, <2>3, <3>1, Associative
    <3>3. QED
      BY <3>2 DEF front
  <2>6. 1 \in 1..(MaxIn - arrived)
    BY <1>0, <2>1
  <2>7. Incoming!Put
    BY <2>1, <2>4, <2>5, <2>6 DEF Incoming!Put, b
  <2>8. QED
    BY <2>7 DEF Incoming!Next
<1>2. CASE ReadPort
  <2>1. CASE readerBuf' = incoming /\ incoming' = <<>>
    <3>1. readerBuf = <<>>
      BY <1>2 DEF ReadPort, TypeOK, HandsTyped
    <3>2. UNCHANGED <<arrived, fReadBuffer, received>>
      BY <1>2 DEF ReadPort
    <3>3. (fReadBuffer \o incoming) \o <<>> = (fReadBuffer \o <<>>) \o incoming
      <4>1. fReadBuffer \o incoming \in Seq(Nat)
        BY <1>0, ConcatProperties
      <4>2. (fReadBuffer \o incoming) \o <<>> = fReadBuffer \o incoming
        BY <4>1, ConcatEmptySeq
      <4>3. fReadBuffer \o <<>> = fReadBuffer
        BY <1>0, ConcatEmptySeq
      <4>4. QED
        BY <4>2, <4>3
    <3>4. QED
      BY <2>1, <3>1, <3>2, <3>3 DEF Incoming!stream
  <2>2. CASE UNCHANGED <<readerBuf, incoming>>
    BY <1>2, <2>2 DEF ReadPort, Incoming!stream
  <2>3. QED
    BY <1>2, <2>1, <2>2 DEF ReadPort
<1>3. CASE PutIncomingData
  <2>1. /\ fReadBuffer' = fReadBuffer \o readerBuf /\ readerBuf' = <<>>
        /\ UNCHANGED <<arrived, incoming, received>>
    BY <1>3 DEF PutIncomingData
  <2>2. (fReadBuffer \o readerBuf) \o <<>> = fReadBuffer \o readerBuf
    BY <1>0, ConcatEmptySeq
  <2>3. QED
    BY <2>1, <2>2 DEF Incoming!stream
<1>4. CASE Read
  <2>1. PICK n \in 1..MaxChunk:
          LET len == IF n > Len(fReadBuffer) THEN Len(fReadBuffer) ELSE n IN
            /\ received' = received \o SubSeq(fReadBuffer, 1, len)
            /\ fReadBuffer' = SubSeq(fReadBuffer, len + 1, Len(fReadBuffer))
    BY <1>4 DEF Read
  <2>2. UNCHANGED <<arrived, readerBuf, incoming>>
    BY <1>4 DEF Read
  <2> DEFINE len == IF n > Len(fReadBuffer) THEN Len(fReadBuffer) ELSE n
             back == readerBuf \o incoming
             q == (fReadBuffer \o readerBuf) \o incoming
             rest == SubSeq(fReadBuffer, len + 1, Len(fReadBuffer))
  <2>3. /\ Len(fReadBuffer) \in Nat /\ Len(back) \in Nat
        /\ Len(fReadBuffer \o back) = Len(fReadBuffer) + Len(back)
    BY <1>0, LenProperties, ConcatProperties
  <2>4. len \in 0..Len(fReadBuffer)
    BY <2>3, <1>0
  <2>5. /\ received' = received \o SubSeq(fReadBuffer, 1, len)
        /\ fReadBuffer' = rest
    BY <2>1
  <2> HIDE DEF len
  <2>6. q = fReadBuffer \o back
    <3>1. fReadBuffer \in Seq(Nat) /\ readerBuf \in Seq(Nat) /\ incoming \in Seq(Nat)
      BY <1>0
    <3>2. (fReadBuffer \o readerBuf) \o incoming = fReadBuffer \o (readerBuf \o incoming)
      BY <3>1, Associative
    <3>3. QED
      BY <3>2
  <2>7. /\ SubSeq(q, 1, len) = SubSeq(fReadBuffer, 1, len)
        /\ SubSeq(q, len + 1, Len(q)) = rest \o back
    <3>1. back \in Seq(Nat)
      BY <1>0
    <3> HIDE DEF back, q
    <3>2. /\ SubSeq(fReadBuffer \o back, 1, len) = SubSeq(fReadBuffer, 1, len)
          /\ SubSeq(fReadBuffer \o back, len + 1, Len(fReadBuffer \o back)) = rest \o back
      BY <1>0, <2>4, <3>1, SliceOfQueue
    <3>3. QED
      BY <2>6, <3>2
  <2>8. rest \in Seq(Nat)
    BY <1>0, <2>4, Slices
  <2>9. ((fReadBuffer \o readerBuf) \o incoming)' = rest \o back
    <3> HIDE DEF rest
    <3>1. (rest \o readerBuf) \o incoming = rest \o (readerBuf \o incoming)
      BY <1>0, <2>8, Associative, Zenon
    <3>2. QED
      BY <2>2, <2>5, <3>1
  <2> HIDE DEF rest
  <2>10. CASE len = 0
    <3>1. SubSeq(fReadBuffer, 1, len) = <<>>
      BY <2>10, <1>0, SubSeqEmpty
    <3>2. received' = received
      BY <2>5, <3>1, <1>0, ConcatEmptySeq
    <3>3. rest = fReadBuffer
      BY <2>10, <1>0, SubSeqFull DEF rest
    <3>4. QED
      BY <2>2, <2>5, <3>2, <3>3 DEF Incoming!stream
  <2>11. CASE len # 0
    <3>1. len \in 1..Len(q)
      BY <2>3, <2>4, <2>6, <2>11
    <3>2. Incoming!Deliver
      BY <2>2, <2>5, <2>7, <2>9, <3>1 DEF Incoming!Deliver
    <3>3. QED
      BY <3>2 DEF Incoming!Next
  <2>12. QED
    BY <2>10, <2>11
<1>5. CASE Same
  BY <1>5 DEF Incoming!stream
<1>6. Client => Read \/ Same
  BY DEF Client, OpenFails, Open, SetConfig, Close, SignalThreads, JoinThreads, Write,
         WakeCommWrite, input
<1>7. CommRead => ReadPort \/ PutIncomingData \/ Same
  BY DEF CommRead, Select, input
<1>8. CommWrite => Same
  BY DEF CommWrite, StartCommWrite, CommWriteWakes, OutgoingDataSize, GetOutgoingData,
         WritePort, input
<1>9. Environment => Arrive \/ Same
  BY DEF Environment, HangUp, DescriptorTaken, SpuriousWakeup, input
<1>10. UNCHANGED vars => Same
  BY DEF vars, input
<1>11. QED
  BY <1>1, <1>2, <1>3, <1>4, <1>5, <1>6, <1>7, <1>8, <1>9, <1>10 DEF Next

\* CommRead, PutIncomingData and GetIncomingData together pass on the bytes that
\* arrive in order, once each and with none left out.
THEOREM IncomingBytes == Spec => IncomingSpec
<1>1. Init => Incoming!Init
  <2> HAVE Init
  <2>1. <<>> \o <<>> = <<>>
    BY EmptySeq, ConcatEmptySeq
  <2>2. QED
    BY <2>1 DEF Init, Incoming!Init
<1>2. TypeOK /\ [Next]_vars => [Incoming!Next]_(Incoming!stream)
  BY IncomingStep, BoundsAssumption
<1>3. QED
  BY <1>1, <1>2, Typing, PTL DEF Spec, IncomingSpec, Incoming!Spec

=============================================================================
