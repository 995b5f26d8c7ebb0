------------------------- MODULE EmTransportSerial -------------------------
(***************************************************************************)
(* EmTransportSerial.cpp and its Unix host, EmTransportSerialUnix.cpp: a    *)
(* serial port of the host that the emulated UART reads from and writes to. *)
(* Open starts two threads: CommRead moves bytes from the port to           *)
(* fReadBuffer, CommWrite moves them from fWriteBuffer to the port.  Close  *)
(* ends both.  The client is the code that calls the transport: the CPU     *)
(* thread, or the UI thread while it has the CPU thread suspended.          *)
(*                                                                          *)
(* A region that holds fReadMutex does nothing else that can block, so it   *)
(* is one action; fWriteMutex and fDataMutex, which are held together, are  *)
(* variables.  fDataCondition has one waiter, CommWrite.                    *)
(***************************************************************************)
EXTENDS Integers, Sequences

CONSTANTS
  MaxOut,    \* bound on the bytes the client writes
  MaxIn,     \* bound on the bytes that arrive at the port
  MaxChunk,  \* bound on the bytes of one Read or Write
  MaxFails   \* bound on the attempts to open that fail

ASSUME BoundsAssumption == {MaxOut, MaxIn, MaxChunk, MaxFails} \subseteq Nat

VARIABLES
  fCommEstablished,  \* the transport is open
  fCommHandle,       \* descriptor of the port, 0 if there is none
  descriptor0,       \* descriptor 0 is in use by another part of the program
  fTimeToQuit,       \* the threads are asked to end
  fWriteMutex,       \* the thread that holds it, or "nobody"
  fDataMutex,        \* the thread that holds it, or "nobody"
  waiting,           \* CommWrite is inside fDataCondition.wait
  fReadBuffer,       \* bytes read from the port
  fWriteBuffer,      \* bytes to be written to the port
  client, reader, writer,  \* where each thread is
  readerBuf,         \* CommRead's buf
  writerBuf,         \* CommWrite's buf
  signal,            \* a byte is in the signal pipe
  incoming,          \* bytes that arrived at the port and were not read yet
  hungUp,            \* the other end of the port is gone
  wire,              \* bytes that the port accepted
  sent,              \* the number of bytes the client wrote
  arrived,           \* the number of bytes that ever arrived
  received,          \* the bytes that the client read
  fails              \* failed attempts to open

port    == <<fCommEstablished, fCommHandle, descriptor0, fTimeToQuit, signal, fails>>
locks   == <<fWriteMutex, fDataMutex, waiting>>
input   == <<fReadBuffer, readerBuf, incoming, hungUp, arrived, received>>
output  == <<fWriteBuffer, writerBuf, wire, sent>>
control == <<client, reader, writer>>
vars    == <<port, locks, input, output, control>>

Handle == 3  \* any descriptor but 0

-----------------------------------------------------------------------------
(* The client: Open and Close. *)

\* OpenCommPort fails: there is no such port, or descriptor 0 is free and open
\* returns it, which it takes for an error (errno still holds the error of the
\* attempt that freed descriptor 0).  Nothing was started, but HostOpen and then
\* Open call HostClose, which closes fCommHandle, that is 0.
OpenFails ==
  /\ client = "idle" /\ ~fCommEstablished /\ fails < MaxFails
  /\ fails' = fails + 1
  /\ descriptor0' = FALSE
  /\ UNCHANGED <<fCommEstablished, fCommHandle, fTimeToQuit, signal, locks, input,
                 output, control>>

\* Another part of the program opens a file.
DescriptorTaken ==
  /\ ~descriptor0
  /\ descriptor0' = TRUE
  /\ UNCHANGED <<fCommEstablished, fCommHandle, fTimeToQuit, signal, fails, locks, input,
                 output, control>>

\* Open: OpenCommPort, then CreateCommThreads, whose pipe is taken to be created.
\* The buffers stay as they are.
Open ==
  /\ client = "idle" /\ ~fCommEstablished /\ descriptor0
  /\ fCommHandle' = Handle
  /\ fTimeToQuit' = FALSE
  /\ reader' = "select" /\ writer' = "start"
  /\ client' = "configure"
  /\ UNCHANGED <<fCommEstablished, descriptor0, signal, fails, locks, input, output>>

\* ... and HostSetConfig, which may fail once the threads run.
SetConfig ==
  /\ client = "configure"
  /\ \/ /\ fCommEstablished' = TRUE
        /\ client' = "idle"
        /\ UNCHANGED fails
     \/ /\ fails < MaxFails
        /\ fails' = fails + 1
        /\ client' = "signal"
        /\ UNCHANGED fCommEstablished
  /\ UNCHANGED <<fCommHandle, descriptor0, fTimeToQuit, signal, locks, input, output, reader,
                 writer>>

Close ==
  /\ client = "idle" /\ fCommEstablished
  /\ fCommEstablished' = FALSE
  /\ client' = "signal"
  /\ UNCHANGED <<fCommHandle, descriptor0, fTimeToQuit, signal, fails, locks, input, output,
                 reader, writer>>

\* Mutant: CommWrite is not woken up to see that it shall quit.
SignalThreadsSilently ==
  /\ client = "signal" /\ fDataMutex = "nobody"
  /\ fTimeToQuit' = TRUE
  /\ signal' = TRUE
  /\ client' = "join"
  /\ UNCHANGED <<fCommEstablished, fCommHandle, descriptor0, fails, locks, input, output,
                 reader, writer>>

\* DestroyCommThreads, the region under fDataMutex.
SignalThreads ==
  /\ client = "signal" /\ fDataMutex = "nobody"
  /\ fTimeToQuit' = TRUE
  /\ signal' = TRUE
  /\ waiting' = FALSE
  /\ client' = "join"
  /\ UNCHANGED <<fCommEstablished, fCommHandle, descriptor0, fails, fWriteMutex, fDataMutex,
                 input, output, reader, writer>>

\* Mutant: only the first thread is joined.
JoinReader ==
  /\ client = "join" /\ reader = "done"
  /\ reader' = "none" /\ writer' = writer
  /\ signal' = FALSE
  /\ fCommHandle' = 0
  /\ client' = "idle"
  /\ UNCHANGED <<fCommEstablished, descriptor0, fTimeToQuit, fails, locks, input, output>>

\* Both threads have ended: close the pipe and, in CloseCommPort, the port.
JoinThreads ==
  /\ client = "join" /\ reader = "done" /\ writer = "done"
  /\ reader' = "none" /\ writer' = "none"
  /\ signal' = FALSE
  /\ fCommHandle' = 0
  /\ client' = "idle"
  /\ UNCHANGED <<fCommEstablished, descriptor0, fTimeToQuit, fails, locks, input, output>>

-----------------------------------------------------------------------------
(* The client: Read and Write. *)

\* GetIncomingData: no more bytes than there are.
Read ==
  /\ client = "idle" /\ fCommEstablished
  /\ \E n \in 1..MaxChunk:
       LET len == IF n > Len(fReadBuffer) THEN Len(fReadBuffer) ELSE n IN
         /\ received' = received \o SubSeq(fReadBuffer, 1, len)
         /\ fReadBuffer' = SubSeq(fReadBuffer, len + 1, Len(fReadBuffer))
  /\ UNCHANGED <<port, locks, readerBuf, incoming, hungUp, arrived, output, control>>

\* PutOutgoingData appends the bytes under fWriteMutex ...
Write ==
  /\ client = "idle" /\ fCommEstablished /\ fWriteMutex = "nobody"
  /\ \E n \in 1..MaxChunk:
       /\ sent + n <= MaxOut
       /\ sent' = sent + n
       /\ fWriteBuffer' = fWriteBuffer \o [i \in 1..n |-> sent + i]
  /\ fWriteMutex' = "client"
  /\ client' = "wake"
  /\ UNCHANGED <<port, fDataMutex, waiting, input, writerBuf, wire, reader, writer>>

\* ... and wakes CommWrite up under fDataMutex, fWriteMutex still in hand.
WakeCommWrite ==
  /\ client = "wake" /\ fDataMutex = "nobody"
  /\ waiting' = FALSE
  /\ fWriteMutex' = "nobody"
  /\ client' = "idle"
  /\ UNCHANGED <<port, fDataMutex, input, output, reader, writer>>

-----------------------------------------------------------------------------
(* CommRead. *)

\* Bytes arrive at the port, or its other end hangs up.
Arrive ==
  /\ ~hungUp /\ arrived < MaxIn
  /\ arrived' = arrived + 1
  /\ incoming' = Append(incoming, arrived + 1)
  /\ UNCHANGED <<port, locks, fReadBuffer, readerBuf, hungUp, received, output, control>>

HangUp ==
  /\ ~hungUp
  /\ hungUp' = TRUE
  /\ UNCHANGED <<port, locks, fReadBuffer, readerBuf, incoming, arrived, received, output,
                 control>>

\* The head of the loop, select, and the test behind it.
Select ==
  /\ reader = "select"
  /\ fTimeToQuit \/ signal \/ incoming # <<>> \/ hungUp
  /\ reader' = IF fTimeToQuit THEN "done" ELSE "read"
  /\ UNCHANGED <<port, locks, input, output, client, writer>>

\* read returns what there is, or nothing: the port was closed.  An error is
\* taken for no bytes, and the loop goes on.
ReadPort ==
  /\ reader = "read"
  /\ \/ /\ incoming # <<>>
        /\ readerBuf' = incoming /\ incoming' = <<>>
        /\ reader' = "put"
     \/ /\ incoming = <<>>
        /\ reader' \in {"done", "select"}
        /\ UNCHANGED <<readerBuf, incoming>>
  /\ UNCHANGED <<port, locks, fReadBuffer, hungUp, arrived, received, output, client, writer>>

\* Mutant: the new bytes replace those that the client has not read yet.
PutIncomingDataOver ==
  /\ reader = "put"
  /\ fReadBuffer' = readerBuf
  /\ readerBuf' = <<>>
  /\ reader' = "select"
  /\ UNCHANGED <<port, locks, incoming, hungUp, arrived, received, output, client, writer>>

PutIncomingData ==
  /\ reader = "put"
  /\ fReadBuffer' = fReadBuffer \o readerBuf
  /\ readerBuf' = <<>>
  /\ reader' = "select"
  /\ UNCHANGED <<port, locks, incoming, hungUp, arrived, received, output, client, writer>>

-----------------------------------------------------------------------------
(* CommWrite, which holds fDataMutex except in the wait. *)

\* The head of the loop: quit, or wait with fDataMutex released.
QuitOrWait ==
  /\ fDataMutex' = "nobody"
  /\ IF fTimeToQuit THEN writer' = "done" /\ UNCHANGED waiting
                    ELSE writer' = "wait" /\ waiting' = TRUE

StartCommWrite ==
  /\ writer = "start" /\ fDataMutex = "nobody"
  /\ QuitOrWait
  /\ UNCHANGED <<port, fWriteMutex, input, output, client, reader>>

\* The wait is over: fDataMutex is taken again.
CommWriteWakes ==
  /\ writer = "wait" /\ ~waiting /\ fDataMutex = "nobody"
  /\ IF fTimeToQuit THEN writer' = "done" /\ UNCHANGED fDataMutex
                    ELSE writer' = "size" /\ fDataMutex' = "writer"
  /\ UNCHANGED <<port, fWriteMutex, waiting, input, output, client, reader>>

\* Mutant: the way back to sleep does not release fDataMutex.
OutgoingDataSizeKeepsLock ==
  /\ writer = "size" /\ fWriteMutex = "nobody"
  /\ IF fWriteBuffer = <<>>
     THEN writer' = "wait" /\ waiting' = TRUE
     ELSE writer' = "get" /\ UNCHANGED waiting
  /\ UNCHANGED <<port, fWriteMutex, fDataMutex, input, output, client, reader>>

\* OutgoingDataSize: if there really was not any, back to sleep.
OutgoingDataSize ==
  /\ writer = "size" /\ fWriteMutex = "nobody"
  /\ IF fWriteBuffer = <<>>
     THEN QuitOrWait
     ELSE writer' = "get" /\ UNCHANGED <<fDataMutex, waiting>>
  /\ UNCHANGED <<port, fWriteMutex, input, output, client, reader>>

\* Mutant: the bytes are copied and not erased.
GetOutgoingDataCopied ==
  /\ writer = "get" /\ fWriteMutex = "nobody"
  /\ writerBuf' = fWriteBuffer /\ UNCHANGED fWriteBuffer
  /\ writer' = "write"
  /\ UNCHANGED <<port, locks, input, wire, sent, client, reader>>

\* GetOutgoingData, for the size seen before: as long as fDataMutex is held, no
\* call of PutOutgoingData has come to its end meanwhile.
GetOutgoingData ==
  /\ writer = "get" /\ fWriteMutex = "nobody"
  /\ writerBuf' = fWriteBuffer /\ fWriteBuffer' = <<>>
  /\ writer' = "write"
  /\ UNCHANGED <<port, locks, input, wire, sent, client, reader>>

\* ::write accepts some of the bytes; its result is ignored.
WritePort ==
  /\ writer = "write"
  /\ \E n \in 0..Len(writerBuf): wire' = wire \o SubSeq(writerBuf, 1, n)
  /\ writerBuf' = <<>>
  /\ QuitOrWait
  /\ UNCHANGED <<port, fWriteMutex, input, fWriteBuffer, sent, client, reader>>

\* A condition variable may release the waiting thread for no reason.
SpuriousWakeup ==
  /\ waiting
  /\ waiting' = FALSE
  /\ UNCHANGED <<port, fWriteMutex, fDataMutex, input, output, control>>

-----------------------------------------------------------------------------
Init ==
  /\ fCommEstablished = FALSE /\ fCommHandle = 0 /\ descriptor0 = TRUE
  /\ fTimeToQuit = FALSE /\ signal = FALSE /\ fails = 0
  /\ fWriteMutex = "nobody" /\ fDataMutex = "nobody" /\ waiting = FALSE
  /\ fReadBuffer = <<>> /\ readerBuf = <<>> /\ incoming = <<>> /\ received = <<>>
  /\ hungUp = FALSE /\ arrived = 0
  /\ fWriteBuffer = <<>> /\ writerBuf = <<>> /\ wire = <<>> /\ sent = 0
  /\ client = "idle" /\ reader = "none" /\ writer = "none"

Client ==
  \/ OpenFails \/ Open \/ SetConfig \/ Close \/ SignalThreads \/ JoinThreads
  \/ Read \/ Write \/ WakeCommWrite

CommRead == Select \/ ReadPort \/ PutIncomingData

CommWrite ==
  \/ StartCommWrite \/ CommWriteWakes \/ OutgoingDataSize \/ GetOutgoingData
  \/ WritePort

Environment == Arrive \/ HangUp \/ DescriptorTaken \/ SpuriousWakeup

Next == Client \/ CommRead \/ CommWrite \/ Environment

Spec == Init /\ [][Next]_vars

\* A call of the client that has begun goes on, and so do the two threads.  A
\* client blocked on fDataMutex gets it if CommWrite releases it again and again.
Fairness ==
  /\ WF_vars(SetConfig) /\ WF_vars(JoinThreads)
  /\ SF_vars(SignalThreads) /\ SF_vars(WakeCommWrite)
  /\ WF_vars(CommRead) /\ WF_vars(CommWrite)

FairSpec == Spec /\ Fairness

-----------------------------------------------------------------------------
(* Properties. *)

\* Each lock is held by the thread that is between taking and releasing it, and
\* a thread carries bytes only from taking them until it hands them on.
HandsTyped ==
  /\ client \in {"idle", "configure", "signal", "join", "wake"}
  /\ reader \in {"none", "select", "read", "put", "done"}
  /\ writer \in {"none", "start", "wait", "size", "get", "write", "done"}
  /\ fWriteMutex = IF client = "wake" THEN "client" ELSE "nobody"
  /\ fDataMutex = IF writer \in {"size", "get", "write"} THEN "writer" ELSE "nobody"
  /\ waiting => writer = "wait"
  /\ reader # "put" => readerBuf = <<>>
  /\ writer # "write" => writerBuf = <<>>

\* Every variable keeps its type.
TypeOK ==
  /\ {fCommEstablished, descriptor0, fTimeToQuit, signal, waiting, hungUp} \subseteq BOOLEAN
  /\ fCommHandle \in {0, Handle}
  /\ {fails, arrived, sent} \subseteq Nat
  /\ {fReadBuffer, readerBuf, incoming, received, fWriteBuffer, writerBuf, wire}
       \subseteq Seq(Nat)
  /\ HandsTyped

\* Both threads exist exactly while the port is open: neither uses a descriptor
\* that was closed under it, and there are never two of a kind.  The port is open
\* while the transport is, and in calls of Open and Close on their way
\* (CreateCommThreads, DestroyCommThreads, CloseCommPort).
ThreadsWithinPort ==
  /\ fCommHandle # 0 <=> fCommEstablished \/ client \in {"configure", "signal", "join"}
  /\ reader # "none" <=> fCommHandle # 0
  /\ writer # "none" <=> fCommHandle # 0
  /\ client \in {"configure", "signal", "join"} => ~fCommEstablished
  /\ client = "wake" => fCommEstablished

\* The bytes that the client writes reach the port in order and once each; the
\* port may refuse some of them, the code between loses none.
Outgoing == INSTANCE ByteStream WITH
              MaxBytes <- MaxOut, Lossy <- TRUE,
              put <- sent, queue <- writerBuf \o fWriteBuffer, out <- wire
OutgoingSpec == Outgoing!Spec

\* The bytes that arrive are read by the client in order, once each, and none
\* is left out, over any closing and opening of the transport.
Incoming == INSTANCE ByteStream WITH
              MaxBytes <- MaxIn, Lossy <- FALSE,
              put <- arrived, queue <- fReadBuffer \o readerBuf \o incoming, out <- received
IncomingSpec == Incoming!Spec

\* The client holds fWriteMutex and waits for fDataMutex, CommWrite holds
\* fDataMutex and waits for fWriteMutex.
Embrace == client = "wake" /\ writer \in {"size", "get"}

\* PutOutgoingData, a "Thread-safe method", and CommWrite never wait for each
\* other.
NoEmbrace == ~Embrace

\* ... and if they do, neither gets out of it again: nobody else can release one
\* of the two locks, and Close never comes.
EmbraceLasts == [][Embrace => Embrace']_vars

\* "Before closing the host serial port ..., make sure that all locally buffered data is
\* transmitted": none is left when Close has joined the threads.
ClosedIsFlushed == [][client = "join" /\ client' = "idle" => fWriteBuffer = <<>>]_vars

\* Every call does its work and returns, unless the two embrace: the bytes that a Write
\* announces to a CommWrite that waits for them leave the buffer, or the transport is
\* closed first; Write returns; and so do Close, and an Open that fails after the threads
\* were started.
CallsReturn ==
  /\ (client = "wake" /\ writer = "wait") ~> (fWriteBuffer = <<>> \/ Embrace \/ fTimeToQuit)
  /\ client = "wake" ~> (client # "wake" \/ Embrace)
  /\ client \in {"signal", "join"} ~> client = "idle"
=============================================================================
