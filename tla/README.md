# A specification of the Palm OS Emulator's session, serial port, RPC, hordes and minimizer

This directory holds TLA+ models of parts of the Palm OS Emulator (Poser) as it
stands in `src/`, the TLC configurations that check them on small instances, and
theorems about them that the TLA+ proof system checks for every value of the
constants. Paths below are relative to `src/`.

## 1. The system

Poser runs the ROM of a Palm device on an emulated 68000. One thread, the *CPU
thread*, fetches and executes opcodes; another, the *UI thread*, owns windows,
menus, dialogs, sockets and the debugger's connection. Both call ROM routines, both
can reset the device, and either may have to wait for the other.

| Part | Code | State it keeps | Operations |
|---|---|---|---|
| Session monitor | `SrcShared/EmSession.cpp`, `Hardware/EmCPU68K.cpp` | `fState`, suspend counters, `fNestLevel`, `fStop`, `fBreakOnSysCall`, deferred errors, scheduled resets and loads | Run, SuspendThread, ResumeThread, ExecuteSubroutine, CheckForBreak, BlockOnDialog, Reset |
| Document, actions | `EmDocument.cpp`, `EmAction.cpp` | open session, queue of actions | commands, each under a stopper; HandleIdle |
| SLP, RPC | `SLP.cpp`, `EmRPC.cpp`, `SystemPacket.cpp`, `HostControl.cpp` | packets that wait for a signal, with their deadlines; scripts the device is suspended for | read, handle, defer and answer a packet; signal; time out |
| Sockets | `SocketMessaging.cpp` | new, idled and deleted sockets, the state of each | IdleAll, accept, read, write, close, and the callbacks of these |
| Debugger | `DebugMgr.cpp` | breakpoints | enter and leave the debugger |
| Errors and dialogs | `ErrorHandling.cpp`, `EmDlg.cpp` | — | HandleDialog: show, ignore, reset or debug |
| Serial transport | `EmTransportSerial.cpp`, `SrcUnix/EmTransportSerialUnix.cpp` | two buffers, two threads, a descriptor, a signal pipe | Open, Close, Read, Write |
| UART | `Hardware/EmUARTDragonball.cpp`, `EmRegsEZ.cpp`, `EmHAL.cpp`, `PreferenceMgr.cpp` | two FIFOs, registers, line drivers, the transport of each | StateChanged, UpdateState, TransmitTxFIFO, ReceiveRxFIFO, LineDriverChanged, SetTransports |
| Other transports | `EmTransportSocket.cpp`, `EmTransportUSB.cpp` | buffers, sockets | Open, Close, Read, Write |
| Event playback | `EmEventPlayback.cpp` | recorded events, mask, index, `fPenIsDown` | record, replay, mask, cull, count |
| Minimizer | `EmMinimize.cpp` | stack of ranges, pass number, counts | Start, Stop, ErrorOccurred, NoErrorOccurred and what they call |
| Gremlins | `Hordes.cpp`, `CGremlins.cpp` | range, limits, current Gremlin and depth, who has halted, state and event files | start, post an event, suspend, select the next, stop, step, resume |
| Queues | `EmThreadSafeQueue.cpp` | events for the device | Put, Get, WaitForDataAvailable |
| OS patches | `Patches/`, `EmPalmOS.cpp` | — | head and tail patches of system calls |
| Memory checks, files, logs, preferences, hardware registers, vendored code | elsewhere | | |

`PROJECT.json` lists all of them under `components`, with what is modelled of each
and why the rest is not.

**How they interact.** The UI thread does nothing to the device without an
`EmSessionStopper`, whose constructor calls `SuspendThread` and whose destructor calls
`ResumeThread`. Under it, it may call ROM routines itself (`ExecuteSubroutine`). The CPU
thread calls ROM routines too, from patches; it leaves its loop to answer such requests, to
report errors (a dialog that the UI thread shows for it), to reset, and to load states. The
minimizer lives in callbacks of the CPU thread: the error handler and the end of a replay
call it, and it sets up the next replay and the reload that the CPU thread carries out at
the end of its cycle. Hordes work the same way: a patch of `EvtGetEvent` asks for an event,
and what that leads to (saving this Gremlin, loading the next) is a set of flags that
`ExecuteSpecial` carries out. A write to a register of the UART, or the periodic look of the
CPU loop, moves bytes between its FIFOs and the transport of the line driver that is on; two
more threads move them between the transport and the port. Scripts outside connect to the
sockets, which the UI thread idles; a packet stops the CPU thread at a system call, and the
CPU thread answers scripts that wait for a signal of the device.

**What is hard.** The monitor has one mutex and one condition for five kinds of waiters;
requests are counters that nested calls put aside and merge; exceptions unwind through those
calls; flags are cleared by resets. The serial transport nests two locks. The list of
waiting packets is locked by two threads and changed by callbacks that are not, under the
loops that walk it. A horde juggles states, tapes, limits and positions of several Gremlins
over failures. The UART's bits are recomputed at each access, from registers, FIFOs, line
drivers and transports that change independently. The minimizer is a recursive search turned
inside out, driven by answers that may come twice, never, or out of place. The full list,
each at its line and with the properties that would catch it, is under `hazards` in
`PROJECT.json`.

**What makes each part correct.**

- Session: one thread at a time emulates; a stopper that was granted keeps the CPU
  thread out; no request is lost; every wait ends; the code's own assertions hold.
- Serial transport: bytes in order and once each; threads live as long as the port;
  every call returns.
- Minimizer: the events kept still make the device fail; the list at the end is
  minimal; the search ends; Stop stops it.
- RPC and sockets: a request is answered once and on its own socket; someone listens
  for the next script; a device suspended for a script has one that can resume it.
- Hordes: a Gremlin runs on its own device with its own tape; the search is breadth
  first; a horde ends when all of its Gremlins have halted or are done, and it does end.
- UART: bytes keep their order in both directions and none is lost between transport and
  software; what has arrived is announced.
- To come: the readers and writers of the queues of events agree.

## 2. The modules

| Module | Models |
|---|---|
| `EmSessionGate` | what the session promises: a gate that one thread is inside of and that stoppers hold shut |
| `EmSession` | the monitor, with the CPU loop, nested calls, resets, the debugger, errors and dialogs |
| `MCEmSession` | the fairness assumption of one liveness property, for TLC |
| `EmSession_proofs` | type correctness of `EmSession`; dialogs and exceptions |
| `EmSessionExclusion_proofs` | mutual exclusion: `EmSession` implements `EmSessionGate`; no request is lost |
| `ByteStream` | what one direction of a transport promises |
| `EmTransportSerial` | the client, the two comm threads and the environment of a serial port |
| `EmTransportSerial_proofs` | its invariants and both refinements of `ByteStream` |
| `EmEventPlayback` | the recorded events: masks, culling, iteration |
| `EmMinimize` | the search, and the device as a source of answers |
| `EmMinimize_proofs` | its types, its stack of ranges, the order of pen downs and pen ups, that the device still fails on what is kept, and that what is saved is minimal |
| `EmRPC` | sockets, packets and waiting scripts: the UI thread, the CPU thread, the scripts |
| `EmRPC_proofs` | its safety properties |
| `Recursion_proofs` | that a loop over a list has a value after each item, for the other proofs |
| `Hordes` | the schedule of a horde, its states, tapes and limits |
| `MCHordes` | the hordes that the runs start |
| `Hordes_proofs` | the safety properties of `Hordes` |
| `EmUART` | the UART of the 68EZ328, its registers, line drivers and transports |
| `EmUART_proofs` | its safety properties |

### EmSession

The variables with the code's names are the members of `EmSession`
(`EmSession.h`). `fSuspendState` is a record of the six counters. `pc[t]` says where
a thread is between two regions of `fSharedLock`: one action is one region, with the
code before it that touches nothing shared. `waiting` is the set of threads inside
`fSharedCondition.wait`; a broadcast empties it, and `SpuriousWakeup` lets a wait end
by itself. `stack[t]` has one frame for each live activation of `ExecuteSubroutine`,
holding what the activation keeps in locals: counters, `fState`, nest level, and
where the thread goes on. An exception is `thrown`; `Unwind` and `Drop` pass it
through `CallCPU`, which restores `fState`, and `ExecuteSubroutine`, which restores
only `fNestLevel`. `holds` are the stoppers of the UI thread, innermost last, each
with the state it was granted in. `dialog` and `dialogFor` follow a dialog from the CPU
thread to the UI thread and back.

`DeviceEvents` and `UIEvents` choose what the emulated program and the user do in an
instance; an action whose event is not in the set never fires there. Every event
is in the set of some passing run.

What is abstracted: opcodes (a cycle is a step that may raise one of the events), the
contents of packets, the texts of errors. The 4-bit counters are unbounded integers
kept below `MaxDebugger`, `MaxExternal` and `MaxHolds` by guards. `kStopOnCycle` has
no call site and is left out, as is `fSuspendByTimeout`, which nothing sets in this
build. Assertions are no guards: a release build compiles them to nothing
(`EmAssert.h`), so a step past a failed assertion goes on.

### EmTransportSerial

Regions of `fReadMutex` are single actions. `fWriteMutex` and `fDataMutex` are
variables, since their order is what matters. `client` is the thread that calls the
transport (the CPU thread, or the UI thread under a stopper, hence one client);
`reader` and `writer` are CommRead and CommWrite. Bytes are numbers, counted as they
are written or arrive, so that order and loss are visible. `descriptor0` records
whether descriptor 0 belongs to another part of the program, which a failed open
closes. The model assumes that `pipe` succeeds, that descriptor 0 is what a fresh
`open` returns when it is free, and it lets `::write` take any part of what it is
given. Opening that fails (`MaxFails` times) is part of every run.

### EmEventPlayback and EmMinimize

An event is a number and a type. Moves of the pen count as pen downs, application
switches and null events as keys: the code treats them alike. `Returned` is the
filter that the code repeats in `GetNextReplayEvent`, `CullEvents` and
`CountEnabledEvents`; the last two iterate over the whole list, here sets.

In `EmMinimize`, `call` is the function being executed. The functions call each other
only in tail position, so no stack is needed. `fgMutex` is true from the lock that
`ErrorOccurred` takes to the end of the calls it makes.

The device is a source of answers: after the events it was given since the reload
(`played`) it fails or asks for the next. A device without quirks depends on these
events alone; `fatal` and `fine` remember what it answered, and the recording is one
it was made to fail by. Quirks widen that: an *erratic* device answers at will, one
that *polls* takes events through `EvtGetPen` while it tracks the pen
(`ReplayGetPen`), one that *bursts* reports several errors in a cycle, one that
*sleeps* is turned off by an event and woken by `ExecuteStoppedLoop`, one that
*resets* loses what was scheduled. Assumed: a redundant pen up does nothing to the
device, a recording holds at most one event after its error, and the session file
can be loaded again.

### EmRPC

A socket is a number; `state`, `fDeleted`, `gSockets` and `gSocketsToBeAdded` are the
`CSocket` objects as `SocketMessaging.cpp` keeps them. What lies outside, the TCP stack
and the script, is `peer` (is the other end up, closed, or closed and already answered
by a reset), `request` (what was received and not read), `client` and `replies`.
`Dial`, `Ask`, `GetReply`, `HangUp` and `CutShort` are steps of scripts and are marked
external.

The UI thread goes round: `IdleAll` (new sockets are added, deleted ones freed), each socket
in turn (`NoData`, `AcceptConnection`, `FindDisconnected`, `ReadPacket`), the same addition
and freeing again (`IdleAllDone`), then `RPC::Idle` over the waiters. `at` and `iter` are
the indices these loops keep. `poll` is the loop of `SLP::EventCallback`, which stays with a
socket as long as there is something to read. Two requests stand for all: `wait`
(HostSignalWait, whose reply is deferred) and `resume` (HostSignalResume, answered at once;
any other call differs only in what it does to the device). Both take one from the count
of suspensions, inside of the nested call of the packet; `HostSignalWait` then wakes the
device up by a nested call within that one, which forgets the difference
(`ResumeExternalThenEvtWakeup`), unless the device has not initialized its UI yet. Which is the
case is left open. `owed` has the scripts that were signalled for the suspension that lasts.
`RPC::SignalWaiters` is the same
steps for the CPU thread (`DeviceSignals`) and for the UI thread at the end (`Quit`).

The callback of a socket that disconnects erases its packet from the list of waiters
without the lock. When a thread is inside of a loop over the list, or a packet waits for a
socket that is freed, what happens next is undefined: the step sets `wild`, and the
behaviour ends there. The properties hold up to that point.

### Hordes

The variables with the code's names are the statics of `Hordes`; `gTheGremlin` has the
members of `Gremlins` that decide when it stops. An event is a pair of the Gremlin that
made it and its number, so a device is the sequence of events it has seen since the root
state was saved, and an event of another Gremlin in it would show. A session file is
that device and the Gremlin (`Session`, `Loaded`); an event file is a tape. `pending` are
the flags that `EmSession::ExecuteSpecial` looks at when the instruction ends, and
nothing of the device runs while one is set. `PostFakeEvent` looks at the limit,
`PostFakePenEvent` does not, as in the code. `ErrorEncountered`, `EnterDebugger` and a
state that cannot be loaded are the failures; `Stop`, `Resume`, `Step` and `Reset` are
the user's commands. `steered` records that the user has resumed or stepped a Gremlin by
hand, which changes limits and range under the search; `hung` that `NextGremlin` does not
come back.

### EmUART

Everything happens in the CPU thread, or in the UI thread under a stopper, so one access
is one action: `CycleSlowly` (also the read of any register but `uReceive`),
`ReadReceive`, `WriteControl`, `WriteTransmit`. Each ends in `UpdateState`, the writes by way
of `StateChanged`, and these two are operators with the arguments of the functions: the
registers after the write, the line drivers, the byte for TX_DATA. `bits` are the bits of
`uControl`, `uMisc` and `uTransmit` that software sets, `status` those that the UART sets,
`pending` its bit of `intPendingLo`. `fState`, the UART's own copy of the registers, is
always that of the last access, hence `bits` before the step.

`drivers` are the line drivers that are on, `open` the devices whose transport is open: two
variables, since writes to a port, resets, files, `SetTransports` and `PostLoad` change one,
the other or both. `Open` may fail; a transport that is not open stands also for one that
the user has not chosen. `buffer` is what a transport has received and the UART not read:
the part of `IncomingSpec` of `EmTransportSerial` that the UART sees. A byte from outside
carries where it is from and its number, a byte of the software its number.

Assumed: the device does not turn on both drivers at once, as the assertion at
`EmRegsEZ.cpp:992` says. Left out: baud, parity, stop bits and the mask of seven bits, which
go to the transport as they are; reads of half of `uReceive`; `BUSY` and `CTS_STATUS`, which
repeat the opposite of `TX_FIFO_EMPTY`; the second UART of the VZ, with its level markers (`PrvLevelMarker`
exchanges those of receiver and transmitter at line 846), and the UARTs of the 68328 and the
SZ.

## 3. The runs

| Run | Shows | Bounds |
|---|---|---|
| `EmSession` | gate, conservation of requests, assertions, with nested calls, resets, breakpoints, packets, script signals, closing; under fairness every kStopNow is granted, a resumed session runs, closing ends, kStopOnSysCall survives resets | two stoppers, nesting 3 |
| `EmSessionDialog` | with errors and dialogs: what BlockOnDialog asserts of its wait; an answered dialog ends it | two stoppers, nesting 2 |
| `EmSessionNestedError` | errors inside ROM routines called for packets leave the nest level right | nesting 2 |
| `EmTransportSerial` | both byte streams, threads, returns of Write and Close | three bytes out, two in, chunks of two, one failed open |
| `EmTransportSerialEmbrace` | **violated**: Write and CommWrite wait for each other | two bytes out |
| `EmMinimize` | the search for every recording and device | five events, ranges of two |
| `EmMinimizeLocks` | **violated**: ErrorOccurred waits for its own lock, on Unix | four events |
| `EmRPC` | one answer for each request, a listener, waiters with live sockets, no device suspended without a script that can resume it, answers in the end, and a device that goes on after HostSignalResume | three sockets (a listener and two scripts), one hang-up, every fault |
| `EmRPCForget` | **violated**: a packet waits for a socket that is freed | the same, connections that end before a footer |
| `EmRPCStandstill` | **violated**: the device waits for a script that waits for the device | the same, no fault |
| `Hordes` | own devices and tapes, breadth-first order, completion | three Gremlins, four events, one horde, one command, every fault |
| `EmUART` | order in both directions, no byte lost, arrivals announced, over flushes, loopback, resets, loads, line drivers, transports and sessions | FIFOs of two, two bytes from outside, two sent |

*Why these bounds are enough to be of interest.* Two stoppers are the least that tell
"the last release" from "a release"; three nested calls put a call of the CPU thread
below two of the UI thread, so that a saved counter is itself saved. Two bytes per
chunk let a region take part of what another put in; three bytes out make a buffer
that is drained, refilled and drained. Five events with ranges of two make the first
half split twice, leave an odd half, and let a pen down, its moves and its pen up lie
on both sides of a split; a recording of four can take three passes. Two scripts are the
least where one waits while another is signalled, times out, hangs up or connects, and
where an index passes over a waiter that goes away; the third socket is the listener.
Three Gremlins let the search skip one that has halted, come round and go deeper with
another left behind; four events are two switches and one past the limit, and the eight
hordes of `MCHordes` have switch depths that divide the maximum, that leave a part, and
each kind of none. Two bytes fill a FIFO and are the least with an order; those that are
looped back make more than the receiver holds. `Controls` has the UART off and all of it on
with the interrupt; `Miscs` lets it receive or loops it back.

*What differs between the session's runs.* `EmSession` has no errors: one in a nested
call makes the assertion at `EmSession.cpp:831` fail (add `nestedError` to
`DeviceEvents`, and `Asserts` is violated). What is lost there is the request of
a stopper, so the CPU thread goes on under it; if it then calls a ROM routine while
the UI thread's handler of the same error resets the session, `fNestLevel` is cleared
with an activation alive. Nested errors therefore have a run of their own, in
which only the UI thread calls ROM routines. In
`EmSessionDialog` the user makes no ROM calls, since those break `BlockedAsserts`
(add `romCall` and `packet` to `UIEvents`).

*Properties that hold only in part.* `Minimal` speaks of lists of two events or more: a
single event is never tested, because a range of one is not split and only the halves of a
split are tested, so a device that fails by itself keeps it. `PenUpsFollowDowns`,
`StillFails` and `Minimal` speak of devices without quirks; the quirks that break them are
in `hazards`. `Ends` leaves out devices that sleep or reset. `GateSpec` does not count a
stopper granted at `kBlockedOnUI`, whose CPU thread may leave its dialog and emulate. The
properties of `EmRPC` except the states after `wild`; the live ones also a thread that hangs
in Read and scripts whose packet was dropped. `DeviceResumes` is about scripts that call
HostSignalResume in the end: one that only waits again does not resume the device (section 4). Those of `Hordes` except a horde after the
user has steered it.

*Deadlock.* `EmSession` runs check for it: the only state with no step of a thread is
the one after closing (`Terminated`), and a thread that waits can always be woken.
The serial transport does stop when the two locks embrace and nothing more arrives;
the minimizer stops when the device idles; `EmRPC` after undefined behaviour, in a read
that never ends, and when the application is down; a horde when it is over. Their
configurations say `CHECK_DEADLOCK FALSE`. The UART can always be looked at.

### Fairness

A thread that can take its next step does (weak fairness of `CPUProceeds` and
`UIProceeds`, of CommRead and CommWrite, of the minimizer's functions and its
device): the host's scheduler. What users, scripts and the emulated program may
choose not to do has none. Strong fairness stands where another step may interrupt
again and again: the opcode counter of the outer loop comes to `0x8000` again
(`CycleSlowly`); a ROM routine returns, at each depth; the UI thread comes back to
`DoAll` and the user answers (`ShowDialog`, `AnswerDialog`); a mutex that is released
again and again is obtained (`SignalThreads`, `WakeCommWrite`).
`EverySuspendReturns` also assumes, in its own statement, a device that comes back
to its UI task and whose patches call ROM routines: `EmSession.h` itself says of
kStopOnSysCall that the request may hang. Without the patches' broadcasts it may, if
a reset clears the flag while the UI thread waits.

In `EmRPC` the two threads go on likewise; a lock that is released again and again, or a
device that stops at system calls between its signals, is obtained (`UIWaitingStep`). Of
scripts it is assumed that they pause for half a second now and then, so that the
polling loop of one socket ends; that the timeouts they asked for pass; that one that
is signalled reads the answer and, however often it waits again first, calls HostSignalResume
unless it goes away. `Resume` of `EmUtils.pm` is there for that; the loops of `PoserRPC.pl`,
which wait again and again and resume at the end, are what `EmRPCStandstill` is about. In
`Hordes` an instruction ends (`ExecuteSpecial`), and the application asks for events again and
again (`PostFakeEvent`, `StopEventReached`), whatever other events interrupt. In `EmUART`
the loop of the CPU calls `CycleSlowly` periodically; nothing else is assumed to happen.

## 4. What the runs found

Four runs show the program doing what its own text says it does not. Each is under
`findings` with the line that says so.

1. `PutOutgoingData` and `CommWrite` take two locks in opposite orders
   (`EmTransportSerialUnix.cpp:906`). The theorem `Deadlock` shows that nothing gets them
   out.
2. `ErrorOccurred` locks `fgMutex` twice (`EmMinimize.cpp:549`, `929`). A Windows
   critical section allows it (`NestedLocks = TRUE`), a pthread mutex does not.
3. A connection that ends between the body and the footer of a packet leaves the packet
   in the list of waiters after its socket is gone (`SLP.cpp:217`).
4. A script that was signalled and calls HostSignalWait again leaves the device suspended
   (`HostControl.cpp:3637`), where the comment at line 3625 says that it unblocks the CPU
   thread: the -1 of `ScheduleResumeExternal` stands in the counters when `EvtWakeup` makes a
   nested call, whose end takes negative counts to zero (`EmSession.cpp:1246`). The device
   waits for the script and the script for the device, until the script's timeout; without
   the call of `EvtWakeup` it would go on.

More are told by the notes of `hazards`, and a change of a configuration shows them:

- An exception that leaves a nested call forgets the counters it had put aside
  (`EmSession.cpp:1177`); a ROM call for a debugger's packet under a dialog marks the
  session as running (`EmSession.cpp:1191`). Both as said in section 3.
- Two errors in one cycle discard every event (`EmMinimize.cpp:541`; a device that only
  bursts, with `Minimal` stated for it). Waking a device up restarts the replay without a
  reload (`EmCPU68K.cpp:808`; a device that only sleeps, with `Ends` stated for it).
- A switch depth of zero, which a script may ask for, or the dialog with an empty field
  beside a checked box (`EmDlg.cpp:932` takes what is there), ends a horde at its first error
  (`Hordes.cpp:824`), where `Docs/_OldNews.txt:3620` says "When all Gremlins have been
  halted ... the Hordes session is completed" (`Horde(1, 0, 2)` in `DialogInfos` of
  `MCHordes`: `EndsWhenAllHalted` is violated).
- `EmUART` ends with three properties that comments state and that do not hold; put one into
  `EmUART.cfg`. `DisabledReceiverIsEmpty` ("While this bit is low, the receiver is disabled
  and the receive FIFO is flushed", `EmUARTDragonball.cpp:152`): the write that flushes
  receives again at once (line 418), since `ReceiveRxFIFO` looks at RTS alone.
  `FullFIFOIsSent` ("Data needs to be sent to the host serial port", line 50; with `MaxTx =
  3`): the FIFO is sent only after a byte was put in, and a full one takes none (line 372).
  `OpenMeansDriver` ("Open or close the transports in response to their line drivers being
  enabled or disabled", `EmHAL.cpp:396`): a reset or a file changes the drivers only.
- `ClosedIsFlushed` of `EmTransportSerial` ("Before closing the host serial port ... make
  sure that all locally buffered data is transmitted", `Docs/_OldNews.txt:1949`), as a
  property of `EmTransportSerial.cfg`: CommWrite tests `fTimeToQuit` before the buffer.

## 5. What is proved

The proofs hold for every value of the constants that satisfies the assumptions
named in the modules (bounds are natural numbers, event sets are subsets of the known
events). They use the library's facts about sequences, finite sets and the order of
the natural numbers.

- `EmSession_proofs!Typing`: `Spec => []TypeOK`. `TypeOK` is inductive as it stands
  because `ControlTyped` and `StacksTyped` are part of it: a thread at `fold` or `drop`
  has a frame to pop, the frame leads to a place of that thread, and the UI thread is in
  the emulator's wrappers exactly while it has a frame. Lemmas `Push`, `Pop` and `Replace`
  say what the three changes of a stack preserve; then each action has a step.
- `EmSessionExclusion_proofs!Exclusion`, `Truth`, `Suspension`, `Assertions`, `Gating`:
  `OneEmulator`, `StateTellsTruth`, `StaysSuspended`, `Asserts` and `GateSpec`, on the
  assumption `DialogsApart`: no error in a nested call, and if errors are shown in dialogs,
  then a session that is stopped at system calls only. Both halves are needed. A stopper
  that `kStopNow` was granted at `kBlockedOnUI` does not keep the CPU thread where it is
  (section 3), and TLC finds all five violated when `error` meets `kStopNow`, ROM calls and
  packets; `nestedError` breaks all but `StaysSuspended` even without `kStopNow`. None of
  the five is inductive. `IInv` adds, over all frames of both stacks, what the code relies
  on:
  - `Dialogs`: a dialog is up only while the CPU thread is blocked on it or the session
    ends, nobody owns a stopper then, and what the user answers leads back to the loop or
    through `Run` to its top, at nest level 0 (`DialogKeeps`). `SuspendThread` finds
    `kBlockedOnUI` and leaves without a stopper (`RefusedKeeps`);
  - `Nesting`: each activation of `ExecuteSubroutine` saved the depth it was called at, so
    that `fNestLevel`, which `RunWake` tests, counts the activations after every return;
  - `Parking`: the UI thread calls only under a stopper, and owns one only while the CPU
    thread is in the wait of `Run`;
  - `Telling`: the values of `fState` saved by `CallCPU`. The outermost call of the UI thread
    saved `kSuspended`, every other call `kRunning`; and at `kSuspended` outside of calls
    some reason to suspend stands, so that `Run` does not leave its wait before
    `ResumeThread` has set `kRunning`;
  - `Asking`: the request of a waiting `SuspendThread` stands or is in a frame of the CPU
    thread, and those of the stoppers stand or are in the bottom frame of the UI thread.
    The fold of `ExecuteSubroutine` only adds to what was saved.

  `SchedulingKeeps`, `EnteringKeeps`, `LoopKeeps`, `ReturnKeeps`, `RunKeeps`, `FinishKeeps`
  and `ResumeKeeps` are the steps that matter; `Pushed`, `Popped` and `Replaced` say what
  they do to the frames. `GateSteps` then needs no case for each action: a step moves one
  thread, and `IInv` holds before and after it.
- `Depth`, in the same module: `NestLevelCounts`, which under `DialogsApart` follows from
  `Nesting` for the innermost of all activations; and `Waiting`: `BlockedAsserts` with ROM
  calls and packets, which follows from `Telling`.
- `Conservation`, there too: `RequestsConserved`. The sum over the frames of a stack is a
  recursive function; `Recursion_proofs` shows that it has a value, `Summing` unfolds it, and
  `Grown` and `OnTop` say what one frame more or less, or another frame on top, does to it.
  `EnteringCounts`, `CallCPUCounts` and `AfterCallCPUCounts` show that what leaves the
  counters enters a frame and comes back by the fold; the other steps change both sides
  alike. `ResumeCounts` needs `Asking`: without a request that stands, `ResumeThread` would
  have nothing to take back. With `nestedError` the property is false (section 3).
- `EmSession_proofs!Blocked`: `BlockedAsserts`, for every device and every way to stop,
  if the UI thread calls no ROM routine itself or for a packet (`NoUICalls`; with either,
  `CallCPU` puts another `fState` in the place of `kBlockedOnUI`, section 4).
- `EmSession_proofs!Unwinding`: `NestLevelCounts` with dialogs and with exceptions out of
  nested calls, if the UI thread also does not reset the device (`NoUICommands`). `Levels`
  says that each activation of the CPU thread saved the depth it was called at, which is
  what `Drop` restores. With `kStopNow` and an `error` a reset or a packet breaks it: the
  stopper was granted at `kBlockedOnUI`, and both threads are inside of calls. What the run
  `EmSessionNestedError` adds, calls of the UI thread between such exceptions when it stops
  only at system calls, is checked and not proved.
- `EmTransportSerial_proofs!Typing`, `Threads`: `TypeOK` and `ThreadsWithinPort` are
  inductive together, since which thread holds which lock follows from where each is.
- `Deadlock`: `Embrace` is stable under every step. It needs `TypeOK`: `fDataMutex` is
  held wherever the writer is at `size` or `get`.
- `OutgoingBytes`, `IncomingBytes`: the transport implements `ByteStream` in both
  directions. A step either leaves the concatenation of the buffers on the way as it
  is (bytes move from one to the next: associativity), appends to it (`Put`), or takes
  a prefix (`Deliver`). The invariant needed is that `readerBuf` and `writerBuf` are
  empty except between taking and handing on, without which a second read would
  overwrite bytes on their way.
- `EmRPC_proofs!Typing`, `Answers`, `Waiters`, `Listens`, `Suspension`: one inductive
  invariant, `IInv`, for all five. `Placed` ties the lock, the iterators and the packet to
  where the threads are, `Listener` says who listens; these two hold in every state. Before
  undefined behaviour there are three more:
  - `Waiting`: those in the list are connected, and none is in it twice;
  - `Asking`: the request of a socket is in one place at a time: received, in the packet
    being handled, in the list, or answered; during a walk of `SignalWaiters` only what is
    still ahead of the iterator counts as waiting. This is why no one is answered twice. It
    also says that the script of such a socket did ask, and waits;
  - `Suspending`: the device is suspended, or about to be (`signalledOne`), for a script that
    was signalled and has not called HostSignalResume, or one left. A script that waits again
    is still such a script; a resume is for all of them.

  What erasing does to the list is in `Without`, a recursive function, and `RemoveAt`:
  `WithoutProperties` and `Removing` say what stays, in which order.
- `Recursion_proofs`: the library's induction theorems take an operator, which cannot be
  cited here. `Induction` states the same of a *set* of numbers, from the least element of
  its complement; `Recursion` follows, for a loop given by its body as a function.
- `EmMinimize_proofs!Typing`, `Found`: `TypeOK` is inductive with `Stack`, which says for
  each place of the search whether the stack of ranges is empty: a pass begins and ends
  with an empty one, and as long as minimization is on, the device runs with a range
  under test. `LevelsFound` is a part of `Stack`. `ReplayTyped` shows that `CullEvents`
  leaves a list of events: the n-th enabled event exists for every n up to their number
  (`Nth`, by counting), so the `CHOOSE` of `Replay` finds it.
- `EmMinimize_proofs!Tiled`, and with `Found` `Covered`: `LevelsTile` needs `TypeOK` (no
  range ends before it begins) and `Stack` (at `InitialLevel` nothing is masked out).
  `Halved` and `Popped` say what the two changes of the stack do to its ranges.
- `EmMinimize_proofs!PenUps`: `PenUpsFollowDowns` needs `Pen`: while the device runs
  on a replay, `fPenIsDown` tells of the last event that the device was given; while the
  reload is still to come, it is false.
- `EmMinimize_proofs!Failed`: `StillFails` needs `Playing` and `Failing` besides `TypeOK`,
  `Stack` and `LevelsTile`, all for a device without quirks.
  - `Playing`: the iterator, `fPenIsDown` and the mask say which events the device was given,
    and an error that is still to be reported is due to exactly these. `GetNextReplayEvent`
    decides about one event at a time, from what is left, and `CullEvents` about all at
    once; that both come to the same rests on `PenStays`, `PenAfter` and `NextIsEnabled`, and
    on a description of a replay by the place of each index (`Rank`, `Lists`) in place of its
    `CHOOSE`.
  - `Failing`: before `Start` the device failed on the recording up to its error; then on the
    beginning of what is kept; and where `ErrorOccurred` is about to pop a range, without
    that range too. Three facts keep it: replays of lists that agree up to some event begin
    alike (`Beginning`), so what was played up to an error is a beginning of what remains when
    the rest is masked out (`ErrorTells`); what is returned, and so the device, is the same
    after `CullEvents` as before (`ReplayClean`, `CleanKept`: a list that was culled once is
    not culled further); and masking a range out, or back in, does not change which events
    are kept or tested (`KeptAt`, `KeptStays`), for which `LevelsTile` is needed: nothing else
    may be masked out in the range.
- `EmMinimize_proofs!Minimized`: `Minimal`, which looks back from the list that is saved over
  every replay since the last pass that discarded something. Besides what `Failed` needs:
  - `Survived`: in a replay that is under way the device did not fail after any event but
    perhaps the last, and at `NoErrorOccurred` it was given the whole of what is enabled
    (`WholeReplay`) and did not fail at all; what it failed on it never survived;
  - `Decided`: the events of a pass up to `Bound`, which moves with the stack of ranges, are all
    enabled and needed, or one that is not a pen up is discarded, and then `CullEvents` leaves
    fewer events and another pass follows (`CulledLess`). A range that is discarded has such
    an event: a pen up in it has its pen down before it (`Dropped`). Whether all events before
    a single event are enabled decides if testing it tells that it alone matters
    (`TestedAlone`);
  - `Masked` and `Unchecked`: a replay masks the top range out, all of it, and never a single
    pen up; and of single events only the one that was just tested is checked, so that none is
    passed over without a test;
  - `Ending`: the last pass masks nothing out, so the device fails in it (`LastFails`, from
    `Failing` and `Survived`) and `ErrorOccurred` counts all events, which is the number that
    the user is told.

- `Hordes_proofs!Typing`: `TypeOK` is inductive. `Chosen` says what `NextGremlin` does
  without its `CHOOSE`: a proposal that has not halted exists whenever the set of them is
  not empty, and the first is taken (the order of the numbers is well-founded).
- `Hordes_proofs!OwnDevices`: needs `Modes` (one step is pending at a time, the Gremlin is
  on only under none or that of saving, the root state has a fresh device, limits are -1 or
  positive) and `Own`, which says of every suspended state what `OwnDevice` says of the
  running one. With a limit of zero events would be counted and not posted; `NoZeroLimit`
  excludes it.
- `Hordes_proofs!Tapes`, and with `OwnDevices` `Apart`: `Taped` adds that the last saved
  tape of each Gremlin covers its saved state, that a tape in memory covers the saved state
  of the Gremlin it belongs to, and that at depth 0 those further on in the range have none
  yet.
- `Hordes_proofs!Search`, `Completed`: `Position` extends `BreadthFirst` over the time in
  which a Gremlin is selected and not on yet. `Around` turns the modulus and the quotient
  of `ProposeNextGremlin` into one step round the range; `Moved` shows that skipping
  those that have halted leaves each other one at the depth where the order wants it.
  `Completed` assumes that no horde has a switch depth of zero; section 4 says why.

- `EmUART_proofs!Typing`, `Truth`: inductive together. `Updated` and `Changed` say once what
  `UpdateState` and `StateChanged` do, for any FIFOs the caller passes, and `Steps` leaves
  six kinds of steps of the eleven actions. `Truth` allows the bits to be one byte behind,
  after a full read; `Accepting` rests on it, since TX_AVAIL is what software goes by.
- `Disabling`, `Sending`: `Outgoing` adds to `SentInOrder` that no byte in the FIFO, and
  none that went out, is later than the last one sent.
- `Receiving`, and with `Sending` `InOrder`: `InLine` bounds what is in the FIFO by what
  waits in the buffers and by what is still to come, from each source; without it a byte
  that arrives or is looped back might precede one that was read. It is shown to survive
  each stage of an access alone: the flush, the loopback, `ReceiveRxFIFO`, `Get`.
- `Staying`, and with `Accepting` `NothingLost`: the same stages, each of which keeps every
  byte it finds; that the byte which is read was the one from its transport is
  `BuffersOrdered`, a part of `InLine`.

*Only model-checked*, at the bounds above: liveness and everything under fairness; of
`EmSession`, what the hypotheses of its theorems leave out.

## 6. Plan

Modules, in this order:

1. *Done*: `EmSession` and its gate; `EmTransportSerial` and `ByteStream`;
   `EmEventPlayback` and `EmMinimize`; `EmRPC`; `Hordes`; `EmUART`.
2. `EmThreadSafeQueue` between two threads, the event queues: check-then-act across two
   locks.
3. `EmTransportSocket`, `ChunkFile`, `EmFileImport`, as far as they keep state worth
   checking.

Theorems: what holds of `kStopNow` on a device with dialogs whose user makes no ROM calls.

## 7. What is not modelled

But for those of the UART, the emulated hardware's registers follow data sheets that are not
in the repository. The patches of the OS mirror single system calls. Formats (session files,
preferences, packets, logs) are sequential conversions. Dialogs are layout. `UAE`, `jpeg`,
`Gzip`, `omnithread` and the Palm headers are taken from elsewhere; conditions and mutexes
appear by how the code uses them. The reasons stand with each component in `PROJECT.json`.

Of `EmRPC` the model leaves out: a script that itself calls HostSignalSend (the walk happens
in the UI thread then, with the CPU thread stopped), the sockets of the debugger, and torn
reads of plain variables. Of `Hordes`: which events a Gremlin makes up, auto-saved states, a
search that is taken up from its progress file, the log and the statistics, and the limits
after `Load` of a file saved by the user.

## 8. Running it

    tlc -workers 2 -config EmSession.cfg MCEmSession.tla
    tlc -workers 2 -config EmTransportSerial.cfg EmTransportSerial.tla
    tlc -workers 2 -config EmMinimize.cfg EmMinimize.tla
    tlc -workers 2 -config EmRPC.cfg EmRPC.tla
    tlc -workers 2 -config Hordes.cfg MCHordes.tla
    tlc -workers 2 -config EmUART.cfg EmUART.tla
    tlapm EmSession_proofs.tla
    tlapm EmSessionExclusion_proofs.tla
    tlapm EmTransportSerial_proofs.tla
    tlapm Recursion_proofs.tla
    tlapm EmRPC_proofs.tla
    tlapm EmMinimize_proofs.tla
    tlapm Hordes_proofs.tla
    tlapm EmUART_proofs.tla

Definitions whose comment begins with *Mutant* are faults put in on purpose: each
replaces the definition after it to show that a property notices.
