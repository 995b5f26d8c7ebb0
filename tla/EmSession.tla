------------------------------ MODULE EmSession ------------------------------
(***************************************************************************)
(* EmSession.cpp: the monitor through which the UI thread stops, inspects,  *)
(* calls into and restarts the thread that emulates the device (the CPU     *)
(* thread).                                                                 *)
(*                                                                          *)
(* One action is one region of code that holds fSharedLock, so the lock     *)
(* itself needs no variable; code that runs without the lock and touches    *)
(* nothing shared is merged into the region that follows it.  A wait on     *)
(* fSharedCondition puts the thread into "waiting"; a broadcast empties     *)
(* "waiting"; a thread outside it competes for the lock again, and          *)
(* re-tests the condition it waits for.  A wait may also end by itself.     *)
(***************************************************************************)
EXTENDS Integers, SequencesExt

CONSTANTS
  MaxHolds,      \* EmSessionStoppers the UI thread keeps at the same time
  MaxNest,       \* bound on fNestLevel
  MaxDebugger,   \* bound on fSuspendByDebugger (a 4-bit field in the code)
  MaxExternal,   \* bound on |fSuspendByExternal| (a 4-bit field in the code)
  StopMethods,   \* the ways the UI thread stops the session in this instance
  DeviceEvents,  \* what the emulated program does in this instance
  UIEvents       \* what the UI thread does besides stopping and resuming

AllStopMethods  == {"kStopNow", "kStopOnSysCall"}
AllDeviceEvents == {"romCall", "sysCall", "reset", "breakpoint", "signal", "error",
                    "nestedError"}
AllUIEvents     == {"romCall", "hostResume", "packet", "reset", "close"}

ASSUME BoundsAssumption ==
  /\ {MaxHolds, MaxNest, MaxDebugger, MaxExternal} \subseteq Nat
  /\ StopMethods \subseteq AllStopMethods
  /\ DeviceEvents \subseteq AllDeviceEvents
  /\ UIEvents \subseteq AllUIEvents

VARIABLES
  fState,           \* EmSessionState of the CPU loop
  fSuspendState,    \* the reasons to suspend: EmSuspendCounters (nothing sets its
                    \* timeout in this build: PrvCanUseExgMgr returns false)
  fStop,            \* the CPU thread is asked to end
  fBreakOnSysCall,  \* the CPU thread is asked to suspend at the next system call
  fNestLevel,       \* live activations of ExecuteSubroutine
  endOfCycle,       \* SPCFLAG_END_OF_CYCLE of the CPU's regs.spcflags
  stack,            \* per thread, what its activations of ExecuteSubroutine saved
  oldRunState,      \* the fState saved by the CallCPU that Run made
  waiting,          \* threads inside fSharedCondition.wait
  pc,               \* where each thread is
  thrown,           \* the exception that unwinds the CPU thread
  how,              \* the argument of the latest SuspendThread call
  holds,            \* stoppers the UI thread owns, innermost last
  dialog,           \* the dialog the CPU thread asked for
  dialogFor,        \* the code that asked for it
  gDocument         \* the document exists

monitor == <<fState, fSuspendState, fStop, fBreakOnSysCall, fNestLevel, endOfCycle>>
stacks  == <<stack, oldRunState, thrown>>
dialogs == <<dialog, dialogFor>>
ui      == <<how, holds, gDocument>>
vars    == <<monitor, stacks, waiting, pc, dialogs, ui>>

-----------------------------------------------------------------------------
Threads == {"cpu", "ui"}
States  == {"kRunning", "kStopped", "kSuspended", "kBlockedOnUI"}

Counters == [ui: Nat, debugger: Nat, external: Int,
             timeout: BOOLEAN, sysCall: BOOLEAN, subroutine: BOOLEAN]

\* fAllCounters = 0
Zero == [ui |-> 0, debugger |-> 0, external |-> 0,
         timeout |-> FALSE, sysCall |-> FALSE, subroutine |-> FALSE]

Suspended   == fSuspendState # Zero
IsNested    == fNestLevel > 0
Calling(t)  == stack[t] # <<>>

Goto(t, where)       == pc' = [pc EXCEPT ![t] = where]
Broadcast            == waiting' = {}
BroadcastThenWait(t) == waiting' = {t}

\* The UI thread is in its event loop, or in the modal loop of the dialog it
\* shows for the CPU thread.
Home == IF dialog = "shown" THEN "dialog" ELSE "idle"

-----------------------------------------------------------------------------
(* EmSession::Run, the body of the CPU thread. *)

\* Mutant: the test of the reasons to suspend is left to the wait.
RunTopUntested ==
  /\ pc["cpu"] = "top"
  /\ \/ /\ fStop
        /\ fState' = "kStopped" /\ Broadcast /\ Goto("cpu", "done")
     \/ /\ ~fStop
        /\ Goto("cpu", "call") /\ UNCHANGED <<fState, waiting>>
  /\ UNCHANGED <<fSuspendState, fStop, fBreakOnSysCall, fNestLevel, endOfCycle,
                 stacks, dialogs, ui>>

\* The region that starts when Run takes the lock, before the first opcode or
\* after CallCPU and the handlers of what it threw.
RunTop ==
  /\ pc["cpu"] = "top"
  /\ \/ /\ fStop
        /\ fState' = "kStopped" /\ Broadcast /\ Goto("cpu", "done")
     \/ /\ ~fStop /\ Suspended
        /\ fState' = IF IsNested THEN fState ELSE "kSuspended"
        /\ BroadcastThenWait("cpu") /\ Goto("cpu", "wait")
     \/ /\ ~fStop /\ ~Suspended
        /\ Goto("cpu", "call") /\ UNCHANGED <<fState, waiting>>
  /\ UNCHANGED <<fSuspendState, fStop, fBreakOnSysCall, fNestLevel, endOfCycle,
                 stacks, dialogs, ui>>

\* Mutant: the comment of the inner loop ignored, a nested call is not waited for.
RunWakeWhileNested ==
  /\ pc["cpu"] = "wait" /\ "cpu" \notin waiting
  /\ IF Suspended
     THEN fState' = "kSuspended" /\ BroadcastThenWait("cpu") /\ UNCHANGED pc
     ELSE Goto("cpu", "call") /\ UNCHANGED <<fState, waiting>>
  /\ UNCHANGED <<fSuspendState, fStop, fBreakOnSysCall, fNestLevel, endOfCycle,
                 stacks, dialogs, ui>>

\* Mutant: only the requests of the UI thread keep the thread suspended.
RunWakeForUI ==
  /\ pc["cpu"] = "wait" /\ "cpu" \notin waiting
  /\ IF IsNested \/ fSuspendState.ui > 0
     THEN BroadcastThenWait("cpu") /\ UNCHANGED pc
     ELSE Goto("cpu", "call") /\ UNCHANGED waiting
  /\ UNCHANGED <<fState, fSuspendState, fStop, fBreakOnSysCall, fNestLevel, endOfCycle,
                 stacks, dialogs, ui>>

\* The inner loop of Run, each time the wait returns.
RunWake ==
  /\ pc["cpu"] = "wait" /\ "cpu" \notin waiting
  /\ \/ /\ IsNested \/ (Suspended /\ ~fStop)
        /\ fState' = IF IsNested THEN fState ELSE "kSuspended"
        /\ BroadcastThenWait("cpu") /\ UNCHANGED pc
     \/ /\ ~IsNested /\ fStop
        /\ fState' = "kStopped" /\ Broadcast /\ Goto("cpu", "done")
     \/ /\ ~IsNested /\ ~fStop /\ ~Suspended
        /\ Goto("cpu", "call") /\ UNCHANGED <<fState, waiting>>
  /\ UNCHANGED <<fSuspendState, fStop, fBreakOnSysCall, fNestLevel, endOfCycle,
                 stacks, dialogs, ui>>

-----------------------------------------------------------------------------
(* EmSession::CallCPU, the wrapper of EmCPU::Execute. *)

\* The fState that the innermost CallCPU of t saved.
SavedState(t) == IF Calling(t) THEN Last(stack[t]).state ELSE oldRunState

CallCPU(t) ==
  /\ pc[t] = "call"
  /\ fState' = "kRunning"
  /\ IF Calling(t)
     THEN /\ stack' = [stack EXCEPT ![t][Len(stack[t])].state = fState]
          /\ UNCHANGED oldRunState
     ELSE /\ oldRunState' = fState
          /\ UNCHANGED stack
  /\ Goto(t, "execute")
  /\ UNCHANGED <<fSuspendState, fStop, fBreakOnSysCall, fNestLevel, endOfCycle,
                 thrown, waiting, dialogs, ui>>

CallCPUReturns(t) ==
  /\ pc[t] = "return"
  /\ fState' = SavedState(t)
  /\ Goto(t, IF Calling(t) THEN "fold" ELSE "top")
  /\ UNCHANGED <<fSuspendState, fStop, fBreakOnSysCall, fNestLevel, endOfCycle,
                 stacks, waiting, dialogs, ui>>

-----------------------------------------------------------------------------
(* EmSession::ExecuteSubroutine. *)

\* Save the counters, clear them, and go one level deeper.  "next" is where
\* thread t continues once the subroutine has returned.
ExecuteSubroutine(t, next) ==
  /\ fNestLevel < MaxNest
  /\ stack' = [stack EXCEPT ![t] = Append(@, [counters |-> fSuspendState,
                                              state |-> fState,
                                              nest |-> fNestLevel,
                                              next |-> next])]
  /\ fSuspendState' = Zero
  /\ fNestLevel' = fNestLevel + 1
  /\ Broadcast
  /\ Goto(t, "call")

\* Mutant: what the subroutine saw replaces what was saved.
FoldedOver(saved, now) ==
  [saved EXCEPT !.ui = now.ui, !.debugger = now.debugger,
                !.external = now.external, !.timeout = now.timeout]

\* Mutant: the reasons are taken out of the saved ones.
FoldedOut(saved, now) ==
  [saved EXCEPT !.ui = @ - now.ui, !.debugger = @ - now.debugger,
                !.external = @ - now.external]

\* What CallCPU returned for is remembered in the saved counters.
Folded(saved, now) ==
  [saved EXCEPT !.ui = @ + now.ui,
                !.debugger = @ + now.debugger,
                !.external = @ + now.external,
                !.timeout = @ \/ now.timeout]

\* The reasons that end the subroutine are left standing.
Standing(now) == [now EXCEPT !.ui = 0, !.external = 0, !.sysCall = FALSE, !.timeout = FALSE]

AfterCallCPU(t) ==
  LET frame == Last(stack[t])
      saved == Folded(frame.counters, fSuspendState)
  IN
  /\ pc[t] = "fold"
  /\ \/ /\ Standing(fSuspendState) = Zero      \* once more round the loop
        /\ stack' = [stack EXCEPT ![t][Len(stack[t])].counters = saved]
        /\ fSuspendState' = Zero
        /\ fNestLevel' = frame.nest + 1
        /\ Goto(t, "call")
     \/ /\ Standing(fSuspendState) # Zero
        /\ stack' = [stack EXCEPT ![t] = Front(@)]
        /\ fSuspendState' = [saved EXCEPT !.external = IF @ < 0 THEN 0 ELSE @]
        /\ fNestLevel' = frame.nest
        /\ Goto(t, frame.next)
  /\ Broadcast
  /\ UNCHANGED <<fState, fStop, fBreakOnSysCall, endOfCycle, oldRunState, thrown,
                 dialogs, ui>>

-----------------------------------------------------------------------------
(* EmCPU68K::Execute.  At "execute" the loop is about to run an opcode, at   *)
(* "special" an opcode has left work for ExecuteSpecial.                     *)

Happens(event, t) == event \in DeviceEvents /\ pc[t] = "execute"
TopLevel(event)   == Happens(event, "cpu") /\ ~IsNested

\* ScheduleSuspendXxx: a reason is recorded, and CheckAfterCycle makes the
\* loop look at it before the next opcode.
Schedule(reasons) ==
  /\ fSuspendState' = reasons
  /\ endOfCycle' = TRUE

\* Nothing but the reasons to suspend changes, and t goes on at "where".
Scheduling(t, where) ==
  /\ Goto(t, where)
  /\ UNCHANGED <<fState, fStop, fBreakOnSysCall, fNestLevel, stacks, waiting, dialogs, ui>>

\* EmSession::CheckForBreak; a nested loop ignores fSuspendByExternal.
CheckForBreak ==
  IF IsNested THEN [fSuspendState EXCEPT !.external = 0] # Zero ELSE Suspended

\* EmCPU68K::CycleSlowly, every 0x8000 opcodes and in the loop of a sleeping
\* device: the only place where a request of the UI thread is noticed.
CycleSlowly ==
  /\ pc["cpu"] = "execute" /\ ~IsNested /\ Suspended
  /\ endOfCycle' = TRUE /\ UNCHANGED fSuspendState
  /\ Scheduling("cpu", "special")

\* spcflags is not 0 after an opcode: a CheckAfterCycle of an earlier
\* activation of the loop or, for a nested loop, an interrupt it must ignore.
EndOfCycle(t) ==
  /\ pc[t] = "execute"
  /\ IF IsNested THEN CheckForBreak ELSE endOfCycle
  /\ UNCHANGED <<endOfCycle, fSuspendState>>
  /\ Scheduling(t, "special")

\* EmCPU68K::ExecuteSpecial, which a nested loop does no more of than the
\* check for a break.
ExecuteSpecial(t) ==
  /\ pc[t] = "special"
  /\ endOfCycle' = (IsNested /\ endOfCycle)
  /\ UNCHANGED fSuspendState
  /\ Scheduling(t, IF CheckForBreak THEN "return" ELSE "execute")

\* A breakpoint: the state packet is sent to the debugger, then the opcode
\* under the breakpoint still runs.
Breakpoint ==
  /\ TopLevel("breakpoint") /\ fSuspendState.debugger < MaxDebugger
  /\ Schedule([fSuspendState EXCEPT !.debugger = @ + 1])
  /\ Scheduling("cpu", "execute")

\* HostSignalSend with a script that waits for the signal.
SignalWaiters ==
  /\ TopLevel("signal") /\ fSuspendState.external < MaxExternal
  /\ Schedule([fSuspendState EXCEPT !.external = @ + 1, !.sysCall = TRUE])
  /\ Scheduling("cpu", "special")

\* HostSignalResume, and HostSignalWait, called by a script through a packet
\* that the UI thread handles.  HostSignalWait goes on to call EvtWakeup: a
\* RomCall of the UI thread, whose end takes the negative count to zero.
HostSignalResume ==
  /\ "hostResume" \in UIEvents /\ pc["ui"] = "execute"
  /\ fSuspendState.external > -MaxExternal
  /\ fSuspendState' = [fSuspendState EXCEPT !.external = @ - 1]
  /\ UNCHANGED endOfCycle
  /\ Scheduling("ui", "execute")

\* The TRAP that ends a ROM routine called by ExecuteSubroutine.
SubroutineReturns(t) ==
  /\ pc[t] = "execute" /\ Calling(t)
  /\ Schedule([fSuspendState EXCEPT !.subroutine = TRUE])
  /\ Scheduling(t, "special")

Entering(t, next) ==
  /\ ExecuteSubroutine(t, next)
  /\ UNCHANGED <<fState, fStop, fBreakOnSysCall, endOfCycle, oldRunState, thrown,
                 dialogs, ui>>

\* A trap patch calls a ROM routine.
RomCall(t) == Happens("romCall", t) /\ Entering(t, "execute")

\* EmPalmOS::HandleSystemCall: asked to break on a system call, it first asks
\* the OS for the current task ...
HandleSystemCall ==
  /\ TopLevel("sysCall") /\ fBreakOnSysCall
  /\ Entering("cpu", "taskInfo")

\* ... and suspends in the UI task, wakes the OS up in the root task, and does
\* neither in any other.
SysCallInUITask ==
  /\ pc["cpu"] = "taskInfo"
  /\ Schedule([fSuspendState EXCEPT !.sysCall = TRUE])
  /\ Scheduling("cpu", "special")

SysCallInRootTask == pc["cpu"] = "taskInfo" /\ Entering("cpu", "execute")

SysCallInBackgroundTask ==
  /\ pc["cpu"] = "taskInfo"
  /\ UNCHANGED <<endOfCycle, fSuspendState>>
  /\ Scheduling("cpu", "execute")

-----------------------------------------------------------------------------
(* EmSession::Reset. *)

\* Mutant: the reset forgets every reason to suspend.
ResetAll ==
  /\ fSuspendState' = Zero
  /\ fBreakOnSysCall' = FALSE
  /\ fNestLevel' = 0

\* The requests of the UI thread and the timeout survive a reset.
Reset ==
  /\ fSuspendState' = [Zero EXCEPT !.ui = fSuspendState.ui,
                                   !.timeout = fSuspendState.timeout]
  /\ fBreakOnSysCall' = FALSE
  /\ fNestLevel' = 0

\* ScheduleReset by an opcode, carried out by ExecuteSpecial after it.
DeviceResets ==
  /\ TopLevel("reset")
  /\ Reset
  /\ endOfCycle' = TRUE
  /\ Goto("cpu", "special")
  /\ UNCHANGED <<fState, fStop, stacks, waiting, dialogs, ui>>

\* EmExceptionReset::DoAction in Run.  The hardware reset clears spcflags.
CPUThreadResets ==
  /\ pc["cpu"] = "reset"
  /\ Reset
  /\ endOfCycle' = FALSE
  /\ Goto("cpu", "top")
  /\ UNCHANGED <<fState, fStop, stacks, waiting, dialogs, ui>>

\* EmDocument::DoReset, or a SysReset packet, under a stopper.
UIThreadResets ==
  /\ "reset" \in UIEvents /\ pc["ui"] = "idle" /\ holds # <<>>
  /\ Reset
  /\ endOfCycle' = FALSE
  /\ UNCHANGED <<fState, fStop, stacks, waiting, pc, dialogs, ui>>

\* SLP::HandleNewPacket, after an exception ended the call that it made; it
\* rethrows, and the stoppers on its way are released.
PacketHandlerResets ==
  /\ pc["ui"] = "caught"
  /\ Reset
  /\ endOfCycle' = FALSE
  /\ Goto("ui", "rethrow")
  /\ UNCHANGED <<fState, fStop, stacks, waiting, dialogs, ui>>

-----------------------------------------------------------------------------
(* Errors of the emulated program: dialogs and exceptions. *)

\* Errors::HandleDialog outside a subroutine asks the user ...
DeviceError ==
  /\ TopLevel("error")
  /\ Goto("cpu", "error")
  /\ UNCHANGED <<monitor, stacks, waiting, dialogs, ui>>

\* ... and in one throws an exception that resets the device.
NestedError(t) ==
  /\ Happens("nestedError", t) /\ Calling(t)
  /\ thrown' = IF t = "cpu" THEN "internalError" ELSE thrown
  /\ Goto(t, "unwind")
  /\ UNCHANGED <<monitor, stack, oldRunState, waiting, dialogs, ui>>

\* The exception leaves CallCPU, which restores fState ...
Unwind(t) ==
  /\ pc[t] = "unwind"
  /\ fState' = SavedState(t)
  /\ Goto(t, IF Calling(t) THEN "drop" ELSE "caught")
  /\ UNCHANGED <<fSuspendState, fStop, fBreakOnSysCall, fNestLevel, endOfCycle,
                 stacks, waiting, dialogs, ui>>

\* Mutant: the destructor that restores fNestLevel does not run.
DropKeepsLevel(t) ==
  /\ pc[t] = "drop"
  /\ stack' = [stack EXCEPT ![t] = Front(@)]
  /\ Goto(t, IF t = "cpu" \/ Len(stack[t]) > 1 THEN "unwind" ELSE "caught")
  /\ UNCHANGED <<monitor, oldRunState, thrown, waiting, dialogs, ui>>

\* ... and ExecuteSubroutine, which restores fNestLevel but not the counters.
Drop(t) ==
  /\ pc[t] = "drop"
  /\ fNestLevel' = Last(stack[t]).nest
  /\ stack' = [stack EXCEPT ![t] = Front(@)]
  /\ Goto(t, IF t = "cpu" \/ Len(stack[t]) > 1 THEN "unwind" ELSE "caught")
  /\ UNCHANGED <<fState, fSuspendState, fStop, fBreakOnSysCall, endOfCycle,
                 oldRunState, thrown, waiting, dialogs, ui>>

\* The handlers of Run.
Caught ==
  /\ pc["cpu"] = "caught"
  /\ Goto("cpu", CASE thrown = "debugger"      -> "top"
                   [] thrown = "reset"         -> "reset"
                   [] OTHER                    -> "display")
  /\ UNCHANGED <<monitor, stacks, waiting, dialogs, ui>>

\* Mutant: the thread waits without saying that it is blocked.
BlockOnDialogUnnoticed ==
  /\ pc["cpu"] \in {"error", "display"}
  /\ dialog' = "posted" /\ dialogFor' = pc["cpu"]
  /\ waiting' = {"cpu"}
  /\ Goto("cpu", "blocked")
  /\ UNCHANGED <<monitor, stacks, ui>>

\* EmSession::BlockOnDialog, up to the wait.
BlockOnDialog ==
  /\ pc["cpu"] \in {"error", "display"}
  /\ IF gDocument
     THEN /\ dialog' = "posted"
          /\ dialogFor' = pc["cpu"]
          /\ fState' = "kBlockedOnUI"
          /\ waiting' = IF fStop THEN {} ELSE {"cpu"}
          /\ Goto("cpu", "blocked")
     ELSE /\ Goto("cpu", "crashed")
          /\ UNCHANGED <<dialogs, fState, waiting>>
  /\ UNCHANGED <<fSuspendState, fStop, fBreakOnSysCall, fNestLevel, endOfCycle,
                 stacks, ui>>

\* The wait of BlockOnDialog returns; the fState from before it is restored.
DialogWake ==
  /\ pc["cpu"] = "blocked" /\ "cpu" \notin waiting
  /\ \/ /\ dialog # "answered" /\ ~fStop
        /\ waiting' = waiting \cup {"cpu"}
        /\ UNCHANGED <<fState, pc, dialog>>
     \/ /\ dialog = "answered" \/ fStop
        /\ fState' = IF dialogFor = "error" THEN "kRunning" ELSE oldRunState
        /\ Broadcast
        /\ Goto("cpu", CASE dialogFor = "display" -> "reset"
                         [] dialogFor = "error" /\ dialog = "answered" -> "button"
                         [] OTHER -> "error")
        /\ dialog' = IF dialog = "answered" THEN "none" ELSE dialog
  /\ UNCHANGED <<fSuspendState, fStop, fBreakOnSysCall, fNestLevel, endOfCycle,
                 stacks, dialogFor, ui>>

\* Errors::HandleDialog looks at the button: Continue, Reset, Debug.
ButtonContinue ==
  /\ pc["cpu"] = "button"
  /\ Goto("cpu", "execute")
  /\ UNCHANGED <<monitor, stacks, waiting, dialogs, ui>>

ButtonReset ==
  /\ pc["cpu"] = "button"
  /\ thrown' = "reset"
  /\ Goto("cpu", "unwind")
  /\ UNCHANGED <<monitor, stack, oldRunState, waiting, dialogs, ui>>

ButtonDebug ==
  /\ pc["cpu"] = "button" /\ fSuspendState.debugger < MaxDebugger
  /\ Schedule([fSuspendState EXCEPT !.debugger = @ + 1])
  /\ thrown' = "debugger"
  /\ Goto("cpu", "unwind")
  /\ UNCHANGED <<fState, fStop, fBreakOnSysCall, fNestLevel, stack, oldRunState,
                 waiting, dialogs, ui>>

\* No debugger is connected: the dialog is shown again.
ButtonDebugFails ==
  /\ pc["cpu"] = "button"
  /\ Goto("cpu", "error")
  /\ UNCHANGED <<monitor, stacks, waiting, dialogs, ui>>

-----------------------------------------------------------------------------
(* The UI thread: EmSessionStopper, nested calls, packets, dialogs. *)

\* The end of SuspendThread: was the session stopped the way "method" asks?
Finish(method, reasons) ==
  LET stopped == method = "kStopOnSysCall" => fState = "kSuspended" /\ reasons.sysCall
      blocked == fState = "kBlockedOnUI"
  IN
  /\ fSuspendState' = IF stopped /\ method = "kStopOnSysCall"
                      THEN [reasons EXCEPT !.ui = @ + 1] ELSE reasons
  /\ holds' = IF stopped THEN Append(holds, [how |-> method, blocked |-> blocked]) ELSE holds
  /\ fBreakOnSysCall' = FALSE
  /\ Goto("ui", Home)

\* Mutant: fBreakOnSysCall is set before the loop, as it once was.
AskOnceAndWait(method) ==
  /\ fBreakOnSysCall' = IF pc["ui"] = "suspend" THEN fBreakOnSysCall
                                                ELSE method = "kStopOnSysCall"
  /\ BroadcastThenWait("ui")

\* Each round of SuspendThread's loop tells the CPU thread again how to stop.
AskAndWait(method) ==
  /\ fBreakOnSysCall' = (method = "kStopOnSysCall")
  /\ BroadcastThenWait("ui")

SuspendThread(method) ==
  LET reasons == IF method = "kStopNow" THEN [fSuspendState EXCEPT !.ui = @ + 1]
                                        ELSE fSuspendState
  IN
  /\ pc["ui"] \in {"idle", "dialog"} /\ Len(holds) < MaxHolds
  /\ method \in StopMethods
  /\ how' = method
  /\ \/ /\ fState = "kRunning"
        /\ fSuspendState' = reasons
        /\ AskAndWait(method)
        /\ Goto("ui", "suspend")
        /\ UNCHANGED holds
     \/ /\ fState # "kRunning"
        /\ Finish(method, reasons)
        /\ UNCHANGED waiting
  /\ UNCHANGED <<fState, fStop, fNestLevel, endOfCycle, stacks, dialogs, gDocument>>

SuspendWake ==
  /\ pc["ui"] = "suspend" /\ "ui" \notin waiting
  /\ \/ /\ fState = "kRunning"
        /\ AskAndWait(how)
        /\ UNCHANGED <<fSuspendState, holds, pc>>
     \/ /\ fState # "kRunning"
        /\ Finish(how, fSuspendState)
        /\ UNCHANGED waiting
  /\ UNCHANGED <<fState, fStop, fNestLevel, endOfCycle, stacks, dialogs, how, gDocument>>

\* Mutant: the suspended thread is left asleep.
ResumeThreadSilently ==
  /\ pc["ui"] \in {"idle", "dialog", "rethrow"} /\ holds # <<>> /\ fSuspendState.ui > 0
  /\ holds' = Front(holds)
  /\ Goto("ui", Home)
  /\ fSuspendState' = [fSuspendState EXCEPT !.ui = @ - 1,
                         !.sysCall = @ /\ fSuspendState.ui > 1]
  /\ fState' = IF fSuspendState' = Zero /\ fState = "kSuspended" THEN "kRunning" ELSE fState
  /\ UNCHANGED <<fStop, fBreakOnSysCall, fNestLevel, endOfCycle, stacks, waiting, dialogs,
                 how, gDocument>>

\* Mutant: fState is left for the CPU thread to change.
ResumeThreadStateKept ==
  /\ pc["ui"] \in {"idle", "dialog", "rethrow"} /\ holds # <<>> /\ fSuspendState.ui > 0
  /\ holds' = Front(holds)
  /\ Goto("ui", Home)
  /\ fSuspendState' = [fSuspendState EXCEPT !.ui = @ - 1,
                         !.sysCall = @ /\ fSuspendState.ui > 1]
  /\ Broadcast
  /\ UNCHANGED <<fState, fStop, fBreakOnSysCall, fNestLevel, endOfCycle, stacks, dialogs,
                 how, gDocument>>

\* The destructor of the innermost stopper.
ResumeThread ==
  LET counted == [fSuspendState EXCEPT !.ui = @ - 1]
      reasons == [counted EXCEPT !.sysCall = @ /\ ~(counted.ui = 0 /\ counted.external = 0)]
  IN
  /\ pc["ui"] \in {"idle", "dialog", "rethrow"} /\ holds # <<>>
  /\ holds' = Front(holds)
  /\ Goto("ui", IF pc["ui"] = "rethrow" /\ Len(holds) > 1 THEN "rethrow" ELSE Home)
  /\ IF fSuspendState.ui > 0
     THEN /\ fSuspendState' = reasons
          /\ fState' = IF reasons = Zero /\ fState = "kSuspended" THEN "kRunning" ELSE fState
          /\ Broadcast
     ELSE UNCHANGED <<fSuspendState, fState, waiting>>
  /\ UNCHANGED <<fStop, fBreakOnSysCall, fNestLevel, endOfCycle, stacks, dialogs, how, gDocument>>

\* The innermost stopper is of this kind.
Under(method) == holds # <<>> /\ Last(holds).how = method

\* A ROM routine called by the UI thread: for itself or for an RPC packet if
\* EmSessionStopper::CanCall, for a debugger's packet while in the debugger.
UIRomCall ==
  /\ pc["ui"] = "idle"
  /\ \/ "romCall" \in UIEvents /\ Under("kStopOnSysCall")
     \/ "packet" \in UIEvents /\ Under("kStopNow") /\ fSuspendState.debugger # 0
  /\ Entering("ui", "idle")

\* Debug::HandleNewPacket: a state packet enters the debugger ...
PacketEntersDebugger ==
  /\ "packet" \in UIEvents /\ pc["ui"] = "idle" /\ Under("kStopNow")
  /\ fSuspendState.debugger = 0
  /\ Schedule([fSuspendState EXCEPT !.debugger = 1])
  /\ Scheduling("ui", "idle")

\* ... and a continue packet leaves it.
PacketExitsDebugger ==
  /\ "packet" \in UIEvents /\ pc["ui"] = "idle" /\ Under("kStopNow")
  /\ fSuspendState.debugger # 0
  /\ fSuspendState' = [fSuspendState EXCEPT !.debugger = 0]
  /\ UNCHANGED endOfCycle
  /\ Scheduling("ui", "idle")

\* EmActionDialog::Do, run by the document's DoAll: show the dialog, write the
\* button without the lock, then broadcast.
ShowDialog ==
  /\ pc["ui"] = "idle" /\ holds = <<>> /\ gDocument /\ dialog = "posted"
  /\ dialog' = "shown"
  /\ Goto("ui", "dialog")
  /\ UNCHANGED <<monitor, stacks, waiting, dialogFor, ui>>

AnswerDialog ==
  /\ pc["ui"] = "dialog" /\ holds = <<>>
  /\ dialog' = "answered"
  /\ Goto("ui", "unblock")
  /\ UNCHANGED <<monitor, stacks, waiting, dialogFor, ui>>

\* Mutant: the button is written and nobody is woken up.
UnblockDialogSilently ==
  /\ pc["ui"] = "unblock"
  /\ Goto("ui", "idle")
  /\ UNCHANGED <<monitor, stacks, waiting, dialogs, ui>>

UnblockDialog ==
  /\ pc["ui"] = "unblock"
  /\ Broadcast
  /\ Goto("ui", "idle")
  /\ UNCHANGED <<monitor, stacks, dialogs, ui>>

\* EmDocument::~EmDocument clears gDocument, then deletes the session.
CloseDocument ==
  /\ "close" \in UIEvents /\ pc["ui"] = "idle" /\ holds = <<>>
  /\ gDocument' = FALSE
  /\ Goto("ui", "close")
  /\ UNCHANGED <<monitor, stacks, waiting, dialogs, how, holds>>

\* Mutant: a thread in the middle of its loop is not asked to leave it.
DestroyThreadUnasked ==
  /\ pc["ui"] = "close"
  /\ fStop' = TRUE
  /\ BroadcastThenWait("ui")
  /\ Goto("ui", "destroy")
  /\ UNCHANGED <<fState, fSuspendState, fBreakOnSysCall, fNestLevel, endOfCycle, stacks,
                 dialogs, ui>>

DestroyThread ==
  /\ pc["ui"] = "close"
  /\ fStop' = TRUE
  /\ fSuspendState' = [fSuspendState EXCEPT !.ui = @ + 1]
  /\ BroadcastThenWait("ui")
  /\ Goto("ui", "destroy")
  /\ UNCHANGED <<fState, fBreakOnSysCall, fNestLevel, endOfCycle, stacks, dialogs, ui>>

DestroyWake ==
  /\ pc["ui"] = "destroy" /\ "ui" \notin waiting
  /\ IF fState = "kStopped"
     THEN Goto("ui", "gone") /\ UNCHANGED waiting
     ELSE waiting' = waiting \cup {"ui"} /\ UNCHANGED pc
  /\ UNCHANGED <<monitor, stacks, dialogs, ui>>

-----------------------------------------------------------------------------
\* A condition variable may release a waiting thread for no reason.
SpuriousWakeup(t) ==
  /\ t \in waiting
  /\ waiting' = waiting \ {t}
  /\ UNCHANGED <<monitor, stacks, pc, dialogs, ui>>

\* Both threads have ended.
Terminated ==
  /\ pc["ui"] = "gone" /\ pc["cpu"] = "done"
  /\ UNCHANGED vars

\* CreateThread (false): the thread is started with no reason to suspend.
Init ==
  /\ fState = "kRunning"
  /\ fSuspendState = Zero
  /\ fStop = FALSE
  /\ fBreakOnSysCall = FALSE
  /\ fNestLevel = 0
  /\ endOfCycle = FALSE
  /\ stack = [t \in Threads |-> <<>>]
  /\ oldRunState = "kRunning"
  /\ waiting = {}
  /\ pc = [t \in Threads |-> IF t = "cpu" THEN "top" ELSE "idle"]
  /\ thrown = "none"
  /\ how = "kStopNone"
  /\ holds = <<>>
  /\ dialog = "none" /\ dialogFor = "none"
  /\ gDocument = TRUE

\* The emulation loop and its wrappers, on whichever thread runs them.
Emulation(t) ==
  \/ CallCPU(t) \/ CallCPUReturns(t) \/ AfterCallCPU(t)
  \/ EndOfCycle(t) \/ ExecuteSpecial(t)
  \/ RomCall(t) \/ SubroutineReturns(t)
  \/ NestedError(t) \/ Unwind(t) \/ Drop(t)

CPUThread ==
  \/ RunTop \/ RunWake \/ Emulation("cpu")
  \/ CycleSlowly \/ Breakpoint \/ SignalWaiters
  \/ HandleSystemCall \/ SysCallInUITask \/ SysCallInRootTask \/ SysCallInBackgroundTask
  \/ DeviceResets \/ CPUThreadResets
  \/ DeviceError \/ Caught \/ BlockOnDialog \/ DialogWake
  \/ ButtonContinue \/ ButtonReset \/ ButtonDebug \/ ButtonDebugFails

UIThread ==
  \/ \E method \in StopMethods: SuspendThread(method)
  \/ SuspendWake \/ ResumeThread
  \/ UIRomCall \/ Emulation("ui") \/ HostSignalResume
  \/ PacketEntersDebugger \/ PacketExitsDebugger
  \/ UIThreadResets \/ PacketHandlerResets
  \/ ShowDialog \/ AnswerDialog \/ UnblockDialog
  \/ CloseDocument \/ DestroyThread \/ DestroyWake

Next == CPUThread \/ UIThread \/ Terminated \/ \E t \in Threads: SpuriousWakeup(t)

Spec == Init /\ [][Next]_vars

-----------------------------------------------------------------------------
(* A thread that can run does.  What the user, a script or the emulated      *)
(* program may choose not to do (the events) gets no fairness.  Four things  *)
(* are sure to happen although other steps keep interrupting them: the       *)
(* opcode counter of the outer emulation loop reaches 0x8000 again, a ROM    *)
(* routine called as a subroutine returns, the event loop of the UI thread   *)
(* comes to the document's DoAll, and the user answers a dialog.             *)
EmulationProceeds(t) ==
  \/ CallCPU(t) \/ CallCPUReturns(t) \/ AfterCallCPU(t)
  \/ EndOfCycle(t) \/ ExecuteSpecial(t) \/ Unwind(t) \/ Drop(t)

CPUProceeds ==
  \/ RunTop \/ RunWake \/ EmulationProceeds("cpu") \/ CPUThreadResets
  \/ SysCallInUITask \/ SysCallInRootTask \/ SysCallInBackgroundTask
  \/ Caught \/ BlockOnDialog \/ DialogWake
  \/ ButtonContinue \/ ButtonReset \/ ButtonDebug \/ ButtonDebugFails

UIProceeds ==
  \/ SuspendWake \/ ResumeThread \/ EmulationProceeds("ui") \/ PacketHandlerResets
  \/ UnblockDialog \/ DestroyThread \/ DestroyWake

Fairness ==
  /\ WF_vars(CPUProceeds) /\ WF_vars(UIProceeds)
  /\ SF_vars(CycleSlowly)
  /\ \A t \in Threads, depth \in 1..MaxNest:
       SF_vars(SubroutineReturns(t) /\ Len(stack[t]) = depth)
  /\ SF_vars(ShowDialog) /\ SF_vars(AnswerDialog)

FairSpec == Spec /\ Fairness

-----------------------------------------------------------------------------
(* Properties. *)

CPUPlaces == {"top", "wait", "call", "execute", "special", "taskInfo", "return", "fold",
              "error", "blocked", "button", "unwind", "drop", "caught", "display", "reset",
              "done", "crashed"}
UIPlaces  == {"idle", "suspend", "call", "execute", "special", "return", "fold", "unwind",
              "drop", "caught", "rethrow", "dialog", "unblock", "close", "destroy", "gone"}

Places(t) == IF t = "cpu" THEN CPUPlaces ELSE UIPlaces

Frames == [counters: Counters, state: States, nest: Nat,
           next: {"execute", "taskInfo", "idle"}]

\* Where the activation at this depth of a thread's stack returns to: the event
\* loop of the UI thread makes the outermost call of that thread.
Returns(t, depth) ==
  IF t = "cpu" THEN {"execute", "taskInfo"} ELSE IF depth = 1 THEN {"idle"} ELSE {"execute"}

StacksTyped(st) ==
  /\ st \in [Threads -> Seq(Frames)]
  /\ \A t \in Threads: \A i \in 1..Len(st[t]): st[t][i].next \in Returns(t, i)

\* The UI thread is in the emulated CPU or its wrappers exactly while a call of
\* its own is active, a thread that leaves an activation has one, and one that
\* waits for the session to stop has been told how.
ControlTyped ==
  /\ pc \in [Threads -> CPUPlaces \cup UIPlaces]
  /\ \A t \in Threads: pc[t] \in Places(t)
  /\ pc["ui"] \in {"call", "execute", "special", "return", "fold", "unwind", "drop"}
       <=> Calling("ui")
  /\ pc["cpu"] \in {"fold", "drop"} => Calling("cpu")
  /\ pc["ui"] = "suspend" => how \in AllStopMethods

\* Every variable keeps its type; in particular fSuspendByUIThread, which
\* ResumeThread decrements, never goes negative.
TypeOK ==
  /\ fState \in States
  /\ fSuspendState \in Counters
  /\ fStop \in BOOLEAN
  /\ fBreakOnSysCall \in BOOLEAN
  /\ fNestLevel \in Nat
  /\ endOfCycle \in BOOLEAN
  /\ StacksTyped(stack)
  /\ oldRunState \in States
  /\ waiting \subseteq Threads
  /\ ControlTyped
  /\ thrown \in {"none", "debugger", "reset", "internalError"}
  /\ how \in AllStopMethods \cup {"kStopNone"}
  /\ holds \in Seq([how: AllStopMethods, blocked: BOOLEAN])
  /\ dialog \in {"none", "posted", "shown", "answered"}
  /\ dialogFor \in {"none", "error", "display"}
  /\ gDocument \in BOOLEAN

\* The thread is inside the emulated CPU or its wrappers.
Emulating(t) == pc[t] \in {"call", "execute", "special", "taskInfo", "return", "fold"}

\* The emulated CPU has one set of registers: the two threads are never both
\* inside it, whoever calls whom from whatever state (Run, ExecuteSubroutine).
OneEmulator == ~(Emulating("cpu") /\ Emulating("ui"))

\* What the UI thread is promised (EmSessionGate): the emulated CPU is free or
\* in use by one thread, and a stopper excludes the CPU thread from it.
Gate == INSTANCE EmSessionGate WITH
          inside <- CASE Emulating("cpu") -> "cpu"
                      [] Emulating("ui")  -> "ui"
                      [] OTHER            -> "nobody",
          held   <- Cardinality({i \in 1..Len(holds): ~holds[i].blocked})

\* EmSession implements the gate: every step of the two threads enters, leaves,
\* holds or releases it as its specification allows (EmSessionStopper).  A
\* stopper granted to a session blocked on a dialog does not hold the gate.
GateSpec == Gate!Spec

\* A stopper that SuspendThread granted while the session was suspended keeps
\* the CPU thread in the wait of Run until the stopper is released, whatever
\* nested calls and packets its owner makes meanwhile.
ParkedWhileHeld ==
  \A i \in 1..Len(holds): ~holds[i].blocked => pc["cpu"] = "wait"

\* fState, which the UI thread reads to decide whether the session is stopped,
\* tells the truth about where the CPU thread is.
StateTellsTruth ==
  /\ fState = "kSuspended" => pc["cpu"] = "wait"
  /\ fState = "kBlockedOnUI" => pc["cpu"] = "blocked"
  /\ fState = "kStopped" <=> pc["cpu"] = "done"

\* The requests of the UI thread that activations of ExecuteSubroutine keep.
RequestsIn(frames) ==
  LET sum[i \in 0..Len(frames)] ==
        IF i = 0 THEN 0 ELSE sum[i - 1] + frames[i].counters.ui
  IN  sum[Len(frames)]

SavedRequests(t) == RequestsIn(stack[t])

\* No request of the UI thread is lost or counted twice: those standing and
\* those set aside by nested calls (the fold of ExecuteSubroutine) are the
\* stoppers it owns, the stop it waits for and the end it asked for.
RequestsConserved ==
  fSuspendState.ui + SavedRequests("cpu") + SavedRequests("ui")
    = Len(holds)
      + (IF pc["ui"] = "suspend" /\ how = "kStopNow" THEN 1 ELSE 0)
      + (IF fStop THEN 1 ELSE 0)

\* fNestLevel counts the live activations, over resets and exceptions.
NestLevelCounts == fNestLevel = Len(stack["cpu"]) + Len(stack["ui"])

\* Some source still wants the session suspended, if only in the counters a
\* nested call of the UI thread has set aside.
SomeoneSuspends ==
  \/ Suspended /\ ~IsNested
  \/ \E i \in 1..Len(stack["ui"]): stack["ui"][i].counters # Zero

\* The suspended CPU thread leaves its wait only once no source wants it
\* suspended any more, or to end (the inner loop of Run).
StaysSuspended ==
  [][pc["cpu"] = "wait" /\ pc'["cpu"] # "wait" => ~SomeoneSuspends \/ fStop]_vars

\* The assertion in the loop of SuspendThread: whenever kStopNow wakes up in
\* a session that is not nested, its request still stands or a dialog is up.
SuspendAsserts ==
  [][pc["ui"] = "suspend" /\ "ui" \notin waiting /\ how = "kStopNow" /\ ~IsNested
       /\ (pc'["ui"] # "suspend" \/ "ui" \in waiting')
     => fSuspendState.ui # 0 \/ fState = "kBlockedOnUI"]_vars

\* The assertions of Run before each CallCPU: nothing suspends the session,
\* nothing is nested, and fState says kRunning.
RunAsserts ==
  [][pc["cpu"] \in {"top", "wait"} /\ pc'["cpu"] = "call"
     => fState = "kRunning" /\ ~Suspended /\ ~IsNested]_vars

\* The assertions that SuspendThread and Run make hold although each wakes up in the
\* middle of what the other thread does.
Asserts == SuspendAsserts /\ RunAsserts

\* The assertion in BlockOnDialog's wait.
BlockedAsserts ==
  pc["cpu"] = "blocked" /\ "cpu" \notin waiting /\ dialog # "answered" /\ ~fStop
    => fState = "kBlockedOnUI"

\* SuspendThread (kStopNow) returns.
StopNowReturns == (pc["ui"] = "suspend" /\ how = "kStopNow") ~> (pc["ui"] # "suspend")

\* SuspendThread returns, whatever it was asked for.
SuspendReturns == (pc["ui"] = "suspend") ~> (pc["ui"] # "suspend")

\* Once nobody wants the session suspended, and for as long as nobody does,
\* the emulation goes on.
ResumedRuns == <>[](~Suspended /\ ~IsNested) => []<>(pc["cpu"] # "wait")

\* The answer to its dialog reaches the blocked CPU thread, provided that the UI
\* thread comes back to its event loop with all its stoppers released
\* (UnblockDialog, BlockOnDialog).
DialogEnds ==
  []<>(holds = <<>>) => (pc["cpu"] = "blocked") ~> (pc["cpu"] # "blocked")

\* Closing the document ends both threads.
CloseEnds == (pc["ui"] = "close") ~> (pc["ui"] = "gone" /\ pc["cpu"] = "done")

=============================================================================
