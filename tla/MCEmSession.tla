----------------------------- MODULE MCEmSession -----------------------------
(***************************************************************************)
(* Instances of EmSession for TLC.                                          *)
(***************************************************************************)
EXTENDS EmSession

\* The device asks for system calls again and again, comes back to its UI
\* task, and trap patches keep calling ROM routines: what kStopOnSysCall
\* depends on ("The request may *hang*", says EmSession.h of the first two).
DeviceCallsSystem ==
  /\ SF_vars(HandleSystemCall)
  /\ SF_vars(SysCallInUITask)

PatchedDeviceCallsSystem ==
  /\ DeviceCallsSystem
  /\ SF_vars(RomCall("cpu"))

\* SuspendThread returns on a device that does not reset for ever, although
\* Reset clears the flag that tells the CPU thread how to stop.
SuspendReturnsAfterResets == <>[][~DeviceResets]_vars => SuspendReturns

\* It does when the trap patches of the device keep calling ROM routines, whose
\* broadcasts wake the loop of SuspendThread up to set the flag again.
PatchedSuspendReturns == PatchedDeviceCallsSystem => SuspendReturnsAfterResets

\* SuspendThread returns: always for kStopNow, and for kStopOnSysCall on such a device.
EverySuspendReturns == StopNowReturns /\ PatchedSuspendReturns
=============================================================================
