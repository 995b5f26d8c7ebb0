----------------------------- MODULE EmMinimize -----------------------------
(***************************************************************************)
(* EmMinimize.cpp: the search for a minimal list of events that makes the   *)
(* device fail.  The events are replayed with a range of them masked out;   *)
(* if the device fails all the same, the range is discarded, otherwise it   *)
(* is split.  The functions call each other in tail position until the next *)
(* replay is set up, and then the device runs: "call" is the function to be *)
(* executed, or "device".                                                   *)
(*                                                                          *)
(* The device shows up as its answers: after each event that it was given,  *)
(* it fails or asks for the next event.  Without quirks it depends on these *)
(* events alone; an answer is remembered when it is first given.            *)
(***************************************************************************)
EXTENDS EmEventPlayback

CONSTANTS
  MaxEvents,    \* bound on the length of the recording, its error included
  kMaxRange,    \* no larger range is tested at once
  MaxErrors,    \* bound on the errors that a device reports in one cycle
  NestedLocks,  \* a thread may lock an omni_mutex again that it holds
  Devices       \* the sets of quirks that a device may have

Quirks == {"erratic", "polls", "burst", "sleeps", "resets"}

ASSUME BoundsAssumption == MaxEvents \in Nat /\ MaxErrors \in Nat \ {0}
ASSUME RangeAssumption == kMaxRange \in Nat \ {0}
ASSUME DevicesAssumption == NestedLocks \in BOOLEAN /\ Devices \subseteq SUBSET Quirks

kLastPass == 0

VARIABLES
  call,                \* the function being executed
  fgIsOn,
  fgMutex,             \* ErrorOccurred holds it
  fLevels,             \* the stack of ranges, its top last
  fgPassNumber,
  fgDiscardedNumberOfEvents,
  fgInitialNumberOfEvents,
  fMinimizeLoadState,  \* the session is to be reloaded at the end of the cycle
  fDeferredErrs,       \* errors that the cycle has still to report
  saved,               \* SaveMinimalEvents was called
  progress,            \* the progress dialog
  quirks,              \* of the device
  played,              \* the events that the device was given since it was reloaded
  fatal, fine          \* what it is known to fail, and not to fail, after

counts   == <<fgDiscardedNumberOfEvents, fgInitialNumberOfEvents>>
session  == <<fMinimizeLoadState, fDeferredErrs>>
ui       == <<saved, progress>>
device   == <<quirks, played, fatal, fine>>
minimize == <<fgIsOn, fgMutex, fLevels, fgPassNumber, counts>>
vars     == <<playback, call, minimize, session, ui, device>>

-----------------------------------------------------------------------------
(* The stack of ranges. *)

Level(begin, end, checked) == [fBegin |-> begin, fEnd |-> end, fChecked |-> checked]

Top == fLevels[Len(fLevels)]
Pop == SubSeq(fLevels, 1, Len(fLevels) - 1)
Size(level) == level.fEnd - level.fBegin

\* CurrentRange
CurrentRange == IF fLevels = <<>> THEN Level(0, 0, FALSE) ELSE Top

\* Mutant: the event in the middle is in neither half.
SplitWithGap ==
  LET mid == (Top.fBegin + Top.fEnd) \div 2 IN
    Pop \o << Level(mid + 1, Top.fEnd, FALSE), Level(Top.fBegin, mid, FALSE) >>

\* One round of SplitCurrentLevel: the halves of the top, the left one on top.
Split ==
  LET mid  == (Top.fBegin + Top.fEnd) \div 2
      half(begin, end) == Level(begin, end, Top.fChecked /\ end - begin > 1)
  IN Pop \o << half(mid, Top.fEnd), half(Top.fBegin, mid) >>

\* The lock can be taken.
Lockable == NestedLocks \/ ~fgMutex

-----------------------------------------------------------------------------
(* The functions. *)

\* Start: the events from the first error on are taken away, those that a pen
\* that is down makes it keep excepted.
Start ==
  /\ call = "idle"
  /\ LET errors == {i \in 1 .. Len(fgEvents) : fgEvents[i].type = "error"} IN
       IF errors = {}
       THEN call' = "device" /\ UNCHANGED <<playback, minimize>>
       ELSE LET first == CHOOSE i \in errors : \A j \in errors : i <= j IN
              /\ CullEvents(SetEvents(AllEnabled(fgEvents), first - 1, Len(fgEvents), FALSE))
              /\ fgInitialNumberOfEvents' = Len(fgEvents')
              /\ fgDiscardedNumberOfEvents' = 0
              /\ fLevels' = <<>>
              /\ fgPassNumber' = 1
              /\ fgIsOn' = TRUE
              /\ call' = "InitialLevel"
              /\ UNCHANGED <<fgReplaying, fgMutex>>
  /\ UNCHANGED <<session, ui, device>>

\* InitialLevel, and what is called after it: the last pass replays everything.
InitialLevel ==
  /\ call = "InitialLevel" /\ Lockable
  /\ fLevels' = << Level(0, Len(fgMask), FALSE) >>
  /\ call' = IF fgPassNumber = kLastPass THEN "StartAgain" ELSE "SplitAndStartAgain"
  /\ UNCHANGED <<playback, fgIsOn, fgMutex, fgPassNumber, counts, session, ui, device>>

\* Mutant: a single event is split too.
SplitCurrentLevelTooFar ==
  /\ call = "SplitAndStartAgain" /\ Lockable
  /\ Size(Top) > 0
  /\ fLevels' = Split
  /\ call' = IF Size(Split[Len(Split)]) <= kMaxRange THEN "DisableAndStartAgain"
                                                     ELSE "SplitAndStartAgain"
  /\ UNCHANGED <<playback, fgIsOn, fgMutex, fgPassNumber, counts, session, ui, device>>

\* SplitAndStartAgain, which goes on splitting until the range is small enough.
SplitCurrentLevel ==
  /\ call = "SplitAndStartAgain" /\ Lockable
  /\ Size(Top) > 1
  /\ fLevels' = Split
  /\ call' = IF Size(Split[Len(Split)]) <= kMaxRange THEN "DisableAndStartAgain"
                                                     ELSE "SplitAndStartAgain"
  /\ UNCHANGED <<playback, fgIsOn, fgMutex, fgPassNumber, counts, session, ui, device>>

\* ... or clears every fChecked if there is nothing to split.
CannotSplit ==
  /\ call = "SplitAndStartAgain" /\ Lockable
  /\ Size(Top) <= 1
  /\ fLevels' = [i \in DOMAIN fLevels |-> [fLevels[i] EXCEPT !.fChecked = FALSE]]
  /\ call' = "NextSubRange"
  /\ UNCHANGED <<playback, fgIsOn, fgMutex, fgPassNumber, counts, session, ui, device>>

\* DisableAndStartAgain, which leaves a single pen up alone.
DisableAndStartAgain ==
  /\ call = "DisableAndStartAgain"
  /\ IF Size(Top) = 1 /\ fgEvents[Top.fEnd].type = "up"
     THEN call' = "NextSubRange" /\ UNCHANGED fgMask
     ELSE /\ fgMask' = SetEvents(fgMask, Top.fBegin, Top.fEnd, FALSE)
          /\ call' = "StartAgain"
  /\ UNCHANGED <<fgEvents, fgReplaying, fIndex, fPenIsDown, minimize, session, ui, device>>

\* Mutant: playback, which was turned off at the end of the last replay, stays off.
StartAgainSilently ==
  /\ call = "StartAgain"
  /\ UNCHANGED fgReplaying /\ ResetPlayback
  /\ fMinimizeLoadState' = TRUE
  /\ fgMutex' = FALSE
  /\ progress' = IF progress = "closed" THEN "open" ELSE progress
  /\ call' = "device"
  /\ UNCHANGED <<fgEvents, fgMask, fgIsOn, fLevels, fgPassNumber, counts, fDeferredErrs, saved,
                 device>>

\* StartAgain: play from the first event on, once the session is reloaded.  The
\* calls are over, and ErrorOccurred has released the lock.
StartAgain ==
  /\ call = "StartAgain"
  /\ ReplayEventsOn
  /\ fMinimizeLoadState' = TRUE
  /\ fgMutex' = FALSE
  /\ progress' = IF progress = "closed" THEN "open" ELSE progress
  /\ call' = "device"
  /\ UNCHANGED <<fgEvents, fgMask, fgIsOn, fLevels, fgPassNumber, counts, fDeferredErrs, saved,
                 device>>

\* NextSubRange: the range below is tested, or split first if it is known to matter.
NextSubRange ==
  /\ call = "NextSubRange" /\ Lockable
  /\ fLevels' = Pop
  /\ call' = IF Pop = <<>> THEN "MinimizationPassComplete"
             ELSE IF Pop[Len(Pop)].fChecked \/ Size(Pop[Len(Pop)]) > kMaxRange
             THEN "SplitAndStartAgain"
             ELSE "DisableAndStartAgain"
  /\ UNCHANGED <<playback, fgIsOn, fgMutex, fgPassNumber, counts, session, ui, device>>

\* Mutant: discarding a single event is not worth another pass.
MakeAnotherPassIfMany(oldNumEvents, newNumEvents) == newNumEvents < oldNumEvents - 1

MakeAnotherPass(oldNumEvents, newNumEvents) == newNumEvents < oldNumEvents

\* MinimizationPassComplete: another pass, the last pass, or the end.
MinimizationPassComplete ==
  /\ call = "MinimizationPassComplete"
  /\ CullEvents(fgMask)
  /\ \/ /\ MakeAnotherPass(Len(fgMask), Len(fgMask'))
        /\ fgPassNumber' = fgPassNumber + 1
        /\ call' = "InitialLevel"
     \/ /\ ~MakeAnotherPass(Len(fgMask), Len(fgMask'))
        /\ fgPassNumber # kLastPass
        /\ fgPassNumber' = kLastPass
        /\ call' = "InitialLevel"
     \/ /\ ~MakeAnotherPass(Len(fgMask), Len(fgMask'))
        /\ fgPassNumber = kLastPass
        /\ call' = "MinimizationComplete"
        /\ UNCHANGED fgPassNumber
  /\ UNCHANGED <<fgReplaying, fgIsOn, fgMutex, fLevels, counts, session, ui, device>>

\* MinimizationComplete: the events are saved, with an error event at their end.
MinimizationComplete ==
  /\ call = "MinimizationComplete"
  /\ fgIsOn' = FALSE
  /\ ReplayEventsOff
  /\ fgEvents' = Append(fgEvents, [number |-> 0, type |-> "error"])
  /\ fgMask' = Append(fgMask, TRUE)
  /\ saved' = TRUE
  /\ fMinimizeLoadState' = TRUE
  /\ fgMutex' = FALSE
  /\ call' = "device"
  /\ UNCHANGED <<fLevels, fgPassNumber, counts, fDeferredErrs, progress, device>>

\* Mutant: the range stays masked out.
NoErrorOccurredKeepsMask ==
  /\ call = "NoErrorOccurred"
  /\ IF fgPassNumber = kLastPass
     THEN fLevels' = <<>> /\ call' = "MinimizationPassComplete"
     ELSE fLevels' = [fLevels EXCEPT ![Len(fLevels)].fChecked = TRUE]
          /\ call' = "SplitAndStartAgain"
  /\ UNCHANGED <<playback, fgIsOn, fgMutex, fgPassNumber, counts, session, ui, device>>

\* NoErrorOccurred: the range matters.  If everything was replayed, that is the
\* end nevertheless.
NoErrorOccurred ==
  /\ call = "NoErrorOccurred"
  /\ fgMask' = SetEvents(fgMask, CurrentRange.fBegin, CurrentRange.fEnd, TRUE)
  /\ IF fgPassNumber = kLastPass
     THEN fLevels' = <<>> /\ call' = "MinimizationPassComplete"
     ELSE fLevels' = [fLevels EXCEPT ![Len(fLevels)].fChecked = TRUE]
          /\ call' = "SplitAndStartAgain"
  /\ UNCHANGED <<fgEvents, fgReplaying, fIndex, fPenIsDown, fgIsOn, fgMutex, fgPassNumber,
                 counts, session, ui, device>>

\* ErrorOccurred: the range is not needed, nor is what was not played yet.  In
\* that case a pass begins anew, with the lock held.
ErrorOccurred ==
  /\ call = "ErrorOccurred"
  /\ fgDiscardedNumberOfEvents' =
       fgInitialNumberOfEvents - CountEnabledEvents(fgEvents, fgMask)
  /\ IF fIndex < Len(fgMask)
     THEN /\ fgMask' = SetEvents(fgMask, fIndex, Len(fgMask), FALSE)
          /\ fLevels' = <<>>
          /\ fgMutex' = TRUE
          /\ call' = "MinimizationPassComplete"
     ELSE call' = "NextSubRange" /\ UNCHANGED <<fgMask, fLevels, fgMutex>>
  /\ UNCHANGED <<fgEvents, fgReplaying, fIndex, fPenIsDown, fgIsOn, fgPassNumber,
                 fgInitialNumberOfEvents, session, ui, device>>

-----------------------------------------------------------------------------
(* The device, in the CPU thread. *)

Remembers == "erratic" \notin quirks

\* To a device that sleeps, every key is the one that turns it off.
Asleep == "sleeps" \in quirks /\ played # <<>> /\ played[Len(played)].type = "key"

\* The device is free to run: no error is to be reported, no state to be loaded.
Free == call = "device" /\ fDeferredErrs = 0 /\ ~fMinimizeLoadState
Runs == Free /\ ~Asleep

\* ExecuteSpecial reloads the session.
RealLoadInitialState ==
  /\ call = "device" /\ fDeferredErrs = 0 /\ fMinimizeLoadState
  /\ fMinimizeLoadState' = FALSE
  /\ played' = <<>>
  /\ UNCHANGED <<playback, call, minimize, fDeferredErrs, ui, quirks, fatal, fine>>

\* The device does something wrong, once or more often before the cycle ends.
\* (Without minimization nothing here changes: the user dismisses a dialog.)
DeviceFails ==
  /\ Runs /\ fgReplaying /\ fgIsOn
  /\ Remembers => played \notin fine
  /\ fatal' = IF Remembers THEN fatal \union {played} ELSE fatal
  /\ fDeferredErrs' \in 1 .. (IF "burst" \in quirks THEN MaxErrors ELSE 1)
  /\ UNCHANGED <<playback, call, minimize, fMinimizeLoadState, ui, quirks, played, fine>>

\* ExecuteSpecial reports the errors, one after the other (Errors::HandleDialog).
ReportError ==
  /\ call = "device" /\ fDeferredErrs > 0
  /\ fDeferredErrs' = fDeferredErrs - 1
  /\ call' = IF fgIsOn THEN "ErrorOccurred" ELSE "device"
  /\ UNCHANGED <<playback, minimize, fMinimizeLoadState, ui, device>>

\* The device is fine after what it was given, and asks for more.
Asks ==
  /\ Runs /\ fgReplaying
  /\ Remembers /\ fgIsOn => played \notin fatal
  /\ fine' = IF Remembers /\ fgIsOn THEN fine \union {played} ELSE fine

\* The event is given to the device.  Of an erratic one only the last is of interest.
Plays(event) == played' = IF Remembers THEN Append(played, event) ELSE <<event>>

\* An application tracks the pen, with EvtGetPen, until it is up again.
TracksPen == "polls" \in quirks /\ played # <<>> /\ played[Len(played)].type = "down"

\* ReplayGetEvent: the next event, or the end of the replay.
ReplayGetEvent ==
  /\ Asks /\ (Remembers => ~TracksPen)
  /\ LET next == NextReplayEvent IN
       IF next # 0
       THEN /\ fIndex' = next
            /\ fPenIsDown' = (fgEvents[next].type = "down")
            /\ Plays(fgEvents[next])
            /\ UNCHANGED <<fgReplaying, call>>
       ELSE /\ fIndex' = Len(fgEvents)
            /\ fgReplaying' = FALSE
            /\ call' = IF fgIsOn THEN "NoErrorOccurred" ELSE "device"
            /\ UNCHANGED <<fPenIsDown, played>>
  /\ UNCHANGED <<fgEvents, fgMask, minimize, session, ui, quirks, fatal>>

\* ReplayGetPen: the next event if it is one of the pen, a pen up out of nothing
\* otherwise.  Only the latter is noted in fPenIsDown.
ReplayGetPen ==
  /\ Asks /\ TracksPen
  /\ LET next == NextReplayEvent IN
       IF next # 0 /\ fgEvents[next].type \in {"down", "up"}
       THEN /\ fIndex' = next
            /\ Plays(fgEvents[next])
            /\ UNCHANGED fPenIsDown
       ELSE /\ fIndex' = IF next = 0 THEN Len(fgEvents) ELSE fIndex
            /\ Plays([number |-> 0, type |-> "up"])
            /\ fPenIsDown' = FALSE
  /\ UNCHANGED <<fgEvents, fgMask, fgReplaying, call, minimize, session, ui, quirks, fatal>>

\* The device was turned off.  ExecuteStoppedLoop turns playback and minimization
\* off, posts a press of the power button ...
Sleeps ==
  /\ Free /\ Asleep /\ fgReplaying
  /\ ReplayEventsOff
  /\ fgIsOn' = FALSE
  /\ call' = IF fgIsOn THEN "wakeMinimizing" ELSE "wakeReplaying"
  /\ UNCHANGED <<fgEvents, fgMask, fgMutex, fLevels, fgPassNumber, counts, session, ui, device>>

\* ... and turns them on again.  The device is not reloaded.
Wakes ==
  /\ call \in {"wakeMinimizing", "wakeReplaying"}
  /\ ReplayEventsOn
  /\ fgIsOn' = (fgIsOn \/ call = "wakeMinimizing")
  /\ call' = "device"
  /\ played' = <<>>
  /\ UNCHANGED <<fgEvents, fgMask, fgMutex, fLevels, fgPassNumber, counts, session, ui, quirks,
                 fatal, fine>>

\* The device resets itself, or the user resets it: Reset clears what was scheduled,
\* and EmEventPlayback::Reset turns playback off.  Minimization stays on.
Reset ==
  /\ call = "device" /\ progress # "closed" /\ "resets" \in quirks
  /\ fgReplaying' = FALSE /\ ResetPlayback
  /\ fMinimizeLoadState' = FALSE /\ fDeferredErrs' = 0
  /\ UNCHANGED <<fgEvents, fgMask, call, minimize, ui, device>>

\* The user presses Stop in the progress dialog, which Start opened at its end.
Stop ==
  /\ progress = "open"
  /\ progress' = "stopped"
  /\ fgIsOn' = FALSE
  /\ ReplayEventsOff
  /\ UNCHANGED <<fgEvents, fgMask, call, fgMutex, fLevels, fgPassNumber, counts, session, saved,
                 device>>

-----------------------------------------------------------------------------
\* The recordings: an error among the events, and little behind it.
Recordings ==
  {r \in UNION {[1 .. n -> Types] : n \in 0 .. MaxEvents} :
     \A i \in DOMAIN r : r[i] = "error" => i >= Len(r) - 1}

\* What a recording did to a device that behaves as it did then.
Recorded(events) ==
  LET errors == {i \in 1 .. Len(events) : events[i].type = "error"}
  IN IF errors = {} THEN <<>>
     ELSE Replay(SubSeq(events, 1, (CHOOSE i \in errors : \A j \in errors : i <= j) - 1),
                 AllEnabled(events))

Init ==
  /\ \E r \in Recordings : fgEvents = [i \in DOMAIN r |-> [number |-> i, type |-> r[i]]]
  /\ fgMask = AllEnabled(fgEvents)
  /\ fgReplaying = FALSE /\ fIndex = 0 /\ fPenIsDown = FALSE
  /\ call = "idle" /\ fgIsOn = FALSE /\ fgMutex = FALSE /\ fLevels = <<>> /\ fgPassNumber = 0
  /\ fgDiscardedNumberOfEvents = 0 /\ fgInitialNumberOfEvents = 0
  /\ fMinimizeLoadState = FALSE /\ fDeferredErrs = 0
  /\ saved = FALSE /\ progress = "closed"
  /\ quirks \in Devices
  /\ played = <<>>
  /\ IF quirks \subseteq {"burst"}
     THEN /\ fatal = {Recorded(fgEvents)}
          /\ fine = {SubSeq(Recorded(fgEvents), 1, n) : n \in 0 .. Len(Recorded(fgEvents)) - 1}
     ELSE fatal = {} /\ fine = {}

Minimization ==
  \/ InitialLevel \/ SplitCurrentLevel \/ CannotSplit \/ DisableAndStartAgain \/ StartAgain
  \/ NextSubRange \/ MinimizationPassComplete \/ MinimizationComplete
  \/ NoErrorOccurred \/ ErrorOccurred

Device ==
  \/ RealLoadInitialState \/ DeviceFails \/ ReportError \/ ReplayGetEvent \/ ReplayGetPen
  \/ Sleeps \/ Wakes

Next == Start \/ Stop \/ Reset \/ Minimization \/ Device

Spec == Init /\ [][Next]_vars

\* Start is called, a function that was called goes on, and the device runs.
FairSpec == Spec /\ WF_vars(Start) /\ WF_vars(Minimization) /\ WF_vars(Device)

-----------------------------------------------------------------------------
(* Properties. *)

Calls == {"idle", "device", "InitialLevel", "SplitAndStartAgain", "DisableAndStartAgain",
          "StartAgain", "NextSubRange", "MinimizationPassComplete", "MinimizationComplete",
          "NoErrorOccurred", "ErrorOccurred", "wakeMinimizing", "wakeReplaying"}

\* Every variable keeps its type; a range is not empty unless there are no events.
TypeOK ==
  /\ call \in Calls
  /\ {fgIsOn, fgMutex, fgReplaying, fPenIsDown, fMinimizeLoadState, saved} \subseteq BOOLEAN
  /\ progress \in {"closed", "open", "stopped"}
  /\ fgEvents \in Seq(Events) /\ played \in Seq(Events)
  /\ fgMask \in Seq(BOOLEAN) /\ Len(fgMask) = Len(fgEvents)
  /\ fIndex \in Nat
  /\ fLevels \in Seq([fBegin : Nat, fEnd : Nat, fChecked : BOOLEAN])
  /\ \A i \in DOMAIN fLevels : Size(fLevels[i]) >= 1 \/ fgMask = <<>>
  /\ fgPassNumber \in Nat /\ fDeferredErrs \in 0 .. MaxErrors

\* A function that takes the top of the stack finds one.
LevelsFound ==
  call \in {"SplitAndStartAgain", "DisableAndStartAgain", "NextSubRange"} => fLevels # <<>>

\* The stack of ranges covers, without gap or overlap, the events that this pass
\* has still to decide about; none of these is masked out, except those of the
\* top range while it is tested.
Testing ==
  call \in {"StartAgain", "device", "wakeMinimizing", "wakeReplaying", "ErrorOccurred",
            "NoErrorOccurred", "NextSubRange"}

LevelsTile ==
  fLevels # <<>> =>
    /\ fLevels[1].fEnd = Len(fgMask)
    /\ \A i \in 1 .. Len(fLevels) - 1 : fLevels[i].fBegin = fLevels[i + 1].fEnd
    /\ \A i \in 1 .. Len(fgMask) :
         i > (IF Testing THEN Top.fEnd ELSE Top.fBegin) => fgMask[i]

\* The stack holds what the functions need and all that the pass has still to decide
\* about, although it is split and popped call by call between replays.
LevelsCover == LevelsFound /\ LevelsTile

\* Without its quirks, the device is known to fail on the events that are not
\* discarded, from the first test to the list that is saved.
Kept ==
  IF Testing THEN SetEvents(fgMask, CurrentRange.fBegin, CurrentRange.fEnd, TRUE) ELSE fgMask

StillFails ==
  quirks = {} /\ call # "idle" /\ fgInitialNumberOfEvents > 0 =>
    \E n \in 0 .. Len(Replay(fgEvents, Kept)) : SubSeq(Replay(fgEvents, Kept), 1, n) \in fatal

\* The list that is saved is minimal: without any one of its events, pen ups
\* excepted, the device was seen not to fail.  And the number of discarded events
\* that the user is told is right.
Minimal ==
  quirks = {} /\ saved =>
    /\ fgDiscardedNumberOfEvents = fgInitialNumberOfEvents - (Len(fgEvents) - 1)
    /\ Len(fgEvents) > 2 =>
         \A i \in 1 .. Len(fgEvents) - 1 :
           fgEvents[i].type # "up" =>
             Replay(SubSeq(fgEvents, 1, Len(fgEvents) - 1), SetEvents(fgMask, i - 1, i, FALSE))
               \in fine

\* A device whose pen is up is never given a pen up, unless it tracks the pen.
PenUpsFollowDowns ==
  quirks = {} =>
    \A i \in DOMAIN played : played[i].type = "up" => i > 1 /\ played[i - 1].type = "down"

\* Minimization comes to its end, whatever the device answers, if nothing turns the
\* device off or resets it.  Stop ends it for good; playback, which a function on its
\* way may turn on again, ends then too.
Ends ==
  /\ quirks \intersect {"sleeps", "resets"} = {} =>
       <>(call = "device" /\ ~fgIsOn /\ ~fgReplaying)
  /\ "sleeps" \notin quirks => (progress = "stopped" ~> [](~fgIsOn /\ ~fgReplaying))

\* Minimization never waits for a lock that it holds itself.
LocksFree == call \in {"InitialLevel", "SplitAndStartAgain", "NextSubRange"} => Lockable
=============================================================================
