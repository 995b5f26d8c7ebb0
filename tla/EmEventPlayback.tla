-------------------------- MODULE EmEventPlayback --------------------------
(***************************************************************************)
(* EmEventPlayback.cpp: the recorded events and their playback.  An event   *)
(* has a number, by which it is told from the others, and a type; moves of  *)
(* the pen count as pen downs, and application switches and null events as  *)
(* keys.  Indices start at 1; fIndex is the number of events passed, as in  *)
(* the code.                                                                *)
(***************************************************************************)
EXTENDS Integers, FiniteSets, Sequences

VARIABLES
  fgEvents,     \* the recorded events
  fgMask,       \* fgMask[i]: the i-th event is not masked out
  fgReplaying,  \* playback is on
  fIndex,       \* fgIterationState: events passed
  fPenIsDown    \* fgIterationState: the last event returned put the pen down

playback == <<fgEvents, fgMask, fgReplaying, fIndex, fPenIsDown>>

Types == {"key", "down", "up", "error"}

Events == [number : Nat, type : Types]

\* Mutant: a pen up is returned if it is not masked out, like any other event.
ReturnedIfEnabled(event, enabled, penIsDown) == enabled

\* What GetNextReplayEvent returns: a pen up, masked out or not, if the pen is
\* down, and any other event if it is not masked out.
Returned(event, enabled, penIsDown) ==
  IF event.type = "up" THEN penIsDown ELSE enabled

\* The event that GetNextReplayEvent returns next, 0 if there is none.
NextReplayEvent ==
  LET rest == {i \in fIndex + 1 .. Len(fgEvents) :
                 Returned(fgEvents[i], fgMask[i], fPenIsDown)}
  IN IF rest = {} THEN 0 ELSE CHOOSE i \in rest : \A j \in rest : i <= j

\* The pen is down before the i-th event of a playback from the first event on:
\* an event that is returned put it down, and nothing was returned since.
PenIsDown(events, mask, i) ==
  \E j \in 1 .. i - 1 :
    /\ events[j].type = "down" /\ mask[j]
    /\ \A k \in j + 1 .. i - 1 : events[k].type # "up" /\ ~mask[k]

\* The events of such a playback, the loops of CullEvents and CountEnabledEvents.
Enabled(events, mask) ==
  {i \in 1 .. Len(events) : Returned(events[i], mask[i], PenIsDown(events, mask, i))}

CountEnabledEvents(events, mask) == Cardinality(Enabled(events, mask))

Replay(events, mask) ==
  LET enabled == Enabled(events, mask)
      nth(n)  == CHOOSE i \in enabled : Cardinality({j \in enabled : j <= i}) = n
  IN [n \in 1 .. CountEnabledEvents(events, mask) |-> events[nth(n)]]

AllEnabled(events) == [i \in 1 .. Len(events) |-> TRUE]

\* EnableEvents and DisableEvents, for the events after the first "begin" up to "end".
SetEvents(mask, begin, end, value) ==
  [i \in DOMAIN mask |-> IF begin < i /\ i <= end THEN value ELSE mask[i]]

ResetPlayback == fIndex' = 0 /\ fPenIsDown' = FALSE

\* ReplayEvents, on and off.
ReplayEventsOn  == fgReplaying' = TRUE /\ ResetPlayback
ReplayEventsOff == fgReplaying' = FALSE /\ UNCHANGED <<fIndex, fPenIsDown>>

\* CullEvents, of the events that the given mask leaves over.  Its iteration
\* has gone to the end.
CullEvents(mask) ==
  LET culled == Replay(fgEvents, mask) IN
    /\ fgEvents' = culled
    /\ fgMask' = AllEnabled(culled)
    /\ fIndex' = Len(fgEvents)
    /\ fPenIsDown' = (culled # <<>> /\ culled[Len(culled)].type = "down")
=============================================================================
