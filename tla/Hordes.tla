-------------------------------- MODULE Hordes --------------------------------
(***************************************************************************)
(* Hordes.cpp, the part of CGremlins.cpp that counts events, and the part   *)
(* of EmSession::ExecuteSpecial that saves and loads states for them: a     *)
(* horde runs a range of Gremlins breadth first, each from the same root    *)
(* state, each suspended after a number of events and resumed later, until  *)
(* it fails or has generated its maximum of events.                         *)
(*                                                                          *)
(* An event is a pair of the Gremlin that generated it and its number.  The *)
(* device is what it has seen of them since the root state was saved, and a *)
(* session file is the device and the state of the Gremlin.                 *)
(***************************************************************************)
EXTENDS Integers, FiniteSets, Sequences

CONSTANTS
  LastGremlin,  \* the Gremlins are numbered from 0
  Infos,        \* the hordes the user starts
  MaxEvents,    \* the events of a Gremlin
  MaxNews,      \* hordes started
  MaxCommands,  \* commands the user gives to a horde
  Commands,     \* which of them
  Faults        \* what goes wrong

Numbers == 0..LastGremlin

ASSUME ConstantsAssumption ==
  /\ LastGremlin \in Nat /\ {MaxEvents, MaxNews, MaxCommands} \subseteq Nat
  /\ Infos \subseteq [fStartNumber: Numbers, fStopNumber: Numbers,
                      fSwitchDepth: Nat \cup {-1}, fMaxDepth: Nat \cup {-1}]
  /\ Commands \subseteq {"stop", "resume", "step", "reset"}
  /\ Faults \subseteq {"error", "debugger", "loadFails"}

VARIABLES
  gGremlinStartNumber, gGremlinStopNumber,   \* the range of the horde
  gSwitchDepth, gMaxDepth,                   \* -1 when there is none
  gCurrentGremlin, gCurrentDepth,
  halted,     \* the Gremlins for which gGremlinHaltedInError says so
  gIsOn,
  gTheGremlin,
  fgEvents,   \* the tape: the events recorded so far
  device,     \* the events that the device has seen
  pending,    \* the fHorde flags of the session
  root,       \* Gremlin_Root_State.psf
  suspended,  \* Gremlin_NNN_Suspended.psf
  eventFile,  \* Gremlin_NNN_Events.pev
  ended,      \* EndHordes was called for this horde
  steered,    \* the user has resumed or stepped it
  hung,       \* NextGremlin does not return
  news, commands

range   == <<gGremlinStartNumber, gGremlinStopNumber>>
depths  == <<gSwitchDepth, gMaxDepth>>
search  == <<gCurrentGremlin, gCurrentDepth, halted>>
gremlin == <<gIsOn, gTheGremlin>>
files   == <<root, suspended, eventFile>>
user    == <<steered, news, commands>>
vars    == <<range, depths, search, gremlin, fgEvents, device, pending, files, ended, hung,
             user>>

-----------------------------------------------------------------------------
Flags == {"saveSuspendState", "loadRootState", "nextFromRootState",
          "nextFromSuspendState"}

Event    == Numbers \X Nat
Gremlins == [number: Numbers, counter: Nat, until: Int, finalUntil: Int, inited: BOOLEAN]
Sessions == [device: Seq(Event), gremlin: Gremlins, on: BOOLEAN]
NoFile   == [none |-> TRUE]

Smaller(a, b) == IF a < b THEN a ELSE b
Larger(a, b)  == IF a > b THEN a ELSE b
Forever(depth) == IF depth = 0 THEN -1 ELSE depth

InSingleGremlinMode == gGremlinStartNumber = gGremlinStopNumber

-----------------------------------------------------------------------------
(* Gremlins::New and Initialize. *)

NewGremlin(number, switch, max) ==
  [number |-> number, counter |-> 0, finalUntil |-> max, inited |-> TRUE,
   until |-> IF max = -1 THEN switch ELSE Smaller(switch, max)]

\* EmSession::Save and Load with Gremlins::Save and Load, where the limit is not kept.
Session(on) == [device |-> device, gremlin |-> gTheGremlin, on |-> on]

Loaded(session) == [session.gremlin EXCEPT !.until = session.gremlin.finalUntil]

SaveEvents == eventFile' = [eventFile EXCEPT ![gCurrentGremlin] = fgEvents]

-----------------------------------------------------------------------------
(* Hordes::New, from the New Gremlin dialog or HostGremlinNew.  The files go to a *)
(* directory of their own; the root state is saved with the Gremlin turned off.   *)

New(info) ==
  LET start  == Smaller(info.fStartNumber, info.fStopNumber)
      stop   == Larger(info.fStartNumber, info.fStopNumber)
      max    == Forever(info.fMaxDepth)
      switch == IF info.fSwitchDepth = -1 \/ start = stop
                THEN max ELSE Forever(info.fSwitchDepth)
      first  == NewGremlin(start, switch, max)
  IN /\ pending = {} /\ ~hung /\ news < MaxNews
     /\ gGremlinStartNumber' = start /\ gGremlinStopNumber' = stop
     /\ gSwitchDepth' = switch /\ gMaxDepth' = max
     /\ gCurrentGremlin' = start /\ gCurrentDepth' = 0 /\ halted' = {}
     /\ gTheGremlin' = first /\ gIsOn' = TRUE
     /\ fgEvents' = <<>> /\ device' = <<>>
     /\ root' = [device |-> <<>>, gremlin |-> first, on |-> FALSE]
     /\ suspended' = [n \in Numbers |-> NoFile] /\ eventFile' = [n \in Numbers |-> <<>>]
     /\ news' = news + 1 /\ ended' = FALSE /\ steered' = FALSE
     /\ UNCHANGED <<pending, hung, commands>>

-----------------------------------------------------------------------------
(* Hordes::NextGremlin. *)

\* Mutant: the range has no end.
ProposedBeyond(k) == [number |-> gCurrentGremlin + k, depth |-> gCurrentDepth]

\* ProposeNextGremlin, the k-th time: round the range, one level deeper each time.
Proposed(k) ==
  LET size == gGremlinStopNumber - gGremlinStartNumber + 1
      i    == gCurrentGremlin - gGremlinStartNumber + k
  IN [number |-> gGremlinStartNumber + (i % size),
      depth  |-> IF gCurrentDepth >= 0 THEN gCurrentDepth + (i \div size) ELSE gCurrentDepth]

\* Mutant: the part of a depth that is left over is not run.
PastMaxDepthEarly(depth) ==
  gMaxDepth # -1 /\ (gSwitchDepth > 0 => depth >= gMaxDepth \div gSwitchDepth)

\* All have reached the maximum.  (With a switch depth of -1 the quotient is negative.)
PastMaxDepth(depth) ==
  gMaxDepth # -1 /\ (gSwitchDepth > 0 => depth * gSwitchDepth >= gMaxDepth)

\* The caller has turned the Gremlin off.  The root state is loaded back, but after a
\* single Gremlin.
EndHordes ==
  /\ ended' = TRUE
  /\ fgEvents' = <<>>
  /\ pending' = IF InSingleGremlinMode THEN {} ELSE {"loadRootState"}

\* Stop, and the first Gremlin in turn that has not halted.  When all have, the search
\* is back at the current one a level deeper; without levels it goes on for ever.
NextGremlin(haltedNow) ==
  LET size == gGremlinStopNumber - gGremlinStartNumber + 1
      Able == {k \in 1..size : Proposed(k).number \notin haltedNow}
      next == Proposed(CHOOSE k \in Able : \A j \in Able : k <= j)
  IN /\ gIsOn' = FALSE
     /\ IF Able = {}
        THEN /\ UNCHANGED <<gCurrentGremlin, gCurrentDepth>>
             /\ hung' = (gCurrentDepth < 0)
             /\ IF hung' THEN UNCHANGED <<ended, fgEvents, pending>> ELSE EndHordes
        ELSE /\ gCurrentGremlin' = next.number /\ gCurrentDepth' = next.depth
             /\ IF PastMaxDepth(next.depth)
                THEN EndHordes
                ELSE /\ pending' = {IF next.depth = 0 THEN "nextFromRootState"
                                                      ELSE "nextFromSuspendState"}
                     /\ UNCHANGED <<ended, fgEvents>>
             /\ UNCHANGED hung

-----------------------------------------------------------------------------
(* The device runs: its application waits for an event in EvtGetEvent, or polls   *)
(* the pen in EvtGetPen, and gets what the Gremlin makes up.                       *)

Running == gIsOn /\ pending = {} /\ ~hung

\* GetFakeEvent (or GetPenMovement) and BumpCounter.
PostEvent ==
  LET event == <<gTheGremlin.number, gTheGremlin.counter>>
      count == gTheGremlin.counter + 1
  IN /\ fgEvents' = Append(fgEvents, event)
     /\ device' = Append(device, event)
     /\ gTheGremlin' = [gTheGremlin EXCEPT !.counter = count]
     /\ pending' = IF gTheGremlin.until > 0 /\ count = gTheGremlin.until
                   THEN {"saveSuspendState"} ELSE {}
     /\ UNCHANGED <<range, depths, search, gIsOn, files, ended, hung, user>>

\* Mutant: the pen may have been polled past the limit.
AtLimitExactly == gTheGremlin.until > 0 /\ gTheGremlin.counter = gTheGremlin.until + 1

AtLimit == gTheGremlin.until > 0 /\ gTheGremlin.counter > gTheGremlin.until

StopEventReached ==
  /\ Running /\ AtLimit
  /\ SaveEvents
  /\ NextGremlin(halted)
  /\ UNCHANGED <<range, depths, halted, gTheGremlin, device, root, suspended, user>>

\* With a limit of zero (after a step without a maximum) GetFakeEvent posts nothing and
\* the counter goes on.
PostFakeEvent ==
  /\ Running /\ ~AtLimit
  /\ gTheGremlin.counter < MaxEvents
  /\ IF gTheGremlin.until = 0 /\ gTheGremlin.counter > 0
     THEN /\ gTheGremlin' = [gTheGremlin EXCEPT !.counter = @ + 1]
          /\ UNCHANGED <<range, depths, search, gIsOn, fgEvents, device, pending, files, ended,
                         hung, user>>
     ELSE PostEvent

\* There is no check of the limit here.
PostFakePenEvent ==
  /\ Running /\ gTheGremlin.counter < MaxEvents
  /\ PostEvent

\* EmExceptionNextGremlin: Hordes::ErrorEncountered.
ErrorEncountered ==
  /\ "error" \in Faults /\ Running
  /\ halted' = halted \cup {gCurrentGremlin}
  /\ SaveEvents
  /\ NextGremlin(halted')
  /\ UNCHANGED <<range, depths, gTheGremlin, device, root, suspended, user>>

\* EmExceptionEnterDebugger.
EnterDebugger ==
  /\ "debugger" \in Faults /\ Running
  /\ SaveEvents
  /\ gIsOn' = FALSE
  /\ UNCHANGED <<range, depths, search, gTheGremlin, fgEvents, device, pending, root,
                 suspended, ended, hung, user>>

-----------------------------------------------------------------------------
(* EmSession::ExecuteSpecial, at the end of the instruction. *)

SaveSuspendedState ==
  /\ "saveSuspendState" \in pending
  /\ pending' = pending \ {"saveSuspendState"}
  /\ suspended' = [suspended EXCEPT ![gCurrentGremlin] = Session(gIsOn)]
  /\ SaveEvents
  /\ UNCHANGED <<range, depths, search, gremlin, fgEvents, device, root, ended, hung, user>>

\* LoadRootState at the end of a horde.
LoadRootState ==
  /\ "loadRootState" \in pending /\ root # NoFile
  /\ pending' = pending \ {"loadRootState"}
  /\ device' = root.device /\ gTheGremlin' = Loaded(root) /\ gIsOn' = root.on
  /\ fgEvents' = <<>>
  /\ UNCHANGED <<range, depths, search, files, ended, hung, user>>

\* The file of the state that a flag asks for, and hordes turned off, when it cannot be
\* loaded.
LoadFails(flag, file) ==
  /\ flag \in pending
  /\ file = NoFile \/ "loadFails" \in Faults
  /\ pending' = pending \ {flag}
  /\ gIsOn' = FALSE
  /\ UNCHANGED <<range, depths, search, gTheGremlin, fgEvents, device, files, ended, hung,
                 user>>

LoadStateFails ==
  \/ LoadFails("loadRootState", root)
  \/ LoadFails("nextFromRootState", root)
  \/ LoadFails("nextFromSuspendState", suspended[gCurrentGremlin])

\* LoadRootState succeeds, and StartGremlinFromLoadedRootState.
NextGremlinFromRootState ==
  /\ "nextFromRootState" \in pending /\ root # NoFile
  /\ pending' = pending \ {"nextFromRootState"}
  /\ device' = root.device
  /\ gTheGremlin' = NewGremlin(gCurrentGremlin, gSwitchDepth, gMaxDepth) /\ gIsOn' = TRUE
  /\ fgEvents' = <<>>
  /\ UNCHANGED <<range, depths, search, files, ended, hung, user>>

\* Mutant: the Gremlin goes on with the tape of the one before.
NextGremlinKeepsTape ==
  LET file  == suspended[gCurrentGremlin]
      until == gSwitchDepth * (gCurrentDepth + 1)
  IN /\ "nextFromSuspendState" \in pending /\ file # NoFile
     /\ pending' = pending \ {"nextFromSuspendState"}
     /\ device' = file.device
     /\ gTheGremlin' =
          [Loaded(file) EXCEPT !.until = IF gMaxDepth = -1 THEN until
                                                           ELSE Smaller(until, gMaxDepth)]
     /\ gIsOn' = TRUE
     /\ UNCHANGED <<range, depths, search, fgEvents, files, ended, hung, user>>

\* Mutant: it goes on for a depth too many.
NextGremlinTooLong ==
  LET file == suspended[gCurrentGremlin] IN
  /\ "nextFromSuspendState" \in pending /\ file # NoFile
  /\ pending' = pending \ {"nextFromSuspendState"}
  /\ device' = file.device
  /\ gTheGremlin' = Loaded(file) /\ gIsOn' = TRUE
  /\ fgEvents' = eventFile[gCurrentGremlin]
  /\ UNCHANGED <<range, depths, search, files, ended, hung, user>>

\* LoadSuspendedState succeeds, and StartGremlinFromLoadedSuspendedState: up to the next
\* depth or to the maximum.
NextGremlinFromSuspendState ==
  LET file  == suspended[gCurrentGremlin]
      until == gSwitchDepth * (gCurrentDepth + 1)
  IN /\ "nextFromSuspendState" \in pending /\ file # NoFile
     /\ pending' = pending \ {"nextFromSuspendState"}
     /\ device' = file.device
     /\ gTheGremlin' =
          [Loaded(file) EXCEPT !.until = IF gMaxDepth = -1 THEN until
                                                           ELSE Smaller(until, gMaxDepth)]
     /\ gIsOn' = TRUE
     /\ fgEvents' = eventFile[gCurrentGremlin]
     /\ UNCHANGED <<range, depths, search, files, ended, hung, user>>

ExecuteSpecial ==
  \/ SaveSuspendedState \/ LoadRootState \/ LoadStateFails
  \/ NextGremlinFromRootState \/ NextGremlinFromSuspendState

-----------------------------------------------------------------------------
(* The Gremlin control window and menu, which are handled when the device is stopped, *)
(* and a reset of the device.                                                         *)

Command(what) ==
  /\ what \in Commands /\ commands < MaxCommands /\ pending = {} /\ ~hung
  /\ commands' = commands + 1

Stop ==
  /\ Command("stop") /\ gIsOn
  /\ gIsOn' = FALSE
  /\ UNCHANGED <<range, depths, search, gTheGremlin, fgEvents, device, pending, files,
                 ended, hung, steered, news>>

\* CanResume and CanStep.
CanGoOn == gTheGremlin.inited /\ ~gIsOn

\* Resume, with RestoreFinalUntil.
Resume ==
  /\ Command("resume") /\ CanGoOn
  /\ gIsOn' = TRUE
  /\ gTheGremlin' = [gTheGremlin EXCEPT !.until = gTheGremlin.finalUntil]
  /\ steered' = TRUE
  /\ UNCHANGED <<range, depths, search, fgEvents, device, pending, files, ended, hung, news>>

\* Step makes the run look like that of a single Gremlin.
Step ==
  /\ Command("step") /\ CanGoOn
  /\ gIsOn' = TRUE
  /\ gCurrentDepth' = gMaxDepth
  /\ gGremlinStartNumber' = gCurrentGremlin /\ gGremlinStopNumber' = gCurrentGremlin
  /\ gTheGremlin' = [gTheGremlin EXCEPT !.until = gTheGremlin.counter + 1]
  /\ steered' = TRUE
  /\ UNCHANGED <<depths, gCurrentGremlin, halted, fgEvents, device, pending, files, ended,
                 hung, news>>

\* EmSession::Reset, with Hordes::Reset.
Reset ==
  /\ Command("reset")
  /\ IF gIsOn THEN SaveEvents ELSE UNCHANGED eventFile
  /\ gIsOn' = FALSE
  /\ gTheGremlin' = [gTheGremlin EXCEPT !.inited = FALSE]
  /\ device' = <<>>
  /\ UNCHANGED <<range, depths, search, fgEvents, pending, root, suspended, ended, hung,
                 steered, news>>

-----------------------------------------------------------------------------
Init ==
  /\ gGremlinStartNumber = 0 /\ gGremlinStopNumber = 0
  /\ gSwitchDepth = 0 /\ gMaxDepth = 0 /\ gCurrentGremlin = 0 /\ gCurrentDepth = 0
  /\ halted = {} /\ gIsOn = FALSE
  /\ gTheGremlin = [number |-> 0, counter |-> 0, until |-> 0, finalUntil |-> 0,
                    inited |-> FALSE]
  /\ fgEvents = <<>> /\ device = <<>> /\ pending = {}
  /\ root = NoFile
  /\ suspended = [n \in Numbers |-> NoFile] /\ eventFile = [n \in Numbers |-> <<>>]
  /\ ended = FALSE /\ steered = FALSE /\ hung = FALSE
  /\ news = 0 /\ commands = 0

Next ==
  \/ \E info \in Infos : New(info)
  \/ StopEventReached \/ PostFakeEvent \/ PostFakePenEvent \/ ErrorEncountered
  \/ EnterDebugger \/ ExecuteSpecial
  \/ Stop \/ Resume \/ Step \/ Reset

\* The instruction ends, and the application asks for events again and again.
Fairness ==
  /\ WF_vars(ExecuteSpecial)
  /\ SF_vars(PostFakeEvent) /\ SF_vars(StopEventReached)

Spec == Init /\ [][Next]_vars /\ Fairness

-----------------------------------------------------------------------------
TypeOK ==
  /\ {gGremlinStartNumber, gGremlinStopNumber} \subseteq Numbers
  /\ gSwitchDepth \in Int /\ gMaxDepth \in Int
  /\ gCurrentGremlin \in gGremlinStartNumber..gGremlinStopNumber
  /\ gCurrentDepth \in Int /\ halted \subseteq Numbers
  /\ gTheGremlin \in Gremlins
  /\ fgEvents \in Seq(Event) /\ device \in Seq(Event)
  /\ pending \subseteq Flags
  /\ root \in Sessions \cup {NoFile}
  /\ suspended \in [Numbers -> Sessions \cup {NoFile}]
  /\ eventFile \in [Numbers -> Seq(Event)]
  /\ {gIsOn, ended, steered, hung} \subseteq BOOLEAN
  /\ news \in Nat /\ commands \in Nat

InRange == gGremlinStartNumber..gGremlinStopNumber

\* The first n events of a Gremlin.
EventsOf(number, n) == [i \in 1..n |-> <<number, i - 1>>]

\* A Gremlin in a horde runs on a device that has seen all of its own events, and
\* none of those of the Gremlins that ran in between.
OwnDevice ==
  gIsOn /\ ~steered =>
    /\ gTheGremlin.number = gCurrentGremlin
    /\ device = EventsOf(gCurrentGremlin, gTheGremlin.counter)

\* Breadth first: a Gremlin that halted in error does not run again, and while one runs at
\* its depth, each of the others that have not halted has been suspended at the last
\* switch before.
BreadthFirst ==
  gIsOn /\ ~steered =>
    /\ gCurrentGremlin \notin halted
    /\ gSwitchDepth > 0 => gTheGremlin.counter >= gSwitchDepth * gCurrentDepth
    /\ gSwitchDepth > 0 => \A n \in InRange \ (halted \cup {gCurrentGremlin}) :
         LET depth == IF n < gCurrentGremlin THEN gCurrentDepth + 1 ELSE gCurrentDepth
             at    == gSwitchDepth * depth
         IN IF depth = 0 THEN suspended[n] = NoFile
            ELSE suspended[n] # NoFile /\
                 suspended[n].gremlin.counter = IF gMaxDepth = -1 THEN at
                                                ELSE Smaller(at, gMaxDepth)

\* A horde is completed when each of its Gremlins has halted in error or has reached
\* the maximum number of events (Docs/_OldNews.txt: "When all Gremlins have been halted
\* ... the Hordes session is completed").
EndsWhenAllHalted ==
  ended /\ ~steered =>
    \A n \in InRange \ halted :
      suspended[n] # NoFile /\ suspended[n].gremlin.counter >= gMaxDepth

\* The tape holds the events that the device has seen and none of another Gremlin.
TapeComplete ==
  LET Events(tape) == {tape[i] : i \in DOMAIN tape} IN
  gIsOn /\ ~steered =>
    /\ Events(device) \subseteq Events(fgEvents)
    /\ \A e \in Events(fgEvents) : e[1] = gCurrentGremlin

\* Gremlins take turns on one device, with one tape: each finds both as it left them.
GremlinsApart == OwnDevice /\ TapeComplete

\* A horde with a maximum comes to an end, or is stopped.
HordeEnds ==
  gMaxDepth # -1 ~> steered \/ (~gIsOn /\ pending = {})
==============================================================================
