---------------------- MODULE EmSessionExclusion_proofs ----------------------
(***************************************************************************)
(* The emulated CPU belongs to one thread at a time, for every value of     *)
(* EmSession's constants under which a stopper never meets a CPU thread     *)
(* that waits for the answer to a dialog (DialogsApart).                    *)
(*                                                                          *)
(* Exclusion is not inductive.  The CPU thread stays in the wait of Run     *)
(* because a request of the stopper's owner stands (Asking) or because      *)
(* fNestLevel says that a nested call is active (Nesting); the owner may    *)
(* only rely on that because fState told it the truth when the stopper was  *)
(* granted (Telling), after nested calls of either thread had saved and     *)
(* restored all three, and because a dialog leads back to an emulation      *)
(* that nobody has stopped (Dialogs).                                       *)
(*                                                                          *)
(* Conservation adds up the requests that the activations of                *)
(* ExecuteSubroutine have saved; what the sum is after a call, a return and *)
(* the fold is in Grown and OnTop.                                          *)
(***************************************************************************)
EXTENDS EmSession_proofs, Recursion_proofs, FiniteSetTheorems

\* What the emulated program does wrong is shown in a dialog, if at all, and then the
\* UI thread stops the session at system calls only.  A stopper granted while the CPU
\* thread waits for the answer to a dialog does not keep it there.
DialogsApart ==
  /\ "nestedError" \notin DeviceEvents
  /\ "error" \in DeviceEvents => "kStopNow" \notin StopMethods

UIInside == {"call", "execute", "special", "return", "fold"}

\* A dialog is up while the CPU thread waits for its answer, or when the session that
\* ends interrupted the wait; no stopper was granted during one.
Dialogs ==
  /\ pc["cpu"] \notin {"drop", "display"}
  /\ pc["ui"] \notin {"unwind", "drop", "caught", "rethrow"}
  /\ pc["cpu"] \in {"error", "blocked", "button"} => "kStopNow" \notin StopMethods
  /\ pc["cpu"] = "blocked" => dialogFor = "error"
  /\ pc["cpu"] \in {"unwind", "caught"} => thrown \in {"debugger", "reset"}
  /\ dialog # "none" => pc["cpu"] = "blocked" \/ fStop
  /\ pc["ui"] = "dialog" => dialog = "shown"
  /\ pc["ui"] = "suspend" => how \in StopMethods
  /\ \A i \in 1..Len(holds): ~holds[i].blocked

\* Each activation of ExecuteSubroutine saved the depth it was called at.
Nesting ==
  /\ \A t \in Threads: \A i \in 1..Len(stack[t]): stack[t][i].nest = i - 1
  /\ fNestLevel = Len(stack["cpu"]) + Len(stack["ui"])

\* The threads take turns: the UI thread calls only under a stopper, and owns a
\* stopper only while the CPU thread waits.
Parking ==
  /\ Calling("cpu") => pc["cpu"] \in CPUInside
  /\ Calling("ui") => holds # <<>>
  /\ holds # <<>> => pc["cpu"] = "wait" /\ pc["ui"] \in UIInside \cup {"idle"}
  /\ fStop => pc["ui"] \in {"destroy", "gone"}
  /\ pc["cpu"] = "done" => fStop

\* fState, and the values of it that CallCPU saved.
Telling ==
  /\ oldRunState = "kRunning"
  /\ pc["cpu"] \notin {"wait", "blocked", "done"} => fState = "kRunning"
  /\ pc["cpu"] = "wait" => fState \in {"kRunning", "kSuspended"}
  /\ pc["cpu"] = "blocked" => fState = "kBlockedOnUI"
  /\ pc["cpu"] = "done" => fState = "kStopped"
  /\ \A i \in 1..Len(stack["cpu"]): stack["cpu"][i].state = "kRunning"
  /\ \A i \in 1..Len(stack["ui"]):
       stack["ui"][i].state = IF i = 1 THEN "kSuspended" ELSE "kRunning"
  /\ Calling("ui") => fState = IF Len(stack["ui"]) = 1 /\ pc["ui"] \in {"call", "fold"}
                               THEN "kSuspended" ELSE "kRunning"
  /\ holds # <<>> /\ ~Calling("ui") => fState = "kSuspended"
  /\ fState = "kSuspended" /\ ~Calling("ui") => Suspended

\* The requests of the UI thread stand, or are saved by the nested call that a
\* thread is in.
Asking ==
  /\ pc["ui"] = "suspend" /\ how = "kStopNow" =>
       \/ fSuspendState.ui >= 1
       \/ \E i \in 1..Len(stack["cpu"]): stack["cpu"][i].counters.ui >= 1
  /\ holds # <<>> => IF Calling("ui") THEN stack["ui"][1].counters.ui >= Len(holds)
                                      ELSE fSuspendState.ui >= Len(holds)

IInv == Dialogs /\ Nesting /\ Parking /\ Telling /\ Asking

-----------------------------------------------------------------------------
\* The emulation loop, and the packets that enter and leave the debugger, neither
\* move a thread out of its place nor touch the requests of the UI thread.
LEMMA SchedulingKeeps ==
  ASSUME TypeOK, IInv, NEW t \in Threads, NEW where, Scheduling(t, where),
         fSuspendState' \in Counters, fSuspendState'.ui = fSuspendState.ui,
         t = "cpu" => pc["cpu"] \in CPUInside /\ where \in CPUInside,
         t = "ui" => \/ {pc["ui"], where} \subseteq {"execute", "special", "return"}
                     \/ pc["ui"] = "idle" /\ where = "idle" /\ holds # <<>>
  PROVE  IInv'
<1>1. /\ pc' = [pc EXCEPT ![t] = where]
      /\ fState' = fState /\ fStop' = fStop /\ fNestLevel' = fNestLevel
      /\ stack' = stack /\ oldRunState' = oldRunState
      /\ UNCHANGED <<dialog, dialogFor, thrown>>
      /\ how' = how /\ holds' = holds
  BY DEF Scheduling, Goto, stacks, dialogs, ui
<1>2. pc \in [Threads -> CPUPlaces \cup UIPlaces]
  BY DEF TypeOK, ControlTyped
<1>3. Calling("ui")' = Calling("ui") /\ Calling("cpu")' = Calling("cpu")
  BY <1>1 DEF Calling
<1>4. Dialogs'
  BY <1>1, <1>2 DEF IInv, Dialogs, Threads, CPUInside, UIInside
<1>5. Nesting'
  BY <1>1 DEF IInv, Nesting
<1>6. Parking'
  BY <1>1, <1>2, <1>3 DEF IInv, Parking, Threads, CPUInside, UIInside
<1>7. fState' = "kSuspended" /\ ~Calling("ui")' => Suspended'
  <2>1. CASE t = "cpu"
    BY <1>1, <2>1 DEF IInv, Telling, CPUInside
  <2>2. CASE t = "ui" /\ holds # <<>>
    BY <1>1, <1>3, <2>2, Holding, Requested DEF IInv, Asking, Suspended
  <2>3. CASE t = "ui" /\ holds = <<>>
    BY <1>1, <1>3, <2>3 DEF IInv, TypeOK, ControlTyped, Parking
  <2>4. QED
    BY <2>1, <2>2, <2>3 DEF Threads
<1>8. Telling'
  BY <1>1, <1>2, <1>3, <1>7 DEF IInv, Telling, Threads, CPUInside
<1>9. Asking'
  BY <1>1, <1>2, <1>3 DEF IInv, Asking, Threads
<1>10. QED
  BY <1>4, <1>5, <1>6, <1>8, <1>9 DEF IInv

\* A call of a ROM routine, by the thread whose turn it is.
LEMMA EnteringKeeps ==
  ASSUME TypeOK, IInv, NEW t \in Threads, NEW next \in Returns(t, Len(stack[t]) + 1),
         Entering(t, next),
         t = "cpu" => pc["cpu"] \in {"execute", "taskInfo"},
         t = "ui" => pc["ui"] = "execute" \/ (pc["ui"] = "idle" /\ holds # <<>>)
  PROVE  IInv'
<1> DEFINE frame == [counters |-> fSuspendState, state |-> fState, nest |-> fNestLevel,
                     next |-> next]
           depth == Len(stack[t])
<1>1. /\ pc' = [pc EXCEPT ![t] = "call"] /\ pc \in [Threads -> CPUPlaces \cup UIPlaces]
      /\ stack' = [stack EXCEPT ![t] = Append(@, frame)]
      /\ fSuspendState' = Zero /\ fNestLevel' = fNestLevel + 1
      /\ fState' = fState /\ fStop' = fStop /\ oldRunState' = oldRunState
      /\ UNCHANGED <<dialog, dialogFor, thrown>> /\ how' = how /\ holds' = holds
  BY DEF Entering, ExecuteSubroutine, Goto, dialogs, ui, TypeOK, ControlTyped
<1>2. frame \in Frames
  BY DEF TypeOK, Frames, Returns
<1>3. /\ frame.nest = fNestLevel /\ frame.state = fState
      /\ frame.counters = fSuspendState
  OBVIOUS
<1> HIDE DEF frame
<1>4. /\ Len(stack'[t]) = depth + 1 /\ Calling(t)'
      /\ \A i \in 1..(depth + 1): stack'[t][i] = IF i = depth + 1 THEN frame ELSE stack[t][i]
      /\ \A s \in Threads: s # t => stack'[s] = stack[s]
  BY <1>1, <1>2, Pushed
<1>5. /\ depth \in Nat
      /\ Calling(t) <=> depth >= 1
      /\ \A s \in Threads: s # t => Calling(s)' = Calling(s)
  BY <1>4, Depths DEF Calling
<1>6. \A s \in Threads: s # t => ~Calling(s) /\ Len(stack[s]) = 0
  <2>1. \A s \in Threads: s # t => ~Calling(s)
    BY DEF IInv, Parking, TypeOK, ControlTyped, Threads, CPUInside
  <2>2. QED
    BY <2>1, Depths
<1>7. fNestLevel = depth
  <2>1. fNestLevel = Len(stack["cpu"]) + Len(stack["ui"])
    BY DEF IInv, Nesting
  <2>2. \A n \in Nat: n + 0 = n /\ 0 + n = n
    OBVIOUS
  <2>3. CASE t = "cpu"
    <3>1. Len(stack["ui"]) = 0
      BY <1>6, <2>3 DEF Threads
    <3>2. QED
      BY <1>5, <2>1, <2>2, <2>3, <3>1, Zenon
  <2>4. CASE t = "ui"
    <3>1. Len(stack["cpu"]) = 0
      BY <1>6, <2>4 DEF Threads
    <3>2. QED
      BY <1>5, <2>1, <2>2, <2>4, <3>1, Zenon
  <2>5. QED
    BY <2>3, <2>4 DEF Threads
<1>8. \A i \in 1..(depth + 1): i = depth + 1 \/ i \in 1..depth
  BY <1>5
<1>9. Dialogs'
  BY <1>1 DEF IInv, Dialogs, Threads, CPUInside, UIInside
<1>10. Nesting'
  <2>1. \A i \in 1..Len(stack'[t]): stack'[t][i].nest = i - 1
    <3> SUFFICES ASSUME NEW i \in 1..(depth + 1) PROVE stack'[t][i].nest = i - 1
      BY <1>4
    <3>1. CASE i = depth + 1
      BY <1>3, <1>4, <1>5, <1>7, <3>1
    <3>2. CASE i \in 1..depth
      <4>1. i # depth + 1
        BY <1>5, <3>2
      <4>2. QED
        BY <1>4, <3>2, <4>1 DEF IInv, Nesting
    <3>3. QED
      BY <1>8, <3>1, <3>2
  <2>2. fNestLevel' = Len(stack'["cpu"]) + Len(stack'["ui"])
    <3>1. \A s \in Threads: s # t => Len(stack'[s]) = 0
      BY <1>4, <1>6
    <3>2. fNestLevel' = Len(stack'[t])
      BY <1>1, <1>4, <1>7
    <3>3. Len(stack'[t]) \in Nat
      BY <1>4, <1>5
    <3>4. \A n \in Nat: n + 0 = n /\ 0 + n = n
      OBVIOUS
    <3>5. CASE t = "cpu"
      <4>1. Len(stack'["ui"]) = 0
        BY <3>1, <3>5 DEF Threads
      <4>2. QED
        BY <3>2, <3>3, <3>4, <3>5, <4>1, Zenon
    <3>6. CASE t = "ui"
      <4>1. Len(stack'["cpu"]) = 0
        BY <3>1, <3>6 DEF Threads
      <4>2. QED
        BY <3>2, <3>3, <3>4, <3>6, <4>1, Zenon
    <3>7. QED
      BY <3>5, <3>6 DEF Threads
  <2>3. QED
    BY <1>4, <2>1, <2>2 DEF IInv, Nesting
<1>11. Parking'
  BY <1>1, <1>4, <1>5, <1>6 DEF IInv, Parking, Threads, CPUInside, UIInside, TypeOK, ControlTyped
<1>12. Telling'
  <2>1. CASE t = "cpu"
    BY <1>1, <1>3, <1>4, <1>5, <1>6, <1>8, <2>1 DEF IInv, Telling, Threads, CPUInside
  <2>2. CASE t = "ui"
    <3>1. fState = IF depth = 0 THEN "kSuspended" ELSE "kRunning"
      BY <1>5, <2>2 DEF IInv, Telling, TypeOK, ControlTyped
    <3>2. QED
      BY <1>1, <1>3, <1>4, <1>5, <1>6, <1>8, <2>2, <3>1
         DEF IInv, Telling, Threads, CPUInside
  <2>3. QED
    BY <2>1, <2>2 DEF Threads
<1>13. Asking'
  <2>1. CASE t = "cpu"
    <3>1. holds = <<>>
      BY <2>1 DEF IInv, Parking, CPUInside
    <3>2. ASSUME pc["ui"] = "suspend", how = "kStopNow"
          PROVE  \E i \in 1..(depth + 1): stack'[t][i].counters.ui >= 1
      <4>1. CASE fSuspendState.ui >= 1
        <5>1. depth + 1 \in 1..(depth + 1)
          BY <1>5
        <5>2. QED
          BY <1>3, <1>4, <4>1, <5>1
      <4>2. CASE \E i \in 1..depth: stack[t][i].counters.ui >= 1
        <5>1. PICK i \in 1..depth: stack[t][i].counters.ui >= 1
          BY <4>2
        <5>2. i \in 1..(depth + 1) /\ i # depth + 1
          BY <1>5, <5>1
        <5>3. QED
          BY <1>4, <5>1, <5>2
      <4>3. QED
        BY <2>1, <3>2, <4>1, <4>2 DEF IInv, Asking
    <3>3. QED
      BY <1>1, <1>4, <2>1, <3>1, <3>2 DEF Asking
  <2>2. CASE t = "ui"
    <3>1. pc["ui"] # "suspend" /\ pc'["ui"] = "call" /\ Calling("ui")'
      BY <1>1, <1>4, <2>2
    <3>2. stack'[t][1].counters.ui >= Len(holds)
      <4>0. holds # <<>>
        BY <2>2 DEF IInv, Parking, TypeOK, ControlTyped
      <4>1. CASE depth = 0
        BY <1>3, <1>4, <1>5, <2>2, <4>0, <4>1 DEF IInv, Asking
      <4>2. CASE depth >= 1
        <5>1. 1 \in 1..(depth + 1) /\ 1 # depth + 1
          BY <1>5, <4>2
        <5>2. QED
          BY <1>4, <1>5, <2>2, <4>0, <4>2, <5>1 DEF IInv, Asking
      <4>3. QED
        BY <1>5, <4>1, <4>2
    <3>3. QED
      BY <1>1, <2>2, <3>1, <3>2 DEF Asking
  <2>3. QED
    BY <2>1, <2>2 DEF Threads
<1>14. QED
  BY <1>9, <1>10, <1>11, <1>12, <1>13 DEF IInv


\* While a thread is inside, the other one has no call of its own.
LEMMA Turns ==
  ASSUME TypeOK, IInv, NEW t \in Threads,
         pc[t] \in CPUInside
  PROVE  /\ \A s \in Threads: s # t => ~Calling(s) /\ Len(stack[s]) = 0
         /\ t = "ui" => Calling("ui") /\ holds # <<>> /\ pc["cpu"] = "wait"
         /\ t = "cpu" => holds = <<>> /\ fState = "kRunning"
         /\ fNestLevel = Len(stack[t])
<1>1. t = "ui" => Calling("ui") /\ holds # <<>> /\ pc["cpu"] = "wait"
  BY DEF TypeOK, ControlTyped, Places, UIPlaces, IInv, Parking, CPUInside
<1>2. t = "cpu" => holds = <<>> /\ fState = "kRunning"
  BY DEF IInv, Parking, Telling, CPUInside
<1>3. \A s \in Threads: s # t => ~Calling(s)
  BY <1>1, <1>2 DEF IInv, Parking, Threads, CPUInside
<1>4. \A s \in Threads: s # t => ~Calling(s) /\ Len(stack[s]) = 0
  BY <1>3, Depths
<1>5. fNestLevel = Len(stack[t])
  <2>1. fNestLevel = Len(stack["cpu"]) + Len(stack["ui"]) /\ Len(stack[t]) \in Nat
    BY Depths DEF IInv, Nesting
  <2>2. \A n \in Nat: n + 0 = n /\ 0 + n = n
    OBVIOUS
  <2>3. CASE t = "cpu"
    <3>1. Len(stack["ui"]) = 0
      BY <1>4, <2>3 DEF Threads
    <3>2. QED
      BY <2>1, <2>2, <2>3, <3>1, Zenon
  <2>4. CASE t = "ui"
    <3>1. Len(stack["cpu"]) = 0
      BY <1>4, <2>4 DEF Threads
    <3>2. QED
      BY <2>1, <2>2, <2>4, <3>1, Zenon
  <2>5. QED
    BY <2>3, <2>4 DEF Threads
<1>6. QED
  BY <1>1, <1>2, <1>4, <1>5

\* CallCPU saves fState and says that the session runs.
LEMMA CallCPUKeeps ==
  ASSUME TypeOK, IInv, NEW t \in Threads, CallCPU(t)
  PROVE  IInv'
<1> DEFINE depth == Len(stack[t])
           frame == [Last(stack[t]) EXCEPT !.state = fState]
<1>1. /\ pc[t] = "call" /\ pc' = [pc EXCEPT ![t] = "execute"]
      /\ pc \in [Threads -> CPUPlaces \cup UIPlaces]
      /\ fState' = "kRunning" /\ fSuspendState' = fSuspendState
      /\ fStop' = fStop /\ fNestLevel' = fNestLevel
      /\ UNCHANGED <<dialog, dialogFor, thrown>> /\ how' = how /\ holds' = holds
  BY DEF CallCPU, Goto, dialogs, ui, TypeOK, ControlTyped
<1>2. /\ \A s \in Threads: s # t => ~Calling(s) /\ Len(stack[s]) = 0
      /\ t = "ui" => Calling("ui") /\ holds # <<>> /\ pc["cpu"] = "wait"
      /\ t = "cpu" => holds = <<>> /\ fState = "kRunning"
  BY <1>1, Turns DEF CPUInside
<1>3. depth \in Nat /\ (Calling(t) <=> depth >= 1)
  BY Depths
<1>4. Dialogs'
  BY <1>1 DEF IInv, Dialogs, Threads, CPUInside, UIInside
<1>5. CASE ~Calling(t)
  <2>1. t = "cpu"
    BY <1>2, <1>5 DEF Threads
  <2>2. stack' = stack /\ oldRunState' = "kRunning"
    BY <1>2, <1>5, <2>1 DEF CallCPU
  <2>3. \A s \in Threads: Calling(s)' = Calling(s)
    BY <2>2 DEF Calling
  <2>4. Nesting' /\ Asking'
    BY <1>1, <1>2, <2>1, <2>2, <2>3 DEF IInv, Nesting, Asking, Threads
  <2>5. Parking'
    BY <1>1, <1>2, <2>1, <2>2, <2>3 DEF IInv, Parking, Threads, CPUInside
  <2>6. Telling'
    BY <1>1, <1>2, <2>1, <2>2, <2>3 DEF IInv, Telling, Threads, CPUInside
  <2>7. QED
    BY <1>4, <2>4, <2>5, <2>6 DEF IInv
<1>6. CASE Calling(t)
  <2>1. Last(stack[t]) = stack[t][depth] /\ depth \in 1..depth /\ Last(stack[t]) \in Frames
    BY <1>3, <1>6, Depths
  <2>2. /\ frame \in Frames /\ frame.state = fState
        /\ frame.next = Last(stack[t]).next /\ frame.nest = stack[t][depth].nest
        /\ frame.counters = stack[t][depth].counters
    BY <2>1 DEF TypeOK, Frames
  <2>3. /\ stack' = [stack EXCEPT ![t] = [@ EXCEPT ![Len(stack[t])] = frame]]
        /\ oldRunState' = oldRunState
    BY <1>6 DEF CallCPU, Last
  <2> HIDE DEF frame
  <2>4. /\ Len(stack'[t]) = depth /\ Calling(t)'
        /\ \A i \in 1..depth: stack'[t][i] = IF i = depth THEN frame ELSE stack[t][i]
        /\ \A s \in Threads: s # t => stack'[s] = stack[s]
    BY <1>6, <2>2, <2>3, Replaced
  <2>5. /\ \A s \in Threads: Calling(s)' = Calling(s) /\ Len(stack'[s]) = Len(stack[s])
        /\ \A s \in Threads: \A i \in 1..Len(stack[s]):
             /\ stack'[s][i].nest = stack[s][i].nest
             /\ stack'[s][i].counters = stack[s][i].counters
    BY <1>6, <2>2, <2>4 DEF Calling
  <2>6. Nesting'
    BY <1>1, <2>5 DEF IInv, Nesting, Threads
  <2>7. Parking'
    BY <1>1, <1>2, <2>5 DEF IInv, Parking, Threads, CPUInside, UIInside
  <2>8. Telling'
    <3>1. CASE t = "cpu"
      BY <1>1, <1>2, <2>2, <2>3, <2>4, <2>5, <3>1 DEF IInv, Telling, Threads, CPUInside
    <3>2. CASE t = "ui"
      <4>1. fState = IF depth = 1 THEN "kSuspended" ELSE "kRunning"
        BY <1>1, <1>6, <3>2 DEF IInv, Telling
      <4>2. \A i \in 1..depth:
              stack'[t][i].state = IF i = 1 THEN "kSuspended" ELSE "kRunning"
        <5> SUFFICES ASSUME NEW i \in 1..depth
                     PROVE  stack'[t][i].state = IF i = 1 THEN "kSuspended" ELSE "kRunning"
          OBVIOUS
        <5>1. CASE i = depth
          BY <2>2, <2>4, <4>1, <5>1
        <5>2. CASE i # depth
          <6>1. stack'[t][i] = stack["ui"][i] /\ i \in 1..Len(stack["ui"])
            BY <2>4, <3>2, <5>2
          <6>2. QED
            BY <6>1 DEF IInv, Telling
        <5>3. QED
          BY <5>1, <5>2
      <4>3. QED
        BY <1>1, <1>2, <2>3, <2>4, <2>5, <3>2, <4>2 DEF IInv, Telling, Threads, CPUInside
    <3>3. QED
      BY <3>1, <3>2 DEF Threads
  <2>9. Asking'
    <3>1. 1 \in 1..depth
      BY <2>1, <1>3, <1>6
    <3>2. CASE t = "cpu"
      BY <1>1, <1>2, <2>5, <3>2 DEF IInv, Asking, Threads
    <3>3. CASE t = "ui"
      BY <1>1, <1>2, <2>5, <3>1, <3>3 DEF IInv, Asking, Threads
    <3>4. QED
      BY <3>2, <3>3 DEF Threads
  <2>10. QED
    BY <1>4, <2>6, <2>7, <2>8, <2>9 DEF IInv
<1>7. QED
  BY <1>5, <1>6

\* CallCPU restores fState: kRunning, unless the outermost call of the UI thread ends.
LEMMA CallCPUReturnsKeeps ==
  ASSUME TypeOK, IInv, NEW t \in Threads, CallCPUReturns(t)
  PROVE  IInv'
<1>1. /\ pc[t] = "return" /\ pc' = [pc EXCEPT ![t] = IF Calling(t) THEN "fold" ELSE "top"]
      /\ pc \in [Threads -> CPUPlaces \cup UIPlaces]
      /\ fState' = SavedState(t) /\ fSuspendState' = fSuspendState
      /\ fStop' = fStop /\ fNestLevel' = fNestLevel
      /\ stack' = stack /\ oldRunState' = oldRunState
      /\ UNCHANGED <<dialog, dialogFor, thrown>> /\ how' = how /\ holds' = holds
  BY DEF CallCPUReturns, Goto, stacks, dialogs, ui, TypeOK, ControlTyped
<1>2. /\ \A s \in Threads: s # t => ~Calling(s)
      /\ t = "ui" => Calling("ui") /\ holds # <<>> /\ pc["cpu"] = "wait"
      /\ t = "cpu" => holds = <<>> /\ fState = "kRunning"
  BY <1>1, Turns DEF CPUInside
<1>3. \A s \in Threads: Calling(s)' = Calling(s)
  BY <1>1 DEF Calling
<1>4. fState' = IF t = "ui" /\ Len(stack["ui"]) = 1 THEN "kSuspended" ELSE "kRunning"
  <2>1. CASE Calling(t)
    <3>1. Last(stack[t]) = stack[t][Len(stack[t])] /\ Len(stack[t]) \in 1..Len(stack[t])
      BY <2>1, Depths
    <3>2. fState' = stack[t][Len(stack[t])].state
      BY <1>1, <2>1, <3>1 DEF SavedState
    <3>3. CASE t = "cpu"
      BY <3>1, <3>2, <3>3 DEF IInv, Telling
    <3>4. CASE t = "ui"
      BY <3>1, <3>2, <3>4 DEF IInv, Telling
    <3>5. QED
      BY <3>3, <3>4 DEF Threads
  <2>2. CASE ~Calling(t)
    BY <1>1, <1>2, <2>2 DEF SavedState, IInv, Telling, Threads
  <2>3. QED
    BY <2>1, <2>2
<1>5. Dialogs'
  BY <1>1, <1>2 DEF IInv, Dialogs, Threads, CPUInside, UIInside
<1>6. Nesting' /\ Asking'
  BY <1>1, <1>2, <1>3 DEF IInv, Nesting, Asking, Threads
<1>7. Parking'
  BY <1>1, <1>2, <1>3 DEF IInv, Parking, Threads, CPUInside, UIInside
<1>8. Telling'
  BY <1>1, <1>2, <1>3, <1>4 DEF IInv, Telling, Threads, CPUInside
<1>9. QED
  BY <1>5, <1>6, <1>7, <1>8 DEF IInv


\* What the fold of ExecuteSubroutine does to the requests of the UI thread.
LEMMA FoldedRequests ==
  ASSUME NEW saved \in Counters, NEW now \in Counters
  PROVE  /\ Folded(saved, now) \in Counters
         /\ [Folded(saved, now) EXCEPT !.external = IF @ < 0 THEN 0 ELSE @] \in Counters
         /\ Folded(saved, now).ui = saved.ui + now.ui
         /\ [Folded(saved, now) EXCEPT !.external = IF @ < 0 THEN 0 ELSE @].ui
              = saved.ui + now.ui
         /\ saved.ui \in Nat /\ now.ui \in Nat
<1>1. /\ Folded(saved, now) \in Counters
      /\ [Folded(saved, now) EXCEPT !.external = IF @ < 0 THEN 0 ELSE @] \in Counters
  BY CountersTyped
<1>2. Folded(saved, now).ui = saved.ui + now.ui
  BY DEF Folded, Counters
<1>3. [Folded(saved, now) EXCEPT !.external = IF @ < 0 THEN 0 ELSE @].ui
        = Folded(saved, now).ui
  BY <1>1 DEF Counters
<1>4. QED
  BY <1>1, <1>2, <1>3, Requested

\* ExecuteSubroutine folds the reasons into the saved ones and goes round its loop ...
LEMMA LoopKeeps ==
  ASSUME TypeOK, IInv, NEW t \in Threads, AfterCallCPU(t), Standing(fSuspendState) = Zero
  PROVE  IInv'
<1> DEFINE depth == Len(stack[t])
           last  == Last(stack[t])
           saved == Folded(last.counters, fSuspendState)
           frame == [last EXCEPT !.counters = saved]
<1>1. /\ pc[t] = "fold" /\ pc' = [pc EXCEPT ![t] = "call"]
      /\ pc \in [Threads -> CPUPlaces \cup UIPlaces]
      /\ stack' = [stack EXCEPT ![t] = [@ EXCEPT ![depth] = frame]]
      /\ fSuspendState' = Zero /\ fNestLevel' = last.nest + 1
      /\ fState' = fState /\ fStop' = fStop /\ oldRunState' = oldRunState
      /\ UNCHANGED <<dialog, dialogFor, thrown>> /\ how' = how /\ holds' = holds
  BY DEF AfterCallCPU, Last, Goto, dialogs, ui, TypeOK, ControlTyped
<1>2. /\ \A s \in Threads: s # t => ~Calling(s) /\ Len(stack[s]) = 0
      /\ t = "ui" => holds # <<>> /\ pc["cpu"] = "wait"
      /\ t = "cpu" => holds = <<>> /\ fState = "kRunning"
      /\ fNestLevel = depth
  BY <1>1, Turns DEF CPUInside
<1>3. Calling(t)
  BY <1>1 DEF TypeOK, ControlTyped, Threads
<1>4. depth \in Nat /\ depth >= 1 /\ last = stack[t][depth] /\ depth \in 1..depth
  BY <1>3, Depths
<1>5. last \in Frames /\ last.counters \in Counters /\ last.nest = depth - 1
  BY <1>4, Depths DEF Frames, IInv, Nesting
<1>6. saved \in Counters /\ saved.ui = last.counters.ui + fSuspendState.ui
      /\ last.counters.ui \in Nat /\ fSuspendState.ui \in Nat
  BY <1>5, FoldedRequests DEF TypeOK
<1> HIDE DEF saved
<1>7. /\ frame \in Frames /\ frame.next = last.next /\ frame.nest = last.nest
      /\ frame.state = last.state /\ frame.counters = saved
  BY <1>5, <1>6 DEF Frames
<1> HIDE DEF frame
<1>8. /\ Len(stack'[t]) = depth /\ Calling(t)'
      /\ \A i \in 1..depth: stack'[t][i] = IF i = depth THEN frame ELSE stack[t][i]
      /\ \A s \in Threads: s # t => stack'[s] = stack[s]
  BY <1>1, <1>3, <1>7, Replaced
<1>9. /\ \A s \in Threads: Calling(s)' = Calling(s) /\ Len(stack'[s]) = Len(stack[s])
      /\ \A s \in Threads: \A i \in 1..Len(stack[s]):
           stack'[s][i].nest = stack[s][i].nest /\ stack'[s][i].state = stack[s][i].state
  BY <1>3, <1>4, <1>7, <1>8 DEF Calling
<1>10. fNestLevel' = fNestLevel
  BY <1>1, <1>2, <1>4, <1>5
<1>11. Dialogs'
  BY <1>1 DEF IInv, Dialogs, Threads, CPUInside, UIInside
<1>12. Nesting'
  BY <1>9, <1>10 DEF IInv, Nesting, Threads
<1>13. Parking'
  BY <1>1, <1>2, <1>9 DEF IInv, Parking, Threads, CPUInside, UIInside
<1>14. Telling'
  <2>1. CASE t = "cpu"
    BY <1>1, <1>2, <1>9, <2>1 DEF IInv, Telling, Threads, CPUInside
  <2>2. CASE t = "ui"
    BY <1>1, <1>2, <1>3, <1>9, <2>2 DEF IInv, Telling, Threads, CPUInside
  <2>3. QED
    BY <2>1, <2>2 DEF Threads
<1>15. Asking'
  <2>1. CASE t = "cpu"
    <3>1. ASSUME pc["ui"] = "suspend", how = "kStopNow"
          PROVE  \E i \in 1..depth: stack'[t][i].counters.ui >= 1
      <4>1. CASE fSuspendState.ui >= 1
        BY <1>4, <1>6, <1>7, <1>8, <4>1
      <4>2. CASE \E i \in 1..depth: stack[t][i].counters.ui >= 1
        <5>1. PICK i \in 1..depth: stack[t][i].counters.ui >= 1
          BY <4>2
        <5>2. CASE i = depth
          BY <1>4, <1>6, <1>7, <1>8, <5>1, <5>2
        <5>3. CASE i # depth
          BY <1>8, <5>1, <5>3
        <5>4. QED
          BY <5>2, <5>3
      <4>3. QED
        BY <2>1, <3>1, <4>1, <4>2 DEF IInv, Asking
    <3>2. QED
      BY <1>1, <1>2, <1>8, <2>1, <3>1 DEF Asking
  <2>2. CASE t = "ui"
    <3>1. stack[t][1].counters.ui >= Len(holds) /\ Len(holds) \in Nat
      BY <1>2, <1>3, <2>2, Holding DEF IInv, Asking
    <3>2. stack'[t][1].counters.ui >= Len(holds)
      <4>1. CASE depth = 1
        <5>1. stack'[t][1] = frame /\ last = stack[t][1]
          BY <1>4, <1>8, <4>1
        <5>2. saved.ui >= Len(holds)
          BY <1>6, <3>1, <5>1
        <5>3. QED
          BY <1>7, <5>1, <5>2
      <4>2. CASE depth # 1
        <5>1. 1 \in 1..depth
          BY <1>4
        <5>2. stack'[t][1] = stack[t][1]
          BY <1>8, <4>2, <5>1
        <5>3. QED
          BY <3>1, <5>2
      <4>3. QED
        BY <4>1, <4>2
    <3>3. QED
      BY <1>1, <1>8, <2>2, <3>2 DEF Asking, TypeOK, ControlTyped
  <2>3. QED
    BY <2>1, <2>2 DEF Threads
<1>16. QED
  BY <1>11, <1>12, <1>13, <1>14, <1>15 DEF IInv

\* ... or returns them to the activation below.
LEMMA ReturnKeeps ==
  ASSUME TypeOK, IInv, NEW t \in Threads, AfterCallCPU(t), Standing(fSuspendState) # Zero
  PROVE  IInv'
<1> DEFINE depth  == Len(stack[t])
           last   == Last(stack[t])
           saved  == Folded(last.counters, fSuspendState)
           capped == [saved EXCEPT !.external = IF @ < 0 THEN 0 ELSE @]
<1>1. /\ pc[t] = "fold" /\ pc' = [pc EXCEPT ![t] = last.next]
      /\ pc \in [Threads -> CPUPlaces \cup UIPlaces]
      /\ stack' = [stack EXCEPT ![t] = Front(@)]
      /\ fSuspendState' = capped /\ fNestLevel' = last.nest
      /\ fState' = fState /\ fStop' = fStop /\ oldRunState' = oldRunState
      /\ UNCHANGED <<dialog, dialogFor, thrown>> /\ how' = how /\ holds' = holds
  BY DEF AfterCallCPU, Goto, dialogs, ui, TypeOK, ControlTyped
<1>2. /\ \A s \in Threads: s # t => ~Calling(s) /\ Len(stack[s]) = 0
      /\ t = "ui" => holds # <<>> /\ pc["cpu"] = "wait"
      /\ t = "cpu" => holds = <<>> /\ fState = "kRunning"
      /\ fNestLevel = depth
  BY <1>1, Turns DEF CPUInside
<1>3. Calling(t)
  BY <1>1 DEF TypeOK, ControlTyped, Threads
<1>4. depth \in Nat /\ depth >= 1 /\ last = stack[t][depth] /\ depth \in 1..depth
  BY <1>3, Depths
<1>5. /\ last \in Frames /\ last.counters \in Counters /\ last.nest = depth - 1
      /\ last.next \in Returns(t, depth)
  BY <1>4, Depths DEF Frames, IInv, Nesting, TypeOK, StacksTyped
<1>6. /\ capped \in Counters /\ capped.ui = last.counters.ui + fSuspendState.ui
      /\ last.counters.ui \in Nat /\ fSuspendState.ui \in Nat
  BY <1>5, FoldedRequests DEF TypeOK
<1> HIDE DEF saved, capped
<1>7. /\ Len(stack'[t]) = depth - 1
      /\ Calling(t)' <=> depth > 1
      /\ \A i \in 1..(depth - 1): stack'[t][i] = stack[t][i]
      /\ \A s \in Threads: s # t => stack'[s] = stack[s]
  BY <1>1, <1>3, Popped
<1>8. \A s \in Threads: s # t => ~Calling(s)' /\ Len(stack'[s]) = 0
  BY <1>2, <1>7 DEF Calling
<1>9. /\ t = "cpu" => last.next \in {"execute", "taskInfo"}
      /\ t = "ui" => last.next = IF depth = 1 THEN "idle" ELSE "execute"
  BY <1>5 DEF Returns
<1>10. \A i \in 1..(depth - 1): i \in 1..depth /\ stack'[t][i] = stack[t][i]
  BY <1>4, <1>7
<1>11. Dialogs'
  BY <1>1, <1>9 DEF IInv, Dialogs, Threads, CPUInside, UIInside
<1>12. Nesting'
  <2>1. \A i \in 1..Len(stack'[t]): stack'[t][i].nest = i - 1
    BY <1>7, <1>10 DEF IInv, Nesting
  <2>2. fNestLevel' = Len(stack'[t]) /\ fNestLevel' \in Nat
    BY <1>1, <1>4, <1>5, <1>7
  <2>3. \A n \in Nat: n + 0 = n /\ 0 + n = n
    OBVIOUS
  <2>4. fNestLevel' = Len(stack'["cpu"]) + Len(stack'["ui"])
    <3>1. CASE t = "cpu"
      <4>1. Len(stack'["ui"]) = 0
        BY <1>8, <3>1 DEF Threads
      <4>2. QED
        BY <2>2, <2>3, <3>1, <4>1, Zenon
    <3>2. CASE t = "ui"
      <4>1. Len(stack'["cpu"]) = 0
        BY <1>8, <3>2 DEF Threads
      <4>2. QED
        BY <2>2, <2>3, <3>2, <4>1, Zenon
    <3>3. QED
      BY <3>1, <3>2 DEF Threads
  <2>5. QED
    BY <1>7, <2>1, <2>4 DEF IInv, Nesting
<1>13. Parking'
  BY <1>1, <1>2, <1>8, <1>9 DEF IInv, Parking, Threads, CPUInside, UIInside
<1>14. Asking'
  <2>1. CASE t = "cpu"
    <3>1. ASSUME pc["ui"] = "suspend", how = "kStopNow"
          PROVE  \/ capped.ui >= 1
                 \/ \E i \in 1..(depth - 1): stack'[t][i].counters.ui >= 1
      <4>1. CASE fSuspendState.ui >= 1
        BY <1>6, <4>1
      <4>2. CASE \E i \in 1..depth: stack[t][i].counters.ui >= 1
        <5>1. PICK i \in 1..depth: stack[t][i].counters.ui >= 1
          BY <4>2
        <5>2. CASE i = depth
          BY <1>4, <1>6, <5>1, <5>2
        <5>3. CASE i # depth
          <6>1. i \in 1..(depth - 1)
            BY <1>4, <5>3
          <6>2. QED
            BY <1>10, <5>1, <6>1
        <5>4. QED
          BY <5>2, <5>3
      <4>3. QED
        BY <2>1, <3>1, <4>1, <4>2 DEF IInv, Asking
    <3>2. QED
      BY <1>1, <1>2, <1>7, <2>1, <3>1 DEF Asking
  <2>2. CASE t = "ui"
    <3>1. stack[t][1].counters.ui >= Len(holds) /\ Len(holds) \in Nat
      BY <1>2, <1>3, <2>2, Holding DEF IInv, Asking
    <3>2. pc'["ui"] # "suspend"
      BY <1>1, <1>9, <2>2
    <3>3. CASE depth = 1
      <4>1. fSuspendState'.ui >= Len(holds) /\ ~Calling(t)'
        BY <1>1, <1>4, <1>6, <1>7, <3>1, <3>3
      <4>2. QED
        BY <1>1, <2>2, <3>2, <4>1 DEF Asking
    <3>4. CASE depth # 1
      <4>1. 1 \in 1..(depth - 1) /\ depth > 1
        <5>1. \A n \in Nat: n >= 1 /\ n # 1 => 1 \in 1..(n - 1) /\ n > 1
          OBVIOUS
        <5>2. QED
          BY <1>4, <3>4, <5>1, Zenon
      <4>2. stack'[t][1].counters.ui >= Len(holds) /\ Calling(t)'
        BY <1>7, <1>10, <3>1, <4>1
      <4>3. QED
        BY <1>1, <2>2, <3>2, <4>2 DEF Asking
    <3>5. QED
      BY <3>3, <3>4
  <2>3. QED
    BY <2>1, <2>2 DEF Threads
<1>15. Telling'
  <2>1. CASE t = "cpu"
    BY <1>1, <1>2, <1>7, <1>8, <1>9, <1>10, <2>1 DEF IInv, Telling, Threads, CPUInside
  <2>2. CASE t = "ui"
    <3>1. fState = IF depth = 1 THEN "kSuspended" ELSE "kRunning"
      BY <1>1, <1>3, <2>2 DEF IInv, Telling
    <3>2. depth > 1 <=> depth # 1
      <4>1. \A n \in Nat: n >= 1 => (n > 1 <=> n # 1)
        OBVIOUS
      <4>2. QED
        BY <1>4, <4>1, Zenon
    <3>3. \A i \in 1..(depth - 1):
            stack'[t][i].state = IF i = 1 THEN "kSuspended" ELSE "kRunning"
      BY <1>10, <2>2 DEF IInv, Telling
    <3>4. ~Calling("ui")' => Suspended'
      <4>1. ASSUME ~Calling("ui")' PROVE fSuspendState'.ui >= 1
        <5>1. fSuspendState'.ui >= Len(holds)
          BY <1>1, <1>2, <1>14, <2>2, <4>1 DEF Asking
        <5>2. fSuspendState'.ui \in Nat
          BY <1>1, <1>6
        <5>3. Len(holds) \in Nat /\ Len(holds) >= 1
          BY <1>2, <2>2, Holding
        <5>4. QED
          BY <5>1, <5>2, <5>3
      <4>2. QED
        BY <1>1, <1>6, <4>1, Requested DEF Suspended
    <3>5. QED
      BY <1>1, <1>2, <1>7, <1>8, <1>9, <2>2, <3>1, <3>2, <3>3, <3>4
         DEF IInv, Telling, Threads, CPUInside
  <2>3. QED
    BY <2>1, <2>2 DEF Threads
<1>16. QED
  BY <1>11, <1>12, <1>13, <1>14, <1>15 DEF IInv


\* Outside of nested calls the stacks are empty.
LEMMA NotNested ==
  ASSUME TypeOK, IInv, ~IsNested
  PROVE  ~Calling("cpu") /\ ~Calling("ui") /\ Len(stack["cpu"]) = 0 /\ Len(stack["ui"]) = 0
<1>1. /\ Len(stack["cpu"]) \in Nat /\ Len(stack["ui"]) \in Nat
      /\ Calling("cpu") <=> Len(stack["cpu"]) >= 1
      /\ Calling("ui") <=> Len(stack["ui"]) >= 1
  BY Depths DEF Threads
<1>2. fNestLevel = Len(stack["cpu"]) + Len(stack["ui"])
  BY DEF IInv, Nesting
<1>3. \A m, n \in Nat: ~(m + n > 0) => m = 0 /\ n = 0 /\ ~(m >= 1) /\ ~(n >= 1)
  OBVIOUS
<1>4. QED
  BY <1>1, <1>2, <1>3, Zenon DEF IsNested

\* An error of the emulated program: the CPU thread asks the user, and goes on, resets
\* the device or enters the debugger.  Nothing is nested, and no stopper is owned.
LEMMA DialogKeeps ==
  ASSUME DialogsApart, TypeOK, IInv,
         \/ DeviceError \/ BlockOnDialog \/ DialogWake
         \/ ButtonContinue \/ ButtonReset \/ ButtonDebug \/ ButtonDebugFails
         \/ Unwind("cpu") \/ Caught \/ CPUThreadResets
  PROVE  IInv'
<1>1. /\ pc["cpu"] \in {"execute", "error", "blocked", "button", "unwind", "caught", "reset"}
      /\ pc \in [Threads -> CPUPlaces \cup UIPlaces]
      /\ fStop' = fStop /\ stack' = stack /\ oldRunState' = oldRunState
      /\ how' = how /\ holds' = holds
  BY DEF DeviceError, BlockOnDialog, DialogWake, ButtonContinue, ButtonReset, ButtonDebug,
     ButtonDebugFails, Unwind, Caught, CPUThreadResets, TopLevel, Happens, monitor, stacks,
     dialogs, ui, TypeOK, ControlTyped, IInv, Dialogs
<1>2. holds = <<>> /\ ~Calling("ui")
  BY <1>1 DEF IInv, Parking
<1>3. ~Calling("cpu")
  <2>1. CASE DeviceError
    BY <2>1, NotNested DEF DeviceError, TopLevel
  <2>2. CASE ~DeviceError
    <3>1. pc["cpu"] \notin CPUInside
      BY <2>2 DEF BlockOnDialog, DialogWake, ButtonContinue, ButtonReset, ButtonDebug,
         ButtonDebugFails, Unwind, Caught, CPUThreadResets, CPUInside
    <3>2. QED
      BY <3>1 DEF IInv, Parking
  <2>3. QED
    BY <2>1, <2>2
<1>4. fNestLevel = 0
  <2>1. Len(stack["cpu"]) = 0 /\ Len(stack["ui"]) = 0
    BY <1>2, <1>3, EmptySeq DEF Calling, TypeOK, StacksTyped, Threads
  <2>2. QED
    BY <2>1 DEF IInv, Nesting
<1>5. fNestLevel' = 0
  BY <1>4 DEF DeviceError, BlockOnDialog, DialogWake, ButtonContinue, ButtonReset, ButtonDebug,
     ButtonDebugFails, Unwind, Caught, CPUThreadResets, Reset, monitor
<1>6. fSuspendState' \in Counters /\ fSuspendState'.ui = fSuspendState.ui
  <2>1. fSuspendState \in Counters
    BY DEF TypeOK
  <2>2. CASE fSuspendState' = fSuspendState
    BY <2>1, <2>2
  <2>3. CASE ButtonDebug
    <3>1. fSuspendState' = [fSuspendState EXCEPT !.debugger = @ + 1]
      BY <2>3 DEF ButtonDebug, Schedule
    <3>2. QED
      BY <2>1, <3>1, CounterSteps DEF Counters
  <2>4. CASE CPUThreadResets
    <3>1. fSuspendState' = [Zero EXCEPT !.ui = fSuspendState.ui,
                                        !.timeout = fSuspendState.timeout]
      BY <2>4 DEF CPUThreadResets, Reset
    <3>2. QED
      BY <2>1, <3>1, CounterSteps DEF Zero, Counters
  <2>5. QED
    BY <2>2, <2>3, <2>4 DEF DeviceError, BlockOnDialog, DialogWake, ButtonContinue,
       ButtonReset, ButtonDebugFails, Unwind, Caught, monitor
<1>7. \A s \in Threads: Calling(s)' = Calling(s)
  BY <1>1 DEF Calling
<1>8. /\ pc'["ui"] = pc["ui"]
      /\ pc'["cpu"] \in CPUPlaces \ {"wait", "done", "drop", "display"}
      /\ fState' = IF pc'["cpu"] = "blocked" THEN "kBlockedOnUI" ELSE "kRunning"
  <2>1. fState = IF pc["cpu"] = "blocked" THEN "kBlockedOnUI" ELSE "kRunning"
    BY <1>1 DEF IInv, Telling
  <2>2. CASE DeviceError \/ ButtonContinue \/ ButtonReset \/ ButtonDebug \/ ButtonDebugFails
    BY <1>1, <2>1, <2>2 DEF DeviceError, ButtonContinue, ButtonReset, ButtonDebug,
       ButtonDebugFails, Goto, TopLevel, Happens, monitor, CPUPlaces, Threads
  <2>3. CASE BlockOnDialog \/ DialogWake
    BY <1>1, <2>1, <2>3 DEF BlockOnDialog, DialogWake, Goto, CPUPlaces, Threads,
       IInv, Dialogs
  <2>4. CASE Unwind("cpu")
    BY <1>1, <1>3, <2>4 DEF Unwind, Goto, SavedState, CPUPlaces, Threads, IInv, Telling
  <2>5. CASE Caught \/ CPUThreadResets
    BY <1>1, <2>1, <2>5 DEF Caught, CPUThreadResets, Goto, monitor, CPUPlaces, Threads,
       IInv, Dialogs
  <2>6. QED
    BY <2>2, <2>3, <2>4, <2>5
<1>9. Dialogs'
  <2>1. pc'["cpu"] \in {"error", "blocked", "button"} => "kStopNow" \notin StopMethods
    <3>1. CASE DeviceError
      BY <3>1 DEF DeviceError, TopLevel, Happens, DialogsApart
    <3>2. CASE ~DeviceError
      BY <1>1, <3>2 DEF BlockOnDialog, DialogWake, ButtonContinue, ButtonReset, ButtonDebug,
         ButtonDebugFails, Unwind, Caught, CPUThreadResets, Goto, Threads, IInv, Dialogs
    <3>3. QED
      BY <3>1, <3>2
  <2>2. CASE BlockOnDialog
    <3>1. pc["cpu"] = "error"
      BY <2>2 DEF BlockOnDialog, IInv, Dialogs
    <3>2. pc["ui"] # "dialog"
      BY <1>1, <3>1 DEF IInv, Dialogs, Parking
    <3>3. \/ pc'["cpu"] = "blocked" /\ dialogFor' = "error"
          \/ pc'["cpu"] = "crashed" /\ dialog' = dialog
      BY <1>1, <2>2, <3>1 DEF BlockOnDialog, Goto, dialogs, Threads
    <3>4. QED
      BY <1>1, <1>8, <2>1, <3>1, <3>2, <3>3 DEF IInv, Dialogs
  <2>3. CASE DialogWake
    <3>1. pc["cpu"] = "blocked" /\ dialogFor = "error" /\ dialogFor' = dialogFor
      BY <2>3 DEF DialogWake, IInv, Dialogs
    <3>2. \/ pc'["cpu"] = "blocked" /\ dialog' = dialog
          \/ pc'["cpu"] = "button" /\ dialog = "answered" /\ dialog' = "none"
          \/ pc'["cpu"] = "error" /\ fStop /\ dialog' = dialog
      BY <1>1, <2>3, <3>1 DEF DialogWake, Goto, Threads
    <3>3. QED
      BY <1>1, <1>8, <2>1, <3>1, <3>2 DEF IInv, Dialogs
  <2>4. CASE ~BlockOnDialog /\ ~DialogWake
    <3>1. /\ dialog' = dialog /\ dialogFor' = dialogFor
          /\ pc["cpu"] # "blocked" /\ pc'["cpu"] # "blocked"
          /\ pc'["cpu"] \in {"unwind", "caught"} => thrown' \in {"debugger", "reset"}
      BY <1>1, <2>4 DEF DeviceError, ButtonContinue, ButtonReset, ButtonDebug,
         ButtonDebugFails, Unwind, Caught, CPUThreadResets, TopLevel, Happens, Goto,
         dialogs, stacks, Threads, IInv, Dialogs
    <3>2. QED
      BY <1>1, <1>8, <2>1, <3>1 DEF IInv, Dialogs
  <2>5. QED
    BY <2>2, <2>3, <2>4
<1>10. Nesting'
  BY <1>1, <1>4, <1>5 DEF IInv, Nesting
<1>11. Parking'
  BY <1>1, <1>2, <1>3, <1>7, <1>8 DEF IInv, Parking, Threads
<1>12. Telling'
  BY <1>1, <1>2, <1>3, <1>7, <1>8 DEF IInv, Telling, Threads
<1>13. Asking'
  BY <1>1, <1>2, <1>3, <1>6, <1>7, <1>8 DEF IInv, Asking, Threads
<1>14. QED
  BY <1>9, <1>10, <1>11, <1>12, <1>13 DEF IInv

\* The emulation loop and its wrappers, on either thread.
LEMMA EmulationKeeps ==
  ASSUME DialogsApart, TypeOK, IInv, NEW t \in Threads, Emulation(t)
  PROVE  IInv'
<1>1. CASE CallCPU(t)
  BY <1>1, CallCPUKeeps
<1>2. CASE CallCPUReturns(t)
  BY <1>2, CallCPUReturnsKeeps
<1>3. CASE AfterCallCPU(t)
  BY <1>3, LoopKeeps, ReturnKeeps
<1>4. CASE EndOfCycle(t) \/ ExecuteSpecial(t)
  <2>1. /\ pc[t] \in {"execute", "special"} /\ fSuspendState' = fSuspendState
        /\ \E where \in {"special", "return", "execute"}: Scheduling(t, where)
    BY <1>4 DEF EndOfCycle, ExecuteSpecial
  <2>2. fSuspendState' \in Counters
    BY <2>1 DEF TypeOK
  <2>3. QED
    BY <2>1, <2>2, SchedulingKeeps DEF CPUInside
<1>5. CASE SubroutineReturns(t)
  <2>1. /\ pc[t] = "execute" /\ Scheduling(t, "special")
        /\ fSuspendState' = [fSuspendState EXCEPT !.subroutine = TRUE]
    BY <1>5 DEF SubroutineReturns, Schedule
  <2>2. fSuspendState' \in Counters /\ fSuspendState'.ui = fSuspendState.ui
    BY <2>1, CounterSteps DEF TypeOK, Counters
  <2>3. QED
    BY <2>1, <2>2, SchedulingKeeps DEF CPUInside
<1>6. CASE RomCall(t)
  <2>1. pc[t] = "execute" /\ Entering(t, "execute")
    BY <1>6 DEF RomCall, Happens
  <2>2. t = "ui" => Len(stack[t]) + 1 # 1
    <3>1. t = "ui" => Len(stack[t]) >= 1
      BY <2>1, Depths DEF TypeOK, ControlTyped
    <3>2. \A n \in Nat: n >= 1 => n + 1 # 1
      OBVIOUS
    <3>3. QED
      BY <3>1, <3>2, Depths
  <2>3. "execute" \in Returns(t, Len(stack[t]) + 1)
    BY <2>2 DEF Returns, Threads
  <2>4. QED
    BY <2>1, <2>3, EnteringKeeps
<1>7. ~NestedError(t)
  BY DEF NestedError, Happens, DialogsApart
<1>8. ~Drop(t) /\ ~(t = "ui" /\ Unwind(t))
  BY DEF Unwind, Drop, IInv, Dialogs, Threads
<1>9. CASE Unwind(t)
  BY <1>8, <1>9, DialogKeeps DEF Threads
<1>10. QED
  BY <1>1, <1>2, <1>3, <1>4, <1>5, <1>6, <1>7, <1>8, <1>9 DEF Emulation

\* Outside of nested calls, Run's loop: the only step by which the CPU thread leaves its
\* wait finds no nested call, and no request or a session that ends.
LEMMA RunKeeps ==
  ASSUME TypeOK, IInv, RunTop \/ RunWake
  PROVE  IInv'
<1>1. /\ pc \in [Threads -> CPUPlaces \cup UIPlaces]
      /\ pc["cpu"] \in {"top", "wait"}
      /\ pc' \in {pc, [pc EXCEPT !["cpu"] = "wait"], [pc EXCEPT !["cpu"] = "call"],
                  [pc EXCEPT !["cpu"] = "done"]}
      /\ fSuspendState' = fSuspendState /\ fStop' = fStop /\ fNestLevel' = fNestLevel
      /\ stack' = stack /\ oldRunState' = oldRunState
      /\ UNCHANGED <<dialog, dialogFor, thrown>> /\ how' = how /\ holds' = holds
  BY DEF RunTop, RunWake, Goto, stacks, dialogs, ui, TypeOK, ControlTyped
<1>2. \A s \in Threads: Calling(s)' = Calling(s)
  BY <1>1 DEF Calling
<1>3. ~Calling("cpu") /\ Len(stack["cpu"]) = 0
  <2>1. ~Calling("cpu")
    BY <1>1 DEF IInv, Parking, CPUInside
  <2>2. QED
    BY <2>1, Depths DEF Threads, Calling, TypeOK, StacksTyped
<1>4. IsNested <=> Calling("ui")
  <2>1. fNestLevel = 0 + Len(stack["ui"]) /\ Len(stack["ui"]) \in Nat
    BY <1>3, Depths DEF IInv, Nesting, Threads
  <2>2. \A n \in Nat: 0 + n = n /\ (n > 0 <=> n >= 1)
    OBVIOUS
  <2>3. IsNested <=> Len(stack["ui"]) >= 1
    BY <2>1, <2>2, Zenon DEF IsNested
  <2>4. QED
    BY <2>3, Depths DEF Threads
<1>5. Suspended' = Suspended
  BY <1>1 DEF Suspended
<1>6. holds # <<>> => Calling("ui") \/ (Suspended /\ ~fStop)
  <2>1. holds # <<>> /\ ~Calling("ui") => Suspended
    BY DEF IInv, Telling
  <2>2. holds # <<>> => ~fStop
    BY DEF IInv, Parking, UIInside
  <2>3. QED
    BY <2>1, <2>2
<1>7. \/ /\ pc'["cpu"] = "done" /\ fState' = "kStopped" /\ fStop /\ ~Calling("ui")
      \/ /\ pc'["cpu"] = "wait" /\ (pc["cpu"] = "wait" \/ (~fStop /\ Suspended))
         /\ fState' = IF Calling("ui") THEN fState ELSE "kSuspended"
         /\ Calling("ui") \/ Suspended
      \/ /\ pc'["cpu"] = "call" /\ fState' = fState /\ ~fStop /\ ~Suspended /\ ~Calling("ui")
  <2>1. CASE RunTop
    <3>1. ~Calling("ui")
      BY <2>1 DEF RunTop, IInv, Parking
    <3>2. QED
      BY <1>1, <1>4, <2>1, <3>1 DEF RunTop, Goto, Threads
  <2>2. CASE RunWake
    BY <1>1, <1>4, <2>2 DEF RunWake, Goto, Threads
  <2>3. QED
    BY <2>1, <2>2
<1>8. pc'["ui"] = pc["ui"]
  BY <1>1 DEF Threads
<1>9. Dialogs'
  BY <1>1, <1>7, <1>8 DEF IInv, Dialogs, CPUInside
<1>10. Nesting' /\ Asking'
  BY <1>1, <1>2, <1>8 DEF IInv, Nesting, Asking, Threads
<1>11. Parking'
  BY <1>1, <1>2, <1>3, <1>6, <1>7, <1>8 DEF IInv, Parking, Threads, CPUInside
<1>12. Telling'
  <2>1. ASSUME pc'["cpu"] = "call" PROVE fState = "kRunning"
    BY <1>1, <1>7, <2>1 DEF IInv, Telling
  <2>2. CASE holds = <<>>
    <3>1. ~Calling("ui")
      BY <2>2 DEF IInv, Parking
    <3>2. QED
      BY <1>1, <1>2, <1>5, <1>7, <1>8, <2>1, <2>2, <3>1 DEF IInv, Telling, Threads, CPUInside
  <2>3. CASE holds # <<>>
    <3>1. pc["cpu"] = "wait" /\ pc'["cpu"] = "wait"
      BY <1>6, <1>7, <2>3 DEF IInv, Parking
    <3>2. fState' = fState
      BY <1>7, <2>3, <3>1 DEF IInv, Telling
    <3>3. QED
      BY <1>1, <1>2, <1>5, <1>8, <3>1, <3>2 DEF IInv, Telling, Threads, CPUInside
  <2>4. QED
    BY <2>2, <2>3
<1>13. QED
  BY <1>9, <1>10, <1>11, <1>12 DEF IInv


\* A reset finds no nested call, and the requests of the UI thread survive it.
LEMMA ResetKeeps ==
  ASSUME TypeOK, IInv, Reset,
         \/ TopLevel("reset") /\ Goto("cpu", "special")
         \/ pc["ui"] = "idle" /\ holds # <<>> /\ pc' = pc,
         UNCHANGED <<fState, fStop, stacks, dialogs, ui>>
  PROVE  IInv'
<1>1. /\ pc \in [Threads -> CPUPlaces \cup UIPlaces]
      /\ fState' = fState /\ fStop' = fStop /\ stack' = stack /\ oldRunState' = oldRunState
      /\ UNCHANGED <<dialog, dialogFor, thrown>> /\ how' = how /\ holds' = holds
      /\ fNestLevel' = 0
      /\ fSuspendState' = [Zero EXCEPT !.ui = fSuspendState.ui,
                                       !.timeout = fSuspendState.timeout]
  BY DEF Reset, stacks, dialogs, ui, TypeOK, ControlTyped
<1>2. fSuspendState' \in Counters /\ fSuspendState'.ui = fSuspendState.ui
  BY <1>1, CounterSteps DEF TypeOK, Zero, Counters
<1>3. \A s \in Threads: Calling(s)' = Calling(s)
  BY <1>1 DEF Calling
<1>4. /\ Len(stack["cpu"]) \in Nat /\ Len(stack["ui"]) \in Nat
      /\ Calling("cpu") <=> Len(stack["cpu"]) >= 1
      /\ Calling("ui") <=> Len(stack["ui"]) >= 1
  BY Depths DEF Threads
<1>5. fNestLevel = 0
  <2>1. fNestLevel = Len(stack["cpu"]) + Len(stack["ui"])
    BY DEF IInv, Nesting
  <2>0. \A m, n \in Nat: /\ ~(m + n > 0) => m + n = 0
                         /\ ~(m >= 1) /\ ~(n >= 1) => m + n = 0
    OBVIOUS
  <2>2. CASE TopLevel("reset")
    BY <1>4, <2>0, <2>1, <2>2, Zenon DEF TopLevel, IsNested
  <2>3. CASE pc["ui"] = "idle" /\ holds # <<>>
    <3>1. ~Calling("ui") /\ ~Calling("cpu")
      BY <2>3 DEF IInv, Parking, TypeOK, ControlTyped, CPUInside
    <3>2. QED
      BY <1>4, <2>0, <2>1, <3>1, Zenon
  <2>4. QED
    BY <2>2, <2>3
<1>6. /\ pc' \in {pc, [pc EXCEPT !["cpu"] = "special"]}
      /\ pc' # pc => pc["cpu"] = "execute"
      /\ pc' = pc => (pc["ui"] = "idle" /\ holds # <<>>) \/ pc["cpu"] = "execute"
  BY DEF TopLevel, Happens, Goto
<1>7. Dialogs'
  BY <1>1, <1>6 DEF IInv, Dialogs, Threads, CPUInside
<1>8. Nesting' /\ Asking'
  BY <1>1, <1>2, <1>3, <1>5, <1>6 DEF IInv, Nesting, Asking, Threads
<1>9. Parking'
  BY <1>1, <1>3, <1>6 DEF IInv, Parking, Threads, CPUInside
<1>10. fState' = "kSuspended" /\ ~Calling("ui")' => Suspended'
  <2>1. fState = "kSuspended" => holds # <<>>
    BY <1>6 DEF IInv, Telling, CPUInside
  <2>2. QED
    <3> SUFFICES ASSUME fState = "kSuspended", ~Calling("ui") PROVE Suspended'
      BY <1>1, <1>3 DEF Threads
    <3>1. fSuspendState.ui >= Len(holds)
      BY <2>1 DEF IInv, Asking
    <3>2. Len(holds) >= 1 /\ Len(holds) \in Nat /\ fSuspendState.ui \in Nat
      BY <2>1, Holding, Requested DEF TypeOK
    <3>3. fSuspendState'.ui >= 1
      BY <1>2, <3>1, <3>2
    <3>4. QED
      BY <1>2, <3>3, Requested DEF Suspended
<1>11. Telling'
  BY <1>1, <1>3, <1>6, <1>10 DEF IInv, Telling, Threads, CPUInside
<1>12. QED
  BY <1>7, <1>8, <1>9, <1>11 DEF IInv

\* A step of the CPU thread.
LEMMA CPUThreadKeeps ==
  ASSUME DialogsApart, TypeOK, IInv, CPUThread
  PROVE  IInv'
<1>1. CASE RunTop \/ RunWake
  BY <1>1, RunKeeps
<1>2. CASE Emulation("cpu")
  BY <1>2, EmulationKeeps DEF Threads
<1>3. CASE CycleSlowly \/ Breakpoint \/ SignalWaiters \/ SysCallInUITask
             \/ SysCallInBackgroundTask
  <2>1. /\ pc["cpu"] \in {"execute", "taskInfo"}
        /\ \E where \in {"special", "execute"}: Scheduling("cpu", where)
        /\ \/ fSuspendState' = fSuspendState
           \/ fSuspendState' = [fSuspendState EXCEPT !.debugger = @ + 1]
           \/ fSuspendState' = [fSuspendState EXCEPT !.external = @ + 1, !.sysCall = TRUE]
           \/ fSuspendState' = [fSuspendState EXCEPT !.sysCall = TRUE]
    BY <1>3 DEF CycleSlowly, Breakpoint, SignalWaiters, SysCallInUITask,
       SysCallInBackgroundTask, TopLevel, Happens, Schedule
  <2>2. fSuspendState' \in Counters /\ fSuspendState'.ui = fSuspendState.ui
    <3>1. fSuspendState' \in Counters
      <4>1. fSuspendState \in Counters
        BY DEF TypeOK
      <4>2. CASE fSuspendState' = [fSuspendState EXCEPT !.debugger = @ + 1]
        BY <4>1, <4>2, CounterSteps
      <4>3. CASE fSuspendState' = [fSuspendState EXCEPT !.external = @ + 1, !.sysCall = TRUE]
        BY <4>1, <4>3, CounterSteps
      <4>4. CASE fSuspendState' = [fSuspendState EXCEPT !.sysCall = TRUE]
        BY <4>1, <4>4, CounterSteps
      <4>5. QED
        BY <2>1, <4>1, <4>2, <4>3, <4>4
    <3>2. fSuspendState'.ui = fSuspendState.ui
      <4>1. \A c \in Counters: /\ [c EXCEPT !.debugger = @ + 1].ui = c.ui
                              /\ [c EXCEPT !.external = @ + 1, !.sysCall = TRUE].ui = c.ui
                              /\ [c EXCEPT !.sysCall = TRUE].ui = c.ui
        BY DEF Counters
      <4>2. fSuspendState \in Counters
        BY DEF TypeOK
      <4>3. CASE fSuspendState' = [fSuspendState EXCEPT !.debugger = @ + 1]
        BY <4>1, <4>2, <4>3
      <4>4. CASE fSuspendState' = [fSuspendState EXCEPT !.external = @ + 1, !.sysCall = TRUE]
        BY <4>1, <4>2, <4>4
      <4>5. CASE fSuspendState' = [fSuspendState EXCEPT !.sysCall = TRUE]
        BY <4>1, <4>2, <4>5
      <4>6. QED
        BY <2>1, <4>3, <4>4, <4>5
    <3>3. QED
      BY <3>1, <3>2
  <2>3. QED
    BY <2>1, <2>2, SchedulingKeeps DEF Threads, CPUInside
<1>4. CASE HandleSystemCall \/ SysCallInRootTask
  <2>1. /\ pc["cpu"] \in {"execute", "taskInfo"}
        /\ \E next \in {"execute", "taskInfo"}: Entering("cpu", next)
    BY <1>4 DEF HandleSystemCall, SysCallInRootTask, TopLevel, Happens
  <2>2. Returns("cpu", Len(stack["cpu"]) + 1) = {"execute", "taskInfo"}
    BY DEF Returns
  <2>3. QED
    BY <2>1, <2>2, EnteringKeeps DEF Threads
<1>5. CASE DeviceResets
  BY <1>5, ResetKeeps DEF DeviceResets
<1>6. CASE \/ DeviceError \/ CPUThreadResets \/ Caught \/ BlockOnDialog \/ DialogWake
           \/ ButtonContinue \/ ButtonReset \/ ButtonDebug \/ ButtonDebugFails
  BY <1>6, DialogKeeps
<1>7. QED
  BY <1>1, <1>2, <1>3, <1>4, <1>5, <1>6 DEF CPUThread

\* SuspendThread finds the session suspended, if it neither runs nor waits for the
\* answer to a dialog.
LEMMA GrantedSuspended ==
  ASSUME TypeOK, IInv, pc["ui"] \in {"idle", "suspend", "dialog"}, fState # "kRunning"
  PROVE  /\ ~Calling("ui") /\ ~fStop
         /\ \/ /\ fState = "kSuspended" /\ pc["cpu"] = "wait" /\ Suspended
               /\ Len(stack["cpu"]) = 0 /\ pc["ui"] # "dialog" /\ dialog = "none"
            \/ fState = "kBlockedOnUI" /\ "kStopNow" \notin StopMethods /\ holds = <<>>
<1>1. ~Calling("ui") /\ ~fStop
  BY DEF TypeOK, ControlTyped, IInv, Parking
<1>2. pc["cpu"] \in {"wait", "blocked"}
  BY <1>1 DEF IInv, Parking, Telling
<1>3. CASE pc["cpu"] = "wait"
  <2>1. fState = "kSuspended" /\ Suspended
    BY <1>1, <1>3 DEF IInv, Telling
  <2>2. ~Calling("cpu")
    BY <1>3 DEF IInv, Parking, CPUInside
  <2>3. stack["cpu"] \in Seq(Frames) /\ stack["cpu"] = <<>>
    BY <2>2 DEF Calling, TypeOK, StacksTyped, Threads
  <2>4. dialog = "none" /\ pc["ui"] # "dialog"
    BY <1>1, <1>3 DEF IInv, Dialogs
  <2>5. QED
    BY <1>1, <1>3, <2>1, <2>3, <2>4, EmptySeq
<1>4. CASE pc["cpu"] = "blocked"
  BY <1>1, <1>4 DEF IInv, Dialogs, Parking, Telling
<1>5. QED
  BY <1>2, <1>3, <1>4

\* SuspendThread returns: the CPU thread waits for it to be released.
LEMMA FinishKeeps ==
  ASSUME TypeOK, IInv, NEW method \in AllStopMethods, NEW reasons \in Counters,
         Finish(method, reasons), fState = "kSuspended", pc["ui"] \in {"idle", "suspend"},
         method = "kStopNow" => reasons.ui >= Len(holds) + 1,
         reasons.ui >= Len(holds), reasons # Zero,
         UNCHANGED <<fState, fStop, fNestLevel, stacks, dialogs>>
  PROVE  IInv'
<1> DEFINE stopped == method = "kStopOnSysCall" => fState = "kSuspended" /\ reasons.sysCall
           stopper == [how |-> method, blocked |-> fState = "kBlockedOnUI"]
<1>1. /\ pc \in [Threads -> CPUPlaces \cup UIPlaces]
      /\ pc' = [pc EXCEPT !["ui"] = "idle"]
      /\ fState' = fState /\ fStop' = fStop /\ fNestLevel' = fNestLevel
      /\ stack' = stack /\ oldRunState' = oldRunState
      /\ UNCHANGED <<dialog, dialogFor, thrown>>
  <2>1. dialog = "none"
    BY GrantedSuspended
  <2>2. QED
    BY <2>1 DEF Finish, Goto, Home, stacks, dialogs, TypeOK, ControlTyped
<1>2. \A s \in Threads: Calling(s)' = Calling(s)
  BY <1>1 DEF Calling
<1>3. ~Calling("ui") /\ pc["cpu"] = "wait" /\ ~fStop
  BY GrantedSuspended
<1>4. holds \in Seq([how: AllStopMethods, blocked: BOOLEAN]) /\ Len(holds) \in Nat
  BY Holding DEF TypeOK
<1>5. stopper \in [how: AllStopMethods, blocked: BOOLEAN] /\ ~stopper.blocked
  OBVIOUS
<1>6. holds' = IF stopped THEN Append(holds, stopper) ELSE holds
  BY DEF Finish
<1>7. fSuspendState' = IF stopped /\ method = "kStopOnSysCall"
                       THEN [reasons EXCEPT !.ui = @ + 1] ELSE reasons
  BY DEF Finish
<1>8. method = "kStopNow" \/ method = "kStopOnSysCall"
  BY DEF AllStopMethods
<1>9. /\ [reasons EXCEPT !.ui = @ + 1] \in Counters
      /\ [reasons EXCEPT !.ui = @ + 1].ui = reasons.ui + 1 /\ reasons.ui \in Nat
  BY CounterSteps DEF Counters
<1> HIDE DEF stopper, stopped
<1>10. /\ Len(holds') \in Nat /\ Len(holds') <= Len(holds) + 1
       /\ stopped \/ Len(holds') = Len(holds)
       /\ \A i \in 1..Len(holds'): i \in 1..Len(holds) \/ i = Len(holds) + 1
       /\ \A i \in 1..Len(holds'): ~holds'[i].blocked
  <2> DEFINE Stoppers == [how: AllStopMethods, blocked: BOOLEAN]
  <2>1. holds \in Seq(Stoppers) /\ stopper \in Stoppers
    BY <1>4, <1>5
  <2>2. \A i \in 1..Len(holds): ~holds[i].blocked
    BY DEF IInv, Dialogs
  <2> HIDE DEF Stoppers
  <2>3. /\ Len(Append(holds, stopper)) = Len(holds) + 1
        /\ \A i \in 1..Len(holds): Append(holds, stopper)[i] = holds[i]
        /\ Append(holds, stopper)[Len(holds) + 1] = stopper
    BY <2>1, AppendProperties
  <2>4. \A i \in 1..(Len(holds) + 1): i \in 1..Len(holds) \/ i = Len(holds) + 1
    BY <1>4
  <2>5. CASE stopped
    BY <1>4, <1>5, <1>6, <2>2, <2>3, <2>4, <2>5
  <2>6. CASE ~stopped
    BY <1>4, <1>6, <2>2, <2>6
  <2>7. QED
    BY <2>5, <2>6
<1>11. fSuspendState' \in Counters /\ fSuspendState'.ui >= Len(holds') /\ fSuspendState' # Zero
  <2>1. CASE stopped /\ method = "kStopOnSysCall"
    <3>1. fSuspendState' = [reasons EXCEPT !.ui = @ + 1]
      BY <1>7, <2>1
    <3>2. fSuspendState' \in Counters /\ fSuspendState'.ui = reasons.ui + 1
      BY <1>9, <3>1, Zenon
    <3>3. fSuspendState'.ui >= Len(holds') /\ fSuspendState'.ui >= 1
      BY <1>4, <1>9, <1>10, <3>2
    <3>4. QED
      BY <3>2, <3>3, Requested
  <2>2. CASE ~stopped
    BY <1>4, <1>7, <1>9, <1>10, <2>2
  <2>3. CASE method # "kStopOnSysCall"
    BY <1>4, <1>7, <1>8, <1>9, <1>10, <2>3
  <2>4. QED
    BY <2>1, <2>2, <2>3
<1>12. Dialogs'
  BY <1>1, <1>10 DEF IInv, Dialogs, Threads
<1>13. Nesting'
  BY <1>1 DEF IInv, Nesting
<1>14. Parking'
  BY <1>1, <1>2, <1>3 DEF IInv, Parking, Threads
<1>15. Telling'
  BY <1>1, <1>2, <1>3, <1>11 DEF IInv, Telling, Threads, CPUInside, Suspended
<1>16. Asking'
  BY <1>1, <1>2, <1>3, <1>11 DEF Asking, Threads
<1>17. QED
  BY <1>12, <1>13, <1>14, <1>15, <1>16 DEF IInv


\* A thread that waits for the answer to a dialog is not at a system call.
LEMMA RefusedKeeps ==
  ASSUME TypeOK, IInv, pc["ui"] \in {"idle", "suspend", "dialog"}, fState = "kBlockedOnUI",
         Finish("kStopOnSysCall", fSuspendState),
         UNCHANGED <<fState, fStop, fNestLevel, stacks, dialogs>>
  PROVE  IInv'
<1>1. holds = <<>> /\ ~Calling("ui") /\ ~fStop
  BY GrantedSuspended
<1>2. /\ pc \in [Threads -> CPUPlaces \cup UIPlaces]
      /\ pc' = [pc EXCEPT !["ui"] = Home]
      /\ fSuspendState' = fSuspendState /\ holds' = holds
      /\ fState' = fState /\ fStop' = fStop /\ fNestLevel' = fNestLevel
      /\ stack' = stack /\ oldRunState' = oldRunState
      /\ UNCHANGED <<dialog, dialogFor, thrown>>
  BY DEF Finish, Goto, stacks, dialogs, TypeOK, ControlTyped
<1>3. \A s \in Threads: Calling(s)' = Calling(s)
  BY <1>2 DEF Calling
<1>4. /\ pc'["cpu"] = pc["cpu"] /\ pc'["ui"] \in {"idle", "dialog"}
      /\ pc'["ui"] = "dialog" => dialog = "shown"
  BY <1>2 DEF Home, Threads
<1>5. Dialogs' /\ Nesting'
  BY <1>2, <1>4 DEF IInv, Dialogs, Nesting
<1>6. Parking'
  BY <1>1, <1>2, <1>3, <1>4 DEF IInv, Parking, Threads
<1>7. Telling'
  BY <1>1, <1>2, <1>3, <1>4 DEF IInv, Telling, Threads, Suspended
<1>8. Asking'
  BY <1>1, <1>2, <1>4 DEF Asking
<1>9. QED
  BY <1>5, <1>6, <1>7, <1>8 DEF IInv

\* A step that changes nothing of what IInv is about.
LEMMA UnmovedKeeps ==
  ASSUME IInv, UNCHANGED <<fState, fSuspendState, fStop, fNestLevel, stack, oldRunState,
                           pc, dialog, dialogFor, thrown, how, holds>>
  PROVE  IInv'
BY DEF IInv, Dialogs, Nesting, Parking, Telling, Asking, Calling, Suspended

\* SuspendThread and its wake-ups.
LEMMA SuspendKeeps ==
  ASSUME TypeOK, IInv,
         SuspendWake \/ \E method \in StopMethods: SuspendThread(method)
  PROVE  IInv'
<1>1. fSuspendState \in Counters /\ fSuspendState.ui \in Nat /\ Len(holds) \in Nat
  BY Requested, Holding DEF TypeOK
<1>2. /\ [fSuspendState EXCEPT !.ui = @ + 1] \in Counters
      /\ [fSuspendState EXCEPT !.ui = @ + 1].ui = fSuspendState.ui + 1
  BY <1>1, CounterSteps DEF Counters
<1>3. ASSUME NEW method \in StopMethods, SuspendThread(method)
      PROVE  IInv'
  <2> DEFINE reasons == IF method = "kStopNow" THEN [fSuspendState EXCEPT !.ui = @ + 1]
                                               ELSE fSuspendState
  <2>1. /\ method \in AllStopMethods /\ pc["ui"] \in {"idle", "dialog"} /\ ~Calling("ui")
        /\ pc \in [Threads -> CPUPlaces \cup UIPlaces]
    BY <1>3, BoundsAssumption DEF SuspendThread, TypeOK, ControlTyped
  <2>2. /\ reasons \in Counters
        /\ reasons.ui = IF method = "kStopNow" THEN fSuspendState.ui + 1 ELSE fSuspendState.ui
    BY <1>1, <1>2
  <2>3. CASE fState = "kRunning"
    <3>1. /\ pc' = [pc EXCEPT !["ui"] = "suspend"] /\ how' = method /\ fSuspendState' = reasons
          /\ fState' = fState /\ fStop' = fStop /\ fNestLevel' = fNestLevel
          /\ stack' = stack /\ oldRunState' = oldRunState
          /\ UNCHANGED <<dialog, dialogFor, thrown>> /\ holds' = holds
      BY <1>3, <2>3 DEF SuspendThread, Goto, stacks, dialogs
    <3> HIDE DEF reasons
    <3>2. \A s \in Threads: Calling(s)' = Calling(s)
      BY <3>1 DEF Calling
    <3>3. holds = <<>>
      BY <2>1, <2>3 DEF IInv, Telling
    <3>4. method = "kStopNow" => reasons.ui >= 1
      BY <1>1, <2>2
    <3>5. Dialogs' /\ Nesting'
      BY <2>1, <3>1 DEF IInv, Dialogs, Nesting, Threads
    <3>6. Parking'
      BY <2>1, <3>1, <3>2, <3>3 DEF IInv, Parking, Threads
    <3>7. Telling'
      BY <2>1, <2>3, <3>1, <3>2, <3>3 DEF IInv, Telling, Threads
    <3>8. Asking'
      BY <3>1, <3>3, <3>4 DEF Asking
    <3>9. QED
      BY <3>5, <3>6, <3>7, <3>8 DEF IInv
  <2>4. CASE fState = "kSuspended"
    <3>1. Suspended /\ pc["ui"] = "idle"
      BY <2>1, <2>4, GrantedSuspended
    <3>2. fSuspendState.ui >= Len(holds)
      BY <1>1, <2>1, Holding DEF IInv, Asking
    <3>3. /\ Finish(method, reasons)
          /\ UNCHANGED <<fState, fStop, fNestLevel, stacks, dialogs>>
      BY <1>3, <2>4 DEF SuspendThread
    <3>4. reasons # Zero
      <4>1. CASE method = "kStopNow"
        <5>1. reasons.ui >= 1
          BY <1>1, <2>2, <4>1
        <5> HIDE DEF reasons
        <5>2. QED
          BY <2>2, <5>1, Requested
      <4>2. CASE method # "kStopNow"
        BY <3>1, <4>2 DEF Suspended
      <4>3. QED
        BY <4>1, <4>2
    <3> HIDE DEF reasons
    <3>5. /\ reasons.ui >= Len(holds)
          /\ method = "kStopNow" => reasons.ui >= Len(holds) + 1
      BY <1>1, <2>2, <3>2
    <3>6. QED
      BY <2>1, <2>2, <2>4, <3>1, <3>3, <3>4, <3>5, FinishKeeps
  <2>5. CASE fState \notin {"kRunning", "kSuspended"}
    <3>1. fState = "kBlockedOnUI" /\ method = "kStopOnSysCall"
      BY <2>1, <2>5, GrantedSuspended DEF AllStopMethods
    <3>2. /\ Finish("kStopOnSysCall", fSuspendState)
          /\ UNCHANGED <<fState, fStop, fNestLevel, stacks, dialogs>>
      BY <1>3, <2>5, <3>1 DEF SuspendThread
    <3>3. QED
      BY <2>1, <3>1, <3>2, RefusedKeeps
  <2>6. QED
    BY <2>3, <2>4, <2>5
<1>4. CASE SuspendWake
  <2>1. CASE fState = "kRunning"
    BY <1>4, <2>1, UnmovedKeeps DEF SuspendWake, stacks, dialogs
  <2>2. CASE fState = "kSuspended"
    <3>1. /\ pc["ui"] = "suspend" /\ Finish(how, fSuspendState)
          /\ UNCHANGED <<fState, fStop, fNestLevel, stacks, dialogs>>
      BY <1>4, <2>2 DEF SuspendWake
    <3>2. Suspended /\ Len(stack["cpu"]) = 0
      BY <2>2, <3>1, GrantedSuspended
    <3>3. holds = <<>> /\ how \in AllStopMethods
      BY <3>1 DEF IInv, Parking, UIInside, TypeOK, ControlTyped
    <3>4. Len(holds) = 0
      BY <1>1, <3>3, Holding
    <3>5. how = "kStopNow" => fSuspendState.ui >= 1
      BY <3>1, <3>2 DEF IInv, Asking
    <3>6. /\ fSuspendState.ui >= Len(holds)
          /\ how = "kStopNow" => fSuspendState.ui >= Len(holds) + 1
      BY <1>1, <3>4, <3>5
    <3>7. QED
      BY <1>1, <2>2, <3>1, <3>2, <3>3, <3>6, FinishKeeps DEF Suspended
  <2>3. CASE fState \notin {"kRunning", "kSuspended"}
    <3>1. /\ pc["ui"] = "suspend" /\ Finish(how, fSuspendState)
          /\ UNCHANGED <<fState, fStop, fNestLevel, stacks, dialogs>>
      BY <1>4, <2>3 DEF SuspendWake
    <3>2. fState = "kBlockedOnUI" /\ how = "kStopOnSysCall"
      <4>1. how \in AllStopMethods /\ how \in StopMethods
        BY <3>1 DEF IInv, Dialogs, TypeOK, ControlTyped
      <4>2. QED
        BY <2>3, <3>1, <4>1, GrantedSuspended DEF AllStopMethods
    <3>3. QED
      BY <3>1, <3>2, RefusedKeeps
  <2>4. QED
    BY <2>1, <2>2, <2>3
<1>5. QED
  BY <1>3, <1>4

\* ResumeThread: the session runs again with the last stopper, or stays suspended.
LEMMA ResumeKeeps ==
  ASSUME TypeOK, IInv, ResumeThread
  PROVE  IInv'
<1> DEFINE counted == [fSuspendState EXCEPT !.ui = @ - 1]
           reasons == [counted EXCEPT !.sysCall = @ /\ ~(counted.ui = 0 /\ counted.external = 0)]
<1>1. /\ pc["ui"] = "idle" /\ holds # <<>> /\ ~Calling("ui") /\ pc["cpu"] = "wait"
      /\ pc \in [Threads -> CPUPlaces \cup UIPlaces]
      /\ fState = "kSuspended" /\ fSuspendState.ui >= Len(holds)
  BY DEF ResumeThread, TypeOK, ControlTyped, IInv, Dialogs, Parking, Telling, Asking, UIInside
<1>2. fSuspendState \in Counters /\ fSuspendState.ui \in Nat /\ fSuspendState.ui > 0
  BY <1>1, Holding, Requested DEF TypeOK
<1>3. /\ pc' = [pc EXCEPT !["ui"] = "idle"] /\ holds' = Front(holds)
      /\ fSuspendState' = reasons
      /\ fState' = IF reasons = Zero /\ fState = "kSuspended" THEN "kRunning" ELSE fState
      /\ fStop' = fStop /\ fNestLevel' = fNestLevel
      /\ stack' = stack /\ oldRunState' = oldRunState
      /\ UNCHANGED <<dialog, dialogFor, thrown>>
  <2>1. dialog = "none"
    BY <1>1 DEF IInv, Dialogs, Parking
  <2>2. QED
    BY <1>1, <1>2, <2>1 DEF ResumeThread, Goto, Home, stacks, dialogs
<1>4. reasons \in Counters /\ reasons.ui = fSuspendState.ui - 1
  <2>1. counted \in Counters /\ counted.ui = fSuspendState.ui - 1
    BY <1>2, CounterSteps DEF Counters
  <2>2. (counted.sysCall /\ ~(counted.ui = 0 /\ counted.external = 0)) \in BOOLEAN
    OBVIOUS
  <2> HIDE DEF counted
  <2>3. QED
    BY <2>1, <2>2, CounterSteps DEF Counters
<1> HIDE DEF counted, reasons
<1>5. /\ Len(holds) \in Nat \ {0} /\ Len(holds') = Len(holds) - 1
      /\ \A i \in 1..(Len(holds) - 1): holds'[i] = holds[i]
      /\ holds' # <<>> => Len(holds') >= 1
  <2> DEFINE Stoppers == [how: AllStopMethods, blocked: BOOLEAN]
  <2>1. holds \in Seq(Stoppers)
    BY DEF TypeOK
  <2> HIDE DEF Stoppers
  <2>2. /\ Front(holds) \in Seq(Stoppers) /\ Len(holds) \in Nat \ {0}
        /\ Len(Front(holds)) = Len(holds) - 1
        /\ \A i \in 1..(Len(holds) - 1): Front(holds)[i] = holds[i]
    BY <1>1, <2>1, FrontLast
  <2>3. Front(holds) # <<>> => Len(Front(holds)) # 0 /\ Len(Front(holds)) \in Nat
    BY <2>2, EmptySeq
  <2>4. QED
    BY <1>3, <2>2, <2>3
<1>6. reasons.ui >= Len(holds')
  BY <1>1, <1>2, <1>4, <1>5
<1>7. holds' # <<>> => reasons # Zero
  BY <1>4, <1>5, <1>6, Requested
<1>8. \A s \in Threads: Calling(s)' = Calling(s)
  BY <1>3 DEF Calling
<1>9. Dialogs'
  <2>1. \A i \in 1..Len(holds'): i \in 1..Len(holds) /\ holds'[i] = holds[i]
    BY <1>5
  <2>2. QED
    BY <1>1, <1>3, <2>1 DEF IInv, Dialogs, Threads
<1>10. Nesting'
  BY <1>3 DEF IInv, Nesting
<1>11. Parking'
  BY <1>1, <1>3, <1>8 DEF IInv, Parking, Threads
<1>12. Telling'
  BY <1>1, <1>3, <1>7, <1>8 DEF IInv, Telling, Threads, CPUInside, Suspended
<1>13. Asking'
  BY <1>1, <1>3, <1>6, <1>8 DEF Asking, Threads
<1>14. QED
  BY <1>9, <1>10, <1>11, <1>12, <1>13 DEF IInv

\* The document closes: no stopper is left, and the CPU thread may end.
LEMMA CloseKeeps ==
  ASSUME TypeOK, IInv, CloseDocument \/ DestroyThread \/ DestroyWake
  PROVE  IInv'
<1>1. /\ pc \in [Threads -> CPUPlaces \cup UIPlaces]
      /\ fState' = fState /\ fNestLevel' = fNestLevel
      /\ stack' = stack /\ oldRunState' = oldRunState
      /\ UNCHANGED <<dialog, dialogFor, thrown>> /\ how' = how /\ holds' = holds
      /\ \/ /\ pc["ui"] = "idle" /\ holds = <<>> /\ pc' = [pc EXCEPT !["ui"] = "close"]
            /\ fStop' = fStop /\ fSuspendState' = fSuspendState
         \/ /\ pc["ui"] = "close" /\ pc' = [pc EXCEPT !["ui"] = "destroy"]
            /\ fStop' = TRUE /\ fSuspendState' = [fSuspendState EXCEPT !.ui = @ + 1]
         \/ /\ pc["ui"] = "destroy"
            /\ pc' = pc \/ pc' = [pc EXCEPT !["ui"] = "gone"]
            /\ fStop' = fStop /\ fSuspendState' = fSuspendState
  BY DEF CloseDocument, DestroyThread, DestroyWake, Goto, monitor, stacks, dialogs, ui,
     TypeOK, ControlTyped
<1>2. /\ holds = <<>> /\ ~Calling("ui")
      /\ pc["ui"] \in {"idle", "close", "destroy"}
      /\ pc'["ui"] \in {"close", "destroy", "gone"} /\ pc'["cpu"] = pc["cpu"]
      /\ pc["ui"] = "destroy" => pc'["ui"] # "close"
      /\ fStop' => pc'["ui"] \in {"destroy", "gone"}
  BY <1>1 DEF IInv, Parking, UIInside, TypeOK, ControlTyped, Threads
<1>3. \A s \in Threads: Calling(s)' = Calling(s)
  BY <1>1 DEF Calling
<1>4. Suspended => Suspended'
  <2>1. fSuspendState \in Counters /\ fSuspendState.ui \in Nat
    BY Requested DEF TypeOK
  <2>2. /\ [fSuspendState EXCEPT !.ui = @ + 1] \in Counters
        /\ [fSuspendState EXCEPT !.ui = @ + 1].ui = fSuspendState.ui + 1
    <3>1. [fSuspendState EXCEPT !.ui = @ + 1] \in Counters
      BY <2>1, CounterSteps
    <3>2. [fSuspendState EXCEPT !.ui = @ + 1].ui = fSuspendState.ui + 1
      BY <2>1 DEF Counters
    <3>3. QED
      BY <3>1, <3>2
  <2>3. [fSuspendState EXCEPT !.ui = @ + 1] # Zero
    <3>1. fSuspendState.ui + 1 >= 1
      BY <2>1
    <3>2. QED
      BY <2>2, <3>1, Requested, Zenon
  <2>4. QED
    BY <1>1, <2>3 DEF Suspended
<1>5. Dialogs' /\ Nesting'
  BY <1>1, <1>2 DEF IInv, Dialogs, Nesting
<1>6. Parking'
  <2>1. fStop => fStop'
    BY <1>1
  <2>2. QED
    BY <1>1, <1>2, <1>3, <2>1 DEF IInv, Parking, Threads
<1>7. Telling'
  BY <1>1, <1>2, <1>3, <1>4 DEF IInv, Telling, Threads
<1>8. Asking'
  BY <1>1, <1>2 DEF Asking
<1>9. QED
  BY <1>5, <1>6, <1>7, <1>8 DEF IInv


\* The UI thread shows the dialog, writes the button and wakes the CPU thread up.
LEMMA AnswerKeeps ==
  ASSUME TypeOK, IInv, ShowDialog \/ AnswerDialog \/ UnblockDialog
  PROVE  IInv'
<1>1. /\ pc \in [Threads -> CPUPlaces \cup UIPlaces]
      /\ UNCHANGED <<fState, fSuspendState, fStop, fNestLevel, stack, oldRunState, thrown,
                     dialogFor, how, holds>>
      /\ \/ /\ pc["ui"] = "idle" /\ holds = <<>> /\ dialog = "posted" /\ dialog' = "shown"
            /\ pc' = [pc EXCEPT !["ui"] = "dialog"]
         \/ /\ pc["ui"] = "dialog" /\ dialog' = "answered"
            /\ pc' = [pc EXCEPT !["ui"] = "unblock"]
         \/ /\ pc["ui"] = "unblock" /\ dialog' = dialog
            /\ pc' = [pc EXCEPT !["ui"] = "idle"]
  BY DEF ShowDialog, AnswerDialog, UnblockDialog, Goto, monitor, stacks, dialogs, ui,
     TypeOK, ControlTyped
<1>2. /\ holds = <<>> /\ ~Calling("ui") /\ ~fStop /\ pc'["cpu"] = pc["cpu"]
      /\ pc'["ui"] \in {"dialog", "unblock", "idle"}
      /\ pc'["ui"] = "dialog" => dialog' = "shown"
      /\ dialog' # "none" => dialog # "none"
  BY <1>1 DEF IInv, Dialogs, Parking, UIInside, TypeOK, ControlTyped, Threads
<1>3. \A s \in Threads: Calling(s)' = Calling(s)
  BY <1>1 DEF Calling
<1>4. Dialogs' /\ Nesting'
  BY <1>1, <1>2 DEF IInv, Dialogs, Nesting
<1>5. Parking'
  BY <1>1, <1>2, <1>3 DEF IInv, Parking, Threads
<1>6. Telling'
  BY <1>1, <1>2, <1>3 DEF IInv, Telling, Threads, Suspended
<1>7. Asking'
  BY <1>1, <1>2 DEF Asking
<1>8. QED
  BY <1>4, <1>5, <1>6, <1>7 DEF IInv

\* A step of the UI thread.
LEMMA UIThreadKeeps ==
  ASSUME DialogsApart, TypeOK, IInv, UIThread
  PROVE  IInv'
<1>1. CASE SuspendWake \/ \E method \in StopMethods: SuspendThread(method)
  BY <1>1, SuspendKeeps
<1>2. CASE ResumeThread
  BY <1>2, ResumeKeeps
<1>3. CASE UIRomCall
  <2>1. pc["ui"] = "idle" /\ holds # <<>> /\ Entering("ui", "idle")
    BY <1>3 DEF UIRomCall, Under
  <2>2. Len(stack["ui"]) = 0
    <3>1. ~Calling("ui")
      BY <2>1 DEF TypeOK, ControlTyped
    <3>2. stack["ui"] = <<>> /\ stack["ui"] \in Seq(Frames)
      BY <3>1 DEF Calling, TypeOK, StacksTyped, Threads
    <3>3. QED
      BY <3>2, EmptySeq
  <2>3. "idle" \in Returns("ui", Len(stack["ui"]) + 1)
    BY <2>2 DEF Returns
  <2>4. QED
    BY <2>1, <2>3, EnteringKeeps DEF Threads
<1>4. CASE Emulation("ui")
  BY <1>4, EmulationKeeps DEF Threads
<1>5. CASE HostSignalResume \/ PacketEntersDebugger \/ PacketExitsDebugger
  <2>1. /\ \/ pc["ui"] = "execute" /\ Scheduling("ui", "execute")
           \/ pc["ui"] = "idle" /\ holds # <<>> /\ Scheduling("ui", "idle")
        /\ \/ fSuspendState' = [fSuspendState EXCEPT !.external = @ - 1]
           \/ fSuspendState' = [fSuspendState EXCEPT !.debugger = 1]
           \/ fSuspendState' = [fSuspendState EXCEPT !.debugger = 0]
    BY <1>5 DEF HostSignalResume, PacketEntersDebugger, PacketExitsDebugger, Under, Schedule
  <2>2. fSuspendState' \in Counters /\ fSuspendState'.ui = fSuspendState.ui
    <3>1. fSuspendState \in Counters
      BY DEF TypeOK
    <3>2. \A c \in Counters: /\ [c EXCEPT !.external = @ - 1].ui = c.ui
                            /\ [c EXCEPT !.debugger = 1].ui = c.ui
                            /\ [c EXCEPT !.debugger = 0].ui = c.ui
      BY DEF Counters
    <3>3. CASE fSuspendState' = [fSuspendState EXCEPT !.external = @ - 1]
      BY <3>1, <3>2, <3>3, CounterSteps
    <3>4. CASE fSuspendState' = [fSuspendState EXCEPT !.debugger = 1]
      BY <3>1, <3>2, <3>4, CounterSteps
    <3>5. CASE fSuspendState' = [fSuspendState EXCEPT !.debugger = 0]
      BY <3>1, <3>2, <3>5, CounterSteps
    <3>6. QED
      BY <2>1, <3>3, <3>4, <3>5
  <2>3. QED
    BY <2>1, <2>2, SchedulingKeeps DEF Threads
<1>6. CASE UIThreadResets
  BY <1>6, ResetKeeps DEF UIThreadResets
<1>7. ~PacketHandlerResets
  BY DEF PacketHandlerResets, IInv, Dialogs
<1>8. CASE CloseDocument \/ DestroyThread \/ DestroyWake
  BY <1>8, CloseKeeps
<1>9. CASE ShowDialog \/ AnswerDialog \/ UnblockDialog
  BY <1>9, AnswerKeeps
<1>10. QED
  BY <1>1, <1>2, <1>3, <1>4, <1>5, <1>6, <1>7, <1>8, <1>9 DEF UIThread

\* IInv is inductive ...
LEMMA StepKeeps ==
  ASSUME DialogsApart, TypeOK, IInv, [Next]_vars
  PROVE  IInv'
<1>1. CASE CPUThread
  BY <1>1, CPUThreadKeeps
<1>2. CASE UIThread
  BY <1>2, UIThreadKeeps
<1>3. CASE Terminated \/ UNCHANGED vars \/ \E t \in Threads: SpuriousWakeup(t)
  BY <1>3, UnmovedKeeps DEF Terminated, SpuriousWakeup, vars, monitor, stacks, dialogs, ui
<1>4. QED
  BY <1>1, <1>2, <1>3 DEF Next

\* ... and true when the thread is created.
LEMMA InitKeeps ==
  ASSUME Init
  PROVE  IInv
<1>1. Len(stack["cpu"]) = 0 /\ Len(stack["ui"]) = 0 /\ Len(holds) = 0
  BY EmptySeq DEF Init, Threads
<1>2. ~Calling("cpu") /\ ~Calling("ui")
  BY DEF Init, Threads, Calling
<1>3. Dialogs /\ Parking
  BY <1>1, <1>2 DEF Init, Dialogs, Parking, Threads
<1>4. Nesting
  BY <1>1 DEF Init, Nesting, Threads
<1>5. Telling /\ Asking
  BY <1>1, <1>2 DEF Init, Telling, Asking, Threads
<1>6. QED
  BY <1>3, <1>4, <1>5 DEF IInv

-----------------------------------------------------------------------------
\* The session monitor's invariant.
LEMMA Invariance ==
  ASSUME DialogsApart
  PROVE  Spec => [](TypeOK /\ IInv)
<1>1. Init => TypeOK /\ IInv
  BY InitTyped, InitKeeps
<1>2. TypeOK /\ IInv /\ [Next]_vars => (TypeOK /\ IInv)'
  BY StepTyped, StepKeeps
<1>3. QED
  BY <1>1, <1>2, PTL DEF Spec

\* The thread that is inside is alone.
LEMMA Excluded ==
  ASSUME TypeOK, IInv
  PROVE  /\ OneEmulator
         /\ Emulating("ui") => holds # <<>>
         /\ holds # <<>> => ~Emulating("cpu")
<1>1. Emulating("ui") => holds # <<>>
  BY DEF IInv, Parking, TypeOK, ControlTyped, Threads, Places, UIPlaces, Emulating
<1>2. holds # <<>> => ~Emulating("cpu")
  BY DEF IInv, Parking, Emulating
<1>3. QED
  BY <1>1, <1>2 DEF OneEmulator

\* OneEmulator for every number of stoppers, nesting depth and choice of events, error
\* dialogs under kStopOnSysCall among them: CallCPU and ExecuteSubroutine are never in use
\* by both threads.
THEOREM Exclusion == DialogsApart => (Spec => []OneEmulator)
<1> SUFFICES ASSUME DialogsApart PROVE Spec => []OneEmulator
  OBVIOUS
<1>1. TypeOK /\ IInv => OneEmulator
  BY Excluded
<1>2. QED
  BY <1>1, Invariance, PTL


\* StateTellsTruth: nested calls, resets and the wake-ups of both threads leave fState
\* at kSuspended only while the CPU thread waits in Run.
THEOREM Truth == DialogsApart => (Spec => []StateTellsTruth)
<1> SUFFICES ASSUME DialogsApart PROVE Spec => []StateTellsTruth
  OBVIOUS
<1>1. TypeOK /\ IInv => StateTellsTruth
  BY DEF IInv, Dialogs, Telling, StateTellsTruth
<1>2. QED
  BY <1>1, Invariance, PTL

\* BlockedAsserts with ROM calls and packets of the UI thread: under kStopOnSysCall none
\* of them starts while BlockOnDialog waits, so CallCPU cannot replace its kBlockedOnUI.
THEOREM Waiting == DialogsApart => (Spec => []BlockedAsserts)
<1> SUFFICES ASSUME DialogsApart PROVE Spec => []BlockedAsserts
  OBVIOUS
<1>1. TypeOK /\ IInv => BlockedAsserts
  BY DEF IInv, Telling, BlockedAsserts
<1>2. QED
  BY <1>1, Invariance, PTL

-----------------------------------------------------------------------------
\* What a step of the UI thread can move.
LEMMA UIMoves ==
  ASSUME TypeOK, IInv, UIThread
  PROVE  /\ pc'["cpu"] = pc["cpu"]
         /\ \/ holds' = holds
            \/ /\ pc["ui"] \in {"idle", "suspend"} /\ pc'["ui"] = "idle"
               /\ \/ Len(holds') = Len(holds) + 1
                  \/ Len(holds) >= 1 /\ Len(holds') = Len(holds) - 1
<1>1. pc \in [Threads -> CPUPlaces \cup UIPlaces]
  BY DEF TypeOK, ControlTyped
<1>2. holds \in Seq([how: AllStopMethods, blocked: BOOLEAN])
  BY DEF TypeOK
<1>3. ASSUME NEW method \in StopMethods, NEW reasons, Finish(method, reasons),
             pc["ui"] \in {"idle", "suspend", "dialog"}, fState # "kRunning"
      PROVE  /\ pc' = [pc EXCEPT !["ui"] = Home]
             /\ \/ holds' = holds
                \/ pc["ui"] # "dialog" /\ Home = "idle" /\ Len(holds') = Len(holds) + 1
  <2> DEFINE Stoppers == [how: AllStopMethods, blocked: BOOLEAN]
             stopper  == [how |-> method, blocked |-> fState = "kBlockedOnUI"]
  <2>1. stopper \in Stoppers /\ holds \in Seq(Stoppers)
    BY <1>2, <1>3, BoundsAssumption
  <2>2. holds' \in {holds, Append(holds, stopper)}
    BY <1>3 DEF Finish
  <2>3. holds' = holds \/ (pc["ui"] # "dialog" /\ Home = "idle")
    <3>1. CASE fState = "kSuspended"
      BY <1>3, <3>1, GrantedSuspended DEF Home
    <3>2. CASE fState = "kBlockedOnUI" /\ "kStopNow" \notin StopMethods
      <4>1. method = "kStopOnSysCall"
        BY <3>2, BoundsAssumption DEF AllStopMethods
      <4>2. QED
        BY <1>3, <3>2, <4>1 DEF Finish
    <3>3. QED
      BY <1>3, <3>1, <3>2, GrantedSuspended
  <2> HIDE DEF Stoppers, stopper
  <2>4. holds' = holds \/ Len(holds') = Len(holds) + 1
    BY <2>1, <2>2, AppendProperties
  <2>5. QED
    BY <1>3, <2>3, <2>4 DEF Finish, Goto
<1>4. ASSUME NEW method \in StopMethods, SuspendThread(method)
      PROVE  /\ pc["ui"] \in {"idle", "dialog"}
             /\ \/ holds' = holds /\ \E where: pc' = [pc EXCEPT !["ui"] = where]
                \/ fState # "kRunning" /\ \E reasons: Finish(method, reasons)
  BY <1>4 DEF SuspendThread, Goto
<1>5. CASE \E method \in StopMethods: SuspendThread(method)
  BY <1>1, <1>3, <1>4, <1>5 DEF Threads
<1>6. CASE SuspendWake
  <2>1. /\ pc["ui"] = "suspend" /\ how \in StopMethods
        /\ \/ holds' = holds /\ pc' = pc
           \/ fState # "kRunning" /\ Finish(how, fSuspendState)
    BY <1>6 DEF SuspendWake, IInv, Dialogs
  <2>2. QED
    BY <1>1, <1>3, <2>1 DEF Threads
<1>7. CASE ResumeThread
  <2>1. /\ pc["ui"] = "idle" /\ holds # <<>> /\ holds' = Front(holds)
        /\ pc' = [pc EXCEPT !["ui"] = "idle"]
    <3>1. pc["ui"] = "idle" /\ dialog = "none"
      BY <1>7 DEF ResumeThread, IInv, Dialogs, Parking, UIInside
    <3>2. QED
      BY <1>7, <3>1 DEF ResumeThread, Goto, Home
  <2>2. Len(holds) \in Nat \ {0} /\ Len(holds') = Len(holds) - 1
    <3> DEFINE Stoppers == [how: AllStopMethods, blocked: BOOLEAN]
    <3>1. holds \in Seq(Stoppers)
      BY <1>2
    <3> HIDE DEF Stoppers
    <3>2. QED
      BY <2>1, <3>1, FrontLast
  <2>3. QED
    BY <1>1, <2>1, <2>2 DEF Threads
<1>8. CASE Emulation("ui") \/ UIRomCall
  <2>1. holds' = holds /\ \E where: pc' = [pc EXCEPT !["ui"] = where]
    BY <1>8 DEF UIRomCall, Emulation, CallCPU, CallCPUReturns, AfterCallCPU, EndOfCycle,
       ExecuteSpecial, RomCall, Entering, ExecuteSubroutine, SubroutineReturns, NestedError,
       Unwind, Drop, Scheduling, Goto, ui
  <2>2. QED
    BY <1>1, <2>1 DEF Threads
<1>9. CASE HostSignalResume \/ PacketEntersDebugger \/ PacketExitsDebugger \/ UIThreadResets
             \/ PacketHandlerResets \/ ShowDialog \/ AnswerDialog \/ UnblockDialog
             \/ CloseDocument \/ DestroyThread \/ DestroyWake
  <2>1. holds' = holds /\ (pc' = pc \/ \E where: pc' = [pc EXCEPT !["ui"] = where])
    BY <1>9 DEF HostSignalResume, PacketEntersDebugger, PacketExitsDebugger, UIThreadResets,
       PacketHandlerResets, ShowDialog, AnswerDialog, UnblockDialog, CloseDocument,
       DestroyThread, DestroyWake, Scheduling, Goto, ui
  <2>2. QED
    BY <1>1, <2>1 DEF Threads
<1>10. QED
  BY <1>5, <1>6, <1>7, <1>8, <1>9 DEF UIThread


\* The CPU thread leaves the wait and the top of Run only by the tests made there.
LEMMA RunMoves ==
  ASSUME TypeOK, IInv, [Next]_vars, pc["cpu"] \in {"top", "wait"}, pc'["cpu"] # pc["cpu"]
  PROVE  RunTop \/ RunWake
<1>1. CASE CPUThread
  BY <1>1, CPUMoves
<1>2. ~UIThread
  BY UIMoves
<1>3. ~(Terminated \/ UNCHANGED vars \/ \E t \in Threads: SpuriousWakeup(t))
  BY DEF Terminated, SpuriousWakeup, vars
<1>4. QED
  BY <1>1, <1>2, <1>3 DEF Next

\* StaysSuspended: while a nested call of the UI thread has set the reasons to suspend
\* aside, fNestLevel alone keeps the CPU thread in the inner loop of Run.
THEOREM Suspension == DialogsApart => (Spec => StaysSuspended)
<1> SUFFICES ASSUME DialogsApart PROVE Spec => StaysSuspended
  OBVIOUS
<1>1. ASSUME TypeOK, IInv, [Next]_vars, pc["cpu"] = "wait", pc'["cpu"] # "wait"
      PROVE  ~SomeoneSuspends \/ fStop
  <2>1. RunWake
    BY <1>1, RunMoves DEF RunTop
  <2>2. ~IsNested /\ (fStop \/ ~Suspended)
    BY <1>1, <2>1 DEF RunWake
  <2>3. Len(stack["ui"]) = 0
    BY <1>1, <2>2, NotNested
  <2>4. QED
    BY <2>2, <2>3 DEF SomeoneSuspends
<1>2. TypeOK /\ IInv /\ [Next]_vars
        => [pc["cpu"] = "wait" /\ pc'["cpu"] # "wait" => ~SomeoneSuspends \/ fStop]_vars
  BY <1>1
<1>3. QED
  BY <1>2, Invariance, PTL DEF Spec, StaysSuspended

\* Asserts: the assertions of SuspendThread and Run cannot fail.
THEOREM Assertions == DialogsApart => (Spec => Asserts)
<1> SUFFICES ASSUME DialogsApart PROVE Spec => Asserts
  OBVIOUS
<1>1. ASSUME TypeOK, IInv, pc["ui"] = "suspend", how = "kStopNow", ~IsNested
      PROVE  fSuspendState.ui # 0
  <2>1. Len(stack["cpu"]) = 0
    BY <1>1, NotNested
  <2>2. fSuspendState.ui >= 1
    BY <1>1, <2>1 DEF IInv, Asking
  <2>3. QED
    BY <2>2
<1>2. ASSUME TypeOK, IInv, [Next]_vars, pc["cpu"] \in {"top", "wait"}, pc'["cpu"] = "call"
      PROVE  fState = "kRunning" /\ ~Suspended /\ ~IsNested
  <2>1. RunTop \/ RunWake
    BY <1>2, RunMoves
  <2>2. ~Suspended
    BY <1>2, <2>1 DEF RunTop, RunWake, Goto, TypeOK, ControlTyped, Threads
  <2>3. CASE RunWake
    <3>1. ~IsNested /\ pc["cpu"] = "wait"
      BY <1>2, <2>3 DEF RunWake
    <3>2. ~Calling("ui")
      BY <1>2, <3>1, NotNested
    <3>3. QED
      BY <1>2, <2>2, <3>1, <3>2 DEF IInv, Telling
  <2>4. CASE RunTop
    <3>1. pc["cpu"] = "top"
      BY <2>4 DEF RunTop
    <3>2. fState = "kRunning" /\ ~Calling("cpu") /\ ~Calling("ui")
      BY <1>2, <3>1 DEF IInv, Parking, Telling, CPUInside
    <3>3. Len(stack["cpu"]) = 0 /\ Len(stack["ui"]) = 0
      BY <1>2, <3>2, EmptySeq DEF Calling, TypeOK, StacksTyped, Threads
    <3>4. ~IsNested
      BY <1>2, <3>3 DEF IInv, Nesting, IsNested
    <3>5. QED
      BY <2>2, <3>2, <3>4
  <2>5. QED
    BY <2>1, <2>3, <2>4
<1>3. TypeOK /\ IInv /\ [Next]_vars
        => [pc["ui"] = "suspend" /\ "ui" \notin waiting /\ how = "kStopNow" /\ ~IsNested
              /\ (pc'["ui"] # "suspend" \/ "ui" \in waiting')
            => fSuspendState.ui # 0 \/ fState = "kBlockedOnUI"]_vars
  BY <1>1
<1>4. TypeOK /\ IInv /\ [Next]_vars
        => [pc["cpu"] \in {"top", "wait"} /\ pc'["cpu"] = "call"
            => fState = "kRunning" /\ ~Suspended /\ ~IsNested]_vars
  BY <1>2
<1>5. QED
  BY <1>3, <1>4, Invariance, PTL DEF Spec, Asserts, SuspendAsserts, RunAsserts

-----------------------------------------------------------------------------
\* The thread inside and the stoppers held, as EmSessionGate sees them.
Inside == CASE Emulating("cpu") -> "cpu"
            [] Emulating("ui")  -> "ui"
            [] OTHER            -> "nobody"
Held   == Cardinality({i \in 1..Len(holds): ~holds[i].blocked})

\* Every stopper holds the gate.
LEMMA HeldCounts ==
  ASSUME TypeOK, IInv
  PROVE  Held = Len(holds)
<1>1. {i \in 1..Len(holds): ~holds[i].blocked} = 1..Len(holds)
  BY DEF IInv, Dialogs
<1>2. Len(holds) \in Nat
  BY Holding
<1>3. Cardinality(1..Len(holds)) = Len(holds)
  BY <1>2, FS_Interval
<1>4. QED
  BY <1>1, <1>3 DEF Held

\* What a state tells about the gate.
GateFacts ==
  /\ Held = Len(holds) /\ Len(holds) \in Nat
  /\ holds # <<>> <=> Len(holds) >= 1
  /\ OneEmulator
  /\ Emulating("ui") => holds # <<>>
  /\ holds # <<>> => ~Emulating("cpu")

\* Each step enters, leaves, holds or releases the gate, or does nothing to it.
LEMMA GateSteps ==
  ASSUME TypeOK, IInv, [Next]_vars, GateFacts, GateFacts'
  PROVE  \/ Inside' = Inside /\ Held' = Held
         \/ Inside = "nobody" /\ Held = 0 /\ Inside' = "cpu" /\ Held' = Held
         \/ Inside = "nobody" /\ Held > 0 /\ Inside' = "ui" /\ Held' = Held
         \/ Inside # "nobody" /\ Inside' = "nobody" /\ Held' = Held
         \/ Inside = "nobody" /\ Held' = Held + 1 /\ Inside' = Inside
         \/ Inside = "nobody" /\ Held > 0 /\ Held' = Held - 1 /\ Inside' = Inside
<1> DEFINE ic == Emulating("cpu")
           iu == Emulating("ui")
<1>1. /\ ~(ic /\ iu) /\ (iu => holds # <<>>) /\ (holds # <<>> => ~ic)
      /\ ~(ic' /\ iu') /\ (iu' => holds' # <<>>) /\ (holds' # <<>> => ~ic')
  BY DEF GateFacts, OneEmulator
<1>2. /\ Inside = IF ic THEN "cpu" ELSE IF iu THEN "ui" ELSE "nobody"
      /\ Inside' = IF ic' THEN "cpu" ELSE IF iu' THEN "ui" ELSE "nobody"
  BY <1>1 DEF Inside
<1>3. /\ Held = Len(holds) /\ Len(holds) \in Nat /\ (holds # <<>> <=> Len(holds) >= 1)
      /\ Held' = Len(holds') /\ Len(holds') \in Nat /\ (holds' # <<>> <=> Len(holds') >= 1)
  BY DEF GateFacts
<1>4. /\ pc'["cpu"] = pc["cpu"] => ic' = ic
      /\ pc'["ui"] = pc["ui"] => iu' = iu
  BY DEF Emulating
<1>5. pc["ui"] \in {"idle", "suspend"} => ~iu
  BY DEF Emulating
<1>6. pc'["ui"] = "idle" => ~iu'
  BY DEF Emulating
<1>7. /\ holds = <<>> => Held = 0
      /\ holds # <<>> => Held > 0
      /\ holds' = holds => Held' = Held
  BY <1>3
<1> HIDE DEF ic, iu
<1>8. CASE CPUThread
  BY <1>1, <1>2, <1>4, <1>7, <1>8, CPUMoves
<1>9. CASE UIThread
  <2>1. pc'["cpu"] = pc["cpu"] /\ ic' = ic
    BY <1>4, <1>9, UIMoves
  <2>2. CASE holds' = holds
    BY <1>1, <1>2, <1>7, <2>1, <2>2
  <2>3. CASE holds' # holds
    <3>1. /\ ~iu /\ ~iu'
          /\ \/ Len(holds') = Len(holds) + 1
             \/ Len(holds) >= 1 /\ Len(holds') = Len(holds) - 1
      BY <1>5, <1>6, <1>9, <2>3, UIMoves
    <3>2. holds # <<>> \/ holds' # <<>>
      BY <1>3, <3>1
    <3>3. ~ic /\ ~ic'
      BY <1>1, <2>1, <3>2
    <3>4. Inside = "nobody" /\ Inside' = Inside
      BY <1>2, <3>1, <3>3
    <3>5. Held' = Held + 1 \/ (Held > 0 /\ Held' = Held - 1)
      BY <1>3, <3>1
    <3>6. QED
      BY <3>4, <3>5
  <2>4. QED
    BY <2>2, <2>3
<1>10. CASE Terminated \/ UNCHANGED vars \/ \E t \in Threads: SpuriousWakeup(t)
  <2>1. pc' = pc /\ holds' = holds
    BY <1>10 DEF Terminated, SpuriousWakeup, vars, ui
  <2>2. ic' = ic /\ iu' = iu
    BY <1>4, <2>1
  <2>3. QED
    BY <1>2, <1>7, <2>1, <2>2
<1>11. QED
  BY <1>8, <1>9, <1>10 DEF Next

\* GateSpec: EmSession implements EmSessionGate, so that from the grant of a stopper to
\* its release only its owner goes into the emulated CPU.
THEOREM Gating == DialogsApart => (Spec => GateSpec)
<1> SUFFICES ASSUME DialogsApart PROVE Spec => GateSpec
  OBVIOUS
<1>1. Init => Gate!Init
  <2> SUFFICES ASSUME Init PROVE Gate!Init
    OBVIOUS
  <2>1. Held = 0
    <3>1. Len(holds) = 0
      BY EmptySeq DEF Init
    <3>2. QED
      BY <3>1, InitTyped, InitKeeps, HeldCounts
  <2>2. Inside = "nobody"
    BY DEF Init, Inside, Emulating, Threads
  <2>3. QED
    BY <2>1, <2>2 DEF Gate!Init, Inside, Held
<1>2. TypeOK /\ IInv => GateFacts
  BY HeldCounts, Holding, Excluded DEF GateFacts
<1>3. TypeOK /\ IInv /\ [Next]_vars /\ GateFacts /\ GateFacts' => [Gate!Next]_(Gate!gate)
  BY GateSteps DEF Inside, Held, Gate!Next, Gate!CPUEnters, Gate!UIEnters, Gate!Leaves,
     Gate!Grant, Gate!Release, Gate!gate
<1>4. QED
  BY <1>1, <1>2, <1>3, Invariance, PTL DEF Spec, GateSpec, Gate!Spec

\* NestLevelCounts on a device without errors in nested calls, whatever the UI thread calls
\* and resets: a call of the one thread never starts under one of the other.
THEOREM Depth == DialogsApart => (Spec => []NestLevelCounts)
<1> SUFFICES ASSUME DialogsApart PROVE Spec => []NestLevelCounts
  OBVIOUS
<1>1. TypeOK /\ IInv => NestLevelCounts
  BY DEF IInv, Nesting, NestLevelCounts
<1>2. QED
  BY <1>1, Invariance, PTL

-----------------------------------------------------------------------------
(* RequestsConserved: the sum over the activations of ExecuteSubroutine. *)

\* What RequestsIn adds up, frame by frame.
LEMMA Summing ==
  ASSUME NEW frames \in Seq(Frames)
  PROVE  \E sum :
           /\ sum[0] = 0
           /\ \A i \in 1 .. Len(frames) : sum[i] = sum[i - 1] + frames[i].counters.ui
           /\ \A i \in 0 .. Len(frames) : sum[i] \in Nat
           /\ RequestsIn(frames) = sum[Len(frames)]
<1> DEFINE N      == Len(frames)
           body   == [p \in (1 .. N) \X Nat |-> p[2] + frames[p[1]].counters.ui]
           F(sum) == [i \in 0 .. N |-> IF i = 0 THEN 0
                                       ELSE sum[i - 1] + frames[i].counters.ui]
           the    == CHOOSE sum : sum = F(sum)
<1>1. N \in Nat /\ \A i \in 1 .. N : frames[i].counters.ui \in Nat
  <2>1. \A f \in Frames : f.counters.ui \in Nat
    BY DEF Frames, Counters
  <2>2. QED
    BY <2>1, LenProperties, ElementOfSeq
<1>2. IsBody(body, Nat, N)
  BY <1>1 DEF IsBody
<1>3. PICK f : /\ f \in [0 .. N -> Nat]
               /\ f[0] = 0
               /\ \A i \in 1 .. N : f[i] = body[<<i, f[i - 1]>>]
  <2> HIDE DEF N, body
  <2>1. \E f : IsLoop(f, Nat, 0, N, body)
    BY <1>1, <1>2, Recursion
  <2>2. QED
    BY <2>1 DEF IsLoop
<1>4. f = F(f)
  <2>1. \A i \in 0 .. N : f[i] = F(f)[i]
    <3> SUFFICES ASSUME NEW i \in 0 .. N PROVE f[i] = F(f)[i]
      OBVIOUS
    <3>1. CASE i = 0
      BY <1>1, <1>3, <3>1
    <3>2. CASE i # 0
      <4>1. i \in 1 .. N /\ i - 1 \in 0 .. N
        BY <1>1, <3>2
      <4>2. f[i - 1] \in Nat
        BY <1>3, <4>1
      <4>3. body[<<i, f[i - 1]>>] = f[i - 1] + frames[i].counters.ui
        BY <4>1, <4>2
      <4>4. F(f)[i] = f[i - 1] + frames[i].counters.ui
        BY <3>2
      <4>5. QED
        BY <1>3, <4>1, <4>3, <4>4
    <3>3. QED
      BY <3>1, <3>2
  <2>2. F(f) = [i \in 0 .. N |-> F(f)[i]]
    OBVIOUS
  <2> HIDE DEF F
  <2>3. f = [i \in 0 .. N |-> f[i]]
    BY <1>3
  <2>4. QED
    BY <2>1, <2>2, <2>3
<1>5. the = F(the)
  BY <1>4
<1>6. RequestsIn(frames) = the[N]
  BY DEF RequestsIn
<1>7. /\ the[0] = 0
      /\ \A i \in 1 .. N : the[i] = the[i - 1] + frames[i].counters.ui
  <2>1. \A i \in 0 .. N : the[i] = F(the)[i]
    <3> HIDE DEF F, the
    <3>1. QED
      BY <1>5
  <2> HIDE DEF the
  <2>2. QED
    BY <1>1, <2>1
<1>8. \A i \in 0 .. N : the[i] \in Nat
  <2> DEFINE T == {i \in Nat : i <= N => the[i] \in Nat}
  <2>1. T \in SUBSET Nat /\ 0 \in T
    <3> HIDE DEF the
    <3>1. QED
      BY <1>7
  <2>2. \A i \in T : i + 1 \in T
    <3> HIDE DEF the
    <3> SUFFICES ASSUME NEW i \in Nat, i + 1 <= N, the[i] \in Nat PROVE the[i + 1] \in Nat
      BY <1>1
    <3>1. i + 1 \in 1 .. N /\ i + 1 - 1 = i
      BY <1>1
    <3>2. QED
      BY <1>1, <1>7, <3>1
  <2> HIDE DEF T
  <2>3. \A i \in Nat : i \in T
    BY <2>1, <2>2, Induction
  <2> HIDE DEF the
  <2>4. QED
    BY <1>1, <2>3 DEF T
<1>9. QED
  <2> HIDE DEF the
  <2>1. QED
    BY <1>6, <1>7, <1>8

\* One frame more on a stack adds the requests that it saved.
LEMMA Grown ==
  ASSUME NEW f \in Seq(Frames), NEW g \in Seq(Frames), Len(g) = Len(f) + 1,
         \A i \in 1 .. Len(f) : g[i] = f[i]
  PROVE  /\ RequestsIn(f) \in Nat /\ RequestsIn(g) \in Nat
         /\ g[Len(g)].counters.ui \in Nat
         /\ RequestsIn(g) = RequestsIn(f) + g[Len(g)].counters.ui
<1> DEFINE N == Len(f)
<1>1. N \in Nat /\ Len(g) = N + 1
  BY LenProperties
<1>2. PICK sf : /\ sf[0] = 0
                /\ \A i \in 1 .. N : sf[i] = sf[i - 1] + f[i].counters.ui
                /\ \A i \in 0 .. N : sf[i] \in Nat
                /\ RequestsIn(f) = sf[N]
  BY Summing
<1>3. PICK sg : /\ sg[0] = 0
                /\ \A i \in 1 .. (N + 1) : sg[i] = sg[i - 1] + g[i].counters.ui
                /\ \A i \in 0 .. (N + 1) : sg[i] \in Nat
                /\ RequestsIn(g) = sg[N + 1]
  <2>1. \E sg : /\ sg[0] = 0
                /\ \A i \in 1 .. Len(g) : sg[i] = sg[i - 1] + g[i].counters.ui
                /\ \A i \in 0 .. Len(g) : sg[i] \in Nat
                /\ RequestsIn(g) = sg[Len(g)]
    BY Summing
  <2>2. QED
    BY <1>1, <2>1
<1>4. \A i \in Nat : i <= N => sg[i] = sf[i]
  <2> DEFINE T == {i \in Nat : i <= N => sg[i] = sf[i]}
  <2>1. T \in SUBSET Nat /\ 0 \in T
    BY <1>2, <1>3
  <2>2. \A i \in T : i + 1 \in T
    <3> SUFFICES ASSUME NEW i \in Nat, i + 1 <= N, sg[i] = sf[i]
                 PROVE  sg[i + 1] = sf[i + 1]
      BY <1>1
    <3>1. i + 1 \in 1 .. N /\ i + 1 \in 1 .. (N + 1) /\ i + 1 - 1 = i
      BY <1>1
    <3>2. g[i + 1] = f[i + 1]
      BY <3>1
    <3> HIDE DEF N
    <3>3. QED
      BY <1>2, <1>3, <3>1, <3>2
  <2> HIDE DEF T
  <2>3. \A i \in Nat : i \in T
    BY <2>1, <2>2, Induction
  <2>4. QED
    BY <2>3 DEF T
<1>5. g[N + 1].counters.ui \in Nat
  <2>1. g[N + 1] \in Frames
    BY <1>1, ElementOfSeq
  <2>2. QED
    BY <2>1 DEF Frames, Counters
<1>6. sg[N + 1] = sg[N] + g[N + 1].counters.ui
  <2>1. N + 1 \in 1 .. (N + 1) /\ N + 1 - 1 = N
    BY <1>1
  <2> HIDE DEF N
  <2>2. \A i \in 1 .. (N + 1) : sg[i] = sg[i - 1] + g[i].counters.ui
    BY <1>3
  <2>3. QED
    BY <1>1, <2>1, <2>2
<1>7. sg[N] = sf[N] /\ sf[N] \in Nat
  BY <1>1, <1>2, <1>4
<1>8. RequestsIn(g) = RequestsIn(f) + g[N + 1].counters.ui
  BY <1>2, <1>3, <1>6, <1>7
<1>9. RequestsIn(f) \in Nat /\ RequestsIn(g) \in Nat
  BY <1>2, <1>5, <1>7, <1>8
<1>10. QED
  BY <1>1, <1>5, <1>8, <1>9

\* A thread outside of nested calls has set no request aside.
LEMMA NothingSaved ==
  ASSUME NEW frames \in Seq(Frames)
  PROVE  RequestsIn(frames) \in Nat /\ (frames = <<>> => RequestsIn(frames) = 0)
<1>1. PICK sum : /\ sum[0] = 0
                 /\ \A i \in 0 .. Len(frames) : sum[i] \in Nat
                 /\ RequestsIn(frames) = sum[Len(frames)]
  BY Summing
<1>2. Len(frames) \in 0 .. Len(frames) /\ (frames = <<>> => Len(frames) = 0)
  BY LenProperties, EmptySeq
<1>3. QED
  BY <1>1, <1>2

-----------------------------------------------------------------------------
\* The two sides of RequestsConserved: the requests that are counted somewhere, and
\* those that somebody has made.
Requests == fSuspendState.ui + SavedRequests("cpu") + SavedRequests("ui")

Awaited == IF pc["ui"] = "suspend" /\ how = "kStopNow" THEN 1 ELSE 0
Ending  == IF fStop THEN 1 ELSE 0
Claims  == Len(holds) + Awaited + Ending

\* Both sides count.
LEMMA RequestsTyped ==
  ASSUME TypeOK
  PROVE  /\ fSuspendState \in Counters /\ fSuspendState.ui \in Nat
         /\ Len(holds) \in Nat
         /\ \A t \in Threads : stack[t] \in Seq(Frames) /\ RequestsIn(stack[t]) \in Nat
<1>1. fSuspendState \in Counters /\ fSuspendState.ui \in Nat
  BY Requested DEF TypeOK
<1>2. \A t \in Threads : stack[t] \in Seq(Frames)
  BY DEF TypeOK, StacksTyped
<1>3. QED
  BY <1>1, <1>2, Holding, NothingSaved

\* A request that moves between the counters and the stack of one thread stays counted.
LEMMA Shifted ==
  ASSUME TypeOK, TypeOK', NEW t \in Threads,
         \A s \in Threads : s # t => stack'[s] = stack[s],
         fSuspendState'.ui + RequestsIn(stack'[t]) = fSuspendState.ui + RequestsIn(stack[t])
  PROVE  Requests' = Requests
<1>1. /\ fSuspendState.ui \in Nat
      /\ \A s \in Threads : RequestsIn(stack[s]) \in Nat
  BY RequestsTyped
<1>2. /\ fSuspendState'.ui \in Nat
      /\ \A s \in Threads : RequestsIn(stack'[s]) \in Nat
  <2>1. fSuspendState' \in Counters
    BY DEF TypeOK
  <2>2. \A s \in Threads : stack'[s] \in Seq(Frames)
    BY DEF TypeOK, StacksTyped
  <2>3. QED
    BY <2>1, <2>2, Requested, NothingSaved
<1>3. \A a, b, c, d, e \in Nat : a + b = c + d => a + b + e = c + d + e /\ a + e + b = c + e + d
  OBVIOUS
<1>4. CASE t = "cpu"
  <2>1. stack'["ui"] = stack["ui"]
    BY <1>4 DEF Threads
  <2>2. fSuspendState'.ui + RequestsIn(stack'["cpu"]) + RequestsIn(stack'["ui"])
          = fSuspendState.ui + RequestsIn(stack["cpu"]) + RequestsIn(stack["ui"])
    BY <1>1, <1>2, <1>3, <1>4, <2>1 DEF Threads
  <2>3. QED
    BY <2>2 DEF Requests, SavedRequests
<1>5. CASE t = "ui"
  <2>1. stack'["cpu"] = stack["cpu"]
    BY <1>5 DEF Threads
  <2>2. fSuspendState'.ui + RequestsIn(stack'["cpu"]) + RequestsIn(stack'["ui"])
          = fSuspendState.ui + RequestsIn(stack["cpu"]) + RequestsIn(stack["ui"])
    BY <1>1, <1>2, <1>3, <1>5, <2>1 DEF Threads
  <2>3. QED
    BY <2>2 DEF Requests, SavedRequests
<1>6. QED
  BY <1>4, <1>5 DEF Threads

\* ExecuteSubroutine saves the counters and clears them.
LEMMA EnteringCounts ==
  ASSUME TypeOK, TypeOK', NEW t \in Threads, NEW next \in Returns(t, Len(stack[t]) + 1),
         Entering(t, next)
  PROVE  Requests' = Requests
<1> DEFINE frame == [counters |-> fSuspendState, state |-> fState, nest |-> fNestLevel,
                     next |-> next]
<1>1. stack' = [stack EXCEPT ![t] = Append(@, frame)] /\ fSuspendState' = Zero
  BY DEF Entering, ExecuteSubroutine
<1>2. frame \in Frames
  BY DEF TypeOK, Frames, Returns
<1>3. frame.counters = fSuspendState
  OBVIOUS
<1> HIDE DEF frame
<1>4. /\ Len(stack'[t]) = Len(stack[t]) + 1
      /\ \A i \in 1 .. (Len(stack[t]) + 1) :
           stack'[t][i] = IF i = Len(stack[t]) + 1 THEN frame ELSE stack[t][i]
      /\ \A s \in Threads : s # t => stack'[s] = stack[s]
  BY <1>1, <1>2, Pushed
<1>5. stack[t] \in Seq(Frames) /\ stack'[t] \in Seq(Frames) /\ Len(stack[t]) \in Nat
  BY DEF TypeOK, StacksTyped
<1>6. /\ \A i \in 1 .. Len(stack[t]) : stack'[t][i] = stack[t][i]
      /\ stack'[t][Len(stack'[t])] = frame
  BY <1>4, <1>5
<1>7. /\ RequestsIn(stack'[t]) = RequestsIn(stack[t]) + fSuspendState.ui
      /\ RequestsIn(stack[t]) \in Nat
  BY <1>3, <1>4, <1>5, <1>6, Grown
<1>8. fSuspendState'.ui = 0 /\ fSuspendState.ui \in Nat
  BY <1>1, RequestsTyped DEF Zero
<1>9. fSuspendState'.ui + RequestsIn(stack'[t]) = fSuspendState.ui + RequestsIn(stack[t])
  BY <1>7, <1>8
<1>10. QED
  BY <1>4, <1>9, Shifted

\* What a call leaves of a stack when the frame on top is changed or taken off.
LEMMA OnTop ==
  ASSUME TypeOK, NEW t \in Threads, Calling(t)
  PROVE  /\ Front(stack[t]) \in Seq(Frames) /\ Last(stack[t]) \in Frames
         /\ RequestsIn(Front(stack[t])) \in Nat /\ Last(stack[t]).counters.ui \in Nat
         /\ RequestsIn(stack[t])
              = RequestsIn(Front(stack[t])) + Last(stack[t]).counters.ui
         /\ \A f \in Frames :
              f.next = Last(stack[t]).next
              /\ stack' = [stack EXCEPT ![t] = [@ EXCEPT ![Len(stack[t])] = f]]
              => RequestsIn(stack'[t]) = RequestsIn(Front(stack[t])) + f.counters.ui
<1> DEFINE low == Front(stack[t])
<1>1. stack[t] \in Seq(Frames) /\ stack[t] # <<>>
  BY DEF TypeOK, StacksTyped, Calling
<1>2. /\ low \in Seq(Frames) /\ Last(stack[t]) \in Frames
      /\ Len(stack[t]) \in Nat \ {0} /\ Len(low) = Len(stack[t]) - 1
      /\ \A i \in 1 .. (Len(stack[t]) - 1) : low[i] = stack[t][i]
      /\ Last(stack[t]) = stack[t][Len(stack[t])]
  BY <1>1, FrontLast DEF Last
<1> HIDE DEF low
<1>3. /\ RequestsIn(low) \in Nat /\ Last(stack[t]).counters.ui \in Nat
      /\ RequestsIn(stack[t]) = RequestsIn(low) + Last(stack[t]).counters.ui
  <2>1. Len(stack[t]) = Len(low) + 1 /\ \A i \in 1 .. Len(low) : stack[t][i] = low[i]
    BY <1>2
  <2>2. QED
    BY <1>1, <1>2, <2>1, Grown
<1>4. ASSUME NEW f \in Frames, f.next = Last(stack[t]).next,
             stack' = [stack EXCEPT ![t] = [@ EXCEPT ![Len(stack[t])] = f]]
      PROVE  RequestsIn(stack'[t]) = RequestsIn(low) + f.counters.ui
  <2>1. /\ Len(stack'[t]) = Len(stack[t])
        /\ \A i \in 1 .. Len(stack[t]) :
             stack'[t][i] = IF i = Len(stack[t]) THEN f ELSE stack[t][i]
    BY <1>4, Replaced
  <2>2. stack'[t] \in Seq(Frames)
    <3>1. StacksTyped([stack EXCEPT ![t] = [@ EXCEPT ![Len(stack[t])] = f]])
      BY <1>1, <1>4, Replace DEF TypeOK
    <3>2. StacksTyped(stack')
      BY <1>4, <3>1
    <3>3. QED
      BY <3>2 DEF StacksTyped
  <2>3. /\ Len(stack'[t]) = Len(low) + 1
        /\ \A i \in 1 .. Len(low) : stack'[t][i] = low[i]
        /\ stack'[t][Len(stack'[t])] = f
    BY <1>2, <2>1
  <2>4. QED
    BY <1>2, <2>2, <2>3, Grown
<1>5. QED
  BY <1>2, <1>3, <1>4 DEF low

\* CallCPU saves fState in the frame, and its counters stay.
LEMMA CallCPUCounts ==
  ASSUME TypeOK, TypeOK', NEW t \in Threads, CallCPU(t)
  PROVE  Requests' = Requests
<1>1. fSuspendState' = fSuspendState
  BY DEF CallCPU
<1>2. CASE Calling(t)
  <2> DEFINE frame == [Last(stack[t]) EXCEPT !.state = fState]
  <2>1. stack' = [stack EXCEPT ![t] = [@ EXCEPT ![Len(stack[t])] = frame]]
    BY <1>2 DEF CallCPU, Last
  <2>2. /\ Last(stack[t]) \in Frames /\ RequestsIn(Front(stack[t])) \in Nat
        /\ RequestsIn(stack[t]) = RequestsIn(Front(stack[t])) + Last(stack[t]).counters.ui
    BY <1>2, OnTop
  <2>3. /\ frame \in Frames /\ frame.next = Last(stack[t]).next
        /\ frame.counters = Last(stack[t]).counters
    BY <2>2 DEF Frames, TypeOK
  <2> HIDE DEF frame
  <2>4. RequestsIn(stack'[t]) = RequestsIn(stack[t])
    BY <1>2, <2>1, <2>2, <2>3, OnTop
  <2>5. \A s \in Threads : s # t => stack'[s] = stack[s]
    BY <1>2, <2>1, <2>3, Replaced
  <2>6. QED
    BY <1>1, <2>4, <2>5, Shifted
<1>3. CASE ~Calling(t)
  BY <1>1, <1>3, Shifted DEF CallCPU
<1>4. QED
  BY <1>2, <1>3

\* The fold of ExecuteSubroutine: the requests made during the call join the saved
\* ones, in the frame or, when the call ends, in the counters.
LEMMA AfterCallCPUCounts ==
  ASSUME TypeOK, TypeOK', NEW t \in Threads, AfterCallCPU(t)
  PROVE  Requests' = Requests
<1> DEFINE last   == Last(stack[t])
           saved  == Folded(last.counters, fSuspendState)
           capped == [saved EXCEPT !.external = IF @ < 0 THEN 0 ELSE @]
           frame  == [last EXCEPT !.counters = saved]
<1>1. Calling(t)
  BY DEF AfterCallCPU, TypeOK, ControlTyped, Threads
<1>2. /\ last \in Frames /\ RequestsIn(Front(stack[t])) \in Nat
      /\ RequestsIn(stack[t]) = RequestsIn(Front(stack[t])) + last.counters.ui
  BY <1>1, OnTop
<1>3. last.counters \in Counters /\ fSuspendState \in Counters
  BY <1>2 DEF Frames, TypeOK
<1>4. /\ saved \in Counters /\ saved.ui = last.counters.ui + fSuspendState.ui
      /\ capped.ui = last.counters.ui + fSuspendState.ui
      /\ last.counters.ui \in Nat /\ fSuspendState.ui \in Nat
  BY <1>3, FoldedRequests
<1>5. CASE Standing(fSuspendState) = Zero
  <2>1. /\ stack' = [stack EXCEPT ![t] = [@ EXCEPT ![Len(stack[t])] = frame]]
        /\ fSuspendState' = Zero
    BY <1>5 DEF AfterCallCPU, Last
  <2> HIDE DEF saved, capped
  <2>2. frame \in Frames /\ frame.next = last.next /\ frame.counters = saved
    BY <1>2, <1>4 DEF Frames
  <2> HIDE DEF frame
  <2>3. RequestsIn(stack'[t]) = RequestsIn(Front(stack[t])) + saved.ui
    BY <1>1, <2>1, <2>2, OnTop
  <2>4. \A s \in Threads : s # t => stack'[s] = stack[s]
    BY <1>1, <2>1, <2>2, Replaced
  <2>5. fSuspendState'.ui = 0
    BY <2>1 DEF Zero
  <2>6. fSuspendState'.ui + RequestsIn(stack'[t]) = fSuspendState.ui + RequestsIn(stack[t])
    BY <1>2, <1>4, <2>3, <2>5
  <2>7. QED
    BY <2>4, <2>6, Shifted
<1>6. CASE Standing(fSuspendState) # Zero
  <2>1. stack' = [stack EXCEPT ![t] = Front(@)] /\ fSuspendState' = capped
    BY <1>6 DEF AfterCallCPU
  <2> HIDE DEF saved, capped
  <2>2. stack'[t] = Front(stack[t]) /\ \A s \in Threads : s # t => stack'[s] = stack[s]
    BY <2>1 DEF TypeOK, StacksTyped
  <2>3. fSuspendState'.ui + RequestsIn(stack'[t]) = fSuspendState.ui + RequestsIn(stack[t])
    BY <1>2, <1>4, <2>1, <2>2
  <2>4. QED
    BY <2>2, <2>3, Shifted
<1>7. QED
  BY <1>5, <1>6

\* A step that leaves the stacks and the count of requests alone.
LEMMA Uncounted ==
  ASSUME stack' = stack, fSuspendState'.ui = fSuspendState.ui
  PROVE  Requests' = Requests
BY DEF Requests, SavedRequests

\* The emulation loop and ExecuteSubroutine, on either thread, keep the requests, and
\* make and grant none.
LEMMA EmulationCounts ==
  ASSUME DialogsApart, TypeOK, TypeOK', IInv, NEW t \in Threads, Emulation(t)
  PROVE  /\ Requests' = Requests
         /\ UNCHANGED <<holds, how, fStop>>
         /\ t = "cpu" => pc'["ui"] = pc["ui"]
         /\ t = "ui" => "suspend" \notin {pc["ui"], pc'["ui"]}
<1>1. pc \in [Threads -> CPUPlaces \cup UIPlaces] /\ fSuspendState \in Counters
  BY DEF TypeOK, ControlTyped
<1>2. ~NestedError(t) /\ ~Drop(t) /\ (Unwind(t) => t = "cpu")
  BY DEF NestedError, Happens, DialogsApart, Unwind, Drop, IInv, Dialogs, Threads
<1>3. UNCHANGED <<holds, how, fStop>>
  BY <1>2 DEF Emulation, CallCPU, CallCPUReturns, AfterCallCPU, EndOfCycle, ExecuteSpecial,
     RomCall, Entering, SubroutineReturns, Unwind, Scheduling, ui
<1>4. /\ t = "cpu" => pc'["ui"] = pc["ui"]
      /\ t = "ui" => "suspend" \notin {pc["ui"], pc'["ui"]}
  <2>1. CASE AfterCallCPU(t)
    <3>1. Calling(t)
      BY <2>1 DEF AfterCallCPU, TypeOK, ControlTyped, Threads
    <3>2. Last(stack[t]).next \in {"execute", "taskInfo", "idle"}
      BY <3>1, OnTop DEF Frames
    <3>3. /\ pc[t] = "fold"
          /\ \E where \in {"call", "execute", "taskInfo", "idle"} : pc' = [pc EXCEPT ![t] = where]
      BY <2>1, <3>2 DEF AfterCallCPU, Goto
    <3>4. QED
      BY <1>1, <3>3 DEF Threads
  <2>2. CASE ~AfterCallCPU(t)
    <3>1. /\ pc[t] # "suspend"
          /\ \E where \in {"execute", "fold", "top", "special", "return", "call", "drop",
                           "caught"} :
               pc' = [pc EXCEPT ![t] = where]
      BY <1>2, <2>2 DEF Emulation, CallCPU, CallCPUReturns, EndOfCycle, ExecuteSpecial,
         RomCall, Happens, Entering, ExecuteSubroutine, SubroutineReturns, Unwind,
         Scheduling, Goto
    <3>2. QED
      BY <1>1, <3>1 DEF Threads
  <2>3. QED
    BY <2>1, <2>2
<1>5. Requests' = Requests
  <2>1. CASE CallCPU(t)
    BY <2>1, CallCPUCounts
  <2>2. CASE AfterCallCPU(t)
    BY <2>2, AfterCallCPUCounts
  <2>3. CASE CallCPUReturns(t) \/ EndOfCycle(t) \/ ExecuteSpecial(t) \/ Unwind(t)
    BY <2>3, Uncounted DEF CallCPUReturns, EndOfCycle, ExecuteSpecial, Unwind, Scheduling,
       stacks
  <2>4. CASE SubroutineReturns(t)
    <3>1. stack' = stack /\ fSuspendState' = [fSuspendState EXCEPT !.subroutine = TRUE]
      BY <2>4 DEF SubroutineReturns, Schedule, Scheduling, stacks
    <3>2. fSuspendState'.ui = fSuspendState.ui
      BY <1>1, <3>1 DEF Counters
    <3>3. QED
      BY <3>1, <3>2, Uncounted
  <2>5. CASE RomCall(t)
    <3>1. pc[t] = "execute" /\ Entering(t, "execute")
      BY <2>5 DEF RomCall, Happens
    <3>2. t = "ui" => Len(stack[t]) + 1 # 1
      <4>1. t = "ui" => Len(stack[t]) >= 1
        BY <3>1, Depths DEF TypeOK, ControlTyped
      <4>2. \A n \in Nat : n >= 1 => n + 1 # 1
        OBVIOUS
      <4>3. QED
        BY <4>1, <4>2, Depths
    <3>3. "execute" \in Returns(t, Len(stack[t]) + 1)
      BY <3>2 DEF Returns, Threads
    <3>4. QED
      BY <3>1, <3>3, EnteringCounts
  <2>6. QED
    BY <1>2, <2>1, <2>2, <2>3, <2>4, <2>5 DEF Emulation
<1>6. QED
  BY <1>3, <1>4, <1>5

\* The CPU thread sets requests of the UI thread aside and restores them; a reset keeps
\* them.
LEMMA CPUThreadCounts ==
  ASSUME DialogsApart, TypeOK, TypeOK', IInv, CPUThread
  PROVE  /\ Requests' = Requests
         /\ UNCHANGED <<holds, how, fStop>>
         /\ pc'["ui"] = pc["ui"]
<1>1. fSuspendState \in Counters
  BY DEF TypeOK
<1>2. pc'["ui"] = pc["ui"] /\ holds' = holds
  BY CPUMoves
<1>3. CASE RunTop \/ RunWake
  BY <1>2, <1>3, Uncounted DEF RunTop, RunWake, stacks, ui
<1>4. CASE Emulation("cpu")
  BY <1>4, EmulationCounts DEF Threads
<1>5. CASE CycleSlowly \/ Breakpoint \/ SignalWaiters \/ SysCallInUITask
             \/ SysCallInBackgroundTask
  <2>1. /\ stack' = stack /\ UNCHANGED <<holds, how, fStop>>
        /\ \/ fSuspendState' = fSuspendState
           \/ fSuspendState' = [fSuspendState EXCEPT !.debugger = @ + 1]
           \/ fSuspendState' = [fSuspendState EXCEPT !.external = @ + 1, !.sysCall = TRUE]
           \/ fSuspendState' = [fSuspendState EXCEPT !.sysCall = TRUE]
    BY <1>5 DEF CycleSlowly, Breakpoint, SignalWaiters, SysCallInUITask,
       SysCallInBackgroundTask, Schedule, Scheduling, stacks, ui
  <2>2. \A c \in Counters : /\ [c EXCEPT !.debugger = @ + 1].ui = c.ui
                            /\ [c EXCEPT !.external = @ + 1, !.sysCall = TRUE].ui = c.ui
                            /\ [c EXCEPT !.sysCall = TRUE].ui = c.ui
    BY DEF Counters
  <2>3. fSuspendState'.ui = fSuspendState.ui
    <3>1. CASE fSuspendState' = [fSuspendState EXCEPT !.debugger = @ + 1]
      BY <1>1, <2>2, <3>1
    <3>2. CASE fSuspendState' = [fSuspendState EXCEPT !.external = @ + 1, !.sysCall = TRUE]
      BY <1>1, <2>2, <3>2
    <3>3. CASE fSuspendState' = [fSuspendState EXCEPT !.sysCall = TRUE]
      BY <1>1, <2>2, <3>3
    <3>4. QED
      BY <2>1, <3>1, <3>2, <3>3
  <2>4. QED
    BY <1>2, <2>1, <2>3, Uncounted
<1>6. CASE HandleSystemCall \/ SysCallInRootTask
  <2>1. \E next \in {"execute", "taskInfo"} : Entering("cpu", next)
    BY <1>6 DEF HandleSystemCall, SysCallInRootTask
  <2>2. Returns("cpu", Len(stack["cpu"]) + 1) = {"execute", "taskInfo"}
    BY DEF Returns
  <2>3. Requests' = Requests
    BY <2>1, <2>2, EnteringCounts DEF Threads
  <2>4. QED
    BY <1>2, <2>1, <2>3 DEF Entering, ui
<1>7. CASE DeviceResets \/ CPUThreadResets
  <2>1. stack' = stack /\ fSuspendState'.ui = fSuspendState.ui
    BY <1>7 DEF DeviceResets, CPUThreadResets, Reset, Zero, stacks
  <2>2. QED
    BY <1>2, <1>7, <2>1, Uncounted DEF DeviceResets, CPUThreadResets, ui
<1>8. CASE \/ DeviceError \/ Caught \/ BlockOnDialog \/ DialogWake
           \/ ButtonContinue \/ ButtonReset \/ ButtonDebugFails
  BY <1>2, <1>8, Uncounted DEF DeviceError, Caught, BlockOnDialog, DialogWake,
     ButtonContinue, ButtonReset, ButtonDebugFails, monitor, stacks, ui
<1>9. CASE ButtonDebug
  <2>1. stack' = stack /\ fSuspendState' = [fSuspendState EXCEPT !.debugger = @ + 1]
    BY <1>9 DEF ButtonDebug, Schedule
  <2>2. fSuspendState'.ui = fSuspendState.ui
    BY <1>1, <2>1 DEF Counters
  <2>3. QED
    BY <1>2, <1>9, <2>1, <2>2, Uncounted DEF ButtonDebug, ui
<1>10. QED
  BY <1>3, <1>4, <1>5, <1>6, <1>7, <1>8, <1>9 DEF CPUThread

\* A step that makes or withdraws requests.
LEMMA Counted ==
  ASSUME TypeOK, TypeOK', stack' = stack, NEW k \in Int,
         fSuspendState'.ui = fSuspendState.ui + k
  PROVE  Requests' = Requests + k
<1>1. /\ fSuspendState.ui \in Nat
      /\ RequestsIn(stack["cpu"]) \in Nat /\ RequestsIn(stack["ui"]) \in Nat
  BY RequestsTyped DEF Threads
<1>2. \A a, b, c \in Nat : a + k + b + c = a + b + c + k
  OBVIOUS
<1>3. fSuspendState'.ui + RequestsIn(stack["cpu"]) + RequestsIn(stack["ui"])
        = fSuspendState.ui + RequestsIn(stack["cpu"]) + RequestsIn(stack["ui"]) + k
  BY <1>1, <1>2
<1>4. QED
  BY <1>3 DEF Requests, SavedRequests

\* SuspendThread grants a stopper with the request that was made for it, or with the
\* one it makes now; kStopOnSysCall may return without either.
LEMMA FinishCounts ==
  ASSUME TypeOK, IInv, NEW method \in AllStopMethods, NEW reasons \in Counters,
         Finish(method, reasons)
  PROVE  /\ pc'["ui"] \in {"idle", "dialog"}
         /\ \/ /\ Len(holds') = Len(holds) + 1
               /\ fSuspendState'.ui = reasons.ui + (IF method = "kStopNow" THEN 0 ELSE 1)
            \/ /\ method # "kStopNow" /\ Len(holds') = Len(holds)
               /\ fSuspendState'.ui = reasons.ui
<1> DEFINE Stoppers == [how : AllStopMethods, blocked : BOOLEAN]
           stopper  == [how |-> method, blocked |-> fState = "kBlockedOnUI"]
           stopped  == method = "kStopOnSysCall" => fState = "kSuspended" /\ reasons.sysCall
<1>1. /\ pc \in [Threads -> CPUPlaces \cup UIPlaces]
      /\ \E where \in {"idle", "dialog"} : pc' = [pc EXCEPT !["ui"] = where]
  BY DEF Finish, Goto, Home, TypeOK, ControlTyped
<1>2. holds \in Seq(Stoppers) /\ stopper \in Stoppers
  BY DEF TypeOK
<1>3. holds' = IF stopped THEN Append(holds, stopper) ELSE holds
  BY DEF Finish
<1>4. fSuspendState' = IF stopped /\ method = "kStopOnSysCall"
                       THEN [reasons EXCEPT !.ui = @ + 1] ELSE reasons
  BY DEF Finish
<1>5. method = "kStopNow" \/ method = "kStopOnSysCall"
  BY DEF AllStopMethods
<1>6. reasons.ui \in Nat /\ [reasons EXCEPT !.ui = @ + 1].ui = reasons.ui + 1
  BY DEF Counters
<1>7. method = "kStopNow" => stopped
  OBVIOUS
<1> HIDE DEF Stoppers, stopper, stopped
<1>8. Len(Append(holds, stopper)) = Len(holds) + 1
  BY <1>2, AppendProperties
<1>9. pc'["ui"] \in {"idle", "dialog"}
  BY <1>1 DEF Threads
<1>10. CASE stopped
  <2>1. Len(holds') = Len(holds) + 1
    BY <1>3, <1>8, <1>10
  <2>2. fSuspendState'.ui = reasons.ui + (IF method = "kStopNow" THEN 0 ELSE 1)
    BY <1>4, <1>5, <1>6, <1>10
  <2>3. QED
    BY <1>9, <2>1, <2>2
<1>11. CASE ~stopped
  BY <1>3, <1>4, <1>7, <1>9, <1>11
<1>12. QED
  BY <1>10, <1>11

\* SuspendThread and its wake-ups.
LEMMA SuspendCounts ==
  ASSUME TypeOK, TypeOK', IInv, RequestsConserved,
         SuspendWake \/ \E method \in StopMethods : SuspendThread(method)
  PROVE  RequestsConserved'
<1>1. /\ fSuspendState \in Counters /\ fSuspendState.ui \in Nat /\ Len(holds) \in Nat
      /\ RequestsIn(stack["cpu"]) \in Nat /\ RequestsIn(stack["ui"]) \in Nat
  BY RequestsTyped DEF Threads
<1>2. /\ Requests \in Nat /\ Awaited \in 0 .. 1 /\ Ending \in 0 .. 1
      /\ Requests = Claims
  <2>1. Requests \in Nat
    BY <1>1 DEF Requests, SavedRequests
  <2>2. Requests = Claims
    BY DEF Requests, RequestsConserved, Claims, Awaited, Ending
  <2>3. QED
    BY <2>1, <2>2 DEF Awaited, Ending
<1>3. /\ stack' = stack /\ Ending' = Ending
      /\ pc \in [Threads -> CPUPlaces \cup UIPlaces]
  BY DEF SuspendWake, SuspendThread, stacks, TypeOK, ControlTyped, Ending
<1>4. SUFFICES Requests' = Claims'
  BY DEF Requests, Claims, Awaited, Ending, RequestsConserved
<1>5. ASSUME NEW method \in StopMethods, SuspendThread(method)
      PROVE  Requests' = Claims'
  <2> DEFINE k       == IF method = "kStopNow" THEN 1 ELSE 0
             reasons == IF method = "kStopNow" THEN [fSuspendState EXCEPT !.ui = @ + 1]
                                               ELSE fSuspendState
  <2>1. /\ method \in AllStopMethods /\ how' = method /\ pc["ui"] # "suspend"
        /\ k \in 0 .. 1
    BY <1>5, BoundsAssumption DEF SuspendThread
  <2>2. reasons \in Counters /\ reasons.ui = fSuspendState.ui + k
    <3>1. /\ [fSuspendState EXCEPT !.ui = @ + 1] \in Counters
          /\ [fSuspendState EXCEPT !.ui = @ + 1].ui = fSuspendState.ui + 1
      BY <1>1, CounterSteps DEF Counters
    <3>2. QED
      BY <1>1, <3>1
  <2>3. CASE fState = "kRunning"
    <3>1. /\ fSuspendState' = reasons /\ holds' = holds
          /\ pc' = [pc EXCEPT !["ui"] = "suspend"]
      BY <1>5, <2>3 DEF SuspendThread, Goto
    <3> HIDE DEF reasons
    <3>2. Requests' = Requests + k
      BY <1>3, <2>1, <2>2, <3>1, Counted
    <3>3. pc'["ui"] = "suspend"
      BY <1>3, <3>1 DEF Threads
    <3>4. Claims' = Claims + k
      <4>1. Awaited = 0 /\ Awaited' = k
        BY <2>1, <3>3 DEF Awaited
      <4> HIDE DEF k
      <4>2. QED
        BY <1>1, <1>2, <1>3, <2>1, <3>1, <4>1 DEF Claims
    <3>5. QED
      BY <1>2, <3>2, <3>4
  <2>4. CASE fState # "kRunning"
    <3>1. Finish(method, reasons)
      BY <1>5, <2>4 DEF SuspendThread
    <3> HIDE DEF reasons
    <3>2. /\ pc'["ui"] \in {"idle", "dialog"}
          /\ \/ /\ Len(holds') = Len(holds) + 1
                /\ fSuspendState'.ui = reasons.ui + (IF method = "kStopNow" THEN 0 ELSE 1)
             \/ /\ method # "kStopNow" /\ Len(holds') = Len(holds)
                /\ fSuspendState'.ui = reasons.ui
      BY <2>1, <2>2, <3>1, FinishCounts
    <3>3. CASE Len(holds') = Len(holds) + 1 /\ fSuspendState'.ui = fSuspendState.ui + 1
      <4>1. Requests' = Requests + 1
        BY <1>3, <3>3, Counted
      <4>2. Awaited = 0 /\ Awaited' = 0
        BY <2>1, <3>2 DEF Awaited
      <4>3. Claims' = Claims + 1
        BY <1>1, <1>2, <1>3, <3>3, <4>2 DEF Claims
      <4>4. QED
        BY <1>2, <4>1, <4>3
    <3>4. CASE Len(holds') = Len(holds) /\ fSuspendState'.ui = fSuspendState.ui
      <4>1. Requests' = Requests
        BY <1>3, <3>4, Uncounted
      <4>2. Awaited = 0 /\ Awaited' = 0
        BY <2>1, <3>2 DEF Awaited
      <4>3. Claims' = Claims
        BY <1>1, <1>2, <1>3, <3>4, <4>2 DEF Claims
      <4>4. QED
        BY <1>2, <4>1, <4>3
    <3>5. QED
      BY <1>1, <2>1, <2>2, <3>2, <3>3, <3>4
  <2>5. QED
    BY <2>3, <2>4
<1>6. CASE SuspendWake
  <2>1. pc["ui"] = "suspend" /\ how' = how /\ how \in AllStopMethods
    BY <1>6 DEF SuspendWake, TypeOK, ControlTyped
  <2>2. CASE fState = "kRunning"
    <3>1. fSuspendState' = fSuspendState /\ holds' = holds /\ pc' = pc
      BY <1>6, <2>2 DEF SuspendWake
    <3>2. Requests' = Requests
      BY <1>3, <3>1, Uncounted
    <3>3. Claims' = Claims
      BY <1>3, <2>1, <3>1 DEF Claims, Awaited
    <3>4. QED
      BY <1>2, <3>2, <3>3
  <2>3. CASE fState # "kRunning"
    <3> DEFINE k == IF how = "kStopNow" THEN 0 ELSE 1
    <3>1. Finish(how, fSuspendState)
      BY <1>6, <2>3 DEF SuspendWake
    <3>2. /\ pc'["ui"] \in {"idle", "dialog"}
          /\ \/ /\ Len(holds') = Len(holds) + 1
                /\ fSuspendState'.ui = fSuspendState.ui + k
             \/ /\ how # "kStopNow" /\ Len(holds') = Len(holds)
                /\ fSuspendState'.ui = fSuspendState.ui
      BY <1>1, <2>1, <3>1, FinishCounts
    <3>3. CASE Len(holds') = Len(holds) + 1 /\ fSuspendState'.ui = fSuspendState.ui + k
      <4>1. Requests' = Requests + k
        BY <1>3, <3>3, Counted
      <4>2. k \in 0 .. 1 /\ Awaited = 1 - k /\ Awaited' = 0
        BY <2>1, <3>2 DEF Awaited
      <4> HIDE DEF k
      <4>3. Claims' = Claims + k
        BY <1>1, <1>2, <1>3, <3>3, <4>2 DEF Claims
      <4>4. QED
        BY <1>2, <4>1, <4>3
    <3>4. CASE how # "kStopNow" /\ Len(holds') = Len(holds)
               /\ fSuspendState'.ui = fSuspendState.ui
      <4>1. Requests' = Requests
        BY <1>3, <3>4, Uncounted
      <4>2. Awaited = 0 /\ Awaited' = 0
        BY <3>2, <3>4 DEF Awaited
      <4>3. Claims' = Claims
        BY <1>1, <1>2, <1>3, <3>4, <4>2 DEF Claims
      <4>4. QED
        BY <1>2, <4>1, <4>3
    <3>5. QED
      BY <3>2, <3>3, <3>4
  <2>4. QED
    BY <2>2, <2>3
<1>7. QED
  BY <1>5, <1>6

\* The destructor of a stopper withdraws the request it stands for, which counts in the
\* counters themselves: there is no nested call to have saved it.
LEMMA ResumeCounts ==
  ASSUME TypeOK, TypeOK', IInv, RequestsConserved, ResumeThread
  PROVE  RequestsConserved'
<1> DEFINE counted == [fSuspendState EXCEPT !.ui = @ - 1]
           reasons == [counted EXCEPT !.sysCall = @ /\ ~(counted.ui = 0 /\ counted.external = 0)]
<1>1. /\ pc["ui"] = "idle" /\ holds # <<>> /\ ~Calling("ui")
      /\ pc \in [Threads -> CPUPlaces \cup UIPlaces]
      /\ fSuspendState.ui >= Len(holds)
  BY DEF ResumeThread, TypeOK, ControlTyped, IInv, Parking, Asking, UIInside
<1>2. /\ fSuspendState \in Counters /\ fSuspendState.ui \in Nat /\ fSuspendState.ui > 0
      /\ Len(holds) \in Nat
  BY <1>1, Holding, Requested DEF TypeOK
<1>3. /\ pc' = [pc EXCEPT !["ui"] = "idle"] /\ holds' = Front(holds)
      /\ fSuspendState' = reasons /\ stack' = stack /\ Ending' = Ending
  <2>1. dialog = "none"
    BY <1>1 DEF IInv, Dialogs, Parking, UIInside
  <2>2. QED
    BY <1>1, <1>2, <2>1 DEF ResumeThread, Goto, Home, stacks, Ending
<1>4. reasons.ui = fSuspendState.ui - 1
  <2>1. counted \in Counters /\ counted.ui = fSuspendState.ui - 1
    BY <1>2, CounterSteps DEF Counters
  <2> HIDE DEF counted
  <2>2. QED
    BY <2>1 DEF Counters
<1> HIDE DEF counted, reasons
<1>5. Len(holds') = Len(holds) - 1
  <2> DEFINE Stoppers == [how : AllStopMethods, blocked : BOOLEAN]
  <2>1. holds \in Seq(Stoppers)
    BY DEF TypeOK
  <2> HIDE DEF Stoppers
  <2>2. QED
    BY <1>1, <1>3, <2>1, FrontLast
<1>6. Requests' = Requests + (-1)
  <2>1. fSuspendState'.ui = fSuspendState.ui + (-1)
    BY <1>2, <1>3, <1>4
  <2>2. QED
    BY <1>3, <2>1, Counted
<1>7. Awaited = 0 /\ Awaited' = 0 /\ Ending \in 0 .. 1
  BY <1>1, <1>3 DEF Awaited, Ending, Threads
<1>8. Claims' = Claims + (-1) /\ Claims \in Nat
  BY <1>2, <1>3, <1>5, <1>7 DEF Claims
<1>9. Requests = Claims
  BY DEF Requests, RequestsConserved, Claims, Awaited, Ending
<1>10. Requests' = Claims'
  BY <1>6, <1>8, <1>9
<1>11. QED
  BY <1>10 DEF Requests, RequestsConserved, Claims, Awaited, Ending

\* DestroyThread asks the CPU thread to end with one request more.
LEMMA DestroyCounts ==
  ASSUME TypeOK, TypeOK', IInv, RequestsConserved, DestroyThread
  PROVE  RequestsConserved'
<1>1. /\ pc["ui"] = "close" /\ pc \in [Threads -> CPUPlaces \cup UIPlaces]
      /\ pc' = [pc EXCEPT !["ui"] = "destroy"]
      /\ fStop' = TRUE /\ fSuspendState' = [fSuspendState EXCEPT !.ui = @ + 1]
      /\ stack' = stack /\ holds' = holds
  BY DEF DestroyThread, Goto, stacks, ui, TypeOK, ControlTyped
<1>2. fSuspendState \in Counters /\ fSuspendState.ui \in Nat /\ Len(holds) \in Nat
  BY RequestsTyped
<1>3. Requests' = Requests + 1
  <2>1. fSuspendState'.ui = fSuspendState.ui + 1
    BY <1>1, <1>2 DEF Counters
  <2>2. QED
    BY <1>1, <2>1, Counted
<1>4. Ending = 0 /\ Ending' = 1
  BY <1>1 DEF IInv, Parking, Ending
<1>5. Awaited = 0 /\ Awaited' = 0
  BY <1>1 DEF Awaited, Threads
<1>6. Claims' = Claims + 1 /\ Claims \in Nat
  BY <1>1, <1>2, <1>4, <1>5 DEF Claims
<1>7. Requests = Claims
  BY DEF Requests, RequestsConserved, Claims, Awaited, Ending
<1>8. Requests' = Claims'
  BY <1>3, <1>6, <1>7
<1>9. QED
  BY <1>8 DEF Requests, RequestsConserved, Claims, Awaited, Ending

\* The other steps of the UI thread make no requests and grant none.
LEMMA UIThreadCounts ==
  ASSUME DialogsApart, TypeOK, TypeOK', IInv, UIThread, ~ResumeThread, ~DestroyThread,
         ~(SuspendWake \/ \E method \in StopMethods : SuspendThread(method))
  PROVE  Requests' = Requests /\ Claims' = Claims
<1>1. /\ fSuspendState \in Counters
      /\ pc \in [Threads -> CPUPlaces \cup UIPlaces]
  BY DEF TypeOK, ControlTyped
<1>2. SUFFICES /\ Requests' = Requests /\ UNCHANGED <<holds, fStop>>
               /\ "suspend" \notin {pc["ui"], pc'["ui"]}
  BY DEF Claims, Awaited, Ending
<1>3. CASE UIRomCall
  <2>1. pc["ui"] = "idle" /\ Entering("ui", "idle")
    BY <1>3 DEF UIRomCall
  <2>2. Len(stack["ui"]) = 0
    <3>1. ~Calling("ui")
      BY <2>1 DEF TypeOK, ControlTyped
    <3>2. QED
      BY <3>1, EmptySeq DEF Calling, TypeOK, StacksTyped, Threads
  <2>3. "idle" \in Returns("ui", Len(stack["ui"]) + 1)
    BY <2>2 DEF Returns
  <2>4. Requests' = Requests
    BY <2>1, <2>3, EnteringCounts DEF Threads
  <2>5. QED
    BY <1>1, <2>1, <2>4 DEF Entering, ExecuteSubroutine, Goto, ui, Threads
<1>4. CASE Emulation("ui")
  BY <1>4, EmulationCounts DEF Threads
<1>5. CASE HostSignalResume \/ PacketEntersDebugger \/ PacketExitsDebugger
  <2>1. /\ \/ fSuspendState' = [fSuspendState EXCEPT !.external = @ - 1]
           \/ fSuspendState' = [fSuspendState EXCEPT !.debugger = 1]
           \/ fSuspendState' = [fSuspendState EXCEPT !.debugger = 0]
        /\ stack' = stack /\ UNCHANGED <<holds, fStop>>
        /\ pc["ui"] \in {"execute", "idle"}
        /\ \E where \in {"execute", "idle"} : pc' = [pc EXCEPT !["ui"] = where]
    BY <1>5 DEF HostSignalResume, PacketEntersDebugger, PacketExitsDebugger, Schedule,
       Scheduling, Goto, stacks, ui
  <2>2. \A c \in Counters : /\ [c EXCEPT !.external = @ - 1].ui = c.ui
                            /\ [c EXCEPT !.debugger = 1].ui = c.ui
                            /\ [c EXCEPT !.debugger = 0].ui = c.ui
    BY DEF Counters
  <2>3. fSuspendState'.ui = fSuspendState.ui
    <3>1. CASE fSuspendState' = [fSuspendState EXCEPT !.external = @ - 1]
      BY <1>1, <2>2, <3>1
    <3>2. CASE fSuspendState' = [fSuspendState EXCEPT !.debugger = 1]
      BY <1>1, <2>2, <3>2
    <3>3. CASE fSuspendState' = [fSuspendState EXCEPT !.debugger = 0]
      BY <1>1, <2>2, <3>3
    <3>4. QED
      BY <2>1, <3>1, <3>2, <3>3
  <2>4. Requests' = Requests
    BY <2>1, <2>3, Uncounted
  <2>5. QED
    BY <1>1, <2>1, <2>4 DEF Threads
<1>6. CASE UIThreadResets
  <2>1. stack' = stack /\ fSuspendState'.ui = fSuspendState.ui
    BY <1>6 DEF UIThreadResets, Reset, Zero, stacks
  <2>2. QED
    BY <1>6, <2>1, Uncounted DEF UIThreadResets, ui
<1>7. ~PacketHandlerResets
  BY DEF PacketHandlerResets, IInv, Dialogs
<1>8. CASE CloseDocument \/ DestroyWake \/ ShowDialog \/ AnswerDialog \/ UnblockDialog
  <2>1. stack' = stack /\ fSuspendState' = fSuspendState /\ UNCHANGED <<holds, fStop>>
    BY <1>8 DEF CloseDocument, DestroyWake, ShowDialog, AnswerDialog, UnblockDialog, monitor,
       stacks, ui
  <2>2. "suspend" \notin {pc["ui"], pc'["ui"]}
    BY <1>1, <1>8 DEF CloseDocument, DestroyWake, ShowDialog, AnswerDialog, UnblockDialog,
       Goto, Threads
  <2>3. QED
    BY <2>1, <2>2, Uncounted
<1>9. QED
  BY <1>3, <1>4, <1>5, <1>6, <1>7, <1>8 DEF UIThread

\* Every step of the session keeps the two sides equal.
LEMMA StepCounts ==
  ASSUME DialogsApart, TypeOK, IInv, RequestsConserved, [Next]_vars
  PROVE  RequestsConserved'
<1>1. TypeOK'
  BY StepTyped
<1>2. Requests = Claims
  BY DEF Requests, RequestsConserved, Claims, Awaited, Ending
<1>3. Requests' = Claims' => RequestsConserved'
  BY DEF Requests, RequestsConserved, Claims, Awaited, Ending
<1>4. CASE CPUThread
  <2>1. Requests' = Requests /\ UNCHANGED <<holds, how, fStop>> /\ pc'["ui"] = pc["ui"]
    BY <1>1, <1>4, CPUThreadCounts
  <2>2. Claims' = Claims
    BY <2>1 DEF Claims, Awaited, Ending
  <2>3. QED
    BY <1>2, <1>3, <2>1, <2>2
<1>5. CASE UIThread
  BY <1>1, <1>2, <1>3, <1>5, SuspendCounts, ResumeCounts, DestroyCounts, UIThreadCounts
<1>6. CASE Terminated \/ UNCHANGED vars \/ \E t \in Threads : SpuriousWakeup(t)
  <2>1. UNCHANGED <<fSuspendState, stack, holds, how, fStop, pc>>
    BY <1>6 DEF Terminated, SpuriousWakeup, vars, monitor, stacks, ui
  <2>2. Requests' = Requests /\ Claims' = Claims
    BY <2>1 DEF Requests, SavedRequests, Claims, Awaited, Ending
  <2>3. QED
    BY <1>2, <1>3, <2>2
<1>7. QED
  BY <1>4, <1>5, <1>6 DEF Next

\* RequestsConserved: the fold of ExecuteSubroutine, resets, breakpoints and packets
\* between a SuspendThread and its ResumeThread lose no request and add none.
THEOREM Conservation == DialogsApart => (Spec => []RequestsConserved)
<1> SUFFICES ASSUME DialogsApart PROVE Spec => []RequestsConserved
  OBVIOUS
<1>1. Init => RequestsConserved
  <2> SUFFICES ASSUME Init PROVE RequestsConserved
    OBVIOUS
  <2>1. /\ fSuspendState.ui = 0 /\ Len(holds) = 0 /\ ~fStop /\ pc["ui"] = "idle"
        /\ stack["cpu"] = <<>> /\ stack["ui"] = <<>>
    BY EmptySeq DEF Init, Zero, Threads
  <2>2. SavedRequests("cpu") = 0 /\ SavedRequests("ui") = 0
    BY <2>1, NothingSaved, EmptySeq DEF SavedRequests
  <2>3. QED
    BY <2>1, <2>2 DEF RequestsConserved
<1>2. TypeOK /\ IInv /\ RequestsConserved /\ [Next]_vars => RequestsConserved'
  BY StepCounts
<1>3. QED
  BY <1>1, <1>2, Invariance, PTL DEF Spec
===============================================================================
