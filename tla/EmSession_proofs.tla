--------------------------- MODULE EmSession_proofs ---------------------------
(***************************************************************************)
(* Theorems about EmSession, for every value of its constants.              *)
(*                                                                          *)
(* Typing: TypeOK is inductive as it stands, because it also says what the   *)
(* code relies on without testing it: that a thread about to leave an        *)
(* activation of ExecuteSubroutine has one, that the activation returns to   *)
(* a place of its own thread, and that a thread waiting for the session to   *)
(* stop was told how.                                                        *)
(*                                                                          *)
(* Blocked and Unwinding are about sessions with dialogs and exceptions on   *)
(* which the UI thread makes no calls: what BlockOnDialog says of the        *)
(* session stands (Blocking), and the depth that each activation of          *)
(* ExecuteSubroutine saved is the one it was called at (Levels).             *)
(***************************************************************************)
EXTENDS EmSession, SequenceTheorems, TLAPS

\* What the sequence operators of the model return.
LEMMA FrontLast ==
  ASSUME NEW S, NEW s \in Seq(S), s # <<>>
  PROVE  /\ Front(s) \in Seq(S)
         /\ Last(s) \in S
         /\ Len(s) \in Nat \ {0}
         /\ Len(Front(s)) = Len(s) - 1
         /\ \A i \in 1..(Len(s) - 1): Front(s)[i] = s[i]
<1>1. Len(s) \in Nat \ {0}
  BY EmptySeq, LenProperties
<1>2. \A i \in 1..Len(s): s[i] \in S
  BY ElementOfSeq
<1>3. Last(s) \in S
  BY <1>1, <1>2 DEF Last
<1>4. \A i \in 1..(Len(s) - 1): s[i] \in S
  BY <1>1, <1>2
<1> DEFINE n == Len(s) - 1
<1>5. n \in Int /\ 1 \in Int
  BY <1>1
<1>6. /\ SubSeq(s, 1, n) \in Seq(S)
      /\ Len(SubSeq(s, 1, n)) = IF 1 <= n THEN n - 1 + 1 ELSE 0
      /\ \A i \in 1..(n - 1 + 1): SubSeq(s, 1, n)[i] = s[1 + i - 1]
  <2> HIDE DEF n
  <2>1. \A i \in 1..n: s[i] \in S
    BY <1>4 DEF n
  <2>2. QED
    BY <2>1, <1>5, SubSeqProperties
<1>7. /\ Front(s) \in Seq(S)
      /\ Len(Front(s)) = Len(s) - 1
  <2>1. Front(s) = SubSeq(s, 1, n)
    BY DEF Front
  <2>2. \A k \in Int: k >= 0 => (IF 1 <= k THEN k - 1 + 1 ELSE 0) = k
    OBVIOUS
  <2>3. n \in Int /\ n >= 0
    BY <1>1
  <2>4. (IF 1 <= n THEN n - 1 + 1 ELSE 0) = Len(s) - 1
    BY <2>2, <2>3
  <2> HIDE DEF n
  <2>5. QED
    BY <2>1, <2>4, <1>6
<1>8. \A i \in 1..(Len(s) - 1): Front(s)[i] = s[i]
  <2> SUFFICES ASSUME NEW i \in 1..(Len(s) - 1) PROVE Front(s)[i] = s[i]
    OBVIOUS
  <2>1. i \in 1..(n - 1 + 1) /\ 1 + i - 1 = i
    BY <1>1
  <2>2. QED
    BY <1>6, <2>1 DEF Front
<1>9. QED
  BY <1>1, <1>3, <1>7, <1>8

\* Entering a subroutine pushes a frame,
LEMMA Push ==
  ASSUME NEW st, StacksTyped(st), NEW t \in Threads, NEW f \in Frames,
         f.next \in Returns(t, Len(st[t]) + 1)
  PROVE  StacksTyped([st EXCEPT ![t] = Append(@, f)])
<1> DEFINE pushed == Append(st[t], f)
<1>1. st \in [Threads -> Seq(Frames)] /\ st[t] \in Seq(Frames)
  BY DEF StacksTyped
<1>2. pushed \in Seq(Frames) /\ Len(pushed) = Len(st[t]) + 1
  BY <1>1, AppendProperties
<1>3. \A i \in 1..Len(pushed): pushed[i].next \in Returns(t, i)
  <2> SUFFICES ASSUME NEW i \in 1..Len(pushed) PROVE pushed[i].next \in Returns(t, i)
    OBVIOUS
  <2>1. CASE i = Len(st[t]) + 1
    BY <1>1, <2>1, AppendProperties
  <2>2. CASE i # Len(st[t]) + 1
    <3>1. Len(st[t]) \in Nat
      BY <1>1
    <3>2. i \in 1..Len(st[t])
      BY <2>2, <1>2, <3>1
    <3>3. pushed[i] = st[t][i]
      BY <1>1, <3>2, AppendProperties
    <3>4. QED
      BY <3>2, <3>3 DEF StacksTyped
  <2>3. QED
    BY <2>1, <2>2
<1> HIDE DEF pushed
<1>4. StacksTyped([st EXCEPT ![t] = pushed])
  BY <1>1, <1>2, <1>3 DEF StacksTyped
<1>5. QED
  BY <1>4 DEF pushed

\* leaving it pops one,
LEMMA Pop ==
  ASSUME NEW st, StacksTyped(st), NEW t \in Threads, st[t] # <<>>
  PROVE  /\ StacksTyped([st EXCEPT ![t] = Front(@)])
         /\ Last(st[t]) \in Frames
         /\ Last(st[t]).next \in Returns(t, Len(st[t]))
         /\ Len(st[t]) \in Nat \ {0}
         /\ Front(st[t]) = <<>> <=> Len(st[t]) = 1
<1> DEFINE popped == Front(st[t])
<1>1. st \in [Threads -> Seq(Frames)] /\ st[t] \in Seq(Frames)
  BY DEF StacksTyped
<1>2. /\ popped \in Seq(Frames) /\ Last(st[t]) \in Frames
      /\ Len(st[t]) \in Nat \ {0} /\ Len(popped) = Len(st[t]) - 1
      /\ \A i \in 1..(Len(st[t]) - 1): popped[i] = st[t][i]
  BY <1>1, FrontLast
<1>3. Last(st[t]).next \in Returns(t, Len(st[t]))
  BY <1>2 DEF Last, StacksTyped
<1> HIDE DEF popped
<1>4. \A i \in 1..Len(popped): popped[i].next \in Returns(t, i)
  <2> SUFFICES ASSUME NEW i \in 1..Len(popped) PROVE popped[i].next \in Returns(t, i)
    OBVIOUS
  <2>1. i \in 1..(Len(st[t]) - 1) /\ i \in 1..Len(st[t])
    BY <1>2
  <2>2. QED
    BY <1>2, <2>1 DEF StacksTyped
<1>5. StacksTyped([st EXCEPT ![t] = popped])
  BY <1>1, <1>2, <1>4 DEF StacksTyped
<1>6. popped = <<>> <=> Len(st[t]) = 1
  <2>1. popped = <<>> <=> Len(popped) = 0
    BY <1>2, EmptySeq
  <2>2. QED
    BY <1>2, <2>1
<1>7. QED
  BY <1>2, <1>3, <1>5, <1>6 DEF popped

\* and the innermost one may be replaced by one that returns to the same place.
LEMMA Replace ==
  ASSUME NEW st, StacksTyped(st), NEW t \in Threads, st[t] # <<>>,
         NEW f \in Frames, f.next = Last(st[t]).next
  PROVE  /\ StacksTyped([st EXCEPT ![t] = [@ EXCEPT ![Len(st[t])] = f]])
         /\ [st[t] EXCEPT ![Len(st[t])] = f] # <<>>
<1> DEFINE changed == [st[t] EXCEPT ![Len(st[t])] = f]
<1>1. st \in [Threads -> Seq(Frames)] /\ st[t] \in Seq(Frames)
  BY DEF StacksTyped
<1>2. Len(st[t]) \in 1..Len(st[t]) /\ f.next \in Returns(t, Len(st[t]))
  <2>1. Len(st[t]) \in Nat \ {0}
    BY <1>1, FrontLast
  <2>2. Len(st[t]) \in 1..Len(st[t])
    BY <2>1
  <2>3. Last(st[t]).next \in Returns(t, Len(st[t]))
    BY Pop
  <2>4. QED
    BY <2>2, <2>3
<1>3. /\ changed \in Seq(Frames) /\ Len(changed) = Len(st[t])
      /\ \A i \in 1..Len(st[t]): changed[i] = IF i = Len(st[t]) THEN f ELSE st[t][i]
  BY <1>1, <1>2, ExceptSeq
<1> HIDE DEF changed
<1>4. \A i \in 1..Len(changed): changed[i].next \in Returns(t, i)
  BY <1>2, <1>3 DEF StacksTyped
<1>5. StacksTyped([st EXCEPT ![t] = changed])
  BY <1>1, <1>3, <1>4 DEF StacksTyped
<1>6. changed # <<>>
  <2>1. Len(changed) # 0
    BY <1>2, <1>3
  <2>2. QED
    BY <1>3, <2>1, EmptySeq
<1>7. QED
  BY <1>5, <1>6 DEF changed

\* Each step that changes one reason to suspend yields counters again.
LEMMA CounterSteps ==
  \A c \in Counters:
    /\ [c EXCEPT !.ui = @ + 1] \in Counters
    /\ [c EXCEPT !.debugger = @ + 1] \in Counters
    /\ [c EXCEPT !.debugger = 1] \in Counters
    /\ [c EXCEPT !.debugger = 0] \in Counters
    /\ [c EXCEPT !.external = @ + 1, !.sysCall = TRUE] \in Counters
    /\ [c EXCEPT !.external = @ - 1] \in Counters
    /\ [c EXCEPT !.sysCall = TRUE] \in Counters
    /\ [c EXCEPT !.subroutine = TRUE] \in Counters
    /\ [Zero EXCEPT !.ui = c.ui, !.timeout = c.timeout] \in Counters
    /\ c.ui > 0 => [c EXCEPT !.ui = @ - 1] \in Counters
    /\ \A b \in BOOLEAN: [c EXCEPT !.sysCall = b] \in Counters
<1> SUFFICES ASSUME NEW c \in Counters
             PROVE  /\ [c EXCEPT !.ui = @ + 1] \in Counters
                    /\ [c EXCEPT !.debugger = @ + 1] \in Counters
                    /\ [c EXCEPT !.debugger = 1] \in Counters
                    /\ [c EXCEPT !.debugger = 0] \in Counters
                    /\ [c EXCEPT !.external = @ + 1, !.sysCall = TRUE] \in Counters
                    /\ [c EXCEPT !.external = @ - 1] \in Counters
                    /\ [c EXCEPT !.sysCall = TRUE] \in Counters
                    /\ [c EXCEPT !.subroutine = TRUE] \in Counters
                    /\ [Zero EXCEPT !.ui = c.ui, !.timeout = c.timeout] \in Counters
                    /\ c.ui > 0 => [c EXCEPT !.ui = @ - 1] \in Counters
                    /\ \A b \in BOOLEAN: [c EXCEPT !.sysCall = b] \in Counters
  OBVIOUS
<1>1. /\ c.ui \in Nat /\ c.ui + 1 \in Nat
      /\ c.debugger + 1 \in Nat
      /\ c.external + 1 \in Int /\ c.external - 1 \in Int
      /\ c.timeout \in BOOLEAN
      /\ c.ui > 0 => c.ui - 1 \in Nat
  BY DEF Counters
<1>2. \A n \in Nat: /\ [c EXCEPT !.ui = n] \in Counters
                    /\ [c EXCEPT !.debugger = n] \in Counters
  BY DEF Counters
<1>3. \A i \in Int: /\ [c EXCEPT !.external = i] \in Counters
                    /\ [c EXCEPT !.external = i, !.sysCall = TRUE] \in Counters
  BY DEF Counters
<1>4. \A b \in BOOLEAN: /\ [c EXCEPT !.sysCall = b] \in Counters
                        /\ [c EXCEPT !.subroutine = b] \in Counters
  BY DEF Counters
<1>5. \A n \in Nat, b \in BOOLEAN: [Zero EXCEPT !.ui = n, !.timeout = b] \in Counters
  <2>1. Zero \in Counters
    BY DEF Counters, Zero
  <2>2. QED
    BY <2>1 DEF Counters
<1>6. /\ [c EXCEPT !.ui = @ + 1] \in Counters
      /\ [c EXCEPT !.debugger = @ + 1] \in Counters
      /\ c.ui > 0 => [c EXCEPT !.ui = @ - 1] \in Counters
  BY <1>1, <1>2, Zenon
<1>7. /\ [c EXCEPT !.external = @ + 1, !.sysCall = TRUE] \in Counters
      /\ [c EXCEPT !.external = @ - 1] \in Counters
  BY <1>1, <1>3, Zenon
<1>8. [Zero EXCEPT !.ui = c.ui, !.timeout = c.timeout] \in Counters
  BY <1>1, <1>5, Zenon
<1>9. /\ [c EXCEPT !.debugger = 1] \in Counters
      /\ [c EXCEPT !.debugger = 0] \in Counters
  BY <1>2
<1>10. QED
  BY <1>4, <1>6, <1>7, <1>8, <1>9, Zenon

\* The counters stay counters (the arithmetic of ExecuteSubroutine).
LEMMA CountersTyped ==
  /\ Zero \in Counters
  /\ \A saved, now \in Counters:
       /\ Folded(saved, now) \in Counters
       /\ [Folded(saved, now) EXCEPT !.external = IF @ < 0 THEN 0 ELSE @] \in Counters
<1>1. Zero \in Counters
  BY DEF Zero, Counters
<1>2. ASSUME NEW saved \in Counters, NEW now \in Counters
      PROVE  /\ Folded(saved, now) \in Counters
             /\ [Folded(saved, now) EXCEPT !.external = IF @ < 0 THEN 0 ELSE @] \in Counters
  <2> DEFINE u == saved.ui + now.ui
             d == saved.debugger + now.debugger
             e == saved.external + now.external
             b == saved.timeout \/ now.timeout
  <2>1. Folded(saved, now)
          = [saved EXCEPT !.ui = u, !.debugger = d, !.external = e, !.timeout = b]
    BY DEF Folded
  <2>2. u \in Nat /\ d \in Nat /\ e \in Int /\ b \in BOOLEAN
    BY DEF Counters
  <2> HIDE DEF u, d, e, b
  <2>3. Folded(saved, now) \in Counters
    BY <2>1, <2>2 DEF Counters
  <2>4. [Folded(saved, now) EXCEPT !.external = IF @ < 0 THEN 0 ELSE @] \in Counters
    <3>1. Folded(saved, now).external \in Int
      BY <2>3 DEF Counters
    <3>2. QED
      BY <2>3, <3>1 DEF Counters
  <2>5. QED
    BY <2>3, <2>4
<1>3. QED
  BY <1>1, <1>2


\* CallCPU restores a state of the session.
LEMMA SavedTyped ==
  ASSUME TypeOK, NEW t \in Threads
  PROVE  SavedState(t) \in States
<1>1. CASE Calling(t)
  <2>1. Last(stack[t]) \in Frames
    BY <1>1, Pop DEF TypeOK, Calling
  <2>2. QED
    BY <1>1, <2>1 DEF SavedState, Frames
<1>2. CASE ~Calling(t)
  BY <1>2 DEF SavedState, TypeOK
<1>3. QED
  BY <1>1, <1>2

\* Entering a subroutine keeps the types, whoever calls it.
LEMMA EnteringTyped ==
  ASSUME TypeOK, NEW t \in Threads, NEW next \in Returns(t, Len(stack[t]) + 1),
         Entering(t, next)
  PROVE  TypeOK'
<1> DEFINE frame == [counters |-> fSuspendState, state |-> fState, nest |-> fNestLevel,
                     next |-> next]
<1>1. frame \in Frames /\ frame.next \in Returns(t, Len(stack[t]) + 1)
  BY DEF TypeOK, Frames, Returns
<1>2. stack' = [stack EXCEPT ![t] = Append(@, frame)]
  BY DEF Entering, ExecuteSubroutine
<1> HIDE DEF frame
<1>3. StacksTyped(stack')
  BY <1>1, <1>2, Push DEF TypeOK
<1>4. fSuspendState' \in Counters /\ fNestLevel' \in Nat
  BY CountersTyped DEF TypeOK, Entering, ExecuteSubroutine
<1>5. waiting' \subseteq Threads
  BY DEF Entering, ExecuteSubroutine, Broadcast
<1>6. ControlTyped'
  <2>1. pc' = [pc EXCEPT ![t] = "call"] /\ how' = how
    BY DEF Entering, ExecuteSubroutine, Goto, ui
  <2>2. \A s \in Threads: s # t => stack'[s] = stack[s]
    BY <1>2 DEF TypeOK, StacksTyped
  <2>3. stack'[t] # <<>>
    BY <1>1, <1>2, AppendProperties DEF TypeOK, StacksTyped
  <2>4. QED
    BY <2>1, <2>2, <2>3 DEF TypeOK, ControlTyped, Threads, Places, CPUPlaces, UIPlaces,
       Calling
<1>7. QED
  BY <1>3, <1>4, <1>5, <1>6 DEF TypeOK, Entering, dialogs, ui

\* A thread inside the emulation loop keeps the types.
LEMMA EmulationTyped ==
  ASSUME TypeOK, NEW t \in Threads, Emulation(t)
  PROVE  TypeOK'
<1>1. CASE CallCPU(t)
  <2>1. StacksTyped(stack') /\ \A s \in Threads: stack'[s] = <<>> <=> stack[s] = <<>>
    <3>1. CASE Calling(t)
      <4> DEFINE frame == [Last(stack[t]) EXCEPT !.state = fState]
      <4>1. Last(stack[t]) \in Frames
        BY <3>1, Pop DEF TypeOK, Calling
      <4>2. frame \in Frames /\ frame.next = Last(stack[t]).next
        BY <4>1 DEF TypeOK, Frames
      <4>3. stack' = [stack EXCEPT ![t] = [@ EXCEPT ![Len(stack[t])] = frame]]
        BY <1>1, <3>1 DEF CallCPU, Last
      <4> HIDE DEF frame
      <4>4. /\ StacksTyped([stack EXCEPT ![t] = [@ EXCEPT ![Len(stack[t])] = frame]])
            /\ [stack[t] EXCEPT ![Len(stack[t])] = frame] # <<>>
        BY <3>1, <4>2, Replace DEF TypeOK, Calling
      <4>5. QED
        BY <3>1, <4>3, <4>4 DEF TypeOK, StacksTyped, Calling
    <3>2. CASE ~Calling(t)
      BY <1>1, <3>2 DEF CallCPU, TypeOK
    <3>3. QED
      BY <3>1, <3>2
  <2>2. ControlTyped'
    <3>1. pc' = [pc EXCEPT ![t] = "execute"] /\ pc[t] = "call" /\ how' = how
      BY <1>1 DEF CallCPU, Goto, ui
    <3>2. QED
      BY <2>1, <3>1 DEF TypeOK, ControlTyped, Threads, Places, CPUPlaces, UIPlaces, Calling
  <2>3. fState' \in States
    BY <1>1 DEF CallCPU, States
  <2>4. oldRunState' \in States
    BY <1>1 DEF TypeOK, CallCPU
  <2>5. QED
    BY <1>1, <2>1, <2>2, <2>3, <2>4 DEF TypeOK, CallCPU, dialogs, ui
<1>2. CASE CallCPUReturns(t)
  <2>1. fState' \in States
    BY <1>2, SavedTyped DEF CallCPUReturns
  <2>2. ControlTyped'
    BY <1>2 DEF TypeOK, ControlTyped, CallCPUReturns, Goto, Threads, Places, CPUPlaces,
       UIPlaces, Calling, stacks, ui
  <2>3. QED
    BY <1>2, <2>1, <2>2 DEF TypeOK, CallCPUReturns, stacks, dialogs, ui
<1>3. CASE AfterCallCPU(t)
  <2> DEFINE last   == Last(stack[t])
             saved  == Folded(last.counters, fSuspendState)
             capped == [saved EXCEPT !.external = IF @ < 0 THEN 0 ELSE @]
  <2>1. stack[t] # <<>>
    BY <1>3 DEF AfterCallCPU, TypeOK, ControlTyped, Calling, Threads
  <2>2. last \in Frames /\ last.next \in Returns(t, Len(stack[t]))
    BY <2>1, Pop DEF TypeOK
  <2>3. last.counters \in Counters /\ last.nest \in Nat
    BY <2>2 DEF Frames
  <2>4. saved \in Counters /\ capped \in Counters /\ Zero \in Counters
    BY <2>3, CountersTyped DEF TypeOK
  <2>5. waiting' \subseteq Threads
    BY <1>3 DEF AfterCallCPU, Broadcast
  <2>6. CASE Standing(fSuspendState) = Zero
    <3> DEFINE frame == [last EXCEPT !.counters = saved]
    <3>1. /\ stack' = [stack EXCEPT ![t] = [@ EXCEPT ![Len(stack[t])] = frame]]
          /\ fSuspendState' = Zero
          /\ fNestLevel' = last.nest + 1
          /\ pc' = [pc EXCEPT ![t] = "call"] /\ how' = how
      BY <1>3, <2>6 DEF AfterCallCPU, Last, Goto, ui
    <3>2. frame \in Frames /\ frame.next = last.next
      <4> HIDE DEF last, saved
      <4> QED
        BY <2>2, <2>4 DEF Frames
    <3> HIDE DEF frame, saved, capped
    <3>3. /\ StacksTyped(stack')
          /\ [stack[t] EXCEPT ![Len(stack[t])] = frame] # <<>>
      <4>1. /\ StacksTyped([stack EXCEPT ![t] = [@ EXCEPT ![Len(stack[t])] = frame]])
            /\ [stack[t] EXCEPT ![Len(stack[t])] = frame] # <<>>
        <5> HIDE DEF last
        <5>1. StacksTyped(stack)
          BY DEF TypeOK
        <5>2. frame.next = Last(stack[t]).next
          BY <3>2 DEF last
        <5>3. QED
          BY <2>1, <3>2, <5>1, <5>2, Replace
      <4>2. QED
        BY <3>1, <4>1
    <3>4. ControlTyped'
      <4>1. \A s \in Threads: s # t => stack'[s] = stack[s]
        BY <3>1 DEF TypeOK, StacksTyped
      <4>2. stack'[t] # <<>>
        BY <3>1, <3>3 DEF TypeOK, StacksTyped
      <4>3. QED
        BY <1>3, <3>1, <4>1, <4>2 DEF AfterCallCPU, TypeOK, ControlTyped, Threads, Places,
           CPUPlaces, UIPlaces, Calling
    <3>5. fNestLevel' \in Nat /\ fSuspendState' \in Counters
      BY <2>3, <2>4, <3>1
    <3>6. QED
      BY <1>3, <2>5, <3>3, <3>4, <3>5 DEF TypeOK, AfterCallCPU, dialogs, ui
  <2>7. CASE Standing(fSuspendState) # Zero
    <3>1. /\ stack' = [stack EXCEPT ![t] = Front(@)]
          /\ fSuspendState' = capped
          /\ fNestLevel' = last.nest
          /\ pc' = [pc EXCEPT ![t] = last.next] /\ how' = how
      BY <1>3, <2>7 DEF AfterCallCPU, Goto, ui
    <3> HIDE DEF last, saved, capped
    <3>2. StacksTyped(stack')
      BY <2>1, <3>1, Pop DEF TypeOK
    <3>3. ControlTyped'
      <4>1. \A s \in Threads: s # t => stack'[s] = stack[s]
        BY <3>1 DEF TypeOK, StacksTyped
      <4>2. /\ last.next \in {"execute", "taskInfo", "idle"}
            /\ t = "cpu" => last.next # "idle"
            /\ t = "ui" => last.next # "taskInfo"
            /\ t = "ui" => (last.next = "idle" <=> stack'[t] = <<>>)
        <5>1. Front(stack[t]) = <<>> <=> Len(stack[t]) = 1
          BY <2>1, Pop DEF TypeOK
        <5>2. stack'[t] = Front(stack[t])
          BY <3>1 DEF TypeOK, StacksTyped
        <5>3. QED
          BY <2>2, <5>1, <5>2 DEF Frames, Returns
      <4>3. QED
        BY <3>1, <4>1, <4>2 DEF TypeOK, ControlTyped, Threads, Places, CPUPlaces,
           UIPlaces, Calling
    <3>4. QED
      BY <1>3, <2>3, <2>4, <2>5, <3>1, <3>2, <3>3 DEF TypeOK, AfterCallCPU, dialogs, ui
  <2>8. QED
    BY <2>6, <2>7
<1>4. CASE EndOfCycle(t)
  <2>1. ControlTyped'
    BY <1>4 DEF TypeOK, ControlTyped, EndOfCycle, Scheduling, Goto, Threads, Places,
       CPUPlaces, UIPlaces, Calling, stacks, ui
  <2>2. QED
    BY <1>4, <2>1 DEF TypeOK, EndOfCycle, Scheduling, stacks, dialogs, ui
<1>5. CASE ExecuteSpecial(t)
  <2>1. ControlTyped'
    BY <1>5 DEF TypeOK, ControlTyped, ExecuteSpecial, Scheduling, Goto, Threads, Places,
       CPUPlaces, UIPlaces, Calling, stacks, ui
  <2>2. endOfCycle' \in BOOLEAN
    BY <1>5 DEF TypeOK, ExecuteSpecial, IsNested
  <2>3. QED
    BY <1>5, <2>1, <2>2 DEF TypeOK, ExecuteSpecial, Scheduling, stacks, dialogs, ui
<1>6. CASE RomCall(t)
  <2>1. t = "ui" => Len(stack[t]) \in Nat \ {0}
    <3>1. t = "ui" => stack[t] # <<>>
      BY <1>6 DEF RomCall, Happens, TypeOK, ControlTyped, Calling
    <3>2. QED
      BY <3>1, Pop DEF TypeOK
  <2>2. "execute" \in Returns(t, Len(stack[t]) + 1)
    BY <2>1 DEF Returns, Threads
  <2>3. QED
    BY <1>6, <2>2, EnteringTyped DEF RomCall
<1>7. CASE SubroutineReturns(t)
  <2>1. ControlTyped'
    BY <1>7 DEF TypeOK, ControlTyped, SubroutineReturns, Scheduling, Goto, Threads, Places,
       CPUPlaces, UIPlaces, Calling, stacks, ui
  <2>2. fSuspendState' \in Counters /\ endOfCycle' \in BOOLEAN
    BY <1>7, CounterSteps DEF TypeOK, SubroutineReturns, Schedule
  <2>3. QED
    BY <1>7, <2>1, <2>2 DEF TypeOK, SubroutineReturns, Scheduling, stacks, dialogs, ui
<1>8. CASE NestedError(t)
  <2>1. ControlTyped'
    BY <1>8 DEF TypeOK, ControlTyped, NestedError, Goto, Threads, Places,
       CPUPlaces, UIPlaces, Calling, ui
  <2>2. thrown' \in {"none", "debugger", "reset", "internalError"}
    BY <1>8 DEF TypeOK, NestedError
  <2>3. QED
    BY <1>8, <2>1, <2>2 DEF TypeOK, NestedError, monitor, dialogs, ui
<1>9. CASE Unwind(t)
  <2>1. fState' \in States
    BY <1>9, SavedTyped DEF Unwind
  <2>2. ControlTyped'
    BY <1>9 DEF TypeOK, ControlTyped, Unwind, Goto, Threads, Places, CPUPlaces,
       UIPlaces, Calling, stacks, ui
  <2>3. QED
    BY <1>9, <2>1, <2>2 DEF TypeOK, Unwind, stacks, dialogs, ui
<1>10. CASE Drop(t)
  <2>1. stack[t] # <<>>
    BY <1>10 DEF Drop, TypeOK, ControlTyped, Calling, Threads
  <2>2. Last(stack[t]) \in Frames
    BY <2>1, Pop DEF TypeOK
  <2>3. fNestLevel' \in Nat
    BY <1>10, <2>2 DEF Drop, Frames
  <2>4. stack' = [stack EXCEPT ![t] = Front(@)]
    BY <1>10 DEF Drop
  <2>5. StacksTyped(stack')
    BY <2>1, <2>4, Pop DEF TypeOK
  <2>6. ControlTyped'
    <3>1. \A s \in Threads: s # t => stack'[s] = stack[s]
      BY <2>4 DEF TypeOK, StacksTyped
    <3>2. /\ pc' = [pc EXCEPT ![t] = IF t = "cpu" \/ Len(stack[t]) > 1
                                     THEN "unwind" ELSE "caught"]
          /\ pc[t] = "drop"
          /\ how' = how
      BY <1>10 DEF Drop, Goto, ui
    <3>3. IF Len(stack[t]) > 1 THEN stack'[t] # <<>> ELSE stack'[t] = <<>>
      <4>1. /\ Len(stack[t]) \in Nat \ {0}
            /\ Front(stack[t]) = <<>> <=> Len(stack[t]) = 1
        BY <2>1, Pop DEF TypeOK
      <4>2. stack'[t] = Front(stack[t])
        BY <2>4 DEF TypeOK, StacksTyped
      <4>3. Len(stack[t]) > 1 => Len(stack[t]) # 1
        <5>1. \A n \in Nat: n > 1 => n # 1
          OBVIOUS
        <5>2. QED
          BY <4>1, <5>1
      <4>4. ~(Len(stack[t]) > 1) => Len(stack[t]) = 1
        <5>1. Len(stack[t]) \in Nat /\ Len(stack[t]) # 0
          BY <4>1
        <5>2. \A n \in Nat: n # 0 /\ ~(n > 1) => n = 1
          OBVIOUS
        <5>3. QED
          BY <5>1, <5>2
      <4>5. QED
        BY <4>1, <4>2, <4>3, <4>4
    <3>4. CASE t = "cpu"
      BY <3>1, <3>2, <3>4 DEF TypeOK, ControlTyped, Threads, Places, CPUPlaces, Calling
    <3>5. CASE t = "ui"
      BY <3>1, <3>2, <3>3, <3>5 DEF TypeOK, ControlTyped, Threads, Places, UIPlaces, Calling
    <3>6. QED
      BY <3>4, <3>5 DEF Threads
  <2>7. QED
    BY <1>10, <2>3, <2>5, <2>6 DEF TypeOK, Drop, dialogs, ui
<1>11. QED
  BY <1>1, <1>2, <1>3, <1>4, <1>5, <1>6, <1>7, <1>8, <1>9, <1>10 DEF Emulation

\* SuspendThread returns with counters and stoppers of their types.
LEMMA FinishTyped ==
  ASSUME TypeOK, NEW method \in AllStopMethods, NEW reasons \in Counters,
         Finish(method, reasons)
  PROVE  /\ fSuspendState' \in Counters
         /\ holds' \in Seq([how: AllStopMethods, blocked: BOOLEAN])
         /\ fBreakOnSysCall' \in BOOLEAN
         /\ pc' \in {[pc EXCEPT !["ui"] = "idle"], [pc EXCEPT !["ui"] = "dialog"]}
<1>1. [reasons EXCEPT !.ui = @ + 1] \in Counters
  BY CounterSteps
<1>2. fSuspendState' \in {reasons, [reasons EXCEPT !.ui = @ + 1]}
  BY DEF Finish
<1> DEFINE stopper == [how |-> method, blocked |-> fState = "kBlockedOnUI"]
<1>3. stopper \in [how: AllStopMethods, blocked: BOOLEAN]
  OBVIOUS
<1>4. holds' \in {holds, Append(holds, stopper)}
  BY DEF Finish
<1> HIDE DEF stopper
<1>5. holds' \in Seq([how: AllStopMethods, blocked: BOOLEAN])
  <2> DEFINE Stoppers == [how: AllStopMethods, blocked: BOOLEAN]
  <2>1. holds \in Seq(Stoppers) /\ stopper \in Stoppers
    BY <1>3 DEF TypeOK
  <2> HIDE DEF Stoppers
  <2>2. holds' \in Seq(Stoppers)
    BY <1>4, <2>1, AppendProperties
  <2>3. QED
    BY <2>2 DEF Stoppers
<1>6. fBreakOnSysCall' \in BOOLEAN
  BY DEF Finish
<1>7. pc' \in {[pc EXCEPT !["ui"] = "idle"], [pc EXCEPT !["ui"] = "dialog"]}
  BY DEF Finish, Goto, Home
<1>8. QED
  BY <1>1, <1>2, <1>5, <1>6, <1>7

\* A step of the CPU thread keeps the types.
LEMMA CPUThreadTyped ==
  ASSUME TypeOK, CPUThread
  PROVE  TypeOK'
<1>1. CASE RunTop
  <2>1. ControlTyped'
    BY <1>1 DEF TypeOK, ControlTyped, RunTop, Goto, Threads, Places, CPUPlaces, UIPlaces,
       Calling, stacks, ui
  <2>2. waiting' \subseteq Threads
    BY <1>1 DEF TypeOK, RunTop, Broadcast, BroadcastThenWait, Threads
  <2>3. fState' \in States
    BY <1>1 DEF TypeOK, RunTop, States
  <2>4. QED
    BY <1>1, <2>1, <2>2, <2>3 DEF TypeOK, RunTop, stacks, dialogs, ui
<1>2. CASE RunWake
  <2>1. ControlTyped'
    BY <1>2 DEF TypeOK, ControlTyped, RunWake, Goto, Threads, Places, CPUPlaces, UIPlaces,
       Calling, stacks, ui
  <2>2. waiting' \subseteq Threads
    BY <1>2 DEF TypeOK, RunWake, Broadcast, BroadcastThenWait, Threads
  <2>3. fState' \in States
    BY <1>2 DEF TypeOK, RunWake, States
  <2>4. QED
    BY <1>2, <2>1, <2>2, <2>3 DEF TypeOK, RunWake, stacks, dialogs, ui
<1>3. CASE CycleSlowly
  <2>1. ControlTyped'
    BY <1>3 DEF TypeOK, ControlTyped, CycleSlowly, Goto, Threads, Places, CPUPlaces,
       UIPlaces, Calling, stacks, ui, Scheduling
  <2>2. endOfCycle' \in BOOLEAN
    BY <1>3 DEF TypeOK, CycleSlowly
  <2>3. QED
    BY <1>3, <2>1, <2>2 DEF TypeOK, CycleSlowly, Scheduling, stacks, dialogs, ui
<1>4. CASE Breakpoint
  <2>1. ControlTyped'
    BY <1>4 DEF TypeOK, ControlTyped, Breakpoint, Goto, Threads, Places, CPUPlaces, UIPlaces,
       Calling, stacks, ui, Scheduling
  <2>2. fSuspendState' \in Counters
    BY <1>4, CounterSteps DEF TypeOK, Breakpoint, Schedule
  <2>3. endOfCycle' \in BOOLEAN
    BY <1>4 DEF TypeOK, Breakpoint, Schedule
  <2>4. QED
    BY <1>4, <2>1, <2>2, <2>3 DEF TypeOK, Breakpoint, Scheduling, stacks, dialogs, ui
<1>5. CASE SignalWaiters
  <2>1. ControlTyped'
    BY <1>5 DEF TypeOK, ControlTyped, SignalWaiters, Goto, Threads, Places, CPUPlaces,
       UIPlaces, Calling, stacks, ui, Scheduling
  <2>2. fSuspendState' \in Counters
    BY <1>5, CounterSteps DEF TypeOK, SignalWaiters, Schedule
  <2>3. endOfCycle' \in BOOLEAN
    BY <1>5 DEF TypeOK, SignalWaiters, Schedule
  <2>4. QED
    BY <1>5, <2>1, <2>2, <2>3 DEF TypeOK, SignalWaiters, Scheduling, stacks, dialogs, ui
<1>6. CASE SysCallInUITask
  <2>1. ControlTyped'
    BY <1>6 DEF TypeOK, ControlTyped, SysCallInUITask, Goto, Threads, Places, CPUPlaces,
       UIPlaces, Calling, stacks, ui, Scheduling
  <2>2. fSuspendState' \in Counters
    BY <1>6, CounterSteps DEF TypeOK, SysCallInUITask, Schedule
  <2>3. endOfCycle' \in BOOLEAN
    BY <1>6 DEF TypeOK, SysCallInUITask, Schedule
  <2>4. QED
    BY <1>6, <2>1, <2>2, <2>3 DEF TypeOK, SysCallInUITask, Scheduling, stacks, dialogs, ui
<1>7. CASE SysCallInBackgroundTask
  <2>1. ControlTyped'
    BY <1>7 DEF TypeOK, ControlTyped, SysCallInBackgroundTask, Goto, Threads, Places,
       CPUPlaces, UIPlaces, Calling, stacks, ui, Scheduling
  <2>2. QED
    BY <1>7, <2>1 DEF TypeOK, SysCallInBackgroundTask, Scheduling, stacks, dialogs, ui
<1>8. CASE DeviceResets
  <2>1. ControlTyped'
    BY <1>8 DEF TypeOK, ControlTyped, DeviceResets, Goto, Threads, Places, CPUPlaces,
       UIPlaces, Calling, stacks, ui
  <2>2. fSuspendState' \in Counters
    BY <1>8, CounterSteps DEF TypeOK, DeviceResets, Reset
  <2>3. endOfCycle' \in BOOLEAN
    BY <1>8 DEF TypeOK, DeviceResets
  <2>4. fNestLevel' \in Nat
    BY <1>8 DEF TypeOK, DeviceResets, Reset
  <2>5. fBreakOnSysCall' \in BOOLEAN
    BY <1>8 DEF TypeOK, DeviceResets, Reset
  <2>6. QED
    BY <1>8, <2>1, <2>2, <2>3, <2>4, <2>5 DEF TypeOK, DeviceResets, stacks, dialogs, ui
<1>9. CASE CPUThreadResets
  <2>1. ControlTyped'
    BY <1>9 DEF TypeOK, ControlTyped, CPUThreadResets, Goto, Threads, Places, CPUPlaces,
       UIPlaces, Calling, stacks, ui
  <2>2. fSuspendState' \in Counters
    BY <1>9, CounterSteps DEF TypeOK, CPUThreadResets, Reset
  <2>3. endOfCycle' \in BOOLEAN
    BY <1>9 DEF TypeOK, CPUThreadResets
  <2>4. fNestLevel' \in Nat
    BY <1>9 DEF TypeOK, CPUThreadResets, Reset
  <2>5. fBreakOnSysCall' \in BOOLEAN
    BY <1>9 DEF TypeOK, CPUThreadResets, Reset
  <2>6. QED
    BY <1>9, <2>1, <2>2, <2>3, <2>4, <2>5 DEF TypeOK, CPUThreadResets, stacks, dialogs, ui
<1>10. CASE DeviceError
  <2>1. ControlTyped'
    BY <1>10 DEF TypeOK, ControlTyped, DeviceError, Goto, Threads, Places, CPUPlaces,
       UIPlaces, Calling, stacks, ui
  <2>2. QED
    BY <1>10, <2>1 DEF TypeOK, DeviceError, monitor, stacks, dialogs, ui
<1>11. CASE Caught
  <2>1. ControlTyped'
    BY <1>11 DEF TypeOK, ControlTyped, Caught, Goto, Threads, Places, CPUPlaces, UIPlaces,
       Calling, stacks, ui
  <2>2. QED
    BY <1>11, <2>1 DEF TypeOK, Caught, monitor, stacks, dialogs, ui
<1>12. CASE BlockOnDialog
  <2>1. ControlTyped'
    BY <1>12 DEF TypeOK, ControlTyped, BlockOnDialog, Goto, Threads, Places, CPUPlaces,
       UIPlaces, Calling, stacks, ui
  <2>2. waiting' \subseteq Threads
    BY <1>12 DEF TypeOK, BlockOnDialog, Broadcast, BroadcastThenWait, Threads
  <2>3. fState' \in States
    BY <1>12 DEF TypeOK, BlockOnDialog, States
  <2>4. dialog' \in {"none", "posted", "shown", "answered"}
    BY <1>12 DEF TypeOK, BlockOnDialog, dialogs
  <2>5. dialogFor' \in {"none", "error", "display"}
    BY <1>12 DEF TypeOK, BlockOnDialog, dialogs
  <2>6. QED
    BY <1>12, <2>1, <2>2, <2>3, <2>4, <2>5 DEF TypeOK, BlockOnDialog, stacks, dialogs, ui
<1>13. CASE DialogWake
  <2>1. ControlTyped'
    BY <1>13 DEF TypeOK, ControlTyped, DialogWake, Goto, Threads, Places, CPUPlaces,
       UIPlaces, Calling, stacks, ui
  <2>2. waiting' \subseteq Threads
    BY <1>13 DEF TypeOK, DialogWake, Broadcast, BroadcastThenWait, Threads
  <2>3. fState' \in States
    BY <1>13 DEF TypeOK, DialogWake, States
  <2>4. dialog' \in {"none", "posted", "shown", "answered"}
    BY <1>13 DEF TypeOK, DialogWake
  <2>5. QED
    BY <1>13, <2>1, <2>2, <2>3, <2>4 DEF TypeOK, DialogWake, stacks, dialogs, ui
<1>14. CASE ButtonContinue
  <2>1. ControlTyped'
    BY <1>14 DEF TypeOK, ControlTyped, ButtonContinue, Goto, Threads, Places, CPUPlaces,
       UIPlaces, Calling, stacks, ui
  <2>2. QED
    BY <1>14, <2>1 DEF TypeOK, ButtonContinue, monitor, stacks, dialogs, ui
<1>15. CASE ButtonReset
  <2>1. ControlTyped'
    BY <1>15 DEF TypeOK, ControlTyped, ButtonReset, Goto, Threads, Places, CPUPlaces,
       UIPlaces, Calling, stacks, ui
  <2>2. thrown' \in {"none", "debugger", "reset", "internalError"}
    BY <1>15 DEF TypeOK, ButtonReset
  <2>3. QED
    BY <1>15, <2>1, <2>2 DEF TypeOK, ButtonReset, monitor, stacks, dialogs, ui
<1>16. CASE ButtonDebug
  <2>1. ControlTyped'
    BY <1>16 DEF TypeOK, ControlTyped, ButtonDebug, Goto, Threads, Places, CPUPlaces,
       UIPlaces, Calling, stacks, ui
  <2>2. fSuspendState' \in Counters
    BY <1>16, CounterSteps DEF TypeOK, ButtonDebug, Schedule
  <2>3. endOfCycle' \in BOOLEAN
    BY <1>16 DEF TypeOK, ButtonDebug, Schedule
  <2>4. thrown' \in {"none", "debugger", "reset", "internalError"}
    BY <1>16 DEF TypeOK, ButtonDebug
  <2>5. QED
    BY <1>16, <2>1, <2>2, <2>3, <2>4 DEF TypeOK, ButtonDebug, stacks, dialogs, ui
<1>17. CASE ButtonDebugFails
  <2>1. ControlTyped'
    BY <1>17 DEF TypeOK, ControlTyped, ButtonDebugFails, Goto, Threads, Places, CPUPlaces,
       UIPlaces, Calling, stacks, ui
  <2>2. QED
    BY <1>17, <2>1 DEF TypeOK, ButtonDebugFails, monitor, stacks, dialogs, ui
<1>18. CASE HandleSystemCall
  BY <1>18, EnteringTyped DEF HandleSystemCall, Threads, Returns
<1>19. CASE SysCallInRootTask
  BY <1>19, EnteringTyped DEF SysCallInRootTask, Threads, Returns
<1>20. CASE Emulation("cpu")
  BY <1>20, EmulationTyped DEF Threads
<1>21. QED
  BY <1>1, <1>2, <1>3, <1>4, <1>5, <1>6, <1>7, <1>8, <1>9, <1>10, <1>11, <1>12, <1>13,
     <1>14, <1>15, <1>16, <1>17, <1>18, <1>19, <1>20 DEF CPUThread

\* A step of the UI thread keeps the types.
LEMMA UIThreadTyped ==
  ASSUME TypeOK, UIThread
  PROVE  TypeOK'
<1>1. CASE UIThreadResets
  <2>1. ControlTyped'
    BY <1>1 DEF TypeOK, ControlTyped, UIThreadResets, Goto, Threads, Places, CPUPlaces,
       UIPlaces, Calling, stacks, ui
  <2>2. fSuspendState' \in Counters
    BY <1>1, CounterSteps DEF TypeOK, UIThreadResets, Reset
  <2>3. endOfCycle' \in BOOLEAN
    BY <1>1 DEF TypeOK, UIThreadResets
  <2>4. fNestLevel' \in Nat
    BY <1>1 DEF TypeOK, UIThreadResets, Reset
  <2>5. fBreakOnSysCall' \in BOOLEAN
    BY <1>1 DEF TypeOK, UIThreadResets, Reset
  <2>6. QED
    BY <1>1, <2>1, <2>2, <2>3, <2>4, <2>5 DEF TypeOK, UIThreadResets, stacks, dialogs, ui
<1>2. CASE PacketHandlerResets
  <2>1. ControlTyped'
    BY <1>2 DEF TypeOK, ControlTyped, PacketHandlerResets, Goto, Threads, Places, CPUPlaces,
       UIPlaces, Calling, stacks, ui
  <2>2. fSuspendState' \in Counters
    BY <1>2, CounterSteps DEF TypeOK, PacketHandlerResets, Reset
  <2>3. endOfCycle' \in BOOLEAN
    BY <1>2 DEF TypeOK, PacketHandlerResets
  <2>4. fNestLevel' \in Nat
    BY <1>2 DEF TypeOK, PacketHandlerResets, Reset
  <2>5. fBreakOnSysCall' \in BOOLEAN
    BY <1>2 DEF TypeOK, PacketHandlerResets, Reset
  <2>6. QED
    BY <1>2, <2>1, <2>2, <2>3, <2>4, <2>5 DEF TypeOK, PacketHandlerResets, stacks, dialogs,
       ui
<1>3. CASE ResumeThread
  <2>1. ControlTyped'
    BY <1>3 DEF TypeOK, ControlTyped, ResumeThread, Goto, Threads, Places, CPUPlaces,
       UIPlaces, Calling, stacks, ui, Home
  <2>2. waiting' \subseteq Threads
    BY <1>3 DEF TypeOK, ResumeThread, Broadcast, BroadcastThenWait, Threads
  <2>3. fState' \in States
    BY <1>3 DEF TypeOK, ResumeThread, States
  <2>4. fSuspendState' \in Counters
    BY <1>3, CounterSteps DEF TypeOK, ResumeThread
  <2>5. holds' \in Seq([how: AllStopMethods, blocked: BOOLEAN])
    BY <1>3, FrontLast DEF TypeOK, ResumeThread
  <2>6. QED
    BY <1>3, <2>1, <2>2, <2>3, <2>4, <2>5 DEF TypeOK, ResumeThread, stacks, dialogs, ui
<1>4. CASE HostSignalResume
  <2>1. ControlTyped'
    BY <1>4 DEF TypeOK, ControlTyped, HostSignalResume, Goto, Threads, Places, CPUPlaces,
       UIPlaces, Calling, stacks, ui, Scheduling
  <2>2. fSuspendState' \in Counters
    BY <1>4, CounterSteps DEF TypeOK, HostSignalResume
  <2>3. QED
    BY <1>4, <2>1, <2>2 DEF TypeOK, HostSignalResume, Scheduling, stacks, dialogs, ui
<1>5. CASE PacketEntersDebugger
  <2>1. ControlTyped'
    BY <1>5 DEF TypeOK, ControlTyped, PacketEntersDebugger, Goto, Threads, Places, CPUPlaces,
       UIPlaces, Calling, stacks, ui, Scheduling
  <2>2. fSuspendState' \in Counters
    BY <1>5, CounterSteps DEF TypeOK, PacketEntersDebugger, Schedule
  <2>3. endOfCycle' \in BOOLEAN
    BY <1>5 DEF TypeOK, PacketEntersDebugger, Schedule
  <2>4. QED
    BY <1>5, <2>1, <2>2, <2>3 DEF TypeOK, PacketEntersDebugger, Scheduling, stacks, dialogs,
       ui
<1>6. CASE PacketExitsDebugger
  <2>1. ControlTyped'
    BY <1>6 DEF TypeOK, ControlTyped, PacketExitsDebugger, Goto, Threads, Places, CPUPlaces,
       UIPlaces, Calling, stacks, ui, Scheduling
  <2>2. fSuspendState' \in Counters
    BY <1>6, CounterSteps DEF TypeOK, PacketExitsDebugger
  <2>3. QED
    BY <1>6, <2>1, <2>2 DEF TypeOK, PacketExitsDebugger, Scheduling, stacks, dialogs, ui
<1>7. CASE ShowDialog
  <2>1. ControlTyped'
    BY <1>7 DEF TypeOK, ControlTyped, ShowDialog, Goto, Threads, Places, CPUPlaces, UIPlaces,
       Calling, stacks, ui
  <2>2. dialog' \in {"none", "posted", "shown", "answered"}
    BY <1>7 DEF TypeOK, ShowDialog
  <2>3. QED
    BY <1>7, <2>1, <2>2 DEF TypeOK, ShowDialog, monitor, stacks, dialogs, ui
<1>8. CASE AnswerDialog
  <2>1. ControlTyped'
    BY <1>8 DEF TypeOK, ControlTyped, AnswerDialog, Goto, Threads, Places, CPUPlaces,
       UIPlaces, Calling, stacks, ui
  <2>2. dialog' \in {"none", "posted", "shown", "answered"}
    BY <1>8 DEF TypeOK, AnswerDialog
  <2>3. QED
    BY <1>8, <2>1, <2>2 DEF TypeOK, AnswerDialog, monitor, stacks, dialogs, ui
<1>9. CASE UnblockDialog
  <2>1. ControlTyped'
    BY <1>9 DEF TypeOK, ControlTyped, UnblockDialog, Goto, Threads, Places, CPUPlaces,
       UIPlaces, Calling, stacks, ui
  <2>2. waiting' \subseteq Threads
    BY <1>9 DEF TypeOK, UnblockDialog, Broadcast, BroadcastThenWait, Threads
  <2>3. QED
    BY <1>9, <2>1, <2>2 DEF TypeOK, UnblockDialog, monitor, stacks, dialogs, ui
<1>10. CASE CloseDocument
  <2>1. ControlTyped'
    BY <1>10 DEF TypeOK, ControlTyped, CloseDocument, Goto, Threads, Places, CPUPlaces,
       UIPlaces, Calling, stacks, ui
  <2>2. gDocument' \in BOOLEAN
    BY <1>10 DEF TypeOK, CloseDocument
  <2>3. QED
    BY <1>10, <2>1, <2>2 DEF TypeOK, CloseDocument, monitor, stacks, dialogs, ui
<1>11. CASE DestroyThread
  <2>1. ControlTyped'
    BY <1>11 DEF TypeOK, ControlTyped, DestroyThread, Goto, Threads, Places, CPUPlaces,
       UIPlaces, Calling, stacks, ui
  <2>2. waiting' \subseteq Threads
    BY <1>11 DEF TypeOK, DestroyThread, Broadcast, BroadcastThenWait, Threads
  <2>3. fSuspendState' \in Counters
    BY <1>11, CounterSteps DEF TypeOK, DestroyThread
  <2>4. fStop' \in BOOLEAN
    BY <1>11 DEF TypeOK, DestroyThread
  <2>5. QED
    BY <1>11, <2>1, <2>2, <2>3, <2>4 DEF TypeOK, DestroyThread, stacks, dialogs, ui
<1>12. CASE DestroyWake
  <2>1. ControlTyped'
    BY <1>12 DEF TypeOK, ControlTyped, DestroyWake, Goto, Threads, Places, CPUPlaces,
       UIPlaces, Calling, stacks, ui
  <2>2. waiting' \subseteq Threads
    BY <1>12 DEF TypeOK, DestroyWake, Broadcast, BroadcastThenWait, Threads
  <2>3. QED
    BY <1>12, <2>1, <2>2 DEF TypeOK, DestroyWake, monitor, stacks, dialogs, ui
<1>13. ASSUME NEW method \in StopMethods, SuspendThread(method)
      PROVE  TypeOK'
  <2> DEFINE reasons == IF method = "kStopNow" THEN [fSuspendState EXCEPT !.ui = @ + 1]
                                               ELSE fSuspendState
  <2>1. method \in AllStopMethods
    BY BoundsAssumption
  <2>2. reasons \in Counters
    BY CounterSteps DEF TypeOK
  <2>3. how' = method
    BY <1>13 DEF SuspendThread
  <2>4. CASE fState = "kRunning"
    <3>1. /\ fSuspendState' = reasons
          /\ AskAndWait(method) /\ Goto("ui", "suspend") /\ UNCHANGED holds
      BY <1>13, <2>4 DEF SuspendThread
    <3> HIDE DEF reasons
    <3>2. ControlTyped'
      BY <1>13, <2>1, <2>3, <3>1 DEF SuspendThread, TypeOK, ControlTyped, Goto, Threads, Places,
         CPUPlaces, UIPlaces, Calling, stacks
    <3>3. waiting' \subseteq Threads /\ fBreakOnSysCall' \in BOOLEAN
      BY <3>1 DEF AskAndWait, BroadcastThenWait, Threads
    <3>4. QED
      BY <1>13, <2>1, <2>2, <2>3, <3>1, <3>2, <3>3 DEF TypeOK, SuspendThread, stacks, dialogs
  <2>5. CASE fState # "kRunning"
    <3>1. Finish(method, reasons) /\ UNCHANGED waiting
      BY <1>13, <2>5 DEF SuspendThread
    <3> HIDE DEF reasons
    <3>2. /\ fSuspendState' \in Counters
          /\ holds' \in Seq([how: AllStopMethods, blocked: BOOLEAN])
          /\ fBreakOnSysCall' \in BOOLEAN
          /\ pc' \in {[pc EXCEPT !["ui"] = "idle"], [pc EXCEPT !["ui"] = "dialog"]}
      BY <2>1, <2>2, <3>1, FinishTyped
    <3>3. ControlTyped'
      BY <1>13, <3>2 DEF SuspendThread, TypeOK, ControlTyped, Threads, Places,
         CPUPlaces, UIPlaces, Calling, stacks
    <3>4. QED
      BY <1>13, <2>1, <2>3, <3>1, <3>2, <3>3 DEF TypeOK, SuspendThread, stacks, dialogs
  <2>6. QED
    BY <2>4, <2>5
<1>14. CASE SuspendWake
  <2>1. how \in AllStopMethods /\ fSuspendState \in Counters
    BY <1>14 DEF SuspendWake, TypeOK, ControlTyped
  <2>2. CASE fState = "kRunning"
    <3>1. AskAndWait(how) /\ UNCHANGED <<fSuspendState, holds, pc>>
      BY <1>14, <2>2 DEF SuspendWake
    <3>2. waiting' \subseteq Threads /\ fBreakOnSysCall' \in BOOLEAN
      BY <3>1 DEF AskAndWait, BroadcastThenWait, Threads
    <3>3. ControlTyped'
      BY <1>14, <3>1 DEF SuspendWake, TypeOK, ControlTyped, Calling, stacks
    <3>4. QED
      BY <1>14, <3>1, <3>2, <3>3 DEF TypeOK, SuspendWake, stacks, dialogs
  <2>3. CASE fState # "kRunning"
    <3>1. Finish(how, fSuspendState) /\ UNCHANGED waiting
      BY <1>14, <2>3 DEF SuspendWake
    <3>2. /\ fSuspendState' \in Counters
          /\ holds' \in Seq([how: AllStopMethods, blocked: BOOLEAN])
          /\ fBreakOnSysCall' \in BOOLEAN
          /\ pc' \in {[pc EXCEPT !["ui"] = "idle"], [pc EXCEPT !["ui"] = "dialog"]}
      BY <2>1, <3>1, FinishTyped
    <3>3. ControlTyped'
      BY <1>14, <3>2 DEF SuspendWake, TypeOK, ControlTyped, Threads, Places,
         CPUPlaces, UIPlaces, Calling, stacks
    <3>4. QED
      BY <1>14, <3>1, <3>2, <3>3 DEF TypeOK, SuspendWake, stacks, dialogs
  <2>4. QED
    BY <2>2, <2>3
<1>15. CASE UIRomCall
  <2>1. stack["ui"] = <<>> /\ Len(stack["ui"]) = 0
    BY <1>15, EmptySeq DEF UIRomCall, TypeOK, ControlTyped, Calling
  <2>2. "idle" \in Returns("ui", Len(stack["ui"]) + 1)
    BY <2>1 DEF Returns
  <2>3. QED
    BY <1>15, <2>2, EnteringTyped DEF UIRomCall, Threads
<1>16. CASE Emulation("ui")
  BY <1>16, EmulationTyped DEF Threads
<1>17. QED
  BY <1>1, <1>2, <1>3, <1>4, <1>5, <1>6, <1>7, <1>8, <1>9, <1>10, <1>11, <1>12, <1>13,
     <1>14, <1>15, <1>16 DEF UIThread

\* Every step of the two threads keeps the types.
LEMMA StepTyped ==
  ASSUME TypeOK, [Next]_vars
  PROVE  TypeOK'
<1>1. CASE CPUThread
  BY <1>1, CPUThreadTyped
<1>2. CASE UIThread
  BY <1>2, UIThreadTyped
<1>3. ASSUME NEW t \in Threads, SpuriousWakeup(t)
      PROVE  TypeOK'
  <2>1. waiting' \subseteq Threads
    BY <1>3 DEF TypeOK, SpuriousWakeup
  <2>2. ControlTyped'
    BY <1>3 DEF TypeOK, ControlTyped, SpuriousWakeup, Calling, stacks, ui
  <2>3. QED
    BY <1>3, <2>1, <2>2 DEF TypeOK, SpuriousWakeup, monitor, stacks, dialogs, ui
<1>4. CASE UNCHANGED vars
  BY <1>4 DEF vars, monitor, stacks, dialogs, ui, TypeOK, ControlTyped, Calling
<1>5. QED
  BY <1>1, <1>2, <1>3, <1>4 DEF Next, Terminated

\* The session starts with every variable of its type.
LEMMA InitTyped == Init => TypeOK
<1> SUFFICES ASSUME Init PROVE TypeOK
  OBVIOUS
<1>1. Zero \in Counters
  BY CountersTyped
<1>2. StacksTyped(stack)
  <2>1. \A t \in Threads: stack[t] = <<>> /\ Len(stack[t]) = 0
    BY EmptySeq DEF Init
  <2>2. stack \in [Threads -> Seq(Frames)]
    BY DEF Init
  <2>3. QED
    BY <2>1, <2>2 DEF StacksTyped
<1>3. ControlTyped
  BY DEF Init, ControlTyped, Threads, Places, CPUPlaces, UIPlaces, Calling
<1>4. holds \in Seq([how: AllStopMethods, blocked: BOOLEAN])
  BY DEF Init
<1>5. QED
  BY <1>1, <1>2, <1>3, <1>4 DEF Init, TypeOK, States, Threads

\* TypeOK for every number of stoppers, every nesting depth and every choice
\* of events: the counters of EmSuspendState and the fState that CallCPU and
\* ExecuteSubroutine restore keep their types over every interleaving, and
\* ResumeThread never takes fSuspendByUIThread below zero.
THEOREM Typing == Spec => []TypeOK
<1>1. Init => TypeOK
  BY InitTyped
<1>2. TypeOK /\ [Next]_vars => TypeOK'
  BY StepTyped
<1>3. QED
  BY <1>1, <1>2, PTL DEF Spec

-----------------------------------------------------------------------------
(* The stacks of ExecuteSubroutine, and the stoppers.                        *)

\* The depth of a thread's nested calls.
LEMMA Depths ==
  ASSUME TypeOK, NEW t \in Threads
  PROVE  /\ Len(stack[t]) \in Nat
         /\ Calling(t) <=> Len(stack[t]) >= 1
         /\ Last(stack[t]) = stack[t][Len(stack[t])]
         /\ \A i \in 1..Len(stack[t]):
              stack[t][i] \in Frames /\ stack[t][i].counters.ui \in Nat
<1>1. stack[t] \in Seq(Frames)
  BY DEF TypeOK, StacksTyped
<1>2. Len(stack[t]) \in Nat /\ \A i \in 1..Len(stack[t]): stack[t][i] \in Frames
  BY <1>1, ElementOfSeq
<1>3. stack[t] = <<>> <=> Len(stack[t]) = 0
  BY <1>1, EmptySeq
<1>4. \A f \in Frames: f.counters.ui \in Nat
  BY DEF Frames, Counters
<1>5. Last(stack[t]) = stack[t][Len(stack[t])]
  BY DEF Last
<1>6. QED
  BY <1>2, <1>3, <1>4, <1>5 DEF Calling

\* The number of stoppers.
LEMMA Holding ==
  ASSUME TypeOK
  PROVE  Len(holds) \in Nat /\ (holds # <<>> <=> Len(holds) >= 1)
<1>1. holds \in Seq([how: AllStopMethods, blocked: BOOLEAN])
  BY DEF TypeOK
<1>2. QED
  BY <1>1, EmptySeq, LenProperties

\* A request of the UI thread is a reason to suspend.
LEMMA Requested ==
  \A c \in Counters: c.ui \in Nat /\ (c.ui >= 1 => c # Zero)
BY DEF Counters, Zero

\* A call puts a frame on the stack of its thread,
LEMMA Pushed ==
  ASSUME TypeOK, NEW t \in Threads, NEW f \in Frames,
         stack' = [stack EXCEPT ![t] = Append(@, f)]
  PROVE  /\ Len(stack'[t]) = Len(stack[t]) + 1
         /\ Calling(t)'
         /\ \A i \in 1..(Len(stack[t]) + 1):
              stack'[t][i] = IF i = Len(stack[t]) + 1 THEN f ELSE stack[t][i]
         /\ \A s \in Threads: s # t => stack'[s] = stack[s]
<1>1. stack \in [Threads -> Seq(Frames)] /\ stack[t] \in Seq(Frames)
  BY DEF TypeOK, StacksTyped
<1>2. stack'[t] = Append(stack[t], f) /\ \A s \in Threads: s # t => stack'[s] = stack[s]
  BY <1>1
<1>3. /\ Append(stack[t], f) \in Seq(Frames)
      /\ Len(Append(stack[t], f)) = Len(stack[t]) + 1
      /\ \A i \in 1..Len(stack[t]): Append(stack[t], f)[i] = stack[t][i]
      /\ Append(stack[t], f)[Len(stack[t]) + 1] = f
  BY <1>1, AppendProperties
<1>4. Len(stack[t]) \in Nat
  BY <1>1
<1>5. \A i \in 1..(Len(stack[t]) + 1): i # Len(stack[t]) + 1 => i \in 1..Len(stack[t])
  BY <1>4
<1>6. Append(stack[t], f) # <<>>
  BY <1>1, AppendProperties
<1>7. QED
  BY <1>2, <1>3, <1>5, <1>6 DEF Calling

\* its end takes it off,
LEMMA Popped ==
  ASSUME TypeOK, NEW t \in Threads, Calling(t), stack' = [stack EXCEPT ![t] = Front(@)]
  PROVE  /\ Len(stack'[t]) = Len(stack[t]) - 1
         /\ Calling(t)' <=> Len(stack[t]) > 1
         /\ \A i \in 1..(Len(stack[t]) - 1): stack'[t][i] = stack[t][i]
         /\ \A s \in Threads: s # t => stack'[s] = stack[s]
<1>1. stack \in [Threads -> Seq(Frames)] /\ stack[t] \in Seq(Frames) /\ stack[t] # <<>>
  BY DEF TypeOK, StacksTyped, Calling
<1>2. stack'[t] = Front(stack[t]) /\ \A s \in Threads: s # t => stack'[s] = stack[s]
  BY <1>1
<1>3. /\ Front(stack[t]) \in Seq(Frames)
      /\ Len(stack[t]) \in Nat \ {0}
      /\ Len(Front(stack[t])) = Len(stack[t]) - 1
      /\ \A i \in 1..(Len(stack[t]) - 1): Front(stack[t])[i] = stack[t][i]
  BY <1>1, FrontLast
<1>4. Front(stack[t]) = <<>> <=> Len(stack[t]) = 1
  BY <1>1, Pop DEF TypeOK
<1>5. Len(stack[t]) > 1 <=> Len(stack[t]) # 1
  <2>1. \A n \in Nat \ {0}: n > 1 <=> n # 1
    OBVIOUS
  <2>2. QED
    BY <1>3, <2>1
<1>6. QED
  BY <1>2, <1>3, <1>4, <1>5 DEF Calling

\* and CallCPU and the loop of ExecuteSubroutine change the one on top.
LEMMA Replaced ==
  ASSUME TypeOK, NEW t \in Threads, Calling(t), NEW f \in Frames,
         f.next = Last(stack[t]).next,
         stack' = [stack EXCEPT ![t] = [@ EXCEPT ![Len(stack[t])] = f]]
  PROVE  /\ Len(stack'[t]) = Len(stack[t])
         /\ Calling(t)'
         /\ \A i \in 1..Len(stack[t]):
              stack'[t][i] = IF i = Len(stack[t]) THEN f ELSE stack[t][i]
         /\ \A s \in Threads: s # t => stack'[s] = stack[s]
<1>1. stack \in [Threads -> Seq(Frames)] /\ stack[t] \in Seq(Frames)
  BY DEF TypeOK, StacksTyped
<1>2. /\ stack'[t] = [stack[t] EXCEPT ![Len(stack[t])] = f]
      /\ \A s \in Threads: s # t => stack'[s] = stack[s]
  BY <1>1
<1>3. Len(stack[t]) \in 1..Len(stack[t])
  BY Depths
<1>4. /\ Len([stack[t] EXCEPT ![Len(stack[t])] = f]) = Len(stack[t])
      /\ \A i \in 1..Len(stack[t]): [stack[t] EXCEPT ![Len(stack[t])] = f][i]
                                      = IF i = Len(stack[t]) THEN f ELSE stack[t][i]
  BY <1>1, <1>3, ExceptSeq
<1>5. [stack[t] EXCEPT ![Len(stack[t])] = f] # <<>>
  BY Replace DEF TypeOK, Calling
<1>6. QED
  BY <1>2, <1>4, <1>5 DEF Calling

\* What a step of the CPU thread can move.
LEMMA CPUMoves ==
  ASSUME TypeOK, CPUThread
  PROVE  /\ holds' = holds
         /\ pc'["ui"] = pc["ui"]
         /\ pc["cpu"] \in {"top", "wait"} /\ pc' # pc => RunTop \/ RunWake
<1>1. pc \in [Threads -> CPUPlaces \cup UIPlaces]
  BY DEF TypeOK, ControlTyped
<1>2. CASE RunTop \/ RunWake
  BY <1>1, <1>2 DEF RunTop, RunWake, Goto, ui, Threads
<1>3. CASE Emulation("cpu")
  <2>1. /\ pc["cpu"] \in {"call", "return", "fold", "execute", "special", "unwind", "drop"}
        /\ \E where: pc' = [pc EXCEPT !["cpu"] = where]
        /\ holds' = holds
    BY <1>3 DEF Emulation, CallCPU, CallCPUReturns, AfterCallCPU, EndOfCycle, ExecuteSpecial,
       RomCall, Happens, Entering, ExecuteSubroutine, SubroutineReturns, NestedError, Unwind,
       Drop, Scheduling, Goto, ui
  <2>2. QED
    BY <1>1, <2>1 DEF Threads
<1>4. CASE CycleSlowly \/ Breakpoint \/ SignalWaiters \/ HandleSystemCall \/ SysCallInUITask
             \/ SysCallInRootTask \/ SysCallInBackgroundTask \/ DeviceResets
  <2>1. /\ pc["cpu"] \in {"execute", "taskInfo"}
        /\ \E where: pc' = [pc EXCEPT !["cpu"] = where]
        /\ holds' = holds
    BY <1>4 DEF CycleSlowly, Breakpoint, SignalWaiters, HandleSystemCall, SysCallInUITask,
       SysCallInRootTask, SysCallInBackgroundTask, DeviceResets, TopLevel, Happens, Entering,
       ExecuteSubroutine, Scheduling, Goto, ui
  <2>2. QED
    BY <1>1, <2>1 DEF Threads
<1>5. CASE CPUThreadResets \/ DeviceError \/ Caught \/ BlockOnDialog \/ DialogWake
             \/ ButtonContinue \/ ButtonReset \/ ButtonDebug \/ ButtonDebugFails
  <2>1. /\ pc["cpu"] \notin {"top", "wait"}
        /\ pc' = pc \/ \E where: pc' = [pc EXCEPT !["cpu"] = where]
        /\ holds' = holds
    BY <1>5 DEF CPUThreadResets, DeviceError, Caught, BlockOnDialog, DialogWake,
       ButtonContinue, ButtonReset, ButtonDebug, ButtonDebugFails, TopLevel, Happens,
       Scheduling, Goto, ui
  <2>2. QED
    BY <1>1, <2>1 DEF Threads
<1>6. QED
  BY <1>2, <1>3, <1>4, <1>5 DEF CPUThread

\* The places inside of the emulated CPU and its wrappers.
CPUInside == {"call", "execute", "special", "taskInfo", "return", "fold"}

-----------------------------------------------------------------------------
(* Dialogs and exceptions, on a session whose UI thread makes no calls.      *)

\* The UI thread calls no ROM routine, neither for itself nor for a packet.
NoUICalls == UIEvents \cap {"romCall", "packet"} = {}

\* It is never inside, and has no exception to handle.
UIOutside == pc["ui"] \in {"idle", "suspend", "dialog", "unblock", "close", "destroy", "gone"}

\* What BlockOnDialog said stands until its wait ends.
Blocking == pc["cpu"] = "blocked" => fState = "kBlockedOnUI"

\* The steps of the UI thread that are left to it.
LEMMA OutsideMoves ==
  ASSUME NoUICalls, TypeOK, UIOutside, UIThread
  PROVE  /\ UIOutside'
         /\ pc'["cpu"] = pc["cpu"]
         /\ UNCHANGED stacks
         /\ fState' = fState \/ (fState = "kSuspended" /\ fState' = "kRunning")
         /\ UIThreadResets \/ fNestLevel' = fNestLevel
<1>1. pc \in [Threads -> CPUPlaces \cup UIPlaces] /\ UIOutside
  BY DEF TypeOK, ControlTyped
<1>2. Home \in {"idle", "dialog"}
  BY DEF Home
<1>3. CASE \E method \in StopMethods : SuspendThread(method)
  <2>1. /\ \E where \in {"suspend", "idle", "dialog"} : pc' = [pc EXCEPT !["ui"] = where]
        /\ UNCHANGED stacks /\ fState' = fState /\ fNestLevel' = fNestLevel
    BY <1>2, <1>3 DEF SuspendThread, Finish, Goto
  <2>2. QED
    BY <1>1, <2>1 DEF UIOutside, Threads
<1>4. CASE SuspendWake
  <2>1. /\ \/ pc' = pc
           \/ \E where \in {"idle", "dialog"} : pc' = [pc EXCEPT !["ui"] = where]
        /\ UNCHANGED stacks /\ fState' = fState /\ fNestLevel' = fNestLevel
    BY <1>2, <1>4 DEF SuspendWake, Finish, Goto
  <2>2. QED
    BY <1>1, <2>1 DEF UIOutside, Threads
<1>5. CASE ResumeThread
  <2>1. /\ \E where \in {"idle", "dialog"} : pc' = [pc EXCEPT !["ui"] = where]
        /\ UNCHANGED stacks /\ fNestLevel' = fNestLevel
    BY <1>1, <1>2, <1>5 DEF ResumeThread, Goto, UIOutside
  <2>2. fState' = fState \/ (fState = "kSuspended" /\ fState' = "kRunning")
    BY <1>5 DEF ResumeThread
  <2>3. QED
    BY <1>1, <2>1, <2>2 DEF UIOutside, Threads
<1>6. ~(UIRomCall \/ PacketEntersDebugger \/ PacketExitsDebugger)
  BY DEF NoUICalls, UIRomCall, PacketEntersDebugger, PacketExitsDebugger
<1>7. ~(Emulation("ui") \/ HostSignalResume \/ PacketHandlerResets)
  BY <1>1 DEF UIOutside, Emulation, CallCPU, CallCPUReturns, AfterCallCPU, EndOfCycle,
     ExecuteSpecial, RomCall, Happens, SubroutineReturns, NestedError, Unwind, Drop,
     HostSignalResume, PacketHandlerResets
<1>8. CASE UIThreadResets
  BY <1>1, <1>8 DEF UIThreadResets, UIOutside
<1>9. CASE ShowDialog \/ AnswerDialog \/ UnblockDialog \/ CloseDocument \/ DestroyThread
             \/ DestroyWake
  <2>1. /\ \/ pc' = pc
           \/ \E where \in {"dialog", "unblock", "idle", "close", "destroy", "gone"} :
                pc' = [pc EXCEPT !["ui"] = where]
        /\ UNCHANGED stacks /\ fState' = fState /\ fNestLevel' = fNestLevel
    BY <1>9 DEF ShowDialog, AnswerDialog, UnblockDialog, CloseDocument, DestroyThread,
       DestroyWake, Goto, monitor
  <2>2. QED
    BY <1>1, <2>1 DEF UIOutside, Threads
<1>10. QED
  BY <1>3, <1>4, <1>5, <1>6, <1>7, <1>8, <1>9 DEF UIThread

\* The CPU thread moves itself only, and says that it is blocked before it waits.
LEMMA BlockedMoves ==
  ASSUME TypeOK, Blocking, CPUThread
  PROVE  Blocking' /\ pc'["ui"] = pc["ui"]
<1>1. pc \in [Threads -> CPUPlaces \cup UIPlaces]
  BY DEF TypeOK, ControlTyped
<1>2. pc'["ui"] = pc["ui"]
  BY CPUMoves
<1>3. CASE BlockOnDialog
  BY <1>1, <1>2, <1>3 DEF BlockOnDialog, Blocking, Goto, Threads
<1>4. CASE DialogWake
  <2>1. \/ fState' = fState /\ pc' = pc
        \/ \E where \in {"reset", "button", "error"} : pc' = [pc EXCEPT !["cpu"] = where]
    BY <1>4 DEF DialogWake, Goto
  <2>2. QED
    BY <1>1, <1>2, <2>1 DEF Blocking, Threads
<1>5. CASE Emulation("cpu")
  <2>1. pc'["cpu"] # "blocked"
    <3>1. CASE AfterCallCPU("cpu")
      <4>1. Calling("cpu")
        BY <3>1 DEF AfterCallCPU, TypeOK, ControlTyped, Threads
      <4>2. Last(stack["cpu"]).next \in {"execute", "taskInfo", "idle"}
        BY <4>1, Pop DEF TypeOK, Calling, Frames, Threads
      <4>3. \E where \in {"call", "execute", "taskInfo", "idle"} :
              pc' = [pc EXCEPT !["cpu"] = where]
        BY <3>1, <4>2 DEF AfterCallCPU, Goto
      <4>4. QED
        BY <1>1, <4>3 DEF Threads
    <3>2. CASE ~AfterCallCPU("cpu")
      <4>1. \E where \in {"execute", "fold", "top", "special", "return", "call", "unwind",
                          "drop", "caught"} : pc' = [pc EXCEPT !["cpu"] = where]
        BY <1>5, <3>2 DEF Emulation, CallCPU, CallCPUReturns, EndOfCycle, ExecuteSpecial,
           RomCall, Happens, Entering, ExecuteSubroutine, SubroutineReturns, NestedError,
           Unwind, Drop, Scheduling, Goto
      <4>2. QED
        BY <1>1, <4>1 DEF Threads
    <3>3. QED
      BY <3>1, <3>2
  <2>2. QED
    BY <1>2, <2>1 DEF Blocking
<1>6. CASE RunTop \/ RunWake \/ CycleSlowly \/ Breakpoint \/ SignalWaiters
             \/ HandleSystemCall \/ SysCallInUITask \/ SysCallInRootTask
             \/ SysCallInBackgroundTask \/ DeviceResets \/ CPUThreadResets
  <2>1. /\ pc["cpu"] # "blocked"
        /\ \/ pc' = pc
           \/ \E where \in {"done", "wait", "call", "special", "execute", "top"} :
                pc' = [pc EXCEPT !["cpu"] = where]
    BY <1>6 DEF RunTop, RunWake, CycleSlowly, Breakpoint, SignalWaiters, HandleSystemCall,
       SysCallInUITask, SysCallInRootTask, SysCallInBackgroundTask, DeviceResets,
       CPUThreadResets, TopLevel, Happens, Entering, ExecuteSubroutine, Scheduling, Goto
  <2>2. QED
    BY <1>1, <1>2, <2>1 DEF Blocking, Threads
<1>7. CASE DeviceError \/ Caught \/ ButtonContinue \/ ButtonReset \/ ButtonDebug
             \/ ButtonDebugFails
  <2>1. \E where \in {"error", "top", "reset", "display", "execute", "unwind"} :
          pc' = [pc EXCEPT !["cpu"] = where]
    BY <1>7 DEF DeviceError, Caught, ButtonContinue, ButtonReset, ButtonDebug,
       ButtonDebugFails, Scheduling, Goto
  <2>2. QED
    BY <1>1, <1>2, <2>1 DEF Blocking, Threads
<1>8. QED
  BY <1>3, <1>4, <1>5, <1>6, <1>7 DEF CPUThread

\* UIOutside and Blocking, step by step.
LEMMA OutsideKept ==
  ASSUME NoUICalls, TypeOK, UIOutside, Blocking, [Next]_vars
  PROVE  UIOutside' /\ Blocking'
<1>1. CASE CPUThread
  BY <1>1, BlockedMoves DEF UIOutside
<1>2. CASE UIThread
  BY <1>2, OutsideMoves DEF Blocking
<1>3. CASE Terminated \/ UNCHANGED vars \/ \E t \in Threads : SpuriousWakeup(t)
  BY <1>3 DEF Terminated, SpuriousWakeup, vars, monitor, UIOutside, Blocking
<1>4. QED
  BY <1>1, <1>2, <1>3 DEF Next

\* The UI thread stays outside, and a blocked thread is marked as such.
LEMMA Outside ==
  ASSUME NoUICalls
  PROVE  Spec => [](TypeOK /\ UIOutside /\ Blocking)
<1>1. Init => TypeOK /\ UIOutside /\ Blocking
  BY InitTyped DEF Init, UIOutside, Blocking, Threads
<1>2. TypeOK /\ UIOutside /\ Blocking /\ [Next]_vars => (TypeOK /\ UIOutside /\ Blocking)'
  BY StepTyped, OutsideKept
<1>3. QED
  BY <1>1, <1>2, PTL DEF Spec

\* BlockedAsserts: the assertion in the wait of BlockOnDialog cannot fail, for every error,
\* nested or not, and whatever stoppers, resets and closings the UI thread gets up to
\* meanwhile, if it makes no calls.
THEOREM Blocked == NoUICalls => (Spec => []BlockedAsserts)
<1> SUFFICES ASSUME NoUICalls PROVE Spec => []BlockedAsserts
  OBVIOUS
<1>1. TypeOK /\ UIOutside /\ Blocking => BlockedAsserts
  BY DEF Blocking, BlockedAsserts
<1>2. QED
  BY <1>1, Outside, PTL

-----------------------------------------------------------------------------
\* The UI thread neither calls ROM routines nor resets the device.
NoUICommands == UIEvents \cap {"romCall", "packet", "reset"} = {}

\* Where the CPU thread can be in the middle of ExecuteSubroutine.
CPUCalls == CPUInside \cup {"unwind", "drop"}

\* Each activation of the CPU thread saved the depth it was called at, and Run's loop,
\* its handlers and the dialogs have none.
Levels ==
  /\ \A i \in 1..Len(stack["cpu"]) : stack["cpu"][i].nest = i - 1
  /\ fNestLevel = Len(stack["cpu"])
  /\ pc["cpu"] \notin CPUCalls => ~Calling("cpu")

\* The emulated CPU outside of ROM routines, under the top level of the emulation.
LEMMA TopLevelFlat ==
  ASSUME TypeOK, Levels, ~IsNested \/ ~Calling("cpu")
  PROVE  fNestLevel = 0 /\ Len(stack["cpu"]) = 0 /\ ~Calling("cpu")
<1>1. Len(stack["cpu"]) \in Nat /\ (Calling("cpu") <=> Len(stack["cpu"]) >= 1)
  BY Depths DEF Threads
<1>2. \A n \in Nat : ~(n > 0) \/ ~(n >= 1) => n = 0 /\ ~(n >= 1)
  OBVIOUS
<1>3. QED
  BY <1>1, <1>2, Zenon DEF Levels, IsNested

\* A step of the CPU thread that leaves its stack alone.
LEMMA FlatSteps ==
  ASSUME TypeOK, Levels, stack' = stack, fNestLevel' = fNestLevel,
         pc'["cpu"] \notin CPUCalls => ~Calling("cpu")
  PROVE  Levels'
BY DEF Levels, Calling

\* ExecuteSubroutine goes one level deeper.
LEMMA EnteringDeepens ==
  ASSUME TypeOK, Levels, NEW next \in {"execute", "taskInfo"}, Entering("cpu", next)
  PROVE  Levels'
<1> DEFINE frame == [counters |-> fSuspendState, state |-> fState, nest |-> fNestLevel,
                     next |-> next]
           depth == Len(stack["cpu"])
<1>1. /\ pc' = [pc EXCEPT !["cpu"] = "call"] /\ pc \in [Threads -> CPUPlaces \cup UIPlaces]
      /\ stack' = [stack EXCEPT !["cpu"] = Append(@, frame)]
      /\ fNestLevel' = fNestLevel + 1
  BY DEF Entering, ExecuteSubroutine, Goto, TypeOK, ControlTyped
<1>2. frame \in Frames /\ frame.nest = fNestLevel
  BY DEF TypeOK, Frames
<1> HIDE DEF frame
<1>3. /\ Len(stack'["cpu"]) = depth + 1
      /\ \A i \in 1..(depth + 1) :
           stack'["cpu"][i] = IF i = depth + 1 THEN frame ELSE stack["cpu"][i]
  BY <1>1, <1>2, Pushed DEF Threads
<1>4. depth \in Nat /\ fNestLevel = depth
  BY Depths DEF Levels, Threads
<1>5. \A i \in 1..(depth + 1) : stack'["cpu"][i].nest = i - 1
  <2> SUFFICES ASSUME NEW i \in 1..(depth + 1) PROVE stack'["cpu"][i].nest = i - 1
    OBVIOUS
  <2>1. CASE i = depth + 1
    BY <1>2, <1>3, <1>4, <2>1
  <2>2. CASE i # depth + 1
    <3>1. i \in 1..depth
      BY <1>4, <2>2
    <3>2. QED
      BY <1>3, <2>2, <3>1 DEF Levels
  <2>3. QED
    BY <2>1, <2>2
<1>6. pc'["cpu"] \in CPUCalls
  BY <1>1 DEF Threads, CPUCalls, CPUInside
<1>7. QED
  BY <1>1, <1>3, <1>4, <1>5, <1>6 DEF Levels

\* The end of ExecuteSubroutine, by its return or by an exception, restores the depth.
LEMMA LeavingRestores ==
  ASSUME TypeOK, Levels, Calling("cpu"), stack' = [stack EXCEPT !["cpu"] = Front(@)],
         fNestLevel' = Last(stack["cpu"]).nest, pc'["cpu"] \in CPUCalls
  PROVE  Levels'
<1> DEFINE depth == Len(stack["cpu"])
<1>1. /\ Len(stack'["cpu"]) = depth - 1
      /\ \A i \in 1..(depth - 1) : stack'["cpu"][i] = stack["cpu"][i]
  BY Popped DEF Threads
<1>2. depth \in Nat /\ depth \in 1..depth /\ Last(stack["cpu"]) = stack["cpu"][depth]
  BY Depths DEF Threads
<1>3. fNestLevel' = depth - 1
  BY <1>2 DEF Levels
<1>4. \A i \in 1..(depth - 1) : stack'["cpu"][i].nest = i - 1
  BY <1>1, <1>2 DEF Levels
<1>5. QED
  BY <1>1, <1>3, <1>4 DEF Levels

\* CallCPU, and the loop of ExecuteSubroutine, change the frame on top only.
LEMMA TopKeepsLevel ==
  ASSUME TypeOK, Levels, Calling("cpu"), NEW f \in Frames,
         f.next = Last(stack["cpu"]).next, f.nest = Last(stack["cpu"]).nest,
         stack' = [stack EXCEPT !["cpu"] = [@ EXCEPT ![Len(stack["cpu"])] = f]],
         fNestLevel' = fNestLevel, pc'["cpu"] \in CPUCalls
  PROVE  Levels'
<1> DEFINE depth == Len(stack["cpu"])
<1>1. /\ Len(stack'["cpu"]) = depth
      /\ \A i \in 1..depth : stack'["cpu"][i] = IF i = depth THEN f ELSE stack["cpu"][i]
  BY Replaced DEF Threads
<1>2. Last(stack["cpu"]) = stack["cpu"][depth]
  BY Depths DEF Threads
<1>3. \A i \in 1..depth : stack'["cpu"][i].nest = stack["cpu"][i].nest
  BY <1>1, <1>2
<1>4. QED
  BY <1>1, <1>3 DEF Levels

\* The emulation loop of the CPU thread, with the exceptions of nested errors.
LEMMA EmulationLevels ==
  ASSUME TypeOK, Levels, Emulation("cpu")
  PROVE  Levels'
<1>1. pc \in [Threads -> CPUPlaces \cup UIPlaces]
  BY DEF TypeOK, ControlTyped
<1>2. CASE CallCPU("cpu")
  <2>1. pc'["cpu"] \in CPUCalls /\ fNestLevel' = fNestLevel
    BY <1>1, <1>2 DEF CallCPU, Goto, CPUCalls, CPUInside, Threads
  <2>2. CASE Calling("cpu")
    <3> DEFINE frame == [Last(stack["cpu"]) EXCEPT !.state = fState]
    <3>1. stack' = [stack EXCEPT !["cpu"] = [@ EXCEPT ![Len(stack["cpu"])] = frame]]
      BY <1>2, <2>2 DEF CallCPU, Last
    <3>2. Last(stack["cpu"]) \in Frames
      BY <2>2, Pop DEF TypeOK, Calling, Threads
    <3>3. /\ frame \in Frames /\ frame.next = Last(stack["cpu"]).next
          /\ frame.nest = Last(stack["cpu"]).nest
      BY <3>2 DEF Frames, TypeOK
    <3> HIDE DEF frame
    <3>4. QED
      BY <2>1, <2>2, <3>1, <3>3, TopKeepsLevel
  <2>3. CASE ~Calling("cpu")
    BY <1>2, <2>1, <2>3, FlatSteps DEF CallCPU
  <2>4. QED
    BY <2>2, <2>3
<1>3. CASE AfterCallCPU("cpu")
  <2> DEFINE last   == Last(stack["cpu"])
             saved  == Folded(last.counters, fSuspendState)
             frame  == [last EXCEPT !.counters = saved]
  <2>1. Calling("cpu")
    BY <1>3 DEF AfterCallCPU, TypeOK, ControlTyped, Threads
  <2>2. /\ last \in Frames /\ last.next \in {"execute", "taskInfo"}
        /\ last = stack["cpu"][Len(stack["cpu"])]
    BY <2>1, Depths, Pop DEF TypeOK, Calling, Threads, Returns
  <2>3. CASE Standing(fSuspendState) = Zero
    <3>1. /\ stack' = [stack EXCEPT !["cpu"] = [@ EXCEPT ![Len(stack["cpu"])] = frame]]
          /\ fNestLevel' = last.nest + 1 /\ pc' = [pc EXCEPT !["cpu"] = "call"]
      BY <1>3, <2>3 DEF AfterCallCPU, Last, Goto
    <3>2. saved \in Counters
      BY <2>2, CountersTyped DEF TypeOK, Frames
    <3> HIDE DEF saved
    <3>3. frame \in Frames /\ frame.next = last.next /\ frame.nest = last.nest
      BY <2>2, <3>2 DEF Frames
    <3> HIDE DEF frame
    <3>4. fNestLevel' = fNestLevel
      <4>1. Len(stack["cpu"]) \in Nat /\ Len(stack["cpu"]) \in 1..Len(stack["cpu"])
        BY <2>1, Depths DEF Threads
      <4>2. last.nest = Len(stack["cpu"]) - 1 /\ fNestLevel = Len(stack["cpu"])
        BY <2>2, <4>1 DEF Levels
      <4>3. QED
        BY <3>1, <4>1, <4>2
    <3>5. pc'["cpu"] \in CPUCalls
      BY <1>1, <3>1 DEF CPUCalls, CPUInside, Threads
    <3>6. QED
      BY <2>1, <3>1, <3>3, <3>4, <3>5, TopKeepsLevel
  <2>4. CASE Standing(fSuspendState) # Zero
    <3>1. /\ stack' = [stack EXCEPT !["cpu"] = Front(@)] /\ fNestLevel' = last.nest
          /\ pc' = [pc EXCEPT !["cpu"] = last.next]
      BY <1>3, <2>4 DEF AfterCallCPU, Goto
    <3>2. pc'["cpu"] \in CPUCalls
      BY <1>1, <2>2, <3>1 DEF CPUCalls, CPUInside, Threads
    <3>3. QED
      BY <2>1, <3>1, <3>2, LeavingRestores
  <2>5. QED
    BY <2>3, <2>4
<1>4. CASE RomCall("cpu")
  BY <1>4, EnteringDeepens DEF RomCall
<1>5. CASE Drop("cpu")
  <2>1. /\ Calling("cpu") /\ pc'["cpu"] \in CPUCalls
        /\ stack' = [stack EXCEPT !["cpu"] = Front(@)]
        /\ fNestLevel' = Last(stack["cpu"]).nest
    BY <1>1, <1>5 DEF Drop, Goto, TypeOK, ControlTyped, CPUCalls, Threads
  <2>2. QED
    BY <2>1, LeavingRestores
<1>6. CASE CallCPUReturns("cpu") \/ Unwind("cpu")
  <2>1. /\ stack' = stack /\ fNestLevel' = fNestLevel
        /\ pc' = [pc EXCEPT !["cpu"] = IF Calling("cpu") THEN "fold" ELSE "top"]
           \/ pc' = [pc EXCEPT !["cpu"] = IF Calling("cpu") THEN "drop" ELSE "caught"]
    BY <1>6 DEF CallCPUReturns, Unwind, Goto, stacks
  <2>2. pc'["cpu"] \notin CPUCalls => ~Calling("cpu")
    BY <1>1, <2>1 DEF CPUCalls, CPUInside, Threads
  <2>3. QED
    BY <2>1, <2>2, FlatSteps
<1>7. CASE EndOfCycle("cpu") \/ ExecuteSpecial("cpu") \/ SubroutineReturns("cpu")
             \/ NestedError("cpu")
  <2>1. /\ stack' = stack /\ fNestLevel' = fNestLevel
        /\ \E where \in {"special", "return", "execute", "unwind"} :
             pc' = [pc EXCEPT !["cpu"] = where]
    BY <1>7 DEF EndOfCycle, ExecuteSpecial, SubroutineReturns, NestedError, Scheduling,
       Goto, stacks, monitor
  <2>2. pc'["cpu"] \in CPUCalls
    BY <1>1, <2>1 DEF CPUCalls, CPUInside, Threads
  <2>3. QED
    BY <2>1, <2>2, FlatSteps
<1>8. QED
  BY <1>2, <1>3, <1>4, <1>5, <1>6, <1>7 DEF Emulation

\* Every step of the CPU thread, its resets and dialogs included.
LEMMA CPUThreadLevels ==
  ASSUME TypeOK, Levels, CPUThread
  PROVE  Levels'
<1>1. pc \in [Threads -> CPUPlaces \cup UIPlaces]
  BY DEF TypeOK, ControlTyped
<1>2. CASE Emulation("cpu")
  BY <1>2, EmulationLevels
<1>3. CASE HandleSystemCall \/ SysCallInRootTask
  <2>1. \E next \in {"execute", "taskInfo"} : Entering("cpu", next)
    BY <1>3 DEF HandleSystemCall, SysCallInRootTask
  <2>2. QED
    BY <2>1, EnteringDeepens
<1>4. CASE CycleSlowly \/ Breakpoint \/ SignalWaiters \/ SysCallInUITask
             \/ SysCallInBackgroundTask
  <2>1. /\ stack' = stack /\ fNestLevel' = fNestLevel
        /\ \E where \in {"special", "execute"} : pc' = [pc EXCEPT !["cpu"] = where]
    BY <1>4 DEF CycleSlowly, Breakpoint, SignalWaiters, SysCallInUITask,
       SysCallInBackgroundTask, Scheduling, Goto, stacks
  <2>2. pc'["cpu"] \in CPUCalls
    BY <1>1, <2>1 DEF CPUCalls, CPUInside, Threads
  <2>3. QED
    BY <2>1, <2>2, FlatSteps
<1>5. CASE DeviceResets \/ CPUThreadResets
  <2>1. ~IsNested \/ ~Calling("cpu")
    BY <1>5 DEF DeviceResets, TopLevel, CPUThreadResets, Levels, CPUCalls, CPUInside
  <2>2. fNestLevel = 0 /\ ~Calling("cpu")
    BY <2>1, TopLevelFlat
  <2>3. stack' = stack /\ fNestLevel' = 0
    BY <1>5 DEF DeviceResets, CPUThreadResets, Reset, stacks
  <2>4. QED
    BY <2>2, <2>3, FlatSteps
<1>6. CASE DeviceError
  <2>1. ~Calling("cpu")
    BY <1>6, TopLevelFlat DEF DeviceError, TopLevel
  <2>2. QED
    BY <1>6, <2>1, FlatSteps DEF DeviceError, monitor, stacks
<1>7. CASE RunTop \/ RunWake \/ Caught \/ BlockOnDialog \/ DialogWake \/ ButtonContinue
             \/ ButtonReset \/ ButtonDebug \/ ButtonDebugFails
  <2>1. /\ pc["cpu"] \in {"top", "wait", "caught", "error", "display", "blocked", "button"}
        /\ stack' = stack /\ fNestLevel' = fNestLevel
    BY <1>7 DEF RunTop, RunWake, Caught, BlockOnDialog, DialogWake, ButtonContinue,
       ButtonReset, ButtonDebug, ButtonDebugFails, Scheduling, monitor, stacks
  <2>2. ~Calling("cpu")
    BY <2>1 DEF Levels, CPUCalls, CPUInside
  <2>3. QED
    BY <2>1, <2>2, FlatSteps
<1>8. QED
  BY <1>2, <1>3, <1>4, <1>5, <1>6, <1>7 DEF CPUThread

\* NestLevelCounts over dialogs and exceptions: ExecuteSubroutine, and the unwinding of
\* what was thrown in it, keep fNestLevel at the number of activations, if the UI thread
\* leaves the device alone.
THEOREM Unwinding == NoUICommands => (Spec => []NestLevelCounts)
<1> SUFFICES ASSUME NoUICommands PROVE Spec => []NestLevelCounts
  OBVIOUS
<1>1. NoUICalls
  BY DEF NoUICommands, NoUICalls
<1>2. Init => Levels
  BY EmptySeq DEF Init, Levels, Calling, Threads
<1>3. TypeOK /\ UIOutside /\ Levels /\ [Next]_vars => Levels'
  <2> SUFFICES ASSUME TypeOK, UIOutside, Levels, [Next]_vars PROVE Levels'
    OBVIOUS
  <2>1. CASE CPUThread
    BY <2>1, CPUThreadLevels
  <2>2. CASE UIThread
    <3>1. ~UIThreadResets
      BY DEF NoUICommands, UIThreadResets
    <3>2. pc'["cpu"] = pc["cpu"] /\ stack' = stack /\ fNestLevel' = fNestLevel
      BY <1>1, <2>2, <3>1, OutsideMoves DEF stacks
    <3>3. QED
      BY <3>2, FlatSteps DEF Levels
  <2>3. CASE Terminated \/ UNCHANGED vars \/ \E t \in Threads : SpuriousWakeup(t)
    <3>1. pc' = pc /\ stack' = stack /\ fNestLevel' = fNestLevel
      BY <2>3 DEF Terminated, SpuriousWakeup, vars, monitor, stacks
    <3>2. QED
      BY <3>1, FlatSteps DEF Levels
  <2>4. QED
    BY <2>1, <2>2, <2>3 DEF Next
<1>4. TypeOK /\ UIOutside /\ Levels => NestLevelCounts
  <2> SUFFICES ASSUME TypeOK, UIOutside, Levels PROVE NestLevelCounts
    OBVIOUS
  <2>1. Len(stack["cpu"]) \in Nat /\ Len(stack["ui"]) = 0
    <3>1. ~Calling("ui")
      BY DEF UIOutside, TypeOK, ControlTyped
    <3>2. QED
      BY <3>1, Depths, EmptySeq DEF Calling, Threads
  <2>2. \A n \in Nat : n + 0 = n
    OBVIOUS
  <2>3. QED
    BY <2>1, <2>2, Zenon DEF Levels, NestLevelCounts
<1>5. QED
  BY <1>1, <1>2, <1>3, <1>4, Outside, PTL DEF Spec
===============================================================================
